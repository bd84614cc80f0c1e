------------------------------ MODULE CMeaning ------------------------------
(***************************************************************************)
(* What a program means in C: the yardstick for typing and lowering.       *)
(*                                                                         *)
(* It reads the tree as the grammar builds it, before any typing, and is   *)
(* written from the rules of the language: a type is the range of its      *)
(* values, and promotions and common types are found by comparing ranges.  *)
(* Operands are taken from left to right, the right side of an assignment  *)
(* first.  Integers wrap around.  Division by zero, a shift by the width   *)
(* or more, a value read before it is set and the value of a function that *)
(* returns none are undefined.                                             *)
(*                                                                         *)
(* Every variable in memory has a value of its own here, so that two that  *)
(* share bytes are told apart.                                             *)
(***************************************************************************)
EXTENDS IrRun, Typing

Unset == -1000000     \* value of a local variable before it is set

Low(bits, signed) == IF signed THEN -(2 ^ (bits - 1)) ELSE 0
High(bits, signed) == IF signed THEN 2 ^ (bits - 1) - 1 ELSE 2 ^ bits - 1
LowOf(ty) == Low(IntBits(ty), ty \in SignedTypes)
HighOf(ty) == High(IntBits(ty), ty \in SignedTypes)
Includes(a, b) == LowOf(a) <= LowOf(b) /\ HighOf(b) <= HighOf(a)
InInt(low, high) == LowOf("int") <= low /\ high <= HighOf("int")

\* The value of type ty congruent to v.
Wrapped(v, bits, signed) ==
  LET span == 2 ^ bits  low == Low(bits, signed) IN low + ((v - low) % span)
As(v, ty) == IF IsBool(ty) THEN (IF v = 0 THEN 0 ELSE 1) ELSE Wrapped(v, IntBits(ty), ty \in SignedTypes)

Promotion(ty) ==
  IF ty \in {"int", "uint", "long", "ulong"} THEN ty
  ELSE IF InInt(LowOf(ty), HighOf(ty)) THEN "int" ELSE "uint"
Usual(a, b) ==
  IF Includes(a, b) THEN a ELSE IF Includes(b, a) THEN b ELSE IF a \in SignedTypes THEN b ELSE a

\* The type of an expression, and that of its value as an operand.
RECURSIVE TypeOf(_, _), OperandType(_, _)
TypeOf(p, e) ==
  LET t(i) == TypeOf(p, e.k[i])
      o(i) == OperandType(p, e.k[i])
  IN CASE e.e \in {"int", "cast"} -> e.ty
       [] e.e = "var" -> p.vars[e.x].ty
       [] e.e = "un" -> IF e.op = "!" THEN "int" ELSE o(1)
       [] e.e = "bin" -> IF e.op \in Comparisons \cup {"&&", "||"} THEN "int"
                         ELSE IF e.op \in {"<<", ">>"} THEN o(1) ELSE Usual(o(1), o(2))
       [] e.e \in {"assign", "comp", "incdec"} -> t(1)
       [] e.e = "cond" -> IF "void" \in {t(2), t(3)} THEN "void"
                          ELSE IF t(2) = "bit" /\ t(3) = "bit" THEN "bit" ELSE Usual(o(2), o(3))
       [] e.e = "elvis" -> IF t(1) = "bit" /\ t(2) = "bit" THEN "bit" ELSE Usual(o(1), o(2))
       [] e.e = "comma" -> t(2)
       [] e.e = "call" -> p.protos[e.x].ret
OperandType(p, e) ==
  LET i == p.vars[e.x]
      signed == i.ty \in SignedTypes
  IN IF e.e = "var" /\ p.vars[e.x].at = "bits" /\ InInt(Low(i.w, signed), High(i.w, signed))
     THEN "int" ELSE Promotion(TypeOf(p, e))

\* x op y for values of type ty (a shift: x of that type), or Unset.
Computed(op, x, y, ty) ==
  LET bits == IntBits(ty)  signed == ty \in SignedTypes
      q == Quotient(x, y)
  IN IF (op \in {"/", "%"} /\ y = 0) \/ (op \in {"<<", ">>"} /\ y \notin 0 .. bits - 1) THEN Unset
     ELSE Wrapped(CASE op = "+" -> x + y [] op = "-" -> x - y [] op = "*" -> x * y
                    [] op = "/" -> q
                    [] op = "%" -> x - y * q
                    [] op = "<<" -> x * 2 ^ y
                    [] op = ">>" -> x \div 2 ^ y
                    [] op = "&" -> And(Norm(bits, x), Norm(bits, y))
                    [] op = "|" -> Or(Norm(bits, x), Norm(bits, y))
                    [] op = "^" -> Xor(Norm(bits, x), Norm(bits, y)), bits, signed)
Compared(op, x, y) ==
  CASE op = "==" -> x = y [] op = "!=" -> x # y [] op = "<" -> x < y
    [] op = "<=" -> x <= y [] op = ">" -> x > y [] op = ">=" -> x >= y

-----------------------------------------------------------------------------
(* A state is that of IrRun, with values by name and, for statements, what  *)
(* goes on: "run", "break", "continue", "return" or "seek", a label.        *)

Undef(s) == Halt(s, "undefined")
Val(s, v) == IF v = Unset THEN Undef(s) ELSE [s EXCEPT !.val = v]
Then(s, next) == IF s.stop # "" THEN s ELSE next

\* Bits of a variable in memory: the first, and how many.
At(i) == I8 * i.o + i.bo
Width(i) == IF i.at = "bits" THEN i.w ELSE IF IsBool(i.ty) THEN I8 ELSE IntBits(i.ty)
InMemory(i) == i.at \in {"ram", "bits"}
Decoded(ram, i) ==
  Wrapped(ram \div 2 ^ At(i), IF IsBool(i.ty) THEN 1 ELSE Width(i), i.ty \in SignedTypes)

\* A read or write of one volatile byte or bit.
ReadByte(s, in, a, bits) ==
  [Take(Event(s, "load", "sfr", a, 0)) EXCEPT !.val = Norm(bits, Input(s, in))]
WriteByte(s, a, bits, v) == Event(s, "store", "sfr", a, Norm(bits, v))

Read(p, s, in, x) ==
  LET i == p.vars[x]
      lo == ReadByte(s, in, i.o, I8)
      hi == ReadByte(lo, in, i.bo, I8)
  IN CASE i.at = "sfr" -> [lo EXCEPT !.val = Norm(IntBits(i.ty), @)]
       [] i.at = "sfr16" -> [hi EXCEPT !.val = As(lo.val + 2 ^ I8 * @, i.ty)]
       [] OTHER -> Val(s, s.env[x])

\* Assign v, converted to the type of x; the value is what x then holds.
Write(p, s, x, v) ==
  LET i == p.vars[x]
      u == As(v, i.ty)
      w == IF i.at = "bits" THEN Wrapped(u, i.w, i.ty \in SignedTypes) ELSE u
      kept == [s EXCEPT !.env[x] = w, !.val = w]
  IN CASE i.at = "sfr" -> [WriteByte(s, i.o, IntBits(i.ty), u) EXCEPT !.val = u]
       [] i.at = "sfr16" -> [WriteByte(WriteByte(s, i.o, I8, u), i.bo, I8, u \div 2 ^ I8) EXCEPT !.val = u]
       [] InMemory(i) -> [kept EXCEPT !.ram = Replace(@, At(i), Width(i), w)]
       [] OTHER -> kept

RECURSIVE Eval(_, _, _, _), EvalArgs(_, _, _, _, _)

\* The values of the arguments from the n-th on, as the parameters' bits.
EvalArgs(p, s, in, e, n) ==
  LET x == Eval(p, s, in, e.k[n])
      ty == p.protos[e.x].params[n]
      r == EvalArgs(p, x, in, e, n + 1)
  IN IF n > Len(e.k) THEN [s EXCEPT !.val = <<>>]
     ELSE Then(x, Then(r, [r EXCEPT !.val = <<Norm(Signatures[e.x].params[n], As(x.val, ty))>> \o @]))

\* A call of an external function is seen with its arguments and delivers an input.
EvalCall(p, s, in, e) ==
  LET a == EvalArgs(p, s, in, e, 1)
      arg(n) == IF n <= Len(e.k) THEN a.val[n] ELSE 0
      ret == p.protos[e.x].ret
      called == Event(a, "call", e.x, arg(1) + 256 * arg(2), a.ram)
  IN Then(a, IF ret = "void" THEN [called EXCEPT !.val = 0]
             ELSE [Take(called) EXCEPT !.val = As(Input(a, in), ret)])

Eval(p, s, in, e) ==
  LET ty == TypeOf(p, e)
      a == e.k[1]
      x == Eval(p, s, in, a)
      y == Eval(p, x, in, e.k[2])
      short == x.val = 0
      oty == Usual(OperandType(p, a), OperandType(p, e.k[2]))
      shift == e.op \in {"<<", ">>"}
  IN CASE s.stop # "" -> s
       [] s.stop = "" /\ e.e = "int" -> [s EXCEPT !.val = e.n]
       [] s.stop = "" /\ e.e = "var" -> Read(p, s, in, e.x)
       [] s.stop = "" /\ e.e = "un" ->
            Then(x, Val(x, CASE e.op = "!" -> AsInt(x.val = 0)
                             [] e.op = "-" -> As(-x.val, ty)
                             [] e.op = "~" -> As(-x.val - 1, ty)
                             [] e.op = "+" -> x.val))
       [] s.stop = "" /\ e.e = "bin" /\ e.op \in {"&&", "||"} ->
            Then(x, IF short = (e.op = "&&") THEN [x EXCEPT !.val = AsInt(~short)]
                    ELSE Then(y, [y EXCEPT !.val = AsInt(@ # 0)]))
       [] s.stop = "" /\ e.e = "bin" /\ e.op \in Comparisons ->
            Then(x, Then(y, Val(y, AsInt(Compared(e.op, As(x.val, oty), As(y.val, oty))))))
       [] s.stop = "" /\ e.e = "bin" /\ e.op \notin Comparisons \cup {"&&", "||"} ->
            Then(x, Then(y, Val(y, IF shift THEN Computed(e.op, As(x.val, ty), y.val, ty)
                                   ELSE Computed(e.op, As(x.val, ty), As(y.val, ty), ty))))
       [] s.stop = "" /\ e.e = "assign" ->
            LET r == Eval(p, s, in, e.k[2]) IN Then(r, Write(p, r, a.x, r.val))
       [] s.stop = "" /\ e.e = "comp" ->
            LET r == Eval(p, s, in, e.k[2])
                l == Read(p, r, in, a.x)
                t == IF shift THEN OperandType(p, a) ELSE oty
                v == Computed(e.op, As(l.val, t), IF shift THEN r.val ELSE As(r.val, t), t)
            IN Then(r, Then(l, IF v = Unset THEN Undef(l) ELSE Write(p, l, a.x, v)))
       [] s.stop = "" /\ e.e = "incdec" ->
            LET t == Usual(OperandType(p, a), "int")
                w == Write(p, x, a.x, Computed("+", As(x.val, t), e.n, t))
            IN Then(x, IF e.op = "post" THEN [w EXCEPT !.val = x.val] ELSE w)
       [] s.stop = "" /\ e.e = "cond" ->
            LET z == Eval(p, x, in, e.k[IF short THEN 3 ELSE 2])
            IN Then(x, Then(z, IF ty = "void" THEN z ELSE [z EXCEPT !.val = As(@, ty)]))
       [] s.stop = "" /\ e.e = "elvis" ->
            Then(x, IF ~short THEN [x EXCEPT !.val = As(@, ty)] ELSE Then(y, [y EXCEPT !.val = As(@, ty)]))
       [] s.stop = "" /\ e.e = "comma" -> Then(x, y)
       [] s.stop = "" /\ e.e = "cast" ->
            Then(x, IF e.ty = "void" THEN x ELSE [x EXCEPT !.val = As(@, ty)])
       [] s.stop = "" /\ e.e = "call" -> EvalCall(p, s, in, e)

-----------------------------------------------------------------------------
(* Statements. *)

\* The labels of the cases that v, of type ty, selects.
RECURSIVE Selected(_, _, _, _, _)
Selected(p, s, st, v, ty) ==
  LET const(e) == Eval(p, s, <<0>>, e).val
      inner == UNION {Selected(p, s, st.b[i], v, ty) : i \in DOMAIN st.b}
  IN CASE st.s = "switch" -> {}
       [] st.s = "case" ->
            inner \cup IF \E n \in const(st.e[1]) .. const(st.e[2]) : As(n, ty) = v THEN {st.l} ELSE {}
       [] OTHER -> inner
RECURSIVE Defaults(_)
Defaults(st) ==
  CASE st.s = "switch" -> {}
    [] st.s = "default" -> {st.l}
    [] OTHER -> UNION {Defaults(st.b[i]) : i \in DOMAIN st.b}

Go(s, mode) == [s EXCEPT !.mode = mode]
Seek(s, l) == [s EXCEPT !.mode = "seek", !.goal = l]
Seeking(s) == s.mode = "seek"
\* break has reached what it leaves.
Left(s) == IF s.mode = "break" THEN Go(s, "run") ELSE s

RECURSIVE Exec(_, _, _, _), ExecAll(_, _, _, _, _), Test(_, _, _, _), Body(_, _, _, _)

ExecAll(p, s, in, b, n) == IF n > Len(b) THEN s ELSE ExecAll(p, Exec(p, s, in, b[n]), in, b, n + 1)

\* A loop, from its condition and from its body.
Test(p, s, in, st) ==
  LET x == Eval(p, s, in, st.e[1])
  IN IF s.stop = "" /\ s.fuel = 0 THEN Halt(s, "fuel")
     ELSE Then(x, IF x.val = 0 THEN x ELSE Body(p, [x EXCEPT !.fuel = @ - 1], in, st))
Body(p, s, in, st) ==
  LET x == Exec(p, s, in, st.b[Len(st.b)])
      y == Go(x, "run")
  IN IF x.stop # "" \/ x.mode \in {"return", "seek", "break"} THEN Left(x)
     ELSE Test(p, IF st.s = "for" THEN Eval(p, y, in, st.e[2]) ELSE y, in, st)

Exec(p, s, in, st) ==
  LET x == Eval(p, s, in, st.e[1])
      yes == Exec(p, s, in, st.b[1])
  IN CASE s.stop # "" \/ s.mode \notin {"run", "seek"} -> s
       [] st.s = "block" -> ExecAll(p, s, in, st.b, 1)
       [] st.s \in {"label", "case", "default"} ->
            Exec(p, IF Seeking(s) /\ s.goal = st.l THEN Go(s, "run") ELSE s, in, st.b[1])
       \* nothing but labels matters to a jump
       [] Seeking(s) /\ st.s = "if" ->
            IF Seeking(yes) /\ Len(st.b) = 2 THEN Exec(p, yes, in, st.b[2]) ELSE yes
       [] Seeking(s) /\ st.s \in {"while", "do", "for"} -> Body(p, s, in, st)
       [] Seeking(s) /\ st.s = "switch" -> Left(yes)
       [] Seeking(s) -> s
       [] ~Seeking(s) /\ st.s = "empty" -> s
       [] ~Seeking(s) /\ st.s = "expr" -> x
       [] ~Seeking(s) /\ st.s = "if" ->
            Then(x, IF x.val # 0 THEN Exec(p, x, in, st.b[1])
                    ELSE IF Len(st.b) = 2 THEN Exec(p, x, in, st.b[2]) ELSE x)
       [] ~Seeking(s) /\ st.s = "while" -> Test(p, s, in, st)
       [] ~Seeking(s) /\ st.s = "do" -> Body(p, s, in, st)
       [] ~Seeking(s) /\ st.s = "for" -> Test(p, Exec(p, s, in, st.b[1]), in, st)
       [] ~Seeking(s) /\ st.s = "switch" ->
            LET ty == OperandType(p, st.e[1])
                hit == Selected(p, s, st.b[1], As(x.val, ty), ty)
                to == IF hit # {} THEN hit ELSE Defaults(st.b[1])
            IN Then(x, IF to = {} THEN x
                       ELSE Left(Exec(p, Seek(x, CHOOSE l \in to : TRUE), in, st.b[1])))
       [] ~Seeking(s) /\ st.s \in {"break", "continue"} -> Go(s, st.s)
       [] ~Seeking(s) /\ st.s = "return" ->
            IF st.e = <<>> THEN Go([s EXCEPT !.val = 0], "return")
            ELSE Then(x, Go(IF p.ret = "void" THEN [x EXCEPT !.val = 0]
                            ELSE [x EXCEPT !.val = As(@, p.ret)], "return"))
       [] ~Seeking(s) /\ st.s = "goto" -> Seek(s, st.l)
       [] ~Seeking(s) /\ st.s = "critical" ->
            [Exec(p, [s EXCEPT !.ea = 0], in, st.b[1]) EXCEPT !.ea = s.ea]
       [] ~Seeking(s) /\ st.s = "decl" -> Then(x, Write(p, x, st.x, x.val))

\* A goto starts the search for its label over.
RECURSIVE ExecFunc(_, _, _)
ExecFunc(p, s, in) ==
  LET x == Exec(p, s, in, p.body)
  IN IF x.stop # "" \/ ~Seeking(x) THEN x
     ELSE IF x.fuel = 0 THEN Halt(x, "fuel") ELSE ExecFunc(p, [x EXCEPT !.fuel = @ - 1], in)

Meaning(p, in) ==
  LET start == Start(in, <<>>)
      param(x) == \E n \in DOMAIN p.params : p.params[n] = x
      arg(x) == LET ty == p.vars[x].ty
                IN Wrapped(in[CHOOSE n \in DOMAIN p.params : p.params[n] = x], IntBits(ty), ty \in SignedTypes)
      env == [x \in DOMAIN p.vars |->
                IF param(x) THEN arg(x)
                ELSE IF InMemory(p.vars[x]) THEN Decoded(start.ram, p.vars[x]) ELSE Unset]
      stored == {n \in DOMAIN p.params : InMemory(p.vars[p.params[n]])}
      s == [stop |-> "", events |-> <<>>, ram |-> start.ram, ea |-> start.ea, env |-> env,
            taken |-> Len(p.params), fuel |-> Fuel, val |-> 0, mode |-> "run", goal |-> 0]
      x == ExecFunc(p, FoldSet(LAMBDA n, r : Write(p, r, p.params[n], arg(p.params[n])), s, stored), in)
      bits == IF p.ret = "void" THEN I16 ELSE IF p.ret = "bit" THEN Bit ELSE IntSize(p.ret) * I8
      stop == IF x.stop # "" THEN x.stop
              ELSE IF x.mode = "return" \/ p.ret = "void" THEN "returned" ELSE "undefined"
  IN [stop |-> stop, events |-> x.events, ram |-> x.ram, ea |-> x.ea,
      val |-> IF stop = "returned" /\ p.ret # "void" THEN Norm(bits, x.val) ELSE 0]
=============================================================================
