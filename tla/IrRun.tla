-------------------------------- MODULE IrRun --------------------------------
(***************************************************************************)
(* What a function of the intermediate representation does when it runs.   *)
(* The source has no interpreter for it: this is the meaning that eval,    *)
(* eval_bin and the instruction selector agree on, and the yardstick for   *)
(* every pass.  A run is seen from outside by its accesses to volatile     *)
(* memory, its calls with their arguments and the interrupt flag, the      *)
(* object in memory it leaves and the value it returns.                    *)
(***************************************************************************)
EXTENDS Ir

CONSTANT Fuel     \* bound on the blocks a run may enter

\* fns: the bodies of defined functions; input: what parameters, volatile memory and
\* external functions deliver, one after the other.
Start(args, vty) ==
  [env |-> Tuple([v \in 1 .. Len(vty) |-> Undefined]), ram |-> 150, ea |-> 1, events |-> <<>>,
   taken |-> 0, fuel |-> Fuel, stop |-> "", val |-> 0]

ValueIn(s, v, t) == IF IsReg(v) THEN s.env[v[2]] ELSE IF IsConst(v) THEN Norm(t, v[2]) ELSE 0
Set(s, d, x) == IF d = 0 THEN s ELSE [s EXCEPT !.env[d] = x]
Event(s, kind, k, x, y) == [s EXCEPT !.events = Append(@, <<kind, k, x, y, s.ea>>)]
Halt(s, why) == [s EXCEPT !.stop = why]

\* The next input, and the state that has taken it.
Input(s, in) == in[(s.taken % Len(in)) + 1]
Take(s) == [s EXCEPT !.taken = @ + 1]

\* A shift by a register is a loop: any amount that fits a byte will do.
Operate(op, a, b, t, byReg) ==
  IF a = Undefined \/ b = Undefined THEN Undefined
  ELSE IF op \in Shifts /\ byReg /\ b > Mask(I8) THEN Undefined
  ELSE EvalBin(op, a, b, t)

\* Instructions that only define a register.
Pure(f, i, s) ==
  LET t == f.vty[i.d]
      at == IF IsReg(i.a) THEN f.vty[i.a[2]] ELSE t
      a == ValueIn(s, i.a, t)
      b == ValueIn(s, i.b, IF i.op = "bin" /\ i.k \in Shifts THEN I32 ELSE t)
      ca == ValueIn(s, i.a, i.ty)
      cb == ValueIn(s, i.b, i.ty)
  IN CASE i.op = "copy" -> a
       [] i.op = "bin" -> Operate(i.k, a, b, t, IsReg(i.b))
       [] i.op = "cmp" -> IF ca = Undefined \/ cb = Undefined THEN Undefined
                          ELSE AsInt(Holds(i.k, ca, cb, i.ty))
       [] OTHER -> IF a = Undefined THEN Undefined
                   ELSE CASE i.op = "un" -> EvalUn(i.k, a, t)
                          [] i.op = "ext" -> IF i.sg /\ at # Bit THEN Norm(t, Sext(at, a)) ELSE a
                          [] i.op = "trunc" -> Norm(t, a)

\* The object in memory has four bytes.  Its operand is the byte meant, or nothing for the
\* first.
Offset(a) == I8 * a[2]
Replace(ram, at, bits, x) ==
  LET old == (ram \div 2 ^ at) % 2 ^ bits
  IN Norm(I32, ram + (Norm(bits, x) - old) * 2 ^ at)

\* Internal memory that a pointer reaches changes with the object in it.
Loaded(f, i, s, in) ==
  LET t == f.vty[i.d]
      p == ValueIn(s, i.a, I16)
  IN CASE i.k = "ram" -> Set(s, i.d, Norm(t, s.ram \div 2 ^ Offset(i.a)))
       [] p = Undefined -> IF Volatile(i) THEN Halt(s, "undefined") ELSE Set(s, i.d, Undefined)
       [] i.k = "code" /\ p # Undefined -> Set(s, i.d, Norm(t, 3 * p + 1))
       [] i.k = "idata" /\ p # Undefined -> Set(s, i.d, Norm(t, 3 * Norm(I8, p) + s.ram))
       [] Volatile(i) /\ p # Undefined ->
            Take(Event(Set(s, i.d, Norm(t, Input(s, in))), "load", i.k, p, 0))

Stored(i, s) ==
  LET p == ValueIn(s, i.a, I16)
      x == ValueIn(s, i.b, i.ty)
  IN IF x = Undefined \/ p = Undefined THEN Halt(s, "undefined")
     ELSE IF i.k = "ram" THEN [s EXCEPT !.ram = Replace(@, Offset(i.a), i.ty, x)]
     ELSE Event(s, "store", i.k, IF i.k = "idata" THEN Norm(I8, p) ELSE p, Norm(i.ty, x))

Product(i, s, signed) ==
  LET a == ValueIn(s, i.args[1], I16)  b == ValueIn(s, i.args[2], I16)
  IN IF a = Undefined \/ b = Undefined THEN Undefined
     ELSE Norm(I32, IF signed THEN Sext(I16, a) * Sext(I16, b) ELSE Norm(I16, a) * Norm(I16, b))

ArgIn(i, s, n) == ValueIn(s, i.args[n], Signatures[i.k].params[n])
External(i, s, in) ==
  LET x == IF i.args = <<>> THEN 0 ELSE ArgIn(i, s, 1)
      y == IF Len(i.args) < 2 THEN 0 ELSE ArgIn(i, s, 2)
      called == Event(s, "call", i.k, x + 256 * y, s.ram)
  IN IF x = Undefined \/ y = Undefined THEN Halt(s, "undefined")
     ELSE IF Signatures[i.k].ret = NoType THEN called
     ELSE Take(Set(called, i.d, Norm(Signatures[i.k].ret, Input(s, in))))

\* The block that the terminator goes to: {it}, {} to return or for want of a value.
Target(f, t, s) ==
  LET a == ValueIn(s, t.a, t.ty)  b == ValueIn(s, t.b, t.ty)
      hit == {n \in DOMAIN t.cases : t.cases[n][1] = Norm(t.ty, a)}
  IN CASE t.op = "jmp" -> {t.t}
       [] t.op \in {"br", "cmpbr", "switch"} /\ (a = Undefined \/ b = Undefined) -> {}
       [] t.op = "br" -> {IF (IF IsConst(t.a) THEN t.a[2] ELSE a) # 0 THEN t.t ELSE t.e}
       [] t.op = "cmpbr" -> {IF Holds(t.k, a, b, t.ty) THEN t.t ELSE t.e}
       [] t.op = "switch" ->
            {IF hit = {} THEN t.e ELSE t.cases[CHOOSE n \in hit : \A m \in hit : n <= m][2]}
       [] OTHER -> {}

RECURSIVE RunInsts(_, _, _, _, _, _), RunFrom(_, _, _, _, _),
  RunCall(_, _, _, _, _)

\* One instruction.
Step(f, fns, in, i, s) ==
  CASE i.op \in {"copy", "bin", "un", "cmp", "ext", "trunc"} -> Set(s, i.d, Pure(f, i, s))
    [] i.op = "load" -> Loaded(f, i, s, in)
    [] i.op = "store" -> Stored(i, s)
    [] i.op = "call" /\ i.k \in {"mulsint32", "muluint32"} ->
         Set(s, i.d, Product(i, s, i.k = "mulsint32"))
    [] i.op = "call" /\ i.k \in DOMAIN fns -> RunCall(f, fns, in, i, s)
    [] i.op = "call" /\ i.k \in DOMAIN Signatures \ DOMAIN fns -> External(i, s, in)
    [] i.op = "critenter" -> [Set(s, i.d, s.ea) EXCEPT !.ea = 0]
    [] i.op = "critexit" -> IF s.env[i.a[2]] = Undefined THEN Halt(s, "undefined")
                            ELSE [s EXCEPT !.ea = s.env[i.a[2]]]
    [] i.op = "nop" -> s

\* The instructions of a block from the n-th on, until one of them ends the run.
RunInsts(f, fns, in, insts, n, s) ==
  IF s.stop # "" \/ n > Len(insts) THEN s
  ELSE RunInsts(f, fns, in, insts, n + 1, Step(f, fns, in, insts[n], s))

\* State s has run the instructions of block b.
Leave(f, fns, in, b, s) ==
  LET t == f.blocks[b].term
      to == Target(f, t, s)
      x == ValueIn(s, t.a, IF f.ret = NoType THEN I16 ELSE f.ret)
  IN IF s.stop # "" THEN s
     ELSE IF t.op = "ret" /\ x = Undefined THEN Halt(s, "undefined")
     ELSE IF t.op = "ret" THEN [Halt(s, "returned") EXCEPT !.val = x]
     ELSE IF to = {} THEN Halt(s, "undefined")
     ELSE IF s.fuel = 0 THEN Halt(s, "fuel")
     ELSE RunFrom(f, fns, in, CHOOSE c \in to : TRUE, [s EXCEPT !.fuel = @ - 1])

\* From the start of block b on.
RunFrom(f, fns, in, b, s) ==
  Leave(f, fns, in, b, RunInsts(f, fns, in, Insts(f, b), 1, s))

\* State r of a defined function goes on as state s of its caller.
Returned(i, s, r) ==
  IF r.stop # "returned" THEN [r EXCEPT !.env = s.env]
  ELSE Set([r EXCEPT !.env = s.env, !.stop = ""], i.d, r.val)

\* A call of a defined function: its own registers, everything else shared.
RunCall(f, fns, in, i, s) ==
  LET g == fns[i.k]
      env == Tuple([v \in 1 .. Len(g.vty) |->
                IF \E n \in DOMAIN i.args : g.params[n] = v
                THEN ArgIn(i, s, CHOOSE n \in DOMAIN i.args : g.params[n] = v) ELSE Undefined])
  IN Returned(i, s, RunFrom(g, fns, in, 1, [s EXCEPT !.env = env]))

\* What is seen of a run that ended in state r.
Seen(r) == [stop |-> r.stop, events |-> r.events, ram |-> r.ram, ea |-> r.ea, val |-> r.val]

\* The parameters take the first inputs.
Run(f, fns, in) ==
  LET s == Start(in, f.vty)
      env == Tuple([v \in 1 .. Len(f.vty) |->
                IF IsParam(f, v)
                THEN Norm(f.vty[v], in[CHOOSE n \in DOMAIN f.params : f.params[n] = v]) ELSE Undefined])
  IN Seen(RunFrom(f, fns, in, 1, [s EXCEPT !.env = env, !.taken = Len(f.params)]))

\* Outcome o is allowed where the function as written had outcome w: the same, unless
\* what was written is undefined.  A run cut short shows only how it began.
IsPrefixOf(x, y) == Len(x) <= Len(y) /\ SubSeq(y, 1, Len(x)) = x
Allowed(w, o) ==
  CASE w.stop = "returned" -> o = w
    [] w.stop = "fuel" -> o.stop = "fuel" /\ (IsPrefixOf(w.events, o.events)
                                              \/ IsPrefixOf(o.events, w.events))
    [] OTHER -> TRUE
=============================================================================
