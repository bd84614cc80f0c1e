-------------------------------- MODULE Lower --------------------------------
(***************************************************************************)
(* Lowering of the typed tree to the intermediate representation           *)
(* (src/ir/build.rs): a builder emits instructions into the current block, *)
(* starts blocks and remembers where labels, breaks, continues and open    *)
(* critical sections are.                                                  *)
(*                                                                         *)
(* Integers only: pointers, floating point, aggregates as values, variable *)
(* arguments and statement expressions are left out.                       *)
(***************************************************************************)
EXTENDS Typing

IrTy(ty) ==
  IF ty = "void" THEN NoType
  ELSE [bit |-> Bit, bool |-> I8, char |-> I8, short |-> I16, int |-> I16, long |-> I32][Kind[ty]]

(* The builder: function so far, current block and whether it has its       *)
(* terminator, variables of the program with the registers of the local     *)
(* ones (0: none yet), blocks of labels, targets of break and continue,     *)
(* registers of the open critical sections; value and lvalue of the         *)
(* expression lowered last.                                                 *)

NoLv == [at |-> "", r |-> 0, sp |-> "", o |-> 0, bo |-> 0, w |-> 0, ty |-> NoType, sg |-> FALSE]

\* New blocks, numbered from the next on.
NextBlock(b) == Len(b.f.blocks) + 1
Opened(b, k) ==
  [b EXCEPT !.f.blocks = @ \o Tuple([n \in 1 .. k |-> Block(<<>>, Unreachable)])]

\* Code after a terminator goes to a block of its own, which nothing enters.
Unsealed(b) ==
  IF b.sealed THEN [Opened(b, 1) EXCEPT !.cur = NextBlock(b), !.sealed = FALSE] ELSE b
Emit(b, ins) == LET c == Unsealed(b) IN [c EXCEPT !.f.blocks[c.cur].insts = Append(@, ins)]
Terminate(b, t) ==
  LET c == Unsealed(b) IN [c EXCEPT !.f.blocks[c.cur].term = t, !.sealed = TRUE]
TerminateIfOpen(b, t) == IF b.sealed THEN b ELSE Terminate(b, t)

\* Continue in block n, which the current block falls through to.
StartAt(b, n) ==
  LET c == IF b.sealed THEN b ELSE [b EXCEPT !.f.blocks[b.cur].term = Jmp(n)]
  IN [c EXCEPT !.cur = n, !.sealed = FALSE]

Yield(b, v) == [b EXCEPT !.val = v]

\* A new register of type t, defined by the instruction Ins(register).
Fresh(b) == Len(b.f.vty) + 1
Def(b, t, Ins(_)) ==
  LET c == [b EXCEPT !.f.vty = Append(@, t)] IN Yield(Emit(c, Ins(Fresh(b))), R(Fresh(b)))
DefBin(b, t, op, x, y) == Def(b, t, LAMBDA d : Bin(op, d, x, y))

\* The value lowered last: operated on, and stored.
Applied(b, t, op, y) == DefBin(b, t, op, b.val, y)
Shifted(b, t, op, n) == IF n > 0 THEN Applied(b, t, op, K(n)) ELSE b
StoreVal(b, sp, o, t) == Emit(b, Store(sp, K(o), b.val, t))

-----------------------------------------------------------------------------
(* Widths and conversions of the value lowered last. *)

Resize(b, from, to, signed) ==
  LET v == b.val
  IN IF from = to THEN b
     ELSE IF IsConst(v) THEN Yield(b, K(Norm(to, IF signed THEN Sext(from, v[2]) ELSE Norm(from, v[2]))))
     ELSE Def(b, to, LAMBDA d : IF to = Bit THEN Cmp("ne", d, v, K(0), from)
                                ELSE IF to > from THEN Ext(d, v, signed /\ from # Bit)
                                ELSE Trunc(d, v))

\* Conversion to _Bool and to a bit compares with zero.
Convert(b, from, to) ==
  LET v == b.val
      ft == IrTy(from)
      tt == IrTy(to)
      bool == from = "bool"
  IN IF to = "void" THEN b
     ELSE IF ~IsBool(to) \/ (from = "bit" /\ ~IsConst(v)) THEN Resize(b, ft, tt, from \in SignedTypes)
     ELSE IF IsBool(from) /\ ft = tt THEN b
     ELSE IF IsConst(v) THEN Yield(b, K(AsInt(Norm(ft, v[2]) # 0)))
     ELSE Def(b, IF bool THEN Bit ELSE tt,
              LAMBDA d : IF bool THEN Trunc(d, v) ELSE Cmp("ne", d, v, K(0), ft))

\* The i-th byte of a value.
ByteOf(b, v, t, i) ==
  LET x == Shifted(Yield(b, v), t, "shru", I8 * i)
  IN IF IsConst(v) THEN Yield(b, K(Norm(I8, v[2] \div 2 ^ (I8 * i)))) ELSE Resize(x, t, I8, FALSE)

-----------------------------------------------------------------------------
(* Loads and stores. *)

\* The type a bit-field is read and written in.
BitsTy(lv) ==
  CASE Bytes(lv.bo + lv.w) = 1 -> I8 [] Bytes(lv.bo + lv.w) = 2 -> I16 [] OTHER -> I32

LoadBits(b, lv) ==
  LET t == BitsTy(lv)
      raw == Def(b, t, LAMBDA d : Load(d, lv.sp, K(lv.o)))
      field == Applied(Shifted(raw, t, "shru", lv.bo), t, "and", K(IF lv.w >= t THEN Mask(t) ELSE Mask(lv.w)))
      up == IF lv.sg THEN t - lv.w ELSE 0      \* extends the sign
  IN Resize(Shifted(Shifted(field, t, "shl", up), t, "shrs", up), t, lv.ty, lv.sg)

LoadMulti(b, lv) ==
  LET Byte(c, a) == Resize(Def(c, I8, LAMBDA d : Load(d, "sfr", K(a))), I8, I16, FALSE)
      Or16(lo, hi) == DefBin(hi, I16, "or", lo.val, hi.val)
      With(lo) == Or16(lo, Shifted(Byte(lo, lv.bo), I16, "shl", I8))
  IN With(Byte(b, lv.o))

LoadLv(b, lv) ==
  CASE lv.at = "reg" -> Yield(b, R(lv.r))
    [] lv.at = "mem" -> Def(b, lv.ty, LAMBDA d : Load(d, lv.sp, K(lv.o)))
    [] lv.at = "bits" -> LoadBits(b, lv)
    [] lv.at = "multi" -> LoadMulti(b, lv)

\* Stores v, of type vt, to a bit-field: the other bits of its bytes are read and written
\* back, three bytes one at a time.
StoreBits(b, lv, v, vt) ==
  LET t == BitsTy(lv)
      mask == IF lv.w >= t THEN Mask(t) ELSE Norm(t, Mask(lv.w) * 2 ^ lv.bo)
      x == Resize(Yield(b, v), IF IsReg(v) THEN vt ELSE t, t, FALSE)
      field == Applied(Shifted(x, t, "shl", lv.bo), t, "and", K(mask))
      Merged(c) ==
        LET old == Def(c, t, LAMBDA d : Load(d, lv.sp, K(lv.o)))
        IN Applied(Applied(old, t, "and", K(Mask(t) - mask)), t, "or", c.val)
      Bytewise(c) ==
        LET Put(d, i) == StoreVal(ByteOf(d, c.val, t, i), lv.sp, lv.o + i, I8) IN Put(Put(Put(c, 0), 1), 2)
      Whole(c) == IF Bytes(lv.bo + lv.w) = 3 THEN Bytewise(c) ELSE StoreVal(c, lv.sp, lv.o, t)
      Into(c) == Whole(IF mask = Mask(t) THEN c ELSE Merged(c))
  IN Into(field)

StoreMulti(b, lv, v) ==
  LET lo == StoreVal(ByteOf(b, v, I16, 0), "sfr", lv.o, I8)
  IN StoreVal(ByteOf(lo, v, I16, 1), "sfr", lv.bo, I8)

StoreLv(b, lv, v) ==
  CASE lv.at = "reg" -> Emit(b, Copy(lv.r, v))
    [] lv.at = "mem" -> Emit(b, Store(lv.sp, K(lv.o), v, lv.ty))
    [] lv.at = "bits" -> StoreBits(b, lv, v, IF IsReg(v) THEN b.f.vty[v[2]] ELSE NoType)
    [] lv.at = "multi" -> StoreMulti(b, lv, v)

\* The value lowered last, stored: it is the value still.
StoredBack(b, lv) == Yield(StoreLv(b, lv, b.val), b.val)

\* Where a variable is; a local one gets its register at its first use.
LocalStorage(b, x) ==
  IF b.locals[x] # 0 THEN b
  ELSE [b EXCEPT !.f.vty = Append(@, IrTy(b.vars[x].ty)), !.locals[x] = Fresh(b)]

LvOf(b, x) ==
  LET i == b.vars[x]
      ty == IrTy(i.ty)
      lv == [NoLv EXCEPT !.at = i.at, !.o = i.o, !.bo = i.bo, !.w = i.w, !.ty = ty]
      At(c, l) == [c EXCEPT !.lv = l]
  IN CASE i.at = "reg" -> LET c == LocalStorage(b, x) IN At(c, [NoLv EXCEPT !.at = "reg", !.r = c.locals[x], !.ty = ty])
       [] i.at = "ram" -> At(b, [lv EXCEPT !.at = "mem", !.sp = "ram"])
       [] i.at = "sfr" -> At(b, [lv EXCEPT !.at = "mem", !.sp = "sfr", !.ty = IF i.ty = "bit" THEN Bit ELSE I8])
       [] i.at = "sfr16" -> At(b, [lv EXCEPT !.at = "multi"])
       [] i.at = "bits" -> At(b, [lv EXCEPT !.sp = "ram", !.sg = i.ty \in SignedTypes])

-----------------------------------------------------------------------------
(* Expressions. *)

CondOf(op, signed) ==
  CASE op = "==" -> "eq" [] op = "!=" -> "ne"
    [] op = "<" -> IF signed THEN "lts" ELSE "ltu"
    [] op = "<=" -> IF signed THEN "les" ELSE "leu"
    [] op = ">" -> IF signed THEN "gts" ELSE "gtu"
    [] op = ">=" -> IF signed THEN "ges" ELSE "geu"

BinKind(op, signed) ==
  CASE op = "+" -> "add" [] op = "-" -> "sub" [] op = "*" -> "mul"
    [] op = "&" -> "and" [] op = "|" -> "or" [] op = "^" -> "xor" [] op = "<<" -> "shl"
    [] op = "/" -> IF signed THEN "divs" ELSE "divu"
    [] op = "%" -> IF signed THEN "mods" ELSE "modu"
    [] op = ">>" -> IF signed THEN "shrs" ELSE "shru"

\* Shift counts have eight bits; constant ones stop at the widest type.
Count(b, bt) ==
  LET v == b.val
  IN IF IsConst(v)
     THEN Yield(b, K(IF Sext(bt, v[2]) < 0 \/ Norm(bt, v[2]) > I32 THEN I32 ELSE Norm(bt, v[2])))
     ELSE Resize(b, bt, I8, FALSE)

\* x op the value lowered last; both are converted already, but for the count of a shift,
\* of type bty.
Arith(b, op, x, ty, bty) ==
  LET Right(c) == DefBin(c, IrTy(ty), BinKind(op, ty \in SignedTypes), x, c.val)
  IN Right(IF op \in {"<<", ">>"} THEN Count(b, IrTy(bty)) ELSE b)

\* The value lowered last and d.
Stepped(b, ty, d) ==
  LET t == IrTy(ty)
  IN IF IsBool(ty) /\ d > 0 THEN Yield(b, K(1))
     ELSE IF IsBool(ty) THEN Applied(b, t, "xor", K(1))
     ELSE Applied(b, t, "add", K(Norm(t, d)))

\* x + d stored back: the value is the new one, or the old one kept in a register.
IncDecLv(b, l, d, post) ==
  LET lv == b.lv
      Kept(old, new) ==
        IF lv.at = "reg" THEN Def(new, IrTy(l.ty), LAMBDA r : Copy(r, old.val)) ELSE Yield(new, old.val)
      Put(c, v) == Yield(StoreLv(c, lv, v), c.val)
      From(old, new) == Put(IF post THEN Kept(old, new) ELSE new, new.val)
      Loaded(old) == From(old, Stepped(old, l.ty, d))
  IN Loaded(LoadLv(b, lv))

\* What an assignment to lv yields: a bit-field's value is what the field now holds.
Assigned(b, lv, v, ty) ==
  LET t == IF IsReg(v) THEN b.f.vty[v[2]] ELSE ty
  IN IF lv.at # "bits" THEN Yield(b, v)
     ELSE IF lv.sg THEN LoadLv(b, lv)
     ELSE DefBin(b, t, "and", v, K(IF lv.w >= t THEN Mask(t) ELSE Mask(lv.w)))

\* Lowering of e the way how says: for its value, its place or its effect, as a branch, or
\* as a statement; defined at the end of the statements.
RECURSIVE Lower(_, _, _)
Value(b, e) == Lower(b, e, [as |-> "value"])
Place(b, e) == Lower(b, e, [as |-> "place"])
Done(b, e) == Lower(b, e, [as |-> "effect"])
Branch(b, e, t, f) == Lower(b, e, [as |-> "branch", yes |-> t, no |-> f])
Statement(b, st) == Lower(b, st, [as |-> "statement"])

LValue(b, e) ==
  IF e.e = "comma" THEN Place(Done(b, e.k[1]), e.k[2]) ELSE LvOf(b, e.x)

\* Both arms, each by Arm(builder, expression), on the way to one block.
Arms(b, c, x, y, Arm(_, _)) ==
  LET t == NextBlock(b)
      branch == Branch(Opened(b, 3), c, t, t + 1)
      first == Terminate(Arm(StartAt(branch, t), x), Jmp(t + 2))
  IN StartAt(Arm(StartAt(first, t + 1), y), t + 2)

\* Evaluated for what it does.
Effect(b, e) ==
  CASE e.e = "cast" /\ e.ty = "void" -> Done(b, e.k[1])
    [] e.e = "comma" -> Done(Done(b, e.k[1]), e.k[2])
    [] IsInt(e) -> b
    [] e.e = "incdec" -> IncDecLv(Place(b, e.k[1]), e.k[1], e.n, FALSE)
    [] e.e = "cond" -> Arms(b, e.k[1], e.k[2], e.k[3], Done)
    [] e.e = "bin" /\ e.op \in {"&&", "||"} ->
         LET t == NextBlock(b) IN StartAt(StartAt(Branch(Opened(b, 2), e, t, t + 1), t), t + 1)
    [] OTHER -> Value(b, e)

\* The arguments are values before the call, the first first.
CallExpr(b, e) ==
  LET Arg(acc, a) == LET x == Value(acc.b, a) IN [b |-> x, vals |-> Append(acc.vals, x.val)]
      args == FoldLeft(Arg, [b |-> b, vals |-> <<>>], e.k)
  IN IF e.ty = "void" THEN Yield(Emit(args.b, Call(0, e.x, args.vals)), K(0))
     ELSE Def(args.b, IrTy(e.ty), LAMBDA d : Call(d, e.x, args.vals))

\* The value of a comparison or negation is computed in a byte.
Truth(b, c, x, y, t, ty) == Resize(Def(b, I8, LAMBDA d : Cmp(c, d, x, y, t)), I8, ty, FALSE)

\* v: the right side of a compound assignment, whose target is lv.
CompoundValue(v, e, lv) ==
  LET from == e.k[1].ty
      bty == IF e.op \in {"<<", ">>"} THEN e.k[2].ty ELSE e.oty
      Result(c) == Convert(Arith(Yield(c, v.val), e.op, c.val, e.oty, bty), e.oty, from)
  IN StoredBack(Result(Convert(LoadLv(v, lv), from, e.oty)), lv)

RValue(b, e) ==
  LET t == IrTy(e.ty)
      a == e.k[1]
      x == Value(b, a)
      y == Value(x, e.k[2])
      l == Place(b, a)
      r == Fresh(b)     \* the result of an expression with several ends
      c == [b EXCEPT !.f.vty = Append(@, t)]
      Set(d, v) == Emit(d, Copy(r, v))
      Into(d, z) == LET v == Value(d, z) IN Set(v, v.val)
  IN CASE IsInt(e) -> Yield(b, K(Norm(t, e.n)))
       [] e.e = "var" -> LET v == Place(b, e) IN LoadLv(v, v.lv)
       [] e.e = "cast" -> IF e.ty = "void" THEN Yield(Done(b, a), K(0)) ELSE Convert(x, a.ty, e.ty)
       [] e.e = "un" ->
            IF e.op = "!" THEN Truth(x, "eq", x.val, K(0), IrTy(a.ty), t)
            ELSE Def(x, t, LAMBDA d : Un(IF e.op = "-" THEN "neg" ELSE "not", d, x.val))
       [] e.e = "bin" /\ e.op \in {"&&", "||"} ->
            LET n == NextBlock(b)
                branch == Branch(Opened(c, 3), e, n, n + 1)
                first == Terminate(Set(StartAt(branch, n), K(1)), Jmp(n + 2))
            IN Yield(StartAt(Set(StartAt(first, n + 1), K(0)), n + 2), R(r))
       [] e.e = "bin" /\ e.op \in Comparisons ->
            Truth(y, CondOf(e.op, a.ty \in SignedTypes), x.val, y.val, IrTy(a.ty), t)
       [] e.e = "bin" /\ e.op \notin Comparisons \cup {"&&", "||"} ->
            Arith(y, e.op, x.val, e.ty, e.k[2].ty)
       [] e.e = "assign" ->
            LET v == Value(b, e.k[2])
                to == Place(v, a)
            IN Assigned(StoreLv(to, to.lv, v.val), to.lv, v.val, t)
       [] e.e = "comp" -> CompoundValue(Value(l, e.k[2]), e, l.lv)
       [] e.e = "incdec" -> IncDecLv(l, a, e.n, e.op = "post")
       [] e.e = "cond" ->
            IF e.ty = "void" THEN Yield(Done(b, e), K(0))
            ELSE Yield(Arms(c, a, e.k[2], e.k[3], Into), R(r))
       [] e.e = "comma" -> Value(Done(b, a), e.k[2])
       [] e.e = "call" -> CallExpr(b, e)

\* Branch on a condition: to block t if it holds, to block f if not.
CondBranch(b, e, t, f) ==
  LET mid == NextBlock(b)
      c == Opened(b, 1)
      a == e.k[1]
      x == Value(b, a)
      y == Value(x, e.k[2])
      v == Value(b, e)
  IN CASE IsInt(e) -> Terminate(b, Jmp(IF e.n # 0 THEN t ELSE f))
       [] e.e = "un" /\ e.op = "!" -> Branch(b, a, f, t)
       [] e.e = "bin" /\ e.op = "&&" -> Branch(StartAt(Branch(c, a, mid, f), mid), e.k[2], t, f)
       [] e.e = "bin" /\ e.op = "||" -> Branch(StartAt(Branch(c, a, t, mid), mid), e.k[2], t, f)
       [] e.e = "bin" /\ e.op \in Comparisons ->
            Terminate(y, CmpBr(CondOf(e.op, a.ty \in SignedTypes), x.val, y.val, IrTy(a.ty), t, f))
       [] e.e = "cast" /\ IsBool(e.ty) -> Branch(b, a, t, f)
       [] e.e = "comma" -> Branch(Done(b, a), e.k[2], t, f)
       [] OTHER ->
            Terminate(v, IF IsConst(v.val) THEN Jmp(IF v.val[2] # 0 THEN t ELSE f) ELSE Br(v.val, t, f))

-----------------------------------------------------------------------------
(* Statements. *)

\* The block of a label; it is opened when the label is first met.
LabelBlock(b, l) ==
  IF b.labels[l] # 0 THEN b ELSE [Opened(b, 1) EXCEPT !.labels[l] = NextBlock(b)]

CritExits(b) == FoldLeft(LAMBDA c, r : Emit(c, CritExit(r)), b, Reverse(b.crit))

\* The blocks of the cases of a switch.
CaseBlocks(b, cases) == FoldLeft(LAMBDA c, k : LabelBlock(c, k[2]), b, cases)

Push(b, break, continue) ==
  [b EXCEPT !.breaks = Append(@, break), !.continues = Append(@, continue)]
Pop(b) == [b EXCEPT !.breaks = Front(@), !.continues = Front(@)]

LowerStmt(b, st) ==
  LET n == NextBlock(b)
      cond == st.e[1]
      \* a loop: the body in block n + 1 from there on, with its targets
      body(c, at, break, continue, s) == Pop(Statement(Push(StartAt(c, at), break, continue), s))
  IN CASE st.s = "empty" -> b
       [] st.s = "expr" -> Done(b, cond)
       [] st.s = "block" -> FoldLeft(Statement, b, st.b)
       [] st.s = "if" ->
            LET else == Len(st.b) = 2
                branch == Branch(Opened(b, IF else THEN 3 ELSE 2), cond, n,
                                     IF else THEN n + 2 ELSE n + 1)
                yes == Statement(StartAt(branch, n), st.b[1])
                no == Statement(StartAt(TerminateIfOpen(yes, Jmp(n + 1)), n + 2), st.b[2])
            IN StartAt(IF else THEN no ELSE yes, n + 1)
       [] st.s = "while" ->     \* n: test, n + 1: body, n + 2: exit
            LET test == Branch(StartAt(Opened(b, 3), n), cond, n + 1, n + 2)
                done == body(test, n + 1, n + 2, n, st.b[1])
            IN StartAt(TerminateIfOpen(done, Jmp(n)), n + 2)
       [] st.s = "do" ->        \* n: body, n + 1: test, n + 2: exit
            LET done == body(Opened(b, 3), n, n + 2, n + 1, st.b[1])
            IN StartAt(Branch(StartAt(done, n + 1), cond, n, n + 2), n + 2)
       [] st.s = "for" ->       \* test, body, step, exit
            LET i == Statement(b, st.b[1])
                m == NextBlock(i)
                test == Branch(StartAt(Opened(i, 4), m), cond, m + 1, m + 3)
                done == body(test, m + 1, m + 3, m + 2, st.b[2])
                step == Done(StartAt(done, m + 2), st.e[2])
            IN StartAt(TerminateIfOpen(step, Jmp(m)), m + 3)
       [] st.s = "switch" ->
            LET v == Value(b, cond)
                t == IrTy(cond.ty)
                exit == NextBlock(v)
                c == CaseBlocks(Opened(v, 1), st.cases)
                d == IF st.l = 0 THEN c ELSE LabelBlock(c, st.l)
                default == IF st.l = 0 THEN exit ELSE d.labels[st.l]
                cases == Tuple([i \in DOMAIN st.cases |-> <<Norm(t, st.cases[i][1]), d.labels[st.cases[i][2]]>>])
                hit == {i \in DOMAIN cases : cases[i][1] = Norm(t, v.val[2])}
                term == IF ~IsConst(v.val) THEN Switch(v.val, t, cases, default)
                        ELSE Jmp(IF hit = {} THEN default ELSE cases[Min(hit)][2])
                inside == [Terminate(d, term) EXCEPT !.breaks = Append(@, exit)]
            IN StartAt([Statement(inside, st.b[1]) EXCEPT !.breaks = Front(@)], exit)
       [] st.s = "break" -> Terminate(b, Jmp(Last(b.breaks)))
       [] st.s = "continue" -> Terminate(b, Jmp(Last(b.continues)))
       [] st.s = "return" ->
            LET v == IF st.e = <<>> THEN Yield(b, K(0)) ELSE Value(b, cond)
            IN Terminate(CritExits(v), Ret(IF b.f.ret = NoType THEN Nil ELSE v.val))
       [] st.s = "goto" -> LET c == LabelBlock(b, st.l) IN Terminate(c, Jmp(c.labels[st.l]))
       [] st.s \in {"label", "case", "default"} ->
            LET c == LabelBlock(b, st.l) IN Statement(StartAt(c, c.labels[st.l]), st.b[1])
       [] st.s = "critical" ->
            LET r == Fresh(b)
                c == Emit([b EXCEPT !.f.vty = Append(@, Bit)], CritEnter(r))
                d == Statement([c EXCEPT !.crit = Append(@, r)], st.b[1])
            IN Emit([d EXCEPT !.crit = Front(@)], CritExit(r))
       [] st.s = "decl" ->
            LET local == b.vars[st.x].at = "reg"
                c == IF local THEN LocalStorage(b, st.x) ELSE LvOf(b, st.x)
                v == Value(c, cond)
            IN IF local THEN Emit(v, Copy(v.locals[st.x], v.val)) ELSE StoreLv(v, c.lv, v.val)

Lower(b, e, how) ==
  CASE how.as = "value" -> RValue(b, e)
    [] how.as = "place" -> LValue(b, e)
    [] how.as = "effect" -> Effect(b, e)
    [] how.as = "branch" -> CondBranch(b, e, how.yes, how.no)
    [] how.as = "statement" -> LowerStmt(b, e)

\* The parameters arrive in registers; one whose address is taken is kept in memory.
LowerParam(b, x) ==
  LET t == IrTy(b.vars[x].ty)
      r == Fresh(b)
      c == [b EXCEPT !.f.vty = Append(@, t), !.f.params = Append(@, r)]
      byte == IF t = Bit THEN Resize(Yield(c, R(r)), Bit, I8, FALSE) ELSE Yield(c, R(r))
  IN IF b.vars[x].at = "reg" THEN [c EXCEPT !.locals[x] = r]
     ELSE Emit(byte, Store("ram", K(b.vars[x].o), byte.val, IF t = Bit THEN I8 ELSE t))

\* vars: name -> [ty, at, o, bo, w]; labels are numbered from 1 on.
BuildFunc(vars, params, ret, labels, body) ==
  LET new == [f |-> Func(<<>>, <<>>, IrTy(ret), <<Block(<<>>, Unreachable)>>), cur |-> 1,
              sealed |-> FALSE, vars |-> vars, locals |-> [x \in DOMAIN vars |-> 0],
              labels |-> Tuple([l \in 1 .. labels |-> 0]), breaks |-> <<>>, continues |-> <<>>,
              crit |-> <<>>, val |-> Nil, lv |-> NoLv]
      Ended(b) == TerminateIfOpen(CritExits(b), Ret(IF ret = "void" THEN Nil ELSE K(0)))
      Finish(b) == IF b.sealed THEN b.f ELSE Ended(b).f
  IN Finish(Statement(FoldLeft(LowerParam, new, params), body))
=============================================================================
