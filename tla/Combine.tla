------------------------------- MODULE Combine -------------------------------
(***************************************************************************)
(* Instruction combining (src/opt/combine.rs): constant folding, algebraic *)
(* rewrites, narrowing of single instructions and fusion of comparisons    *)
(* into branches.  An operator returns its argument where the code finds   *)
(* nothing to change; a chain of IF follows the order of the code's arms.  *)
(***************************************************************************)
EXTENDS Ir, SequencesExt

\* What a rewrite made of x, or Op(x) if it found nothing.
Else(x, new, Op(_)) == IF new # x THEN new ELSE Op(x)

\* The instruction that defines v, if v has one definition that dominates its uses.
SingleDef(f, v) ==
  IF Ssa(f, v) /\ ~IsParam(f, v)
  THEN LET p == First(Defs(f, v)) IN Insts(f, p[1])[p[2]]
  ELSE Nop
DefOf(f, v) == IF IsReg(v) THEN SingleDef(f, v[2]) ELSE Nop

\* Mutant: that s has one definition is enough.
RegStableOnce(f, x, s) == IsReg(x) => NumDefs(f, s) = 1

\* The operand x of the definition of s still has its value at every use of s.
RegStable(f, x, s) ==
  \/ ~IsReg(x)
  \/ Ssa(f, x[2]) /\ Ssa(f, s)
  \/ NumDefs(f, x[2]) = 0
  \/ /\ Defs(f, s) # {}
     /\ LET at == CHOOSE p \in Defs(f, s) : \A q \in Defs(f, s) :
                    p[1] > q[1] \/ (p[1] = q[1] /\ p[2] >= q[2])
            insts == Insts(f, at[1])
            redefs == {i \in at[2] + 1 .. Len(insts) : insts[i].d \in {x[2], s}}
            stop == IF redefs = {} THEN Len(insts) + 1 ELSE Min(redefs)
        IN Cardinality({u \in UsesIn(f, at[1], s) : u[2] > at[2] /\ u[2] <= stop})
             = NumUses(f, s)

Powers == {2 ^ i : i \in 0 .. 7}
Log2(k) == CHOOSE i \in 0 .. 7 : 2 ^ i = k

TopBitClear(f, v, t) ==
  LET by(def) ==
        \/ def.op = "ext" /\ ~def.sg /\ (IsReg(def.a) => f.vty[def.a[2]] < t)
        \/ def.op = "bin" /\ def.k = "and" /\ IsConst(def.b) /\ Norm(t, def.b[2]) < 2 ^ (t - 1)
        \/ def.op = "bin" /\ def.k = "shru" /\ IsConst(def.b) /\ def.b[2] > 0
        \/ def.op = "cmp"
  IN IF IsConst(v) THEN Norm(t, v[2]) < 2 ^ (t - 1) ELSE by(SingleDef(f, v[2]))

\* (x op k1) op k for the operation that does both.
Merged(op, k1, k, t) ==
  CASE op = "add" -> Norm(t, k1 + k)
    [] op = "and" -> And(k, k1)
    [] op = "or" -> Or(k, k1)
    [] op = "xor" -> Xor(k, k1)
    [] op \in {"shl", "shru"} -> k + k1

\* An operation whose right operand is the constant k.
SimplifyBinConst(f, ins, k) ==
  LET op == ins.k  d == ins.d  a == ins.a  t == f.vty[d]
      clear == TopBitClear(f, a, t)
      chained(def) ==
        IF /\ IsReg(a) /\ NumUses(f, a[2]) = 1
           /\ def.op = "bin" /\ def.k = op /\ IsConst(def.b)
           /\ op \in {"add", "and", "or", "xor", "shl", "shru"}
           /\ def.a # R(d) /\ RegStable(f, def.a, a[2])
        THEN Bin(op, d, def.a, K(Merged(op, Norm(t, def.b[2]), k, t)))
        ELSE ins
  IN IF k = 0 /\ op \in {"add", "sub", "or", "xor"} \cup Shifts THEN Copy(d, a)
     ELSE IF op = "sub" /\ IsReg(a) THEN Bin("add", d, a, K(Norm(t, -k)))
     ELSE IF k = 1 /\ op \in {"mul", "divu", "divs"} THEN Copy(d, a)
     ELSE IF k = 0 /\ op \in {"mul", "and"} THEN Copy(d, K(0))
     ELSE IF k = 1 /\ op \in {"modu", "mods"} THEN Copy(d, K(0))
     ELSE IF k = Mask(t) /\ op = "and" THEN Copy(d, a)
     ELSE IF k = Mask(t) /\ op = "or" THEN Copy(d, K(k))
     ELSE IF k = Mask(t) /\ op = "xor" THEN Un("not", d, a)
     ELSE IF k >= t /\ op \in {"shl", "shru"} THEN Copy(d, K(0))
     ELSE IF k >= t /\ op = "shrs" THEN Bin("shrs", d, a, K(t - 1))
     ELSE IF op = "mul" /\ k \in Powers THEN Bin("shl", d, a, K(Log2(k)))
     ELSE IF op = "mul" /\ k = Mask(t) THEN Un("neg", d, a)
     ELSE IF op = "divu" /\ k \in Powers THEN Bin("shru", d, a, K(Log2(k)))
     ELSE IF op = "modu" /\ k \in Powers THEN Bin("and", d, a, K(k - 1))
     ELSE IF op = "divs" /\ Sext(t, k) > 0 /\ clear THEN Bin("divu", d, a, K(k))
     ELSE IF op = "mods" /\ Sext(t, k) > 0 /\ clear THEN Bin("modu", d, a, K(k))
     ELSE IF op = "shrs" /\ clear THEN Bin("shru", d, a, K(k))
     ELSE chained(DefOf(f, a))

SimplifyBin(f, ins) ==
  LET op == ins.k  d == ins.d  a == ins.a  b == ins.b  t == f.vty[d]
      folded == EvalBin(op, a[2], b[2], t)
      other(i) ==
        IF a = b /\ IsReg(a) /\ op \in {"sub", "xor"} THEN Copy(d, K(0))
        ELSE IF a = b /\ IsReg(a) /\ op \in {"and", "or"} THEN Copy(d, a)
        ELSE IF a = K(0) /\ op = "sub" THEN Un("neg", d, b)
        ELSE IF a = K(0) /\ op \in Shifts \cup {"divu", "divs", "modu", "mods"} THEN Copy(d, K(0))
        ELSE i
  IN IF IsConst(a) /\ IsConst(b) /\ folded # Undefined THEN Copy(d, K(folded))
     ELSE IF op \in Commutative /\ IsConst(a) /\ IsReg(b) THEN Bin(op, d, b, a)
     ELSE Else(ins, IF IsConst(b) THEN SimplifyBinConst(f, ins, Norm(t, b[2])) ELSE ins, other)

\* A comparison with a constant whose outcome is known: {its value}, or {}.
TrivialCmp(c, b, t) ==
  IF ~IsConst(b) THEN {}
  ELSE LET u == Norm(t, b[2])  s == Sext(t, b[2])
       IN {r \in BOOLEAN :
             \/ c = (IF r THEN "geu" ELSE "ltu") /\ u = 0
             \/ c = (IF r THEN "leu" ELSE "gtu") /\ u = Mask(t)
             \/ c = (IF r THEN "ges" ELSE "lts") /\ s = -(2 ^ (t - 1))
             \/ c = (IF r THEN "les" ELSE "gts") /\ s = 2 ^ (t - 1) - 1}

RECURSIVE IsBoolean(_, _)
IsBoolean(f, v) ==
  \/ f.vty[v] = Bit
  \/ LET def == SingleDef(f, v)
     IN \/ def.op = "cmp"
        \/ def.op = "ext" /\ IsReg(def.a) /\ ~def.sg /\ IsBoolean(f, def.a[2])
        \/ def.op = "bin" /\ def.k = "and" /\ def.b = K(1)

Unsigned(c) ==
  IF c \in SignedConds THEN [lts |-> "ltu", les |-> "leu", gts |-> "gtu", ges |-> "geu"][c] ELSE c

\* A comparison of extended values: {the same on the narrow ones}, or {}.  Where the
\* constant is outside the narrow range the outcome is known: 0 = 0 or 0 = 1.
NarrowBy(f, c, a, b, t, ea, eb) ==
  LET w == f.vty[ea.a[2]]
      new(x, y, s) == [c |-> IF s THEN c ELSE Unsigned(c), a |-> x, b |-> y, ty |-> w]
      k == Norm(t, b[2])
      sk == Sext(t, b[2])
      signed == IF c \in SignedConds THEN sk ELSE k
      outcome == CASE c = "eq" -> FALSE [] c = "ne" -> TRUE
                   [] c \in {"lts", "les", "ltu", "leu"} -> signed > 0
                   [] OTHER -> signed < 0
  IN IF ~(ea.op = "ext" /\ IsReg(ea.a) /\ RegStable(f, ea.a, a[2])) \/ w = Bit THEN {}
     ELSE IF IsConst(b) /\ ~ea.sg /\ k > Mask(w)
          THEN {[c |-> "eq", a |-> K(0), b |-> K(AsInt(~outcome)), ty |-> I8]}
     ELSE IF IsConst(b) /\ ~ea.sg THEN {new(ea.a, K(k), FALSE)}
     ELSE IF IsConst(b)
          THEN IF sk \in -(2 ^ (w - 1)) .. 2 ^ (w - 1) - 1
               THEN {new(ea.a, K(Norm(w, b[2])), TRUE)} ELSE {}
     ELSE IF /\ eb.op = "ext" /\ RegStable(f, eb.a, b[2]) /\ eb.sg = ea.sg
             /\ IsReg(eb.a) => f.vty[eb.a[2]] = w
          THEN {new(ea.a, eb.a, ea.sg)}
     ELSE {}
NarrowCmp(f, c, a, b, t) ==
  IF IsReg(a) THEN NarrowBy(f, c, a, b, t, DefOf(f, a), DefOf(f, b)) ELSE {}

SimplifyCmpBy(f, ins, narrow, def) ==
  LET c == ins.k  d == ins.d  a == ins.a  b == ins.b  t == ins.ty
      n == CHOOSE x \in narrow : TRUE
      trivial == TrivialCmp(c, b, t)
      st == f.vty[a[2]]
  IN IF IsConst(a) /\ IsConst(b) THEN Copy(d, K(AsInt(Holds(c, a[2], b[2], t))))
     ELSE IF IsConst(a) THEN Cmp(Swap(c), d, b, a, t)
     ELSE IF narrow # {}
          THEN IF IsConst(n.a) /\ IsConst(n.b)
               THEN Copy(d, K(AsInt(Holds(n.c, n.a[2], n.b[2], n.ty))))
               ELSE Cmp(n.c, d, n.a, n.b, n.ty)
     ELSE IF trivial # {} THEN Copy(d, K(AsInt(TRUE \in trivial)))
     ELSE IF b # K(0) \/ c \notin {"eq", "ne"} THEN ins
     ELSE IF /\ def.op = "cmp" /\ NumUses(f, a[2]) = 1
             /\ RegStable(f, def.a, a[2]) /\ RegStable(f, def.b, a[2])
          THEN Cmp(IF c = "ne" THEN def.k ELSE Negate(def.k), d, def.a, def.b, def.ty)
     ELSE IF c = "ne" /\ IsBoolean(f, a[2])
          THEN IF st = f.vty[d] THEN Copy(d, a)
               ELSE IF f.vty[d] > st THEN Ext(d, a, FALSE) ELSE Trunc(d, a)
     ELSE ins
SimplifyCmp(f, ins) ==
  SimplifyCmpBy(f, ins, NarrowCmp(f, ins.k, ins.a, ins.b, ins.ty), DefOf(f, ins.a))

SimplifyExt(f, ins) ==
  LET d == ins.d  a == ins.a  t == f.vty[d]
      twice(def) ==
        IF /\ def.op = "ext" /\ (def.sg = ins.sg \/ ~def.sg)
           /\ RegStable(f, def.a, a[2]) /\ IsReg(def.a)
        THEN Ext(d, def.a, def.sg /\ f.vty[def.a[2]] # Bit)
        ELSE ins
  IN IF IsConst(a) THEN Copy(d, K(Norm(t, a[2])))
     ELSE IF f.vty[a[2]] = t THEN Copy(d, a)
     ELSE IF f.vty[a[2]] = Bit /\ ins.sg THEN Ext(d, a, FALSE)
     ELSE twice(DefOf(f, a))

SimplifyTrunc(f, ins) ==
  LET d == ins.d  a == ins.a  t == f.vty[d]
      again(def, x) ==
        IF def.op \in {"ext", "copy"} /\ IsConst(x) THEN Copy(d, K(Norm(t, x[2])))
        ELSE IF def.op \notin {"ext", "trunc"} \/ ~RegStable(f, x, a[2]) THEN ins
        ELSE IF def.op = "trunc" \/ f.vty[x[2]] > t THEN Trunc(d, x)
        ELSE IF f.vty[x[2]] = t THEN Copy(d, x) ELSE Ext(d, x, def.sg)
  IN IF IsConst(a) THEN Copy(d, K(Norm(t, a[2])))
     ELSE IF f.vty[a[2]] = t THEN Copy(d, a)
     ELSE again(DefOf(f, a), DefOf(f, a).a)

SimplifyInst(f, ins) ==
  CASE ins.op = "bin" -> SimplifyBin(f, ins)
    [] ins.op = "un" /\ IsConst(ins.a) -> Copy(ins.d, K(EvalUn(ins.k, ins.a[2], f.vty[ins.d])))
    [] ins.op = "cmp" -> SimplifyCmp(f, ins)
    [] ins.op = "ext" -> SimplifyExt(f, ins)
    [] ins.op = "trunc" -> SimplifyTrunc(f, ins)
    [] ins.op = "copy" /\ ins.a = R(ins.d) -> Nop
    [] OTHER -> ins

\* All instructions in order, each seeing the changes of those before it.
InOrder(f) == FlattenSeq([b \in Blocks(f) |-> [i \in DOMAIN Insts(f, b) |-> <<b, i>>]])
RECURSIVE SweepFrom(_, _)
SweepFrom(f, places) ==
  IF places = <<>> THEN f
  ELSE LET p == Head(places)
       IN SweepFrom(SetInst(f, p[1], p[2], SimplifyInst(f, Insts(f, p[1])[p[2]])), Tail(places))
Sweep(f) == SweepFrom(f, InOrder(f))

DropNops(f) ==
  WithBlocks(f, LAMBDA b :
    [f.blocks[b] EXCEPT !.insts = SelectSeq(@, LAMBDA i : i.op # "nop")])

-----------------------------------------------------------------------------
(* Fusion of comparisons into branches. *)

FuseBr(f, t, s, def) ==
  LET stable == RegStable(f, def.a, s)
  IN IF def.op = "cmp" /\ NumUses(f, s) = 1 /\ stable /\ RegStable(f, def.b, s)
     THEN CmpBr(def.k, def.a, def.b, def.ty, t.t, t.e)
     ELSE IF def.op = "ext" /\ IsReg(def.a) /\ stable THEN Br(def.a, t.t, t.e)
     ELSE IF def.op = "copy" /\ stable THEN Br(def.a, t.t, t.e)
     ELSE IF def.op = "un" /\ def.k = "neg" /\ stable THEN Br(def.a, t.t, t.e)
     ELSE t

FuseCmpBr(f, t, narrow) ==
  LET c == t.k  a == t.a  b == t.b  ty == t.ty
      n == CHOOSE x \in narrow : TRUE
      trivial == TrivialCmp(c, b, ty)
      next == K(Norm(ty, b[2] + 1))
      goto(r) == Jmp(IF r THEN t.t ELSE t.e)
  IN IF c = "ne" /\ IsReg(a) /\ b = K(0) THEN Br(a, t.t, t.e)
     ELSE IF c = "eq" /\ IsReg(a) /\ b = K(0) THEN Br(a, t.e, t.t)
     ELSE IF IsConst(a) /\ IsReg(b) THEN CmpBr(Swap(c), b, a, ty, t.t, t.e)
     ELSE IF narrow # {}
          THEN IF IsConst(n.a) /\ IsConst(n.b) THEN goto(Holds(n.c, n.a[2], n.b[2], n.ty))
               ELSE CmpBr(n.c, n.a, n.b, n.ty, t.t, t.e)
     ELSE IF trivial # {} THEN goto(TRUE \in trivial)
     ELSE IF ~IsConst(b) THEN t
     ELSE IF c = "leu" /\ Norm(ty, b[2]) < Mask(ty) THEN CmpBr("ltu", a, next, ty, t.t, t.e)
     ELSE IF c = "gtu" /\ Norm(ty, b[2]) < Mask(ty) THEN CmpBr("geu", a, next, ty, t.t, t.e)
     ELSE IF c = "les" /\ Sext(ty, b[2]) < 2 ^ (ty - 1) - 1 THEN CmpBr("lts", a, next, ty, t.t, t.e)
     ELSE IF c = "gts" /\ Sext(ty, b[2]) < 2 ^ (ty - 1) - 1 THEN CmpBr("ges", a, next, ty, t.t, t.e)
     ELSE t

\* A switch on a zero-extended value: on the value itself, without the impossible cases.
FuseSwitch(f, t, def) ==
  LET w == f.vty[def.a[2]]
  IN IF /\ def.op = "ext" /\ IsReg(def.a) /\ ~def.sg
        /\ RegStable(f, def.a, t.a[2]) /\ w # Bit
     THEN Switch(def.a, w, SelectSeq(t.cases, LAMBDA c : c[1] <= Mask(w)), t.e)
     ELSE t

FuseBranches(f) ==
  WithBlocks(f, LAMBDA b :
     LET t == f.blocks[b].term
     IN [f.blocks[b] EXCEPT !.term =
           CASE t.op = "br" /\ IsReg(t.a) -> FuseBr(f, t, t.a[2], SingleDef(f, t.a[2]))
             [] t.op = "cmpbr" -> FuseCmpBr(f, t, NarrowCmp(f, t.k, t.a, t.b, t.ty))
             [] t.op = "switch" /\ IsReg(t.a) -> FuseSwitch(f, t, SingleDef(f, t.a[2]))
             [] OTHER -> t])

-----------------------------------------------------------------------------
(* Rewrites tried when nothing above changed anything; each does one at a time. *)

\* c = copy x; ..; x = ..; d = load [c]: load through x before x changes, so that c dies.
Hoistable(f, b, j) ==
  LET ins == Insts(f, b)[j]
      c == ins.a[2]
      at == First(Defs(f, c))
      between == {Insts(f, b)[i] : i \in at[2] + 1 .. j - 1}
      x == Insts(f, b)[at[2]].a
  IN /\ ins.op = "load" /\ IsReg(ins.a)
     /\ NumUses(f, c) = 1 /\ NumDefs(f, ins.d) = 1 /\ NumDefs(f, c) = 1 /\ ~IsParam(f, c)
     /\ at[1] = b /\ at[2] < j
     /\ Insts(f, b)[at[2]].op = "copy" /\ IsReg(x)
     /\ ins.k = "code" \/ \A i \in between : ~HasSideEffects(i)
     /\ \A i \in between : ins.d \notin Reads(i)
     /\ \E i \in between : i.d = x[2]

HoistPostIncLoads(f) ==
  LET found == {p \in Places(f) : Hoistable(f, p[1], p[2])}
      hoisted(p, ins, at) ==
        [f EXCEPT !.blocks[p[1]].insts =
           InsertAt(RemoveAt(@, p[2]), at[2] + 1, [ins EXCEPT !.a = Insts(f, p[1])[at[2]].a])]
      from(p, ins) == hoisted(p, ins, First(Defs(f, ins.a[2])))
      there(p) == from(p, Insts(f, p[1])[p[2]])
  IN IF found = {} THEN f ELSE there(First(found))

\* An operation on a zero-extended value whose result fits the value's own width.
NarrowExtOp(f, b, i) ==
  LET ins == Insts(f, b)[i]
      by(def) == /\ def.op = "ext" /\ IsReg(def.a) /\ ~def.sg
                 /\ RegStable(f, def.a, ins.a[2]) /\ f.vty[def.a[2]] # Bit
  IN /\ ins.op = "bin" /\ ins.k \in {"and", "shru", "divu", "modu"}
     /\ IsReg(ins.a) /\ IsConst(ins.b)
     /\ by(DefOf(f, ins.a))

NarrowExtOps(f) ==
  LET found == {p \in Places(f) : NarrowExtOp(f, p[1], p[2])}
      \* ins, at p, computes with the extension of x, of type w
      narrowed(p, ins, x, w) ==
        LET k == ins.b[2]
            t == Len(f.vty) + 1
            op == Bin(ins.k, t, x, K(IF ins.k = "and" THEN Norm(w, k) ELSE k))
        IN IF (ins.k = "shru" /\ k >= w) \/ (ins.k = "divu" /\ k > Mask(w))
           THEN SetInst(f, p[1], p[2], Copy(ins.d, K(0)))
           ELSE IF ins.k = "modu" /\ k > Mask(w) THEN SetInst(f, p[1], p[2], Copy(ins.d, ins.a))
           ELSE [NewReg(SetInst(f, p[1], p[2], Ext(ins.d, R(t), FALSE)), w)
                   EXCEPT !.blocks[p[1]].insts = InsertAt(@, p[2], op)]
      at(p, ins) == LET x == DefOf(f, ins.a).a IN narrowed(p, ins, x, f.vty[x[2]])
      there(p) == at(p, Insts(f, p[1])[p[2]])
  IN IF found = {} THEN f ELSE there(First(found))

\* Only the low bits of s are used: it is truncated by its only use.
TruncCandidate(f, b, i) ==
  LET ins == Insts(f, b)[i]
      s == ins.a[2]
      def == LET p == First(Defs(f, s)) IN Insts(f, p[1])[p[2]]
  IN /\ ins.op = "trunc" /\ IsReg(ins.a)
     /\ NumDefs(f, s) = 1 /\ NumUses(f, s) = 1 /\ ~IsParam(f, s)
     /\ f.vty[ins.d] # Bit
     /\ \/ def.op = "bin" /\ def.k \in {"add", "sub", "mul", "and", "or", "xor"}
        \/ def.op = "bin" /\ def.k = "shl" /\ IsConst(def.b)
        \/ def.op \in {"un", "copy", "trunc"}
        \/ def.op = "ext" /\ IsReg(def.a)
        \/ def.op = "load" /\ ~Volatile(def)

\* The operands of def that are truncated, and def in type w on what they become.
TruncOperands(def) ==
  IF def.op = "bin" /\ def.k # "shl" THEN <<def.a, def.b>>
  ELSE IF def.op \in {"bin", "un", "copy"} THEN <<def.a>> ELSE <<>>
TruncDef(f, def, s, w, vals) ==
  LET \* a constant, or the next new register
      low(i) == IF IsConst(vals[i]) THEN K(Norm(w, vals[i][2]))
                ELSE R(Len(f.vty) + Cardinality({j \in 1 .. i : IsReg(vals[j])}))
      aty == f.vty[def.a[2]]
  IN CASE def.op = "bin" /\ def.k # "shl" -> Bin(def.k, s, low(1), low(2))
       [] def.op = "bin" /\ def.k = "shl" -> IF def.b[2] >= w THEN Copy(s, K(0))
                                             ELSE Bin("shl", s, low(1), def.b)
       [] def.op = "un" -> Un(def.k, s, low(1))
       [] def.op = "copy" -> Copy(s, low(1))
       [] def.op = "ext" -> IF aty > w THEN Trunc(s, def.a)
                            ELSE IF aty = w THEN Copy(s, def.a) ELSE Ext(s, def.a, def.sg)
       [] def.op \in {"trunc", "load"} -> def

NarrowTrunc(f) ==
  LET found == {p \in Places(f) : TruncCandidate(f, p[1], p[2])}
      \* tr truncates s, defined at p by def with the operands vals
      narrowed(tr, s, p, def, vals) ==
        LET w == f.vty[tr.d]
            regs == SelectSeq(vals, IsReg)
            pre == Tuple([j \in DOMAIN regs |-> Trunc(Len(f.vty) + j, regs[j])])
            body == SubSeq(Insts(f, p[1]), 1, p[2] - 1) \o pre \o <<TruncDef(f, def, s, w, vals)>>
                      \o SubSeq(Insts(f, p[1]), p[2] + 1, Len(Insts(f, p[1])))
            copied(insts) == Tuple([i \in DOMAIN insts |->
                                      IF insts[i] = tr THEN Copy(tr.d, tr.a) ELSE insts[i]])
        IN [WithBlocks(f, LAMBDA b :
              [f.blocks[b] EXCEPT !.insts = copied(IF b = p[1] THEN body ELSE @)])
              EXCEPT !.vty = [@ EXCEPT ![s] = w] \o [j \in DOMAIN regs |-> w]]
      defined(tr, p, def) == narrowed(tr, tr.a[2], p, def, TruncOperands(def))
      by(tr, p) == defined(tr, p, Insts(f, p[1])[p[2]])
      at(tr) == by(tr, First(Defs(f, tr.a[2])))
      there(p) == at(Insts(f, p[1])[p[2]])
  IN IF found = {} THEN f ELSE there(First(found))

\* A factor of a 16 by 16 to 32 bit product: {its 16-bit value and the extension it had}.
Factor(f, x, at, def) ==
  LET k == Sext(I32, x[2])
  IN IF IsConst(x)
     THEN {[v |-> K(Norm(I16, k)), signs |-> {s \in BOOLEAN :
                  IF s THEN k \in -(2 ^ (I16 - 1)) .. 2 ^ (I16 - 1) - 1 ELSE k \in 0 .. Mask(I16)}]}
     ELSE IF /\ def.op = "ext" /\ IsReg(def.a) /\ f.vty[def.a[2]] = I16
             /\ RegStable(f, def.a, x[2]) /\ RegStable(f, def.a, at)
     THEN {[v |-> def.a, signs |-> {def.sg}]}
     ELSE {}

WideningMul(f) ==
  LET factor(x, ins) == Factor(f, x, ins.d, DefOf(f, x))
      Product16(ins, factors) ==
        LET p == CHOOSE x \in factors : TRUE
            signs == p[1].signs \cap p[2].signs
        IN IF factors = {} THEN ins
           ELSE IF Cardinality(signs) # 1 THEN ins
           ELSE Call(ins.d, IF TRUE \in signs THEN "mulsint32" ELSE "muluint32",
                     <<p[1].v, p[2].v>>)
      Rewritten(ins) == Product16(ins, factor(ins.a, ins) \X factor(ins.b, ins))
  IN WithBlocks(f, LAMBDA b : [f.blocks[b] EXCEPT !.insts = Tuple([i \in DOMAIN @ |->
        IF @[i].op = "bin" /\ @[i].k = "mul" /\ f.vty[@[i].d] = I32 /\ IsReg(@[i].a)
        THEN Rewritten(@[i]) ELSE @[i]])])

-----------------------------------------------------------------------------

\* One turn of the loop of combine::run.
CombineOnce(f) ==
  LET local == FuseBranches(DropNops(Sweep(f)))
      hoisted == Else(f, local, HoistPostIncLoads)
      narrowed == Else(f, hoisted, LAMBDA g : Else(g, NarrowExtOps(g), NarrowTrunc))
  IN Else(f, narrowed, WideningMul)
=============================================================================
