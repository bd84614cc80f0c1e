------------------------------- MODULE Narrow -------------------------------
(***************************************************************************)
(* Narrowing by demanded bits (src/opt/narrow.rs): which bits of every     *)
(* register anybody looks at, and a smaller type for those whose high bits *)
(* nobody does.  A mask is a set of bit numbers.                           *)
(***************************************************************************)
EXTENDS Ir, SequencesExt

CONSTANT Sweeps    \* limit on the passes of the analysis: 30

AllBits(t) == 0 .. t - 1
BitsOf(v) == {i \in 0 .. 7 : BitOf(v, i) = 1}
LowFill(m) == IF m = {} THEN {} ELSE 0 .. Max(m)
Up(m, n) == {i + n : i \in m}
Down(m, n) == {i - n : i \in {j \in m : j >= n}}

ValTy(f, v, default) == IF IsReg(v) THEN f.vty[v[2]] ELSE default

\* The bits that an operation asks of its left and of its right operand, if the bits m of
\* its result are asked for.
BinDemand(op, m, a, b, t) ==
  LET k == b[2]
      Both(x, y) == <<x, y>>
  IN IF m = {} THEN Both({}, {})
     ELSE CASE op \in {"add", "sub", "mul"} -> Both(LowFill(m), LowFill(m))
            [] op = "and" -> Both(IF IsConst(b) THEN m \cap BitsOf(k) ELSE m,
                                  IF IsConst(a) THEN m \cap BitsOf(a[2]) ELSE m)
            [] op = "or" -> Both(IF IsConst(b) THEN m \ BitsOf(k) ELSE m, m)
            [] op = "xor" -> Both(m, m)
            [] op \in Shifts /\ ~IsConst(b) ->
                 Both(IF op = "shl" THEN LowFill(m) ELSE AllBits(t), AllBits(I8))
            [] op = "shl" /\ IsConst(b) -> Both(Down(m, k), {})
            [] op = "shru" /\ IsConst(b) -> Both(Up(m, k) \cap AllBits(t), {})
            [] op = "shrs" /\ IsConst(b) ->
                 LET in == IF k >= t THEN AllBits(t) ELSE t - k .. t - 1   \* copies of the sign
                 IN Both((Up(m, k) \cap AllBits(t))
                           \cup (IF m \cap in # {} THEN {t - 1} ELSE {}), {})
            [] OTHER -> Both(AllBits(t), AllBits(t))

PtrDemand(f, i) ==
  IF i.k = "idata" THEN AllBits(I8) ELSE AllBits(ValTy(f, i.a, I16))

ArgTy(g, n) ==
  IF g \in DOMAIN Signatures /\ n <= Len(Signatures[g].params)
  THEN Signatures[g].params[n] ELSE NoType

\* <<operand, bits>> for every operand of an instruction.
InstDemands(f, i, dem) ==
  LET m == IF i.d = 0 THEN {} ELSE dem[i.d]
      t == f.vty[i.d]
      at == ValTy(f, i.a, I8)
      two == BinDemand(i.k, m, i.a, i.b, t)
  IN CASE i.op \in {"copy", "trunc"} -> {<<i.a, m>>}
       [] i.op = "bin" -> {<<i.a, two[1]>>, <<i.b, two[2]>>}
       [] i.op = "un" -> {<<i.a, IF i.k = "neg" THEN LowFill(m) ELSE m>>}
       [] i.op = "cmp" -> {<<i.a, AllBits(i.ty)>>, <<i.b, AllBits(i.ty)>>}
       [] i.op = "ext" -> {<<i.a, (m \cap AllBits(at)) \cup
                             (IF i.sg /\ at # Bit /\ ~(m \subseteq AllBits(at))
                              THEN {at - 1} ELSE {})>>}
       [] i.op = "load" -> {<<i.a, PtrDemand(f, i)>>}
       [] i.op = "store" -> {<<i.a, PtrDemand(f, i)>>, <<i.b, AllBits(i.ty)>>}
       [] i.op = "call" -> {<<i.args[n], LET t2 == ArgTy(i.k, n)
                                         IN AllBits(IF t2 = NoType THEN I32 ELSE t2)>>
                              : n \in DOMAIN i.args}
       [] i.op = "critexit" -> {<<i.a, {0}>>}
       [] OTHER -> {}

TermDemands(f, t) ==
  CASE t.op = "br" -> {<<t.a, AllBits(ValTy(f, t.a, I16))>>}
    [] t.op = "cmpbr" -> {<<t.a, AllBits(t.ty)>>, <<t.b, AllBits(t.ty)>>}
    [] t.op = "switch" -> {<<t.a, AllBits(t.ty)>>}
    [] t.op = "ret" -> {<<t.a, AllBits(IF f.ret = NoType THEN I32 ELSE f.ret)>>}
    [] OTHER -> {}

Added(f, dem, demands) ==
  [v \in DOMAIN dem |->
     (dem[v] \cup UNION {d[2] : d \in {e \in demands : e[1] = R(v)}}) \cap AllBits(f.vty[v])] \o <<>>

\* One sweep in program order: an instruction sees what those before it added.
RECURSIVE DemandSweep(_, _, _, _)
DemandSweep(f, b, i, dem) ==
  IF b > Len(f.blocks) THEN dem
  ELSE IF i > Len(Insts(f, b))
  THEN DemandSweep(f, b + 1, 1, Added(f, dem, TermDemands(f, f.blocks[b].term)))
  ELSE DemandSweep(f, b, i + 1, Added(f, dem, InstDemands(f, Insts(f, b)[i], dem)))

RECURSIVE DemandedIn(_, _, _)
DemandedIn(f, dem, n) ==
  LET next == DemandSweep(f, 1, 1, dem)
  IN IF n = 0 \/ next = dem THEN dem ELSE DemandedIn(f, next, n - 1)
Demanded(f) == DemandedIn(f, [v \in 1 .. Len(f.vty) |-> {}] \o <<>>, Sweeps)

\* The smallest type that holds the bits m.
WidthFor(m) == Widths[Min({n \in DOMAIN Widths : m \subseteq AllBits(Widths[n])})]

NarrowableDef(i) ==
  \/ i.op \in {"copy", "un", "cmp", "ext", "trunc"}
  \/ i.op = "bin" /\ i.k \in {"add", "sub", "mul", "and", "or", "xor", "shl"}
  \/ i.op = "load" /\ ~Volatile(i)

NarrowTypes(f) ==
  LET dem == Demanded(f)
      can(v) == /\ f.vty[v] # Bit /\ ~IsParam(f, v) /\ Defs(f, v) # {}
                /\ \A p \in Defs(f, v) : NarrowableDef(Insts(f, p[1])[p[2]])
  IN [v \in DOMAIN f.vty |->
        LET w == WidthFor(dem[v]) IN IF can(v) /\ w < f.vty[v] THEN w ELSE f.vty[v]] \o <<>>

(* Operands are converted to the types their instructions now have.  fx: the *)
(* function with its register types, and the instructions emitted so far.    *)

\* Mutant: operands keep the width they have.
ConvertedNever(fx, v, want, signed) == [fx EXCEPT !.val = v]

Converted(fx, v, want, signed) ==
  LET t == fx.f.vty[v[2]]
      nv == Len(fx.f.vty) + 1
  IN IF IsConst(v) THEN [fx EXCEPT !.val = K(Norm(want, v[2]))]
     ELSE IF ~IsReg(v) \/ t = want THEN [fx EXCEPT !.val = v]
     ELSE [f |-> NewReg(fx.f, want), val |-> R(nv),
           out |-> Append(fx.out, IF want < t THEN Trunc(nv, v) ELSE Ext(nv, v, signed))]

\* Both operands, to the types ta and tb; 0 leaves one as it is.
FixOperands(fx, ins, ta, tb, signed) ==
  LET x == IF ta = NoType THEN [fx EXCEPT !.val = ins.a] ELSE Converted(fx, ins.a, ta, signed)
      y == IF tb = NoType THEN [x EXCEPT !.val = ins.b] ELSE Converted(x, ins.b, tb, FALSE)
  IN [y EXCEPT !.val = [ins EXCEPT !.a = x.val, !.b = y.val]]

RECURSIVE FixArgs(_, _, _, _)
FixArgs(fx, ins, old, n) ==
  IF n > Len(ins.args) THEN [fx EXCEPT !.val = ins]
  ELSE LET a == ins.args[n]
           want == IF ArgTy(ins.k, n) # NoType THEN ArgTy(ins.k, n)
                   ELSE IF a[2] \in DOMAIN old THEN old[a[2]] ELSE I16
           c == Converted(fx, a, want, FALSE)
       IN IF ~IsReg(a) THEN FixArgs(fx, ins, old, n + 1)
          ELSE FixArgs(c, [ins EXCEPT !.args[n] = c.val], old, n + 1)

PtrTy(f, ins) ==
  IF ~IsReg(ins.a) \/ (ins.k = "idata" /\ f.vty[ins.a[2]] = I8) THEN NoType ELSE I16

\* Extension and truncation become what the types now call for.
Resized(f, ins) ==
  LET t == f.vty[ins.d]
      at == f.vty[ins.a[2]]
  IN IF ~IsReg(ins.a) THEN IF ins.op = "ext" THEN Copy(ins.d, K(Norm(t, ins.a[2]))) ELSE ins
     ELSE IF at = t THEN Copy(ins.d, ins.a)
     ELSE IF at > t THEN Trunc(ins.d, ins.a)
     ELSE IF ins.op = "trunc" THEN Ext(ins.d, ins.a, FALSE) ELSE ins

FixInst(fx, ins, old) ==
  LET f == fx.f
      t == f.vty[ins.d]
  IN CASE ins.op \in {"copy", "un"} -> FixOperands(fx, ins, t, NoType, FALSE)
       [] ins.op = "bin" ->
            FixOperands(fx, ins, t, IF ins.k \notin Shifts THEN t
                                    ELSE IF IsReg(ins.b) THEN I8 ELSE NoType, ins.k = "shrs")
       [] ins.op = "cmp" -> FixOperands(fx, ins, ins.ty, ins.ty, FALSE)
       [] ins.op \in {"ext", "trunc"} -> [fx EXCEPT !.val = Resized(f, ins)]
       [] ins.op = "load" -> FixOperands(fx, ins, PtrTy(f, ins), NoType, FALSE)
       [] ins.op = "store" -> FixOperands(fx, ins, PtrTy(f, ins), ins.ty, FALSE)
       [] ins.op = "call" -> FixArgs(fx, ins, old, 1)
       [] OTHER -> [fx EXCEPT !.val = ins]

FixTerm(fx, t) ==
  CASE t.op = "cmpbr" -> FixOperands(fx, t, t.ty, t.ty, FALSE)
    [] t.op = "switch" -> FixOperands(fx, t, t.ty, NoType, FALSE)
    [] t.op = "ret" /\ fx.f.ret # NoType -> FixOperands(fx, t, fx.f.ret, NoType, FALSE)
    [] OTHER -> [fx EXCEPT !.val = t]

RECURSIVE FixBlock(_, _, _, _)
FixBlock(fx, b, i, old) ==
  IF i > Len(Insts(fx.f, b))
  THEN LET t == FixTerm(fx, fx.f.blocks[b].term)
       IN [t.f EXCEPT !.blocks[b] = Block(t.out, t.val)]
  ELSE LET x == FixInst(fx, Insts(fx.f, b)[i], old)
       IN FixBlock([x EXCEPT !.out = Append(@, x.val), !.val = Nil], b, i + 1, old)

RECURSIVE FixFrom(_, _, _)
FixFrom(f, b, old) ==
  IF b > Len(f.blocks) THEN f
  ELSE FixFrom(FixBlock([f |-> f, val |-> Nil, out |-> <<>>], b, 1, old), b + 1, old)

NarrowPass(f) ==
  LET types == NarrowTypes(f)
  IN IF types = f.vty THEN f ELSE FixFrom([f EXCEPT !.vty = types], 1, f.vty)
=============================================================================
