--------------------------------- MODULE Ir ---------------------------------
(***************************************************************************)
(* The intermediate representation (src/ir/mod.rs): types, values,         *)
(* instructions, control-flow graph, its verifier, and what the compiler   *)
(* takes operations to compute (eval in src/ir/mod.rs, eval_bin in         *)
(* src/opt/combine.rs).                                                    *)
(*                                                                         *)
(* A byte has two bits here: a type is its number of bits.  Addresses as   *)
(* values (Val::Addr), frame objects, block copies and inline assembly are *)
(* left out.                                                               *)
(***************************************************************************)
EXTENDS Integers, FiniteSets, Sequences

CONSTANT Signatures   \* the functions that may be called: name -> [params, ret]

Bit == 1
I8 == 2
I16 == 4
I24 == 6
I32 == 8
NoType == 0
Widths == <<I8, I16, I24, I32>>

Mask(t) == 2 ^ t - 1
Norm(t, v) == v % 2 ^ t
Sext(t, v) == LET u == Norm(t, v) IN IF u >= 2 ^ (t - 1) THEN u - 2 ^ t ELSE u

\* Conjunction of up to eight bits, four at a time.
BitOf(v, i) == (v \div 2 ^ i) % 2
NibbleAnd ==
  [a \in 0 .. 15, b \in 0 .. 15 |->
     BitOf(a, 0) * BitOf(b, 0) + 2 * BitOf(a, 1) * BitOf(b, 1)
       + 4 * BitOf(a, 2) * BitOf(b, 2) + 8 * BitOf(a, 3) * BitOf(b, 3)]
And(a, b) == NibbleAnd[a % 16, b % 16] + 16 * NibbleAnd[(a \div 16) % 16, (b \div 16) % 16]
Or(a, b) == a + b - And(a, b)
Xor(a, b) == a + b - 2 * And(a, b)

Commutative == {"add", "mul", "and", "or", "xor"}
Shifts == {"shl", "shru", "shrs"}

\* What an operation yields that the code leaves undefined.
Undefined == -1

Quotient(a, b) ==
  LET abs(x) == IF x < 0 THEN -x ELSE x
      q == abs(a) \div abs(b)
  IN IF (a < 0) = (b < 0) THEN q ELSE -q

EvalBin(op, x, y, t) ==
  LET a == Norm(t, x)  b == Norm(t, y)
      sa == Sext(t, x) sb == Sext(t, y)
  IN IF op \in {"divu", "divs", "modu", "mods"} /\ b = 0 THEN Undefined
     ELSE Norm(t, CASE op = "add" -> a + b
                    [] op = "sub" -> a - b
                    [] op = "mul" -> a * b
                    [] op = "divu" -> a \div b
                    [] op = "modu" -> a % b
                    [] op = "divs" -> Quotient(sa, sb)
                    [] op = "mods" -> sa - sb * Quotient(sa, sb)
                    [] op = "and" -> And(a, b)
                    [] op = "or" -> Or(a, b)
                    [] op = "xor" -> Xor(a, b)
                    [] op = "shl" -> IF b >= t THEN 0 ELSE a * 2 ^ b
                    [] op = "shru" -> IF b >= t THEN 0 ELSE a \div 2 ^ b
                    [] op = "shrs" -> sa \div 2 ^ (IF b >= t THEN t - 1 ELSE b))

EvalUn(op, x, t) == Norm(t, IF op = "neg" THEN -x ELSE -x - 1)

Negate(c) ==
  [eq |-> "ne", ne |-> "eq", lts |-> "ges", ges |-> "lts", les |-> "gts", gts |-> "les",
   ltu |-> "geu", geu |-> "ltu", leu |-> "gtu", gtu |-> "leu"][c]

\* The condition for swapped operands.
Swap(c) ==
  [eq |-> "eq", ne |-> "ne", lts |-> "gts", gts |-> "lts", les |-> "ges", ges |-> "les",
   ltu |-> "gtu", gtu |-> "ltu", leu |-> "geu", geu |-> "leu"][c]

SignedConds == {"lts", "les", "gts", "ges"}

Holds(c, x, y, t) ==
  LET a == IF c \in SignedConds THEN Sext(t, x) ELSE Norm(t, x)
      b == IF c \in SignedConds THEN Sext(t, y) ELSE Norm(t, y)
  IN CASE c = "eq" -> a = b
       [] c = "ne" -> a # b
       [] c \in {"lts", "ltu"} -> a < b
       [] c \in {"les", "leu"} -> a <= b
       [] c \in {"gts", "gtu"} -> a > b
       [] c \in {"ges", "geu"} -> a >= b

AsInt(b) == IF b THEN 1 ELSE 0

\* The sequence s itself.  (TLC evaluates a function expression anew each time it is
\* applied, and keeps a concatenation.)
Tuple(s) == s \o <<>>

-----------------------------------------------------------------------------
(* Values: a virtual register or a constant. *)

R(n) == <<"r", n>>
K(n) == <<"k", n>>
Nil == <<"-", 0>>
IsReg(v) == v[1] = "r"
IsConst(v) == v[1] = "k"

(* Instructions: operation, its kind, register defined (0: none), operands, *)
(* type of the operands, signedness, arguments of a call.  Memory has four  *)
(* spaces: "ram" (an object in internal memory), "sfr" (volatile), and      *)
(* through a pointer "code" (read-only), "idata" (internal memory, eight    *)
(* bits of address) and "xdata" (taken for volatile).                       *)

Inst(op, k, d, a, b, t, s, args) ==
  [op |-> op, k |-> k, d |-> d, a |-> a, b |-> b, ty |-> t, sg |-> s, args |-> args]
Copy(d, a) == Inst("copy", "", d, a, Nil, 0, FALSE, <<>>)
Bin(op, d, a, b) == Inst("bin", op, d, a, b, 0, FALSE, <<>>)
Un(op, d, a) == Inst("un", op, d, a, Nil, 0, FALSE, <<>>)
Cmp(c, d, a, b, t) == Inst("cmp", c, d, a, b, t, FALSE, <<>>)
Ext(d, a, s) == Inst("ext", "", d, a, Nil, 0, s, <<>>)
Trunc(d, a) == Inst("trunc", "", d, a, Nil, 0, FALSE, <<>>)
Load(d, sp, p) == Inst("load", sp, d, p, Nil, 0, FALSE, <<>>)
Store(sp, p, v, t) == Inst("store", sp, 0, p, v, t, FALSE, <<>>)
Call(d, g, args) == Inst("call", g, d, Nil, Nil, 0, FALSE, args)
CritEnter(d) == Inst("critenter", "", d, Nil, Nil, 0, FALSE, <<>>)
CritExit(v) == Inst("critexit", "", 0, R(v), Nil, 0, FALSE, <<>>)
Nop == Inst("nop", "", 0, Nil, Nil, 0, FALSE, <<>>)

Volatile(i) == i.op = "load" /\ i.k \in {"sfr", "xdata"}
HasSideEffects(i) == i.op \in {"store", "call", "critenter", "critexit"} \/ Volatile(i)

\* The registers an instruction reads.
Operands(i) == <<i.a, i.b>> \o i.args
Reads(i) == {v[2] : v \in {w \in {i.a, i.b} : IsReg(w)}}
              \cup {i.args[n][2] : n \in {m \in DOMAIN i.args : IsReg(i.args[m])}}

\* Substitute operands; the register CritExit restores from is not a value operand.
MapVals(i, Op(_)) ==
  IF i.op = "critexit" THEN i
  ELSE [i EXCEPT !.a = Op(@), !.b = Op(@), !.args = Tuple([n \in DOMAIN @ |-> Op(@[n])])]

(* Terminators. *)
Term(op, k, a, b, t, th, el, cases) ==
  [op |-> op, k |-> k, a |-> a, b |-> b, ty |-> t, t |-> th, e |-> el, cases |-> cases]
Jmp(b) == Term("jmp", "", Nil, Nil, 0, b, 0, <<>>)
Br(a, t, e) == Term("br", "", a, Nil, 0, t, e, <<>>)
CmpBr(c, a, b, ty, t, e) == Term("cmpbr", c, a, b, ty, t, e, <<>>)
Switch(a, ty, cases, d) == Term("switch", "", a, Nil, ty, 0, d, cases)   \* cases: <<value, block>>
Ret(a) == Term("ret", "", a, Nil, 0, 0, 0, <<>>)
Unreachable == Term("unreachable", "", Nil, Nil, 0, 0, 0, <<>>)

Succs(t) ==
  CASE t.op = "jmp" -> <<t.t>>
    [] t.op \in {"br", "cmpbr"} -> <<t.t, t.e>>
    [] t.op = "switch" -> Append(Tuple([n \in DOMAIN t.cases |-> t.cases[n][2]]), t.e)
    [] OTHER -> <<>>
MapSuccs(t, Op(_)) ==
  CASE t.op = "jmp" -> [t EXCEPT !.t = Op(@)]
    [] t.op \in {"br", "cmpbr"} -> [t EXCEPT !.t = Op(@), !.e = Op(@)]
    [] t.op = "switch" -> [t EXCEPT !.e = Op(@),
                             !.cases = Tuple([n \in DOMAIN @ |-> <<@[n][1], Op(@[n][2])>>])]
    [] OTHER -> t
TermReads(t) == {v[2] : v \in {w \in {t.a, t.b} : IsReg(w)}}
MapTermVals(t, Op(_)) == [t EXCEPT !.a = Op(@), !.b = Op(@)]

(* A function: types of its registers, registers of its parameters, result  *)
(* type, blocks (execution starts at the first), and whether returns may be *)
(* duplicated (no interrupt, naked or critical attribute).                  *)
Block(insts, term) == [insts |-> insts, term |-> term]
Func(vty, params, ret, blocks) ==
  [vty |-> vty, params |-> params, ret |-> ret, blocks |-> blocks, plain |-> TRUE]

Blocks(f) == DOMAIN f.blocks
Insts(f, b) == f.blocks[b].insts
NewReg(f, t) == [f EXCEPT !.vty = Append(@, t)]
WithBlocks(f, Op(_)) == [f EXCEPT !.blocks = Tuple([b \in DOMAIN @ |-> Op(b)])]
SetInst(f, b, i, ins) == [f EXCEPT !.blocks[b].insts[i] = ins]
IsParam(f, v) == \E n \in DOMAIN f.params : f.params[n] = v

Elements(s) == {s[n] : n \in DOMAIN s}
Succ(f, b) == Elements(Succs(f.blocks[b].term))
Preds(f, b) == {p \in Blocks(f) : b \in Succ(f, p)}

RECURSIVE Reach(_, _, _)
Reach(f, S, avoid) ==
  LET new == (UNION {Succ(f, b) : b \in S}) \ (S \cup avoid)
  IN IF new = {} THEN S ELSE Reach(f, S \cup new, avoid)
Reachable(f) == Reach(f, {1}, {})

\* Every way from the entry to b goes through a.
Dominates(f, a, b) ==
  a = b \/ (b \in Reachable(f) /\ b \notin Reach(f, {1} \ {a}, {a}))

(* Definitions and uses.  A place is a block and an index, the terminator's *)
(* index being one past the instructions.                                   *)

Places(f) == UNION {{<<b, i>> : i \in DOMAIN Insts(f, b)} : b \in Blocks(f)}
First(S) == CHOOSE p \in S : \A q \in S : p[1] < q[1] \/ (p[1] = q[1] /\ p[2] <= q[2])
Defs(f, v) == {p \in Places(f) : Insts(f, p[1])[p[2]].d = v}
NumDefs(f, v) == Cardinality(Defs(f, v)) + AsInt(IsParam(f, v))

\* One element per operand that reads v.
UsesIn(f, b, v) ==
  UNION {LET ops == Operands(Insts(f, b)[i])
         IN {<<b, i, n>> : n \in {m \in DOMAIN ops : ops[m] = R(v)}} : i \in DOMAIN Insts(f, b)}
  \cup LET t == f.blocks[b].term  end == Len(Insts(f, b)) + 1
       IN {<<b, end, n>> : n \in {m \in 1 .. 2 : <<t.a, t.b>>[m] = R(v)}}
Uses(f, v) == UNION {UsesIn(f, b, v) : b \in Blocks(f)}
NumUses(f, v) == Cardinality(Uses(f, v))

\* v has one definition and that dominates all its uses (ssa_vregs).
Ssa(f, v) ==
  /\ NumDefs(f, v) = 1
  /\ LET d == IF IsParam(f, v) THEN <<1, 0>> ELSE First(Defs(f, v))
     IN \A u \in Uses(f, v) :
          u[1] \in Reachable(f) => IF u[1] = d[1] THEN d[2] < u[2] ELSE Dominates(f, d[1], u[1])

\* Func::verify: registers and blocks exist, operands have the width the instruction
\* asks for.
WellFormed(f) ==
  LET T(v) == f.vty[v[2]]
      is(v, t) == IsReg(v) => T(v) = t
      regs == DOMAIN f.vty
  IN \A b \in Blocks(f) :
       /\ \A n \in DOMAIN Insts(f, b) :
            LET i == Insts(f, b)[n]
            IN /\ Reads(i) \subseteq regs /\ i.d \in regs \cup {0}
               /\ CASE i.op \in {"copy", "un"} -> is(i.a, f.vty[i.d])
                    [] i.op = "bin" -> /\ is(i.a, f.vty[i.d])
                                       /\ i.k \notin Shifts => is(i.b, f.vty[i.d])
                    [] i.op = "cmp" -> is(i.a, i.ty) /\ is(i.b, i.ty)
                    [] i.op = "ext" -> IsReg(i.a) => T(i.a) < f.vty[i.d]
                    [] i.op = "trunc" -> IsReg(i.a) => T(i.a) > f.vty[i.d]
                    [] OTHER -> TRUE
       /\ LET t == f.blocks[b].term
          IN /\ TermReads(t) \subseteq regs
             /\ t.op = "cmpbr" => is(t.a, t.ty) /\ is(t.b, t.ty)
             /\ Succ(f, b) \subseteq Blocks(f)
=============================================================================
