-------------------------- MODULE RegAllocProofs --------------------------
(***************************************************************************)
(* Every function, whatever its blocks, its registers and its callees:     *)
(*  - liveness has settled when the sweeps end;                            *)
(*  - the locations allocated keep values apart that live together, and    *)
(*    the moves of copies and calls are made as if at once (AllocInv,      *)
(*    MovesInv);                                                           *)
(*  - so every operand read is the value the program means, and every      *)
(*    pointer is used where it was set up (EarlyInv, ValueInv), provided   *)
(*    that no load through a generic pointer has a result of several       *)
(*    bytes.                                                               *)
(***************************************************************************)
EXTENDS RegAllocRun, FiniteSetTheorems, TLAPS

\* Liveness of block b agrees with that of its successors.
Agrees(b) == liveOut[b] = OutOf(b) /\ liveIn[b] = InOf(b)

Shape ==
  /\ prog \in Programs
  /\ changed \in BOOLEAN
  /\ DOMAIN liveIn = Blocks /\ DOMAIN liveOut = Blocks

\* While a sweep has changed nothing, the blocks it has visited agree.
SweepInv ==
  /\ Shape
  /\ phase = "live" /\ ~changed => \A b \in Reachable \ unswept : Agrees(b)
  /\ Settled

\* Successors are blocks.
LEMMA SuccsAreBlocks ==
  ASSUME prog \in Programs, NEW b \in Blocks
  PROVE  prog.blocks[b].succs \subseteq Blocks
<1>1. IsProgram(prog)
  BY ConstantsAssumption
<1> QED
  BY <1>1 DEF IsProgram, Blocks

\* What does not touch liveness or the phase keeps the invariant.
LEMMA SweepInvStutter ==
  ASSUME SweepInv, UNCHANGED <<prog, liveVars>>, phase' = phase
  PROVE  SweepInv'
<1> QED
  BY DEF SweepInv, Shape, Settled, Agrees, liveVars, Blocks, Reachable, OutOf, InOf, Gen, Kill, Insts, Uses

\* Nor does what only goes on from one later phase to another.
LEMMA SweepInvLater ==
  ASSUME SweepInv, UNCHANGED <<prog, liveVars>>, phase # "live", phase' # "live"
  PROVE  SweepInv'
<1> QED
  BY DEF SweepInv, Shape, Settled, Agrees, liveVars, Blocks, Reachable, OutOf, InOf, Gen, Kill, Insts, Uses

\* A visit that changes nothing leaves every block that agreed in agreement, and block b
\* agrees now.
LEMMA SweepVisit ==
  ASSUME SweepInv, NEW b \in Blocks, Sweep(b)
  PROVE  SweepInv'
<1> USE DEF Sweep
<1>1. /\ Blocks' = Blocks /\ Reachable' = Reachable /\ Reachable \subseteq Blocks
      /\ \A c : Gen(c)' = Gen(c) /\ Kill(c)' = Kill(c)
  BY DEF Blocks, Reachable, Gen, Kill, Insts, Uses
<1>2. Shape'
  BY <1>1 DEF SweepInv, Shape
<1>3. ASSUME ~changed'
      PROVE  \A c \in Reachable \ unswept' : Agrees(c)'
  <2>1. ~changed /\ InOf(b) = liveIn[b]
    BY <1>3 DEF SweepInv, Shape
  <2>2. \A c \in Blocks : liveIn'[c] = liveIn[c]
    BY <2>1 DEF SweepInv, Shape
  <2>3. ASSUME NEW c \in Blocks
        PROVE  OutOf(c)' = OutOf(c) /\ InOf(c)' = InOf(c)
    <3>1. prog.blocks[c].succs \subseteq Blocks
      BY SuccsAreBlocks DEF SweepInv, Shape
    <3>2. {liveIn'[s] : s \in prog.blocks[c].succs} = {liveIn[s] : s \in prog.blocks[c].succs}
      BY <2>2, <3>1
    <3> QED
      BY <1>1, <3>2 DEF OutOf, InOf
  <2>4. ASSUME NEW c \in Reachable \ unswept'
        PROVE  Agrees(c)'
    <3>1. CASE c = b
      BY <1>1, <2>1, <2>2, <2>3, <3>1 DEF Agrees, SweepInv, Shape
    <3>2. CASE c # b
      <4>1. Agrees(c)
        BY <2>1, <2>4, <3>2 DEF SweepInv
      <4>2. liveOut'[c] = liveOut[c]
        BY <1>1, <2>4, <3>2 DEF SweepInv, Shape
      <4> QED
        BY <1>1, <2>2, <2>3, <2>4, <4>1, <4>2 DEF Agrees
    <3> QED
      BY <3>1, <3>2
  <2> QED
    BY <2>4
<1> QED
  BY <1>1, <1>2, <1>3 DEF SweepInv, Settled

\* A sweep that changed nothing has visited all reachable blocks.
LEMMA SweepEnd ==
  ASSUME SweepInv, EndSweep
  PROVE  SweepInv'
<1> USE DEF EndSweep
<1>1. /\ Blocks' = Blocks /\ Reachable' = Reachable
      /\ \A c : OutOf(c)' = OutOf(c) /\ InOf(c)' = InOf(c)
  BY DEF Blocks, Reachable, OutOf, InOf, Gen, Kill, Insts, Uses
<1>2. Shape'
  BY <1>1 DEF SweepInv, Shape, StartWalk
<1>3. CASE NotSettled
  BY <1>1, <1>2, <1>3 DEF SweepInv, Settled
<1>4. CASE ~NotSettled
  <2>1. \A c \in Reachable : Agrees(c)
    BY <1>4 DEF SweepInv, NotSettled
  <2>2. \A c \in Reachable' : liveOut'[c] = OutOf(c)' /\ liveIn'[c] = InOf(c)'
    BY <1>1, <2>1 DEF Agrees
  <2> QED
    BY <1>2, <1>4, <2>2 DEF SweepInv, Settled, StartWalk
<1> QED
  BY <1>3, <1>4

LEMMA SweepInvStep ==
  ASSUME SweepInv, [Next]_vars
  PROVE  SweepInv'
<1>1. CASE UNCHANGED allocVars
  BY <1>1, SweepInvStutter DEF allocVars
<1>2. ASSUME NEW b \in Blocks, Sweep(b)
      PROVE  SweepInv'
  BY <1>2, SweepVisit
<1>3. CASE EndSweep
  BY <1>3, SweepEnd
<1>4. CASE WalkInst \/ WalkNext
  BY <1>4, SweepInvStutter DEF WalkInst, WalkNext
<1>5. CASE EndWalk
  BY <1>5, SweepInvLater DEF EndWalk
<1>6. ASSUME NEW v \in V, AssignRegisters(v) \/ AssignSlots(v)
      PROVE  SweepInv'
  BY <1>6, SweepInvStutter DEF AssignRegisters, AssignSlots
<1>7. CASE EndRegisters \/ EndSlots
  BY <1>7, SweepInvLater DEF EndRegisters, EndSlots
<1>8. CASE Enter \/ RunStep \/ Finish \/ Jump
  BY <1>1, <1>8 DEF Enter, RunStep, Finish, Jump
<1> QED
  BY <1>1, <1>2, <1>3, <1>4, <1>5, <1>6, <1>7, <1>8 DEF Next, Return, Allocate, vars

\* Liveness has settled when the walk starts from it (dataflow.rs:150): every value that a
\* block or a successor of it asks for is live there, around loops of any shape.
THEOREM LivenessSettled == Spec => []Settled
<1>1. Init => SweepInv
  BY DEF Init, AllocInit, SweepInv, Shape, Settled, Reachable, Blocks
<1>2. SweepInv /\ [Next]_vars => SweepInv'
  BY SweepInvStep
<1>3. SweepInv => Settled
  BY DEF SweepInv
<1> QED
  BY <1>1, <1>2, <1>3, PTL DEF Spec

-----------------------------------------------------------------------------
(***************************************************************************)
(* What is known of every function.                                        *)
(***************************************************************************)
LEMMA SizesKnown ==
  ASSUME prog \in Programs
  PROVE  /\ IsProgram(prog) /\ Len(prog.size) \in Nat
         /\ \A v \in V : v \in Nat /\ v # 0 /\ prog.size[v] \in 0 .. 4 /\ Bytes(v) \in 1 .. 4
<1>1. IsProgram(prog)
  BY ConstantsAssumption
<1>2. prog.size \in Seq(0 .. 4)
  BY <1>1 DEF IsProgram
<1>3. \A v \in V : prog.size[v] \in 0 .. 4
  BY <1>2 DEF V
<1> QED
  BY <1>1, <1>2, <1>3 DEF V, Bytes, Width

\* Every block and instruction of a function is one.
LEMMA CodeKnown ==
  ASSUME prog \in Programs
  PROVE  /\ Len(prog.blocks) \in Nat /\ 1 \in Blocks
         /\ \A b \in Blocks : Insts(b) \in Seq(Insn) /\ Len(Insts(b)) \in Nat
         /\ \A b \in Blocks : \A i \in 1 .. Len(Insts(b)) :
              /\ Insts(b)[i] \in Insn /\ Insts(b)[i].def \in V \cup {0}
              /\ \A u \in 1 .. Len(Insts(b)[i].uses) : Insts(b)[i].uses[u] \in V \cup {0}
              /\ Uses(Insts(b)[i]) \subseteq V
              /\ IsTyped(prog, Insts(b)[i])
<1>1. IsProgram(prog) /\ Len(prog.size) \in Nat
  BY SizesKnown
<1>2. prog.blocks \in Seq(Block) /\ prog.blocks # <<>>
  BY <1>1 DEF IsProgram
<1>3. Len(prog.blocks) \in Nat /\ Len(prog.blocks) # 0
  BY <1>2
<1>4. \A b \in Blocks : prog.blocks[b] \in Block
  BY <1>2 DEF Blocks
<1>5. \A b \in Blocks : Insts(b) \in Seq(Insn) /\ Len(Insts(b)) \in Nat
  BY <1>4 DEF Block, Insts
<1>6. ASSUME NEW b \in Blocks, NEW i \in 1 .. Len(Insts(b))
      PROVE  /\ Insts(b)[i] \in Insn /\ Insts(b)[i].def \in V \cup {0}
             /\ \A u \in 1 .. Len(Insts(b)[i].uses) : Insts(b)[i].uses[u] \in V \cup {0}
             /\ Uses(Insts(b)[i]) \subseteq V
             /\ IsTyped(prog, Insts(b)[i])
  <2>1. Insts(b)[i] \in Insn
    BY <1>5
  <2>2. Insts(b)[i].uses \in Seq(Nat)
    BY <2>1 DEF Insn
  <2>3. /\ Insts(b)[i].def \in 0 .. Len(prog.size)
        /\ \A u \in 1 .. Len(Insts(b)[i].uses) : Insts(b)[i].uses[u] \in 0 .. Len(prog.size)
        /\ IsTyped(prog, Insts(b)[i])
    BY <1>1 DEF IsProgram, Blocks, Insts
  <2>4. 0 .. Len(prog.size) = V \cup {0}
    BY <1>1 DEF V
  <2>5. DOMAIN Insts(b)[i].uses = 1 .. Len(Insts(b)[i].uses)
    BY <2>2
  <2>6. Range(Insts(b)[i].uses) \subseteq V \cup {0}
    BY <2>3, <2>4, <2>5 DEF Range
  <2> QED
    BY <2>1, <2>3, <2>4, <2>6 DEF Uses
<1>7. 1 \in Blocks
  BY <1>3 DEF Blocks
<1> QED
  BY <1>3, <1>5, <1>6, <1>7

\* What a terminator reads are virtual registers that are written or passed somewhere, and
\* it goes on to blocks other than the first.
LEMMA TerminatorKnown ==
  ASSUME prog \in Programs, NEW b \in Blocks
  PROVE  /\ prog.blocks[b].uses \subseteq EverLive /\ prog.blocks[b].uses \subseteq V
         /\ prog.blocks[b].succs \subseteq Blocks \ {1}
<1>1. IsProgram(prog)
  BY SizesKnown
<1>2. prog.blocks \in Seq(Block) /\ Len(prog.blocks) \in Nat
  BY <1>1, CodeKnown DEF IsProgram
<1>3. prog.blocks[b].succs \subseteq Blocks \ {1}
  <2>1. prog.blocks[b].succs \subseteq 2 .. Len(prog.blocks)
    BY <1>1 DEF IsProgram, Blocks
  <2> QED
    BY <1>2, <2>1 DEF Blocks
<1>4. ASSUME NEW v \in prog.blocks[b].uses
      PROVE  v \in EverLive /\ v \in V
  <2>1. v # 0 /\ v \in Params \cup {i.def : i \in UNION {Range(c.insts) : c \in Range(prog.blocks)}}
    BY <1>1 DEF IsProgram, Blocks, Params
  <2>2. CASE v \in Params
    <3>1. prog.params \in Seq(1 .. Len(prog.size))
      BY <1>1 DEF IsProgram
    <3>2. Params \subseteq V
      BY <3>1 DEF Params, Range, V
    <3> QED
      BY <2>2, <3>2 DEF EverLive
  <2>3. CASE v \notin Params
    <3>1. PICK c \in Range(prog.blocks) : \E i \in Range(c.insts) : v = i.def
      BY <2>1, <2>3
    <3>2. PICK d \in Blocks : c = prog.blocks[d]
      BY <1>2, <3>1 DEF Range, Blocks
    <3>3. DOMAIN Insts(d) = 1 .. Len(Insts(d))
      BY CodeKnown
    <3>4. PICK i \in 1 .. Len(Insts(d)) : v = Insts(d)[i].def
      BY <3>1, <3>2, <3>3 DEF Range, Insts
    <3>5. v \in V
      BY <2>1, <3>4, CodeKnown
    <3> QED
      BY <3>4, <3>5 DEF EverLive
  <2> QED
    BY <2>2, <2>3
<1> QED
  BY <1>3, <1>4

LEMMA ParamsKnown ==
  ASSUME prog \in Programs
  PROVE  /\ prog.params \in Seq(V) /\ Len(prog.params) \in Nat
         /\ Params \subseteq V /\ Params \subseteq EverLive
<1>1. prog.params \in Seq(V)
  BY SizesKnown DEF IsProgram, V
<1>2. Params \subseteq V
  BY <1>1 DEF Params, Range
<1> QED
  BY <1>1, <1>2 DEF EverLive

\* Nothing of this changes while the function does not.
LEMMA ProgSame ==
  ASSUME prog' = prog
  PROVE  /\ V' = V /\ Blocks' = Blocks /\ Params' = Params /\ EverLive' = EverLive
         /\ Reachable' = Reachable
         /\ \A b : Insts(b)' = Insts(b) /\ Gen(b)' = Gen(b) /\ Kill(b)' = Kill(b)
         /\ \A v : Bytes(v)' = Bytes(v) /\ HasBit(v)' = HasBit(v) /\ FixedLoc(v)' = FixedLoc(v)
         /\ \A v : Movable(v)' = Movable(v)
         /\ \A ins : /\ Overlapped(ins)' = Overlapped(ins) /\ Alignable(ins)' = Alignable(ins)
                      /\ \A v : Keeps(ins, v)' = Keeps(ins, v)
<1>1. V' = V /\ Blocks' = Blocks /\ Params' = Params /\ \A b : Insts(b)' = Insts(b)
  BY DEF V, Blocks, Params, Insts
<1>2. Reachable' = Reachable
  BY <1>1 DEF Reachable
<1>3. EverLive' = EverLive
  BY <1>1 DEF EverLive
<1>4. \A b : Gen(b)' = Gen(b) /\ Kill(b)' = Kill(b)
  BY <1>1 DEF Gen, Kill
<1>5. \A v : Bytes(v)' = Bytes(v) /\ HasBit(v)' = HasBit(v) /\ FixedLoc(v)' = FixedLoc(v)
  BY <1>1 DEF Bytes, HasBit, FixedLoc
<1>6. \A v : Movable(v)' = Movable(v)
  BY <1>1, <1>3 DEF Movable
<1>7. \A ins : Overlapped(ins)' = Overlapped(ins)
  BY <1>5 DEF Overlapped
<1>8. \A ins : Alignable(ins)' = Alignable(ins)
  BY <1>7 DEF Alignable
<1>9. \A ins, v : Keeps(ins, v)' = Keeps(ins, v)
  BY DEF Keeps
<1> QED
  BY <1>1, <1>2, <1>3, <1>4, <1>5, <1>6, <1>7, <1>8, <1>9

-----------------------------------------------------------------------------
(***************************************************************************)
(* The walk: what is live behind every instruction, and what was recorded  *)
(* of it.                                                                  *)
(***************************************************************************)
Size(b) == Len(Insts(b))

\* Read by something behind instruction i of block b before it is written.
LiveBehind(b, i) ==
  {v \in V :
     \/ /\ v \in LiveBeforeTerm(b)
        /\ \A j \in i + 1 .. Size(b) : Insts(b)[j].def # v
     \/ \E j \in i + 1 .. Size(b) :
          v \in Uses(Insts(b)[j]) /\ \A k \in i + 1 .. j - 1 : Insts(b)[k].def # v}

\* Lives across instruction i.
Across(b, i) == LiveBehind(b, i) \ {Insts(b)[i].def}

LEMMA LiveBehindEnd ==
  ASSUME prog \in Programs, NEW b \in Blocks, liveOut[b] \subseteq V
  PROVE  LiveBehind(b, Size(b)) = LiveBeforeTerm(b)
<1>1. Size(b) \in Nat
  BY CodeKnown DEF Size
<1>2. LiveBeforeTerm(b) \subseteq V
  BY TerminatorKnown DEF LiveBeforeTerm
<1>3. Size(b) + 1 .. Size(b) = {}
  BY <1>1
<1> QED
  BY <1>2, <1>3 DEF LiveBehind

LEMMA LiveBehindStep ==
  ASSUME prog \in Programs, NEW b \in Blocks, NEW i \in 1 .. Size(b)
  PROVE  LiveBehind(b, i - 1) = Across(b, i) \cup Uses(Insts(b)[i])
<1>1. Size(b) \in Nat /\ i \in Nat /\ Uses(Insts(b)[i]) \subseteq V
  BY CodeKnown DEF Size
<1>2. (i - 1) + 1 = i /\ i .. Size(b) = {i} \cup (i + 1 .. Size(b))
  BY <1>1
<1>3. ASSUME NEW v \in V, v \in LiveBehind(b, i - 1)
      PROVE  v \in Across(b, i) \cup Uses(Insts(b)[i])
  <2>1. CASE /\ v \in LiveBeforeTerm(b)
             /\ \A j \in i .. Size(b) : Insts(b)[j].def # v
    BY <1>1, <1>2, <2>1 DEF LiveBehind, Across
  <2>2. CASE \E j \in i .. Size(b) :
               v \in Uses(Insts(b)[j]) /\ \A k \in i .. j - 1 : Insts(b)[k].def # v
    <3>1. PICK j \in i .. Size(b) :
            v \in Uses(Insts(b)[j]) /\ \A k \in i .. j - 1 : Insts(b)[k].def # v
      BY <2>2
    <3>2. CASE j = i
      BY <3>1, <3>2
    <3>3. CASE j # i
      <4>1. j \in i + 1 .. Size(b) /\ i \in i .. j - 1 /\ i + 1 .. j - 1 \subseteq i .. j - 1
        BY <1>1, <3>3
      <4>2. v \in LiveBehind(b, i)
        BY <3>1, <4>1 DEF LiveBehind
      <4> QED
        BY <3>1, <4>1, <4>2 DEF Across
    <3> QED
      BY <3>2, <3>3
  <2> QED
    BY <1>2, <1>3, <2>1, <2>2 DEF LiveBehind
<1>4. ASSUME NEW v \in V, v \in Uses(Insts(b)[i])
      PROVE  v \in LiveBehind(b, i - 1)
  <2>1. i \in i .. Size(b) /\ i .. i - 1 = {}
    BY <1>1
  <2> QED
    BY <1>2, <1>4, <2>1 DEF LiveBehind
<1>5. ASSUME NEW v \in V, v \in Across(b, i)
      PROVE  v \in LiveBehind(b, i - 1)
  <2>1. v \in LiveBehind(b, i) /\ Insts(b)[i].def # v
    BY <1>5 DEF Across
  <2>2. CASE /\ v \in LiveBeforeTerm(b)
             /\ \A j \in i + 1 .. Size(b) : Insts(b)[j].def # v
    <3>1. \A j \in i .. Size(b) : Insts(b)[j].def # v
      BY <1>2, <2>1, <2>2
    <3> QED
      BY <1>2, <2>2, <3>1 DEF LiveBehind
  <2>3. CASE \E j \in i + 1 .. Size(b) :
               v \in Uses(Insts(b)[j]) /\ \A k \in i + 1 .. j - 1 : Insts(b)[k].def # v
    <3>1. PICK j \in i + 1 .. Size(b) :
            v \in Uses(Insts(b)[j]) /\ \A k \in i + 1 .. j - 1 : Insts(b)[k].def # v
      BY <2>3
    <3>2. i .. j - 1 = {i} \cup (i + 1 .. j - 1) /\ j \in i .. Size(b)
      BY <1>1
    <3>3. \A k \in i .. j - 1 : Insts(b)[k].def # v
      BY <2>1, <3>1, <3>2
    <3> QED
      BY <1>2, <3>1, <3>2, <3>3 DEF LiveBehind
  <2> QED
    BY <2>1, <2>2, <2>3 DEF LiveBehind
<1>6. LiveBehind(b, i - 1) \subseteq V /\ LiveBehind(b, i) \subseteq V
  BY DEF LiveBehind
<1>7. Across(b, i) \subseteq V
  BY <1>6 DEF Across
<1>8. LiveBehind(b, i - 1) \subseteq Across(b, i) \cup Uses(Insts(b)[i])
  BY <1>3, <1>6
<1>9. Across(b, i) \cup Uses(Insts(b)[i]) \subseteq LiveBehind(b, i - 1)
  BY <1>1, <1>4, <1>5, <1>7
<1> QED
  BY <1>8, <1>9

\* What is live at the beginning of a block is what liveness says.
LEMMA LiveBehindStart ==
  ASSUME prog \in Programs, NEW b \in Blocks, liveOut[b] \subseteq V
  PROVE  LiveBehind(b, 0) = (liveOut[b] \ Kill(b)) \cup Gen(b)
<1> DEFINE defsTo(n) == {Insts(b)[j].def : j \in 1 .. n}
<1>1. /\ Size(b) \in Nat /\ 0 + 1 = 1 /\ prog.blocks[b].uses \subseteq V
      /\ \A i \in 1 .. Size(b) : Uses(Insts(b)[i]) \subseteq V
  BY CodeKnown, TerminatorKnown DEF Size
<1>2. \A v, n : v \in defsTo(n) <=> \E j \in 1 .. n : Insts(b)[j].def = v
  OBVIOUS
<1>3. /\ Kill(b) = defsTo(Size(b))
      /\ Gen(b) = (UNION {Uses(Insts(b)[i]) \ defsTo(i - 1) : i \in 1 .. Size(b)})
                    \cup (prog.blocks[b].uses \ defsTo(Size(b)))
  BY DEF Kill, Gen, Size
<1> HIDE DEF defsTo
<1>4. LiveBehind(b, 0) =
        {v \in V :
           \/ v \in LiveBeforeTerm(b) /\ v \notin defsTo(Size(b))
           \/ \E j \in 1 .. Size(b) : v \in Uses(Insts(b)[j]) /\ v \notin defsTo(j - 1)}
  BY <1>1, <1>2 DEF LiveBehind
<1> QED
  BY <1>1, <1>3, <1>4 DEF LiveBeforeTerm

-----------------------------------------------------------------------------
\* What the walk records of an instruction with result d.
Recorded(b, i) ==
  LET ins == Insts(b)[i]
      d == ins.def
  IN /\ after[b][i] = LiveBehind(b, i)
     /\ d # 0 =>
          /\ \A x \in LiveBehind(b, i) \ Exempt(ins) : x # d => {d, x} \in interf
          /\ \A x \in Overlapped(ins) \ Alignable(ins) : x # d => {d, x} \in interf
          /\ \A x \in Alignable(ins) : x # d => {d, x} \in aligned
     /\ \A x \in Across(b, i) : Clobbers(ins) \ Keeps(ins, x) \subseteq forbid[x]
     /\ Site(ins, Across(b, i)) \subseteq sites

Later == {"registers", "slots", "placed"}

Walked(b, i) ==
  \/ phase \in Later
  \/ phase = "walk" /\ (b < at[1] \/ (b = at[1] /\ i > at[2]))

LiveTypes ==
  /\ prog \in Programs /\ phase \in {"live", "walk"} \cup Later
  /\ liveIn \in [Blocks -> SUBSET V] /\ liveOut \in [Blocks -> SUBSET V]

WalkInv ==
  /\ LiveTypes
  /\ phase = "walk" =>
       /\ at = <<at[1], at[2]>> /\ at[1] \in Blocks /\ at[2] \in 0 .. Size(at[1])
       /\ live = LiveBehind(at[1], at[2])
  /\ phase # "live" =>
       DOMAIN after = Blocks /\ \A b \in Blocks : DOMAIN after[b] = 1 .. Size(b) + 1
  /\ forbid \in [V -> SUBSET Reg]
  /\ \A b \in Blocks : \A i \in 1 .. Size(b) : Walked(b, i) => Recorded(b, i)

\* Every site is that of an instruction.
SitesKnown ==
  /\ phase = "live" => sites = {}
  /\ \A s \in sites : \E b \in Blocks : \E i \in 1 .. Size(b) :
       s \in Site(Insts(b)[i], Across(b, i))

LEMMA LiveBehindSame ==
  ASSUME prog' = prog, liveOut' = liveOut
  PROVE  \A b, i : /\ LiveBehind(b, i)' = LiveBehind(b, i) /\ Across(b, i)' = Across(b, i)
                   /\ Size(b)' = Size(b)
<1>1. V' = V /\ \A b : Insts(b)' = Insts(b)
  BY ProgSame
<1>2. \A b : LiveBeforeTerm(b)' = LiveBeforeTerm(b) /\ Size(b)' = Size(b)
  BY <1>1 DEF LiveBeforeTerm, Size
<1>3. \A b, i : LiveBehind(b, i)' = LiveBehind(b, i)
  BY <1>1, <1>2 DEF LiveBehind
<1> QED
  BY <1>1, <1>2, <1>3 DEF Across

\* What was recorded stays so while the relations only grow.
LEMMA RecordedStays ==
  ASSUME prog' = prog, liveOut' = liveOut, NEW b, NEW i, Recorded(b, i), Across(b, i) \subseteq V,
         after'[b][i] = after[b][i], interf \subseteq interf', aligned \subseteq aligned',
         sites \subseteq sites', \A v \in V : forbid[v] \subseteq forbid'[v]
  PROVE  Recorded(b, i)'
<1> DEFINE ins == Insts(b)[i]
           d == ins.def
<1>1. /\ LiveBehind(b, i)' = LiveBehind(b, i) /\ Across(b, i)' = Across(b, i)
      /\ Insts(b)' = Insts(b)
      /\ Overlapped(ins)' = Overlapped(ins) /\ Alignable(ins)' = Alignable(ins)
      /\ \A v : Keeps(ins, v)' = Keeps(ins, v)
  BY LiveBehindSame, ProgSame
<1>2. /\ after[b][i] = LiveBehind(b, i)
      /\ d # 0 =>
           /\ \A x \in LiveBehind(b, i) \ Exempt(ins) : x # d => {d, x} \in interf
           /\ \A x \in Overlapped(ins) \ Alignable(ins) : x # d => {d, x} \in interf
           /\ \A x \in Alignable(ins) : x # d => {d, x} \in aligned
      /\ \A x \in Across(b, i) : Clobbers(ins) \ Keeps(ins, x) \subseteq forbid[x]
      /\ Site(ins, Across(b, i)) \subseteq sites
  BY DEF Recorded
<1> SUFFICES
      /\ after'[b][i] = LiveBehind(b, i)
      /\ d # 0 =>
           /\ \A x \in LiveBehind(b, i) \ Exempt(ins) : x # d => {d, x} \in interf'
           /\ \A x \in Overlapped(ins) \ Alignable(ins) : x # d => {d, x} \in interf'
           /\ \A x \in Alignable(ins) : x # d => {d, x} \in aligned'
      /\ \A x \in Across(b, i) : Clobbers(ins) \ Keeps(ins, x) \subseteq forbid'[x]
      /\ Site(ins, Across(b, i)) \subseteq sites'
  BY <1>1 DEF Recorded, Exempt, Clobbers, Site
<1> QED
  BY <1>2

-----------------------------------------------------------------------------
\* Sweeping keeps liveness within the virtual registers.
LEMMA SweepTypes ==
  ASSUME LiveTypes, NEW b \in Blocks, Sweep(b)
  PROVE  LiveTypes'
<1>1. prog.blocks[b].succs \subseteq Blocks /\ prog.blocks[b].uses \subseteq V
  BY TerminatorKnown DEF LiveTypes
<1>2. OutOf(b) \subseteq V
  BY <1>1 DEF OutOf, LiveTypes
<1>3. \A i \in 1 .. Len(Insts(b)) : Uses(Insts(b)[i]) \subseteq V
  BY CodeKnown DEF LiveTypes
<1>4. Gen(b) \subseteq V
  BY <1>1, <1>3 DEF Gen
<1>5. InOf(b) \subseteq V
  BY <1>2, <1>4 DEF InOf
<1>6. V' = V /\ Blocks' = Blocks
  BY ProgSame DEF Sweep
<1> QED
  BY <1>2, <1>5, <1>6 DEF Sweep, LiveTypes

LEMMA WalkInvStart ==
  ASSUME WalkInv, EndSweep
  PROVE  WalkInv'
<1>1. prog' = prog /\ liveOut' = liveOut /\ V' = V /\ Blocks' = Blocks /\ LiveTypes'
  BY ProgSame DEF EndSweep, StartWalk, WalkInv, LiveTypes
<1>2. \A b, i : LiveBehind(b, i)' = LiveBehind(b, i) /\ Size(b)' = Size(b)
  BY <1>1, LiveBehindSame
<1>3. phase = "live" /\ forbid' = forbid /\ \A b, i : ~Walked(b, i)
  BY DEF EndSweep, StartWalk, Walked, Later, walkVars
<1>4. CASE NotSettled
  <2>1. phase' = "live" /\ \A b, i : ~Walked(b, i)'
    BY <1>3, <1>4 DEF EndSweep, Walked, Later
  <2> QED
    BY <1>1, <1>3, <2>1 DEF WalkInv
<1>5. CASE ~NotSettled
  <2>1. StartWalk
    BY <1>5 DEF EndSweep
  <2>2. 1 \in Blocks /\ Size(1) \in Nat /\ LiveBehind(1, Size(1)) = LiveBeforeTerm(1)
    BY CodeKnown, LiveBehindEnd DEF WalkInv, LiveTypes, Size
  <2>3. phase' = "walk" /\ at' = <<1, Size(1)>> /\ live' = LiveBehind(1, Size(1))
    BY <2>1, <2>2 DEF StartWalk, StartOf, Size
  <2>4. DOMAIN after' = Blocks /\ \A b \in Blocks : DOMAIN after'[b] = 1 .. Size(b) + 1
    BY <2>1 DEF StartWalk, Size
  <2>5. \A b \in Blocks : \A i \in 1 .. Size(b) : ~Walked(b, i)'
    <3>1. \A b \in Blocks : b \in Nat /\ b >= 1 /\ Size(b) \in Nat
      BY CodeKnown DEF Blocks, WalkInv, LiveTypes, Size
    <3> QED
      BY <2>3, <3>1 DEF Walked, Later
  <2> QED
    BY <1>1, <1>2, <1>3, <2>2, <2>3, <2>4, <2>5 DEF WalkInv
<1> QED
  BY <1>4, <1>5

\* An instruction walked is recorded as it should be.
LEMMA WalkInstRecords ==
  ASSUME WalkInv, WalkInst, NEW b, NEW i, b = at[1], i = at[2]
  PROVE  /\ Recorded(b, i)'
         /\ interf \subseteq interf' /\ aligned \subseteq aligned' /\ sites \subseteq sites'
         /\ \A v \in V : forbid[v] \subseteq forbid'[v]
         /\ forbid' \in [V -> SUBSET Reg]
         /\ live' = LiveBehind(b, i - 1)
<1> DEFINE ins == Insts(b)[i]
           d == ins.def
           across == live \ ({d} \ {0})
<1>1. /\ b \in Blocks /\ i \in 1 .. Size(b) /\ live = LiveBehind(b, i) /\ phase = "walk"
      /\ prog \in Programs /\ DOMAIN after = Blocks /\ DOMAIN after[b] = 1 .. Size(b) + 1
      /\ forbid \in [V -> SUBSET Reg]
  BY CodeKnown DEF WalkInst, WalkInv, LiveTypes, Size
<1>2. LiveBehind(b, i) \subseteq V /\ 0 \notin V
  BY DEF LiveBehind, V
<1>3. across = Across(b, i)
  BY <1>1, <1>2 DEF Across
<1>4. /\ after' = [after EXCEPT ![b][i] = live]
      /\ interf' = interf \cup UNION {Pairs(v, live \ Exempt(ins))
                                        \cup Pairs(v, Overlapped(ins) \ Alignable(ins)) : v \in {d} \ {0}}
      /\ aligned' = aligned \cup UNION {Pairs(v, Alignable(ins)) : v \in {d} \ {0}}
      /\ forbid' = [v \in V |-> IF v \in across
                                THEN forbid[v] \cup (Clobbers(ins) \ Keeps(ins, v))
                                ELSE forbid[v]]
      /\ sites' = sites \cup Site(ins, across)
      /\ live' = across \cup Uses(ins)
      /\ prog' = prog /\ liveOut' = liveOut
  BY DEF WalkInst, liveVars
<1> HIDE DEF across
<1>5. live' = LiveBehind(b, i - 1)
  BY <1>1, <1>3, <1>4, LiveBehindStep
<1>6. /\ LiveBehind(b, i)' = LiveBehind(b, i) /\ Across(b, i)' = Across(b, i)
      /\ Insts(b)' = Insts(b)
      /\ \A j : Overlapped(j)' = Overlapped(j) /\ Alignable(j)' = Alignable(j)
      /\ \A j, v : Keeps(j, v)' = Keeps(j, v)
  BY <1>4, LiveBehindSame, ProgSame
<1>7. Clobbers(ins) \subseteq Reg
  <2>1. ins \in Insn
    BY <1>1, CodeKnown DEF Size
  <2>2. ins.callee.clobbers \subseteq Reg
    BY <2>1 DEF Insn, Summary
  <2> QED
    BY <2>2 DEF Clobbers
<1>8. forbid' \in [V -> SUBSET Reg] /\ \A v \in V : forbid[v] \subseteq forbid'[v]
  BY <1>1, <1>4, <1>7
<1>9. after'[b][i] = LiveBehind(b, i)
  <2>1. i \in 1 .. Size(b) + 1
    BY <1>1, CodeKnown DEF Size
  <2> QED
    BY <1>1, <1>4, <2>1
<1>10. ASSUME d # 0
       PROVE  /\ \A x \in LiveBehind(b, i) \ Exempt(ins) : x # d => {d, x} \in interf'
              /\ \A x \in Overlapped(ins) \ Alignable(ins) : x # d => {d, x} \in interf'
              /\ \A x \in Alignable(ins) : x # d => {d, x} \in aligned'
  <2>1. {d} \ {0} = {d}
    BY <1>10
  <2>2. /\ interf' = interf \cup Pairs(d, live \ Exempt(ins)) \cup Pairs(d, Overlapped(ins) \ Alignable(ins))
        /\ aligned' = aligned \cup Pairs(d, Alignable(ins))
    BY <1>4, <2>1
  <2> QED
    BY <1>1, <2>2 DEF Pairs
<1>11. \A x \in Across(b, i) : Clobbers(ins) \ Keeps(ins, x) \subseteq forbid'[x]
  <2>1. Across(b, i) \subseteq V
    BY <1>2 DEF Across
  <2> QED
    BY <1>3, <1>4, <2>1
<1>12. Recorded(b, i)'
  <2> SUFFICES
        /\ after'[b][i] = LiveBehind(b, i)
        /\ d # 0 =>
             /\ \A x \in LiveBehind(b, i) \ Exempt(ins) : x # d => {d, x} \in interf'
             /\ \A x \in Overlapped(ins) \ Alignable(ins) : x # d => {d, x} \in interf'
             /\ \A x \in Alignable(ins) : x # d => {d, x} \in aligned'
        /\ \A x \in Across(b, i) : Clobbers(ins) \ Keeps(ins, x) \subseteq forbid'[x]
        /\ Site(ins, Across(b, i)) \subseteq sites'
    BY <1>6 DEF Recorded, Exempt, Clobbers, Site
  <2> QED
    BY <1>3, <1>4, <1>9, <1>10, <1>11
<1> QED
  BY <1>4, <1>5, <1>8, <1>12

\* Everything else leaves what was recorded alone.
LEMMA WalkInvKeeps ==
  ASSUME WalkInv, UNCHANGED <<prog, liveIn, liveOut, forbid, aligned, sites, after>>,
         phase \in {"walk"} \cup Later, phase' \in {"walk"} \cup Later, interf \subseteq interf',
         phase' = "walk" =>
           /\ at' = <<at'[1], at'[2]>> /\ at'[1] \in Blocks /\ at'[2] \in 0 .. Size(at'[1])
           /\ live' = LiveBehind(at'[1], at'[2]),
         \A b \in Blocks : \A i \in 1 .. Size(b) : Walked(b, i)' => Walked(b, i)
  PROVE  WalkInv'
<1>1. /\ V' = V /\ Blocks' = Blocks
      /\ \A b, i : LiveBehind(b, i)' = LiveBehind(b, i) /\ Size(b)' = Size(b)
  BY ProgSame, LiveBehindSame
<1>2. LiveTypes'
  BY <1>1 DEF WalkInv, LiveTypes
<1>3. ASSUME NEW b \in Blocks, NEW i \in 1 .. Size(b), Walked(b, i)'
      PROVE  Recorded(b, i)'
  <2>1. Recorded(b, i) /\ Across(b, i) \subseteq V
    BY <1>3 DEF WalkInv, Across, LiveBehind
  <2> QED
    BY <2>1, RecordedStays
<1>4. \A b, i : LiveBehind(b, i)' = LiveBehind(b, i)
  BY <1>1
<1>5. phase' = "walk" =>
        /\ at' = <<at'[1], at'[2]>> /\ at'[1] \in Blocks' /\ at'[2] \in 0 .. (Size(at[1]))'
        /\ live' = (LiveBehind(at[1], at[2]))'
  <2>1. \A b : Size(b)' = Len(Insts(b)') /\ Insts(b)' = Insts(b)
    BY ProgSame DEF Size
  <2>2. (Size(at[1]))' = Size(at'[1])
    BY <1>1 DEF Size, Insts
  <2>3. (LiveBehind(at[1], at[2]))' = LiveBehind(at'[1], at'[2])
    BY <1>1 DEF LiveBehind, LiveBeforeTerm, Size, Insts, Uses
  <2> QED
    BY <1>1, <2>2, <2>3
<1>6. /\ DOMAIN after' = Blocks' /\ \A b \in Blocks' : DOMAIN after'[b] = 1 .. (Size(b))' + 1
      /\ forbid' \in [V' -> SUBSET Reg]
  BY <1>1 DEF WalkInv, Later
<1>7. \A b \in Blocks' : \A i \in 1 .. (Size(b))' : Walked(b, i)' => Recorded(b, i)'
  BY <1>1, <1>3
<1> QED
  BY <1>2, <1>5, <1>6, <1>7 DEF WalkInv

LEMMA WalkInvInst ==
  ASSUME WalkInv, WalkInst
  PROVE  WalkInv'
<1>1. /\ at[1] \in Blocks /\ at[2] \in 1 .. Size(at[1]) /\ Size(at[1]) \in Nat
      /\ at = <<at[1], at[2]>> /\ prog \in Programs
  BY CodeKnown DEF WalkInst, WalkInv, LiveTypes, Size
<1>2. PICK b \in Blocks, i \in 1 .. Size(at[1]) : b = at[1] /\ i = at[2]
  BY <1>1
<1>3. /\ Recorded(b, i)'
      /\ interf \subseteq interf' /\ aligned \subseteq aligned' /\ sites \subseteq sites'
      /\ \A v \in V : forbid[v] \subseteq forbid'[v]
      /\ forbid' \in [V -> SUBSET Reg]
      /\ live' = LiveBehind(b, i - 1)
  BY <1>2, WalkInstRecords
<1>4. /\ phase = "walk" /\ phase' = "walk" /\ at' = <<b, i - 1>>
      /\ after' = [after EXCEPT ![b][i] = live]
      /\ prog' = prog /\ liveIn' = liveIn /\ liveOut' = liveOut
  BY <1>2 DEF WalkInst, liveVars
<1>5. /\ V' = V /\ Blocks' = Blocks
      /\ \A c, j : LiveBehind(c, j)' = LiveBehind(c, j) /\ Size(c)' = Size(c)
  BY <1>4, ProgSame, LiveBehindSame
<1>6. LiveTypes'
  BY <1>4, <1>5 DEF WalkInv, LiveTypes
<1>7. ASSUME NEW c \in Blocks, NEW j \in 1 .. Size(c), Walked(c, j)'
      PROVE  Recorded(c, j)'
  <2>0. c \in Nat /\ b \in Nat /\ j \in Nat /\ i \in Nat
    BY <1>1, <1>2 DEF Blocks
  <2>1. c < b \/ (c = b /\ j > i - 1)
    BY <1>4, <1>7 DEF Walked, Later
  <2>2. CASE c = b /\ j = i
    BY <1>3, <2>2
  <2>3. CASE c # b \/ j # i
    <3>1. Walked(c, j)
      BY <1>2, <1>4, <2>0, <2>1, <2>3 DEF Walked
    <3>2. Recorded(c, j) /\ Across(c, j) \subseteq V
      BY <3>1 DEF WalkInv, Across, LiveBehind
    <3>3. DOMAIN after = Blocks /\ DOMAIN after[b] = 1 .. Size(b) + 1
      BY <1>4 DEF WalkInv
    <3>4. after'[c][j] = after[c][j]
      <4>1. j \in 1 .. Size(c) + 1 /\ i \in 1 .. Size(b) + 1
        BY <1>1, <1>2, <1>7, CodeKnown DEF Size
      <4> QED
        BY <1>4, <2>3, <3>3, <4>1
    <3> QED
      BY <1>3, <1>4, <3>2, <3>4, RecordedStays
  <2> QED
    BY <2>2, <2>3
<1>8. DOMAIN after' = Blocks /\ \A c \in Blocks : DOMAIN after'[c] = 1 .. Size(c) + 1
  BY <1>4 DEF WalkInv
<1>9. /\ at' = <<at'[1], at'[2]>> /\ at'[1] \in Blocks' /\ at'[2] \in 0 .. (Size(at[1]))'
      /\ live' = (LiveBehind(at[1], at[2]))'
  <2>1. at'[1] = b /\ at'[2] = i - 1
    BY <1>4
  <2>2. (Size(at[1]))' = Size(b)
    BY <1>4, <2>1 DEF Size, Insts
  <2>3. (LiveBehind(at[1], at[2]))' = LiveBehind(b, i - 1)
    BY <1>4, <2>1 DEF LiveBehind, LiveBeforeTerm, Size, Insts, Uses, V
  <2> QED
    BY <1>1, <1>2, <1>3, <1>4, <1>5, <2>1, <2>2, <2>3
<1> QED
  BY <1>3, <1>4, <1>5, <1>6, <1>7, <1>8, <1>9 DEF WalkInv

LEMMA WalkInvStep ==
  ASSUME WalkInv, [Next]_vars
  PROVE  WalkInv'
<1>1. CASE UNCHANGED allocVars
  <2>1. \A b, i : Walked(b, i)' = Walked(b, i)
    BY <1>1 DEF allocVars, Walked
  <2>2. V' = V /\ Blocks' = Blocks /\ \A b, i : LiveBehind(b, i)' = LiveBehind(b, i) /\ Size(b)' = Size(b)
    BY <1>1, ProgSame, LiveBehindSame DEF allocVars, liveVars
  <2>3. CASE phase = "live"
    BY <1>1, <2>2, <2>3 DEF WalkInv, LiveTypes, allocVars, liveVars, walkVars, Walked, Later
  <2>4. CASE phase # "live"
    <3>1. phase \in {"walk"} \cup Later
      BY <2>4 DEF WalkInv, LiveTypes
    <3> QED
      BY <1>1, <2>1, <3>1, WalkInvKeeps DEF allocVars, liveVars, walkVars, WalkInv
  <2> QED
    BY <2>3, <2>4
<1>2. ASSUME NEW b \in Blocks, Sweep(b)
      PROVE  WalkInv'
  <2>1. LiveTypes'
    BY <1>2, SweepTypes DEF WalkInv
  <2>2. V' = V
    BY <1>2, ProgSame DEF Sweep
  <2> QED
    BY <1>2, <2>1, <2>2 DEF Sweep, WalkInv, Walked, Later, walkVars
<1>3. CASE EndSweep
  BY <1>3, WalkInvStart
<1>4. CASE WalkInst
  BY <1>4, WalkInvInst
<1>5. CASE WalkNext
  <2>1. /\ at[1] \in Blocks /\ at[2] = 0 /\ prog \in Programs /\ Len(prog.blocks) \in Nat
        /\ at[1] < Len(prog.blocks)
    BY <1>5, CodeKnown DEF WalkNext, WalkInv, LiveTypes
  <2>2. at[1] + 1 \in Blocks
    BY <2>1 DEF Blocks
  <2>3. Size(at[1] + 1) \in Nat /\ LiveBehind(at[1] + 1, Size(at[1] + 1)) = LiveBeforeTerm(at[1] + 1)
    BY <2>1, <2>2, CodeKnown, LiveBehindEnd DEF WalkInv, LiveTypes, Size
  <2>4. at' = <<at[1] + 1, Size(at[1] + 1)>> /\ live' = LiveBeforeTerm(at[1] + 1)
    BY <1>5 DEF WalkNext, StartOf, Size
  <2>5. ASSUME NEW b \in Blocks, NEW i \in 1 .. Size(b), Walked(b, i)'
        PROVE  Walked(b, i)
    <3>1. b \in Nat /\ i \in Nat /\ i >= 1 /\ (b = at[1] + 1 => Size(b) \in Nat) /\ at[1] \in Nat
      BY <2>1, <2>3, CodeKnown DEF Blocks, Size
    <3>2. b < at[1] + 1 \/ (b = at[1] + 1 /\ i > Size(b))
      BY <1>5, <2>4, <2>5 DEF Walked, WalkNext, Later
    <3> QED
      BY <1>5, <2>1, <2>5, <3>1, <3>2 DEF Walked, WalkNext
  <2> QED
    BY <1>5, <2>2, <2>3, <2>4, <2>5, WalkInvKeeps DEF WalkNext, liveVars
<1>6. CASE EndWalk
  <2>1. \A b \in Blocks : \A i \in 1 .. Size(b) : Walked(b, i)
    <3>1. at[1] = Len(prog.blocks) /\ at[2] = 0 /\ phase = "walk" /\ Len(prog.blocks) \in Nat
      BY <1>6, CodeKnown DEF EndWalk, WalkInv, LiveTypes
    <3> QED
      BY <3>1 DEF Walked, Blocks
  <2> QED
    BY <1>6, <2>1, WalkInvKeeps DEF EndWalk, liveVars, Later
<1>7. ASSUME NEW v \in V, AssignRegisters(v) \/ AssignSlots(v)
      PROVE  WalkInv'
  <2>1. phase \in Later /\ phase' = phase
    BY <1>7 DEF AssignRegisters, AssignSlots, Later
  <2>2. \A b, i : Walked(b, i)
    BY <2>1 DEF Walked
  <2> QED
    BY <1>7, <2>1, <2>2, WalkInvKeeps DEF AssignRegisters, AssignSlots, liveVars, walkVars, Later
<1>8. CASE EndRegisters \/ EndSlots
  <2>1. phase \in Later /\ phase' \in Later
    BY <1>8 DEF EndRegisters, EndSlots, Later
  <2>2. \A b, i : Walked(b, i)
    BY <2>1 DEF Walked
  <2> QED
    BY <1>8, <2>1, <2>2, WalkInvKeeps DEF EndRegisters, EndSlots, liveVars, walkVars, Later
<1>9. CASE Enter \/ RunStep \/ Finish \/ Jump
  BY <1>1, <1>9 DEF Enter, RunStep, Finish, Jump
<1> QED
  BY <1>1, <1>2, <1>3, <1>4, <1>5, <1>6, <1>7, <1>8, <1>9 DEF Next, Return, Allocate, vars

-----------------------------------------------------------------------------
\* Sites come from instructions.
LEMMA SitesKnownStep ==
  ASSUME WalkInv, SitesKnown, [Next]_vars
  PROVE  SitesKnown'
<1>1. ASSUME UNCHANGED <<prog, sites>>, phase = "live" => phase' # "walk" \/ sites = {},
             phase # "live" => phase' # "live" /\ liveOut' = liveOut
      PROVE  SitesKnown'
  <2>1. CASE phase = "live"
    <3>1. sites' = {}
      BY <1>1, <2>1 DEF SitesKnown
    <3> QED
      BY <3>1 DEF SitesKnown
  <2>2. CASE phase # "live"
    <3>1. /\ Blocks' = Blocks /\ \A b : Insts(b)' = Insts(b)
          /\ \A b, i : Across(b, i)' = Across(b, i) /\ Size(b)' = Size(b)
      BY <1>1, <2>2, ProgSame, LiveBehindSame
    <3> QED
      BY <1>1, <2>2, <3>1 DEF SitesKnown, Site
  <2> QED
    BY <2>1, <2>2
<1>2. CASE UNCHANGED allocVars
  BY <1>1, <1>2 DEF allocVars, liveVars, walkVars, SitesKnown
<1>3. ASSUME NEW b \in Blocks, Sweep(b)
      PROVE  SitesKnown'
  BY <1>1, <1>3 DEF Sweep, walkVars, SitesKnown
<1>4. CASE EndSweep
  BY <1>1, <1>4 DEF EndSweep, StartWalk, walkVars, SitesKnown
<1>5. CASE WalkInst
  <2>1. PICK b \in Blocks, i \in 1 .. Size(at[1]) : b = at[1] /\ i = at[2]
    BY <1>5, CodeKnown DEF WalkInst, WalkInv, LiveTypes, Size
  <2>2. /\ sites' = sites \cup Site(Insts(b)[i], live \ ({Insts(b)[i].def} \ {0}))
        /\ prog' = prog /\ liveOut' = liveOut /\ phase = "walk" /\ phase' = "walk"
    BY <1>5, <2>1 DEF WalkInst, liveVars
  <2>3. /\ Blocks' = Blocks /\ \A c : Insts(c)' = Insts(c)
        /\ \A c, j : Across(c, j)' = Across(c, j) /\ Size(c)' = Size(c)
    BY <2>2, ProgSame, LiveBehindSame
  <2>4. live = LiveBehind(b, i) /\ 0 \notin live
    BY <2>1, <2>2 DEF WalkInv, LiveBehind, V
  <2>5. live \ ({Insts(b)[i].def} \ {0}) = Across(b, i)
    BY <2>4 DEF Across
  <2>6. \A s \in sites' : \E c \in Blocks : \E j \in 1 .. Size(c) : s \in Site(Insts(c)[j], Across(c, j))
    BY <2>1, <2>2, <2>5 DEF SitesKnown
  <2> QED
    BY <2>2, <2>3, <2>6 DEF SitesKnown, Site
<1>6. CASE WalkNext \/ EndWalk
  BY <1>1, <1>6 DEF WalkNext, EndWalk, liveVars, walkVars
<1>7. ASSUME NEW v \in V, AssignRegisters(v) \/ AssignSlots(v)
      PROVE  SitesKnown'
  BY <1>1, <1>7 DEF AssignRegisters, AssignSlots, liveVars, walkVars
<1>8. CASE EndRegisters \/ EndSlots
  BY <1>1, <1>8 DEF EndRegisters, EndSlots, liveVars, walkVars
<1>9. CASE Enter \/ RunStep \/ Finish \/ Jump
  BY <1>2, <1>9 DEF Enter, RunStep, Finish, Jump
<1> QED
  BY <1>2, <1>3, <1>4, <1>5, <1>6, <1>7, <1>8, <1>9 DEF Next, Return, Allocate, vars

-----------------------------------------------------------------------------
(***************************************************************************)
(* Parameters that have fixed locations live in the copies at the entry.   *)
(***************************************************************************)
IsFixed(v) == v \in Params /\ prog.fixed # <<>>

SplitInv ==
  \A v : IsFixed(v) => \A b \in Blocks : v \notin liveOut[b] /\ (b # 1 => v \notin liveIn[b])

\* What IsSplit says of a fixed parameter.
LEMMA FixedKnown ==
  ASSUME prog \in Programs, NEW v, IsFixed(v), NEW b \in Blocks
  PROVE  /\ v \in V /\ v \notin prog.blocks[b].uses
         /\ \A i \in 1 .. Size(b) :
              /\ Insts(b)[i].def # v
              /\ v \in Uses(Insts(b)[i]) =>
                   b = 1 /\ \A j \in 1 .. i : Insts(b)[j].kind = "copy"
<1>1. IsProgram(prog)
  BY SizesKnown
<1>2. IsSplit(prog) /\ v \in Range(prog.params)
  BY <1>1 DEF IsProgram, IsFixed, Params
<1>3. /\ v \notin prog.blocks[b].uses
      /\ \A i \in 1 .. Len(prog.blocks[b].insts) :
           /\ prog.blocks[b].insts[i].def # v
           /\ v \in Range(prog.blocks[b].insts[i].uses) =>
                b = 1 /\ \A j \in 1 .. i : prog.blocks[1].insts[j].kind = "copy"
  BY <1>2 DEF IsSplit, Blocks
<1>4. v \in V
  BY ParamsKnown DEF IsFixed
<1> QED
  BY <1>3, <1>4 DEF Insts, Uses, Size

LEMMA SplitInvStep ==
  ASSUME LiveTypes, SplitInv, [Next]_vars
  PROVE  SplitInv'
<1>1. ASSUME UNCHANGED <<prog, liveIn, liveOut>>
      PROVE  SplitInv'
  BY <1>1, ProgSame DEF SplitInv, IsFixed
<1>2. ASSUME NEW b \in Blocks, Sweep(b)
      PROVE  SplitInv'
  <2>1. prog' = prog /\ Params' = Params /\ Blocks' = Blocks
    BY <1>2, ProgSame DEF Sweep
  <2>2. ASSUME NEW v, IsFixed(v)
        PROVE  v \notin OutOf(b) /\ (b # 1 => v \notin InOf(b))
    <3>1. prog.blocks[b].succs \subseteq Blocks \ {1}
      BY TerminatorKnown DEF LiveTypes
    <3>2. v \notin OutOf(b)
      BY <2>2, <3>1 DEF OutOf, SplitInv
    <3>3. ASSUME b # 1
          PROVE  v \notin Gen(b)
      BY <2>2, <3>3, FixedKnown DEF Gen, LiveTypes, Size
    <3> QED
      BY <3>2, <3>3 DEF InOf
  <2> QED
    BY <1>2, <2>1, <2>2 DEF SplitInv, IsFixed, Sweep, LiveTypes
<1>3. CASE EndSweep
  BY <1>1, <1>3 DEF EndSweep
<1>4. CASE WalkInst \/ WalkNext \/ EndWalk \/ EndRegisters \/ EndSlots
  BY <1>1, <1>4 DEF WalkInst, WalkNext, EndWalk, EndRegisters, EndSlots, liveVars
<1>5. ASSUME NEW v \in V, AssignRegisters(v) \/ AssignSlots(v)
      PROVE  SplitInv'
  BY <1>1, <1>5 DEF AssignRegisters, AssignSlots, liveVars
<1>6. CASE UNCHANGED allocVars
  BY <1>1, <1>6 DEF allocVars, liveVars
<1>7. CASE Enter \/ RunStep \/ Finish \/ Jump
  BY <1>6, <1>7 DEF Enter, RunStep, Finish, Jump
<1> QED
  BY <1>1, <1>2, <1>3, <1>4, <1>5, <1>6, <1>7 DEF Next, Return, Allocate, vars

\* A fixed parameter is live behind copies at the entry only.
LEMMA FixedLiveEarly ==
  ASSUME prog \in Programs, SplitInv, NEW v, IsFixed(v), NEW b \in Blocks, NEW i \in 0 .. Size(b),
         v \in LiveBehind(b, i)
  PROVE  b = 1 /\ \A j \in 1 .. i : Insts(b)[j].kind = "copy"
<1>1. Size(b) \in Nat
  BY CodeKnown DEF Size
<1>2. v \notin LiveBeforeTerm(b)
  BY FixedKnown DEF SplitInv, LiveBeforeTerm
<1>3. PICK j \in i + 1 .. Size(b) : v \in Uses(Insts(b)[j])
  BY <1>2 DEF LiveBehind
<1>4. j \in 1 .. Size(b) /\ \A k \in 1 .. i : k \in 1 .. j
  BY <1>1
<1> QED
  BY <1>3, <1>4, FixedKnown

-----------------------------------------------------------------------------
(***************************************************************************)
(* Assignment.                                                             *)
(***************************************************************************)
RegHome == {R(n) : n \in Reg}
SlotHome == {Slot(n) : n \in 0 .. Slots - 1}
BitHome == {Bit(n) : n \in 0 .. Others - 1}

LEMMA HomesDiffer ==
  /\ \A m, n : R(m) = R(n) => m = n
  /\ \A m, n : Slot(m) = Slot(n) => m = n
  /\ \A m, n : Bit(m) = Bit(n) => m = n
  /\ \A m, n : R(m) # Slot(n) /\ R(m) # Bit(n) /\ R(m) # Arg(n) /\ R(m) # K(n) /\ R(m) # A
  /\ \A m, n : Slot(m) # Bit(n) /\ Slot(m) # Arg(n) /\ Slot(m) # K(n) /\ Slot(m) # A
  /\ \A m, n : Bit(m) # Arg(n) /\ Bit(m) # K(n) /\ Bit(m) # A
  /\ \A m, n : Arg(m) # K(n) /\ Arg(m) # A
BY DEF R, Slot, Bit, Arg, K, A

LEMMA SpilledIsNone ==
  /\ Spilled \notin RegHome /\ Spilled \notin SlotHome /\ Spilled \notin BitHome
  /\ Spilled \notin ArgLocation
<1>1. Slots \notin 0 .. Slots - 1
  BY ConstantsAssumption
<1> QED
  BY <1>1, HomesDiffer DEF Spilled, RegHome, SlotHome, BitHome, ArgLocation

\* Byte k of v has location l.
Sits(v, k, l) == k \in DOMAIN locs[v] /\ locs[v][k] = l /\ l # Spilled

\* The stages of a virtual register: without any location, with registers, with locations.
Blank(v) ==
  \/ phase = "registers" /\ (v \in todo \/ HasBit(v))
  \/ phase = "slots" /\ v \in todo /\ HasBit(v)
Half(v) ==
  ~HasBit(v) /\ ((phase = "registers" /\ v \notin todo) \/ (phase = "slots" /\ v \in todo))
Full(v) == phase \in {"slots", "placed"} /\ v \notin todo

PlaceInv ==
  phase \in Later =>
    /\ DOMAIN locs = V /\ todo \subseteq {v \in V : Movable(v)}
    /\ phase = "registers" => \A v \in todo : ~HasBit(v)
    /\ phase = "placed" => todo = {}
    /\ \A v \in V : IsFixed(v) => locs[v] = FixedLoc(v)
    /\ \A v \in V : ~Movable(v) /\ ~IsFixed(v) => locs[v] = <<>>
    /\ \A v \in V : Movable(v) =>
         /\ Blank(v) => locs[v] = <<>>
         /\ Half(v) => locs[v] \in [1 .. Bytes(v) -> RegHome \cup {Spilled}]
         /\ Full(v) /\ HasBit(v) => \E s \in 0 .. Others - 1 : locs[v] = <<Bit(s)>>
         /\ Full(v) /\ ~HasBit(v) => locs[v] \in [1 .. Bytes(v) -> RegHome \cup SlotHome]

\* Interfering values share nothing, aligned ones only bytes of one position; and nothing is
\* where it would be overwritten.
ApartInv ==
  phase \in Later =>
    /\ \A u, v \in V : u # v =>
         \A j, k, l : Sits(u, j, l) /\ Sits(v, k, l) =>
           {u, v} \notin interf /\ ({u, v} \in aligned => j = k)
    /\ \A v \in V : \A j, k, l : Sits(v, j, l) /\ Sits(v, k, l) => j = k
    /\ \A v \in V : Movable(v) => \A k, n : Sits(v, k, R(n)) => n \notin forbid[v]

ParamsApart == phase \in Later => \A p, q \in Params : p # q => {p, q} \in interf

LEMMA FixedLocKnown ==
  ASSUME prog \in Programs, NEW v, IsFixed(v)
  PROVE  \E i \in 1 .. Len(prog.params) :
           /\ prog.params[i] = v /\ FixedLoc(v) = prog.fixed[i]
           /\ FixedLoc(v) \in Seq(ArgLocation) /\ Len(FixedLoc(v)) = Bytes(v)
           /\ DOMAIN FixedLoc(v) = 1 .. Bytes(v)
           /\ i \in DOMAIN prog.fixed
<1> DEFINE i == CHOOSE j \in 1 .. Len(prog.params) : prog.params[j] = v
<1>1. IsProgram(prog) /\ v \in Params /\ prog.fixed # <<>> /\ prog.params \in Seq(V)
  BY SizesKnown, ParamsKnown DEF IsFixed
<1>2. \E j \in 1 .. Len(prog.params) : prog.params[j] = v
  BY <1>1 DEF Params, Range
<1>3. i \in 1 .. Len(prog.params) /\ prog.params[i] = v
  BY <1>2
<1>4. FixedLoc(v) = prog.fixed[i]
  BY <1>1 DEF FixedLoc
<1>5. /\ prog.fixed \in Seq(Seq(ArgLocation)) /\ Len(prog.fixed) \in {0, Len(prog.params)}
      /\ \A j \in 1 .. Len(prog.params) : Len(prog.fixed[j]) = Width(prog, prog.params[j])
  BY <1>1 DEF IsProgram
<1> HIDE DEF i
<1>6. Len(prog.fixed) = Len(prog.params)
  BY <1>1, <1>5
<1>7. i \in DOMAIN prog.fixed /\ prog.fixed[i] \in Seq(ArgLocation)
  BY <1>3, <1>5, <1>6
<1>8. Len(prog.fixed[i]) = Bytes(v)
  BY <1>3, <1>5 DEF Bytes
<1>9. DOMAIN prog.fixed[i] = 1 .. Bytes(v)
  BY <1>7, <1>8
<1> QED
  BY <1>3, <1>4, <1>7, <1>8, <1>9

\* Fixed parameters share no location.
LEMMA FixedApart ==
  ASSUME prog \in Programs, NEW u, NEW v, IsFixed(u), IsFixed(v),
         NEW j \in DOMAIN FixedLoc(u), NEW k \in DOMAIN FixedLoc(v),
         FixedLoc(u)[j] = FixedLoc(v)[k]
  PROVE  u = v /\ j = k
<1>1. AllApart(prog.fixed)
  BY SizesKnown DEF IsProgram, IsFixed
<1>2. PICK a \in 1 .. Len(prog.params) :
        prog.params[a] = u /\ FixedLoc(u) = prog.fixed[a] /\ a \in DOMAIN prog.fixed
  BY FixedLocKnown
<1>3. PICK b \in 1 .. Len(prog.params) :
        prog.params[b] = v /\ FixedLoc(v) = prog.fixed[b] /\ b \in DOMAIN prog.fixed
  BY FixedLocKnown
<1> QED
  BY <1>1, <1>2, <1>3 DEF AllApart

\* What everything else needs that leaves locations alone.
LEMMA ApartSame ==
  ASSUME ApartInv, UNCHANGED <<prog, locs, interf, aligned, forbid>>, phase \in Later
  PROVE  ApartInv'
<1>1. V' = V /\ \A v : Movable(v)' = Movable(v)
  BY ProgSame
<1>2. \A v, k, l : Sits(v, k, l)' = Sits(v, k, l)
  BY DEF Sits
<1>3. /\ \A u, v \in V : u # v =>
           \A j, k, l : Sits(u, j, l) /\ Sits(v, k, l) =>
             {u, v} \notin interf /\ ({u, v} \in aligned => j = k)
      /\ \A v \in V : \A j, k, l : Sits(v, j, l) /\ Sits(v, k, l) => j = k
      /\ \A v \in V : Movable(v) => \A k, n : Sits(v, k, R(n)) => n \notin forbid[v]
  BY DEF ApartInv
<1> QED
  BY <1>1, <1>2, <1>3 DEF ApartInv

\* The parameters get their fixed locations.
LEMMA PlaceStart ==
  ASSUME LiveTypes, EndWalk
  PROVE  PlaceInv' /\ ApartInv' /\ ParamsApart'
<1>1. /\ prog \in Programs /\ prog' = prog /\ phase' = "registers"
      /\ locs' = [v \in V |-> FixedLoc(v)]
      /\ todo' = {v \in V : Movable(v) /\ ~HasBit(v)}
      /\ interf' = interf \cup EntryPairs
  BY DEF EndWalk, LiveTypes
<1>2. /\ V' = V /\ Params' = Params
      /\ \A v : HasBit(v)' = HasBit(v) /\ FixedLoc(v)' = FixedLoc(v) /\ Movable(v)' = Movable(v)
                /\ Bytes(v)' = Bytes(v) /\ IsFixed(v)' = IsFixed(v)
  BY <1>1, ProgSame DEF IsFixed
<1>3. \A v \in V : ~IsFixed(v) => locs'[v] = <<>>
  BY <1>1 DEF IsFixed, FixedLoc
<1>4. \A v : Movable(v) => ~IsFixed(v)
  BY DEF Movable, IsFixed
<1>5. PlaceInv'
  BY <1>1, <1>2, <1>3, <1>4 DEF PlaceInv, Blank, Half, Full
<1>6. \A v \in V : \A k, l : Sits(v, k, l)' => IsFixed(v) /\ k \in DOMAIN FixedLoc(v) /\ FixedLoc(v)[k] = l
  <2>1. DOMAIN <<>> = {}
    OBVIOUS
  <2> QED
    BY <1>1, <1>3, <2>1 DEF Sits
<1>7. ApartInv'
  <2>1. \A u, v \in V : \A j, k, l : Sits(u, j, l)' /\ Sits(v, k, l)' => u = v /\ j = k
    BY <1>1, <1>6, FixedApart
  <2>2. \A v \in V : Movable(v) => \A k, l : ~Sits(v, k, l)'
    BY <1>4, <1>6
  <2> QED
    BY <1>2, <2>1, <2>2 DEF ApartInv
<1>8. ASSUME NEW p \in Params, NEW q \in Params, p # q
      PROVE  {p, q} \in EntryPairs
  <2>1. {p, q} \in Pairs(p, LiveAtEntry \cup Params)
    BY <1>8 DEF Pairs
  <2> QED
    BY <2>1 DEF EntryPairs
<1>9. ParamsApart'
  BY <1>1, <1>2, <1>8 DEF ParamsApart
<1> QED
  BY <1>5, <1>7, <1>9

\* Giving one value its locations is all right if they are all right beside the others.
LEMMA ApartAfter ==
  ASSUME ApartInv, phase \in Later, UNCHANGED <<prog, interf, aligned, forbid>>, NEW v \in V,
         \A w \in V : w # v => \A k, l : Sits(w, k, l)' <=> Sits(w, k, l),
         \A w \in V : w # v => \A j, k, l : Sits(v, j, l)' /\ Sits(w, k, l) =>
           {w, v} \notin interf /\ ({w, v} \in aligned => j = k),
         \A j, k, l : Sits(v, j, l)' /\ Sits(v, k, l)' => j = k,
         \A k, n : Sits(v, k, R(n))' => n \notin forbid[v]
  PROVE  ApartInv'
<1>1. V' = V /\ \A w : Movable(w)' = Movable(w)
  BY ProgSame
<1>2. \A u, w \in V : u # w =>
        \A j, k, l : Sits(u, j, l)' /\ Sits(w, k, l)' =>
          {u, w} \notin interf /\ ({u, w} \in aligned => j = k)
  <2> SUFFICES ASSUME NEW u \in V, NEW w \in V, u # w, NEW j, NEW k, NEW l,
                      Sits(u, j, l)', Sits(w, k, l)'
               PROVE  {u, w} \notin interf /\ ({u, w} \in aligned => j = k)
    OBVIOUS
  <2>1. {u, w} = {w, u}
    OBVIOUS
  <2>2. CASE u = v
    BY <2>1, <2>2
  <2>3. CASE w = v
    BY <2>1, <2>3
  <2>4. CASE u # v /\ w # v
    BY <2>4 DEF ApartInv
  <2> QED
    BY <2>2, <2>3, <2>4
<1>3. \A w \in V : \A j, k, l : Sits(w, j, l)' /\ Sits(w, k, l)' => j = k
  BY DEF ApartInv
<1>4. \A w \in V : Movable(w) => \A k, n : Sits(w, k, R(n))' => n \notin forbid[w]
  BY DEF ApartInv
<1>5. \A w \in V' : Movable(w)' => \A k, n : Sits(w, k, R(n))' => n \notin forbid'[w]
  BY <1>1, <1>4
<1>6. \A u, w \in V' : u # w =>
        \A j, k, l : Sits(u, j, l)' /\ Sits(w, k, l)' =>
          {u, w} \notin interf' /\ ({u, w} \in aligned' => j = k)
  BY <1>1, <1>2
<1>7. \A w \in V' : \A j, k, l : Sits(w, j, l)' /\ Sits(w, k, l)' => j = k
  BY <1>1, <1>3
<1> QED
  BY <1>5, <1>6, <1>7 DEF ApartInv

\* A value gets registers: none of its interfering values has them.
LEMMA PlaceRegisters ==
  ASSUME LiveTypes, forbid \in [V -> SUBSET Reg], PlaceInv, ApartInv, NEW v \in V, AssignRegisters(v)
  PROVE  PlaceInv' /\ ApartInv'
<1>1. /\ prog \in Programs /\ prog' = prog /\ phase = "registers" /\ phase' = "registers"
      /\ v \in todo /\ todo' = todo \ {v}
      /\ UNCHANGED <<interf, aligned, forbid>>
  BY DEF AssignRegisters, LiveTypes, walkVars
<1>2. PICK choice \in [1 .. Bytes(v) -> {R(n) : n \in Reg} \cup {Spilled}] :
        /\ \A k \in 1 .. Bytes(v) :
             ~Blocked(v, k, choice) /\ \A n \in Taken(v, k) : choice[k] # R(n)
        /\ \A j, k \in 1 .. Bytes(v) : j # k /\ choice[j] = choice[k] => choice[j] = Spilled
        /\ locs' = [locs EXCEPT ![v] = choice]
  BY DEF AssignRegisters
<1>3. /\ DOMAIN locs = V /\ todo \subseteq {w \in V : Movable(w)} /\ ~HasBit(v) /\ Movable(v)
      /\ \A w \in V : IsFixed(w) => locs[w] = FixedLoc(w)
      /\ \A w \in V : ~Movable(w) /\ ~IsFixed(w) => locs[w] = <<>>
      /\ \A w \in V : Movable(w) =>
           /\ Blank(w) => locs[w] = <<>>
           /\ Half(w) => locs[w] \in [1 .. Bytes(w) -> RegHome \cup {Spilled}]
  BY <1>1 DEF PlaceInv, Later
<1>4. /\ V' = V
      /\ \A w : HasBit(w)' = HasBit(w) /\ FixedLoc(w)' = FixedLoc(w) /\ Movable(w)' = Movable(w)
                /\ Bytes(w)' = Bytes(w) /\ IsFixed(w)' = IsFixed(w)
  BY <1>1, ProgSame DEF IsFixed
<1>5. locs'[v] = choice /\ DOMAIN locs' = V /\ \A w \in V : w # v => locs'[w] = locs[w]
  BY <1>2, <1>3
<1>6. /\ ~IsFixed(v) /\ Half(v)' /\ ~Blank(v)'
      /\ \A w : w # v => Blank(w)' = Blank(w) /\ Half(w)' = Half(w)
      /\ \A w : ~Full(w)'
  BY <1>1, <1>3, <1>4 DEF Movable, IsFixed, Half, Blank, Full
<1>7. choice \in [1 .. Bytes(v) -> RegHome \cup {Spilled}]
  BY <1>2 DEF RegHome
<1>8. PlaceInv'
  <2>1. \A w \in V : IsFixed(w) => locs'[w] = FixedLoc(w)
    BY <1>3, <1>5, <1>6
  <2>2. \A w \in V : ~Movable(w) /\ ~IsFixed(w) => locs'[w] = <<>>
    BY <1>3, <1>5
  <2>3. ASSUME NEW w \in V, Movable(w)
        PROVE  /\ Blank(w)' => locs'[w] = <<>>
               /\ Half(w)' => locs'[w] \in [1 .. Bytes(w) -> RegHome \cup {Spilled}]
    <3>1. CASE w = v
      BY <1>5, <1>6, <1>7, <3>1
    <3>2. CASE w # v
      BY <1>3, <1>5, <1>6, <2>3, <3>2
    <3> QED
      BY <3>1, <3>2
  <2>4. /\ todo' \subseteq {w \in V : Movable(w)} /\ \A w \in todo' : ~HasBit(w)
    BY <1>1, <1>3 DEF PlaceInv, Later
  <2> QED
    BY <1>1, <1>4, <1>5, <1>6, <2>1, <2>2, <2>3, <2>4 DEF PlaceInv
<1>9. /\ \A k, l : Sits(v, k, l)' => /\ k \in 1 .. Bytes(v) /\ choice[k] = l /\ l # Spilled
                                     /\ \E n \in Reg : l = R(n) /\ n \notin Taken(v, k)
      /\ \A w \in V : w # v => \A k, l : Sits(w, k, l)' <=> Sits(w, k, l)
  BY <1>2, <1>5 DEF Sits, Spilled
<1>10. ASSUME NEW w \in V, w # v, NEW j, NEW k, NEW l, Sits(v, j, l)', Sits(w, k, l)
       PROVE  {w, v} \notin interf /\ ({w, v} \in aligned => j = k)
  <2>1. PICK n \in Reg : l = R(n) /\ n \notin Taken(v, j)
    BY <1>9, <1>10
  <2>2. k \in DOMAIN locs[w] /\ locs[w][k] = R(n)
    BY <1>10, <2>1 DEF Sits
  <2>3. R(n) \in Range(locs[w])
    BY <2>2 DEF Range
  <2>4. {w, v} \notin interf
    <3>1. w \in Hard(v) => n \in RegsOf(Hard(v))
      BY <2>3 DEF RegsOf
    <3> QED
      BY <1>10, <2>1, <3>1 DEF Hard, Taken
  <2>5. ASSUME {w, v} \in aligned
        PROVE  j = k
    <3>1. w \in Soft(v)
      BY <1>10, <2>4, <2>5 DEF Soft
    <3>2. k \in 1 .. Len(locs[w])
      <4>1. CASE IsFixed(w)
        <5>1. locs[w] = FixedLoc(w) /\ locs[w] \in Seq(ArgLocation)
          BY <1>1, <1>3, <4>1, FixedLocKnown
        <5> QED
          BY <2>2, <5>1
      <4>2. CASE ~IsFixed(w)
        <5>1. Movable(w)
          BY <1>3, <2>2, <4>2
        <5>2. Half(w) \/ Blank(w)
          BY <1>1 DEF Half, Blank
        <5>3. locs[w] = <<>> \/ locs[w] \in [1 .. Bytes(w) -> RegHome \cup {Spilled}]
          BY <1>3, <5>1, <5>2
        <5>4. Bytes(w) \in 1 .. 4
          BY <1>1, SizesKnown
        <5> QED
          BY <2>2, <5>3, <5>4
      <4> QED
        BY <4>1, <4>2
    <3> QED
      BY <2>1, <2>2, <3>1, <3>2 DEF Taken
  <2> QED
    BY <2>4, <2>5
<1>11. \A j, k, l : Sits(v, j, l)' /\ Sits(v, k, l)' => j = k
  BY <1>2, <1>9
<1>12. \A k, n : Sits(v, k, R(n))' => n \notin forbid[v]
  BY <1>9, HomesDiffer DEF Taken
<1>13. \A w \in V : w # v => \A j, k, l : Sits(v, j, l)' /\ Sits(w, k, l) =>
         {w, v} \notin interf /\ ({w, v} \in aligned => j = k)
  BY <1>10
<1>14. ApartInv'
  BY <1>1, <1>9, <1>11, <1>12, <1>13, ApartAfter DEF Later
<1> QED
  BY <1>8, <1>14

\* A byte without a register gets a slot that is free of those it must not meet.
LEMMA PlaceSlots ==
  ASSUME LiveTypes, PlaceInv, ApartInv, NEW v \in V, AssignSlots(v)
  PROVE  PlaceInv' /\ ApartInv'
<1>1. /\ prog \in Programs /\ prog' = prog /\ phase = "slots" /\ phase' = "slots"
      /\ v \in todo /\ todo' = todo \ {v}
      /\ UNCHANGED <<interf, aligned, forbid>>
  BY DEF AssignSlots, LiveTypes, walkVars
<1>2. /\ DOMAIN locs = V /\ todo \subseteq {w \in V : Movable(w)} /\ Movable(v)
      /\ \A w \in V : IsFixed(w) => locs[w] = FixedLoc(w)
      /\ \A w \in V : ~Movable(w) /\ ~IsFixed(w) => locs[w] = <<>>
      /\ \A w \in V : Movable(w) =>
           /\ Blank(w) => locs[w] = <<>>
           /\ Half(w) => locs[w] \in [1 .. Bytes(w) -> RegHome \cup {Spilled}]
           /\ Full(w) /\ HasBit(w) => \E s \in 0 .. Others - 1 : locs[w] = <<Bit(s)>>
           /\ Full(w) /\ ~HasBit(w) => locs[w] \in [1 .. Bytes(w) -> RegHome \cup SlotHome]
  BY <1>1 DEF PlaceInv, Later
<1>3. /\ V' = V
      /\ \A w : HasBit(w)' = HasBit(w) /\ FixedLoc(w)' = FixedLoc(w) /\ Movable(w)' = Movable(w)
                /\ Bytes(w)' = Bytes(w) /\ IsFixed(w)' = IsFixed(w)
  BY <1>1, ProgSame DEF IsFixed
<1>4. PICK new : locs' = [locs EXCEPT ![v] = new]
  BY DEF AssignSlots
<1>5. locs'[v] = new /\ DOMAIN locs' = V /\ \A w \in V : w # v => locs'[w] = locs[w]
  BY <1>2, <1>4
<1>6. /\ ~IsFixed(v) /\ Full(v)'
      /\ \A w : w # v => Blank(w)' = Blank(w) /\ Half(w)' = Half(w) /\ Full(w)' = Full(w)
      /\ ~Blank(v)' /\ ~Half(v)'
  BY <1>1, <1>2, <1>3 DEF Movable, IsFixed, Half, Blank, Full
<1>7. \A w \in V : w # v => \A k, l : Sits(w, k, l)' <=> Sits(w, k, l)
  BY <1>5 DEF Sits
<1>8. ASSUME /\ HasBit(v) => \E s \in 0 .. Others - 1 : new = <<Bit(s)>>
             /\ ~HasBit(v) => new \in [1 .. Bytes(v) -> RegHome \cup SlotHome]
      PROVE  PlaceInv'
  <2>1. \A w \in V : IsFixed(w) => locs'[w] = FixedLoc(w)
    BY <1>2, <1>5, <1>6
  <2>2. \A w \in V : ~Movable(w) /\ ~IsFixed(w) => locs'[w] = <<>>
    BY <1>2, <1>5
  <2>3. ASSUME NEW w \in V, Movable(w)
        PROVE  /\ Blank(w)' => locs'[w] = <<>>
               /\ Half(w)' => locs'[w] \in [1 .. Bytes(w) -> RegHome \cup {Spilled}]
               /\ Full(w)' /\ HasBit(w) => \E s \in 0 .. Others - 1 : locs'[w] = <<Bit(s)>>
               /\ Full(w)' /\ ~HasBit(w) => locs'[w] \in [1 .. Bytes(w) -> RegHome \cup SlotHome]
    <3>1. CASE w = v
      BY <1>5, <1>6, <1>8, <3>1
    <3>2. CASE w # v
      BY <1>2, <1>5, <1>6, <2>3, <3>2
    <3> QED
      BY <3>1, <3>2
  <2>4. todo' \subseteq {w \in V : Movable(w)}
    BY <1>1, <1>2
  <2> QED
    BY <1>1, <1>3, <1>5, <2>1, <2>2, <2>3, <2>4 DEF PlaceInv
<1>9. CASE HasBit(v)
  <2>1. PICK s \in FreeBits(v) : new = <<Bit(s)>>
    BY <1>4, <1>5, <1>9, <1>2 DEF AssignSlots
  <2>2. s \in 0 .. Others - 1 /\ \A u \in Hard(v) : locs[u] # <<Bit(s)>>
    BY <2>1 DEF FreeBits
  <2>3. PlaceInv'
    BY <1>8, <1>9, <2>1, <2>2
  <2>4. \A k, l : Sits(v, k, l)' => k = 1 /\ l = Bit(s)
    BY <1>5, <2>1 DEF Sits
  <2>5. ASSUME NEW w \in V, w # v, NEW k, Sits(w, k, Bit(s))
        PROVE  k = 1 /\ locs[w] = <<Bit(s)>>
    <3>1. k \in DOMAIN locs[w] /\ locs[w][k] = Bit(s)
      BY <2>5 DEF Sits
    <3>2. \A w2 \in V : Movable(w2) => Blank(w2) \/ Half(w2) \/ Full(w2)
      BY <1>1 DEF Blank, Half, Full
    <3>3. CASE IsFixed(w)
      <4>1. locs[w] \in Seq(ArgLocation)
        BY <1>1, <1>2, <3>3, FixedLocKnown
      <4>2. Bit(s) \in ArgLocation
        BY <3>1, <4>1
      <4> QED
        BY <4>2, HomesDiffer DEF ArgLocation
    <3>4. CASE ~IsFixed(w)
      <4>1. Movable(w)
        BY <1>2, <3>1, <3>4
      <4>2. Bit(s) \notin RegHome /\ Bit(s) \notin SlotHome /\ Bit(s) # Spilled
        BY HomesDiffer DEF RegHome, SlotHome, Spilled
      <4>3. Full(w) /\ HasBit(w)
        <5>1. CASE Blank(w)
          <6>1. locs[w] = <<>> /\ DOMAIN <<>> = {}
            BY <1>2, <4>1, <5>1
          <6> QED
            BY <3>1, <6>1
        <5>2. CASE Half(w)
          <6>1. locs[w] \in [1 .. Bytes(w) -> RegHome \cup {Spilled}]
            BY <1>2, <4>1, <5>2
          <6>2. locs[w][k] \in RegHome \cup {Spilled}
            BY <3>1, <6>1
          <6> QED
            BY <3>1, <4>2, <6>2
        <5>3. CASE Full(w) /\ ~HasBit(w)
          <6>1. locs[w] \in [1 .. Bytes(w) -> RegHome \cup SlotHome]
            BY <1>2, <4>1, <5>3
          <6>2. locs[w][k] \in RegHome \cup SlotHome
            BY <3>1, <6>1
          <6> QED
            BY <3>1, <4>2, <6>2
        <5> QED
          BY <3>2, <4>1, <5>1, <5>2, <5>3
      <4>4. PICK t \in 0 .. Others - 1 : locs[w] = <<Bit(t)>>
        BY <1>2, <4>1, <4>3
      <4> QED
        BY <3>1, <4>4
    <3> QED
      BY <3>3, <3>4
  <2>6. ASSUME NEW w \in V, w # v, NEW j, NEW k, NEW l, Sits(v, j, l)', Sits(w, k, l)
        PROVE  {w, v} \notin interf /\ ({w, v} \in aligned => j = k)
    <3>1. j = 1 /\ k = 1 /\ locs[w] = <<Bit(s)>>
      BY <2>4, <2>5, <2>6
    <3> QED
      BY <2>2, <2>6, <3>1 DEF Hard
  <2>7. ApartInv'
    BY <1>1, <1>7, <2>4, <2>6, ApartAfter, HomesDiffer DEF Later
  <2> QED
    BY <2>3, <2>7
<1>10. CASE ~HasBit(v)
  <2>0. PICK free \in {[k \in 1 .. Bytes(v) |-> (0 .. Slots - 1) \ SlotsTaken(v, k)]} :
          \E place \in [1 .. Bytes(v) -> Range(locs[v]) \cup {Slot(n) : n \in 0 .. Slots - 1}] :
            Placed(v, free, place) /\ locs' = [locs EXCEPT ![v] = place]
    BY <1>10 DEF AssignSlots
  <2>13. \A k \in 1 .. Bytes(v) : free[k] = (0 .. Slots - 1) \ SlotsTaken(v, k)
    BY <2>0
  <2>1. /\ new \in [1 .. Bytes(v) -> Range(locs[v]) \cup {Slot(n) : n \in 0 .. Slots - 1}]
        /\ Placed(v, free, new)
    <3>1. PICK place \in [1 .. Bytes(v) -> Range(locs[v]) \cup {Slot(n) : n \in 0 .. Slots - 1}] :
            Placed(v, free, place) /\ locs' = [locs EXCEPT ![v] = place]
      BY <2>0
    <3>2. place = new
      BY <1>2, <1>5, <3>1
    <3> QED
      BY <3>1, <3>2
  <2>2. locs[v] \in [1 .. Bytes(v) -> RegHome \cup {Spilled}]
    BY <1>1, <1>2, <1>10 DEF Half
  <2>3. Bytes(v) \in 1 .. 4
    BY <1>1, SizesKnown
  <2>4. ASSUME NEW k \in 1 .. Bytes(v)
        PROVE  \/ locs[v][k] # Spilled /\ new[k] = locs[v][k] /\ new[k] \in RegHome
               \/ \E n \in FreeSlots(k, free, new) : new[k] = Slot(n)
    BY <2>1, <2>2 DEF Placed
  <2>5. \A k \in 1 .. Bytes(v) : FreeSlots(k, free, new) \subseteq 0 .. Slots - 1
    BY <2>13 DEF FreeSlots
  <2>6. new \in [1 .. Bytes(v) -> RegHome \cup SlotHome]
    <3>1. \A k \in 1 .. Bytes(v) : new[k] \in RegHome \cup SlotHome
      BY <2>4, <2>5 DEF SlotHome
    <3> QED
      BY <2>1, <3>1
  <2>7. PlaceInv'
    BY <1>8, <1>10, <2>6
  <2>8. ASSUME NEW k, NEW l, Sits(v, k, l)'
        PROVE  /\ k \in 1 .. Bytes(v) /\ new[k] = l
               /\ Sits(v, k, l) \/ \E n \in FreeSlots(k, free, new) : l = Slot(n)
    <3>1. k \in 1 .. Bytes(v) /\ new[k] = l
      BY <1>5, <2>6, <2>8 DEF Sits
    <3> QED
      BY <2>2, <2>4, <3>1 DEF Sits
  <2>9. ASSUME NEW w \in V, w # v, NEW j, NEW k, NEW l, Sits(v, j, l)', Sits(w, k, l)
        PROVE  {w, v} \notin interf /\ ({w, v} \in aligned => j = k)
    <3>1. CASE Sits(v, j, l)
      BY <1>1, <2>9, <3>1 DEF ApartInv, Later
    <3>2. CASE ~Sits(v, j, l)
      <4>1. PICK n \in FreeSlots(j, free, new) : l = Slot(n)
        BY <2>8, <2>9, <3>2
      <4>2. n \in 0 .. Slots - 1 /\ n \notin SlotsTaken(v, j)
        BY <2>13, <2>8, <2>9, <4>1 DEF FreeSlots
      <4>3. k \in DOMAIN locs[w] /\ locs[w][k] = Slot(n)
        BY <2>9, <4>1 DEF Sits
      <4>4. Slot(n) \in Range(locs[w])
        BY <4>3 DEF Range
      <4>5. w \notin Hard(v)
        BY <4>2, <4>4 DEF SlotsTaken
      <4>6. {w, v} \notin interf
        BY <2>9, <4>5 DEF Hard
      <4>7. ASSUME {w, v} \in aligned
            PROVE  j = k
        <5>1. w \in Soft(v)
          BY <2>9, <4>6, <4>7 DEF Soft
        <5>2. k \in 1 .. Len(locs[w])
          <6>1. CASE IsFixed(w)
            <7>1. locs[w] \in Seq(ArgLocation)
              BY <1>1, <1>2, <6>1, FixedLocKnown
            <7> QED
              BY <4>3, <7>1
          <6>2. CASE ~IsFixed(w)
            <7>1. Movable(w)
              BY <1>2, <4>3, <6>2
            <7>2. Blank(w) \/ Half(w) \/ Full(w)
              BY <1>1 DEF Blank, Half, Full
            <7>3. \/ locs[w] = <<>>
                  \/ locs[w] \in [1 .. Bytes(w) -> RegHome \cup {Spilled}]
                  \/ \E s \in 0 .. Others - 1 : locs[w] = <<Bit(s)>>
                  \/ locs[w] \in [1 .. Bytes(w) -> RegHome \cup SlotHome]
              BY <1>2, <7>1, <7>2
            <7>4. Bytes(w) \in 1 .. 4
              BY <1>1, SizesKnown
            <7> QED
              BY <4>3, <7>3, <7>4
          <6> QED
            BY <6>1, <6>2
        <5> QED
          BY <4>2, <4>3, <5>1, <5>2 DEF SlotsTaken
      <4> QED
        BY <4>6, <4>7
    <3> QED
      BY <3>1, <3>2
  <2>10. ASSUME NEW j, NEW k, NEW l, Sits(v, j, l)', Sits(v, k, l)'
         PROVE  j = k
    <3>1. j \in 1 .. Bytes(v) /\ k \in 1 .. Bytes(v) /\ new[j] = l /\ new[k] = l
      BY <2>8, <2>10
    <3>2. ASSUME NEW a \in 1 .. Bytes(v), NEW b \in 1 .. Bytes(v), a < b, new[a] = new[b]
          PROVE  FALSE
      <4>1. CASE \E n \in FreeSlots(b, free, new) : new[b] = Slot(n)
        <5>1. PICK n \in FreeSlots(b, free, new) : new[b] = Slot(n)
          BY <4>1
        <5>2. \A i \in 1 .. b - 1 : new[i] # Slot(n)
          BY <5>1 DEF FreeSlots
        <5>3. a \in 1 .. b - 1
          BY <2>3, <3>2
        <5> QED
          BY <3>2, <5>1, <5>2, <5>3
      <4>2. CASE new[b] = locs[v][b] /\ new[b] \in RegHome /\ locs[v][b] # Spilled
        <5>1. new[a] = locs[v][a] /\ locs[v][a] # Spilled
          <6>1. ~ \E n \in FreeSlots(a, free, new) : new[a] = Slot(n)
            BY <3>2, <4>2, HomesDiffer DEF RegHome
          <6> QED
            BY <2>4, <6>1
        <5>2. Sits(v, a, new[a]) /\ Sits(v, b, new[a])
          BY <2>2, <3>2, <4>2, <5>1 DEF Sits
        <5> QED
          BY <1>1, <3>2, <5>2, <2>3 DEF ApartInv, Later
      <4> QED
        BY <2>4, <4>1, <4>2
    <3>3. j \in Nat /\ k \in Nat
      BY <2>3, <3>1
    <3> QED
      BY <3>1, <3>2, <3>3
  <2>11. \A k, n : Sits(v, k, R(n))' => n \notin forbid[v]
    <3>1. \A k, n : Sits(v, k, R(n))' => Sits(v, k, R(n))
      BY <2>8, HomesDiffer
    <3> QED
      BY <1>1, <1>2, <3>1 DEF ApartInv, Later
  <2>12. ApartInv'
    BY <1>1, <1>7, <2>9, <2>10, <2>11, ApartAfter DEF Later
  <2> QED
    BY <2>7, <2>12
<1> QED
  BY <1>9, <1>10

\* The values get their slots after their registers.
LEMMA PlaceTurn ==
  ASSUME PlaceInv, ApartInv, EndRegisters \/ EndSlots
  PROVE  PlaceInv' /\ ApartInv'
<1>1. /\ prog' = prog /\ UNCHANGED <<locs, interf, aligned, forbid>> /\ todo = {}
      /\ phase \in Later /\ phase' \in Later
  BY DEF EndRegisters, EndSlots, walkVars, assignVars, Later
<1>2. /\ V' = V
      /\ \A w : HasBit(w)' = HasBit(w) /\ FixedLoc(w)' = FixedLoc(w) /\ Movable(w)' = Movable(w)
                /\ Bytes(w)' = Bytes(w) /\ IsFixed(w)' = IsFixed(w)
  BY <1>1, ProgSame DEF IsFixed
<1>3. /\ DOMAIN locs = V
      /\ \A v \in V : IsFixed(v) => locs[v] = FixedLoc(v)
      /\ \A v \in V : ~Movable(v) /\ ~IsFixed(v) => locs[v] = <<>>
      /\ \A v \in V : Movable(v) =>
           /\ Blank(v) => locs[v] = <<>>
           /\ Half(v) => locs[v] \in [1 .. Bytes(v) -> RegHome \cup {Spilled}]
           /\ Full(v) /\ HasBit(v) => \E s \in 0 .. Others - 1 : locs[v] = <<Bit(s)>>
           /\ Full(v) /\ ~HasBit(v) => locs[v] \in [1 .. Bytes(v) -> RegHome \cup SlotHome]
  BY <1>1 DEF PlaceInv
<1>4. /\ todo' \subseteq {v \in V : Movable(v)}
      /\ phase' = "placed" => todo' = {}
      /\ phase' # "registers"
  BY <1>1 DEF EndRegisters, EndSlots, assignVars
<1>5. \A v \in V : Movable(v) =>
        /\ Blank(v)' => Blank(v)
        /\ Half(v)' => Half(v)
        /\ Full(v)' => Full(v)
  BY <1>1, <1>2 DEF EndRegisters, EndSlots, assignVars, Blank, Half, Full
<1>6. \A v \in V : Movable(v) =>
        /\ Blank(v)' => locs[v] = <<>>
        /\ Half(v)' => locs[v] \in [1 .. Bytes(v) -> RegHome \cup {Spilled}]
        /\ Full(v)' /\ HasBit(v) => \E s \in 0 .. Others - 1 : locs[v] = <<Bit(s)>>
        /\ Full(v)' /\ ~HasBit(v) => locs[v] \in [1 .. Bytes(v) -> RegHome \cup SlotHome]
  BY <1>3, <1>5
<1>7. PlaceInv'
  BY <1>1, <1>2, <1>3, <1>4, <1>6 DEF PlaceInv
<1> QED
  BY <1>1, <1>7, ApartSame

\* Nothing else touches locations.
LEMMA PlaceSame ==
  ASSUME UNCHANGED <<prog, locs, todo, interf, aligned, forbid>>,
         UNCHANGED phase \/ (phase \notin Later /\ phase' \notin Later)
  PROVE  /\ PlaceInv => PlaceInv'
         /\ ApartInv => ApartInv'
         /\ ParamsApart => ParamsApart'
<1>1. /\ V' = V /\ Params' = Params
      /\ \A w : HasBit(w)' = HasBit(w) /\ FixedLoc(w)' = FixedLoc(w) /\ Movable(w)' = Movable(w)
                /\ Bytes(w)' = Bytes(w) /\ IsFixed(w)' = IsFixed(w)
  BY ProgSame DEF IsFixed
<1>2. CASE phase' \notin Later
  BY <1>2 DEF PlaceInv, ApartInv, ParamsApart
<1>3. CASE phase' \in Later
  <2>1. UNCHANGED phase /\ phase \in Later
    BY <1>3
  <2>2. \A w : Blank(w)' = Blank(w) /\ Half(w)' = Half(w) /\ Full(w)' = Full(w)
    BY <1>1, <2>1 DEF Blank, Half, Full
  <2>3. PlaceInv => PlaceInv'
    BY <1>1, <2>1, <2>2 DEF PlaceInv
  <2>4. ApartInv => ApartInv'
    BY <2>1, ApartSame
  <2>5. ParamsApart => ParamsApart'
    BY <1>1, <2>1 DEF ParamsApart
  <2> QED
    BY <2>3, <2>4, <2>5
<1> QED
  BY <1>2, <1>3

LEMMA PlaceStep ==
  ASSUME WalkInv, PlaceInv, ApartInv, ParamsApart, [Next]_vars
  PROVE  PlaceInv' /\ ApartInv' /\ ParamsApart'
<1>1. LiveTypes /\ forbid \in [V -> SUBSET Reg]
  BY DEF WalkInv
<1>2. CASE UNCHANGED allocVars
  BY <1>2, PlaceSame DEF allocVars, walkVars, assignVars
<1>3. ASSUME phase \notin Later, phase' \notin Later
      PROVE  PlaceInv' /\ ApartInv' /\ ParamsApart'
  BY <1>3 DEF PlaceInv, ApartInv, ParamsApart
<1>4. CASE (\E b \in Blocks : Sweep(b)) \/ EndSweep \/ WalkInst \/ WalkNext
  BY <1>3, <1>4 DEF Sweep, EndSweep, StartWalk, WalkInst, WalkNext, Later
<1>5. CASE EndWalk
  BY <1>1, <1>5, PlaceStart
<1>6. ASSUME prog' = prog, interf' = interf, phase \in Later
      PROVE  ParamsApart'
  BY <1>6, ProgSame DEF ParamsApart
<1>7. ASSUME NEW v \in V, AssignRegisters(v)
      PROVE  PlaceInv' /\ ApartInv' /\ ParamsApart'
  BY <1>1, <1>6, <1>7, PlaceRegisters DEF AssignRegisters, walkVars, Later
<1>8. ASSUME NEW v \in V, AssignSlots(v)
      PROVE  PlaceInv' /\ ApartInv' /\ ParamsApart'
  BY <1>1, <1>6, <1>8, PlaceSlots DEF AssignSlots, walkVars, Later
<1>9. CASE EndRegisters \/ EndSlots
  BY <1>6, <1>9, PlaceTurn DEF EndRegisters, EndSlots, walkVars, Later
<1>10. CASE Enter \/ RunStep \/ Finish \/ Jump
  BY <1>2, <1>10 DEF Enter, RunStep, Finish, Jump
<1> QED
  BY <1>2, <1>4, <1>5, <1>7, <1>8, <1>9, <1>10 DEF Next, Return, Allocate, vars

-----------------------------------------------------------------------------
(***************************************************************************)
(* Pointer registers: where one is needed, the pointer has one or one is   *)
(* free.                                                                   *)
(***************************************************************************)
Pointing(s) == s.base # 0 /\ \E r \in PtrReg : Sits(s.base, 1, R(r))
Bare(s) == \E r \in PtrReg : \A u \in s.live : \A k : ~Sits(u, k, R(r))

SitesFree == phase \in Later => \A s \in sites : Pointing(s) \/ Bare(s)

\* The pointer of a site is no pointer at all or one byte; what is in the way are virtual
\* registers other than fixed parameters.
LEMMA SiteKnown ==
  ASSUME LiveTypes, SplitInv, SitesKnown, NEW s \in sites
  PROVE  /\ s.base \in V \cup {0}
         /\ s.base # 0 => Bytes(s.base) = 1 /\ ~HasBit(s.base)
         /\ s.live \subseteq V /\ \A v \in s.live : ~IsFixed(v)
<1>0. PICK b \in Blocks : \E i \in 1 .. Size(b) : s \in Site(Insts(b)[i], Across(b, i))
  BY DEF SitesKnown
<1>1. PICK i \in 1 .. Size(b) : s \in Site(Insts(b)[i], Across(b, i))
  BY <1>0
<1> DEFINE ins == Insts(b)[i]
<1>2. /\ ins.kind \in {"ptrload", "ptrstore"}
      /\ s = [base |-> ins.uses[1],
              live |-> Across(b, i) \cup ({ins.def} \ {0}) \cup (Uses(ins) \ {ins.uses[1]})]
  BY <1>1 DEF Site
<1>3. /\ prog \in Programs /\ ins.def \in V \cup {0} /\ Uses(ins) \subseteq V
      /\ \A u \in 1 .. Len(ins.uses) : ins.uses[u] \in V \cup {0}
      /\ IsTyped(prog, ins) /\ Size(b) \in Nat
  BY CodeKnown DEF LiveTypes, Size
<1>4. Len(ins.uses) \in {1, 2} /\ (ins.uses[1] # 0 => prog.size[ins.uses[1]] = 1)
  BY <1>2, <1>3 DEF IsTyped
<1>5. s.base \in V \cup {0}
  BY <1>2, <1>3, <1>4
<1>6. s.base # 0 => Bytes(s.base) = 1 /\ ~HasBit(s.base)
  BY <1>2, <1>4 DEF Bytes, Width, HasBit
<1>7. s.live \subseteq V
  BY <1>2, <1>3 DEF Across, LiveBehind
<1>8. ASSUME NEW v \in s.live, IsFixed(v)
      PROVE  FALSE
  <2>1. ins.kind # "copy" /\ i \in 1 .. i /\ i \in 0 .. Size(b)
    BY <1>2, <1>3
  <2>2. v \notin LiveBehind(b, i)
    BY <1>3, <1>8, <2>1, FixedLiveEarly
  <2>3. v # ins.def /\ v \notin Uses(ins)
    BY <1>3, <1>8, <2>1, FixedKnown
  <2> QED
    BY <1>2, <1>8, <2>2, <2>3 DEF Across
<1> QED
  BY <1>5, <1>6, <1>7, <1>8

\* Nobody who is in the way has a location when the walk ends.
LEMMA SitesStart ==
  ASSUME LiveTypes, SplitInv, SitesKnown, EndWalk
  PROVE  SitesFree'
<1>1. /\ locs' = [v \in V |-> FixedLoc(v)] /\ sites' = sites
      /\ \A v \in V : ~IsFixed(v) => FixedLoc(v) = <<>>
  BY DEF EndWalk, FixedLoc, IsFixed
<1>2. \A v \in V : ~IsFixed(v) => \A k, l : ~Sits(v, k, l)'
  <2>1. DOMAIN <<>> = {}
    OBVIOUS
  <2> QED
    BY <1>1, <2>1 DEF Sits
<1>3. \A s \in sites : Bare(s)'
  BY <1>2, SiteKnown, ConstantsAssumption DEF Bare, PtrReg
<1> QED
  BY <1>1, <1>3 DEF SitesFree

\* Blocked keeps the last pointer register free.
LEMMA SitesRegisters ==
  ASSUME LiveTypes, SplitInv, SitesKnown, PlaceInv, SitesFree, NEW v \in V, AssignRegisters(v)
  PROVE  SitesFree'
<1>1. /\ prog \in Programs /\ prog' = prog /\ phase = "registers" /\ v \in todo /\ sites' = sites
  BY DEF AssignRegisters, LiveTypes, walkVars
<1>2. PICK choice \in [1 .. Bytes(v) -> {R(n) : n \in Reg} \cup {Spilled}] :
        /\ \A k \in 1 .. Bytes(v) :
             ~Blocked(v, k, choice) /\ \A n \in Taken(v, k) : choice[k] # R(n)
        /\ locs' = [locs EXCEPT ![v] = choice]
  BY DEF AssignRegisters
<1>3. /\ DOMAIN locs = V /\ locs[v] = <<>>
      /\ \A w \in V : locs[w] = <<>> \/ DOMAIN locs[w] = 1 .. Bytes(w)
  <2>1. /\ DOMAIN locs = V /\ v \in V /\ Movable(v)
        /\ \A w \in V : IsFixed(w) => locs[w] = FixedLoc(w)
        /\ \A w \in V : ~Movable(w) /\ ~IsFixed(w) => locs[w] = <<>>
        /\ \A w \in V : Movable(w) =>
             /\ Blank(w) => locs[w] = <<>>
             /\ Half(w) => locs[w] \in [1 .. Bytes(w) -> RegHome \cup {Spilled}]
    BY <1>1 DEF PlaceInv, Later
  <2>2. \A w : Blank(w) \/ Half(w)
    BY <1>1 DEF Blank, Half
  <2>3. Blank(v)
    BY <1>1 DEF Blank
  <2>4. \A w \in V : IsFixed(w) => DOMAIN locs[w] = 1 .. Bytes(w)
    BY <1>1, <2>1, FixedLocKnown
  <2> QED
    BY <2>1, <2>2, <2>3, <2>4
<1>4. /\ \A w \in V : w # v => \A k, l : Sits(w, k, l)' <=> Sits(w, k, l)
      /\ \A k, l : ~Sits(v, k, l)
      /\ \A k, n : Sits(v, k, R(n))' <=> k \in 1 .. Bytes(v) /\ choice[k] = R(n)
  <2>1. DOMAIN <<>> = {}
    OBVIOUS
  <2> QED
    BY <1>2, <1>3, <2>1, HomesDiffer DEF Sits, Spilled
<1>5. 0 \notin V /\ \A w \in V : Bytes(w) \in 1 .. 4
  BY <1>1, SizesKnown
<1>6. SUFFICES ASSUME NEW s \in sites, ~Pointing(s)'
               PROVE  Bare(s)'
  BY <1>1 DEF SitesFree
<1>7. /\ s.base \in V \cup {0}
      /\ s.base # 0 => Bytes(s.base) = 1
      /\ s.live \subseteq V
  BY SiteKnown
<1>8. ~Pointing(s)
  <2> SUFFICES ASSUME s.base # 0, NEW r \in PtrReg, Sits(s.base, 1, R(r))
               PROVE  FALSE
    BY DEF Pointing
  <2>1. s.base # v /\ s.base \in V
    <3>1. s.base \in V
      BY <1>7
    <3>2. ~Sits(v, 1, R(r))
      BY <1>4
    <3> QED
      BY <3>1, <3>2
  <2>2. Sits(s.base, 1, R(r))'
    BY <1>4, <2>1
  <2> QED
    BY <1>6, <2>2 DEF Pointing
<1>9. PICK r \in PtrReg : \A u \in s.live : \A k : ~Sits(u, k, R(r))
  BY <1>1, <1>8 DEF SitesFree, Bare, Later
<1>10. CASE s.base = v
  <2>1. \A k, n : n \in PtrReg => ~Sits(v, k, R(n))'
    BY <1>4, <1>5, <1>6, <1>7, <1>10 DEF Pointing
  <2>2. \A u \in s.live : \A k : ~Sits(u, k, R(r))'
    BY <1>4, <1>7, <1>9, <2>1
  <2> QED
    BY <2>2 DEF Bare
<1>11. CASE v \notin s.live
  BY <1>4, <1>7, <1>9, <1>11 DEF Bare
<1>12. CASE s.base # v /\ v \in s.live
  <2>1. s.base = 0 \/ locs[s.base] = <<>> \/ locs[s.base][1] \notin {R(0), R(1)}
    BY <1>3, <1>7, <1>8, SpilledIsNone, HomesDiffer DEF Pointing, Sits, PtrReg, Spilled
  <2> SUFFICES ASSUME ~Bare(s)'
               PROVE  FALSE
    OBVIOUS
  <2>2. PICK k \in 1 .. Bytes(v) : choice[k] = R(r)
    BY <1>4, <1>7, <1>9 DEF Bare
  <2>3. 1 - r \in PtrReg /\ 1 - (1 - r) = r /\ 1 - r # r
    BY DEF PtrReg
  <2>4. PICK u \in s.live : \E j : Sits(u, j, R(1 - r))'
    BY <2>3 DEF Bare
  <2>5. PICK j : Sits(u, j, R(1 - r))'
    BY <2>4
  <2>6. CASE u # v
    <3>1. j \in DOMAIN locs[u] /\ locs[u][j] = R(1 - r) /\ u \in V
      <4>1. u \in V
        BY <1>7, <2>4
      <4>2. Sits(u, j, R(1 - r))
        BY <1>4, <2>5, <2>6, <4>1
      <4> QED
        BY <4>1, <4>2 DEF Sits
    <3>2. 1 - r \in Reg
      BY <2>3, ConstantsAssumption
    <3>3. 1 - r \in RegsOf(s.live \ {v})
      BY <2>5, <2>6, <3>1, <3>2 DEF RegsOf, Range
    <3>4. OtherTaken(s, v, k, choice, 1 - r)
      BY <3>3 DEF OtherTaken
    <3> QED
      BY <1>2, <1>12, <2>1, <2>2, <3>4 DEF Blocked
  <2>7. CASE u = v
    <3>1. j \in 1 .. Bytes(v) /\ choice[j] = R(1 - r)
      BY <1>4, <2>5, <2>7
    <3>2. j # k /\ j \in Nat /\ k \in Nat
      BY <1>5, <2>2, <2>3, <3>1, HomesDiffer
    <3>3. CASE j < k
      <4>1. j \in 1 .. k - 1
        BY <1>5, <3>1, <3>2, <3>3
      <4>2. OtherTaken(s, v, k, choice, 1 - r)
        BY <3>1, <4>1 DEF OtherTaken
      <4> QED
        BY <1>2, <1>12, <2>1, <2>2, <4>2 DEF Blocked
    <3>4. CASE k < j
      <4>1. k \in 1 .. j - 1
        BY <1>5, <2>2, <3>2, <3>4
      <4>2. OtherTaken(s, v, j, choice, 1 - (1 - r))
        BY <2>2, <2>3, <4>1 DEF OtherTaken
      <4> QED
        BY <1>2, <1>12, <2>1, <2>3, <3>1, <4>2 DEF Blocked
    <3> QED
      BY <3>2, <3>3, <3>4
  <2> QED
    BY <2>6, <2>7
<1> QED
  BY <1>10, <1>11, <1>12

\* Slots and bits take no register.
LEMMA SitesSlots ==
  ASSUME LiveTypes, SplitInv, SitesKnown, PlaceInv, SitesFree, NEW v \in V, AssignSlots(v)
  PROVE  SitesFree'
<1>1. /\ prog \in Programs /\ prog' = prog /\ phase = "slots" /\ v \in todo /\ sites' = sites
  BY DEF AssignSlots, LiveTypes, walkVars
<1>2. /\ DOMAIN locs = V /\ Movable(v)
      /\ Blank(v) => locs[v] = <<>>
      /\ Half(v) => locs[v] \in [1 .. Bytes(v) -> RegHome \cup {Spilled}]
  BY <1>1 DEF PlaceInv, Later
<1>3. PICK new : locs' = [locs EXCEPT ![v] = new]
  BY DEF AssignSlots
<1>4. locs'[v] = new /\ \A w \in V : w # v => locs'[w] = locs[w]
  BY <1>2, <1>3
<1>5. \A w \in V : w # v => \A k, l : Sits(w, k, l)' <=> Sits(w, k, l)
  BY <1>4 DEF Sits
<1>6. \A k, n : Sits(v, k, R(n))' <=> Sits(v, k, R(n))
  <2>1. CASE HasBit(v)
    <3>1. PICK s \in FreeBits(v) : new = <<Bit(s)>>
      BY <1>2, <1>3, <1>4, <2>1 DEF AssignSlots
    <3>2. locs[v] = <<>> /\ DOMAIN <<>> = {} /\ DOMAIN new = {1} /\ new[1] = Bit(s)
      BY <1>1, <1>2, <2>1, <3>1 DEF Blank
    <3> QED
      BY <1>4, <3>2, HomesDiffer DEF Sits
  <2>2. CASE ~HasBit(v)
    <3>0. PICK free \in {[k \in 1 .. Bytes(v) |-> (0 .. Slots - 1) \ SlotsTaken(v, k)]} :
            \E place \in [1 .. Bytes(v) -> Range(locs[v]) \cup {Slot(n) : n \in 0 .. Slots - 1}] :
              Placed(v, free, place) /\ locs' = [locs EXCEPT ![v] = place]
      BY <2>2 DEF AssignSlots
    <3>1. PICK place \in [1 .. Bytes(v) -> Range(locs[v]) \cup {Slot(n) : n \in 0 .. Slots - 1}] :
            Placed(v, free, place) /\ locs' = [locs EXCEPT ![v] = place]
      BY <3>0
    <3>2. place = new
      BY <1>2, <1>4, <3>1
    <3>3. locs[v] \in [1 .. Bytes(v) -> RegHome \cup {Spilled}]
      BY <1>1, <1>2, <2>2 DEF Half
    <3>4. \A k \in 1 .. Bytes(v) :
            \/ locs[v][k] # Spilled /\ new[k] = locs[v][k]
            \/ locs[v][k] = Spilled /\ \E n : new[k] = Slot(n)
      BY <3>1, <3>2 DEF Placed
    <3>5. DOMAIN new = 1 .. Bytes(v) /\ DOMAIN locs[v] = 1 .. Bytes(v)
      BY <3>1, <3>2, <3>3
    <3>6. \A n : R(n) # Spilled
      BY HomesDiffer DEF Spilled
    <3>7. \A k \in 1 .. Bytes(v) : \A n : new[k] = R(n) <=> locs[v][k] = R(n)
      BY <3>4, <3>6, HomesDiffer
    <3> QED
      BY <1>4, <3>5, <3>6, <3>7 DEF Sits, Spilled
  <2> QED
    BY <2>1, <2>2
<1>7. ASSUME NEW s \in sites
      PROVE  Pointing(s)' \/ Bare(s)'
  <2>1. /\ s.base \in V \cup {0}
        /\ s.base # 0 => Bytes(s.base) = 1
        /\ s.live \subseteq V
    BY SiteKnown
  <2>2. \A w \in V : \A k, n : Sits(w, k, R(n))' <=> Sits(w, k, R(n))
    BY <1>5, <1>6
  <2>3. Pointing(s) \/ Bare(s)
    BY <1>1 DEF SitesFree, Later
  <2>4. Pointing(s) => Pointing(s)'
    BY <2>1, <2>2 DEF Pointing
  <2>5. Bare(s) => Bare(s)'
    BY <2>1, <2>2 DEF Bare
  <2> QED
    BY <2>3, <2>4, <2>5
<1> QED
  BY <1>1, <1>7 DEF SitesFree

LEMMA SitesStep ==
  ASSUME WalkInv, SplitInv, SitesKnown, PlaceInv, SitesFree, [Next]_vars
  PROVE  SitesFree'
<1>1. LiveTypes
  BY DEF WalkInv
<1>2. ASSUME UNCHANGED <<locs, sites>>, phase' \in Later => phase \in Later
      PROVE  SitesFree'
  BY <1>2 DEF SitesFree, Pointing, Bare, Sits
<1>3. CASE UNCHANGED allocVars
  BY <1>2, <1>3 DEF allocVars, walkVars, assignVars
<1>4. CASE (\E b \in Blocks : Sweep(b)) \/ EndSweep \/ WalkInst \/ WalkNext
  BY <1>4 DEF Sweep, EndSweep, StartWalk, WalkInst, WalkNext, Later, SitesFree
<1>5. CASE EndWalk
  BY <1>1, <1>5, SitesStart
<1>6. ASSUME NEW v \in V, AssignRegisters(v)
      PROVE  SitesFree'
  BY <1>1, <1>6, SitesRegisters
<1>7. ASSUME NEW v \in V, AssignSlots(v)
      PROVE  SitesFree'
  BY <1>1, <1>7, SitesSlots
<1>8. CASE EndRegisters \/ EndSlots
  BY <1>2, <1>8 DEF EndRegisters, EndSlots, walkVars, assignVars, Later
<1>9. CASE Enter \/ RunStep \/ Finish \/ Jump
  BY <1>3, <1>9 DEF Enter, RunStep, Finish, Jump
<1> QED
  BY <1>3, <1>4, <1>5, <1>6, <1>7, <1>8, <1>9 DEF Next, Return, Allocate, vars

-----------------------------------------------------------------------------
(***************************************************************************)
(* What register allocation leaves behind.                                 *)
(***************************************************************************)
AllocInv ==
  /\ SweepInv /\ WalkInv /\ SitesKnown /\ SplitInv
  /\ PlaceInv /\ ApartInv /\ ParamsApart /\ SitesFree

LEMMA AllocStart ==
  ASSUME AllocInit
  PROVE  AllocInv
<1>1. /\ prog \in Programs /\ phase = "live" /\ phase \notin Later /\ unswept = Reachable
      /\ liveIn = [b \in Blocks |-> {}] /\ liveOut = [b \in Blocks |-> {}]
      /\ changed = FALSE /\ sites = {} /\ forbid = [v \in V |-> {}]
  BY DEF AllocInit, Later
<1>2. SweepInv
  BY <1>1 DEF SweepInv, Shape, Settled, Reachable, Blocks
<1>3. WalkInv
  BY <1>1 DEF WalkInv, LiveTypes, Walked
<1>4. SitesKnown /\ SplitInv
  BY <1>1 DEF SitesKnown, SplitInv
<1> QED
  BY <1>1, <1>2, <1>3, <1>4 DEF AllocInv, PlaceInv, ApartInv, ParamsApart, SitesFree

LEMMA AllocStep ==
  ASSUME AllocInv, [Next]_vars
  PROVE  AllocInv'
<1>1. SweepInv'
  BY SweepInvStep DEF AllocInv
<1>2. WalkInv'
  BY WalkInvStep DEF AllocInv
<1>3. SitesKnown' /\ SplitInv'
  BY SitesKnownStep, SplitInvStep DEF AllocInv, WalkInv
<1>4. PlaceInv' /\ ApartInv' /\ ParamsApart'
  BY PlaceStep DEF AllocInv
<1>5. SitesFree'
  BY SitesStep DEF AllocInv
<1> QED
  BY <1>1, <1>2, <1>3, <1>4, <1>5 DEF AllocInv

-----------------------------------------------------------------------------
(***************************************************************************)
(* Moves: what every location holds when those of the batch are made.      *)
(***************************************************************************)
P == INSTANCE ParMoveProofs WITH Loc <- Location, Val <- SUBSET (Nat \X Nat)

WillHold(l, x) ==
  IF pending = {} THEN x \in mem[l]
  ELSE \/ \E m \in 1 .. Len(batch) : batch[m].to = l /\ x \in start[batch[m].from]
       \/ (\A m \in 1 .. Len(batch) : batch[m].to # l) /\ x \in start[l]

\* Moving changes nothing of that.
LEMMA MovesEnd ==
  ASSUME P!MovesInv, MakeMoves
  PROVE  /\ P!MovesInv'
         /\ \A l \in Location : \A x : WillHold(l, x) => WillHold(l, x)'
<1>1. CASE BreakCycle
  <2>1. UNCHANGED <<mem, batch, start, pending>>
    BY <1>1 DEF BreakCycle
  <2>2. \A l, x : WillHold(l, x) => WillHold(l, x)'
    BY <2>1 DEF WillHold
  <2>3. P!BreakCycle
    BY <1>1 DEF BreakCycle, P!BreakCycle, Stuck, P!Stuck, Free, P!Free, AccHeld, P!AccHeld,
                Readers, P!Readers
  <2> QED
    BY <2>2, <2>3, P!BreakKeeps
<1>2. CASE MoveFree
  <2>1. PICK i \in pending :
          /\ Free(i)
          /\ mem' = [mem EXCEPT ![batch[i].to] =
                       IF i \in viaA THEN acc ELSE mem[batch[i].from]]
          /\ pending' = pending \ {i} /\ viaA' = viaA \ {i}
          /\ UNCHANGED <<batch, start, acc>>
    BY <1>2 DEF MoveFree
  <2>2. P!Free(i)
    BY <2>1 DEF Free, P!Free
  <2>3. /\ \A k \in 1 .. Len(batch) : k \notin pending' => mem'[batch[k].to] = start[batch[k].from]
        /\ \A l \in Location : (\A k \in 1 .. Len(batch) : batch[k].to # l) => mem'[l] = start[l]
    BY <2>1, <2>2, P!FreeMoveEffect
  <2>4. \A l \in Location : \A x : WillHold(l, x) => WillHold(l, x)'
    BY <2>1, <2>3 DEF WillHold
  <2>5. P!MoveFree
    BY <1>2 DEF MoveFree, P!MoveFree, Free, P!Free
  <2> QED
    BY <2>4, <2>5, P!MoveKeeps
<1> QED
  BY <1>1, <1>2 DEF MakeMoves

\* What a step of a script leaves in every location when its moves are made.
LEMMA MovesBegin ==
  ASSUME NEW moves \in P!Batches, NEW m0, DOMAIN m0 = Location, Begin(moves, m0)
  PROVE  /\ P!MovesInv'
         /\ \A m \in 1 .. Len(moves) : \A x \in m0[moves[m].from] : WillHold(moves[m].to, x)'
         /\ \A l \in Location : (\A m \in 1 .. Len(moves) : moves[m].to = l => moves[m].from = l) =>
              \A x \in m0[l] : WillHold(l, x)'
<1>1. /\ mem' = m0 /\ batch' = moves /\ viaA' = {}
      /\ pending' = {m \in 1 .. Len(moves) : moves[m].to # moves[m].from}
      /\ moves # <<>> => start' = m0
  BY DEF Begin
<1>2. /\ Len(moves) \in Nat
      /\ moves = <<>> => pending' = {}
      /\ \A m \in 1 .. Len(moves) : moves[m].to \in Location /\ moves[m].from \in Location
      /\ \A m, n \in 1 .. Len(moves) : m # n => moves[m].to # moves[n].to
  <2>1. /\ Len(moves) \in Nat
        /\ \A m \in 1 .. Len(moves) : moves[m].to \in Location /\ moves[m].from \in Location
        /\ \A m, n \in 1 .. Len(moves) : m # n => moves[m].to # moves[n].to
    BY P!BatchShape
  <2>2. moves = <<>> => 1 .. Len(moves) = {}
    OBVIOUS
  <2> QED
    BY <1>1, <2>1, <2>2
<1>3. P!MovesInv'
  <2>1. CASE pending' = {}
    BY <1>1, <2>1 DEF P!MovesInv, P!Shape, P!Waiting, P!Arrived, P!Untouched
  <2>2. CASE pending' # {}
    <3>1. start' = m0
      BY <1>1, <1>2, <2>2
    <3>2. P!Shape'
      BY <1>1, <1>2, <3>1 DEF P!Shape
    <3>3. P!Waiting' /\ P!Arrived' /\ P!Untouched'
      BY <1>1, <1>2, <3>1 DEF P!Waiting, P!Arrived, P!Untouched
    <3> QED
      BY <3>2, <3>3 DEF P!MovesInv
  <2> QED
    BY <2>1, <2>2
<1>4. ASSUME NEW m \in 1 .. Len(moves), NEW x \in m0[moves[m].from]
      PROVE  WillHold(moves[m].to, x)'
  BY <1>1, <1>2 DEF WillHold
<1>5. ASSUME NEW l \in Location, \A m \in 1 .. Len(moves) : moves[m].to = l => moves[m].from = l,
             NEW x \in m0[l]
      PROVE  WillHold(l, x)'
  BY <1>1, <1>2, <1>5 DEF WillHold
<1> QED
  BY <1>3, <1>4, <1>5

-----------------------------------------------------------------------------
(***************************************************************************)
(* Where the values of a placed function are.                              *)
(***************************************************************************)
Placement == AllocInv /\ phase = "placed"

LEMMA HomeKnown ==
  ASSUME Placement, NEW v \in EverLive
  PROVE  /\ v \in V /\ v # 0 /\ Bytes(v) \in 1 .. 4
         /\ DOMAIN locs[v] = 1 .. Bytes(v) /\ Len(locs[v]) = Bytes(v)
         /\ \A k \in 1 .. Bytes(v) :
              /\ locs[v][k] \in Location /\ Sits(v, k, locs[v][k])
              /\ locs[v][k] # A /\ \A n : locs[v][k] # K(n)
              /\ IsFixed(v) \/ locs[v][k] \in RegHome \cup SlotHome \cup BitHome
         /\ IsFixed(v) \/ Movable(v)
<1>1. prog \in Programs /\ v \in V /\ v # 0 /\ Bytes(v) \in 1 .. 4
  BY SizesKnown DEF Placement, AllocInv, WalkInv, LiveTypes, EverLive
<1>2. IsFixed(v) \/ Movable(v)
  BY DEF IsFixed, Movable
<1>3. Spilled \notin Location
  BY ConstantsAssumption, HomesDiffer DEF Location, Spilled
<1>4. /\ ArgLocation \subseteq Location
      /\ \A l \in ArgLocation : l # A /\ \A n : l # K(n)
  BY HomesDiffer DEF ArgLocation, Location
<1>5. /\ RegHome \cup SlotHome \cup BitHome \subseteq Location
      /\ \A l \in RegHome \cup SlotHome \cup BitHome : l # A /\ \A n : l # K(n)
  BY HomesDiffer DEF RegHome, SlotHome, BitHome, Location
<1>6. CASE IsFixed(v)
  <2>1. locs[v] = FixedLoc(v)
    BY <1>1, <1>6 DEF Placement, AllocInv, PlaceInv, Later
  <2>2. /\ FixedLoc(v) \in Seq(ArgLocation) /\ Len(FixedLoc(v)) = Bytes(v)
        /\ DOMAIN FixedLoc(v) = 1 .. Bytes(v)
    BY <1>1, <1>6, FixedLocKnown
  <2>3. \A k \in 1 .. Bytes(v) : locs[v][k] \in ArgLocation
    BY <2>1, <2>2
  <2> QED
    BY <1>1, <1>2, <1>3, <1>4, <1>6, <2>1, <2>2, <2>3 DEF Sits
<1>7. CASE ~IsFixed(v)
  <2>1. Movable(v) /\ Full(v)
    BY <1>1, <1>2, <1>7 DEF Placement, AllocInv, PlaceInv, Later, Full
  <2>2. /\ HasBit(v) => \E s \in 0 .. Others - 1 : locs[v] = <<Bit(s)>>
        /\ ~HasBit(v) => locs[v] \in [1 .. Bytes(v) -> RegHome \cup SlotHome]
    BY <1>1, <2>1 DEF Placement, AllocInv, PlaceInv, Later
  <2>3. /\ DOMAIN locs[v] = 1 .. Bytes(v) /\ Len(locs[v]) = Bytes(v)
        /\ \A k \in 1 .. Bytes(v) : locs[v][k] \in RegHome \cup SlotHome \cup BitHome
    <3>1. CASE HasBit(v)
      <4>1. Bytes(v) = 1
        BY <3>1 DEF HasBit, Bytes, Width
      <4>2. PICK s \in 0 .. Others - 1 : locs[v] = <<Bit(s)>>
        BY <2>2, <3>1
      <4> QED
        BY <4>1, <4>2 DEF BitHome
    <3>2. CASE ~HasBit(v)
      BY <1>1, <2>2, <3>2
    <3> QED
      BY <3>1, <3>2
  <2> QED
    BY <1>1, <1>2, <1>3, <1>5, <2>3 DEF Sits
<1> QED
  BY <1>6, <1>7

\* Two values share a location only if they do not interfere, and aligned ones at the same byte.
LEMMA HomesApart ==
  ASSUME Placement, NEW u \in EverLive, NEW v \in EverLive,
         NEW j \in 1 .. Bytes(u), NEW k \in 1 .. Bytes(v), locs[u][j] = locs[v][k]
  PROVE  IF u = v THEN j = k ELSE {u, v} \notin interf /\ ({u, v} \in aligned => j = k)
<1>1. u \in V /\ v \in V /\ Sits(u, j, locs[v][k]) /\ Sits(v, k, locs[v][k])
  BY HomeKnown
<1> QED
  BY <1>1 DEF Placement, AllocInv, ApartInv, Later

\* Every byte of a value has a location of its own.
LEMMA HomesOwn ==
  ASSUME Placement, NEW v \in EverLive, NEW j \in 1 .. Bytes(v), NEW k \in 1 .. Bytes(v),
         locs[v][j] = locs[v][k]
  PROVE  j = k
<1> DEFINE u == v
<1>1. u \in EverLive /\ j \in 1 .. Bytes(u) /\ locs[u][j] = locs[v][k] /\ u = v
  OBVIOUS
<1> HIDE DEF u
<1> QED
  BY <1>1, HomesApart

\* A value is not where something would overwrite it.
LEMMA HomeAllowed ==
  ASSUME Placement, NEW v \in EverLive, Movable(v), NEW k \in 1 .. Bytes(v), NEW n, locs[v][k] = R(n)
  PROVE  n \notin forbid[v] /\ n \in Reg
<1>1. v \in V /\ Sits(v, k, R(n)) /\ locs[v][k] \in Location
  BY HomeKnown
<1>2. n \in Reg
  BY <1>1, HomesDiffer DEF Location
<1> QED
  BY <1>1, <1>2 DEF Placement, AllocInv, ApartInv, Later

-----------------------------------------------------------------------------
\* An instruction of a placed function.
IsAt(b, i) == b \in Blocks /\ i \in 1 .. Size(b) /\ pc[1] = b /\ pc[2] = i

LEMMA InsKnown ==
  ASSUME Placement, NEW b \in Blocks, NEW i \in 1 .. Size(b), NEW ins, ins = Insts(b)[i]
  PROVE  /\ prog \in Programs /\ 0 \notin V /\ Size(b) \in Nat
         /\ ins \in Insn /\ IsTyped(prog, ins)
         /\ ins.def \in EverLive \cup {0} /\ Uses(ins) \subseteq EverLive
         /\ Len(ins.uses) \in Nat
         /\ \A u \in 1 .. Len(ins.uses) : ins.uses[u] = 0 \/ ins.uses[u] \in Uses(ins)
         /\ Recorded(b, i) /\ DOMAIN after = Blocks /\ DOMAIN after[b] = 1 .. Size(b) + 1
         /\ Across(b, i) \subseteq LiveBehind(b, i) /\ LiveBehind(b, i) \subseteq Across(b, i) \cup {ins.def}
<1>1. /\ prog \in Programs /\ Walked(b, i) /\ WalkInv
  BY DEF Placement, AllocInv, WalkInv, LiveTypes, Walked, Later
<1>2. /\ Size(b) \in Nat /\ ins \in Insn /\ ins.def \in V \cup {0} /\ Uses(ins) \subseteq V
      /\ IsTyped(prog, ins)
      /\ \A u \in 1 .. Len(ins.uses) : ins.uses[u] \in V \cup {0}
  BY <1>1, CodeKnown DEF Size
<1>3. 0 \notin V
  BY DEF V
<1>4. ins.uses \in Seq(Nat)
  BY <1>2 DEF Insn
<1>5. Len(ins.uses) \in Nat /\ \A u \in 1 .. Len(ins.uses) : ins.uses[u] = 0 \/ ins.uses[u] \in Uses(ins)
  BY <1>4 DEF Uses, Range
<1>6. ins.def \in EverLive \cup {0} /\ Uses(ins) \subseteq EverLive
  BY <1>2 DEF EverLive, Size
<1>7. Recorded(b, i) /\ DOMAIN after = Blocks /\ DOMAIN after[b] = 1 .. Size(b) + 1
  BY <1>1 DEF WalkInv, Placement
<1>8. Across(b, i) \subseteq LiveBehind(b, i) /\ LiveBehind(b, i) \subseteq Across(b, i) \cup {ins.def}
  BY DEF Across
<1> QED
  BY <1>1, <1>2, <1>3, <1>5, <1>6, <1>7, <1>8

\* What lives across an instruction is not where its result is written, but the source of a
\* copy may be there already.
LEMMA ResultApart ==
  ASSUME Placement, NEW b \in Blocks, NEW i \in 1 .. Size(b), NEW ins, ins = Insts(b)[i], ins.def # 0,
         NEW v \in EverLive, v \in Across(b, i),
         NEW j \in 1 .. Bytes(v), NEW k \in 1 .. Bytes(ins.def), locs[v][j] = locs[ins.def][k]
  PROVE  ins.kind = "copy" /\ v \in Uses(ins) /\ j = k
<1>1. /\ prog \in Programs /\ Recorded(b, i) /\ ins.def \in EverLive /\ IsTyped(prog, ins)
      /\ Uses(ins) \subseteq EverLive
  BY InsKnown
<1>2. v # ins.def /\ v \in LiveBehind(b, i)
  BY DEF Across
<1>3. {v, ins.def} = {ins.def, v}
  OBVIOUS
<1>4. {ins.def, v} \notin interf /\ ({ins.def, v} \in aligned => j = k)
  BY <1>1, <1>2, <1>3, HomesApart
<1>5. ins.kind = "copy" /\ v \in Uses(ins)
  <2>1. v \in Exempt(ins)
    BY <1>1, <1>2, <1>4 DEF Recorded
  <2> QED
    BY <2>1 DEF Exempt
<1>6. prog.size[v] = prog.size[ins.def] /\ Bytes(v) = Bytes(ins.def)
  BY <1>1, <1>5 DEF IsTyped, Uses, Bytes, Width
<1>7. Bytes(v) \in 1 .. 4
  BY HomeKnown
<1>8. CASE Bytes(ins.def) > 1
  <2>1. v \in Overlapped(ins)
    BY <1>2, <1>5, <1>8 DEF Overlapped, Loads
  <2>2. v \in Alignable(ins)
    BY <1>5, <1>6, <2>1 DEF Alignable, Bytewise
  <2>3. {ins.def, v} \in aligned
    BY <1>1, <1>2, <2>2 DEF Recorded
  <2> QED
    BY <1>4, <1>5, <2>3
<1>9. CASE Bytes(ins.def) = 1
  BY <1>5, <1>6, <1>9
<1> QED
  BY <1>6, <1>7, <1>8, <1>9

\* An operand that is read while result bytes are written is elsewhere, or at the same byte.
LEMMA OperandApart ==
  ASSUME Placement, NEW b \in Blocks, NEW i \in 1 .. Size(b), NEW ins, ins = Insts(b)[i], ins.def # 0,
         Bytes(ins.def) > 1, ins.kind \notin Loads \cup {"call"},
         NEW u \in Uses(ins), NEW j \in 1 .. Bytes(u), NEW k \in 1 .. Bytes(ins.def),
         locs[u][j] = locs[ins.def][k]
  PROVE  j = k /\ (u = ins.def \/ (ins.kind \in Bytewise /\ prog.size[u] = prog.size[ins.def]))
<1>1. Recorded(b, i) /\ ins.def \in EverLive /\ Uses(ins) \subseteq EverLive
  BY InsKnown
<1>2. CASE u = ins.def
  BY <1>1, <1>2, HomesApart
<1>3. CASE u # ins.def
  <2>1. {u, ins.def} = {ins.def, u}
    OBVIOUS
  <2>2. {ins.def, u} \notin interf /\ ({ins.def, u} \in aligned => j = k)
    BY <1>1, <1>3, <2>1, HomesApart
  <2>3. u \in Overlapped(ins)
    BY <1>3 DEF Overlapped
  <2>4. u \in Alignable(ins) /\ {ins.def, u} \in aligned
    BY <1>1, <1>3, <2>2, <2>3 DEF Recorded
  <2> QED
    BY <2>2, <2>4 DEF Alignable
<1> QED
  BY <1>2, <1>3

-----------------------------------------------------------------------------
(***************************************************************************)
(* Scripts: which locations a step changes, and what makes a script right. *)
(***************************************************************************)
Touches(o, l) ==
  \/ \E x \in o.puts : x[1] = l
  \/ l \in o.ruins
  \/ \E m \in 1 .. Len(o.moves) : o.moves[m].to = l /\ o.moves[m].from # l

\* Brings byte k of the result to l.
Writes(o, l, k) ==
  \/ <<l, k>> \in o.puts
  \/ \E m \in 1 .. Len(o.moves) : o.moves[m].to = l /\ o.moves[m].byte = k /\ k # 0

IsPlain(o) ==
  /\ o.push = {} /\ o.pop = FALSE /\ o.ready = TRUE
  /\ o.moves \in P!Batches /\ \A m \in 1 .. Len(o.moves) : o.moves[m].byte \in 0 .. 4
  /\ \A x \in o.puts : x[1] \in Location /\ x[2] \in 1 .. 4
  /\ o.moves = <<>> \/ (o.puts = {} /\ o.ruins = {})

\* Reads bytes of v, where they are.
ReadsOf(needs, v) ==
  \A x \in needs : x[2] = v /\ v # 0 /\ x[3] \in 1 .. Bytes(v) /\ x[1] = locs[v][x[3]]
Reads(o, ins) == \A x \in o.needs : \E v \in Uses(ins) : ReadsOf({x}, v)

\* What lives across an instruction is left alone; operands are read before they are
\* overwritten; the bytes of the result are written, and stay.
Good(sc, b, i) ==
  LET d == Insts(b)[i].def
  IN /\ Len(sc) \in Nat
     /\ \A t \in 1 .. Len(sc) : IsPlain(sc[t]) /\ Reads(sc[t], Insts(b)[i])
     /\ \A t \in 1 .. Len(sc) : \A v \in Across(b, i) \cap EverLive : \A k \in 1 .. Bytes(v) :
          ~Touches(sc[t], locs[v][k])
     /\ \A s, t \in 1 .. Len(sc) : s < t => \A x \in sc[t].needs : ~Touches(sc[s], x[1])
     /\ d # 0 => \A k \in 1 .. Bytes(d) : \E s \in 1 .. Len(sc) :
                   /\ Writes(sc[s], locs[d][k], k)
                   /\ \A t \in s + 1 .. Len(sc) : ~Touches(sc[t], locs[d][k])

\* Two lists, one behind the other.
LEMMA Chain ==
  ASSUME NEW s, NEW t, NEW m \in Nat, NEW n \in Nat,
         s = [k \in 1 .. m |-> s[k]], t = [k \in 1 .. n |-> t[k]]
  PROVE  /\ Len(s \o t) = m + n /\ s \o t = [k \in 1 .. m + n |-> (s \o t)[k]]
         /\ \A k \in 1 .. m : (s \o t)[k] = s[k]
         /\ \A k \in 1 .. n : (s \o t)[m + k] = t[k]
<1> DEFINE S == {s[k] : k \in 1 .. m} \cup {t[k] : k \in 1 .. n}
<1>1. \A k \in 1 .. m : s[k] \in S
  OBVIOUS
<1>2. \A k \in 1 .. n : t[k] \in S
  OBVIOUS
<1> HIDE DEF S
<1>3. s \in Seq(S) /\ Len(s) = m
  BY <1>1
<1>4. t \in Seq(S) /\ Len(t) = n
  BY <1>2
<1>5. s \o t \in Seq(S) /\ Len(s \o t) = m + n
  BY <1>3, <1>4
<1>6. DOMAIN (s \o t) = 1 .. m + n
  BY <1>5
<1> QED
  BY <1>3, <1>4, <1>5, <1>6

\* A function on 1 .. n is a list of its values.
LEMMA AsList ==
  ASSUME NEW S, NEW n \in Nat, NEW s, s = [k \in 1 .. n |-> s[k]], \A k \in 1 .. n : s[k] \in S
  PROVE  s \in Seq(S) /\ Len(s) = n
OBVIOUS

\* A list of one step.
LEMMA Single ==
  ASSUME NEW a
  PROVE  /\ Len(<<a>>) = 1 /\ <<a>>[1] = a /\ 1 \in Nat /\ <<a>> = [k \in 1 .. 1 |-> <<a>>[k]]
OBVIOUS

LEMMA NoMoves ==
  /\ <<>> \in P!Batches /\ 1 .. Len(<<>>) = {}
<1>1. 1 .. Len(<<>>) = {} /\ <<>> \in Seq([to : Location, from : Location, byte : Nat])
  OBVIOUS
<1>2. P!Distinct(<<>>)
  BY <1>1 DEF P!Distinct
<1> QED
  BY <1>1, <1>2 DEF P!Batches

\* A step that reads, and puts some bytes of the result.
LEMMA DoKnown ==
  ASSUME NEW needs, NEW puts, NEW o, o = Do(needs, puts)
  PROVE  /\ o.needs = needs /\ o.puts = puts
         /\ \A l : Touches(o, l) <=> \E x \in puts : x[1] = l
         /\ (\A x \in puts : x[1] \in Location /\ x[2] \in 1 .. 4) => IsPlain(o)
<1>1. /\ o.needs = needs /\ o.puts = puts
      /\ o.ruins = {} /\ o.push = {} /\ o.pop = FALSE
      /\ o.moves = <<>> /\ o.ready = TRUE
  BY DEF Do, Nop
<1>2. 1 .. Len(o.moves) = {} /\ o.moves \in P!Batches
  BY <1>1, NoMoves
<1>3. \A l : Touches(o, l) <=> \E x \in puts : x[1] = l
  BY <1>1, <1>2 DEF Touches
<1>4. (\A x \in puts : x[1] \in Location /\ x[2] \in 1 .. 4) => IsPlain(o)
  BY <1>1, <1>2 DEF IsPlain
<1> QED
  BY <1>1, <1>3, <1>4

LEMMA PutKnown ==
  ASSUME Placement, NEW d \in EverLive, NEW ks \in SUBSET (1 .. Bytes(d)), NEW needs,
         NEW o, o = Do(needs, PutAll(d, ks))
  PROVE  /\ o.needs = needs /\ IsPlain(o)
         /\ \A l : Touches(o, l) <=> \E k \in ks : l = locs[d][k]
         /\ \A k \in ks : Writes(o, locs[d][k], k)
<1>1. \A x : x \in PutAll(d, ks) <=> \E k \in ks : x = <<locs[d][k], k>>
  BY DEF PutAll, Put
<1>2. \A k \in ks : locs[d][k] \in Location /\ k \in 1 .. 4
  BY HomeKnown
<1>3. \A x \in PutAll(d, ks) : x[1] \in Location /\ x[2] \in 1 .. 4
  BY <1>1, <1>2
<1>4. \A l : (\E x \in PutAll(d, ks) : x[1] = l) <=> \E k \in ks : l = locs[d][k]
  <2> SUFFICES ASSUME NEW l
               PROVE  (\E x \in PutAll(d, ks) : x[1] = l) <=> \E k \in ks : l = locs[d][k]
    OBVIOUS
  <2>1. ASSUME NEW x \in PutAll(d, ks), x[1] = l
        PROVE  \E k \in ks : l = locs[d][k]
    <3>1. PICK k \in ks : x = <<locs[d][k], k>>
      BY <1>1
    <3> QED
      BY <2>1, <3>1
  <2>2. ASSUME NEW k \in ks, l = locs[d][k]
        PROVE  \E x \in PutAll(d, ks) : x[1] = l
    <3>1. <<locs[d][k], k>> \in PutAll(d, ks) /\ <<locs[d][k], k>>[1] = locs[d][k]
      BY <1>1
    <3> QED
      BY <2>2, <3>1
  <2> QED
    BY <2>1, <2>2
<1>5. \A k \in ks : <<locs[d][k], k>> \in PutAll(d, ks)
  BY <1>1
<1>6. /\ o.needs = needs /\ o.puts = PutAll(d, ks)
      /\ \A l : Touches(o, l) <=> \E x \in PutAll(d, ks) : x[1] = l
  BY DoKnown
<1>7. IsPlain(o)
  BY <1>3, DoKnown
<1>8. \A k \in ks : Writes(o, locs[d][k], k)
  BY <1>5, <1>6 DEF Writes
<1> QED
  BY <1>4, <1>6, <1>7, <1>8

\* One byte, or all.
LEMMA PutOne ==
  ASSUME Placement, NEW d \in EverLive, NEW k \in 1 .. Bytes(d), NEW needs,
         NEW o, o = Do(needs, PutAll(d, {k}))
  PROVE  /\ o.needs = needs /\ IsPlain(o) /\ Writes(o, locs[d][k], k)
         /\ \A l : Touches(o, l) <=> l = locs[d][k]
<1> DEFINE ks == {k}
<1>1. ks \in SUBSET (1 .. Bytes(d)) /\ o = Do(needs, PutAll(d, ks)) /\ \A j : j \in ks <=> j = k
  OBVIOUS
<1> HIDE DEF ks
<1> QED
  BY <1>1, PutKnown

LEMMA PutEvery ==
  ASSUME Placement, NEW d \in EverLive, NEW needs, NEW o, o = Do(needs, PutAll(d, 1 .. Bytes(d)))
  PROVE  /\ o.needs = needs /\ IsPlain(o)
         /\ \A l : Touches(o, l) <=> \E k \in 1 .. Bytes(d) : l = locs[d][k]
         /\ \A k \in 1 .. Bytes(d) : Writes(o, locs[d][k], k)
<1> DEFINE ks == 1 .. Bytes(d)
<1>1. ks \in SUBSET (1 .. Bytes(d)) /\ o = Do(needs, PutAll(d, ks))
  OBVIOUS
<1>2. ks = 1 .. Bytes(d)
  OBVIOUS
<1> HIDE DEF ks
<1>3. o.needs = needs /\ IsPlain(o)
  BY <1>1, PutKnown
<1>4. \A l : Touches(o, l) <=> \E k \in ks : l = locs[d][k]
  BY <1>1, PutKnown
<1>5. \A k \in ks : Writes(o, locs[d][k], k)
  BY <1>1, PutKnown
<1> QED
  BY <1>3, <1>4, <1>5, <1>2

\* A step that only reads.
LEMMA ReadKnown ==
  ASSUME NEW needs, NEW o, o = Do(needs, {})
  PROVE  o.needs = needs /\ IsPlain(o) /\ \A l : ~Touches(o, l)
<1>1. o.needs = needs /\ \A l : Touches(o, l) <=> \E x \in {} : x[1] = l
  BY DoKnown
<1>2. IsPlain(o)
  BY DoKnown
<1> QED
  BY <1>1, <1>2

\* A step that copies n bytes.
LEMMA CopyKnown ==
  ASSUME Placement, NEW d \in EverLive, NEW v \in EverLive \cup {0}, NEW n \in 1 .. Bytes(d),
         v # 0 => n <= Bytes(v), NEW o, o = Copy(d, v, n)
  PROVE  /\ IsPlain(o) /\ ReadsOf(o.needs, v)
         /\ \A x \in o.needs : x[3] \in 1 .. n
         /\ \A l : Touches(o, l) => \E k \in 1 .. n : l = locs[d][k] /\ Source(v, k) # l
         /\ \A k \in 1 .. n : Writes(o, locs[d][k], k)
<1> DEFINE ms == [k \in 1 .. n |-> [to |-> locs[d][k], from |-> Source(v, k), byte |-> k]]
<1>1. /\ o.needs = UNION {Need(v, k) : k \in 1 .. n} /\ o.moves = ms
      /\ o.puts = {} /\ o.ruins = {} /\ o.push = {} /\ o.pop = FALSE /\ o.ready = TRUE
  BY DEF Copy, Nop
<1>2. /\ Bytes(d) \in 1 .. 4
      /\ v # 0 => Bytes(v) \in 1 .. 4
      /\ \A k \in 1 .. Bytes(d) : locs[d][k] \in Location
  BY HomeKnown
<1>3. n \in Nat /\ n \in 1 .. 4
  BY HomeKnown
<1>4. \A k \in 1 .. n : Source(v, k) \in Location
  <2> SUFFICES ASSUME NEW k \in 1 .. n PROVE Source(v, k) \in Location
    OBVIOUS
  <2>1. CASE v = 0
    <3>1. k \in 1 .. 4
      BY <1>3
    <3> QED
      BY <2>1, <3>1 DEF Source, Location
  <2>2. CASE v # 0
    <3>1. v \in EverLive /\ Bytes(v) \in 1 .. 4
      BY <2>2, HomeKnown
    <3>2. k \in 1 .. Bytes(v)
      BY <1>3, <2>2, <3>1
    <3> QED
      BY <2>2, <3>1, <3>2, HomeKnown DEF Source
  <2> QED
    BY <2>1, <2>2
<1>5. /\ ms = [k \in 1 .. n |-> ms[k]]
      /\ \A k \in 1 .. n : ms[k] = [to |-> locs[d][k], from |-> Source(v, k), byte |-> k]
  BY <1>3
<1>6. \A k \in 1 .. n : k \in 1 .. Bytes(d)
  BY HomeKnown
<1> HIDE DEF ms
<1>7. Len(ms) = n
  BY <1>3, <1>5
<1>8. ms \in P!Batches
  <2>1. \A k \in 1 .. n : ms[k] \in [to : Location, from : Location, byte : Nat]
    BY <1>2, <1>3, <1>4, <1>5, <1>6
  <2>2. ms \in Seq([to : Location, from : Location, byte : Nat])
    BY <1>3, <1>5, <2>1, AsList
  <2>3. P!Distinct(ms)
    <3> SUFFICES ASSUME NEW j \in 1 .. n, NEW k \in 1 .. n, ms[j].to = ms[k].to
                 PROVE  j = k
      BY <1>7 DEF P!Distinct
    <3>1. locs[d][j] = locs[d][k] /\ j \in 1 .. Bytes(d) /\ k \in 1 .. Bytes(d)
      BY <1>5, <1>6
    <3> QED
      BY <3>1, HomesApart
  <2> QED
    BY <2>2, <2>3 DEF P!Batches
<1>9. IsPlain(o)
  <2>1. \A m \in 1 .. Len(ms) : ms[m].byte \in 0 .. 4
    BY <1>3, <1>5, <1>7
  <2> QED
    BY <1>1, <1>8, <2>1 DEF IsPlain
<1>10. ReadsOf(o.needs, v) /\ \A x \in o.needs : x[3] \in 1 .. n
  <2> SUFFICES ASSUME NEW x \in o.needs
               PROVE  /\ x[2] = v /\ v # 0 /\ x[3] \in 1 .. Bytes(v) /\ x[1] = locs[v][x[3]]
                      /\ x[3] \in 1 .. n
    BY DEF ReadsOf
  <2>1. PICK k \in 1 .. n : x \in Need(v, k)
    BY <1>1
  <2>2. v # 0 /\ x = <<locs[v][k], v, k>>
    BY <2>1 DEF Need
  <2>3. Bytes(v) \in 1 .. 4
    BY <2>2, HomeKnown
  <2>4. k \in 1 .. Bytes(v)
    BY <1>3, <2>2, <2>3
  <2> QED
    BY <2>2, <2>4
<1>11. \A l : Touches(o, l) => \E k \in 1 .. n : l = locs[d][k] /\ Source(v, k) # l
  BY <1>1, <1>5, <1>7 DEF Touches
<1>12. \A k \in 1 .. n : Writes(o, locs[d][k], k)
  BY <1>1, <1>3, <1>5, <1>7 DEF Writes
<1> QED
  BY <1>9, <1>10, <1>11, <1>12

\* Across an instruction that is no copy, no result byte is where another value lives.
LEMMA AcrossApart ==
  ASSUME Placement, NEW b \in Blocks, NEW i \in 1 .. Size(b), NEW ins, ins = Insts(b)[i], ins.def # 0,
         ins.kind # "copy"
  PROVE  \A v \in Across(b, i) \cap EverLive : \A j \in 1 .. Bytes(v), k \in 1 .. Bytes(ins.def) :
           locs[v][j] # locs[ins.def][k]
BY ResultApart

\* What is read, one byte of every operand, or all of them.
LEMMA NeedsKnown ==
  ASSUME Placement, NEW b \in Blocks, NEW i \in 1 .. Size(b), NEW ins, ins = Insts(b)[i]
  PROVE  /\ \A k : \A x \in NeedEach(ins.uses, k) : \E v \in Uses(ins) : x = <<locs[v][k], v, k>>
         /\ \A x \in AllOf(ins) : \E v \in Uses(ins) : ReadsOf({x}, v)
         /\ \A v \in Uses(ins) : \A x \in NeedAll(v) : ReadsOf({x}, v)
         /\ \A v \in Uses(ins) : \A k \in 1 .. Bytes(v) : \A x \in Need(v, k) :
              x = <<locs[v][k], v, k>> /\ ReadsOf({x}, v)
<1>1. \A u \in 1 .. Len(ins.uses) : ins.uses[u] = 0 \/ ins.uses[u] \in Uses(ins)
  BY InsKnown
<1>2. ASSUME NEW k, NEW x \in NeedEach(ins.uses, k)
      PROVE  \E v \in Uses(ins) : x = <<locs[v][k], v, k>>
  <2>1. PICK u \in 1 .. Len(ins.uses) : x \in Need(ins.uses[u], k)
    BY <1>2 DEF NeedEach
  <2> QED
    BY <1>1, <2>1 DEF Need
<1>3. ASSUME NEW v \in Uses(ins), NEW k \in 1 .. Bytes(v), NEW x \in Need(v, k)
      PROVE  x = <<locs[v][k], v, k>> /\ ReadsOf({x}, v)
  <2>1. x = <<locs[v][k], v, k>> /\ v # 0
    BY <1>3 DEF Need, Uses
  <2> QED
    BY <2>1 DEF ReadsOf
<1>4. ASSUME NEW v \in Uses(ins), NEW x \in NeedAll(v)
      PROVE  ReadsOf({x}, v)
  <2>1. PICK k \in 1 .. Bytes(v) : x \in Need(v, k)
    BY <1>4 DEF NeedAll
  <2> QED
    BY <1>3, <2>1
<1>5. ASSUME NEW x \in AllOf(ins)
      PROVE  \E v \in Uses(ins) : ReadsOf({x}, v)
  <2>1. PICK u \in 1 .. Len(ins.uses) : x \in NeedAll(ins.uses[u])
    BY <1>5 DEF AllOf
  <2>2. ins.uses[u] # 0
    BY <2>1 DEF NeedAll
  <2> QED
    BY <1>1, <1>4, <2>1, <2>2
<1> QED
  BY <1>2, <1>3, <1>4, <1>5

\* A script of one step.
LEMMA GoodOne ==
  ASSUME Placement, NEW b \in Blocks, NEW i \in 1 .. Size(b), NEW ins, ins = Insts(b)[i],
         NEW o, IsPlain(o), Reads(o, ins),
         \A v \in Across(b, i) \cap EverLive : \A k \in 1 .. Bytes(v) : ~Touches(o, locs[v][k]),
         ins.def # 0 => \A k \in 1 .. Bytes(ins.def) : Writes(o, locs[ins.def][k], k)
  PROVE  Good(<<o>>, b, i)
<1>1. Len(<<o>>) = 1 /\ <<o>>[1] = o
  OBVIOUS
<1>2. \A t \in 1 .. 1 : t = 1
  OBVIOUS
<1>3. 1 \in 1 .. 1 /\ 1 + 1 .. 1 = {}
  OBVIOUS
<1> DEFINE sc == <<o>>
<1>4. Len(sc) = 1 /\ sc[1] = o
  BY <1>1
<1> HIDE DEF sc
<1>5. \A t \in 1 .. Len(sc) : sc[t] = o /\ t = 1
  BY <1>2, <1>4
<1>6. Good(sc, b, i)
  <2>1. Len(sc) \in Nat
    BY <1>4
  <2>2. \A t \in 1 .. Len(sc) : IsPlain(sc[t]) /\ Reads(sc[t], ins)
    BY <1>5
  <2>3. \A t \in 1 .. Len(sc) : \A v \in Across(b, i) \cap EverLive : \A k \in 1 .. Bytes(v) :
          ~Touches(sc[t], locs[v][k])
    BY <1>5
  <2>4. \A s, t \in 1 .. Len(sc) : ~(s < t)
    BY <1>4
  <2>5. ins.def # 0 => \A k \in 1 .. Bytes(ins.def) : \E s \in 1 .. Len(sc) :
          /\ Writes(sc[s], locs[ins.def][k], k)
          /\ \A t \in s + 1 .. Len(sc) : ~Touches(sc[t], locs[ins.def][k])
    BY <1>3, <1>4
  <2> QED
    BY <2>1, <2>2, <2>3, <2>4, <2>5 DEF Good
<1> QED
  BY <1>6 DEF sc

LEMMA GoodCopy ==
  ASSUME Placement, NEW b \in Blocks, NEW i \in 1 .. Size(b), NEW ins, ins = Insts(b)[i],
         ins.kind \in {"copy", "trunc"}
  PROVE  Good(<<Copy(ins.def, ins.uses[1], Bytes(ins.def))>>, b, i)
<1> DEFINE d == ins.def
           a == ins.uses[1]
<1>1. /\ IsTyped(prog, ins) /\ ins.def \in EverLive \cup {0} /\ Uses(ins) \subseteq EverLive
      /\ \A u \in 1 .. Len(ins.uses) : ins.uses[u] = 0 \/ ins.uses[u] \in Uses(ins)
      /\ Recorded(b, i) /\ 0 \notin Uses(ins)
  BY InsKnown DEF Uses
<1>2. /\ d # 0 /\ Len(ins.uses) = 1
  BY <1>1 DEF IsTyped
<1>3. a = 0 \/ a \in Uses(ins)
  BY <1>1, <1>2
<1>4. d \in EverLive /\ a \in EverLive \cup {0} /\ Bytes(d) \in 1 .. 4
  BY <1>1, <1>2, <1>3, HomeKnown
<1>5. a # 0 => Bytes(d) <= Bytes(a)
  <2>1. CASE ins.kind = "copy"
    BY <1>1, <1>3, <1>4, <2>1 DEF IsTyped, Bytes, Width, Uses
  <2>2. CASE ins.kind = "trunc"
    BY <1>1, <2>2 DEF IsTyped, Bytes
  <2> QED
    BY <2>1, <2>2
<1> DEFINE o == Copy(d, a, Bytes(d))
<1>6. /\ IsPlain(o) /\ ReadsOf(o.needs, a)
      /\ \A l : Touches(o, l) => \E k \in 1 .. Bytes(d) : l = locs[d][k] /\ Source(a, k) # l
      /\ \A k \in 1 .. Bytes(d) : Writes(o, locs[d][k], k)
  <2>1. Bytes(d) \in 1 .. Bytes(d)
    BY <1>4
  <2> QED
    BY <1>4, <1>5, <2>1, CopyKnown
<1> HIDE DEF o
<1>7. Reads(o, ins)
  BY <1>3, <1>6 DEF Reads, ReadsOf
<1>8. ASSUME NEW v \in Across(b, i) \cap EverLive, NEW j \in 1 .. Bytes(v), Touches(o, locs[v][j])
      PROVE  FALSE
  <2>1. PICK k \in 1 .. Bytes(d) : locs[v][j] = locs[d][k] /\ Source(a, k) # locs[v][j]
    BY <1>6, <1>8
  <2>2. ins.kind = "copy" /\ v \in Uses(ins) /\ j = k
    BY <1>2, <1>4, <2>1, ResultApart
  <2>3. v = a
    BY <1>2, <2>2 DEF Uses, Range
  <2> QED
    BY <1>1, <2>1, <2>2, <2>3 DEF Source
<1>9. Good(<<o>>, b, i)
  BY <1>6, <1>7, <1>8, GoodOne
<1> QED
  BY <1>9 DEF o

LEMMA GoodAny ==
  ASSUME Placement, NEW b \in Blocks, NEW i \in 1 .. Size(b), NEW ins, ins = Insts(b)[i],
         ins.kind = "any"
  PROVE  Good(AnyScript(ins), b, i)
<1> DEFINE d == ins.def
           o == Do(AllOf(ins), PutAll(d, 1 .. Bytes(d)))
<1>1. d # 0 /\ d \in EverLive
  BY InsKnown DEF IsTyped
<1>2. AnyScript(ins) = <<o>>
  BY DEF AnyScript, PutAll
<1>3. o = Do(AllOf(ins), PutAll(d, 1 .. Bytes(d)))
  OBVIOUS
<1> HIDE DEF o
<1>4. /\ o.needs = AllOf(ins) /\ IsPlain(o)
      /\ \A l : Touches(o, l) <=> \E k \in 1 .. Bytes(d) : l = locs[d][k]
      /\ \A k \in 1 .. Bytes(d) : Writes(o, locs[d][k], k)
  BY <1>1, <1>3, PutEvery
<1>5. Reads(o, ins)
  <2>1. \A x \in AllOf(ins) : \E v \in Uses(ins) : ReadsOf({x}, v)
    BY NeedsKnown
  <2> QED
    BY <1>4, <2>1 DEF Reads
<1>6. \A v \in Across(b, i) \cap EverLive : \A k \in 1 .. Bytes(v) : ~Touches(o, locs[v][k])
  BY <1>1, <1>4, AcrossApart
<1> QED
  BY <1>4, <1>2, <1>5, <1>6, GoodOne

LEMMA GoodUse ==
  ASSUME Placement, NEW b \in Blocks, NEW i \in 1 .. Size(b), NEW ins, ins = Insts(b)[i],
         ins.kind = "use"
  PROVE  Good(<<Do(AllOf(ins), {})>>, b, i)
<1> DEFINE o == Do(AllOf(ins), {})
<1>1. o.needs = AllOf(ins) /\ IsPlain(o) /\ \A l : ~Touches(o, l)
  BY ReadKnown
<1> HIDE DEF o
<1>2. Reads(o, ins)
  BY <1>1, NeedsKnown DEF Reads
<1>3. ins.def = 0
  BY InsKnown DEF IsTyped
<1>4. Good(<<o>>, b, i)
  BY <1>1, <1>2, <1>3, GoodOne
<1> QED
  BY <1>4 DEF o

\* A value that lives across anything but a copy has a home of its own, no parameter's.
LEMMA AcrossMovable ==
  ASSUME Placement, NEW b \in Blocks, NEW i \in 1 .. Size(b), NEW ins, ins = Insts(b)[i],
         ins.kind # "copy", NEW v \in Across(b, i) \cap EverLive
  PROVE  /\ Movable(v) /\ ~IsFixed(v)
         /\ Clobbers(ins) \ Keeps(ins, v) \subseteq forbid[v]
<1>1. ~IsFixed(v)
  <2> SUFFICES ASSUME IsFixed(v)
               PROVE  FALSE
    OBVIOUS
  <2>1. prog \in Programs /\ v \in LiveBehind(b, i) /\ Size(b) \in Nat
    BY InsKnown
  <2>2. i \in 0 .. Size(b) /\ i \in 1 .. i
    BY <2>1
  <2>3. Insts(b)[i].kind = "copy"
    BY <2>1, <2>2, FixedLiveEarly DEF Placement, AllocInv
  <2> QED
    BY <2>3
<1>2. Recorded(b, i)
  BY InsKnown
<1> QED
  BY <1>1, <1>2, HomeKnown DEF Recorded

LEMMA GoodAsm ==
  ASSUME Placement, NEW b \in Blocks, NEW i \in 1 .. Size(b), NEW ins, ins = Insts(b)[i],
         ins.kind = "asm"
  PROVE  Good(<<[Nop EXCEPT !.ruins = {R(n) : n \in Reg}]>>, b, i)
<1> DEFINE o == [Nop EXCEPT !.ruins = {R(n) : n \in Reg}]
<1>1. /\ o.needs = {} /\ o.puts = {} /\ o.push = {} /\ o.pop = FALSE /\ o.ready = TRUE
      /\ o.moves = <<>> /\ o.ruins = {R(n) : n \in Reg}
  BY DEF Nop
<1> HIDE DEF o
<1>2. 1 .. Len(o.moves) = {} /\ o.moves \in P!Batches
  BY <1>1, NoMoves
<1>3. IsPlain(o) /\ Reads(o, ins)
  BY <1>1, <1>2 DEF IsPlain, Reads
<1>4. ins.def = 0
  BY InsKnown DEF IsTyped
<1>5. ASSUME NEW v \in Across(b, i) \cap EverLive, NEW k \in 1 .. Bytes(v), Touches(o, locs[v][k])
      PROVE  FALSE
  <2>1. PICK n \in Reg : locs[v][k] = R(n)
    BY <1>1, <1>2, <1>5 DEF Touches
  <2>2. Clobbers(ins) = Reg /\ Keeps(ins, v) = {}
    BY DEF Clobbers, Keeps
  <2>3. n \in forbid[v] /\ Movable(v)
    BY <2>2, AcrossMovable
  <2> QED
    BY <2>1, <2>3, HomeAllowed
<1>6. Good(<<o>>, b, i)
  BY <1>3, <1>4, <1>5, GoodOne
<1> QED
  BY <1>6 DEF o

\* Byte by byte: byte t of every operand is read, byte t of the result is put.
LEMMA GoodSame ==
  ASSUME Placement, NEW b \in Blocks, NEW i \in 1 .. Size(b), NEW ins, ins = Insts(b)[i],
         ins.kind = "same"
  PROVE  Good(SameScript(ins), b, i)
<1> DEFINE d == ins.def
           n == Bytes(d)
           sc == SameScript(ins)
<1>1. /\ d # 0 /\ d \in EverLive /\ n \in 1 .. 4 /\ Uses(ins) \subseteq EverLive
      /\ \A u \in Uses(ins) : prog.size[u] = prog.size[d] /\ Bytes(u) = n /\ u # 0
  <2>1. d \in EverLive /\ d # 0 /\ Uses(ins) \subseteq EverLive /\ IsTyped(prog, ins)
    BY InsKnown DEF IsTyped
  <2> QED
    BY <2>1, HomeKnown DEF IsTyped, Uses, Bytes, Width
<1>2. sc = [t \in 1 .. n |-> Do(NeedEach(ins.uses, t), PutAll(d, {t}))]
  BY DEF SameScript, Each, PutAll
<1>3. Len(sc) = n /\ \A t \in 1 .. n : sc[t] = Do(NeedEach(ins.uses, t), PutAll(d, {t}))
  BY <1>1, <1>2
<1> HIDE DEF sc
<1>4. ASSUME NEW t \in 1 .. n
      PROVE  /\ sc[t].needs = NeedEach(ins.uses, t) /\ IsPlain(sc[t])
             /\ \A l : Touches(sc[t], l) <=> l = locs[d][t]
             /\ Writes(sc[t], locs[d][t], t)
  <2>1. sc[t] = Do(NeedEach(ins.uses, t), PutAll(d, {t}))
    BY <1>3
  <2> QED
    BY <1>1, <2>1, PutOne
<1>5. ASSUME NEW t \in 1 .. n, NEW x \in sc[t].needs
      PROVE  \E v \in Uses(ins) : x = <<locs[v][t], v, t>>
  BY <1>4, <1>5, NeedsKnown
<1>6. \A t \in 1 .. n : Reads(sc[t], ins)
  BY <1>1, <1>5 DEF Reads, ReadsOf
<1>7. ASSUME NEW t \in 1 .. n, NEW v \in Across(b, i) \cap EverLive, NEW k \in 1 .. Bytes(v)
      PROVE  ~Touches(sc[t], locs[v][k])
  <2>1. locs[v][k] # locs[d][t]
    BY <1>1, AcrossApart
  <2> QED
    BY <1>4, <2>1
<1>8. ASSUME NEW s \in 1 .. n, NEW t \in 1 .. n, s < t, NEW x \in sc[t].needs, Touches(sc[s], x[1])
      PROVE  FALSE
  <2>1. PICK v \in Uses(ins) : x = <<locs[v][t], v, t>>
    BY <1>5
  <2>2. locs[v][t] = locs[d][s]
    BY <1>4, <1>8, <2>1
  <2>3. t = s
    <3>1. t \in 1 .. Bytes(v) /\ n > 1
      BY <1>1, <1>8
    <3> QED
      BY <1>1, <2>2, <3>1, OperandApart DEF Loads
  <2> QED
    BY <1>1, <1>8, <2>3
<1>9. ASSUME NEW k \in 1 .. n
      PROVE  \E s \in 1 .. n : /\ Writes(sc[s], locs[d][k], k)
                               /\ \A t \in s + 1 .. n : ~Touches(sc[t], locs[d][k])
  <2>1. ASSUME NEW t \in k + 1 .. n, Touches(sc[t], locs[d][k])
        PROVE  FALSE
    <3>1. t \in 1 .. n /\ t # k
      BY <1>1
    <3>2. locs[d][k] = locs[d][t]
      BY <1>4, <2>1, <3>1
    <3> QED
      BY <1>1, <3>1, <3>2, HomesApart
  <2> QED
    BY <1>4, <2>1
<1>10. Good(sc, b, i)
  <2>1. \A t \in 1 .. Len(sc) : IsPlain(sc[t]) /\ Reads(sc[t], ins)
    BY <1>3, <1>4, <1>6
  <2>2. Len(sc) = Bytes(d) /\ Len(sc) \in Nat
    BY <1>1, <1>3
  <2> QED
    BY <1>3, <1>7, <1>8, <1>9, <2>1, <2>2 DEF Good
<1> QED
  BY <1>10 DEF sc

\* A shift of two bytes: the byte that mixes both is put first.
LEMMA GoodMux ==
  ASSUME Placement, NEW b \in Blocks, NEW i \in 1 .. Size(b), NEW ins, ins = Insts(b)[i],
         ins.kind \in {"left", "right"}, NEW first \in {1, 2}
  PROVE  Good(MuxScript(ins, first), b, i)
<1> DEFINE d == ins.def
           a == ins.uses[1]
           o == Do(AllOf(ins), PutAll(d, {first}))
           p == Do(Need(a, 3 - first), PutAll(d, {3 - first}))
           sc == <<o, p>>
<1>1. /\ d # 0 /\ d \in EverLive /\ Bytes(d) = 2 /\ Uses(ins) \subseteq EverLive
      /\ a = 0 \/ a \in Uses(ins)
      /\ a # 0 => Bytes(a) = 2
      /\ first \in 1 .. Bytes(d) /\ 3 - first \in 1 .. Bytes(d)
  <2>1. /\ d \in EverLive /\ d # 0 /\ Uses(ins) \subseteq EverLive /\ IsTyped(prog, ins)
        /\ Len(ins.uses) = 1
        /\ \A u \in 1 .. Len(ins.uses) : ins.uses[u] = 0 \/ ins.uses[u] \in Uses(ins)
    BY InsKnown DEF IsTyped
  <2>2. a = 0 \/ a \in Uses(ins)
    BY <2>1
  <2>3. Bytes(d) = 2 /\ (a # 0 => Bytes(a) = 2)
    BY <2>1, <2>2 DEF IsTyped, Uses, Bytes, Width
  <2> QED
    BY <2>1, <2>2, <2>3
<1>2. MuxScript(ins, first) = sc
  BY DEF MuxScript, PutAll
<1>3. o = Do(AllOf(ins), PutAll(d, {first})) /\ p = Do(Need(a, 3 - first), PutAll(d, {3 - first}))
  OBVIOUS
<1>4. Len(sc) = 2 /\ sc[1] = o /\ sc[2] = p
  OBVIOUS
<1> HIDE DEF o, p, sc
<1>5. /\ o.needs = AllOf(ins) /\ IsPlain(o) /\ Writes(o, locs[d][first], first)
      /\ \A l : Touches(o, l) <=> l = locs[d][first]
  BY <1>1, <1>3, PutOne
<1>6. /\ p.needs = Need(a, 3 - first) /\ IsPlain(p) /\ Writes(p, locs[d][3 - first], 3 - first)
      /\ \A l : Touches(p, l) <=> l = locs[d][3 - first]
  BY <1>1, <1>3, PutOne
<1>7. \A x \in p.needs : a \in Uses(ins) /\ x = <<locs[a][3 - first], a, 3 - first>>
  BY <1>1, <1>6 DEF Need
<1>8. Reads(o, ins) /\ Reads(p, ins)
  <2>1. Reads(o, ins)
    BY <1>5, NeedsKnown DEF Reads
  <2>2. Reads(p, ins)
    BY <1>1, <1>7 DEF Reads, ReadsOf, Uses
  <2> QED
    BY <2>1, <2>2
<1>9. \A v \in Across(b, i) \cap EverLive : \A k \in 1 .. Bytes(v) :
        ~Touches(o, locs[v][k]) /\ ~Touches(p, locs[v][k])
  BY <1>1, <1>5, <1>6, AcrossApart
<1>10. \A x \in p.needs : ~Touches(o, x[1])
  <2> SUFFICES ASSUME NEW x \in p.needs, Touches(o, x[1])
               PROVE  FALSE
    OBVIOUS
  <2>1. a \in Uses(ins) /\ a # 0 /\ locs[a][3 - first] = locs[d][first]
    BY <1>5, <1>7 DEF Uses
  <2>2. 3 - first \in 1 .. Bytes(a) /\ first \in 1 .. Bytes(d) /\ Bytes(d) > 1
    BY <1>1, <2>1
  <2>3. 3 - first = first
    BY <1>1, <2>1, <2>2, OperandApart DEF Loads
  <2> QED
    BY <2>3
<1>11. ~Touches(p, locs[d][first])
  <2> SUFFICES ASSUME locs[d][first] = locs[d][3 - first]
               PROVE  FALSE
    BY <1>6
  <2>1. d \in EverLive /\ first \in 1 .. Bytes(d) /\ 3 - first \in 1 .. Bytes(d)
    BY <1>1
  <2>2. first = 3 - first
    BY <2>1, HomesOwn
  <2> QED
    BY <2>2
<1>12. \A t \in 1 .. 2 : t = 1 \/ t = 2
  OBVIOUS
<1>13. \A k \in 1 .. Bytes(d) : \E s \in 1 .. 2 :
         /\ Writes(sc[s], locs[d][k], k)
         /\ \A t \in s + 1 .. 2 : ~Touches(sc[t], locs[d][k])
  <2>1. 1 + 1 .. 2 = {2} /\ 2 + 1 .. 2 = {} /\ 1 \in 1 .. 2 /\ 2 \in 1 .. 2
    OBVIOUS
  <2>2. \A k \in 1 .. Bytes(d) : k = first \/ k = 3 - first
    BY <1>1
  <2> QED
    BY <1>4, <1>5, <1>6, <1>11, <2>1, <2>2
<1>14. Good(sc, b, i)
  <2>1. \A t \in 1 .. 2 : IsPlain(sc[t]) /\ Reads(sc[t], ins)
    BY <1>4, <1>5, <1>6, <1>8, <1>12
  <2>2. \A t \in 1 .. 2 : \A v \in Across(b, i) \cap EverLive : \A k \in 1 .. Bytes(v) :
          ~Touches(sc[t], locs[v][k])
    BY <1>4, <1>9, <1>12
  <2>3. \A s, t \in 1 .. 2 : s < t => \A x \in sc[t].needs : ~Touches(sc[s], x[1])
    BY <1>4, <1>10, <1>12
  <2> QED
    BY <1>4, <1>13, <2>1, <2>2, <2>3 DEF Good
<1> QED
  BY <1>2, <1>14

\* A shift by a variable: the count is read, then the operand is copied and shifted in place.
LEMMA GoodShift ==
  ASSUME Placement, NEW b \in Blocks, NEW i \in 1 .. Size(b), NEW ins, ins = Insts(b)[i],
         ins.kind = "shift"
  PROVE  Good(ShiftScript(ins), b, i)
<1> DEFINE d == ins.def
           a == ins.uses[1]
           o == Do(Need(ins.uses[2], 1), {})
           p == Copy(d, a, Bytes(d))
           sc == <<o, p>>
<1>1. /\ d # 0 /\ d \in EverLive /\ Bytes(d) \in 1 .. 4 /\ Uses(ins) \subseteq EverLive
      /\ a = 0 \/ a \in Uses(ins)
      /\ ins.uses[2] = 0 \/ ins.uses[2] \in Uses(ins)
      /\ a # 0 => Bytes(a) = Bytes(d)
  <2>1. /\ d \in EverLive /\ d # 0 /\ Uses(ins) \subseteq EverLive /\ IsTyped(prog, ins)
        /\ Len(ins.uses) = 2
        /\ \A u \in 1 .. Len(ins.uses) : ins.uses[u] = 0 \/ ins.uses[u] \in Uses(ins)
    BY InsKnown DEF IsTyped
  <2>2. (a = 0 \/ a \in Uses(ins)) /\ (ins.uses[2] = 0 \/ ins.uses[2] \in Uses(ins))
    BY <2>1
  <2>3. a # 0 => Bytes(a) = Bytes(d)
    BY <2>1 DEF IsTyped, Bytes, Width
  <2> QED
    BY <2>1, <2>2, <2>3, HomeKnown
<1>2. ShiftScript(ins) = sc /\ o = Do(Need(ins.uses[2], 1), {})
  BY DEF ShiftScript
<1>3. Len(sc) = 2 /\ sc[1] = o /\ sc[2] = p
  OBVIOUS
<1>4. /\ IsPlain(p) /\ ReadsOf(p.needs, a)
      /\ \A l : Touches(p, l) => \E k \in 1 .. Bytes(d) : l = locs[d][k] /\ Source(a, k) # l
      /\ \A k \in 1 .. Bytes(d) : Writes(p, locs[d][k], k)
  <2>1. Bytes(d) \in 1 .. Bytes(d) /\ (a # 0 => Bytes(d) <= Bytes(a))
    BY <1>1
  <2>2. a \in EverLive \cup {0}
    BY <1>1
  <2> QED
    BY <1>1, <2>1, <2>2, CopyKnown
<1> HIDE DEF o, p, sc
<1>5. o.needs = Need(ins.uses[2], 1) /\ IsPlain(o) /\ \A l : ~Touches(o, l)
  BY <1>2, ReadKnown
<1>6. Reads(o, ins) /\ Reads(p, ins)
  <2>1. Reads(p, ins)
    BY <1>1, <1>4 DEF Reads, ReadsOf
  <2>2. ASSUME NEW x \in o.needs
        PROVE  \E v \in Uses(ins) : ReadsOf({x}, v)
    <3>1. ins.uses[2] \in Uses(ins)
      BY <1>1, <1>5, <2>2 DEF Need
    <3>2. 1 \in 1 .. Bytes(ins.uses[2])
      BY <1>1, <3>1, HomeKnown
    <3>3. x \in Need(ins.uses[2], 1)
      BY <1>5, <2>2
    <3>4. ASSUME NEW u \in Uses(ins), NEW k \in 1 .. Bytes(u), NEW y \in Need(u, k)
          PROVE  ReadsOf({y}, u)
      BY <3>4, NeedsKnown
    <3> QED
      BY <3>1, <3>2, <3>3, <3>4
  <2> QED
    BY <2>1, <2>2 DEF Reads
<1>7. \A t \in 1 .. 2 : t = 1 \/ t = 2
  OBVIOUS
<1>8. \A v \in Across(b, i) \cap EverLive : \A k \in 1 .. Bytes(v) : ~Touches(p, locs[v][k])
  BY <1>1, <1>4, AcrossApart
<1>9. \A k \in 1 .. Bytes(d) : \E s \in 1 .. 2 :
         /\ Writes(sc[s], locs[d][k], k)
         /\ \A t \in s + 1 .. 2 : ~Touches(sc[t], locs[d][k])
  <2>1. 2 \in 1 .. 2 /\ 2 + 1 .. 2 = {}
    OBVIOUS
  <2> QED
    BY <1>3, <1>4, <2>1
<1>10. Good(sc, b, i)
  <2>1. \A t \in 1 .. 2 : IsPlain(sc[t]) /\ Reads(sc[t], ins)
    BY <1>3, <1>4, <1>5, <1>6, <1>7
  <2>2. \A t \in 1 .. 2 : \A v \in Across(b, i) \cap EverLive : \A k \in 1 .. Bytes(v) :
          ~Touches(sc[t], locs[v][k])
    BY <1>3, <1>5, <1>7, <1>8
  <2>3. \A s, t \in 1 .. 2 : s < t => \A x \in sc[t].needs : ~Touches(sc[s], x[1])
    BY <1>3, <1>5, <1>7
  <2> QED
    BY <1>3, <1>9, <2>1, <2>2, <2>3 DEF Good
<1> QED
  BY <1>2, <1>10

\* q puts bytes of d from the n-th on, one by one.
PutsFrom(q, d, n) ==
  /\ Bytes(d) - n \in Nat /\ q = [k \in 1 .. Bytes(d) - n |-> q[k]]
  /\ \A k \in 1 .. Bytes(d) - n :
       /\ n + k \in 1 .. Bytes(d)
       /\ q[k].needs = {} /\ IsPlain(q[k]) /\ Writes(q[k], locs[d][n + k], n + k)
       /\ \A l : Touches(q[k], l) <=> l = locs[d][n + k]

LEMMA PutFromKnown ==
  ASSUME Placement, NEW d \in EverLive, NEW n \in 0 .. Bytes(d)
  PROVE  PutsFrom(PutFrom(d, n), d, n)
<1> DEFINE q == PutFrom(d, n)
<1>1. Bytes(d) \in 1 .. 4
  BY HomeKnown
<1>2. Bytes(d) - n \in Nat /\ \A k \in 1 .. Bytes(d) - n : n + k \in 1 .. Bytes(d)
  BY <1>1
<1>3. q = [k \in 1 .. Bytes(d) - n |-> Do({}, PutAll(d, {n + k}))]
  BY DEF PutFrom, PutAll
<1> HIDE DEF q
<1>4. ASSUME NEW k \in 1 .. Bytes(d) - n
      PROVE  /\ q[k].needs = {} /\ IsPlain(q[k]) /\ Writes(q[k], locs[d][n + k], n + k)
             /\ \A l : Touches(q[k], l) <=> l = locs[d][n + k]
  <2>1. q[k] = Do({}, PutAll(d, {n + k}))
    BY <1>3
  <2> QED
    BY <1>2, <2>1, PutOne
<1>5. q = [k \in 1 .. Bytes(d) - n |-> q[k]]
  BY <1>3
<1>6. PutsFrom(q, d, n)
  BY <1>2, <1>4, <1>5 DEF PutsFrom
<1> QED
  BY <1>6 DEF q

\* The m steps of s only read, and the first may copy n bytes of d.
Begins(s, m, ins, d, n) ==
  /\ s = [k \in 1 .. m |-> s[k]]
  /\ \A t \in 1 .. m :
       /\ IsPlain(s[t]) /\ Reads(s[t], ins)
       /\ \A l : Touches(s[t], l) => t = 1 /\ \E k \in 1 .. n : l = locs[d][k]
  /\ \A t \in 2 .. m : \A x \in s[t].needs : ~Touches(s[1], x[1])
  /\ \A k \in 1 .. n : 1 <= m /\ Writes(s[1], locs[d][k], k)

\* Steps that only read or copy the first n bytes, then the other bytes of the result.
LEMMA GoodFrom ==
  ASSUME Placement, NEW b \in Blocks, NEW i \in 1 .. Size(b), NEW ins, ins = Insts(b)[i],
         ins.kind # "copy", NEW d \in EverLive, d = ins.def, NEW n \in 0 .. Bytes(d), NEW m \in Nat,
         NEW q, PutsFrom(q, d, n),
         NEW s, Begins(s, m, ins, d, n)
  PROVE  Good(s \o q, b, i)
<1> DEFINE sc == s \o q
           w == Bytes(d) - n
<1>1. Bytes(d) \in 1 .. 4 /\ d # 0
  BY HomeKnown
<1>0. /\ s = [k \in 1 .. m |-> s[k]]
      /\ \A t \in 1 .. m :
           /\ IsPlain(s[t]) /\ Reads(s[t], ins)
           /\ \A l : Touches(s[t], l) => t = 1 /\ \E k \in 1 .. n : l = locs[d][k]
      /\ \A t \in 2 .. m : \A x \in s[t].needs : ~Touches(s[1], x[1])
      /\ \A k \in 1 .. n : 1 <= m /\ Writes(s[1], locs[d][k], k)
  BY DEF Begins
<1>2. /\ w \in Nat /\ q = [k \in 1 .. w |-> q[k]]
      /\ \A k \in 1 .. w :
           /\ n + k \in 1 .. Bytes(d)
           /\ q[k].needs = {} /\ IsPlain(q[k]) /\ Writes(q[k], locs[d][n + k], n + k)
           /\ \A l : Touches(q[k], l) <=> l = locs[d][n + k]
  BY DEF PutsFrom
<1> HIDE DEF w
<1>3. /\ Len(sc) = m + w
      /\ \A k \in 1 .. m : sc[k] = s[k]
      /\ \A k \in 1 .. w : sc[m + k] = q[k]
  BY <1>0, <1>2, Chain
<1> HIDE DEF sc
<1>4. \A t \in 1 .. m + w : t \in 1 .. m \/ (t - m \in 1 .. w /\ t = m + (t - m))
  BY <1>2
<1>5. \A t \in 1 .. m + w : t \notin 1 .. m =>
        /\ sc[t].needs = {} /\ IsPlain(sc[t]) /\ n + (t - m) \in 1 .. Bytes(d)
        /\ \A l : Touches(sc[t], l) <=> l = locs[d][n + (t - m)]
  BY <1>2, <1>3, <1>4
<1>6. \A t \in 1 .. m + w : IsPlain(sc[t]) /\ Reads(sc[t], ins)
  BY <1>0, <1>3, <1>4, <1>5 DEF Reads
<1>7. \A t \in 1 .. m + w : \A l : Touches(sc[t], l) => \E k \in 1 .. Bytes(d) : l = locs[d][k]
  <2>1. \A k \in 1 .. n : k \in 1 .. Bytes(d)
    BY <1>1
  <2>2. ASSUME NEW t \in 1 .. m, NEW l, Touches(sc[t], l)
        PROVE  \E k \in 1 .. Bytes(d) : l = locs[d][k]
    <3>1. Touches(s[t], l)
      BY <1>3, <2>2
    <3>2. PICK k \in 1 .. n : l = locs[d][k]
      BY <1>0, <3>1
    <3> QED
      BY <2>1, <3>2
  <2>3. ASSUME NEW t \in 1 .. m + w, t \notin 1 .. m, NEW l, Touches(sc[t], l)
        PROVE  \E k \in 1 .. Bytes(d) : l = locs[d][k]
    BY <1>5, <2>3
  <2> QED
    BY <2>2, <2>3
<1>8. \A t \in 1 .. m + w : \A v \in Across(b, i) \cap EverLive : \A k \in 1 .. Bytes(v) :
        ~Touches(sc[t], locs[v][k])
  <2>1. \A v \in Across(b, i) \cap EverLive : \A j \in 1 .. Bytes(v), k \in 1 .. Bytes(d) :
          locs[v][j] # locs[d][k]
    BY <1>1, AcrossApart
  <2> QED
    BY <1>7, <2>1
<1>9. ASSUME NEW r \in 1 .. m + w, NEW t \in 1 .. m + w, r < t, NEW x \in sc[t].needs
      PROVE  ~Touches(sc[r], x[1])
  <2>1. t \in 1 .. m /\ r \in 1 .. m /\ t \in 2 .. m
    BY <1>2, <1>5, <1>9
  <2>2. x \in s[t].needs /\ sc[r] = s[r]
    BY <1>3, <1>9, <2>1
  <2> QED
    BY <1>0, <2>1, <2>2
<1>10. ASSUME NEW k \in 1 .. Bytes(d)
       PROVE  \E r \in 1 .. m + w : /\ Writes(sc[r], locs[d][k], k)
                                    /\ \A t \in r + 1 .. m + w : ~Touches(sc[t], locs[d][k])
  <2>1. CASE k <= n
    <3>1. k \in 1 .. n
      BY <1>1, <2>1
    <3>2. 1 \in 1 .. m /\ 1 \in 1 .. m + w /\ Writes(sc[1], locs[d][k], k)
      <4>1. 1 <= m /\ Writes(s[1], locs[d][k], k)
        BY <1>0, <3>1
      <4>2. 1 \in 1 .. m /\ 1 \in 1 .. m + w
        BY <1>2, <4>1
      <4> QED
        BY <1>3, <4>1, <4>2
    <3>3. ASSUME NEW t \in 1 + 1 .. m + w, Touches(sc[t], locs[d][k])
          PROVE  FALSE
      <4>1. t \in 1 .. m + w /\ t # 1
        BY <1>2
      <4>2. t \notin 1 .. m
        BY <1>0, <1>3, <3>3, <4>1
      <4>3. n + (t - m) \in 1 .. Bytes(d) /\ locs[d][k] = locs[d][n + (t - m)]
        BY <1>5, <3>3, <4>1, <4>2
      <4>4. k = n + (t - m)
        BY <4>3, HomesOwn
      <4> QED
        BY <1>2, <2>1, <4>1, <4>2, <4>4
    <3> QED
      BY <3>2, <3>3
  <2>2. CASE k > n
    <3>1. k - n \in 1 .. w /\ n + (k - n) = k
      BY <1>1, <2>2 DEF w
    <3>2. m + (k - n) \in 1 .. m + w /\ Writes(sc[m + (k - n)], locs[d][k], k)
      BY <1>2, <1>3, <3>1
    <3>3. ASSUME NEW t \in (m + (k - n)) + 1 .. m + w, Touches(sc[t], locs[d][k])
          PROVE  FALSE
      <4>1. t \in 1 .. m + w /\ t \notin 1 .. m
        BY <1>2, <3>1
      <4>2. n + (t - m) \in 1 .. Bytes(d) /\ locs[d][k] = locs[d][n + (t - m)]
        BY <1>5, <3>3, <4>1
      <4>3. k = n + (t - m)
        BY <4>2, HomesOwn
      <4> QED
        BY <1>1, <1>2, <4>1, <4>3
    <3> QED
      BY <3>2, <3>3
  <2> QED
    BY <1>1, <2>1, <2>2
<1>11. Good(sc, b, i)
  <2>1. Len(sc) = m + w /\ Len(sc) \in Nat
    BY <1>2, <1>3
  <2> QED
    BY <1>6, <1>8, <1>9, <1>10, <2>1 DEF Good
<1> QED
  BY <1>11 DEF sc

\* A list of two steps.
LEMMA Pair ==
  ASSUME NEW a, NEW c
  PROVE  /\ Len(<<a, c>>) = 2 /\ <<a, c>>[1] = a /\ <<a, c>>[2] = c
         /\ <<a, c>> = [k \in 1 .. 2 |-> <<a, c>>[k]]
OBVIOUS

\* Extension: the operand is copied, its sign perhaps read again, then the other bytes are put.
LEMMA GoodExt ==
  ASSUME Placement, NEW b \in Blocks, NEW i \in 1 .. Size(b), NEW ins, ins = Insts(b)[i],
         ins.kind \in {"ext", "sext"}
  PROVE  Good(ExtScript(ins), b, i)
<1> DEFINE d == ins.def
           a == ins.uses[1]
           n == Bytes(a)
           o == Copy(d, a, n)
           p == Do(IF ins.kind = "sext" THEN Need(a, n) ELSE {}, {})
           s == <<o, p>>
           q == PutFrom(d, n)
<1>1. /\ d # 0 /\ d \in EverLive /\ Bytes(d) \in 1 .. 4
      /\ a \in Uses(ins) /\ a \in EverLive /\ a # 0 /\ n \in 1 .. 4 /\ n <= Bytes(d)
      /\ ins.kind = "sext" => n # Bytes(d)
  <2>1. /\ d \in EverLive /\ d # 0 /\ Uses(ins) \subseteq EverLive /\ IsTyped(prog, ins)
        /\ Len(ins.uses) = 1 /\ a # 0
        /\ \A u \in 1 .. Len(ins.uses) : ins.uses[u] = 0 \/ ins.uses[u] \in Uses(ins)
    BY InsKnown DEF IsTyped
  <2>2. a \in Uses(ins) /\ a \in EverLive
    BY <2>1
  <2>3. n <= Bytes(d) /\ (ins.kind = "sext" => n # Bytes(d))
    BY <2>1 DEF IsTyped, Bytes
  <2> QED
    BY <2>1, <2>2, <2>3, HomeKnown
<1>2. ExtScript(ins) = s \o q
  BY DEF ExtScript
<1>3. /\ IsPlain(o) /\ ReadsOf(o.needs, a)
      /\ \A l : Touches(o, l) => \E k \in 1 .. n : l = locs[d][k]
      /\ \A k \in 1 .. n : Writes(o, locs[d][k], k)
  <2>1. n \in 1 .. Bytes(d) /\ n <= Bytes(a)
    BY <1>1
  <2> QED
    BY <1>1, <2>1, CopyKnown
<1>4. /\ p.needs = (IF ins.kind = "sext" THEN Need(a, n) ELSE {}) /\ IsPlain(p)
      /\ \A l : ~Touches(p, l)
  BY ReadKnown
<1>5. s[1] = o /\ s[2] = p /\ s = [k \in 1 .. 2 |-> s[k]]
  BY Pair
<1>6. PutsFrom(q, d, n)
  BY <1>1, PutFromKnown
<1> HIDE DEF o, p, s, q
<1>7. \A x \in p.needs : x = <<locs[a][n], a, n>> /\ ins.kind = "sext"
  BY <1>1, <1>4 DEF Need
<1>8. Reads(o, ins) /\ Reads(p, ins)
  BY <1>1, <1>3, <1>7 DEF Reads, ReadsOf
<1>9. \A x \in p.needs : ~Touches(o, x[1])
  <2> SUFFICES ASSUME NEW x \in p.needs, Touches(o, x[1])
               PROVE  FALSE
    OBVIOUS
  <2>1. ins.kind = "sext" /\ x[1] = locs[a][n] /\ n < Bytes(d)
    BY <1>1, <1>7
  <2>2. PICK k \in 1 .. n : locs[a][n] = locs[d][k]
    BY <1>3, <2>1
  <2>3. k \in 1 .. Bytes(d) /\ n \in 1 .. Bytes(a) /\ Bytes(d) > 1
    BY <1>1, <2>1
  <2>4. ins.kind \notin Loads \cup {"call"} /\ ins.kind \notin Bytewise
    BY <2>1 DEF Loads, Bytewise
  <2>5. a = d
    BY <1>1, <2>2, <2>3, <2>4, OperandApart
  <2> QED
    BY <1>1, <2>1, <2>5
<1>10. \A t \in 1 .. 2 : t = 1 \/ t = 2
  OBVIOUS
<1>11. \A t \in 1 .. 2 :
         /\ IsPlain(s[t]) /\ Reads(s[t], ins)
         /\ \A l : Touches(s[t], l) => t = 1 /\ \E k \in 1 .. n : l = locs[d][k]
  BY <1>3, <1>4, <1>5, <1>8, <1>10
<1>12. \A t \in 2 .. 2 : \A x \in s[t].needs : ~Touches(s[1], x[1])
  BY <1>5, <1>9
<1>13. \A k \in 1 .. n : 1 <= 2 /\ Writes(s[1], locs[d][k], k)
  BY <1>3, <1>5
<1>14. Good(s \o q, b, i)
  <2>1. n \in 0 .. Bytes(d) /\ ins.kind # "copy" /\ 2 \in Nat
    BY <1>1
  <2>3. Begins(s, 2, ins, d, n)
    BY <1>5, <1>11, <1>12, <1>13 DEF Begins
  <2> HIDE DEF d, n
  <2>2. d = ins.def
    BY DEF d
  <2> QED
    BY <1>1, <1>6, <2>1, <2>2, <2>3, GoodFrom
<1> QED
  BY <1>2, <1>14

\* A load through DPTR: the pointer is read, then the result is put.
LEMMA GoodLoad ==
  ASSUME Placement, NEW b \in Blocks, NEW i \in 1 .. Size(b), NEW ins, ins = Insts(b)[i],
         ins.kind = "load"
  PROVE  Good(<<Do(AllOf(ins), {})>> \o PutFrom(ins.def, 0), b, i)
<1> DEFINE d == ins.def
           o == Do(AllOf(ins), {})
           s == <<o>>
           q == PutFrom(d, 0)
<1>1. d # 0 /\ d \in EverLive /\ Bytes(d) \in 1 .. 4
  BY InsKnown, HomeKnown DEF IsTyped
<1>2. o.needs = AllOf(ins) /\ IsPlain(o) /\ \A l : ~Touches(o, l)
  BY ReadKnown
<1>3. s[1] = o /\ s = [k \in 1 .. 1 |-> s[k]]
  BY Single
<1>4. PutsFrom(q, d, 0)
  BY <1>1, PutFromKnown
<1> HIDE DEF o, s, q
<1>5. Reads(o, ins)
  BY <1>2, NeedsKnown DEF Reads
<1>6. \A t \in 1 .. 1 :
        /\ IsPlain(s[t]) /\ Reads(s[t], ins)
        /\ \A l : Touches(s[t], l) => t = 1 /\ \E k \in 1 .. 0 : l = locs[d][k]
  BY <1>2, <1>3, <1>5
<1>7. \A t \in 2 .. 1 : \A x \in s[t].needs : ~Touches(s[1], x[1])
  OBVIOUS
<1>8. \A k \in 1 .. 0 : 1 <= 1 /\ Writes(s[1], locs[d][k], k)
  OBVIOUS
<1>9. Good(s \o q, b, i)
  <2>1. 0 \in 0 .. Bytes(d) /\ ins.kind # "copy" /\ 1 \in Nat
    BY <1>1
  <2>3. Begins(s, 1, ins, d, 0)
    BY <1>3, <1>6, <1>7, <1>8 DEF Begins
  <2> HIDE DEF d
  <2>2. d = ins.def
    BY DEF d
  <2> QED
    BY <1>1, <1>4, <2>1, <2>2, <2>3, GoodFrom
<1> QED
  BY <1>9 DEF o, s, q

\* A load of one byte through a generic pointer.
LEMMA GoodGen ==
  ASSUME Placement, NEW b \in Blocks, NEW i \in 1 .. Size(b), NEW ins, ins = Insts(b)[i],
         ins.kind = "genload", Bytes(ins.def) = 1
  PROVE  Good(<<Do(NeedAll(ins.uses[1]), PutAll(ins.def, {1}))>>, b, i)
<1> DEFINE d == ins.def
           a == ins.uses[1]
           o == Do(NeedAll(a), PutAll(d, {1}))
<1>1. /\ d # 0 /\ d \in EverLive
      /\ a = 0 \/ a \in Uses(ins)
  <2>1. /\ d \in EverLive /\ d # 0 /\ Len(ins.uses) = 1
        /\ \A u \in 1 .. Len(ins.uses) : ins.uses[u] = 0 \/ ins.uses[u] \in Uses(ins)
    BY InsKnown DEF IsTyped
  <2> QED
    BY <2>1
<1>2. o = Do(NeedAll(a), PutAll(d, {1}))
  OBVIOUS
<1>3. 1 \in 1 .. Bytes(d) /\ \A k \in 1 .. Bytes(d) : k = 1
  OBVIOUS
<1>4. /\ o.needs = NeedAll(a) /\ IsPlain(o) /\ Writes(o, locs[d][1], 1)
      /\ \A l : Touches(o, l) <=> l = locs[d][1]
  BY <1>1, <1>2, <1>3, PutOne
<1> HIDE DEF o
<1>5. Reads(o, ins)
  <2> SUFFICES ASSUME NEW x \in o.needs
               PROVE  \E v \in Uses(ins) : ReadsOf({x}, v)
    BY DEF Reads
  <2>1. a \in Uses(ins)
    BY <1>1, <1>4 DEF NeedAll
  <2> QED
    BY <1>4, <2>1, NeedsKnown
<1>6. \A v \in Across(b, i) \cap EverLive : \A k \in 1 .. Bytes(v) : ~Touches(o, locs[v][k])
  BY <1>1, <1>3, <1>4, AcrossApart
<1>7. Good(<<o>>, b, i)
  BY <1>3, <1>4, <1>5, <1>6, GoodOne
<1> QED
  BY <1>2, <1>7

\* The registers that can point, one after the other.
LEMMA MaxIn ==
  ASSUME NEW S \in SUBSET PtrReg, S # {}
  PROVE  Max(S) \in S
<1>1. \E x \in S : \A y \in S : x >= y
  <2>1. CASE 1 \in S
    BY <2>1 DEF PtrReg
  <2>2. CASE 1 \notin S
    <3>1. \A y \in S : y = 0
      BY <2>2 DEF PtrReg
    <3> QED
      BY <3>1
  <2> QED
    BY <2>1, <2>2
<1> QED
  BY <1>1 DEF Max

\* Where an instruction needs a pointer register, there is one: the pointer's own, or one that
\* no value has which lives behind the instruction or is in the way.
LEMMA PointerFree ==
  ASSUME Placement, NEW b \in Blocks, NEW i \in 1 .. Size(b), NEW ins, ins = Insts(b)[i],
         IsAt(b, i), ins.kind \in {"ptrload", "ptrstore"}, NEW p, p = ins.uses[1],
         NEW extra, extra \subseteq {ins.def, 0} \cup Uses(ins)
  PROVE  /\ SetRptr(p, extra) # {} /\ SetRptr(p, extra) \subseteq PtrReg
         /\ ~(SetRptr(p, extra) \subseteq Own(p)) =>
              \A n \in SetRptr(p, extra) : \A u \in LiveBehind(b, i) \cup (extra \ {0}) :
                R(n) \notin Range(locs[u])
<1>1. /\ prog \in Programs /\ 0 \notin V /\ IsTyped(prog, ins) /\ Uses(ins) \subseteq EverLive
      /\ ins.def \in EverLive \cup {0} /\ EverLive \subseteq V
      /\ Recorded(b, i) /\ LiveBehind(b, i) \subseteq Across(b, i) \cup {ins.def}
      /\ LiveBehind(b, i) \subseteq V
      /\ \A u \in 1 .. Len(ins.uses) : ins.uses[u] = 0 \/ ins.uses[u] \in Uses(ins)
  BY InsKnown DEF EverLive, LiveBehind
<1>2. /\ Len(ins.uses) \in {1, 2} /\ (p # 0 => prog.size[p] = 1)
      /\ p = 0 \/ p \in Uses(ins)
  BY <1>1 DEF IsTyped
<1>3. p # 0 => p \in EverLive /\ Bytes(p) = 1 /\ p \in V
  BY <1>1, <1>2 DEF Bytes, Width
<1> DEFINE s == [base |-> p, live |-> Across(b, i) \cup ({ins.def} \ {0}) \cup (Uses(ins) \ {p})]
<1>4. s \in sites
  BY <1>1 DEF Recorded, Site
<1>5. Pointing(s) \/ Bare(s)
  BY <1>4 DEF Placement, AllocInv, SitesFree, Later
<1>6. /\ s.base = p
      /\ \A u : u \in s.live <=> u \in Across(b, i) \cup ({ins.def} \ {0}) \cup (Uses(ins) \ {p})
  OBVIOUS
<1> HIDE DEF s
<1>7. Busy(extra) = RegsOf(LiveBehind(b, i) \cup (extra \ {0}))
  BY <1>1 DEF Busy, Recorded, IsAt
<1>8. \A u \in V : \A r : R(r) \in Range(locs[u]) => \E k : Sits(u, k, R(r))
  <2> SUFFICES ASSUME NEW u \in V, NEW r, R(r) \in Range(locs[u])
               PROVE  \E k : Sits(u, k, R(r))
    OBVIOUS
  <2>1. PICK k \in DOMAIN locs[u] : locs[u][k] = R(r)
    BY DEF Range
  <2> QED
    BY <2>1, HomesDiffer DEF Sits, Spilled
<1>9. Own(p) \subseteq PtrReg
  BY DEF Own
<1>10. CASE Own(p) # {}
  BY <1>9, <1>10 DEF SetRptr
<1>11. CASE Own(p) = {}
  <2>1. SetRptr(p, extra) = PtrReg \ Busy(extra)
    BY <1>11 DEF SetRptr
  <2>2. ~Pointing(s)
    BY <1>3, <1>6, <1>11 DEF Pointing, Own, Sits
  <2>3. PICK r \in PtrReg : \A u \in s.live : \A k : ~Sits(u, k, R(r))
    BY <1>5, <2>2 DEF Bare
  <2>4. ASSUME NEW u \in LiveBehind(b, i) \cup (extra \ {0}), R(r) \in Range(locs[u])
        PROVE  FALSE
    <3>1. u \in V /\ u # 0 /\ u \in s.live \cup {p}
      BY <1>1, <1>6, <2>4
    <3>2. PICK k : Sits(u, k, R(r))
      BY <1>8, <2>4, <3>1
    <3>3. u = p
      BY <2>3, <3>1, <3>2
    <3>4. k \in 1 .. Bytes(p) /\ locs[p][k] = R(r)
      BY <1>3, <3>1, <3>2, <3>3, HomeKnown DEF Sits
    <3>5. locs[p][1] = R(r)
      BY <1>3, <3>1, <3>3, <3>4
    <3> QED
      BY <1>11, <3>1, <3>3, <3>5 DEF Own
  <2>5. r \notin Busy(extra)
    BY <1>7, <2>4 DEF RegsOf
  <2>6. PtrReg \subseteq Reg
    BY ConstantsAssumption
  <2>7. \A n \in PtrReg \ Busy(extra) : \A u \in LiveBehind(b, i) \cup (extra \ {0}) :
          R(n) \notin Range(locs[u])
    BY <1>7, <2>6 DEF RegsOf
  <2> QED
    BY <2>1, <2>3, <2>5, <2>7
<1> QED
  BY <1>10, <1>11

\* A step that points with one of some registers.
LEMMA PointKnown ==
  ASSUME NEW p, NEW regs \in SUBSET PtrReg, regs # {}, NEW o, o = Point(p, regs)
  PROVE  /\ IsPlain(o) /\ o.needs = NeedAll(p)
         /\ \A l : Touches(o, l) => ~(regs \subseteq Own(p)) /\ \E n \in regs : l = R(n)
<1>1. /\ o.needs = NeedAll(p) /\ o.ready = TRUE /\ o.push = {} /\ o.pop = FALSE /\ o.puts = {}
      /\ o.moves = <<>>
      /\ o.ruins = IF regs \subseteq Own(p) THEN {} ELSE {R(Max(regs))}
  BY DEF Point, Nop
<1>2. 1 .. Len(o.moves) = {} /\ o.moves \in P!Batches
  BY <1>1, NoMoves
<1>3. Max(regs) \in regs
  BY MaxIn
<1> QED
  BY <1>1, <1>2, <1>3 DEF IsPlain, Touches

\* A store through R0 or R1: it points, then it reads the bytes of the value.
LEMMA GoodStorePtr ==
  ASSUME Placement, NEW b \in Blocks, NEW i \in 1 .. Size(b), NEW ins, ins = Insts(b)[i],
         IsAt(b, i), ins.kind = "ptrstore"
  PROVE  Good(StorePtr(ins), b, i)
<1> DEFINE p == ins.uses[1]
           v == ins.uses[2]
           n == IF v = 0 THEN 1 ELSE Bytes(v)
           regs == SetRptr(p, {v})
           o == Point(p, regs)
           q == [k \in 1 .. n |-> Do(Need(v, k), {})]
           sc == <<o>> \o q
<1>1. /\ ins.def = 0 /\ Uses(ins) \subseteq EverLive
      /\ p = 0 \/ p \in Uses(ins)
      /\ v = 0 \/ v \in Uses(ins)
      /\ n \in Nat
  <2>1. /\ ins.def = 0 /\ Len(ins.uses) = 2 /\ Uses(ins) \subseteq EverLive
        /\ \A u \in 1 .. Len(ins.uses) : ins.uses[u] = 0 \/ ins.uses[u] \in Uses(ins)
    BY InsKnown DEF IsTyped
  <2>2. v # 0 => Bytes(v) \in 1 .. 4
    BY <2>1, HomeKnown
  <2> QED
    BY <2>1, <2>2
<1>2. {v} \subseteq {ins.def, 0} \cup Uses(ins)
  BY <1>1
<1>3. /\ regs # {} /\ regs \subseteq PtrReg
      /\ ~(regs \subseteq Own(p)) =>
           \A r \in regs : \A u \in LiveBehind(b, i) \cup ({v} \ {0}) : R(r) \notin Range(locs[u])
  <2> DEFINE extra == {v}
  <2>1. extra \subseteq {ins.def, 0} \cup Uses(ins) /\ regs = SetRptr(p, extra) /\ p = ins.uses[1]
    BY <1>2
  <2> HIDE DEF extra, regs, p
  <2>2. /\ SetRptr(p, extra) # {} /\ SetRptr(p, extra) \subseteq PtrReg
        /\ ~(SetRptr(p, extra) \subseteq Own(p)) =>
             \A r \in SetRptr(p, extra) : \A u \in LiveBehind(b, i) \cup (extra \ {0}) :
               R(r) \notin Range(locs[u])
    <3>1. ins.kind \in {"ptrload", "ptrstore"}
      OBVIOUS
    <3> QED
      BY <2>1, <3>1, PointerFree
  <2> QED
    BY <2>1, <2>2 DEF extra
<1>4. StorePtr(ins) = sc
  BY DEF StorePtr
<1>5. o = Point(p, regs) /\ \A k \in 1 .. n : q[k] = Do(Need(v, k), {})
  OBVIOUS
<1>6. q = [k \in 1 .. n |-> q[k]]
  OBVIOUS
<1> HIDE DEF q, o, regs, n
<1>7. /\ IsPlain(o) /\ o.needs = NeedAll(p)
      /\ \A l : Touches(o, l) => ~(regs \subseteq Own(p)) /\ \E r \in regs : l = R(r)
  BY <1>3, <1>5, PointKnown
<1>8. \A k \in 1 .. n : q[k].needs = Need(v, k) /\ IsPlain(q[k]) /\ \A l : ~Touches(q[k], l)
  BY <1>5, ReadKnown
<1>9. <<o>> = [k \in 1 .. 1 |-> <<o>>[k]] /\ <<o>>[1] = o
  BY Single
<1>10. Len(sc) = 1 + n /\ \A k \in 1 .. 1 : sc[k] = <<o>>[k]
  BY <1>1, <1>6, <1>9, Chain
<1>11. \A k \in 1 .. n : sc[1 + k] = q[k]
  BY <1>1, <1>6, <1>9, Chain
<1> HIDE DEF sc
<1>12. \A t \in 1 .. Len(sc) : (t = 1 /\ sc[t] = o) \/ (t - 1 \in 1 .. n /\ t = 1 + (t - 1) /\ sc[t] = q[t - 1])
  <2> SUFFICES ASSUME NEW t \in 1 .. Len(sc), t # 1
               PROVE  t - 1 \in 1 .. n /\ t = 1 + (t - 1) /\ sc[t] = q[t - 1]
    BY <1>9, <1>10
  <2>1. t - 1 \in 1 .. n /\ t = 1 + (t - 1)
    BY <1>1, <1>10
  <2> QED
    BY <1>11, <2>1
<1>13. \A u \in EverLive : \A k \in 1 .. Bytes(u) : locs[u][k] \in Range(locs[u])
  BY HomeKnown DEF Range
<1>14. \A k \in 1 .. n : \A x \in Need(v, k) : v \in Uses(ins) /\ k \in 1 .. Bytes(v) /\ x = <<locs[v][k], v, k>>
  BY <1>1 DEF Need, n
<1>15. \A t \in 1 .. Len(sc) : Reads(sc[t], ins)
  <2>1. Reads(o, ins)
    <3> SUFFICES ASSUME NEW x \in o.needs
                 PROVE  \E u \in Uses(ins) : ReadsOf({x}, u)
      BY DEF Reads
    <3>1. p \in Uses(ins)
      BY <1>1, <1>7 DEF NeedAll
    <3> QED
      BY <1>7, <3>1, NeedsKnown
  <2>2. ASSUME NEW k \in 1 .. n
        PROVE  Reads(q[k], ins)
    BY <1>8, <1>14 DEF Reads, ReadsOf, Uses
  <2> QED
    BY <1>12, <2>1, <2>2
<1>16. \A t \in 1 .. Len(sc) : IsPlain(sc[t])
  BY <1>7, <1>8, <1>12
<1>17. \A u \in (LiveBehind(b, i) \cup ({v} \ {0})) \cap EverLive : \A k \in 1 .. Bytes(u) : ~Touches(o, locs[u][k])
  BY <1>3, <1>7, <1>13
<1>18. \A t \in 1 .. Len(sc) : \A u \in Across(b, i) \cap EverLive : \A k \in 1 .. Bytes(u) :
         ~Touches(sc[t], locs[u][k])
  <2>1. Across(b, i) \subseteq LiveBehind(b, i)
    BY DEF Across
  <2> QED
    BY <1>8, <1>12, <1>17, <2>1
<1>19. ASSUME NEW r \in 1 .. Len(sc), NEW t \in 1 .. Len(sc), r < t, NEW x \in sc[t].needs
       PROVE  ~Touches(sc[r], x[1])
  <2>1. t - 1 \in 1 .. n /\ sc[t] = q[t - 1]
    BY <1>1, <1>10, <1>12, <1>19
  <2>2. v \in Uses(ins) /\ t - 1 \in 1 .. Bytes(v) /\ x = <<locs[v][t - 1], v, t - 1>>
    BY <1>8, <1>14, <1>19, <2>1
  <2>3. v \in {v} \ {0} /\ v \in EverLive
    BY <1>1, <2>2 DEF Uses
  <2>4. ~Touches(o, locs[v][t - 1])
    BY <1>17, <2>2, <2>3
  <2> QED
    BY <1>8, <1>12, <2>2, <2>4
<1>20. Good(sc, b, i)
  <2>1. Len(sc) \in Nat
    BY <1>1, <1>10
  <2> QED
    BY <1>1, <1>15, <1>16, <1>18, <1>19, <2>1 DEF Good
<1> QED
  BY <1>4, <1>20

\* A load through R0 or R1: it points, with a register of the result if there is no other,
\* then the bytes of the result are put, the one of the register that points at last.
LEMMA GoodLoadPtr ==
  ASSUME Placement, NEW b \in Blocks, NEW i \in 1 .. Size(b), NEW ins, ins = Insts(b)[i],
         IsAt(b, i), ins.kind = "ptrload"
  PROVE  Good(LoadPtr(ins), b, i)
<1> DEFINE p == ins.uses[1]
           d == ins.def
           n == Bytes(d)
           regs == LoadRegs(ins)
           w == Waiting(ins)
           o == Point(p, regs)
           q == [k \in 1 .. n |-> Do({}, PutAll(d, {k} \ w))]
           z == Do({}, PutAll(d, w))
           s == <<o>> \o q
           sc == s \o <<z>>
<1>1. /\ d # 0 /\ d \in EverLive /\ n \in 1 .. 4
      /\ p = 0 \/ p \in Uses(ins)
  <2>1. /\ d # 0 /\ d \in EverLive /\ Len(ins.uses) = 1
        /\ \A u \in 1 .. Len(ins.uses) : ins.uses[u] = 0 \/ ins.uses[u] \in Uses(ins)
    BY InsKnown DEF IsTyped
  <2>2. n \in 1 .. 4
    BY <2>1, HomeKnown
  <2> QED
    BY <2>1, <2>2
<1>2. \A u \in EverLive : \A k \in 1 .. Bytes(u) : locs[u][k] \in Range(locs[u])
  BY HomeKnown DEF Range
<1>3. /\ regs # {} /\ regs \subseteq PtrReg
      /\ ~(regs \subseteq Own(p)) => \A r \in regs : \A u \in Across(b, i) \cap EverLive :
           \A k \in 1 .. Bytes(u) : locs[u][k] # R(r)
  <2> DEFINE dest == {r \in PtrReg : R(r) \in Range(locs[d])}
             extra == IF n > 1 THEN {d} ELSE {}
  <2>1. extra \subseteq {ins.def, 0} \cup Uses(ins) /\ p = ins.uses[1]
    OBVIOUS
  <2>2. regs = dest \/ regs = SetRptr(p, extra)
    BY DEF LoadRegs
  <2>3. regs = dest => dest # {} \/ regs = SetRptr(p, extra)
    BY DEF LoadRegs
  <2>4. Across(b, i) \subseteq LiveBehind(b, i)
    BY DEF Across
  <2> HIDE DEF extra, regs, p
  <2>5. /\ SetRptr(p, extra) # {} /\ SetRptr(p, extra) \subseteq PtrReg
        /\ ~(SetRptr(p, extra) \subseteq Own(p)) =>
             \A r \in SetRptr(p, extra) : \A u \in LiveBehind(b, i) \cup (extra \ {0}) :
               R(r) \notin Range(locs[u])
    <3>1. ins.kind \in {"ptrload", "ptrstore"}
      OBVIOUS
    <3> QED
      BY <2>1, <3>1, PointerFree, ZenonT(20)
  <2>6. CASE regs = SetRptr(p, extra)
    BY <1>2, <2>4, <2>5, <2>6
  <2>7. CASE regs = dest /\ dest # {}
    <3>1. ASSUME NEW r \in regs, NEW u \in Across(b, i) \cap EverLive, NEW k \in 1 .. Bytes(u),
                 locs[u][k] = R(r)
          PROVE  FALSE
      <4>1. PICK j \in DOMAIN locs[d] : locs[d][j] = R(r)
        BY <2>7, <3>1 DEF Range
      <4>2. j \in 1 .. Bytes(d)
        BY <1>1, <4>1, HomeKnown
      <4> QED
        BY <1>1, <3>1, <4>1, <4>2, AcrossApart
    <3> QED
      BY <2>7, <3>1
  <2> QED
    BY <2>2, <2>3, <2>6, <2>7
<1>4. LoadPtr(ins) = sc
  BY DEF LoadPtr
<1>5. w \subseteq 1 .. n
  BY DEF Waiting
<1>6. /\ o = Point(p, regs) /\ \A k \in 1 .. n : q[k] = Do({}, PutAll(d, {k} \ w))
      /\ z = Do({}, PutAll(d, w)) /\ q = [k \in 1 .. n |-> q[k]]
  OBVIOUS
<1> HIDE DEF q, o, z, regs, w
<1>7. /\ IsPlain(o) /\ o.needs = NeedAll(p)
      /\ \A l : Touches(o, l) => ~(regs \subseteq Own(p)) /\ \E r \in regs : l = R(r)
  BY <1>3, <1>6, PointKnown
<1>8. ASSUME NEW k \in 1 .. n
      PROVE  /\ q[k].needs = {} /\ IsPlain(q[k])
             /\ \A l : Touches(q[k], l) => k \notin w /\ l = locs[d][k]
             /\ k \notin w => Writes(q[k], locs[d][k], k)
  <2> DEFINE ks == {k} \ w
  <2>1. ks \in SUBSET (1 .. Bytes(d)) /\ q[k] = Do({}, PutAll(d, ks)) /\ \A j : j \in ks <=> j = k /\ k \notin w
    BY <1>6
  <2> HIDE DEF ks
  <2>2. /\ q[k].needs = {} /\ IsPlain(q[k])
        /\ \A l : Touches(q[k], l) <=> \E j \in ks : l = locs[d][j]
        /\ \A j \in ks : Writes(q[k], locs[d][j], j)
    BY <1>1, <2>1, PutKnown
  <2> QED
    BY <2>1, <2>2
<1>9. /\ z.needs = {} /\ IsPlain(z)
      /\ \A l : Touches(z, l) <=> \E k \in w : l = locs[d][k]
      /\ \A k \in w : Writes(z, locs[d][k], k)
  BY <1>1, <1>5, <1>6, PutKnown
<1>10. <<o>> = [k \in 1 .. 1 |-> <<o>>[k]] /\ <<o>>[1] = o /\ <<z>> = [k \in 1 .. 1 |-> <<z>>[k]] /\ <<z>>[1] = z
  BY Single
<1>11. /\ Len(s) = 1 + n /\ s = [k \in 1 .. 1 + n |-> s[k]] /\ s[1] = o
       /\ \A k \in 1 .. n : s[1 + k] = q[k]
  <2>1. n \in Nat /\ 1 \in Nat /\ 1 \in 1 .. 1
    BY <1>1
  <2>2. /\ Len(s) = 1 + n /\ s = [k \in 1 .. 1 + n |-> s[k]]
        /\ \A k \in 1 .. 1 : s[k] = <<o>>[k]
        /\ \A k \in 1 .. n : s[1 + k] = q[k]
    BY <1>6, <1>10, <2>1, Chain
  <2> QED
    BY <1>10, <2>1, <2>2
<1> HIDE DEF s
<1>12. /\ Len(sc) = n + 2 /\ sc[1] = o /\ sc[n + 2] = z
       /\ \A k \in 1 .. n : sc[1 + k] = q[k]
  <2>1. 1 + n \in Nat /\ 1 \in Nat /\ 1 \in 1 .. 1 + n /\ \A k \in 1 .. n : 1 + k \in 1 .. 1 + n
    BY <1>1
  <2>2. /\ Len(sc) = (1 + n) + 1
        /\ \A k \in 1 .. 1 + n : sc[k] = s[k]
        /\ \A k \in 1 .. 1 : sc[(1 + n) + k] = <<z>>[k]
    BY <1>10, <1>11, <2>1, Chain
  <2>3. (1 + n) + 1 = n + 2 /\ 1 \in 1 .. 1
    BY <1>1
  <2> QED
    BY <1>10, <1>11, <2>1, <2>2, <2>3
<1> HIDE DEF sc
<1>13. \A t \in 1 .. Len(sc) : \/ (t = 1 /\ sc[t] = o)
                              \/ (t = n + 2 /\ sc[t] = z)
                              \/ (t - 1 \in 1 .. n /\ sc[t] = q[t - 1])
  <2> SUFFICES ASSUME NEW t \in 1 .. Len(sc), ~(t = 1 /\ sc[t] = o), ~(t = n + 2 /\ sc[t] = z)
               PROVE  t - 1 \in 1 .. n /\ sc[t] = q[t - 1]
    OBVIOUS
  <2>0. t # 1 /\ t # n + 2
    BY <1>12
  <2>1. t - 1 \in 1 .. n /\ t = 1 + (t - 1)
    BY <1>1, <1>12, <2>0
  <2> QED
    BY <1>12, <2>1
<1>14. Reads(o, ins)
  <2> SUFFICES ASSUME NEW x \in o.needs
               PROVE  \E u \in Uses(ins) : ReadsOf({x}, u)
    BY DEF Reads
  <2>1. p \in Uses(ins)
    BY <1>1, <1>7 DEF NeedAll
  <2> QED
    BY <1>7, <2>1, NeedsKnown
<1>15. \A t \in 1 .. Len(sc) : IsPlain(sc[t]) /\ Reads(sc[t], ins) /\ (t # 1 => sc[t].needs = {})
  BY <1>7, <1>8, <1>9, <1>13, <1>14 DEF Reads
<1>16. \A u \in Across(b, i) \cap EverLive : \A k \in 1 .. Bytes(u) : ~Touches(o, locs[u][k])
  BY <1>3, <1>7
<1>17. \A u \in Across(b, i) \cap EverLive : \A j \in 1 .. Bytes(u), k \in 1 .. Bytes(d) :
         locs[u][j] # locs[d][k]
  BY <1>1, AcrossApart
<1>18. \A t \in 1 .. Len(sc) : \A u \in Across(b, i) \cap EverLive : \A k \in 1 .. Bytes(u) :
         ~Touches(sc[t], locs[u][k])
  <2>1. ASSUME NEW u \in Across(b, i) \cap EverLive, NEW k \in 1 .. Bytes(u)
        PROVE  ~Touches(z, locs[u][k])
    BY <1>5, <1>9, <1>17
  <2>2. ASSUME NEW u \in Across(b, i) \cap EverLive, NEW k \in 1 .. Bytes(u), NEW j \in 1 .. n
        PROVE  ~Touches(q[j], locs[u][k])
    BY <1>8, <1>17
  <2> QED
    BY <1>13, <1>16, <2>1, <2>2
<1>19. \A r, t \in 1 .. Len(sc) : r < t => \A x \in sc[t].needs : ~Touches(sc[r], x[1])
  <2> SUFFICES ASSUME NEW r \in 1 .. Len(sc), NEW t \in 1 .. Len(sc), r < t
               PROVE  sc[t].needs = {}
    OBVIOUS
  <2>1. t # 1
    BY <1>1, <1>12
  <2> QED
    BY <1>15, <2>1
<1>20. ASSUME NEW k \in 1 .. n
       PROVE  \E r \in 1 .. Len(sc) :
                /\ Writes(sc[r], locs[d][k], k)
                /\ \A t \in r + 1 .. Len(sc) : ~Touches(sc[t], locs[d][k])
  <2>1. CASE k \in w
    <3>1. n + 2 \in 1 .. Len(sc) /\ (n + 2) + 1 .. Len(sc) = {} /\ Writes(sc[n + 2], locs[d][k], k)
      BY <1>1, <1>9, <1>12, <2>1
    <3> QED
      BY <3>1
  <2>2. CASE k \notin w
    <3>1. 1 + k \in 1 .. Len(sc) /\ Writes(sc[1 + k], locs[d][k], k)
      BY <1>1, <1>8, <1>12, <2>2
    <3>2. ASSUME NEW t \in (1 + k) + 1 .. Len(sc), Touches(sc[t], locs[d][k])
          PROVE  FALSE
      <4>1. t \in 1 .. Len(sc) /\ t # 1 /\ t - 1 # k
        BY <1>1, <1>12
      <4>2. CASE sc[t] = z
        <5>1. PICK j \in w : locs[d][k] = locs[d][j]
          BY <1>9, <3>2, <4>2
        <5> QED
          BY <1>1, <1>5, <2>2, <5>1, HomesOwn
      <4>3. CASE t - 1 \in 1 .. n /\ sc[t] = q[t - 1]
        <5>1. locs[d][k] = locs[d][t - 1]
          BY <1>8, <3>2, <4>3
        <5> QED
          BY <1>1, <4>1, <4>3, <5>1, HomesOwn
      <4> QED
        BY <1>13, <4>1, <4>2, <4>3
    <3> QED
      BY <3>1, <3>2
  <2> QED
    BY <2>1, <2>2
<1>21. Good(sc, b, i)
  <2>1. Len(sc) \in Nat
    BY <1>1, <1>12
  <2> QED
    BY <1>15, <1>18, <1>19, <1>20, <2>1 DEF Good
<1> QED
  BY <1>4, <1>21

\* The script of everything but a call.
LEMMA GoodScript ==
  ASSUME Placement, NEW b \in Blocks, NEW i \in 1 .. Size(b), NEW ins, ins = Insts(b)[i],
         IsAt(b, i), ins.kind \notin {"call", "helper"},
         ins.kind = "genload" => Bytes(ins.def) = 1
  PROVE  Good(Script, b, i)
<1>1. ins = Insts(pc[1])[pc[2]]
  BY DEF IsAt
<1>2. ins.kind \in Kind
  BY InsKnown DEF Insn
<1>3. CASE ins.kind = "ptrload"
  <2>1. Script = LoadPtr(ins)
    BY <1>1, <1>3 DEF Script
  <2> QED
    BY <1>3, <2>1, GoodLoadPtr
<1>4. CASE ins.kind = "ptrstore"
  <2>1. Script = StorePtr(ins)
    BY <1>1, <1>4 DEF Script
  <2> QED
    BY <1>4, <2>1, GoodStorePtr
<1>5. CASE ins.kind \notin {"ptrload", "ptrstore"}
  <2>0. Script = ScriptOf(ins)
    BY <1>1, <1>5 DEF Script
  <2>1. CASE ins.kind \in {"copy", "trunc"}
    <3>1. Script = <<Copy(ins.def, ins.uses[1], Bytes(ins.def))>>
      BY <2>0, <2>1 DEF ScriptOf
    <3> QED
      BY <2>1, <3>1, GoodCopy
  <2>2. CASE ins.kind = "same"
    <3>1. Script = SameScript(ins)
      BY <2>0, <2>2 DEF ScriptOf
    <3> QED
      BY <2>2, <3>1, GoodSame
  <2>3. CASE ins.kind = "any"
    <3>1. Script = AnyScript(ins)
      BY <2>0, <2>3 DEF ScriptOf
    <3> QED
      BY <2>3, <3>1, GoodAny
  <2>4. CASE ins.kind = "left"
    <3>1. Script = MuxScript(ins, 2)
      BY <2>0, <2>4 DEF ScriptOf
    <3> QED
      BY <2>4, <3>1, GoodMux
  <2>5. CASE ins.kind = "right"
    <3>1. Script = MuxScript(ins, 1)
      BY <2>0, <2>5 DEF ScriptOf
    <3> QED
      BY <2>5, <3>1, GoodMux
  <2>6. CASE ins.kind = "shift"
    <3>1. Script = ShiftScript(ins)
      BY <2>0, <2>6 DEF ScriptOf
    <3> QED
      BY <2>6, <3>1, GoodShift
  <2>7. CASE ins.kind \in {"ext", "sext"}
    <3>1. Script = ExtScript(ins)
      BY <2>0, <2>7 DEF ScriptOf
    <3> QED
      BY <2>7, <3>1, GoodExt
  <2>8. CASE ins.kind = "load"
    <3>1. Script = <<Do(AllOf(ins), {})>> \o PutFrom(ins.def, 0)
      BY <2>0, <2>8 DEF ScriptOf, LoadScript
    <3> QED
      BY <2>8, <3>1, GoodLoad
  <2>9. CASE ins.kind = "genload"
    <3>1. Bytes(ins.def) = 1
      BY <2>9
    <3>2. Script = [k \in 1 .. 1 |-> Do(NeedAll(ins.uses[1]), PutAll(ins.def, {k}))]
      BY <2>0, <2>9, <3>1 DEF ScriptOf, LoadScript, Each, PutAll
    <3>3. Script = <<Do(NeedAll(ins.uses[1]), PutAll(ins.def, {1}))>>
      BY <3>2
    <3> QED
      BY <2>9, <3>1, <3>3, GoodGen
  <2>10. CASE ins.kind = "asm"
    <3>1. Script = <<[Nop EXCEPT !.ruins = {R(n) : n \in Reg}]>>
      BY <2>0, <2>10 DEF ScriptOf
    <3> QED
      BY <2>10, <3>1, GoodAsm
  <2>11. CASE ins.kind = "use"
    <3>1. Script = <<Do(AllOf(ins), {})>>
      BY <2>0, <2>11 DEF ScriptOf
    <3> QED
      BY <2>11, <3>1, GoodUse
  <2> QED
    BY <1>2, <1>5, <2>1, <2>2, <2>3, <2>4, <2>5, <2>6, <2>7, <2>8, <2>9, <2>10, <2>11
       DEF Kind, Bytewise, Loads
<1> QED
  BY <1>3, <1>4, <1>5

\* The script of an instruction stays as it is while the instruction does.
LEMMA ScriptSame ==
  ASSUME UNCHANGED <<prog, locs, after, pc>>
  PROVE  Script' = Script
BY DEF Script, LoadPtr, StorePtr, Call, ScriptOf, SameScript, AnyScript, MuxScript, ShiftScript,
  ExtScript, LoadScript, Each, PutFrom, AllOf, NeedAll, NeedEach, Need, Put, PutAll, Do, Nop, Copy,
  Source, Busy, Own, SetRptr, Point, LoadRegs, Waiting, SaveSlots, PassArgs, Callee, TakeResult,
  ResultMoves, ArgMoves, ArgMove, Passed, InTurn, Upto, SlotsOf, Insts, Bytes, Width, RegsOf

-----------------------------------------------------------------------------
(***************************************************************************)
(* Calls: the order of the moves, and what the steps of a call are.        *)
(***************************************************************************)
LEMMA UptoGrows ==
  ASSUME NEW S \in SUBSET (Nat \X Nat), IsFiniteSet(S), NEW x \in S, NEW y \in S,
         x[1] < y[1] \/ (x[1] = y[1] /\ x[2] < y[2])
  PROVE  Cardinality(Upto(S, x)) < Cardinality(Upto(S, y))
<1>1. \A z \in S : z[1] \in Nat /\ z[2] \in Nat
  OBVIOUS
<1>2. Upto(S, x) \subseteq Upto(S, y)
  BY <1>1 DEF Upto
<1>3. y \in Upto(S, y) /\ y \notin Upto(S, x)
  BY <1>1 DEF Upto
<1>4. Upto(S, y) \in SUBSET S
  BY DEF Upto
<1>5. IsFiniteSet(Upto(S, y))
  BY <1>4, FS_Subset
<1>6. Upto(S, x) \in SUBSET Upto(S, y)
  BY <1>2
<1>7. /\ IsFiniteSet(Upto(S, x)) /\ Cardinality(Upto(S, x)) <= Cardinality(Upto(S, y))
      /\ Cardinality(Upto(S, y)) # Cardinality(Upto(S, x))
  BY <1>3, <1>5, <1>6, FS_Subset
<1>8. Cardinality(Upto(S, x)) \in Nat /\ Cardinality(Upto(S, y)) \in Nat
  BY <1>5, <1>7, FS_CardinalityType
<1> QED
  BY <1>7, <1>8

\* InTurn(S) lists every element of S once.
LEMMA InTurnKnown ==
  ASSUME NEW S \in SUBSET (Nat \X Nat), IsFiniteSet(S)
  PROVE  /\ Cardinality(S) \in Nat
         /\ \A n \in 1 .. Cardinality(S) : InTurn(S)[n] \in S
         /\ \A m, n \in 1 .. Cardinality(S) : InTurn(S)[m] = InTurn(S)[n] => m = n
         /\ \A x \in S : \E n \in 1 .. Cardinality(S) : InTurn(S)[n] = x
<1> DEFINE c == Cardinality(S)
           f == [x \in S |-> Cardinality(Upto(S, x))]
<1>1. c \in Nat
  BY FS_CardinalityType
<1>2. ASSUME NEW x \in S
      PROVE  f[x] \in 1 .. c
  <2>1. Upto(S, x) \in SUBSET S /\ x \in Upto(S, x)
    BY DEF Upto
  <2>2. IsFiniteSet(Upto(S, x)) /\ Cardinality(Upto(S, x)) <= c
    BY <2>1, FS_Subset
  <2>3. Cardinality(Upto(S, x)) \in Nat /\ Cardinality(Upto(S, x)) # 0
    BY <2>1, <2>2, FS_CardinalityType, FS_EmptySet
  <2> QED
    BY <1>1, <2>2, <2>3
<1>3. ASSUME NEW x \in S, NEW y \in S, f[x] = f[y]
      PROVE  x = y
  <2>1. Cardinality(Upto(S, x)) = Cardinality(Upto(S, y)) /\ f[x] \in Nat
    BY <1>1, <1>2, <1>3
  <2>2. ~(x[1] < y[1] \/ (x[1] = y[1] /\ x[2] < y[2]))
    <3> SUFFICES ASSUME x[1] < y[1] \/ (x[1] = y[1] /\ x[2] < y[2])
                 PROVE  FALSE
      OBVIOUS
    <3>1. Cardinality(Upto(S, x)) < Cardinality(Upto(S, y))
      BY UptoGrows
    <3> QED
      BY <2>1, <3>1
  <2>3. ~(y[1] < x[1] \/ (y[1] = x[1] /\ y[2] < x[2]))
    <3> SUFFICES ASSUME y[1] < x[1] \/ (y[1] = x[1] /\ y[2] < x[2])
                 PROVE  FALSE
      OBVIOUS
    <3>1. Cardinality(Upto(S, y)) < Cardinality(Upto(S, x))
      BY UptoGrows
    <3> QED
      BY <2>1, <3>1
  <2>4. x = <<x[1], x[2]>> /\ y = <<y[1], y[2]>> /\ x[1] \in Nat /\ x[2] \in Nat /\ y[1] \in Nat /\ y[2] \in Nat
    OBVIOUS
  <2>5. x[1] = y[1] /\ x[2] = y[2]
    BY <2>2, <2>3, <2>4
  <2> QED
    BY <2>4, <2>5
<1>4. f \in Injection(S, 1 .. c)
  <2>1. f \in [S -> 1 .. c]
    BY <1>2
  <2> HIDE DEF f, c
  <2> QED
    BY <1>3, <2>1 DEF Injection, IsInjective
<1>5. IsFiniteSet(1 .. c) /\ Cardinality(1 .. c) = c
  BY <1>1, FS_Interval
<1>6. f \in Surjection(S, 1 .. c)
  <2> HIDE DEF f
  <2> QED
    BY <1>4, <1>5, FS_Injection
<1>7. \A n \in 1 .. c : \E x \in S : f[x] = n
  <2> HIDE DEF f, c
  <2> QED
    BY <1>6 DEF Surjection
<1>8. \A n \in 1 .. c : InTurn(S)[n] \in S /\ f[InTurn(S)[n]] = n
  <2> SUFFICES ASSUME NEW n \in 1 .. c
               PROVE  InTurn(S)[n] \in S /\ f[InTurn(S)[n]] = n
    OBVIOUS
  <2>1. \E x \in S : Cardinality(Upto(S, x)) = n
    BY <1>7
  <2>2. InTurn(S)[n] = CHOOSE x \in S : Cardinality(Upto(S, x)) = n
    BY DEF InTurn
  <2>3. InTurn(S)[n] \in S /\ Cardinality(Upto(S, InTurn(S)[n])) = n
    BY <2>1, <2>2
  <2> QED
    BY <2>3
<1> HIDE DEF f
<1>9. \A x \in S : \E n \in 1 .. c : InTurn(S)[n] = x
  BY <1>2, <1>3, <1>8
<1> QED
  BY <1>1, <1>8, <1>9

\* A sequence and its elements.
LEMMA SeqKnown ==
  ASSUME NEW S, NEW s \in Seq(S)
  PROVE  /\ Len(s) \in Nat /\ DOMAIN s = 1 .. Len(s)
         /\ \A k \in 1 .. Len(s) : s[k] \in S
OBVIOUS

\* The bytes that are passed, where they come from and where they go.
LEMMA PassedKnown ==
  ASSUME Placement, NEW b \in Blocks, NEW i \in 1 .. Size(b), NEW ins, ins = Insts(b)[i],
         ins.kind \in {"call", "helper"}
  PROVE  /\ Passed(ins.callee) \in SUBSET (Nat \X Nat) /\ IsFiniteSet(Passed(ins.callee))
         /\ \A x \in Passed(ins.callee) :
              /\ x[1] \in 1 .. Len(ins.callee.params) /\ x[2] \in 1 .. Len(ins.callee.params[x[1]])
              /\ ins.callee.params[x[1]][x[2]] \in ArgLocation
              /\ ins.uses[x[1]] = 0 \/ (ins.uses[x[1]] \in Uses(ins) /\ x[2] \in 1 .. Bytes(ins.uses[x[1]]))
              /\ Source(ins.uses[x[1]], x[2]) \in Location
         /\ \A x, y \in Passed(ins.callee) :
              ins.callee.params[x[1]][x[2]] = ins.callee.params[y[1]][y[2]] => x = y
         /\ \A j \in 1 .. Len(ins.callee.params) : \A k \in 1 .. Len(ins.callee.params[j]) :
              <<j, k>> \in Passed(ins.callee)
<1> DEFINE s == ins.callee
<1>1. /\ ins \in Insn /\ IsTyped(prog, ins) /\ Uses(ins) \subseteq EverLive
      /\ Len(ins.uses) \in Nat
      /\ \A u \in 1 .. Len(ins.uses) : ins.uses[u] = 0 \/ ins.uses[u] \in Uses(ins)
  BY InsKnown
<1>2. /\ s \in Summary /\ CalleeFits(prog, ins)
  BY <1>1 DEF Insn, IsTyped
<1>3. s.params \in Seq(Seq(ArgLocation))
  BY <1>2 DEF Summary
<1>4. /\ Len(s.params) \in Nat /\ DOMAIN s.params = 1 .. Len(s.params)
      /\ \A j \in 1 .. Len(s.params) : s.params[j] \in Seq(ArgLocation)
  BY <1>3
<1>5. \A j \in 1 .. Len(s.params) :
        /\ Len(s.params[j]) \in Nat /\ DOMAIN s.params[j] = 1 .. Len(s.params[j])
        /\ \A k \in 1 .. Len(s.params[j]) : s.params[j][k] \in ArgLocation
  BY <1>4, SeqKnown
<1>6. /\ Len(s.params) <= Len(ins.uses) /\ AllApart(s.params)
      /\ \A j \in 1 .. Len(s.params) :
           Len(s.params[j]) <= IF ins.uses[j] = 0 THEN 4 ELSE Bytes(ins.uses[j])
  BY <1>2 DEF CalleeFits, Bytes
<1>7. \A j \in 1 .. Len(s.params) :
        /\ j \in 1 .. Len(ins.uses) /\ (ins.uses[j] = 0 \/ ins.uses[j] \in Uses(ins))
        /\ ins.uses[j] # 0 => Bytes(ins.uses[j]) \in 1 .. 4
  <2> SUFFICES ASSUME NEW j \in 1 .. Len(s.params)
               PROVE  /\ j \in 1 .. Len(ins.uses) /\ (ins.uses[j] = 0 \/ ins.uses[j] \in Uses(ins))
                      /\ ins.uses[j] # 0 => Bytes(ins.uses[j]) \in 1 .. 4
    OBVIOUS
  <2>1. j \in 1 .. Len(ins.uses) /\ (ins.uses[j] = 0 \/ ins.uses[j] \in Uses(ins))
    BY <1>1, <1>4, <1>6
  <2> QED
    BY <1>1, <2>1, HomeKnown
<1>8. \A j \in 1 .. Len(s.params) : Len(s.params[j]) <= 4
  <2> SUFFICES ASSUME NEW j \in 1 .. Len(s.params)
               PROVE  Len(s.params[j]) <= 4
    OBVIOUS
  <2>1. Len(s.params[j]) \in Nat /\ (ins.uses[j] # 0 => Bytes(ins.uses[j]) \in 1 .. 4)
    BY <1>5, <1>7
  <2>2. Len(s.params[j]) <= IF ins.uses[j] = 0 THEN 4 ELSE Bytes(ins.uses[j])
    BY <1>6
  <2> QED
    BY <2>1, <2>2
<1>9. \A x : x \in Passed(s) <=>
        \E j \in 1 .. Len(s.params) : \E k \in 1 .. Len(s.params[j]) : x = <<j, k>>
  <2>1. ASSUME NEW x \in Passed(s)
        PROVE  \E j \in 1 .. Len(s.params) : \E k \in 1 .. Len(s.params[j]) : x = <<j, k>>
    <3>1. PICK j \in 1 .. Len(s.params), k \in 1 .. 4 : x = <<j, k>> /\ k <= Len(s.params[j])
      BY DEF Passed
    <3>2. k \in 1 .. Len(s.params[j])
      BY <1>5, <3>1
    <3> QED
      BY <3>1, <3>2
  <2>2. ASSUME NEW j \in 1 .. Len(s.params), NEW k \in 1 .. Len(s.params[j])
        PROVE  <<j, k>> \in Passed(s)
    <3>1. k \in 1 .. 4 /\ k <= Len(s.params[j])
      BY <1>5, <1>8
    <3> QED
      BY <3>1 DEF Passed
  <2> QED
    BY <2>1, <2>2
<1>10. Passed(s) \in SUBSET (Nat \X Nat)
  BY <1>4 DEF Passed
<1>11. IsFiniteSet(Passed(s))
  <2> DEFINE S == (1 .. Len(s.params)) \X (1 .. 4)
  <2>0. 1 \in Int /\ 4 \in Int /\ Len(s.params) \in Int
    BY <1>4
  <2>1. IsFiniteSet(1 .. Len(s.params)) /\ IsFiniteSet(1 .. 4)
    BY <2>0, FS_Interval
  <2>2. IsFiniteSet(S)
    BY <2>1, FS_Product
  <2>3. Passed(s) \in SUBSET S
    BY DEF Passed
  <2> HIDE DEF S
  <2> QED
    BY <2>2, <2>3, FS_Subset
<1>12. ASSUME NEW x \in Passed(s)
       PROVE  /\ x[1] \in 1 .. Len(s.params) /\ x[2] \in 1 .. Len(s.params[x[1]])
              /\ s.params[x[1]][x[2]] \in ArgLocation
              /\ ins.uses[x[1]] = 0 \/ (ins.uses[x[1]] \in Uses(ins) /\ x[2] \in 1 .. Bytes(ins.uses[x[1]]))
              /\ Source(ins.uses[x[1]], x[2]) \in Location
              /\ x = <<x[1], x[2]>>
  <2>1. PICK j \in 1 .. Len(s.params) : \E k \in 1 .. Len(s.params[j]) : x = <<j, k>>
    BY <1>9
  <2>2. PICK k \in 1 .. Len(s.params[j]) : x = <<j, k>>
    BY <2>1
  <2>3. x[1] = j /\ x[2] = k
    BY <2>2
  <2>4. /\ ins.uses[j] = 0 \/ ins.uses[j] \in Uses(ins)
        /\ ins.uses[j] # 0 => k \in 1 .. Bytes(ins.uses[j])
    <3>1. ins.uses[j] = 0 \/ ins.uses[j] \in Uses(ins)
      BY <1>7
    <3>2. ASSUME ins.uses[j] # 0
          PROVE  k \in 1 .. Bytes(ins.uses[j])
      <4>1. Len(s.params[j]) <= Bytes(ins.uses[j]) /\ Bytes(ins.uses[j]) \in 1 .. 4 /\ Len(s.params[j]) \in Nat
        BY <1>5, <1>6, <1>7, <3>2
      <4> QED
        BY <4>1
    <3> QED
      BY <3>1, <3>2
  <2>5. Source(ins.uses[j], k) \in Location
    <3>1. CASE ins.uses[j] = 0
      <4>1. Len(s.params[j]) <= 4 /\ Len(s.params[j]) \in Nat
        BY <1>5, <1>8
      <4>2. k \in 1 .. 4
        BY <4>1
      <4> QED
        BY <3>1, <4>2 DEF Source, Location
    <3>2. CASE ins.uses[j] # 0
      <4>1. ins.uses[j] \in EverLive /\ k \in 1 .. Bytes(ins.uses[j])
        BY <1>1, <2>4, <3>2
      <4> QED
        BY <3>2, <4>1, HomeKnown DEF Source
    <3> QED
      BY <3>1, <3>2
  <2> QED
    BY <1>5, <2>1, <2>2, <2>3, <2>4, <2>5
<1>13. ASSUME NEW x \in Passed(s), NEW y \in Passed(s), s.params[x[1]][x[2]] = s.params[y[1]][y[2]]
       PROVE  x = y
  <2>1. /\ x[1] \in DOMAIN s.params /\ y[1] \in DOMAIN s.params
        /\ x[2] \in DOMAIN s.params[x[1]] /\ y[2] \in DOMAIN s.params[y[1]]
    BY <1>4, <1>5, <1>12
  <2>2. x[1] = y[1] /\ x[2] = y[2]
    BY <1>6, <1>13, <2>1 DEF AllApart
  <2> QED
    BY <1>12, <2>2
<1> QED
  BY <1>9, <1>10, <1>11, <1>12, <1>13

\* ms bring every byte of every argument to its place, and nothing else.
Brings(ms, ins) ==
  /\ \A m \in 1 .. Len(ms) : \E x \in Passed(ins.callee) :
       /\ ms[m].to = ins.callee.params[x[1]][x[2]]
       /\ ms[m].from = Source(ins.uses[x[1]], x[2])
  /\ \A x \in Passed(ins.callee) : \E m \in 1 .. Len(ms) :
       /\ ms[m].to = ins.callee.params[x[1]][x[2]]
       /\ ms[m].from = Source(ins.uses[x[1]], x[2])

\* The moves of the arguments.
LEMMA ArgMovesKnown ==
  ASSUME Placement, NEW b \in Blocks, NEW i \in 1 .. Size(b), NEW ins, ins = Insts(b)[i],
         ins.kind \in {"call", "helper"}, NEW ms, ms = ArgMoves(ins)
  PROVE  /\ ms \in P!Batches /\ \A m \in 1 .. Len(ms) : ms[m].byte = 0
         /\ Brings(ms, ins)
<1> DEFINE S == Passed(ins.callee)
           c == Cardinality(S)
           f == InTurn(S)
           to(x) == ins.callee.params[x[1]][x[2]]
           from(x) == Source(ins.uses[x[1]], x[2])
<1>1. /\ S \in SUBSET (Nat \X Nat) /\ IsFiniteSet(S)
      /\ \A x \in S : to(x) \in ArgLocation /\ from(x) \in Location
      /\ \A x, y \in S : to(x) = to(y) => x = y
  BY PassedKnown
<1>2. ms = [n \in 1 .. c |-> [to |-> to(f[n]), from |-> from(f[n]), byte |-> 0]]
  BY DEF ArgMoves, ArgMove
<1> HIDE DEF S
<1>3. /\ c \in Nat
      /\ \A n \in 1 .. c : f[n] \in S
      /\ \A m, n \in 1 .. c : f[m] = f[n] => m = n
      /\ \A x \in S : \E n \in 1 .. c : f[n] = x
  BY <1>1, InTurnKnown
<1> HIDE DEF f, c
<1>4. \A l \in ArgLocation : l \in Location
  BY DEF ArgLocation, Location
<1> HIDE DEF to, from
<1>5. /\ ms = [n \in 1 .. c |-> ms[n]]
      /\ \A n \in 1 .. c : ms[n].to = to(f[n]) /\ ms[n].from = from(f[n]) /\ ms[n].byte = 0
      /\ \A n \in 1 .. c : ms[n] = [to |-> to(f[n]), from |-> from(f[n]), byte |-> 0]
  BY <1>2
<1>6. \A n \in 1 .. c : ms[n] \in [to : Location, from : Location, byte : Nat]
  <2> SUFFICES ASSUME NEW n \in 1 .. c
               PROVE  ms[n] \in [to : Location, from : Location, byte : Nat]
    OBVIOUS
  <2>1. to(f[n]) \in Location /\ from(f[n]) \in Location
    BY <1>1, <1>3, <1>4
  <2>2. ms[n] = [to |-> to(f[n]), from |-> from(f[n]), byte |-> 0]
    BY <1>5
  <2> QED
    BY <2>1, <2>2
<1>7. ms \in Seq([to : Location, from : Location, byte : Nat]) /\ Len(ms) = c
  <2>1. ms = [n \in 1 .. c |-> ms[n]] /\ c \in Nat
    BY <1>3, <1>5
  <2> DEFINE T == [to : Location, from : Location, byte : Nat]
  <2>2. \A n \in 1 .. c : ms[n] \in T
    BY <1>6
  <2> HIDE DEF T
  <2>3. ms \in Seq(T) /\ Len(ms) = c
    BY <2>1, <2>2, AsList
  <2> QED
    BY <2>3 DEF T
<1>8. P!Distinct(ms)
  <2> SUFFICES ASSUME NEW m \in 1 .. c, NEW n \in 1 .. c, ms[m].to = ms[n].to
               PROVE  m = n
    BY <1>7 DEF P!Distinct
  <2>1. to(f[m]) = to(f[n]) /\ f[m] \in S /\ f[n] \in S
    BY <1>3, <1>5
  <2>2. f[m] = f[n]
    BY <1>1, <2>1
  <2> QED
    BY <1>3, <2>2
<1>9. ms \in P!Batches
  BY <1>7, <1>8 DEF P!Batches
<1>10. \A m \in 1 .. Len(ms) : ms[m].byte = 0 /\ \E x \in S : ms[m].to = to(x) /\ ms[m].from = from(x)
  BY <1>3, <1>5, <1>7
<1>11. ASSUME NEW x \in S
       PROVE  \E m \in 1 .. Len(ms) : ms[m].to = to(x) /\ ms[m].from = from(x)
  <2>1. PICK m \in 1 .. c : f[m] = x
    BY <1>3
  <2>2. ms[m].to = to(f[m]) /\ ms[m].from = from(f[m])
    BY <1>5
  <2> QED
    BY <1>7, <2>1, <2>2
<1> QED
  BY <1>9, <1>10, <1>11 DEF S, to, from, Brings

\* The moves of the result.
LEMMA ResultMovesKnown ==
  ASSUME Placement, NEW b \in Blocks, NEW i \in 1 .. Size(b), NEW ins, ins = Insts(b)[i],
         ins.kind \in {"call", "helper"}, ins.def # 0, NEW ms, ms = ResultMoves(ins)
  PROVE  /\ ms \in P!Batches /\ Len(ms) = Bytes(ins.def)
         /\ \A k \in 1 .. Bytes(ins.def) :
              /\ ms[k].to = locs[ins.def][k] /\ ms[k].from = ins.callee.ret[k] /\ ms[k].byte = 0
              /\ ins.callee.ret[k] \in RetLocation
<1> DEFINE d == ins.def
           n == Bytes(d)
<1>1. /\ ins \in Insn /\ IsTyped(prog, ins) /\ d \in EverLive
  BY InsKnown
<1>2. ins.callee \in Summary /\ CalleeFits(prog, ins)
  BY <1>1 DEF Insn, IsTyped
<1>3. ins.callee.ret \in Seq(RetLocation) /\ Len(ins.callee.ret) = n
  BY <1>2 DEF Summary, CalleeFits, Bytes
<1>4. n \in 1 .. 4 /\ \A k \in 1 .. n : locs[d][k] \in Location
  BY <1>1, HomeKnown
<1>5. \A k \in 1 .. n : ins.callee.ret[k] \in RetLocation
  BY <1>3
<1>6. \A l \in RetLocation : l \in Location
  BY DEF RetLocation, Location
<1>7. /\ ms = [k \in 1 .. n |-> ms[k]]
      /\ \A k \in 1 .. n : ms[k] = [to |-> locs[d][k], from |-> ins.callee.ret[k], byte |-> 0]
  BY <1>3 DEF ResultMoves
<1> HIDE DEF n, d
<1>8. \A k \in 1 .. n : ms[k] \in [to : Location, from : Location, byte : Nat]
  <2> SUFFICES ASSUME NEW k \in 1 .. n
               PROVE  ms[k] \in [to : Location, from : Location, byte : Nat]
    OBVIOUS
  <2>1. locs[d][k] \in Location /\ ins.callee.ret[k] \in Location
    BY <1>4, <1>5, <1>6
  <2>2. ms[k] = [to |-> locs[d][k], from |-> ins.callee.ret[k], byte |-> 0]
    BY <1>7
  <2> QED
    BY <2>1, <2>2
<1>9. ms \in Seq([to : Location, from : Location, byte : Nat]) /\ Len(ms) = n
  <2>1. n \in Nat /\ ms = [k \in 1 .. n |-> ms[k]]
    BY <1>4, <1>7
  <2> DEFINE T == [to : Location, from : Location, byte : Nat]
  <2>2. \A k \in 1 .. n : ms[k] \in T
    BY <1>8
  <2> HIDE DEF T
  <2>3. ms \in Seq(T) /\ Len(ms) = n
    BY <2>1, <2>2, AsList
  <2> QED
    BY <2>3 DEF T
<1>10. P!Distinct(ms)
  <2> SUFFICES ASSUME NEW j \in 1 .. n, NEW k \in 1 .. n, ms[j].to = ms[k].to
               PROVE  j = k
    BY <1>9 DEF P!Distinct
  <2>0. /\ ms[j] = [to |-> locs[d][j], from |-> ins.callee.ret[j], byte |-> 0]
        /\ ms[k] = [to |-> locs[d][k], from |-> ins.callee.ret[k], byte |-> 0]
    BY <1>7
  <2>1. locs[d][j] = locs[d][k]
    BY <2>0
  <2> QED
    BY <1>1, <2>1, HomesOwn DEF n
<1>11. ms \in P!Batches
  BY <1>9, <1>10 DEF P!Batches
<1>12. ASSUME NEW k \in 1 .. n
       PROVE  ms[k].to = locs[d][k] /\ ms[k].from = ins.callee.ret[k] /\ ms[k].byte = 0
  <2>1. ms[k] = [to |-> locs[d][k], from |-> ins.callee.ret[k], byte |-> 0]
    BY <1>7
  <2> QED
    BY <2>1
<1> QED
  BY <1>5, <1>9, <1>11, <1>12 DEF n, d

-----------------------------------------------------------------------------
(***************************************************************************)
(* Every step of every script: it writes bytes of the result, makes moves  *)
(* of different destinations, and has a pointer register if it needs one.  *)
(***************************************************************************)
Sound(o) ==
  /\ o.ready = TRUE /\ o.push \subseteq Location
  /\ o.moves \in P!Batches /\ \A m \in 1 .. Len(o.moves) : o.moves[m].byte \in 0 .. 4
  /\ \A x \in o.puts : x[1] \in Location /\ x[2] \in 1 .. 4

LEMMA LocsKnown ==
  ASSUME Placement, NEW v \in V
  PROVE  Range(locs[v]) \subseteq Location
<1>1. CASE v \in EverLive
  BY <1>1, HomeKnown DEF Range
<1>2. CASE v \notin EverLive
  <2>1. prog \in Programs
    BY DEF Placement, AllocInv, WalkInv, LiveTypes
  <2>2. ~Movable(v) /\ ~IsFixed(v)
    BY <1>2, <2>1, ParamsKnown DEF Movable, IsFixed
  <2>3. locs[v] = <<>>
    BY <2>2 DEF Placement, AllocInv, PlaceInv, Later
  <2> QED
    BY <2>3 DEF Range
<1> QED
  BY <1>1, <1>2

\* The four steps of a call.
LEMMA CallSteps ==
  ASSUME Placement, NEW b \in Blocks, NEW i \in 1 .. Size(b), NEW ins, ins = Insts(b)[i],
         IsAt(b, i), ins.kind \in {"call", "helper"}
  PROVE  /\ Len(Script) = 4
         /\ Script[1] = SaveSlots(ins.callee) /\ Script[2] = PassArgs(ins)
         /\ Script[3] = Callee(ins) /\ Script[4] = TakeResult(ins)
<1>1. Script = Call(ins)
  BY DEF Script, IsAt
<1>2. Script = <<SaveSlots(ins.callee), PassArgs(ins), Callee(ins), TakeResult(ins)>>
  BY <1>1 DEF Call
<1> QED
  BY <1>2

\* What is known of a callee.
LEMMA CalleeKnown ==
  ASSUME Placement, NEW b \in Blocks, NEW i \in 1 .. Size(b), NEW ins, ins = Insts(b)[i],
         ins.kind \in {"call", "helper"}
  PROVE  /\ ins.callee.clobbers \subseteq Reg /\ ins.callee.recursive \in BOOLEAN
         /\ Len(ins.callee.ret) \in 0 .. 4
         /\ \A k \in 1 .. Len(ins.callee.ret) : ins.callee.ret[k] \in RetLocation
         /\ ins.def # 0 => Len(ins.callee.ret) = Bytes(ins.def)
<1>1. /\ ins \in Insn /\ IsTyped(prog, ins)
  BY InsKnown
<1>2. ins.callee \in Summary /\ CalleeFits(prog, ins)
  BY <1>1 DEF Insn, IsTyped
<1>3. ins.callee.ret \in Seq(RetLocation)
  BY <1>2 DEF Summary
<1>4. Len(ins.callee.ret) \in Nat /\ \A k \in 1 .. Len(ins.callee.ret) : ins.callee.ret[k] \in RetLocation
  BY <1>3, SeqKnown
<1>5. Len(ins.callee.ret) \in 0 .. 4
  <2>1. Len(ins.callee.ret) <= 4
    BY <1>2 DEF CalleeFits
  <2>2. Len(ins.callee.ret) \in Nat
    BY <1>4
  <2> DEFINE n == Len(ins.callee.ret)
  <2>3. n \in Nat /\ n <= 4
    BY <2>1, <2>2
  <2> HIDE DEF n
  <2>4. n \in 0 .. 4
    BY <2>3
  <2> QED
    BY <2>4 DEF n
<1> QED
  BY <1>2, <1>4, <1>5 DEF Summary, CalleeFits, Bytes

LEMMA SoundCall ==
  ASSUME Placement, NEW b \in Blocks, NEW i \in 1 .. Size(b), NEW ins, ins = Insts(b)[i],
         IsAt(b, i), ins.kind \in {"call", "helper"}
  PROVE  \A t \in 1 .. Len(Script) : Sound(Script[t])
<1>1. /\ Len(Script) = 4
      /\ Script[1] = SaveSlots(ins.callee) /\ Script[2] = PassArgs(ins)
      /\ Script[3] = Callee(ins) /\ Script[4] = TakeResult(ins)
  BY CallSteps
<1>2. \A t \in 1 .. 4 : t = 1 \/ t = 2 \/ t = 3 \/ t = 4
  OBVIOUS
<1>3. <<>> \in P!Batches /\ 1 .. Len(<<>>) = {}
  BY NoMoves
<1>4. Sound(SaveSlots(ins.callee))
  <2> DEFINE o == SaveSlots(ins.callee)
  <2>1. /\ o.ready = TRUE /\ o.moves = <<>> /\ o.puts = {}
        /\ o.push = IF ins.callee.recursive THEN SlotsOf(after[pc[1]][pc[2]]) ELSE {}
    BY DEF SaveSlots, Nop
  <2>2. after[pc[1]][pc[2]] \subseteq V
    BY InsKnown DEF IsAt, Recorded, LiveBehind
  <2>3. SlotsOf(after[pc[1]][pc[2]]) \subseteq Location
    BY <2>2, LocsKnown DEF SlotsOf
  <2> HIDE DEF o
  <2> QED
    BY <1>3, <2>1, <2>3 DEF Sound, o
<1>5. Sound(PassArgs(ins))
  <2> DEFINE o == PassArgs(ins)
             ms == ArgMoves(ins)
  <2>1. o.ready = TRUE /\ o.moves = ms /\ o.puts = {} /\ o.push = {}
    BY DEF PassArgs, Nop
  <2>2. ms \in P!Batches /\ \A m \in 1 .. Len(ms) : ms[m].byte = 0
    BY ArgMovesKnown
  <2> HIDE DEF o, ms
  <2> QED
    BY <2>1, <2>2 DEF Sound, o
<1>6. Sound(Callee(ins))
  <2> DEFINE o == Callee(ins)
  <2>1. /\ o.ready = TRUE /\ o.moves = <<>> /\ o.push = {}
        /\ o.puts = {<<ins.callee.ret[k], k>> : k \in 1 .. Len(ins.callee.ret)}
    BY DEF Callee, Nop
  <2>2. \A k \in 1 .. Len(ins.callee.ret) : ins.callee.ret[k] \in Location /\ k \in 1 .. 4
    <3>1. /\ Len(ins.callee.ret) \in 0 .. 4
          /\ \A k \in 1 .. Len(ins.callee.ret) : ins.callee.ret[k] \in RetLocation
      BY CalleeKnown
    <3>2. \A l \in RetLocation : l \in Location
      BY DEF RetLocation, Location
    <3> DEFINE n == Len(ins.callee.ret)
    <3>3. n \in 0 .. 4
      BY <3>1
    <3> HIDE DEF n
    <3>4. \A k \in 1 .. n : k \in 1 .. 4
      BY <3>3
    <3> QED
      BY <3>1, <3>2, <3>4 DEF n
  <2> HIDE DEF o
  <2> QED
    BY <1>3, <2>1, <2>2 DEF Sound, o
<1>7. Sound(TakeResult(ins))
  <2> DEFINE o == TakeResult(ins)
             ms == ResultMoves(ins)
  <2>1. o.ready = TRUE /\ o.moves = (IF ins.def = 0 THEN <<>> ELSE ms) /\ o.puts = {} /\ o.push = {}
    BY DEF TakeResult, Nop
  <2>2. CASE ins.def = 0
    <3> HIDE DEF o, ms
    <3> QED
      BY <1>3, <2>1, <2>2 DEF Sound, o
  <2>3. CASE ins.def # 0
    <3>1. /\ ms \in P!Batches /\ Len(ms) = Bytes(ins.def)
          /\ \A k \in 1 .. Bytes(ins.def) : ms[k].byte = 0
      BY <2>3, ResultMovesKnown
    <3> HIDE DEF o, ms
    <3> QED
      BY <2>1, <2>3, <3>1 DEF Sound, o
  <2> QED
    BY <2>2, <2>3
<1> QED
  BY <1>1, <1>2, <1>4, <1>5, <1>6, <1>7

LEMMA ScriptSound ==
  ASSUME Placement, NEW b \in Blocks, NEW i \in 1 .. Size(b), IsAt(b, i)
  PROVE  Len(Script) \in Nat /\ \A t \in 1 .. Len(Script) : Sound(Script[t])
<1> DEFINE ins == Insts(b)[i]
<1>1. \A o : IsPlain(o) => Sound(o)
  BY DEF IsPlain, Sound
<1>2. CASE ins.kind \in {"call", "helper"}
  BY <1>2, CallSteps, SoundCall
<1>3. CASE ins.kind = "genload"
  <2> DEFINE d == ins.def
             n == Bytes(d)
             a == ins.uses[1]
             sc == Script
  <2>1. d # 0 /\ d \in EverLive /\ n \in 1 .. 4
    BY <1>3, InsKnown, HomeKnown DEF IsTyped
  <2>2. Script = [k \in 1 .. n |-> Do(NeedAll(a), PutAll(d, {k}))]
    BY <1>3 DEF Script, ScriptOf, LoadScript, Each, PutAll, IsAt
  <2>3. Len(sc) = n /\ \A k \in 1 .. n : sc[k] = Do(NeedAll(a), PutAll(d, {k}))
    BY <2>1, <2>2
  <2> HIDE DEF sc
  <2>4. ASSUME NEW k \in 1 .. n
        PROVE  IsPlain(sc[k])
    <3>1. sc[k] = Do(NeedAll(a), PutAll(d, {k}))
      BY <2>3
    <3> QED
      BY <2>1, <3>1, PutOne
  <2> QED
    BY <1>1, <2>1, <2>3, <2>4 DEF sc
<1>4. CASE ins.kind \notin {"call", "helper", "genload"}
  <2>1. Good(Script, b, i)
    BY <1>4, GoodScript
  <2> QED
    BY <1>1, <2>1 DEF Good
<1> QED
  BY <1>2, <1>3, <1>4

-----------------------------------------------------------------------------
(***************************************************************************)
(* Execution: where it is, and which values there are.                     *)
(***************************************************************************)
RunTypes ==
  /\ pc = Halted => pending = {}
  /\ \A l \in DOMAIN saved : saved[l] \subseteq Values
  /\ pc # Halted =>
       /\ phase = "placed"
       /\ pc = <<pc[1], pc[2]>> /\ pc[1] \in Reachable /\ pc[2] \in 1 .. Size(pc[1]) + 1
       /\ step \in Nat \ {0}
       /\ AtTerm => step = 1 /\ pending = {}
       /\ ~AtTerm /\ step > 1 => step <= Len(Script) + 1
       /\ defined \subseteq EverLive
       /\ DOMAIN mem = Location /\ \A l \in Location : mem[l] \subseteq Values
       /\ pending # {} => \A l \in Location : start[l] \subseteq Values

RunInv == AllocInv /\ P!MovesInv /\ RunTypes

\* Nothing is being moved.
LEMMA MovesIdle ==
  ASSUME P!MovesInv, pending = {}, UNCHANGED <<pending, viaA>>
  PROVE  P!MovesInv'
<1>1. viaA = {}
  BY DEF P!MovesInv, P!Shape
<1> QED
  BY <1>1 DEF P!MovesInv, P!Shape, P!Waiting, P!Arrived, P!Untouched

\* An instruction that runs is one of a placed function.
LEMMA RunsAt ==
  ASSUME RunInv, pc # Halted
  PROVE  /\ Placement /\ prog \in Programs /\ pc[1] \in Blocks /\ Size(pc[1]) \in Nat
         /\ ~AtTerm => pc[2] \in 1 .. Size(pc[1]) /\ IsAt(pc[1], pc[2])
         /\ AtTerm => pc[2] = Size(pc[1]) + 1
<1>1. Placement /\ prog \in Programs
  BY DEF RunInv, RunTypes, Placement, AllocInv, WalkInv, LiveTypes
<1>2. pc[1] \in Blocks /\ Size(pc[1]) \in Nat /\ pc[2] \in 1 .. Size(pc[1]) + 1
  BY <1>1, CodeKnown DEF RunInv, RunTypes, Reachable, Size
<1>3. AtTerm <=> pc[2] > Size(pc[1])
  BY DEF AtTerm, Size
<1> QED
  BY <1>1, <1>2, <1>3 DEF IsAt

\* What stays while the function is placed.
LEMMA RunSame ==
  ASSUME UNCHANGED allocVars
  PROVE  /\ prog' = prog /\ phase' = phase /\ Values' = Values /\ Reachable' = Reachable
         /\ EverLive' = EverLive /\ \A b : Size(b)' = Size(b)
         /\ \A b : Insts(b)' = Insts(b)
         /\ pc' = pc => Script' = Script /\ AtTerm' = AtTerm
<1>1. prog' = prog /\ phase' = phase /\ locs' = locs /\ after' = after /\ liveOut' = liveOut
  BY DEF allocVars, liveVars, walkVars, assignVars
<1>2. Reachable' = Reachable /\ EverLive' = EverLive /\ \A b : Insts(b)' = Insts(b)
  BY <1>1, ProgSame
<1>3. \A b : Size(b)' = Size(b)
  BY <1>2 DEF Size
<1>4. Values' = Values
  BY <1>1 DEF Values
<1>5. ASSUME pc' = pc
      PROVE  Script' = Script /\ AtTerm' = AtTerm
  BY <1>1, <1>2, <1>5, ScriptSame DEF AtTerm
<1> QED
  BY <1>1, <1>2, <1>3, <1>4, <1>5


\* The values of all bytes of all virtual registers.
LEMMA ValuesKnown ==
  ASSUME prog \in Programs
  PROVE  /\ \A v \in EverLive \cup {0} : v \in 0 .. Len(prog.size)
         /\ \A v \in EverLive \cup {0} : \A k \in 1 .. 4 : <<v, k>> \in Values
<1>1. Len(prog.size) \in Nat
  BY SizesKnown
<1>2. EverLive \subseteq V
  BY DEF EverLive
<1>3. \A v \in EverLive \cup {0} : v \in 0 .. Len(prog.size)
  BY <1>1, <1>2 DEF V
<1> QED
  BY <1>3 DEF Values

LEMMA TypesEnter ==
  ASSUME RunInv, Enter
  PROVE  P!MovesInv' /\ RunTypes'
<1>1. /\ phase = "placed" /\ pc = Halted /\ pc' = <<1, 1>> /\ step' = 1 /\ defined' = Params
      /\ mem' = [l \in Location |-> IF Cardinality(Arrives(l)) = 1 THEN Arrives(l) ELSE {}]
      /\ UNCHANGED allocVars /\ UNCHANGED <<batch, start, pending, viaA, acc, saved>>
  BY DEF Enter
<1>2. Placement /\ prog \in Programs /\ pending = {}
  BY <1>1 DEF RunInv, RunTypes, Placement, AllocInv, WalkInv, LiveTypes
<1>3. /\ prog' = prog /\ phase' = phase /\ Values' = Values /\ Reachable' = Reachable
      /\ EverLive' = EverLive /\ \A b : Size(b)' = Size(b)
  BY <1>1, RunSame
<1>4. 1 \in Reachable /\ Size(1) \in Nat
  BY <1>2, CodeKnown DEF Reachable, Size
<1>5. P!MovesInv'
  BY <1>1, <1>2, MovesIdle DEF RunInv
<1>6. \A l \in Location : mem'[l] \subseteq Values
  <2>1. Params \subseteq 0 .. Len(prog.size)
    BY <1>2, ParamsKnown, ValuesKnown
  <2>2. \A l : Arrives(l) \subseteq Values
    BY <2>1 DEF Arrives, Values
  <2> QED
    BY <1>1, <2>2
<1>7. defined' \subseteq EverLive'
  BY <1>1, <1>2, <1>3, ParamsKnown
<1>8. \A l \in DOMAIN saved' : saved'[l] \subseteq Values'
  BY <1>1, <1>3 DEF RunInv, RunTypes
<1>9. pc' = <<pc'[1], pc'[2]>> /\ pc'[1] \in Reachable' /\ pc'[2] \in 1 .. Size(pc[1])' + 1
  BY <1>1, <1>3, <1>4 DEF Size
<1>10. pc' # Halted
  BY <1>1 DEF Halted
<1>11. DOMAIN mem' = Location /\ pending' = {}
  BY <1>1, <1>2
<1> QED
  BY <1>1, <1>3, <1>5, <1>6, <1>7, <1>8, <1>9, <1>10, <1>11 DEF RunTypes

\* The step of a script that is made.
LEMMA StepKnown ==
  ASSUME RunInv, RunStep
  PROVE  /\ Placement /\ IsAt(pc[1], pc[2]) /\ pc[1] \in Blocks /\ pc[2] \in 1 .. Size(pc[1])
         /\ pc # Halted /\ ~AtTerm /\ pending = {}
         /\ step \in 1 .. Len(Script) /\ Len(Script) \in Nat /\ Sound(Script[step])
         /\ Begin(Script[step].moves, Tagged(Written(Script[step]), Script[step].moves))
         /\ saved' = (IF Script[step].push # {} THEN [l \in Script[step].push |-> mem[l]]
                      ELSE IF Script[step].pop THEN <<>> ELSE saved)
         /\ step' = step + 1 /\ UNCHANGED <<allocVars, pc, defined>>
<1>1. pc # Halted /\ pending = {} /\ ~AtTerm /\ step <= Len(Script)
  BY DEF RunStep, Idle
<1>2. Placement /\ IsAt(pc[1], pc[2]) /\ pc[1] \in Blocks /\ pc[2] \in 1 .. Size(pc[1])
  BY <1>1, RunsAt
<1>3. Len(Script) \in Nat /\ \A t \in 1 .. Len(Script) : Sound(Script[t])
  <2>1. PICK b \in Blocks : b = pc[1]
    BY <1>2
  <2>2. PICK i \in 1 .. Size(b) : i = pc[2]
    BY <1>2, <2>1
  <2> QED
    BY <1>2, <2>1, <2>2, ScriptSound
<1>4. step \in Nat /\ step # 0
  BY <1>1 DEF RunInv, RunTypes
<1>5. step \in 1 .. Len(Script)
  BY <1>1, <1>3, <1>4
<1>6. /\ Begin(Script[step].moves, Tagged(Written(Script[step]), Script[step].moves))
      /\ saved' = (IF Script[step].push # {} THEN [l \in Script[step].push |-> mem[l]]
                   ELSE IF Script[step].pop THEN <<>> ELSE saved)
      /\ step' = step + 1 /\ UNCHANGED <<allocVars, pc, defined>>
  BY DEF RunStep
<1> QED
  BY <1>1, <1>2, <1>3, <1>5, <1>6

\* The locations hold values when the moves of a step begin.
LEMMA TaggedTyped ==
  ASSUME RunInv, pc # Halted, NEW o, Sound(o)
  PROVE  /\ DOMAIN Tagged(Written(o), o.moves) = Location
         /\ \A l \in Location : Tagged(Written(o), o.moves)[l] \subseteq Values
<1>1. prog \in Programs
  BY RunsAt
<1>2. \A k \in 1 .. 4 : <<0, k>> \in Values
  BY <1>1, ValuesKnown
<1>3. \A l \in Location : Written(o)[l] \subseteq Values
  <2> TAKE l \in Location
  <2>1. mem[l] \subseteq Values /\ (l \in DOMAIN saved => saved[l] \subseteq Values)
    BY DEF RunInv, RunTypes
  <2>2. {<<0, x[2]>> : x \in {y \in o.puts : y[1] = l}} \subseteq Values
    BY <1>2 DEF Sound
  <2> QED
    BY <2>1, <2>2 DEF Written
<1>4. \A l \in Location :
        {<<0, o.moves[i].byte>> : i \in {j \in 1 .. Len(o.moves) :
            o.moves[j].from = l /\ o.moves[j].byte # 0}} \subseteq Values
  <2>1. \A j \in 1 .. Len(o.moves) : o.moves[j].byte # 0 => <<0, o.moves[j].byte>> \in Values
    BY <1>2 DEF Sound
  <2> QED
    BY <2>1
<1>5. \A l \in Location : Tagged(Written(o), o.moves)[l] =
        Written(o)[l] \cup {<<0, o.moves[i].byte>> : i \in {j \in 1 .. Len(o.moves) :
            o.moves[j].from = l /\ o.moves[j].byte # 0}}
  BY DEF Tagged
<1> QED
  BY <1>3, <1>4, <1>5 DEF Tagged

LEMMA TypesStep ==
  ASSUME RunInv, RunStep
  PROVE  P!MovesInv' /\ RunTypes'
<1> DEFINE o == Script[step]
           m0 == Tagged(Written(o), o.moves)
<1>1. /\ Placement /\ pc # Halted /\ ~AtTerm /\ step \in 1 .. Len(Script) /\ Sound(o)
      /\ Begin(o.moves, m0) /\ step' = step + 1 /\ UNCHANGED <<allocVars, pc, defined>>
      /\ saved' = (IF o.push # {} THEN [l \in o.push |-> mem[l]] ELSE IF o.pop THEN <<>> ELSE saved)
      /\ Len(Script) \in Nat
  BY StepKnown
<1>2. DOMAIN m0 = Location /\ \A l \in Location : m0[l] \subseteq Values
  BY <1>1, TaggedTyped
<1>3. /\ phase' = phase /\ Values' = Values /\ Reachable' = Reachable
      /\ EverLive' = EverLive /\ \A b : Size(b)' = Size(b)
      /\ Script' = Script /\ AtTerm' = AtTerm
  BY <1>1, RunSame
<1>4. o.moves \in P!Batches /\ o.push \subseteq Location
  BY <1>1 DEF Sound
<1> HIDE DEF o, m0
<1>5. P!MovesInv'
  BY <1>1, <1>2, <1>4, MovesBegin
<1>6. mem' = m0 /\ (pending' # {} => start' = m0)
  <2>1. mem' = m0 /\ start' = (IF o.moves = <<>> THEN <<>> ELSE m0)
        /\ pending' = {i \in 1 .. Len(o.moves) : o.moves[i].to # o.moves[i].from}
    BY <1>1 DEF Begin
  <2>2. o.moves = <<>> => pending' = {}
    BY <2>1, NoMoves
  <2> QED
    BY <2>1, <2>2
<1>7. \A l \in DOMAIN saved' : saved'[l] \subseteq Values
  <2>1. \A l \in DOMAIN saved : saved[l] \subseteq Values
    BY DEF RunInv, RunTypes
  <2>2. \A l \in Location : mem[l] \subseteq Values
    BY <1>1 DEF RunInv, RunTypes
  <2>3. CASE o.push # {}
    BY <1>1, <1>4, <2>2, <2>3
  <2>4. CASE o.push = {} /\ o.pop
    BY <1>1, <2>4
  <2>5. CASE o.push = {} /\ ~o.pop
    BY <1>1, <2>1, <2>5
  <2> QED
    BY <2>3, <2>4, <2>5
<1>8. /\ phase = "placed" /\ pc = <<pc[1], pc[2]>> /\ pc[1] \in Reachable
      /\ pc[2] \in 1 .. Size(pc[1]) + 1 /\ defined \subseteq EverLive
  BY <1>1 DEF RunInv, RunTypes
<1>9. step' \in Nat \ {0} /\ step' <= Len(Script)' + 1
  BY <1>1, <1>3
<1>10. pc' = pc /\ defined' = defined
  BY <1>1
<1>11. /\ pc' # Halted /\ ~AtTerm' /\ phase' = "placed"
       /\ pc' = <<pc'[1], pc'[2]>> /\ pc'[1] \in Reachable' /\ pc'[2] \in 1 .. Size(pc[1])' + 1
       /\ defined' \subseteq EverLive'
  BY <1>1, <1>3, <1>8, <1>10
<1>12. DOMAIN mem' = Location /\ \A l \in Location : mem'[l] \subseteq Values'
  BY <1>2, <1>3, <1>6
<1>13. pending' # {} => \A l \in Location : start'[l] \subseteq Values'
  BY <1>2, <1>3, <1>6
<1> QED
  BY <1>3, <1>5, <1>7, <1>9, <1>11, <1>12, <1>13 DEF RunTypes

LEMMA TypesFinish ==
  ASSUME RunInv, Finish
  PROVE  P!MovesInv' /\ RunTypes'
<1> DEFINE d == Insts(pc[1])[pc[2]].def
<1>1. /\ pc # Halted /\ pending = {} /\ ~AtTerm
      /\ mem' = [l \in Location |->
                   {x \in mem[l] : x[1] \notin {0, d}}
                     \cup (IF d = 0 THEN {} ELSE {<<d, x[2]>> : x \in {y \in mem[l] : y[1] = 0}})]
      /\ defined' = defined \cup ({d} \ {0})
      /\ pc' = <<pc[1], pc[2] + 1>> /\ step' = 1
      /\ UNCHANGED <<allocVars, pending, viaA, acc, saved>>
  BY DEF Finish, Idle
<1>2. Placement /\ prog \in Programs /\ pc[1] \in Blocks /\ pc[2] \in 1 .. Size(pc[1]) /\ Size(pc[1]) \in Nat
  BY <1>1, RunsAt
<1>3. d \in EverLive \cup {0}
  <2>1. PICK b \in Blocks : b = pc[1]
    BY <1>2
  <2>2. PICK i \in 1 .. Size(b) : i = pc[2]
    BY <1>2, <2>1
  <2> QED
    BY <1>2, <2>1, <2>2, InsKnown
<1> HIDE DEF d
<1>4. /\ phase' = phase /\ Values' = Values /\ Reachable' = Reachable
      /\ EverLive' = EverLive /\ \A b : Size(b)' = Size(b)
  BY <1>1, RunSame
<1>5. P!MovesInv'
  BY <1>1, MovesIdle DEF RunInv
<1>6. \A l \in Location : mem'[l] \subseteq Values
  <2> TAKE l \in Location
  <2>1. mem[l] \subseteq Values
    BY <1>1 DEF RunInv, RunTypes
  <2>2. \A y \in mem[l] : y[2] \in 1 .. 4
    BY <2>1 DEF Values
  <2>3. \A y \in mem[l] : <<d, y[2]>> \in Values
    BY <1>2, <1>3, <2>2, ValuesKnown
  <2> QED
    BY <1>1, <2>1, <2>3
<1>7. /\ phase = "placed" /\ pc = <<pc[1], pc[2]>> /\ pc[1] \in Reachable /\ defined \subseteq EverLive
  BY <1>1 DEF RunInv, RunTypes
<1>8. pc' # Halted
  BY <1>1, <1>2, CodeKnown DEF Halted, Blocks
<1>9. pc' = <<pc'[1], pc'[2]>> /\ pc'[1] \in Reachable' /\ pc'[2] \in 1 .. Size(pc[1])' + 1
  <2>1. pc'[1] = pc[1] /\ pc'[2] = pc[2] + 1 /\ pc' = <<pc'[1], pc'[2]>>
    BY <1>1
  <2>2. pc[2] + 1 \in 1 .. Size(pc[1]) + 1
    BY <1>2
  <2>3. Size(pc[1])' = Size(pc[1])
    BY <1>4, <2>1
  <2> QED
    BY <1>4, <1>7, <2>1, <2>2, <2>3
<1>10. defined' \subseteq EverLive'
  BY <1>1, <1>3, <1>4, <1>7
<1>11. \A l \in DOMAIN saved' : saved'[l] \subseteq Values'
  BY <1>1, <1>4 DEF RunInv, RunTypes
<1>12. DOMAIN mem' = Location /\ \A l \in Location : mem'[l] \subseteq Values'
  BY <1>1, <1>4, <1>6
<1>13. phase' = "placed" /\ step' = 1 /\ pending' = {}
  BY <1>1, <1>4, <1>7
<1> QED
  BY <1>5, <1>8, <1>9, <1>10, <1>11, <1>12, <1>13 DEF RunTypes

LEMMA TypesJump ==
  ASSUME RunInv, Jump
  PROVE  P!MovesInv' /\ RunTypes'
<1>1. /\ pc # Halted /\ pending = {} /\ AtTerm
      /\ pc' = Halted \/ \E b \in prog.blocks[pc[1]].succs : pc' = <<b, 1>>
      /\ UNCHANGED <<allocVars, step, defined, saved, moveVars>>
  BY DEF Jump, Idle
<1>2. Placement /\ prog \in Programs /\ pc[1] \in Blocks
  BY <1>1, RunsAt
<1>3. /\ phase' = phase /\ Values' = Values /\ Reachable' = Reachable
      /\ EverLive' = EverLive /\ \A b : Size(b)' = Size(b)
  BY <1>1, RunSame
<1>4. P!MovesInv' /\ pending' = {} /\ step' = step /\ mem' = mem /\ saved' = saved /\ defined' = defined
  BY <1>1, MovesIdle DEF RunInv, moveVars
<1>5. /\ phase = "placed" /\ pc[1] \in Reachable /\ defined \subseteq EverLive /\ step = 1
      /\ DOMAIN mem = Location /\ \A l \in Location : mem[l] \subseteq Values
  BY <1>1 DEF RunInv, RunTypes
<1>6. \A l \in DOMAIN saved : saved[l] \subseteq Values
  BY DEF RunInv, RunTypes
<1>7. CASE pc' = Halted
  BY <1>3, <1>4, <1>6, <1>7 DEF RunTypes
<1>8. CASE \E b \in prog.blocks[pc[1]].succs : pc' = <<b, 1>>
  <2>1. PICK b \in prog.blocks[pc[1]].succs : pc' = <<b, 1>>
    BY <1>8
  <2>2. b \in Reachable /\ b \in Blocks /\ Size(b) \in Nat
    <3>1. b \in Blocks
      BY <1>2, TerminatorKnown
    <3>2. ASSUME NEW S \in SUBSET Blocks, 1 \in S, \A c \in S : prog.blocks[c].succs \subseteq S
          PROVE  b \in S
      BY <1>5, <3>2 DEF Reachable
    <3> QED
      BY <1>2, <3>1, <3>2, CodeKnown DEF Reachable, Size
  <2>3. pc' = <<pc'[1], pc'[2]>> /\ pc'[1] = b /\ pc'[2] = 1 /\ pc' # Halted
    BY <2>1 DEF Halted
  <2>4. pc'[1] \in Reachable' /\ pc'[2] \in 1 .. Size(pc[1])' + 1
    <3>1. Size(pc[1])' = Size(b)
      BY <1>3, <2>3
    <3> QED
      BY <1>3, <2>2, <2>3, <3>1
  <2>5. step' = 1 /\ phase' = "placed"
    BY <1>3, <1>4, <1>5
  <2> QED
    BY <1>3, <1>4, <1>5, <1>6, <2>3, <2>4, <2>5 DEF RunTypes
<1> QED
  BY <1>1, <1>7, <1>8

LEMMA TypesMoves ==
  ASSUME RunInv, MakeMoves, UNCHANGED <<allocVars, pc, step, defined, saved>>
  PROVE  P!MovesInv' /\ RunTypes'
<1>1. P!MovesInv' /\ pending # {}
  BY MovesEnd DEF RunInv, MakeMoves, MoveFree, BreakCycle, Stuck
<1>2. pc # Halted
  BY <1>1 DEF RunInv, RunTypes
<1>3. Placement /\ ~AtTerm
  BY <1>1, <1>2, RunsAt DEF RunInv, RunTypes
<1>4. /\ prog' = prog /\ phase' = phase /\ Values' = Values /\ Reachable' = Reachable
      /\ EverLive' = EverLive /\ \A b : Size(b)' = Size(b)
      /\ Script' = Script /\ AtTerm' = AtTerm
  BY RunSame
<1>5. /\ start' = start /\ pending' \subseteq pending
      /\ DOMAIN mem' = Location /\ \A l \in Location : mem'[l] \subseteq Values
  <2>1. DOMAIN mem = Location /\ \A l \in Location : mem[l] \subseteq Values /\ start[l] \subseteq Values
    BY <1>1, <1>2 DEF RunInv, RunTypes
  <2>2. CASE BreakCycle
    BY <2>1, <2>2 DEF BreakCycle
  <2>3. CASE MoveFree
    <3>1. PICK i \in pending :
            /\ mem' = [mem EXCEPT ![batch[i].to] = IF i \in viaA THEN acc ELSE mem[batch[i].from]]
            /\ pending' = pending \ {i} /\ start' = start
      BY <2>3 DEF MoveFree
    <3>2. (IF i \in viaA THEN acc ELSE mem[batch[i].from]) = start[batch[i].from]
      BY DEF RunInv, P!MovesInv, P!Waiting
    <3>3. batch \in P!Batches /\ i \in 1 .. Len(batch)
      BY <1>1 DEF RunInv, P!MovesInv, P!Shape
    <3>4. batch[i].from \in Location
      BY <3>3, P!BatchShape
    <3> HIDE DEF Location
    <3> QED
      BY <2>1, <3>1, <3>2, <3>4
  <2> QED
    BY <2>2, <2>3 DEF MakeMoves
<1>6. /\ phase = "placed" /\ pc = <<pc[1], pc[2]>> /\ pc[1] \in Reachable
      /\ pc[2] \in 1 .. Size(pc[1]) + 1 /\ defined \subseteq EverLive
      /\ step \in Nat \ {0} /\ (step > 1 => step <= Len(Script) + 1)
      /\ \A l \in Location : start[l] \subseteq Values
      /\ \A l \in DOMAIN saved : saved[l] \subseteq Values
  BY <1>1, <1>2, <1>3 DEF RunInv, RunTypes
<1>7. /\ pc' # Halted /\ ~AtTerm' /\ phase' = "placed"
      /\ pc' = <<pc'[1], pc'[2]>> /\ pc'[1] \in Reachable' /\ pc'[2] \in 1 .. Size(pc[1])' + 1
      /\ defined' \subseteq EverLive' /\ step' \in Nat \ {0} /\ (step' > 1 => step' <= Len(Script)' + 1)
  BY <1>2, <1>3, <1>4, <1>6
<1>8. /\ \A l \in Location : mem'[l] \subseteq Values' /\ start'[l] \subseteq Values'
      /\ \A l \in DOMAIN saved' : saved'[l] \subseteq Values'
  BY <1>4, <1>5, <1>6
<1> QED
  BY <1>1, <1>5, <1>7, <1>8 DEF RunTypes

\* Everything of the allocation is over when the function runs.
LEMMA AllocateEnds ==
  ASSUME AllocInv, phase = "placed"
  PROVE  ~Allocate
<1>1. phase # "live" /\ phase # "walk" /\ phase # "registers" /\ phase # "slots"
  OBVIOUS
<1>2. ~EndSweep /\ ~WalkInst /\ ~WalkNext /\ ~EndWalk /\ ~EndRegisters /\ ~EndSlots
  BY <1>1 DEF EndSweep, WalkInst, WalkNext, EndWalk, EndRegisters, EndSlots
<1>3. \A b : ~Sweep(b)
  BY <1>1 DEF Sweep
<1>4. \A v : ~AssignRegisters(v) /\ ~AssignSlots(v)
  BY <1>1 DEF AssignRegisters, AssignSlots
<1> QED
  BY <1>2, <1>3, <1>4 DEF Allocate

LEMMA TypesAllocate ==
  ASSUME RunInv, Allocate, UNCHANGED runVars
  PROVE  P!MovesInv' /\ RunTypes'
<1>1. pc = Halted /\ pending = {}
  BY AllocateEnds DEF RunInv, RunTypes
<1>2. pc' = pc /\ UNCHANGED <<pending, viaA, saved>>
  BY DEF runVars, moveVars
<1>3. P!MovesInv'
  BY <1>1, <1>2, MovesIdle DEF RunInv
<1>4. prog' = prog
  BY DEF Allocate, Sweep, EndSweep, WalkInst, WalkNext, EndWalk, EndRegisters, EndSlots,
         AssignRegisters, AssignSlots
<1>5. Values' = Values
  BY <1>4 DEF Values
<1>6. Halted' = Halted
  BY DEF Halted
<1> QED
  BY <1>1, <1>2, <1>3, <1>5, <1>6 DEF RunInv, RunTypes

LEMMA TypesSame ==
  ASSUME RunInv, UNCHANGED vars
  PROVE  P!MovesInv' /\ RunTypes'
<1>1. /\ UNCHANGED allocVars /\ pc' = pc /\ step' = step /\ defined' = defined /\ saved' = saved
      /\ mem' = mem /\ batch' = batch /\ start' = start /\ pending' = pending /\ viaA' = viaA /\ acc' = acc
  BY DEF vars, runVars, moveVars
<1>2. P!MovesInv'
  BY <1>1 DEF RunInv, P!MovesInv, P!Shape, P!Waiting, P!Arrived, P!Untouched
<1>3. /\ phase' = phase /\ Values' = Values /\ Reachable' = Reachable
      /\ EverLive' = EverLive /\ \A b : Size(b)' = Size(b)
      /\ Script' = Script /\ AtTerm' = AtTerm
  BY <1>1, RunSame
<1>4. Size(pc[1])' = Size(pc[1])
  BY <1>1, <1>3
<1> QED
  BY <1>1, <1>2, <1>3, <1>4 DEF RunInv, RunTypes, Halted

LEMMA RunInvStep ==
  ASSUME RunInv, [Next]_vars
  PROVE  RunInv'
<1>1. AllocInv'
  BY AllocStep DEF RunInv
<1> SUFFICES P!MovesInv' /\ RunTypes'
  BY <1>1 DEF RunInv
<1>2. CASE Allocate /\ UNCHANGED runVars
  BY <1>2, TypesAllocate
<1>3. CASE Enter
  BY <1>3, TypesEnter
<1>4. CASE RunStep
  BY <1>4, TypesStep
<1>5. CASE Finish
  BY <1>5, TypesFinish
<1>6. CASE Jump
  BY <1>6, TypesJump
<1>7. CASE MakeMoves /\ UNCHANGED <<allocVars, pc, step, defined, saved>>
  BY <1>7, TypesMoves
<1>8. CASE UNCHANGED vars
  BY <1>8, TypesSame
<1> QED
  BY <1>2, <1>3, <1>4, <1>5, <1>6, <1>7, <1>8 DEF Next, Return

LEMMA RunInvStart ==
  ASSUME Init
  PROVE  RunInv
<1>1. AllocInv
  BY AllocStart DEF Init
<1>2. pc = Halted /\ pending = {} /\ viaA = {} /\ saved = <<>>
  BY DEF Init
<1>3. P!MovesInv
  BY <1>2 DEF P!MovesInv, P!Shape, P!Waiting, P!Arrived, P!Untouched
<1> QED
  BY <1>1, <1>2, <1>3 DEF RunInv, RunTypes

\* The invariant of allocation and execution holds throughout.
LEMMA RunInvariant == Spec => []RunInv
<1>1. Init => RunInv
  BY RunInvStart
<1>2. RunInv /\ [Next]_vars => RunInv'
  BY RunInvStep
<1> QED
  BY <1>1, <1>2, PTL DEF Spec

-----------------------------------------------------------------------------
\* Nothing has a location before the walk ends.
EarlyInv == phase \notin Later => \A v \in V : locs[v] = <<>>

LEMMA EarlyStep ==
  ASSUME RunInv, EarlyInv, [Next]_vars
  PROVE  EarlyInv'
<1>1. \/ (\E b \in Blocks : Sweep(b)) \/ EndSweep \/ WalkInst \/ WalkNext \/ EndWalk
      \/ (\E v \in V : AssignRegisters(v) \/ AssignSlots(v)) \/ EndRegisters \/ EndSlots
      \/ UNCHANGED allocVars
  BY DEF Next, Return, Allocate, vars, Enter, RunStep, Finish, Jump
<1>2. CASE (\E b \in Blocks : Sweep(b)) \/ EndSweep \/ WalkInst \/ WalkNext
  <2>1. prog' = prog /\ locs' = locs /\ phase \notin Later
    BY <1>2 DEF Sweep, EndSweep, WalkInst, WalkNext, assignVars, Later
  <2> QED
    BY <2>1, ProgSame DEF EarlyInv
<1>3. CASE EndWalk \/ EndRegisters \/ EndSlots
  BY <1>3 DEF EndWalk, EndRegisters, EndSlots, EarlyInv, Later
<1>4. CASE \E v \in V : AssignRegisters(v) \/ AssignSlots(v)
  BY <1>4 DEF AssignRegisters, AssignSlots, EarlyInv, Later
<1>5. CASE UNCHANGED allocVars
  <2>1. prog' = prog /\ locs' = locs /\ phase' = phase
    BY <1>5 DEF allocVars, assignVars
  <2> QED
    BY <2>1, ProgSame DEF EarlyInv
<1> QED
  BY <1>1, <1>2, <1>3, <1>4, <1>5

\* Every value has no location, a place of its own, or waits for a slot.
LEMMA LocsTyped ==
  ASSUME RunInv, EarlyInv, NEW v \in V
  PROVE  Range(locs[v]) \subseteq Location \cup {Spilled}
<1>1. LiveTypes /\ prog \in Programs
  BY DEF RunInv, AllocInv, WalkInv, LiveTypes
<1>2. RegHome \cup SlotHome \cup BitHome \cup ArgLocation \subseteq Location
  BY DEF RegHome, SlotHome, BitHome, ArgLocation, Location
<1>3. CASE locs[v] = <<>>
  BY <1>3 DEF Range
<1>4. CASE IsFixed(v) /\ phase \in Later
  <2>1. locs[v] = FixedLoc(v)
    BY <1>4 DEF RunInv, AllocInv, PlaceInv
  <2>2. FixedLoc(v) \in Seq(ArgLocation)
    BY <1>1, <1>4, FixedLocKnown
  <2> QED
    BY <1>2, <2>1, <2>2 DEF Range
<1>5. CASE Movable(v) /\ phase \in Later
  <2>1. /\ Blank(v) => locs[v] = <<>>
        /\ Half(v) => locs[v] \in [1 .. Bytes(v) -> RegHome \cup {Spilled}]
        /\ Full(v) /\ HasBit(v) => \E s \in 0 .. Others - 1 : locs[v] = <<Bit(s)>>
        /\ Full(v) /\ ~HasBit(v) => locs[v] \in [1 .. Bytes(v) -> RegHome \cup SlotHome]
    BY <1>5 DEF RunInv, AllocInv, PlaceInv
  <2>2. Blank(v) \/ Half(v) \/ Full(v)
    BY <1>5 DEF RunInv, AllocInv, PlaceInv, Blank, Half, Full, Later
  <2>3. CASE Blank(v)
    BY <1>3, <2>1, <2>3
  <2>4. CASE Half(v)
    BY <1>2, <2>1, <2>4 DEF Range
  <2>5. CASE Full(v) /\ HasBit(v)
    <3>1. PICK s \in 0 .. Others - 1 : locs[v] = <<Bit(s)>>
      BY <2>1, <2>5
    <3>2. Range(locs[v]) = {Bit(s)}
      BY <3>1 DEF Range
    <3> QED
      BY <1>2, <3>2 DEF BitHome
  <2>6. CASE Full(v) /\ ~HasBit(v)
    BY <1>2, <2>1, <2>6 DEF Range
  <2> QED
    BY <2>2, <2>3, <2>4, <2>5, <2>6
<1>6. phase \notin Later => locs[v] = <<>>
  BY DEF EarlyInv
<1>7. phase \in Later /\ ~Movable(v) /\ ~IsFixed(v) => locs[v] = <<>>
  BY DEF RunInv, AllocInv, PlaceInv
<1> QED
  BY <1>3, <1>4, <1>5, <1>6, <1>7

\* Types of the allocation and of the execution: when a function is placed every byte of it
\* has a location, and locations hold bytes of its virtual registers.
THEOREM TypeCorrect == Spec => []TypeOK
<1>1. Init => EarlyInv
  BY DEF Init, AllocInit, EarlyInv
<1>2. RunInv /\ EarlyInv /\ [Next]_vars => EarlyInv'
  BY EarlyStep
<1>3. RunInv /\ EarlyInv => TypeOK
  <2> SUFFICES ASSUME RunInv, EarlyInv
               PROVE  TypeOK
    OBVIOUS
  <2>1. LiveTypes /\ forbid \in [V -> SUBSET Reg] /\ prog \in Programs
    BY DEF RunInv, AllocInv, WalkInv, LiveTypes
  <2>2. Len(prog.blocks) > 0
    BY <2>1, CodeKnown DEF Blocks
  <2>3. phase \in {"live", "walk", "registers", "slots", "placed"}
    BY <2>1 DEF LiveTypes, Later
  <2>4. \A b \in Blocks : liveIn[b] \subseteq V /\ liveOut[b] \subseteq V
    BY <2>1 DEF LiveTypes
  <2>5. \A v \in V : forbid[v] \subseteq Reg
    BY <2>1
  <2>6. phase = "placed" => \A v \in V : Spilled \notin Range(locs[v])
    <3>1. Spilled \notin Location
      BY SpilledIsNone, HomesDiffer DEF Location, Spilled, RegHome, SlotHome, BitHome, ArgLocation
    <3> QED
      BY <3>1, LocsKnown DEF RunInv, Placement
  <2>7. pc # Halted => \A l \in Location : mem[l] \subseteq Values
    BY DEF RunInv, RunTypes
  <2> QED
    BY <2>2, <2>3, <2>4, <2>5, <2>6, <2>7, LocsTyped DEF TypeOK
<1> QED
  BY <1>1, <1>2, <1>3, RunInvariant, PTL DEF Spec

\* Wherever internal RAM is accessed through a pointer, R0 or R1 is free for it or holds it
\* already (alloc.rs:411), for every function and every assignment that the choices of
\* registers allow.
THEOREM PointerReadyCorrect == Spec => []PointerReady
<1>1. RunInv => PointerReady
  <2> SUFFICES ASSUME RunInv, Idle, ~AtTerm, step <= Len(Script)
               PROVE  Script[step].ready
    BY DEF PointerReady
  <2>1. pc # Halted
    BY DEF Idle
  <2>2. Placement /\ pc[1] \in Blocks /\ pc[2] \in 1 .. Size(pc[1]) /\ IsAt(pc[1], pc[2])
    BY <2>1, RunsAt
  <2>3. Len(Script) \in Nat /\ \A t \in 1 .. Len(Script) : Sound(Script[t])
    BY <2>2, ScriptSound
  <2>4. step \in 1 .. Len(Script)
    BY <2>1, <2>3 DEF RunInv, RunTypes
  <2> QED
    BY <2>3, <2>4 DEF Sound
<1> QED
  BY <1>1, RunInvariant, PTL

-----------------------------------------------------------------------------
(***************************************************************************)
(* Values: what the locations will hold when the moves that are being made *)
(* are done.                                                               *)
(***************************************************************************)
IsCall(ins) == ins.kind \in {"call", "helper"}

Has(v) == \A k \in 1 .. Bytes(v) : WillHold(locs[v][k], <<v, k>>)
HasAll(S) == \A v \in S \cap defined : Has(v)

\* Between two instructions: every value that is still read has its bytes.
Present(b, i) == saved = <<>> /\ HasAll(LiveBehind(b, i))

\* The result of an instruction is where it belongs.
Done(b, i) ==
  /\ saved = <<>> /\ HasAll(Across(b, i))
  /\ Insts(b)[i].def # 0 =>
       \A k \in 1 .. Bytes(Insts(b)[i].def) : WillHold(locs[Insts(b)[i].def][k], <<0, k>>)

\* Inside an instruction that is no call: so are the values across it, what later steps
\* read, and the bytes of the result so far.
Midway(b, i) ==
  /\ saved = <<>> /\ HasAll(Across(b, i))
  /\ \A s \in step .. Len(Script) : \A x \in Script[s].needs :
       x[2] \in defined => WillHold(x[1], <<x[2], x[3]>>)
  /\ Insts(b)[i].def # 0 =>
       \A k \in 1 .. Bytes(Insts(b)[i].def) : \E s \in 1 .. Len(Script) :
         /\ Writes(Script[s], locs[Insts(b)[i].def][k], k)
         /\ \A t \in s + 1 .. Len(Script) : ~Touches(Script[t], locs[Insts(b)[i].def][k])
         /\ s < step => WillHold(locs[Insts(b)[i].def][k], <<0, k>>)

\* Inside a call.  The slots that a recursive callee may change are saved.
Kept(b, i) ==
  /\ DOMAIN saved \subseteq SlotHome
  /\ ~Insts(b)[i].callee.recursive => saved = <<>>
  /\ Insts(b)[i].callee.recursive =>
       \A v \in Across(b, i) \cap defined : \A k \in 1 .. Bytes(v) : locs[v][k] \in SlotHome =>
         locs[v][k] \in DOMAIN saved /\ <<v, k>> \in saved[locs[v][k]]

AboutToCall(b, i) == HasAll(Across(b, i)) /\ HasAll(Uses(Insts(b)[i]))

ArgsThere(b, i) ==
  /\ HasAll(Across(b, i))
  /\ \A x \in Passed(Insts(b)[i].callee) : Insts(b)[i].uses[x[1]] \in defined =>
       WillHold(Insts(b)[i].callee.params[x[1]][x[2]], <<Insts(b)[i].uses[x[1]], x[2]>>)

Returned(b, i) ==
  /\ \A v \in Across(b, i) \cap defined : \A k \in 1 .. Bytes(v) :
       \/ Insts(b)[i].callee.recursive /\ locs[v][k] \in SlotHome
       \/ WillHold(locs[v][k], <<v, k>>)
  /\ \A k \in 1 .. Len(Insts(b)[i].callee.ret) : WillHold(Insts(b)[i].callee.ret[k], <<0, k>>)

Calling(b, i) ==
  /\ step = 1 => saved = <<>> /\ AboutToCall(b, i)
  /\ step = 2 => Kept(b, i) /\ AboutToCall(b, i)
  /\ step = 3 => Kept(b, i) /\ ArgsThere(b, i)
  /\ step = 4 => Kept(b, i) /\ Returned(b, i)
  /\ step = 5 => Done(b, i)

Running(b, i) ==
  IF i > Size(b) THEN Present(b, Size(b))
  ELSE IF IsCall(Insts(b)[i]) THEN Calling(b, i) ELSE Midway(b, i)

ValueInv ==
  /\ pc = Halted => saved = <<>>
  /\ \A b \in Blocks : \A i \in Nat : pc = <<b, i>> => Running(b, i)

-----------------------------------------------------------------------------
\* A step that leaves a location alone leaves its values there.
LEMMA StepKeeps ==
  ASSUME RunInv, RunStep, NEW o, o = Script[step], NEW l \in Location, NEW x, WillHold(l, x),
         ~Touches(o, l), o.pop = FALSE
  PROVE  WillHold(l, x)'
<1> DEFINE m0 == Tagged(Written(o), o.moves)
<1>1. pending = {} /\ o.moves \in P!Batches /\ Begin(o.moves, m0)
  BY StepKnown DEF Sound
<1>2. x \in mem[l]
  BY <1>1 DEF WillHold
<1>3. x \in Written(o)[l]
  BY <1>2 DEF Written, Touches
<1>4. x \in m0[l] /\ DOMAIN m0 = Location
  BY <1>3 DEF Tagged
<1>5. \A m \in 1 .. Len(o.moves) : o.moves[m].to = l => o.moves[m].from = l
  BY DEF Touches
<1> HIDE DEF m0
<1> QED
  BY <1>1, <1>4, <1>5, MovesBegin

\* Bytes of the result that a step writes are there when it is made.
LEMMA StepWrites ==
  ASSUME RunInv, RunStep, NEW o, o = Script[step], NEW l \in Location, NEW k, Writes(o, l, k),
         o.moves = <<>> \/ o.puts = {}
  PROVE  WillHold(l, <<0, k>>)'
<1> DEFINE m0 == Tagged(Written(o), o.moves)
<1>1. pending = {} /\ o.moves \in P!Batches /\ Begin(o.moves, m0)
  BY StepKnown DEF Sound
<1>2. DOMAIN m0 = Location
  BY DEF Tagged
<1>3. \A n \in Location : Written(o)[n] \subseteq m0[n]
  BY DEF Tagged
<1>4. CASE <<l, k>> \in o.puts
  <2>1. \A m \in 1 .. Len(o.moves) : o.moves[m].to = l => o.moves[m].from = l
    BY <1>4, NoMoves
  <2>2. <<0, k>> \in Written(o)[l]
    BY <1>4 DEF Written
  <2>3. <<0, k>> \in m0[l]
    BY <1>3, <2>2
  <2> HIDE DEF m0
  <2> QED
    BY <1>1, <1>2, <2>1, <2>3, MovesBegin
<1>5. CASE \E m \in 1 .. Len(o.moves) : o.moves[m].to = l /\ o.moves[m].byte = k /\ k # 0
  <2>1. PICK m \in 1 .. Len(o.moves) : o.moves[m].to = l /\ o.moves[m].byte = k /\ k # 0
    BY <1>5
  <2>2. o.moves[m].from \in Location
    BY <1>1, P!BatchShape
  <2>3. <<0, k>> \in m0[o.moves[m].from]
    BY <2>1, <2>2 DEF Tagged
  <2> HIDE DEF m0
  <2> QED
    BY <1>1, <1>2, <2>1, <2>3, MovesBegin
<1> QED
  BY <1>4, <1>5 DEF Writes

\* A value has its bytes as long as its locations keep them.
LEMMA HasStays ==
  ASSUME Placement, prog' = prog, locs' = locs, NEW v \in EverLive, Has(v),
         \A k \in 1 .. Bytes(v) : \A x : WillHold(locs[v][k], x) => WillHold(locs[v][k], x)'
  PROVE  Has(v)'
<1>1. Bytes(v)' = Bytes(v)
  BY ProgSame
<1> QED
  BY <1>1 DEF Has

-----------------------------------------------------------------------------
\* Where execution is.
LEMMA RunsHere ==
  ASSUME RunInv, NEW b \in Blocks, NEW i \in Nat, pc = <<b, i>>
  PROVE  /\ Placement /\ prog \in Programs /\ pc # Halted /\ Size(b) \in Nat /\ defined \subseteq EverLive
         /\ i \in 1 .. Size(b) + 1 /\ (AtTerm <=> i > Size(b))
         /\ i <= Size(b) => i \in 1 .. Size(b) /\ IsAt(b, i)
         /\ step \in Nat \ {0} /\ (AtTerm => step = 1 /\ pending = {})
         /\ 0 \notin defined
<1>1. pc[1] = b /\ pc[2] = i
  OBVIOUS
<1>2. pc # Halted
  <2>1. 0 \notin Blocks
    BY DEF Blocks
  <2> QED
    BY <1>1, <2>1 DEF Halted
<1>3. Placement /\ prog \in Programs /\ Size(b) \in Nat
  BY <1>1, <1>2, RunsAt
<1>4. /\ defined \subseteq EverLive /\ i \in 1 .. Size(b) + 1
      /\ step \in Nat \ {0} /\ (AtTerm => step = 1 /\ pending = {})
  BY <1>1, <1>2 DEF RunInv, RunTypes
<1>5. AtTerm <=> i > Size(b)
  BY <1>1 DEF AtTerm, Size
<1>6. i <= Size(b) => i \in 1 .. Size(b) /\ IsAt(b, i)
  BY <1>1, <1>3, <1>4 DEF IsAt
<1>7. 0 \notin EverLive
  BY DEF EverLive, V
<1> QED
  BY <1>2, <1>3, <1>4, <1>5, <1>6, <1>7

\* The script of an instruction that is no call is a good one.
LEMMA ScriptGood ==
  ASSUME Placement, NarrowGeneric, NEW b \in Blocks, NEW i \in 1 .. Size(b), IsAt(b, i),
         ~IsCall(Insts(b)[i])
  PROVE  Good(Script, b, i)
<1>1. prog \in Programs
  BY DEF Placement, AllocInv, WalkInv, LiveTypes
<1>2. Insts(b)[i].kind = "genload" => Bytes(Insts(b)[i].def) = 1
  BY <1>1 DEF NarrowGeneric, Insts, Blocks, Size, Bytes
<1>3. PICK ins : ins = Insts(b)[i]
  OBVIOUS
<1> QED
  BY <1>2, <1>3, GoodScript DEF IsCall

\* What the next instruction reads is what is live before it.
LEMMA PresentBefore ==
  ASSUME Placement, NEW b \in Blocks, NEW i \in 1 .. Size(b), Present(b, i - 1)
  PROVE  saved = <<>> /\ HasAll(Across(b, i)) /\ HasAll(Uses(Insts(b)[i]))
<1>1. prog \in Programs
  BY DEF Placement, AllocInv, WalkInv, LiveTypes
<1>2. LiveBehind(b, i - 1) = Across(b, i) \cup Uses(Insts(b)[i])
  BY <1>1, LiveBehindStep
<1> QED
  BY <1>2 DEF Present, HasAll

\* An instruction begins.
Entered ==
  /\ RunInv /\ NarrowGeneric /\ pc # Halted /\ step = 1
  /\ \A b \in Blocks : \A i \in Nat : pc = <<b, i>> => Present(b, i - 1)

LEMMA MidwayBegins ==
  ASSUME Placement, NarrowGeneric, NEW b \in Blocks, NEW i \in 1 .. Size(b), IsAt(b, i),
         ~IsCall(Insts(b)[i]), step = 1, Present(b, i - 1), defined \subseteq EverLive
  PROVE  Midway(b, i)
<1>1. PICK sc : sc = Script
  OBVIOUS
<1>2. PICK ins : ins = Insts(b)[i]
  OBVIOUS
<1>3. Good(sc, b, i)
  BY <1>1, ScriptGood
<1>4. saved = <<>> /\ HasAll(Across(b, i)) /\ HasAll(Uses(ins))
  BY <1>2, PresentBefore
<1>5. ASSUME NEW s \in 1 .. Len(sc), NEW x \in sc[s].needs, x[2] \in defined
      PROVE  WillHold(x[1], <<x[2], x[3]>>)
  <2>1. PICK v \in Uses(ins) : ReadsOf({x}, v)
    BY <1>2, <1>3 DEF Good, Reads
  <2>2. x[2] = v /\ x[3] \in 1 .. Bytes(v) /\ x[1] = locs[v][x[3]]
    BY <2>1 DEF ReadsOf
  <2>3. Has(v)
    BY <1>4, <1>5, <2>2 DEF HasAll
  <2> QED
    BY <2>2, <2>3 DEF Has
<1>6. ASSUME ins.def # 0, NEW k \in 1 .. Bytes(ins.def)
      PROVE  \E s \in 1 .. Len(sc) :
               /\ Writes(sc[s], locs[ins.def][k], k)
               /\ \A t \in s + 1 .. Len(sc) : ~Touches(sc[t], locs[ins.def][k])
               /\ s < 1 => WillHold(locs[ins.def][k], <<0, k>>)
  <2>1. PICK s \in 1 .. Len(sc) :
          /\ Writes(sc[s], locs[ins.def][k], k)
          /\ \A t \in s + 1 .. Len(sc) : ~Touches(sc[t], locs[ins.def][k])
    BY <1>2, <1>3, <1>6 DEF Good
  <2>2. ~(s < 1)
    OBVIOUS
  <2> QED
    BY <2>1, <2>2
<1> QED
  BY <1>1, <1>2, <1>4, <1>5, <1>6 DEF Midway

LEMMA RunningBegins ==
  ASSUME Entered, NEW b \in Blocks, NEW i \in Nat, pc = <<b, i>>
  PROVE  Running(b, i)
<1>1. RunInv /\ NarrowGeneric /\ step = 1 /\ Present(b, i - 1)
  BY DEF Entered
<1>2. /\ Placement /\ Size(b) \in Nat /\ defined \subseteq EverLive
      /\ i \in 1 .. Size(b) + 1 /\ (i <= Size(b) => i \in 1 .. Size(b) /\ IsAt(b, i))
  BY <1>1, RunsHere
<1>3. CASE i > Size(b)
  <2>1. i - 1 = Size(b)
    BY <1>2, <1>3
  <2> QED
    BY <1>1, <1>3, <2>1 DEF Running
<1>4. CASE i <= Size(b) /\ ~IsCall(Insts(b)[i])
  <2>1. Midway(b, i)
    BY <1>1, <1>2, <1>4, MidwayBegins
  <2> QED
    BY <1>2, <1>4, <2>1 DEF Running
<1>5. CASE i <= Size(b) /\ IsCall(Insts(b)[i])
  <2>1. saved = <<>> /\ AboutToCall(b, i)
    BY <1>1, <1>2, <1>5, PresentBefore DEF AboutToCall
  <2>2. Calling(b, i)
    BY <1>1, <2>1 DEF Calling
  <2> QED
    BY <1>2, <1>5, <2>2 DEF Running
<1> QED
  BY <1>2, <1>3, <1>4, <1>5

LEMMA EnteredHolds == Entered => ValueInv
<1> SUFFICES ASSUME Entered
             PROVE  ValueInv
  OBVIOUS
<1>1. pc # Halted
  BY DEF Entered
<1> QED
  BY <1>1, RunningBegins DEF ValueInv

LEMMA EnteredNext == Entered' => ValueInv'
BY EnteredHolds, PTL

-----------------------------------------------------------------------------
\* Nothing of this changes while a placed function runs.
LEMMA PlacedSame ==
  ASSUME UNCHANGED allocVars
  PROVE  /\ prog' = prog /\ locs' = locs /\ after' = after /\ Blocks' = Blocks
         /\ \A b, i : LiveBehind(b, i)' = LiveBehind(b, i) /\ Across(b, i)' = Across(b, i)
         /\ \A b : Size(b)' = Size(b) /\ Insts(b)' = Insts(b)
         /\ \A v : Bytes(v)' = Bytes(v)
<1>1. prog' = prog /\ locs' = locs /\ after' = after /\ liveOut' = liveOut
  BY DEF allocVars, liveVars, walkVars, assignVars
<1> QED
  BY <1>1, ProgSame, LiveBehindSame

\* Values stay, if their locations keep them.
LEMMA AllStay ==
  ASSUME Placement, UNCHANGED allocVars, defined' = defined, defined \subseteq EverLive,
         NEW S, HasAll(S),
         \A v \in S \cap EverLive : \A k \in 1 .. Bytes(v) : \A x :
            WillHold(locs[v][k], x) => WillHold(locs[v][k], x)'
  PROVE  \A v \in S \cap defined' : Has(v)'
<1>1. prog' = prog /\ locs' = locs
  BY PlacedSame
<1> SUFFICES ASSUME NEW v \in S \cap defined
             PROVE  Has(v)'
  OBVIOUS
<1>2. v \in EverLive /\ Has(v)
  BY DEF HasAll
<1>3. \A k \in 1 .. Bytes(v) : \A x : WillHold(locs[v][k], x) => WillHold(locs[v][k], x)'
  BY <1>2
<1> QED
  BY <1>1, <1>2, <1>3, HasStays

LEMMA MidwayStep ==
  ASSUME RunInv, NarrowGeneric, RunStep, NEW b \in Blocks, NEW i \in Nat, pc = <<b, i>>,
         i <= Size(b), ~IsCall(Insts(b)[i]), Midway(b, i)
  PROVE  Midway(b, i)'
<1>1. PICK ins : ins = Insts(b)[i]
  OBVIOUS
<1>2. PICK sc : sc = Script
  OBVIOUS
<1>3. /\ Placement /\ i \in 1 .. Size(b) /\ IsAt(b, i) /\ defined \subseteq EverLive /\ 0 \notin defined
  BY RunsHere
<1>4. Good(sc, b, i)
  BY <1>2, <1>3, ScriptGood
<1>5. /\ step \in 1 .. Len(sc) /\ Len(sc) \in Nat /\ pending = {}
      /\ saved' = (IF sc[step].push # {} THEN [l \in sc[step].push |-> mem[l]]
                   ELSE IF sc[step].pop THEN <<>> ELSE saved)
      /\ step' = step + 1 /\ UNCHANGED <<allocVars, pc, defined>>
  BY <1>2, StepKnown
<1>6. PICK o : o = sc[step]
  OBVIOUS
<1>7. IsPlain(o) /\ o = Script[step]
  BY <1>2, <1>4, <1>5, <1>6 DEF Good
<1>8. /\ prog' = prog /\ locs' = locs /\ Across(b, i)' = Across(b, i) /\ Insts(b)' = Insts(b)
      /\ \A v : Bytes(v)' = Bytes(v)
  BY <1>5, PlacedSame
<1>9. Script' = sc /\ step' = step + 1 /\ pc' = pc /\ defined' = defined
  BY <1>2, <1>5, RunSame
<1>10. \A l \in Location : ~Touches(o, l) => \A x : WillHold(l, x) => WillHold(l, x)'
  BY <1>7, StepKeeps DEF IsPlain
<1>11. saved' = <<>>
  BY <1>5, <1>6, <1>7 DEF IsPlain, Midway
<1>12. \A v \in Across(b, i) \cap defined' : Has(v)'
  <2>1. HasAll(Across(b, i))
    BY DEF Midway
  <2>2. ASSUME NEW v \in Across(b, i) \cap EverLive, NEW k \in 1 .. Bytes(v)
        PROVE  \A x : WillHold(locs[v][k], x) => WillHold(locs[v][k], x)'
    <3>1. ~Touches(o, locs[v][k])
      BY <1>4, <1>5, <1>6, <2>2 DEF Good
    <3>2. locs[v][k] \in Location
      BY <1>3, HomeKnown
    <3> QED
      BY <1>8, <1>10, <3>1, <3>2
  <2> QED
    BY <1>3, <1>5, <2>1, <2>2, AllStay
<1>13. ASSUME NEW s \in step + 1 .. Len(sc), NEW x \in sc[s].needs, x[2] \in defined
       PROVE  WillHold(x[1], <<x[2], x[3]>>)'
  <2>1. s \in 1 .. Len(sc) /\ s \in step .. Len(sc) /\ step < s
    BY <1>5
  <2>2. WillHold(x[1], <<x[2], x[3]>>)
    BY <1>2, <1>13, <2>1 DEF Midway
  <2>3. ~Touches(o, x[1])
    BY <1>4, <1>5, <1>6, <2>1 DEF Good
  <2>4. x[1] \in Location
    <3>1. PICK v \in Uses(ins) : ReadsOf({x}, v)
      BY <1>1, <1>4, <2>1 DEF Good, Reads
    <3>2. v \in EverLive
      BY <1>1, <1>3, InsKnown
    <3>3. x[3] \in 1 .. Bytes(v) /\ x[1] = locs[v][x[3]]
      BY <3>1 DEF ReadsOf
    <3> QED
      BY <1>3, <3>2, <3>3, HomeKnown
  <2> QED
    BY <1>10, <2>2, <2>3, <2>4
<1>14. ASSUME ins.def # 0, NEW k \in 1 .. Bytes(ins.def)
       PROVE  \E s \in 1 .. Len(sc) :
                /\ Writes(sc[s], locs[ins.def][k], k)
                /\ \A t \in s + 1 .. Len(sc) : ~Touches(sc[t], locs[ins.def][k])
                /\ s < step + 1 => WillHold(locs[ins.def][k], <<0, k>>)'
  <2>1. PICK s \in 1 .. Len(sc) :
           /\ Writes(sc[s], locs[ins.def][k], k)
           /\ \A t \in s + 1 .. Len(sc) : ~Touches(sc[t], locs[ins.def][k])
           /\ s < step => WillHold(locs[ins.def][k], <<0, k>>)
    BY <1>1, <1>2, <1>14 DEF Midway
  <2>2. locs[ins.def][k] \in Location
    BY <1>1, <1>3, <1>14, InsKnown, HomeKnown
  <2>3. CASE s < step
    <3>1. ~Touches(o, locs[ins.def][k])
      BY <1>5, <1>6, <2>1, <2>3
    <3> QED
      BY <1>8, <1>10, <2>1, <2>2, <2>3, <3>1
  <2>4. CASE s = step
    <3>1. Writes(o, locs[ins.def][k], k)
      BY <1>6, <2>1, <2>4
    <3>2. o.moves = <<>> \/ o.puts = {}
      BY <1>7 DEF IsPlain
    <3>3. WillHold(locs[ins.def][k], <<0, k>>)'
      BY <1>7, <1>8, <2>2, <3>1, <3>2, StepWrites
    <3> QED
      BY <2>1, <3>3
  <2>5. CASE s > step
    <3>1. ~(s < step + 1)
      BY <1>5, <2>5
    <3> QED
      BY <2>1, <3>1
  <2> QED
    <3>1. s < step \/ s = step \/ s > step
      BY <1>5
    <3> QED
      BY <2>3, <2>4, <2>5, <3>1
<1>15. HasAll(Across(b, i))'
  BY <1>8, <1>12 DEF HasAll
<1>16. (Insts(b)[i].def)' = ins.def /\ Bytes(ins.def)' = Bytes(ins.def)
  BY <1>1, <1>8
<1>17. \A s \in step' .. Len(Script') : \A x \in Script'[s].needs :
         x[2] \in defined' => WillHold(x[1], <<x[2], x[3]>>)'
  BY <1>9, <1>13
<1>18. (Insts(b)[i].def)' # 0 =>
         \A k \in 1 .. Bytes(Insts(b)[i].def)' : \E s \in 1 .. Len(Script') :
           /\ Writes(Script'[s], locs'[(Insts(b)[i].def)'][k], k)
           /\ \A t \in s + 1 .. Len(Script') : ~Touches(Script'[t], locs'[(Insts(b)[i].def)'][k])
           /\ s < step' => WillHold(locs[Insts(b)[i].def][k], <<0, k>>)'
  <2>1. ASSUME ins.def # 0, NEW k \in 1 .. Bytes(ins.def)
        PROVE  \E s \in 1 .. Len(Script') :
           /\ Writes(Script'[s], locs'[(Insts(b)[i].def)'][k], k)
           /\ \A t \in s + 1 .. Len(Script') : ~Touches(Script'[t], locs'[(Insts(b)[i].def)'][k])
           /\ s < step' => WillHold(locs[Insts(b)[i].def][k], <<0, k>>)'
    BY <1>8, <1>9, <1>14, <1>16, <2>1
  <2> QED
    BY <1>16, <2>1
<1> QED
  BY <1>11, <1>15, <1>17, <1>18 DEF Midway

-----------------------------------------------------------------------------
\* Moves in progress, and steps that change nothing, take no value away.
MovesOn ==
  /\ UNCHANGED <<allocVars, pc, step, defined, saved>>
  /\ \A l \in Location : \A x : WillHold(l, x) => WillHold(l, x)'

LEMMA HeldStay ==
  ASSUME Placement, MovesOn, defined \subseteq EverLive, NEW S, HasAll(S)
  PROVE  \A v \in S \cap defined' : Has(v)'
<1>1. UNCHANGED allocVars /\ defined' = defined
  BY DEF MovesOn
<1>2. ASSUME NEW v \in S \cap EverLive, NEW k \in 1 .. Bytes(v)
      PROVE  \A x : WillHold(locs[v][k], x) => WillHold(locs[v][k], x)'
  <2>1. locs[v][k] \in Location
    BY <1>2, HomeKnown
  <2>2. locs' = locs
    BY <1>1, PlacedSame
  <2> QED
    BY <2>1, <2>2 DEF MovesOn
<1> QED
  BY <1>1, <1>2, AllStay

\* The bytes of a result stay.
LEMMA ResultStays ==
  ASSUME Placement, MovesOn, NEW d \in EverLive, NEW k \in 1 .. Bytes(d), NEW x,
         WillHold(locs[d][k], x)
  PROVE  WillHold(locs[d][k], x)'
<1>1. locs[d][k] \in Location
  BY HomeKnown
<1>2. locs' = locs
  BY PlacedSame DEF MovesOn
<1> QED
  BY <1>1, <1>2 DEF MovesOn

LEMMA DoneStays ==
  ASSUME Placement, MovesOn, defined \subseteq EverLive, NEW b \in Blocks, NEW i \in 1 .. Size(b), Done(b, i)
  PROVE  Done(b, i)'
<1>1. PICK d : d = Insts(b)[i].def
  OBVIOUS
<1>2. /\ prog' = prog /\ locs' = locs /\ Across(b, i)' = Across(b, i) /\ Insts(b)' = Insts(b)
      /\ \A v : Bytes(v)' = Bytes(v) /\ saved' = saved
  BY PlacedSame DEF MovesOn
<1>3. HasAll(Across(b, i))'
  <2>1. HasAll(Across(b, i))
    BY DEF Done
  <2>2. \A v \in Across(b, i) \cap defined' : Has(v)'
    BY <2>1, HeldStay
  <2> QED
    BY <1>2, <2>2 DEF HasAll
<1>4. d \in EverLive \cup {0}
  BY <1>1, InsKnown
<1>5. ASSUME d # 0, NEW k \in 1 .. Bytes(d)
      PROVE  WillHold(locs[d][k], <<0, k>>)'
  <2>1. WillHold(locs[d][k], <<0, k>>) /\ d \in EverLive
    BY <1>1, <1>4, <1>5 DEF Done
  <2> QED
    BY <1>5, <2>1, ResultStays
<1>6. (Insts(b)[i].def)' = d /\ Bytes(d)' = Bytes(d)
  BY <1>1, <1>2
<1>7. saved' = <<>>
  BY <1>2 DEF Done
<1>8. (Insts(b)[i].def)' # 0 =>
        \A k \in 1 .. Bytes(Insts(b)[i].def)' : WillHold(locs[Insts(b)[i].def][k], <<0, k>>)'
  BY <1>5, <1>6
<1> QED
  BY <1>3, <1>7, <1>8 DEF Done

LEMMA MidwayStays ==
  ASSUME RunInv, NarrowGeneric, MovesOn, NEW b \in Blocks, NEW i \in 1 .. Size(b), IsAt(b, i), Placement,
         defined \subseteq EverLive, ~IsCall(Insts(b)[i]), Midway(b, i)
  PROVE  Midway(b, i)'
<1>1. PICK ins : ins = Insts(b)[i]
  OBVIOUS
<1>2. PICK sc : sc = Script
  OBVIOUS
<1>3. /\ prog' = prog /\ locs' = locs /\ Across(b, i)' = Across(b, i) /\ Insts(b)' = Insts(b)
      /\ \A v : Bytes(v)' = Bytes(v)
  BY PlacedSame DEF MovesOn
<1>4. Script' = sc /\ step' = step /\ defined' = defined /\ saved' = <<>>
  BY <1>2, RunSame DEF MovesOn, Midway
<1>5. Good(sc, b, i)
  BY <1>2, ScriptGood
<1>6. HasAll(Across(b, i))'
  <2>1. HasAll(Across(b, i))
    BY DEF Midway
  <2>2. \A v \in Across(b, i) \cap defined' : Has(v)'
    BY <2>1, HeldStay
  <2> QED
    BY <1>3, <2>2 DEF HasAll
<1>7. ASSUME NEW s \in step .. Len(sc), NEW x \in sc[s].needs, x[2] \in defined
      PROVE  WillHold(x[1], <<x[2], x[3]>>)'
  <2>1. WillHold(x[1], <<x[2], x[3]>>)
    BY <1>2, <1>7 DEF Midway
  <2>2. x[1] \in Location
    <3>1. s \in 1 .. Len(sc)
      BY <1>7 DEF RunInv, RunTypes, IsAt, Halted, Blocks
    <3>2. PICK v \in Uses(ins) : ReadsOf({x}, v)
      BY <1>1, <1>5, <3>1 DEF Good, Reads
    <3>3. v \in EverLive
      BY <1>1, InsKnown
    <3>4. x[3] \in 1 .. Bytes(v) /\ x[1] = locs[v][x[3]]
      BY <3>2 DEF ReadsOf
    <3> QED
      BY <3>3, <3>4, HomeKnown
  <2> QED
    BY <2>1, <2>2 DEF MovesOn
<1>8. ASSUME ins.def # 0, NEW k \in 1 .. Bytes(ins.def)
      PROVE  \E s \in 1 .. Len(sc) :
               /\ Writes(sc[s], locs[ins.def][k], k)
               /\ \A t \in s + 1 .. Len(sc) : ~Touches(sc[t], locs[ins.def][k])
               /\ s < step => WillHold(locs[ins.def][k], <<0, k>>)'
  <2>1. PICK s \in 1 .. Len(sc) :
           /\ Writes(sc[s], locs[ins.def][k], k)
           /\ \A t \in s + 1 .. Len(sc) : ~Touches(sc[t], locs[ins.def][k])
           /\ s < step => WillHold(locs[ins.def][k], <<0, k>>)
    BY <1>1, <1>2, <1>8 DEF Midway
  <2>2. ins.def \in EverLive
    BY <1>1, <1>8, InsKnown
  <2>3. s < step => WillHold(locs[ins.def][k], <<0, k>>)'
    BY <1>8, <2>1, <2>2, ResultStays
  <2> QED
    BY <2>1, <2>3
<1>9. (Insts(b)[i].def)' = ins.def /\ Bytes(ins.def)' = Bytes(ins.def)
  BY <1>1, <1>3
<1>10. \A s \in step' .. Len(Script') : \A x \in Script'[s].needs :
         x[2] \in defined' => WillHold(x[1], <<x[2], x[3]>>)'
  BY <1>4, <1>7
<1>11. (Insts(b)[i].def)' # 0 =>
         \A k \in 1 .. Bytes(Insts(b)[i].def)' : \E s \in 1 .. Len(Script') :
           /\ Writes(Script'[s], locs'[(Insts(b)[i].def)'][k], k)
           /\ \A t \in s + 1 .. Len(Script') : ~Touches(Script'[t], locs'[(Insts(b)[i].def)'][k])
           /\ s < step' => WillHold(locs[Insts(b)[i].def][k], <<0, k>>)'
  <2>1. ASSUME ins.def # 0, NEW k \in 1 .. Bytes(ins.def)
        PROVE  \E s \in 1 .. Len(Script') :
           /\ Writes(Script'[s], locs'[(Insts(b)[i].def)'][k], k)
           /\ \A t \in s + 1 .. Len(Script') : ~Touches(Script'[t], locs'[(Insts(b)[i].def)'][k])
           /\ s < step' => WillHold(locs[Insts(b)[i].def][k], <<0, k>>)'
    BY <1>3, <1>4, <1>8, <1>9, <2>1
  <2> QED
    BY <1>9, <2>1
<1> QED
  BY <1>4, <1>6, <1>10, <1>11 DEF Midway

\* What is saved stays so.
LEMMA KeptSame ==
  ASSUME NEW b, NEW i, Kept(b, i), UNCHANGED allocVars, saved' = saved, defined' = defined
  PROVE  Kept(b, i)'
<1>1. /\ locs' = locs /\ Across(b, i)' = Across(b, i) /\ Insts(b)' = Insts(b)
      /\ \A v : Bytes(v)' = Bytes(v)
  BY PlacedSame
<1>2. (Insts(b)[i].callee.recursive)' = Insts(b)[i].callee.recursive
  BY <1>1
<1> QED
  BY <1>1, <1>2 DEF Kept

LEMMA AboutStays ==
  ASSUME Placement, MovesOn, defined \subseteq EverLive, NEW b, NEW i, AboutToCall(b, i)
  PROVE  AboutToCall(b, i)'
<1>1. /\ prog' = prog /\ Across(b, i)' = Across(b, i) /\ Insts(b)' = Insts(b)
  BY PlacedSame DEF MovesOn
<1>2. Uses(Insts(b)[i])' = Uses(Insts(b)[i])
  BY <1>1 DEF Uses
<1>3. HasAll(Across(b, i)) /\ HasAll(Uses(Insts(b)[i]))
  BY DEF AboutToCall
<1>4. \A v \in Across(b, i) \cap defined' : Has(v)'
  BY <1>3, HeldStay
<1>5. \A v \in Uses(Insts(b)[i]) \cap defined' : Has(v)'
  BY <1>3, HeldStay
<1> QED
  BY <1>1, <1>2, <1>4, <1>5 DEF AboutToCall, HasAll

LEMMA ArgsStay ==
  ASSUME Placement, MovesOn, defined \subseteq EverLive, NEW b \in Blocks, NEW i \in 1 .. Size(b),
         IsCall(Insts(b)[i]), ArgsThere(b, i)
  PROVE  ArgsThere(b, i)'
<1>1. PICK ins : ins = Insts(b)[i]
  OBVIOUS
<1>2. /\ prog' = prog /\ Across(b, i)' = Across(b, i) /\ Insts(b)' = Insts(b) /\ defined' = defined
  BY PlacedSame DEF MovesOn
<1>3. HasAll(Across(b, i))'
  <2>1. HasAll(Across(b, i))
    BY DEF ArgsThere
  <2>2. \A v \in Across(b, i) \cap defined' : Has(v)'
    BY <2>1, HeldStay
  <2> QED
    BY <1>2, <2>2 DEF HasAll
<1>4. ASSUME NEW x \in Passed(ins.callee), ins.uses[x[1]] \in defined
      PROVE  WillHold(ins.callee.params[x[1]][x[2]], <<ins.uses[x[1]], x[2]>>)'
  <2>1. WillHold(ins.callee.params[x[1]][x[2]], <<ins.uses[x[1]], x[2]>>)
    BY <1>1, <1>4 DEF ArgsThere
  <2>2. ins.callee.params[x[1]][x[2]] \in Location
    BY <1>1, <1>4, PassedKnown DEF ArgLocation, Location, IsCall
  <2> QED
    BY <2>1, <2>2 DEF MovesOn
<1>5. (Insts(b)[i])' = ins
  BY <1>1, <1>2
<1>6. Passed(Insts(b)[i].callee)' = Passed(ins.callee)
  BY <1>5 DEF Passed
<1>7. \A x \in Passed(Insts(b)[i].callee)' : (Insts(b)[i].uses[x[1]])' \in defined' =>
        WillHold(Insts(b)[i].callee.params[x[1]][x[2]], <<Insts(b)[i].uses[x[1]], x[2]>>)'
  BY <1>2, <1>4, <1>5, <1>6
<1> QED
  BY <1>3, <1>7 DEF ArgsThere

LEMMA ReturnedStays ==
  ASSUME Placement, MovesOn, defined \subseteq EverLive, NEW b \in Blocks, NEW i \in 1 .. Size(b),
         IsCall(Insts(b)[i]), Returned(b, i)
  PROVE  Returned(b, i)'
<1>1. PICK ins : ins = Insts(b)[i]
  OBVIOUS
<1>2. /\ prog' = prog /\ locs' = locs /\ Across(b, i)' = Across(b, i) /\ Insts(b)' = Insts(b)
      /\ defined' = defined /\ \A v : Bytes(v)' = Bytes(v)
  BY PlacedSame DEF MovesOn
<1>3. (Insts(b)[i])' = ins
  BY <1>1, <1>2
<1>4. ASSUME NEW v \in Across(b, i) \cap defined, NEW k \in 1 .. Bytes(v)
      PROVE  \/ ins.callee.recursive /\ locs[v][k] \in SlotHome
             \/ WillHold(locs[v][k], <<v, k>>)'
  <2>1. \/ ins.callee.recursive /\ locs[v][k] \in SlotHome
        \/ WillHold(locs[v][k], <<v, k>>)
    BY <1>1, <1>4 DEF Returned
  <2>2. v \in EverLive
    OBVIOUS
  <2> QED
    BY <1>4, <2>1, <2>2, ResultStays
<1>5. ASSUME NEW k \in 1 .. Len(ins.callee.ret)
      PROVE  WillHold(ins.callee.ret[k], <<0, k>>)'
  <2>1. WillHold(ins.callee.ret[k], <<0, k>>)
    BY <1>1, <1>5 DEF Returned
  <2>2. ins.callee.ret[k] \in Location
    BY <1>1, <1>5, CalleeKnown DEF RetLocation, Location, IsCall
  <2> QED
    BY <2>1, <2>2 DEF MovesOn
<1>6. \A v \in Across(b, i)' \cap defined' : \A k \in 1 .. Bytes(v)' :
         \/ (Insts(b)[i].callee.recursive)' /\ locs'[v][k] \in SlotHome
         \/ WillHold(locs[v][k], <<v, k>>)'
  BY <1>2, <1>3, <1>4
<1>7. \A k \in 1 .. Len(Insts(b)[i].callee.ret)' : WillHold(Insts(b)[i].callee.ret[k], <<0, k>>)'
  BY <1>3, <1>5
<1> QED
  BY <1>6, <1>7 DEF Returned, SlotHome

LEMMA CallingStays ==
  ASSUME Placement, MovesOn, defined \subseteq EverLive, NEW b \in Blocks, NEW i \in 1 .. Size(b),
         IsCall(Insts(b)[i]), Calling(b, i)
  PROVE  Calling(b, i)'
<1>1. step' = step /\ saved' = saved /\ defined' = defined /\ UNCHANGED allocVars
  BY DEF MovesOn
<1>2. Kept(b, i) => Kept(b, i)'
  BY <1>1, KeptSame
<1>3. AboutToCall(b, i) => AboutToCall(b, i)'
  BY AboutStays
<1>4. ArgsThere(b, i) => ArgsThere(b, i)'
  BY ArgsStay
<1>5. Returned(b, i) => Returned(b, i)'
  BY ReturnedStays
<1>6. Done(b, i) => Done(b, i)'
  BY DoneStays
<1> QED
  BY <1>1, <1>2, <1>3, <1>4, <1>5, <1>6 DEF Calling

LEMMA ValuesStay ==
  ASSUME RunInv, NarrowGeneric, ValueInv, MovesOn
  PROVE  ValueInv'
<1>1. pc' = pc /\ saved' = saved /\ defined' = defined /\ Blocks' = Blocks /\ Halted' = Halted
  BY PlacedSame DEF MovesOn, Halted
<1>2. \A b : Size(b)' = Size(b) /\ Insts(b)' = Insts(b)
  BY PlacedSame DEF MovesOn
<1>3. ASSUME NEW b \in Blocks, NEW i \in Nat, pc = <<b, i>>
      PROVE  Running(b, i)'
  <2>1. /\ Placement /\ Size(b) \in Nat /\ defined \subseteq EverLive
        /\ i \in 1 .. Size(b) + 1 /\ (i <= Size(b) => i \in 1 .. Size(b) /\ IsAt(b, i))
    BY <1>3, RunsHere
  <2>2. Running(b, i)
    BY <1>3 DEF ValueInv
  <2>3. Size(b)' = Size(b) /\ IsCall(Insts(b)[i])' = IsCall(Insts(b)[i])
    BY <1>2 DEF IsCall
  <2>4. CASE i > Size(b)
    <3>1. Present(b, Size(b))
      BY <2>2, <2>4 DEF Running
    <3>2. saved' = <<>> /\ HasAll(LiveBehind(b, Size(b)))
      BY <1>1, <3>1 DEF Present
    <3>3. \A v \in LiveBehind(b, Size(b)) \cap defined' : Has(v)'
      BY <2>1, <3>2, HeldStay
    <3>4. LiveBehind(b, Size(b))' = LiveBehind(b, Size(b))
      BY <2>3, PlacedSame DEF MovesOn
    <3>5. Present(b, Size(b))'
      BY <3>2, <3>3, <3>4 DEF Present, HasAll
    <3> QED
      BY <2>3, <2>4, <3>5 DEF Running
  <2>5. CASE i <= Size(b) /\ IsCall(Insts(b)[i])
    <3>1. Calling(b, i)
      BY <2>1, <2>2, <2>5 DEF Running
    <3>2. Calling(b, i)'
      BY <2>1, <2>5, <3>1, CallingStays
    <3> QED
      BY <2>1, <2>3, <2>5, <3>2 DEF Running
  <2>6. CASE i <= Size(b) /\ ~IsCall(Insts(b)[i])
    <3>1. Midway(b, i)
      BY <2>1, <2>2, <2>6 DEF Running
    <3>2. Midway(b, i)'
      BY <2>1, <2>6, <3>1, MidwayStays
    <3> QED
      BY <2>1, <2>3, <2>6, <3>2 DEF Running
  <2> QED
    BY <2>1, <2>4, <2>5, <2>6
<1> QED
  BY <1>1, <1>3 DEF ValueInv

-----------------------------------------------------------------------------
(***************************************************************************)
(* Calls.                                                                  *)
(***************************************************************************)
\* Values that a step does not touch are still there behind it.
LEMMA HeldStep ==
  ASSUME RunInv, RunStep, NEW o, o = Script[step], o.pop = FALSE, defined \subseteq EverLive,
         NEW S, HasAll(S), \A v \in S \cap EverLive : \A k \in 1 .. Bytes(v) : ~Touches(o, locs[v][k])
  PROVE  \A v \in S \cap defined' : Has(v)'
<1>1. Placement /\ UNCHANGED allocVars /\ defined' = defined
  BY StepKnown
<1>2. ASSUME NEW v \in S \cap EverLive, NEW k \in 1 .. Bytes(v)
      PROVE  \A x : WillHold(locs[v][k], x) => WillHold(locs[v][k], x)'
  <2>1. locs[v][k] \in Location
    BY <1>1, <1>2, HomeKnown
  <2>2. locs' = locs
    BY <1>1, PlacedSame
  <2>3. ~Touches(o, locs[v][k])
    BY <1>2
  <2> QED
    BY <2>1, <2>2, <2>3, StepKeeps
<1> QED
  BY <1>1, <1>2, AllStay

\* A register of a value that lives across a call is none that the call changes, or the one
\* the value is passed in, which the callee keeps.
LEMMA AcrossHome ==
  ASSUME Placement, NEW b \in Blocks, NEW i \in 1 .. Size(b), NEW ins, ins = Insts(b)[i],
         IsCall(ins), NEW v \in Across(b, i) \cap EverLive, NEW k \in 1 .. Bytes(v)
  PROVE  /\ locs[v][k] \in RegHome \cup SlotHome \cup BitHome
         /\ \A n : locs[v][k] = R(n) =>
              n \in Reg /\ ins.kind = "call" /\ (n \notin Clobbers(ins) \/ n \in Keeps(ins, v))
<1>1. Movable(v) /\ ~IsFixed(v) /\ Clobbers(ins) \ Keeps(ins, v) \subseteq forbid[v]
  BY AcrossMovable DEF IsCall
<1>2. locs[v][k] \in RegHome \cup SlotHome \cup BitHome
  BY <1>1, HomeKnown
<1>3. ASSUME NEW n, locs[v][k] = R(n)
      PROVE  n \in Reg /\ ins.kind = "call" /\ (n \notin Clobbers(ins) \/ n \in Keeps(ins, v))
  <2>1. n \in Reg /\ n \notin forbid[v]
    BY <1>1, <1>3, HomeAllowed
  <2>2. n \notin Clobbers(ins) \/ n \in Keeps(ins, v)
    BY <1>1, <2>1
  <2>3. ins.kind = "helper" => Clobbers(ins) = Reg /\ Keeps(ins, v) = {}
    BY DEF Clobbers, Keeps
  <2> QED
    BY <2>1, <2>2, <2>3 DEF IsCall
<1> QED
  BY <1>2, <1>3

\* An argument that arrives where a value lives comes from there.
LEMMA AcrossArgs ==
  ASSUME Placement, NEW b \in Blocks, NEW i \in 1 .. Size(b), NEW ins, ins = Insts(b)[i],
         IsCall(ins), NEW v \in Across(b, i) \cap EverLive, NEW k \in 1 .. Bytes(v),
         NEW x \in Passed(ins.callee), ins.callee.params[x[1]][x[2]] = locs[v][k]
  PROVE  Source(ins.uses[x[1]], x[2]) = locs[v][k]
<1>1. /\ x[1] \in 1 .. Len(ins.callee.params) /\ x[2] \in 1 .. Len(ins.callee.params[x[1]])
      /\ ins.callee.params[x[1]][x[2]] \in ArgLocation
  BY PassedKnown DEF IsCall
<1>2. PICK n \in Reg : locs[v][k] = R(n)
  <2>1. PICK l : l = locs[v][k]
    OBVIOUS
  <2>2. l \in RegHome \cup SlotHome \cup BitHome
    BY <2>1, AcrossHome
  <2>3. l \in ArgLocation
    BY <1>1, <2>1
  <2>4. \E n \in Reg : l = R(n)
    BY <2>2, <2>3, HomesDiffer DEF ArgLocation, RegHome, SlotHome, BitHome
  <2> QED
    BY <2>1, <2>4
<1>3. ins.kind = "call" /\ (n \notin Clobbers(ins) \/ n \in Keeps(ins, v))
  BY <1>2, AcrossHome
<1>4. ins.callee.params \in Seq(Seq(ArgLocation)) /\ v \in V /\ v # 0 /\ prog \in Programs
  <2>1. ins \in Insn /\ prog \in Programs
    BY InsKnown
  <2> QED
    BY <2>1, HomeKnown DEF Insn, Summary
<1>5. R(n) \in Range(ins.callee.params[x[1]]) /\ ins.callee.params[x[1]] \in Range(ins.callee.params)
  <2>1. PICK ps : ps = ins.callee.params
    OBVIOUS
  <2>2. ps \in Seq(Seq(ArgLocation)) /\ x[1] \in 1 .. Len(ps)
    BY <1>1, <1>4, <2>1
  <2>3. ps[x[1]] \in Range(ps) /\ ps[x[1]] \in Seq(ArgLocation)
    BY <2>2 DEF Range
  <2>4. ps[x[1]][x[2]] = R(n) /\ x[2] \in 1 .. Len(ps[x[1]])
    BY <1>1, <1>2, <2>1
  <2>5. R(n) \in Range(ps[x[1]])
    BY <2>3, <2>4 DEF Range
  <2> QED
    BY <2>1, <2>3, <2>5
<1>6. n \in Clobbers(ins)
  BY <1>3, <1>5 DEF Clobbers
<1>7. PICK j \in 1 .. Len(ins.uses) :
        /\ ins.uses[j] = v /\ prog.size[v] = 1
        /\ j <= Len(ins.callee.params) /\ ins.callee.params[j] = <<R(n)>>
        /\ \A m \in 1 .. Len(ins.callee.params) :
             m # j => R(n) \notin Range(ins.callee.params[m])
  BY <1>3, <1>6 DEF Keeps
<1>8. x[1] = j
  BY <1>1, <1>5, <1>7
<1>9. x[2] = 1
  BY <1>1, <1>7, <1>8
<1>10. k = 1
  <2>1. Bytes(v) = 1
    BY <1>7 DEF Bytes, Width
  <2> QED
    BY <2>1
<1> QED
  BY <1>4, <1>7, <1>8, <1>9, <1>10 DEF Source

\* What the callee changes is not where a value lives, but a slot of its own frame may be.
LEMMA AcrossCallee ==
  ASSUME Placement, NEW b \in Blocks, NEW i \in 1 .. Size(b), NEW ins, ins = Insts(b)[i],
         IsCall(ins), NEW v \in Across(b, i) \cap EverLive, NEW k \in 1 .. Bytes(v),
         ~(ins.callee.recursive /\ locs[v][k] \in SlotHome)
  PROVE  ~Touches(Callee(ins), locs[v][k])
<1>1. PICK l : l = locs[v][k]
  OBVIOUS
<1>2. l \in RegHome \cup SlotHome \cup BitHome
  BY <1>1, AcrossHome
<1>3. /\ ins.callee.clobbers \subseteq Reg /\ Len(ins.callee.ret) \in 0 .. 4
      /\ \A m \in 1 .. Len(ins.callee.ret) : ins.callee.ret[m] \in RetLocation
  BY CalleeKnown DEF IsCall
<1>4. ins.callee.ret \in Seq(RetLocation)
  BY InsKnown DEF Insn, Summary
<1>5. ASSUME NEW n, l = R(n)
      PROVE  n \notin ins.callee.clobbers /\ R(n) \notin Range(ins.callee.ret)
  <2>1. n \in Reg /\ ins.kind = "call" /\ (n \notin Clobbers(ins) \/ n \in Keeps(ins, v))
    BY <1>1, <1>5, AcrossHome
  <2>2. CASE n \notin Clobbers(ins)
    BY <2>1, <2>2 DEF Clobbers
  <2>3. CASE n \in Keeps(ins, v)
    BY <2>1, <2>3 DEF Keeps
  <2> QED
    BY <2>1, <2>2, <2>3
<1>6. ASSUME NEW m \in 1 .. Len(ins.callee.ret), ins.callee.ret[m] = l
      PROVE  FALSE
  <2>1. l \in RetLocation
    BY <1>3, <1>6
  <2>2. PICK n \in Reg : l = R(n)
    BY <1>2, <2>1, HomesDiffer DEF RetLocation, RegHome, SlotHome, BitHome
  <2>3. l \in Range(ins.callee.ret)
    BY <1>4, <1>6 DEF Range
  <2> QED
    BY <1>5, <2>2, <2>3
<1>7. l \notin {R(n) : n \in ins.callee.clobbers}
  BY <1>5
<1>8. l \notin {Arg(n) : n \in 0 .. Others - 1}
  BY <1>2, HomesDiffer DEF RegHome, SlotHome, BitHome
<1>9. l \notin (IF ins.callee.recursive THEN {Slot(n) : n \in 0 .. Slots - 1} ELSE {})
  BY <1>1 DEF SlotHome
<1>10. PICK o : o = Callee(ins)
  OBVIOUS
<1>11. /\ o.moves = <<>>
       /\ o.ruins = {R(n) : n \in ins.callee.clobbers}
            \cup (IF ins.callee.recursive THEN {Slot(n) : n \in 0 .. Slots - 1} ELSE {})
            \cup {Arg(n) : n \in 0 .. Others - 1}
       /\ o.puts = {<<ins.callee.ret[m], m>> : m \in 1 .. Len(ins.callee.ret)}
  BY <1>10 DEF Callee, Nop
<1>12. l \notin o.ruins
  BY <1>7, <1>8, <1>9, <1>11
<1>13. ~ \E y \in o.puts : y[1] = l
  BY <1>6, <1>11
<1>14. ~ \E m \in 1 .. Len(o.moves) : o.moves[m].to = l /\ o.moves[m].from # l
  BY <1>11, NoMoves
<1>15. ~Touches(o, l)
  BY <1>12, <1>13, <1>14 DEF Touches
<1> QED
  BY <1>1, <1>10, <1>15

\* The slots in use are pushed, if the callee is this function again.
LEMMA SaveStep ==
  ASSUME RunInv, RunStep, step = 1, NEW b \in Blocks, NEW i \in 1 .. Size(b), IsAt(b, i),
         Placement, defined \subseteq EverLive, IsCall(Insts(b)[i]), saved = <<>>, AboutToCall(b, i)
  PROVE  Kept(b, i)' /\ AboutToCall(b, i)'
<1>1. PICK ins : ins = Insts(b)[i]
  OBVIOUS
<1>2. PICK o : o = Script[step]
  OBVIOUS
<1>3. o = SaveSlots(ins.callee)
  BY <1>1, <1>2, CallSteps DEF IsCall
<1>4. /\ o.push = (IF ins.callee.recursive THEN SlotsOf(after[b][i]) ELSE {})
      /\ o.pop = FALSE /\ o.moves = <<>> /\ o.puts = {} /\ o.ruins = {}
  BY <1>3 DEF SaveSlots, Nop, IsAt
<1>5. /\ pending = {} /\ UNCHANGED allocVars /\ defined' = defined
      /\ saved' = (IF o.push # {} THEN [l \in o.push |-> mem[l]] ELSE IF o.pop THEN <<>> ELSE saved)
  BY <1>2, StepKnown
<1>6. \A l : ~Touches(o, l)
  BY <1>4, NoMoves DEF Touches
<1>7. /\ locs' = locs /\ Across(b, i)' = Across(b, i) /\ Insts(b)' = Insts(b)
      /\ \A v : Bytes(v)' = Bytes(v)
  BY <1>5, PlacedSame
<1>8. HasAll(Across(b, i)) /\ HasAll(Uses(ins))
  BY <1>1 DEF AboutToCall
<1>9. \A v \in Across(b, i) \cap defined' : Has(v)'
  BY <1>2, <1>4, <1>6, <1>8, HeldStep
<1>10. \A v \in Uses(ins) \cap defined' : Has(v)'
  BY <1>2, <1>4, <1>6, <1>8, HeldStep
<1>11. AboutToCall(b, i)'
  <2>1. Uses(Insts(b)[i])' = Uses(ins)
    BY <1>1, <1>7 DEF Uses
  <2> QED
    BY <1>7, <1>9, <1>10, <2>1 DEF AboutToCall, HasAll
<1>12. after[b][i] = LiveBehind(b, i) /\ LiveBehind(b, i) \subseteq V /\ Across(b, i) \subseteq LiveBehind(b, i)
  <2>1. Recorded(b, i)
    BY <1>1, InsKnown
  <2> QED
    BY <2>1 DEF Recorded, LiveBehind, Across
<1>13. SlotsOf(after[b][i]) \subseteq SlotHome
  <2> SUFFICES ASSUME NEW l \in SlotsOf(after[b][i])
               PROVE  l \in SlotHome
    OBVIOUS
  <2>1. PICK v \in after[b][i] : l \in Range(locs[v])
    BY DEF SlotsOf
  <2>2. l \in Location
    BY <1>12, <2>1, LocsKnown
  <2>3. l[1] = "slot"
    BY DEF SlotsOf
  <2> QED
    BY <2>2, <2>3 DEF Location, SlotHome, R, A, K, Slot, Bit, Arg
<1>14. ASSUME ins.callee.recursive, NEW v \in Across(b, i) \cap defined, NEW k \in 1 .. Bytes(v),
              locs[v][k] \in SlotHome
       PROVE  locs[v][k] \in DOMAIN saved' /\ <<v, k>> \in saved'[locs[v][k]]
  <2>1. v \in EverLive /\ Has(v)
    BY <1>8 DEF HasAll
  <2>2. locs[v][k] \in Range(locs[v])
    BY <1>14, <2>1, HomeKnown DEF Range
  <2>3. locs[v][k][1] = "slot"
    BY <1>14 DEF SlotHome, Slot
  <2>4. v \in after[b][i]
    BY <1>12
  <2>5. locs[v][k] \in SlotsOf(after[b][i])
    BY <2>2, <2>3, <2>4 DEF SlotsOf
  <2>6. locs[v][k] \in o.push
    BY <1>4, <1>14, <2>5
  <2>7. saved' = [l \in o.push |-> mem[l]]
    BY <1>5, <2>6
  <2>8. <<v, k>> \in mem[locs[v][k]]
    BY <1>5, <1>14, <2>1 DEF Has, WillHold
  <2> QED
    BY <2>6, <2>7, <2>8
<1>15. DOMAIN saved' \subseteq SlotHome
  <2>1. CASE o.push # {}
    BY <1>4, <1>5, <1>13, <2>1
  <2>2. CASE o.push = {}
    BY <1>4, <1>5, <2>2
  <2> QED
    BY <2>1, <2>2
<1>16. ~ins.callee.recursive => saved' = <<>>
  BY <1>4, <1>5
<1>17. Kept(b, i)'
  <2>1. (Insts(b)[i])' = ins
    BY <1>1, <1>7
  <2>2. ins.callee.recursive =>
          \A v \in Across(b, i)' \cap defined' : \A k \in 1 .. Bytes(v)' : locs'[v][k] \in SlotHome =>
            locs'[v][k] \in DOMAIN saved' /\ <<v, k>> \in saved'[locs'[v][k]]
    BY <1>5, <1>7, <1>14
  <2> QED
    BY <1>15, <1>16, <2>1, <2>2 DEF Kept, SlotHome
<1> QED
  BY <1>11, <1>17

\* The arguments are moved to where the callee finds them.
LEMMA PassStep ==
  ASSUME RunInv, RunStep, step = 2, NEW b \in Blocks, NEW i \in 1 .. Size(b), IsAt(b, i),
         Placement, defined \subseteq EverLive, 0 \notin defined, IsCall(Insts(b)[i]),
         Kept(b, i), AboutToCall(b, i)
  PROVE  Kept(b, i)' /\ ArgsThere(b, i)'
<1>1. PICK ins : ins = Insts(b)[i]
  OBVIOUS
<1>2. PICK o : o = Script[step]
  OBVIOUS
<1>3. o = PassArgs(ins)
  BY <1>1, <1>2, CallSteps DEF IsCall
<1>4. /\ o.push = {} /\ o.pop = FALSE /\ o.puts = {} /\ o.ruins = {} /\ o.moves = ArgMoves(ins)
  BY <1>3 DEF PassArgs, Nop
<1>5. /\ pending = {} /\ UNCHANGED allocVars /\ defined' = defined /\ saved' = saved
      /\ Begin(o.moves, Tagged(Written(o), o.moves))
  BY <1>2, <1>4, StepKnown
<1>6. /\ locs' = locs /\ Across(b, i)' = Across(b, i) /\ Insts(b)' = Insts(b)
      /\ \A v : Bytes(v)' = Bytes(v)
  BY <1>5, PlacedSame
<1>7. PICK ms : ms = ArgMoves(ins)
  OBVIOUS
<1>8. /\ ms \in P!Batches
      /\ \A m \in 1 .. Len(ms) : \E x \in Passed(ins.callee) :
           /\ ms[m].to = ins.callee.params[x[1]][x[2]]
           /\ ms[m].from = Source(ins.uses[x[1]], x[2])
      /\ \A x \in Passed(ins.callee) : \E m \in 1 .. Len(ms) :
           /\ ms[m].to = ins.callee.params[x[1]][x[2]]
           /\ ms[m].from = Source(ins.uses[x[1]], x[2])
  <2>1. ins.kind \in {"call", "helper"}
    BY <1>1 DEF IsCall
  <2>2. ms \in P!Batches /\ Brings(ms, ins)
    BY <1>1, <1>7, <2>1, ArgMovesKnown
  <2> QED
    BY <2>2 DEF Brings
<1>9. Kept(b, i)'
  BY <1>5, KeptSame
<1>10. HasAll(Across(b, i)) /\ HasAll(Uses(ins))
  BY <1>1 DEF AboutToCall
<1>11. ASSUME NEW v \in Across(b, i) \cap EverLive, NEW k \in 1 .. Bytes(v)
       PROVE  ~Touches(o, locs[v][k])
  <2>1. ASSUME NEW m \in 1 .. Len(ms), ms[m].to = locs[v][k]
        PROVE  ms[m].from = locs[v][k]
    <3>1. PICK x \in Passed(ins.callee) :
            /\ ms[m].to = ins.callee.params[x[1]][x[2]]
            /\ ms[m].from = Source(ins.uses[x[1]], x[2])
      BY <1>8
    <3>2. ins.callee.params[x[1]][x[2]] = locs[v][k] /\ IsCall(ins)
      BY <1>1, <2>1, <3>1
    <3>3. Source(ins.uses[x[1]], x[2]) = locs[v][k]
      BY <1>1, <3>2, AcrossArgs
    <3> QED
      BY <3>1, <3>3
  <2> QED
    BY <1>4, <1>7, <2>1 DEF Touches
<1>12. \A v \in Across(b, i) \cap defined' : Has(v)'
  BY <1>2, <1>4, <1>10, <1>11, HeldStep
<1>13. ASSUME NEW x \in Passed(ins.callee), ins.uses[x[1]] \in defined
       PROVE  WillHold(ins.callee.params[x[1]][x[2]], <<ins.uses[x[1]], x[2]>>)'
  <2>1. PICK v : v = ins.uses[x[1]]
    OBVIOUS
  <2>2. v # 0 /\ v \in defined
    BY <1>13, <2>1
  <2>3. v \in Uses(ins) /\ x[2] \in 1 .. Bytes(v)
    BY <1>1, <2>1, <2>2, PassedKnown DEF IsCall
  <2>4. Has(v)
    BY <1>10, <2>2, <2>3 DEF HasAll
  <2>5. <<v, x[2]>> \in mem[locs[v][x[2]]] /\ locs[v][x[2]] \in Location
    BY <1>5, <2>2, <2>3, <2>4, HomeKnown DEF Has, WillHold
  <2>6. PICK m \in 1 .. Len(ms) :
          /\ ms[m].to = ins.callee.params[x[1]][x[2]]
          /\ ms[m].from = Source(ins.uses[x[1]], x[2])
    BY <1>8
  <2>7. ms[m].from = locs[v][x[2]]
    BY <2>1, <2>2, <2>6 DEF Source
  <2>8. <<v, x[2]>> \in Tagged(Written(o), ms)[ms[m].from]
    BY <1>4, <2>5, <2>7 DEF Tagged, Written
  <2>9. DOMAIN Tagged(Written(o), ms) = Location
    BY DEF Tagged
  <2>10. WillHold(ms[m].to, <<v, x[2]>>)'
    BY <1>4, <1>5, <1>7, <1>8, <2>8, <2>9, MovesBegin
  <2> QED
    BY <2>1, <2>6, <2>10
<1>14. ArgsThere(b, i)'
  <2>1. (Insts(b)[i])' = ins
    BY <1>1, <1>6
  <2>2. Passed(Insts(b)[i].callee)' = Passed(ins.callee)
    BY <2>1 DEF Passed
  <2>3. \A x \in Passed(Insts(b)[i].callee)' : (Insts(b)[i].uses[x[1]])' \in defined' =>
          WillHold(Insts(b)[i].callee.params[x[1]][x[2]], <<Insts(b)[i].uses[x[1]], x[2]>>)'
    BY <1>5, <1>13, <2>1, <2>2
  <2> QED
    BY <1>6, <1>12, <2>3 DEF ArgsThere, HasAll
<1> QED
  BY <1>9, <1>14

\* The callee leaves its result; what it may have changed besides is in the slots that were
\* pushed, or not needed.
LEMMA CalleeStep ==
  ASSUME RunInv, RunStep, step = 3, NEW b \in Blocks, NEW i \in 1 .. Size(b), IsAt(b, i),
         Placement, defined \subseteq EverLive, IsCall(Insts(b)[i]), Kept(b, i), ArgsThere(b, i)
  PROVE  Kept(b, i)' /\ Returned(b, i)'
<1>1. PICK ins : ins = Insts(b)[i]
  OBVIOUS
<1>2. PICK o : o = Script[step]
  OBVIOUS
<1>3. o = Callee(ins)
  BY <1>1, <1>2, CallSteps DEF IsCall
<1>4. /\ o.push = {} /\ o.pop = FALSE /\ o.moves = <<>>
      /\ o.puts = {<<ins.callee.ret[k], k>> : k \in 1 .. Len(ins.callee.ret)}
  BY <1>3 DEF Callee, Nop
<1>5. UNCHANGED allocVars /\ defined' = defined /\ saved' = saved
  BY <1>2, <1>4, StepKnown
<1>6. /\ locs' = locs /\ Across(b, i)' = Across(b, i) /\ Insts(b)' = Insts(b)
      /\ \A v : Bytes(v)' = Bytes(v)
  BY <1>5, PlacedSame
<1>7. Kept(b, i)'
  BY <1>5, KeptSame
<1>8. ASSUME NEW v \in Across(b, i) \cap defined, NEW k \in 1 .. Bytes(v)
      PROVE  \/ ins.callee.recursive /\ locs[v][k] \in SlotHome
             \/ WillHold(locs[v][k], <<v, k>>)'
  <2>1. v \in EverLive /\ Has(v)
    BY DEF ArgsThere, HasAll
  <2>2. CASE ~(ins.callee.recursive /\ locs[v][k] \in SlotHome)
    <3>1. ~Touches(o, locs[v][k])
      BY <1>1, <1>3, <1>8, <2>1, <2>2, AcrossCallee
    <3>2. WillHold(locs[v][k], <<v, k>>)
      BY <1>8, <2>1 DEF Has
    <3>3. locs[v][k] \in Location
      BY <1>8, <2>1, HomeKnown
    <3> QED
      BY <1>2, <1>4, <1>6, <3>1, <3>2, <3>3, StepKeeps
  <2> QED
    BY <2>2
<1>9. ASSUME NEW k \in 1 .. Len(ins.callee.ret)
      PROVE  WillHold(ins.callee.ret[k], <<0, k>>)'
  <2>1. Writes(o, ins.callee.ret[k], k)
    BY <1>4, <1>9 DEF Writes
  <2>2. ins.callee.ret[k] \in Location
    BY <1>1, <1>9, CalleeKnown DEF RetLocation, Location, IsCall
  <2> QED
    BY <1>2, <1>4, <2>1, <2>2, StepWrites
<1>10. (Insts(b)[i])' = ins
  BY <1>1, <1>6
<1>11. \A v \in Across(b, i)' \cap defined' : \A k \in 1 .. Bytes(v)' :
         \/ (Insts(b)[i].callee.recursive)' /\ locs'[v][k] \in SlotHome
         \/ WillHold(locs[v][k], <<v, k>>)'
  BY <1>5, <1>6, <1>8, <1>10
<1>12. \A k \in 1 .. Len(Insts(b)[i].callee.ret)' : WillHold(Insts(b)[i].callee.ret[k], <<0, k>>)'
  BY <1>9, <1>10
<1> QED
  BY <1>7, <1>11, <1>12 DEF Returned, SlotHome

\* The slots are popped, then the result is moved to its place.
LEMMA ResultStep ==
  ASSUME RunInv, RunStep, step = 4, NEW b \in Blocks, NEW i \in 1 .. Size(b), IsAt(b, i),
         Placement, defined \subseteq EverLive, IsCall(Insts(b)[i]), Kept(b, i), Returned(b, i)
  PROVE  Done(b, i)'
<1>1. PICK ins : ins = Insts(b)[i]
  OBVIOUS
<1>2. PICK o : o = Script[step]
  OBVIOUS
<1>3. PICK ms : ms = IF ins.def = 0 THEN <<>> ELSE ResultMoves(ins)
  OBVIOUS
<1>4. o = TakeResult(ins)
  BY <1>1, <1>2, CallSteps DEF IsCall
<1>5. /\ o.push = {} /\ o.pop = ins.callee.recursive /\ o.puts = {} /\ o.ruins = {} /\ o.moves = ms
  BY <1>3, <1>4 DEF TakeResult, Nop
<1>6. /\ pending = {} /\ UNCHANGED allocVars /\ defined' = defined
      /\ saved' = (IF o.push # {} THEN [l \in o.push |-> mem[l]] ELSE IF o.pop THEN <<>> ELSE saved)
      /\ Begin(o.moves, Tagged(Written(o), o.moves)) /\ o.moves \in P!Batches
  BY <1>2, StepKnown DEF Sound
<1>7. /\ prog' = prog /\ locs' = locs /\ Across(b, i)' = Across(b, i) /\ Insts(b)' = Insts(b)
      /\ \A v : Bytes(v)' = Bytes(v)
  BY <1>6, PlacedSame
<1>8. saved' = <<>>
  BY <1>1, <1>5, <1>6, CalleeKnown DEF Kept, IsCall
<1>9. ins.def \in EverLive \cup {0} /\ ins.kind # "copy"
  BY <1>1, InsKnown DEF IsCall
<1>10. ASSUME ins.def # 0
       PROVE  /\ Len(ms) = Bytes(ins.def)
              /\ \A k \in 1 .. Bytes(ins.def) :
                   /\ ms[k].to = locs[ins.def][k] /\ ms[k].from = ins.callee.ret[k]
                   /\ ins.callee.ret[k] \in RetLocation
  <2>1. ms = ResultMoves(ins) /\ ins.kind \in {"call", "helper"}
    BY <1>1, <1>3, <1>10 DEF IsCall
  <2> QED
    BY <1>1, <1>10, <2>1, ResultMovesKnown
<1>11. ins.def = 0 => 1 .. Len(ms) = {}
  BY <1>3, NoMoves
<1> DEFINE m0 == Tagged(Written(o), ms)
<1>12. DOMAIN m0 = Location /\ \A l \in Location : Written(o)[l] \subseteq m0[l]
  BY DEF Tagged
<1>13. \A l \in Location : Written(o)[l] = IF o.pop /\ l \in DOMAIN saved THEN saved[l] ELSE mem[l]
  BY <1>5 DEF Written
<1> HIDE DEF m0
<1>14. ASSUME NEW v \in Across(b, i) \cap defined, NEW k \in 1 .. Bytes(v)
       PROVE  WillHold(locs[v][k], <<v, k>>)'
  <2>1. v \in EverLive /\ locs[v][k] \in Location
    BY <1>14, HomeKnown
  <2>2. <<v, k>> \in Written(o)[locs[v][k]]
    <3>1. CASE ins.callee.recursive /\ locs[v][k] \in SlotHome
      <4>1. locs[v][k] \in DOMAIN saved /\ <<v, k>> \in saved[locs[v][k]]
        BY <1>1, <1>14, <3>1 DEF Kept
      <4> QED
        BY <1>5, <1>13, <2>1, <3>1, <4>1
    <3>2. CASE ~(ins.callee.recursive /\ locs[v][k] \in SlotHome)
      <4>1. <<v, k>> \in mem[locs[v][k]]
        BY <1>1, <1>6, <1>14, <3>2 DEF Returned, WillHold
      <4>2. ~(o.pop /\ locs[v][k] \in DOMAIN saved)
        BY <1>1, <1>5, <3>2 DEF Kept
      <4> QED
        BY <1>13, <2>1, <4>1, <4>2
    <3> QED
      BY <3>1, <3>2
  <2>3. \A m \in 1 .. Len(ms) : ms[m].to # locs[v][k]
    <3>1. CASE ins.def = 0
      BY <1>11, <3>1
    <3>2. CASE ins.def # 0
      <4>1. \A n \in 1 .. Bytes(ins.def) : locs[v][k] # locs[ins.def][n]
        BY <1>1, <1>9, <1>14, <2>1, <3>2, AcrossApart
      <4> QED
        BY <1>10, <3>2, <4>1
    <3> QED
      BY <3>1, <3>2
  <2>4. PICK l \in Location : l = locs[v][k]
    BY <2>1
  <2>5. <<v, k>> \in m0[l] /\ \A m \in 1 .. Len(ms) : ms[m].to = l => ms[m].from = l
    BY <1>12, <2>2, <2>3, <2>4
  <2>6. WillHold(l, <<v, k>>)'
    BY <1>5, <1>6, <1>12, <2>5, MovesBegin DEF m0
  <2> QED
    BY <1>7, <2>4, <2>6
<1>15. ASSUME ins.def # 0, NEW k \in 1 .. Bytes(ins.def)
       PROVE  WillHold(locs[ins.def][k], <<0, k>>)'
  <2>1. ms[k].to = locs[ins.def][k] /\ ms[k].from = ins.callee.ret[k] /\ k \in 1 .. Len(ms)
    BY <1>10, <1>15
  <2>2. ins.callee.ret[k] \in Location /\ ins.callee.ret[k] \notin SlotHome
    BY <1>10, <1>15, HomesDiffer DEF RetLocation, Location, SlotHome
  <2>3. <<0, k>> \in mem[ins.callee.ret[k]]
    <3>1. Len(ins.callee.ret) = Bytes(ins.def)
      BY <1>1, <1>15, CalleeKnown DEF IsCall
    <3> QED
      BY <1>1, <1>6, <1>15, <3>1 DEF Returned, WillHold
  <2>4. ins.callee.ret[k] \notin DOMAIN saved
    BY <2>2 DEF Kept
  <2>5. <<0, k>> \in m0[ms[k].from]
    BY <1>12, <1>13, <2>1, <2>2, <2>3, <2>4
  <2>6. WillHold(ms[k].to, <<0, k>>)'
    BY <1>5, <1>6, <1>12, <2>1, <2>5, MovesBegin DEF m0
  <2> QED
    BY <1>7, <2>1, <2>6
<1>16. HasAll(Across(b, i))'
  BY <1>6, <1>7, <1>14 DEF HasAll, Has
<1>17. (Insts(b)[i].def)' = ins.def /\ Bytes(ins.def)' = Bytes(ins.def)
  BY <1>1, <1>7
<1>18. (Insts(b)[i].def)' # 0 =>
        \A k \in 1 .. Bytes(Insts(b)[i].def)' : WillHold(locs[Insts(b)[i].def][k], <<0, k>>)'
  BY <1>7, <1>15, <1>17
<1> QED
  BY <1>8, <1>16, <1>18 DEF Done

-----------------------------------------------------------------------------
(***************************************************************************)
(* Every step keeps the values.                                            *)
(***************************************************************************)
LEMMA CallingStep ==
  ASSUME RunInv, RunStep, NEW b \in Blocks, NEW i \in Nat, pc = <<b, i>>, i <= Size(b),
         IsCall(Insts(b)[i]), Calling(b, i)
  PROVE  Calling(b, i)'
<1>1. /\ Placement /\ i \in 1 .. Size(b) /\ IsAt(b, i) /\ defined \subseteq EverLive /\ 0 \notin defined
  BY RunsHere
<1>2. PICK ins : ins = Insts(b)[i]
  OBVIOUS
<1>3. step \in 1 .. 4 /\ step' = step + 1
  <2>1. step \in 1 .. Len(Script) /\ step' = step + 1
    BY StepKnown
  <2>2. Len(Script) = 4
    BY <1>1, <1>2, CallSteps DEF IsCall
  <2> QED
    BY <2>1, <2>2
<1>4. CASE step = 1
  <2>1. Kept(b, i)' /\ AboutToCall(b, i)'
    BY <1>1, <1>4, SaveStep DEF Calling
  <2> QED
    BY <1>3, <1>4, <2>1 DEF Calling
<1>5. CASE step = 2
  <2>1. Kept(b, i)' /\ ArgsThere(b, i)'
    BY <1>1, <1>5, PassStep DEF Calling
  <2> QED
    BY <1>3, <1>5, <2>1 DEF Calling
<1>6. CASE step = 3
  <2>1. Kept(b, i)' /\ Returned(b, i)'
    BY <1>1, <1>6, CalleeStep DEF Calling
  <2> QED
    BY <1>3, <1>6, <2>1 DEF Calling
<1>7. CASE step = 4
  <2>1. Done(b, i)'
    BY <1>1, <1>7, ResultStep DEF Calling
  <2> QED
    BY <1>3, <1>7, <2>1 DEF Calling
<1> QED
  BY <1>3, <1>4, <1>5, <1>6, <1>7

LEMMA ValuesStep ==
  ASSUME RunInv, NarrowGeneric, ValueInv, RunStep
  PROVE  ValueInv'
<1>1. pc' = pc /\ pc # Halted /\ ~AtTerm /\ UNCHANGED allocVars
  BY StepKnown
<1>2. Blocks' = Blocks /\ Halted' = Halted /\ \A b : Size(b)' = Size(b) /\ Insts(b)' = Insts(b)
  BY <1>1, PlacedSame DEF Halted
<1>3. ASSUME NEW b \in Blocks, NEW i \in Nat, pc = <<b, i>>
      PROVE  Running(b, i)'
  <2>1. Size(b) \in Nat /\ i <= Size(b)
    BY <1>1, <1>3, RunsHere
  <2>2. Running(b, i)
    BY <1>3 DEF ValueInv
  <2>3. Size(b)' = Size(b) /\ IsCall(Insts(b)[i])' = IsCall(Insts(b)[i])
    BY <1>2 DEF IsCall
  <2>4. CASE IsCall(Insts(b)[i])
    <3>1. Calling(b, i)
      BY <2>1, <2>2, <2>4 DEF Running
    <3>2. Calling(b, i)'
      BY <1>3, <2>1, <2>4, <3>1, CallingStep
    <3> QED
      BY <2>1, <2>3, <2>4, <3>2 DEF Running
  <2>5. CASE ~IsCall(Insts(b)[i])
    <3>1. Midway(b, i)
      BY <2>1, <2>2, <2>5 DEF Running
    <3>2. Midway(b, i)'
      BY <1>3, <2>1, <2>5, <3>1, MidwayStep
    <3> QED
      BY <2>1, <2>3, <2>5, <3>2 DEF Running
  <2> QED
    BY <2>4, <2>5
<1> QED
  BY <1>1, <1>2, <1>3 DEF ValueInv

\* When all steps are made the result is where it belongs.
LEMMA DoneAtEnd ==
  ASSUME RunInv, Finish, NEW b \in Blocks, NEW i \in Nat, pc = <<b, i>>, Running(b, i)
  PROVE  i \in 1 .. Size(b) /\ Done(b, i)
<1>1. pc # Halted /\ pending = {} /\ ~AtTerm /\ step > Len(Script)
  BY DEF Finish, Idle
<1>2. /\ Placement /\ Size(b) \in Nat /\ i \in 1 .. Size(b) /\ IsAt(b, i) /\ step \in Nat
  BY <1>1, RunsHere
<1>3. CASE IsCall(Insts(b)[i])
  <2>1. PICK ins : ins = Insts(b)[i]
    OBVIOUS
  <2>2. Len(Script) = 4
    BY <1>2, <1>3, <2>1, CallSteps DEF IsCall
  <2>3. step <= Len(Script) + 1
    BY <1>1, <1>2, <2>2 DEF RunInv, RunTypes
  <2>4. step = 5
    BY <1>1, <1>2, <2>2, <2>3
  <2> QED
    BY <1>2, <1>3, <2>4 DEF Running, Calling
<1>4. CASE ~IsCall(Insts(b)[i])
  <2>1. Midway(b, i)
    BY <1>2, <1>4 DEF Running
  <2>2. PICK n : n = Len(Script)
    OBVIOUS
  <2>3. n \in Nat
    BY <1>2, <2>2, ScriptSound
  <2>4. \A s \in 1 .. n : s < step
    BY <1>1, <1>2, <2>2, <2>3
  <2> QED
    BY <1>2, <2>1, <2>2, <2>4 DEF Midway, Done
<1> QED
  BY <1>2, <1>3, <1>4

\* Behind the instruction its result is the value of its register.
LEMMA PresentBehind ==
  ASSUME RunInv, Finish, NEW b \in Blocks, NEW i \in 1 .. Size(b), pc = <<b, i>>, Done(b, i)
  PROVE  Present(b, i)'
<1>1. PICK d : d = Insts(b)[i].def
  OBVIOUS
<1>2. /\ pending = {} /\ pending' = {} /\ UNCHANGED allocVars /\ saved' = saved
      /\ mem' = [l \in Location |->
                   {x \in mem[l] : x[1] \notin {0, d}}
                     \cup (IF d = 0 THEN {} ELSE {<<d, x[2]>> : x \in {y \in mem[l] : y[1] = 0}})]
      /\ defined' = defined \cup ({d} \ {0})
  BY <1>1 DEF Finish, Idle
<1>3. i \in Nat
  <2>1. Size(b) \in Nat
    BY CodeKnown DEF RunInv, AllocInv, WalkInv, LiveTypes, Size
  <2> QED
    BY <2>1
<1>4. Placement /\ defined \subseteq EverLive /\ 0 \notin defined
  BY <1>3, RunsHere
<1>5. /\ locs' = locs /\ LiveBehind(b, i)' = LiveBehind(b, i) /\ \A v : Bytes(v)' = Bytes(v)
  BY <1>2, PlacedSame
<1>6. d \in EverLive \cup {0} /\ LiveBehind(b, i) \subseteq Across(b, i) \cup {d}
  BY <1>1, <1>4, InsKnown
<1>7. ASSUME NEW v \in LiveBehind(b, i) \cap defined', NEW k \in 1 .. Bytes(v)
      PROVE  <<v, k>> \in mem'[locs[v][k]]
  <2>1. v \in EverLive
    BY <1>2, <1>4, <1>6
  <2>2. locs[v][k] \in Location /\ v # 0
    BY <1>4, <1>7, <2>1, HomeKnown
  <2>3. CASE v = d
    <3>1. <<0, k>> \in mem[locs[v][k]]
      BY <1>1, <1>2, <1>7, <2>2, <2>3 DEF Done, WillHold
    <3> QED
      BY <1>2, <2>2, <2>3, <3>1
  <2>4. CASE v # d
    <3>1. v \in Across(b, i) \cap defined
      BY <1>2, <1>6, <2>4
    <3>2. <<v, k>> \in mem[locs[v][k]]
      BY <1>2, <1>7, <3>1 DEF Done, HasAll, Has, WillHold
    <3> QED
      BY <1>2, <2>2, <2>4, <3>2
  <2> QED
    BY <2>3, <2>4
<1>8. \A v \in LiveBehind(b, i) \cap defined' : \A k \in 1 .. Bytes(v)' : WillHold(locs[v][k], <<v, k>>)'
  BY <1>2, <1>5, <1>7 DEF WillHold
<1>9. saved' = <<>>
  BY <1>2 DEF Done
<1> QED
  BY <1>5, <1>8, <1>9 DEF Present, HasAll, Has

LEMMA ValuesFinish ==
  ASSUME RunInv, NarrowGeneric, ValueInv, Finish, RunInv'
  PROVE  ValueInv'
<1>1. /\ pc # Halted /\ ~AtTerm /\ pc' = <<pc[1], pc[2] + 1>> /\ step' = 1 /\ UNCHANGED allocVars
  BY DEF Finish, Idle
<1>2. Blocks' = Blocks
  BY <1>1, PlacedSame
<1>3. pc = <<pc[1], pc[2]>> /\ pc[1] \in Blocks /\ pc[2] \in 1 .. Size(pc[1]) /\ Size(pc[1]) \in Nat
  BY <1>1, RunsAt DEF RunInv, RunTypes
<1>4. pc' # Halted
  BY <1>1, <1>3 DEF Halted, Blocks
<1>5. ASSUME NEW b \in Blocks, NEW i \in Nat, pc' = <<b, i>>
      PROVE  Present(b, i - 1)'
  <2>1. PICK j \in Nat : j = pc[2]
    BY <1>3
  <2>2. b = pc[1] /\ i = j + 1 /\ pc = <<b, j>>
    BY <1>1, <1>3, <1>5, <2>1
  <2>3. Running(b, j)
    BY <2>2 DEF ValueInv
  <2>4. j \in 1 .. Size(b) /\ Done(b, j)
    BY <2>2, <2>3, DoneAtEnd
  <2>5. Present(b, j)'
    BY <2>2, <2>4, PresentBehind
  <2>6. i - 1 = j
    BY <2>2
  <2> QED
    BY <2>5, <2>6
<1>6. NarrowGeneric'
  BY DEF NarrowGeneric, Width
<1>7. Entered'
  BY <1>1, <1>2, <1>4, <1>5, <1>6 DEF Entered, Halted
<1> QED
  BY <1>7, EnteredNext

\* What a successor needs at its beginning is there at the end of the block.
LEMMA ValuesJump ==
  ASSUME RunInv, NarrowGeneric, ValueInv, Jump, RunInv'
  PROVE  ValueInv'
<1>1. /\ pc # Halted /\ pending = {} /\ AtTerm
      /\ pc' = Halted \/ \E b \in prog.blocks[pc[1]].succs : pc' = <<b, 1>>
      /\ UNCHANGED <<allocVars, step, defined, saved, moveVars>>
  BY DEF Jump, Idle
<1>2. PICK c \in Blocks : c = pc[1]
  BY <1>1, RunsAt
<1>3. PICK j \in Nat : j = pc[2]
  BY <1>1, RunsAt
<1>4. pc = <<c, j>> /\ c \in Reachable
  BY <1>1, <1>2, <1>3 DEF RunInv, RunTypes
<1>5. /\ Placement /\ prog \in Programs /\ Size(c) \in Nat /\ defined \subseteq EverLive /\ j > Size(c) /\ step = 1
  BY <1>1, <1>4, RunsHere
<1>6. saved = <<>> /\ HasAll(LiveBehind(c, Size(c)))
  <2>1. Running(c, j)
    BY <1>4 DEF ValueInv
  <2> QED
    BY <1>5, <2>1 DEF Running, Present
<1>7. saved' = saved /\ mem' = mem /\ pending' = pending /\ defined' = defined /\ step' = step
  BY <1>1 DEF moveVars
<1>8. CASE pc' = Halted
  <2>1. 0 \notin Blocks'
    BY DEF Blocks
  <2>2. ASSUME NEW b \in Blocks', NEW i \in Nat, pc' = <<b, i>>
        PROVE  FALSE
    BY <1>8, <2>1, <2>2 DEF Halted
  <2> QED
    BY <1>6, <1>7, <2>2 DEF ValueInv
<1>9. CASE \E b \in prog.blocks[pc[1]].succs : pc' = <<b, 1>>
  <2>1. PICK s \in prog.blocks[c].succs : pc' = <<s, 1>>
    BY <1>2, <1>9
  <2>2. s \in Blocks /\ s \in Reachable /\ s # 0
    <3>1. s \in Blocks /\ s # 0
      BY <1>5, TerminatorKnown DEF Blocks
    <3>2. ASSUME NEW S \in SUBSET Blocks, 1 \in S, \A e \in S : prog.blocks[e].succs \subseteq S
          PROVE  s \in S
      BY <1>4, <3>2 DEF Reachable
    <3> QED
      BY <3>1, <3>2 DEF Reachable
  <2>3. pc' # Halted
    BY <2>1, <2>2 DEF Halted
  <2>4. liveOut[c] \subseteq V /\ liveOut[s] \subseteq V
    BY <1>2, <2>2 DEF RunInv, AllocInv, WalkInv, LiveTypes
  <2>5. liveOut[c] = OutOf(c) /\ liveOut[s] = OutOf(s) /\ liveIn[s] = InOf(s)
    BY <1>4, <1>5, <2>2 DEF Placement, AllocInv, SweepInv, Settled
  <2>6. LiveBehind(s, 0) \subseteq LiveBehind(c, Size(c))
    <3>1. LiveBehind(s, 0) = liveIn[s]
      BY <1>5, <2>2, <2>4, <2>5, LiveBehindStart DEF InOf
    <3>2. liveIn[s] \subseteq OutOf(c)
      BY <2>1 DEF OutOf
    <3>3. LiveBehind(c, Size(c)) = LiveBeforeTerm(c)
      BY <1>5, <2>4, LiveBehindEnd
    <3> QED
      BY <2>5, <3>1, <3>2, <3>3 DEF LiveBeforeTerm
  <2>7. /\ locs' = locs /\ LiveBehind(s, 0)' = LiveBehind(s, 0) /\ \A v : Bytes(v)' = Bytes(v)
        /\ Blocks' = Blocks
    BY <1>1, PlacedSame
  <2>8. \A v \in LiveBehind(s, 0) \cap defined : \A k \in 1 .. Bytes(v) : <<v, k>> \in mem[locs[v][k]]
    BY <1>1, <1>6, <2>6 DEF HasAll, Has, WillHold
  <2>9. \A v \in LiveBehind(s, 0)' \cap defined' : \A k \in 1 .. Bytes(v)' : WillHold(locs[v][k], <<v, k>>)'
    BY <1>1, <1>7, <2>7, <2>8 DEF WillHold
  <2>10. Present(s, 0)'
    BY <1>6, <1>7, <2>9 DEF Present, HasAll, Has
  <2>11. ASSUME NEW b \in Blocks', NEW i \in Nat, pc' = <<b, i>>
         PROVE  Present(b, i - 1)'
    <3>1. b = s /\ i - 1 = 0
      BY <2>1, <2>11
    <3> QED
      BY <2>10, <3>1
  <2>12. NarrowGeneric'
    BY DEF NarrowGeneric, Width
  <2>13. Entered'
    BY <1>5, <1>7, <2>3, <2>11, <2>12 DEF Entered, Halted
  <2> QED
    BY <2>13, EnteredNext
<1> QED
  BY <1>1, <1>8, <1>9

\* The function finds its parameters: no two of them arrive at one place.
LEMMA ParamsArrive ==
  ASSUME Placement, NEW v \in Params, NEW k \in 1 .. Bytes(v)
  PROVE  Arrives(locs[v][k]) = {<<v, k>>} /\ Cardinality(Arrives(locs[v][k])) = 1
<1>1. prog \in Programs
  BY DEF Placement, AllocInv, WalkInv, LiveTypes
<1>2. Params \subseteq EverLive
  BY <1>1, ParamsKnown
<1>3. \A p \in Params : Len(locs[p]) = Bytes(p) /\ Bytes(p) \in 1 .. 4
  BY <1>2, HomeKnown
<1>4. ASSUME NEW x \in Arrives(locs[v][k])
      PROVE  x = <<v, k>>
  <2>1. /\ x \in Params \X (1 .. 4) /\ x[2] <= Len(locs[x[1]]) /\ locs[x[1]][x[2]] = locs[v][k]
    BY DEF Arrives
  <2>2. PICK p \in Params : p = x[1]
    BY <2>1
  <2>3. PICK j \in 1 .. Bytes(p) : j = x[2]
    BY <1>3, <2>1, <2>2
  <2>4. x = <<p, j>> /\ locs[p][j] = locs[v][k]
    BY <2>1, <2>2, <2>3
  <2>5. p = v
    <3>1. p # v => {p, v} \in interf
      BY DEF Placement, AllocInv, ParamsApart, Later
    <3> QED
      BY <1>2, <2>4, <3>1, HomesApart
  <2>6. j = k
    BY <1>2, <2>4, <2>5, HomesOwn
  <2> QED
    BY <2>4, <2>5, <2>6
<1>5. <<v, k>> \in Arrives(locs[v][k])
  <2>1. k \in 1 .. 4 /\ k <= Len(locs[v])
    BY <1>3
  <2> QED
    BY <2>1 DEF Arrives
<1>6. Arrives(locs[v][k]) = {<<v, k>>}
  BY <1>4, <1>5
<1> QED
  BY <1>6, FS_Singleton

LEMMA ValuesEnter ==
  ASSUME RunInv, NarrowGeneric, ValueInv, Enter, RunInv'
  PROVE  ValueInv'
<1>1. /\ phase = "placed" /\ pc = Halted /\ pc' = <<1, 1>> /\ step' = 1 /\ defined' = Params
      /\ mem' = [l \in Location |-> IF Cardinality(Arrives(l)) = 1 THEN Arrives(l) ELSE {}]
      /\ UNCHANGED allocVars /\ pending' = pending /\ saved' = saved
  BY DEF Enter
<1>2. Placement /\ prog \in Programs /\ pending = {} /\ saved = <<>>
  BY <1>1 DEF RunInv, RunTypes, Placement, AllocInv, WalkInv, LiveTypes, ValueInv
<1>3. locs' = locs /\ \A v : Bytes(v)' = Bytes(v)
  BY <1>1, PlacedSame
<1>4. Params \subseteq EverLive
  BY <1>2, ParamsKnown
<1>5. ASSUME NEW v \in Params, NEW k \in 1 .. Bytes(v)
      PROVE  <<v, k>> \in mem'[locs[v][k]]
  <2>1. locs[v][k] \in Location
    BY <1>2, <1>4, <1>5, HomeKnown
  <2>2. Arrives(locs[v][k]) = {<<v, k>>} /\ Cardinality(Arrives(locs[v][k])) = 1
    BY <1>2, <1>5, ParamsArrive
  <2> QED
    BY <1>1, <2>1, <2>2
<1>6. \A v \in defined' : \A k \in 1 .. Bytes(v)' : WillHold(locs[v][k], <<v, k>>)'
  BY <1>1, <1>2, <1>3, <1>5 DEF WillHold
<1>7. saved' = <<>>
  BY <1>1, <1>2
<1>8. ASSUME NEW b \in Blocks', NEW i \in Nat, pc' = <<b, i>>
      PROVE  Present(b, i - 1)'
  BY <1>6, <1>7 DEF Present, HasAll, Has
<1>9. NarrowGeneric'
  BY DEF NarrowGeneric, Width
<1>10. pc' # Halted
  BY <1>1 DEF Halted
<1>11. Entered'
  BY <1>1, <1>8, <1>9, <1>10 DEF Entered, Halted
<1> QED
  BY <1>11, EnteredNext

LEMMA ValueInvStep ==
  ASSUME RunInv, NarrowGeneric, ValueInv, [Next]_vars
  PROVE  ValueInv'
<1>1. RunInv'
  BY RunInvStep
<1>2. CASE Allocate /\ UNCHANGED runVars
  <2>1. pc = Halted
    BY <1>2, AllocateEnds DEF RunInv, RunTypes
  <2>2. pc' = pc /\ saved' = saved /\ Halted' = Halted
    BY <1>2 DEF runVars, Halted
  <2>3. 0 \notin Blocks'
    BY DEF Blocks
  <2>4. ASSUME NEW b \in Blocks', NEW i \in Nat, pc' = <<b, i>>
        PROVE  FALSE
    BY <2>1, <2>2, <2>3, <2>4 DEF Halted
  <2> QED
    BY <2>1, <2>2, <2>4 DEF ValueInv
<1>3. CASE Enter
  BY <1>1, <1>3, ValuesEnter
<1>4. CASE RunStep
  BY <1>4, ValuesStep
<1>5. CASE Finish
  BY <1>1, <1>5, ValuesFinish
<1>6. CASE Jump
  BY <1>1, <1>6, ValuesJump
<1>7. CASE MakeMoves /\ UNCHANGED <<allocVars, pc, step, defined, saved>>
  <2>1. MovesOn
    BY <1>7, MovesEnd DEF RunInv, MovesOn
  <2> QED
    BY <2>1, ValuesStay
<1>8. CASE UNCHANGED vars
  <2>1. /\ UNCHANGED <<allocVars, pc, step, defined, saved>>
        /\ mem' = mem /\ batch' = batch /\ start' = start /\ pending' = pending
    BY <1>8 DEF vars, runVars, moveVars
  <2>2. MovesOn
    BY <2>1 DEF MovesOn, WillHold
  <2> QED
    BY <2>2, ValuesStay
<1> QED
  BY <1>2, <1>3, <1>4, <1>5, <1>6, <1>7, <1>8 DEF Next, Return

-----------------------------------------------------------------------------
\* Whatever is read now is there.
LEMMA NeededIsThere ==
  ASSUME RunInv, NarrowGeneric, ValueInv, Idle, NEW x \in Needed, x[2] \in defined
  PROVE  <<x[2], x[3]>> \in mem[x[1]]
<1>1. pc # Halted /\ pending = {}
  BY DEF Idle
<1>2. PICK b \in Blocks : b = pc[1]
  BY <1>1, RunsAt
<1>3. PICK i \in Nat : i = pc[2]
  BY <1>1, RunsAt
<1>4. pc = <<b, i>>
  BY <1>1, <1>2, <1>3 DEF RunInv, RunTypes
<1>5. /\ Placement /\ prog \in Programs /\ Size(b) \in Nat /\ defined \subseteq EverLive
      /\ (AtTerm <=> i > Size(b)) /\ (i <= Size(b) => i \in 1 .. Size(b) /\ IsAt(b, i))
      /\ i \in 1 .. Size(b) + 1 /\ step \in Nat \ {0} /\ 0 \notin defined
  BY <1>4, RunsHere
<1>6. Running(b, i)
  BY <1>4 DEF ValueInv
<1>7. SUFFICES WillHold(x[1], <<x[2], x[3]>>)
  BY <1>1 DEF WillHold
<1>8. ASSUME NEW v \in EverLive, Has(v), x \in NeedAll(v)
      PROVE  WillHold(x[1], <<x[2], x[3]>>)
  <2>1. PICK k \in 1 .. Bytes(v) : x = <<locs[v][k], v, k>>
    BY <1>8 DEF NeedAll, Need
  <2> QED
    BY <1>8, <2>1 DEF Has
<1>9. CASE AtTerm
  <2>1. PICK v \in prog.blocks[b].uses : x \in NeedAll(v)
    BY <1>2, <1>9 DEF Needed
  <2>2. v \in V /\ v \in EverLive /\ x[2] = v
    BY <1>5, <2>1, TerminatorKnown DEF NeedAll, Need
  <2>3. HasAll(LiveBehind(b, Size(b)))
    BY <1>5, <1>6, <1>9 DEF Running, Present
  <2>4. v \in LiveBehind(b, Size(b))
    <3>1. liveOut[b] \subseteq V
      BY DEF RunInv, AllocInv, WalkInv, LiveTypes
    <3> QED
      BY <1>5, <2>1, <3>1, LiveBehindEnd DEF LiveBeforeTerm
  <2> QED
    BY <1>8, <2>1, <2>2, <2>3, <2>4 DEF HasAll
<1>10. CASE ~AtTerm
  <2>1. PICK ins : ins = Insts(b)[i]
    OBVIOUS
  <2>2. step <= Len(Script) /\ x \in Script[step].needs /\ i <= Size(b)
    BY <1>5, <1>10 DEF Needed
  <2>3. CASE ~IsCall(ins)
    <3>1. Midway(b, i) /\ Len(Script) \in Nat
      BY <1>5, <1>6, <2>1, <2>2, <2>3, ScriptSound DEF Running
    <3>2. step \in step .. Len(Script)
      BY <1>5, <2>2, <3>1
    <3> QED
      BY <2>2, <3>1, <3>2 DEF Midway
  <2>4. CASE IsCall(ins)
    <3>1. Calling(b, i)
      BY <1>5, <1>6, <2>1, <2>2, <2>4 DEF Running
    <3>2. /\ Len(Script) = 4
          /\ Script[1] = SaveSlots(ins.callee) /\ Script[2] = PassArgs(ins)
          /\ Script[3] = Callee(ins) /\ Script[4] = TakeResult(ins)
      BY <1>5, <2>1, <2>2, <2>4, CallSteps DEF IsCall
    <3>3. step \in {1, 2, 3, 4}
      BY <1>5, <2>2, <3>2
    <3>4. SaveSlots(ins.callee).needs = {} /\ TakeResult(ins).needs = {}
      BY DEF SaveSlots, TakeResult, Nop
    <3>5. CASE step = 2
      <4>1. x \in UNION {Need(ins.uses[y[1]], y[2]) : y \in Passed(ins.callee)}
        BY <2>2, <3>2, <3>5 DEF PassArgs, Nop
      <4>2. PICK y \in Passed(ins.callee) : x \in Need(ins.uses[y[1]], y[2])
        BY <4>1
      <4>3. PICK v : v = ins.uses[y[1]]
        OBVIOUS
      <4>4. v # 0 /\ x = <<locs[v][y[2]], v, y[2]>>
        BY <4>2, <4>3 DEF Need
      <4>5. v \in Uses(ins) /\ y[2] \in 1 .. Bytes(v)
        BY <1>5, <2>1, <2>2, <2>4, <4>3, <4>4, PassedKnown DEF IsCall
      <4>6. Has(v)
        BY <2>1, <3>1, <3>5, <4>4, <4>5 DEF Calling, AboutToCall, HasAll
      <4> QED
        BY <4>4, <4>5, <4>6 DEF Has
    <3>6. CASE step = 3
      <4>1. x \in {<<ins.callee.params[y[1]][y[2]], ins.uses[y[1]], y[2]>> :
                     y \in {z \in Passed(ins.callee) : ins.uses[z[1]] # 0}}
        BY <2>2, <3>2, <3>6 DEF Callee, Nop
      <4>2. PICK y \in Passed(ins.callee) :
               x = <<ins.callee.params[y[1]][y[2]], ins.uses[y[1]], y[2]>>
        BY <4>1
      <4>3. ArgsThere(b, i)
        BY <3>1, <3>6 DEF Calling
      <4> QED
        BY <2>1, <4>2, <4>3 DEF ArgsThere
    <3> QED
      BY <2>2, <3>2, <3>3, <3>4, <3>5, <3>6
  <2> QED
    BY <2>3, <2>4
<1> QED
  BY <1>9, <1>10

\* Whatever an instruction reads is the present value of its operand (alloc.rs:176): for every
\* function, with any blocks, calls and recursion, and every assignment of registers and slots
\* that the allocation allows.  Generic loads are of one byte: those of several bytes are a
\* finding.
THEOREM ReadsRightCorrect ==
  ASSUME NarrowGeneric
  PROVE  Spec => []ReadsRight
<1>1. Init => ValueInv
  <2> SUFFICES ASSUME Init
               PROVE  ValueInv
    OBVIOUS
  <2>1. pc = Halted /\ saved = <<>> /\ 0 \notin Blocks
    BY DEF Init, Blocks
  <2>2. \A b \in Blocks : \A i \in Nat : pc # <<b, i>>
    BY <2>1 DEF Halted
  <2> QED
    BY <2>1, <2>2 DEF ValueInv
<1>2. RunInv /\ ValueInv /\ [Next]_vars => ValueInv'
  BY ValueInvStep
<1>3. RunInv /\ ValueInv => ReadsRight
  BY NeededIsThere DEF ReadsRight
<1> QED
  BY <1>1, <1>2, <1>3, RunInvariant, PTL DEF Spec

-----------------------------------------------------------------------------
\* The moves of a step of a script, or of a call, are one step of Simultaneous; everything
\* else happens while nothing is being moved.
LEMMA MovesOfRun ==
  ASSUME RunInv, [Next]_vars
  PROVE  [AsOne!Other \/ AsOne!MoveAll]_<<Store, Asked>>
<1>1. CASE pending = {}
  <2>1. Asked = <<>>
    BY <1>1 DEF Asked
  <2> QED
    BY <2>1 DEF AsOne!Other
<1>2. CASE pending # {}
  <2>1. pc # Halted
    BY <1>2 DEF RunInv, RunTypes
  <2>2. phase = "placed" /\ AllocInv
    BY <2>1 DEF RunInv, RunTypes
  <2>3. MakeMoves \/ UNCHANGED vars
    BY <1>2, <2>1, <2>2, AllocateEnds DEF Next, Return, Enter, RunStep, Finish, Jump, Idle
  <2>4. CASE MoveFree
    <3>0. P!MovesInv /\ P!MoveFree
      BY <2>4 DEF RunInv, MoveFree, P!MoveFree, Free, P!Free
    <3>1. /\ pending' = {} => P!AsOne!MoveAll
          /\ pending' # {} => UNCHANGED <<P!Store, P!Asked>>
      BY <3>0, P!MoveKeeps
    <3>2. P!AsOne!MoveAll => AsOne!MoveAll
      BY DEF P!AsOne!MoveAll, AsOne!MoveAll, P!Store, P!Asked, Store, Asked
    <3>3. UNCHANGED <<P!Store, P!Asked>> => UNCHANGED <<Store, Asked>>
      BY DEF P!Store, P!Asked, Store, Asked
    <3> QED
      BY <3>1, <3>2, <3>3
  <2>5. CASE BreakCycle
    <3>0. P!MovesInv /\ P!BreakCycle
      BY <2>5 DEF RunInv, BreakCycle, P!BreakCycle, Stuck, P!Stuck, Free, P!Free, AccHeld,
                  P!AccHeld, Readers, P!Readers
    <3>1. UNCHANGED <<P!Store, P!Asked>>
      BY <3>0, P!BreakKeeps
    <3> QED
      BY <3>1 DEF P!Store, P!Asked, Store, Asked
  <2>6. CASE UNCHANGED vars
    BY <2>6 DEF vars, runVars, moveVars, Store, Asked
  <2> QED
    BY <2>3, <2>4, <2>5, <2>6 DEF MakeMoves
<1> QED
  BY <1>1, <1>2

\* Copies, arguments and results of every function move as if at once (select.rs, par_move),
\* whichever locations the allocation chose for them.
THEOREM RunMovesAtOnce == Spec => AtOnce
<1>1. Init => Asked = <<>>
  BY DEF Init, Asked
<1>2. RunInv /\ [Next]_vars => [AsOne!Other \/ AsOne!MoveAll]_<<Store, Asked>>
  BY MovesOfRun
<1> QED
  BY <1>1, <1>2, RunInvariant, PTL DEF Spec, AtOnce, AsOne!Spec

\* A is free whenever the moves of a function meet a cycle (select.rs:783).
THEOREM RunNeverNested == Spec => []NeverNested
<1>1. RunInv => NeverNested
  <2>1. ASSUME P!MovesInv, Stuck PROVE ~AccHeld
    <3>1. P!Stuck
      BY <2>1 DEF Stuck, P!Stuck, Free, P!Free
    <3> QED
      BY <2>1, <3>1, P!StuckEmptiesA DEF AccHeld, P!AccHeld
  <2> QED
    BY <2>1 DEF RunInv, NeverNested
<1> QED
  BY <1>1, RunInvariant, PTL
=============================================================================
