--------------------------- MODULE ParMoveProofs ---------------------------
(***************************************************************************)
(* Parallel moves of any length, on any locations, among any other code:   *)
(* if no two of them have one destination, they act as if made at once,    *)
(* and one byte in A is enough, however many cycles they form.             *)
(***************************************************************************)
EXTENDS ParMove, FiniteSetTheorems, TLAPS

CONSTANTS Loc, Val

\* The batches that callers of par_move ask for: no two moves to one location.
Distinct(b) == \A i, j \in 1 .. Len(b) : i # j => b[i].to # b[j].to
Batches == {b \in Seq([to : Loc, from : Loc, byte : Nat]) : Distinct(b)}

\* All other code of the function; it does not run between the moves of a batch.
Elsewhere == pending = {} /\ pending' = {} /\ viaA' = {}

Ask == pending = {} /\ \E moves \in Batches, m0 \in [Loc -> Val] : Begin(moves, m0)

MoveInit == pending = {} /\ viaA = {}
MoveNext == Elsewhere \/ Ask \/ MakeMoves
MoveSpec == MoveInit /\ [][MoveNext]_moveVars

-----------------------------------------------------------------------------
\* While moves are pending they are moves of a batch, and memory has its shape.
Shape ==
  /\ viaA \subseteq pending
  /\ pending # {} =>
       /\ batch \in Batches /\ pending \subseteq 1 .. Len(batch)
       /\ DOMAIN mem = Loc /\ DOMAIN start = Loc

\* What a pending move waits for is where it will look for it.
Waiting ==
  \A i \in pending :
    start[batch[i].from] = IF i \in viaA THEN acc ELSE mem[batch[i].from]

\* A move that was made (or was none) has put its byte where it belongs.
Arrived ==
  pending # {} =>
    \A i \in 1 .. Len(batch) : i \notin pending => mem[batch[i].to] = start[batch[i].from]

\* No other location has changed.
Untouched ==
  pending # {} =>
    \A l \in Loc : (\A i \in 1 .. Len(batch) : batch[i].to # l) => mem[l] = start[l]

MovesInv == Shape /\ Waiting /\ Arrived /\ Untouched

\* A sequence over S has its elements in S.
LEMMA ElementIn ==
  ASSUME NEW S, NEW s \in Seq(S), NEW i \in 1 .. Len(s)
  PROVE  s[i] \in S
OBVIOUS

\* A batch has a length, and its moves are between locations.
LEMMA BatchShape ==
  ASSUME NEW b \in Batches
  PROVE  /\ Len(b) \in Nat
         /\ \A i \in 1 .. Len(b) : b[i].to \in Loc /\ b[i].from \in Loc
         /\ \A i, j \in 1 .. Len(b) : i # j => b[i].to # b[j].to
<1>1. b \in Seq([to : Loc, from : Loc, byte : Nat]) /\ Distinct(b)
  BY DEF Batches
<1>2. Len(b) \in Nat
  BY <1>1
<1>3. \A i \in 1 .. Len(b) : b[i] \in [to : Loc, from : Loc, byte : Nat]
  BY <1>1, ElementIn
<1> QED BY <1>1, <1>2, <1>3 DEF Distinct

\* Asking for moves establishes the invariant.
LEMMA AskKeeps ==
  ASSUME MovesInv, Ask
  PROVE  MovesInv'
<1>1. PICK moves \in Batches, m0 \in [Loc -> Val] : Begin(moves, m0)
  BY DEF Ask
<1>2. /\ mem' = m0 /\ batch' = moves /\ viaA' = {}
      /\ pending' = {i \in 1 .. Len(moves) : moves[i].to # moves[i].from}
  BY <1>1 DEF Begin
<1>3. CASE pending' = {}
  BY <1>2, <1>3 DEF MovesInv, Shape, Waiting, Arrived, Untouched
<1>4. CASE pending' # {}
  <2>1. moves # <<>>
    <3>1. PICK i : i \in 1 .. Len(moves)
      BY <1>2, <1>4
    <3> QED BY <3>1, BatchShape
  <2>2. start' = m0
    BY <1>1, <2>1 DEF Begin
  <2>3. Shape'
    BY <1>2, <2>2 DEF Shape
  <2>4. Waiting'
    BY <1>2, <2>2 DEF Waiting
  <2>5. Arrived'
    BY <1>2, <2>2 DEF Arrived
  <2>6. Untouched'
    BY <1>2, <2>2 DEF Untouched
  <2> QED BY <2>3, <2>4, <2>5, <2>6 DEF MovesInv
<1> QED BY <1>3, <1>4

\* What a free move leaves behind: the others still find their bytes, its own has arrived.
LEMMA FreeMoveEffect ==
  ASSUME MovesInv, NEW i \in pending, Free(i),
         mem' = [mem EXCEPT ![batch[i].to] =
                   IF i \in viaA THEN acc ELSE mem[batch[i].from]],
         pending' = pending \ {i}, viaA' = viaA \ {i},
         UNCHANGED <<batch, start, acc>>
  PROVE  /\ Shape' /\ Waiting'
         /\ \A k \in 1 .. Len(batch) :
              k \notin pending' => mem'[batch[k].to] = start[batch[k].from]
         /\ \A l \in Loc : (\A k \in 1 .. Len(batch) : batch[k].to # l) =>
                             mem'[l] = start[l]
<1>1. /\ viaA \subseteq pending /\ pending \subseteq 1 .. Len(batch)
      /\ batch \in Batches /\ DOMAIN mem = Loc /\ DOMAIN start = Loc
  BY DEF MovesInv, Shape
<1>2. /\ \A k \in 1 .. Len(batch) : batch[k].to \in Loc /\ batch[k].from \in Loc
      /\ \A k, j \in 1 .. Len(batch) : k # j => batch[k].to # batch[j].to
  BY <1>1, BatchShape
<1>3. mem'[batch[i].to] = start[batch[i].from]
  BY <1>1, <1>2 DEF MovesInv, Waiting
<1>4. \A l \in Loc : l # batch[i].to => mem'[l] = mem[l]
  BY <1>1
<1>5. Shape'
  BY <1>1 DEF Shape
<1>6. Waiting'
  <2> SUFFICES ASSUME NEW j \in pending, j # i
               PROVE  start[batch[j].from] = IF j \in viaA THEN acc ELSE mem'[batch[j].from]
    BY DEF Waiting
  <2>1. CASE j \in viaA
    BY <2>1 DEF MovesInv, Waiting
  <2>2. CASE j \notin viaA
    <3>1. batch[j].from # batch[i].to
      BY <2>2 DEF Free
    <3> QED BY <1>1, <1>2, <1>4, <2>2, <3>1 DEF MovesInv, Waiting
  <2> QED BY <2>1, <2>2
<1>7. ASSUME NEW k \in 1 .. Len(batch), k \notin pending'
      PROVE  mem'[batch[k].to] = start[batch[k].from]
  <2>1. CASE k = i
    BY <1>3, <2>1
  <2>2. CASE k # i
    BY <1>1, <1>2, <1>4, <1>7, <2>2 DEF MovesInv, Arrived
  <2> QED BY <2>1, <2>2
<1>8. ASSUME NEW l \in Loc, \A k \in 1 .. Len(batch) : batch[k].to # l
      PROVE  mem'[l] = start[l]
  BY <1>1, <1>4, <1>8 DEF MovesInv, Untouched
<1> QED BY <1>5, <1>6, <1>7, <1>8

\* One move keeps the invariant, and when it is the last the batch is done.
LEMMA MoveKeeps ==
  ASSUME MovesInv, MoveFree
  PROVE  /\ MovesInv'
         /\ pending' = {} => AsOne!MoveAll
         /\ pending' # {} => UNCHANGED <<Store, Asked>>
<1>1. PICK i \in pending :
        /\ Free(i)
        /\ mem' = [mem EXCEPT ![batch[i].to] =
                     IF i \in viaA THEN acc ELSE mem[batch[i].from]]
        /\ pending' = pending \ {i} /\ viaA' = viaA \ {i}
        /\ UNCHANGED <<batch, start, acc>>
  BY DEF MoveFree
<1>2. /\ Shape' /\ Waiting'
      /\ \A k \in 1 .. Len(batch) :
           k \notin pending' => mem'[batch[k].to] = start[batch[k].from]
      /\ \A l \in Loc : (\A k \in 1 .. Len(batch) : batch[k].to # l) =>
                          mem'[l] = start[l]
  BY <1>1, FreeMoveEffect
<1>3. MovesInv'
  BY <1>1, <1>2 DEF MovesInv, Arrived, Untouched
<1>4. ASSUME pending' = {}
      PROVE  AsOne!MoveAll
  <2>1. Store = start /\ Store' = mem' /\ Asked = batch /\ Asked' = <<>>
    BY <1>1, <1>4 DEF Store, Asked
  <2>2. DOMAIN start = Loc /\ DOMAIN mem' = Loc /\ batch # <<>>
    BY <1>1, BatchShape DEF MovesInv, Shape
  <2> QED BY <1>2, <1>4, <2>1, <2>2 DEF AsOne!MoveAll
<1>5. ASSUME pending' # {}
      PROVE  UNCHANGED <<Store, Asked>>
  BY <1>1, <1>5 DEF Store, Asked
<1> QED BY <1>3, <1>4, <1>5

\* Breaking a cycle keeps the invariant and moves nothing.
LEMMA BreakKeeps ==
  ASSUME MovesInv, BreakCycle
  PROVE  MovesInv' /\ UNCHANGED <<Store, Asked>>
<1>1. PICK first \in pending :
        acc' = mem[batch[first].to] /\ viaA' = viaA \cup Readers(batch[first].to)
  BY DEF BreakCycle
<1>2. viaA = {} /\ UNCHANGED <<mem, batch, start, pending>>
  BY DEF BreakCycle, AccHeld
<1>3. Shape' /\ Arrived' /\ Untouched'
  BY <1>1, <1>2 DEF MovesInv, Shape, Arrived, Untouched, Readers
<1>4. Waiting'
  <2> SUFFICES ASSUME NEW j \in pending
               PROVE  start[batch[j].from] = IF j \in viaA' THEN acc' ELSE mem[batch[j].from]
    BY <1>2 DEF Waiting
  <2>1. start[batch[j].from] = mem[batch[j].from]
    BY <1>2 DEF MovesInv, Waiting
  <2>2. j \in viaA' => batch[j].from = batch[first].to
    BY <1>1, <1>2 DEF Readers
  <2> QED BY <1>1, <2>1, <2>2
<1>5. UNCHANGED <<Store, Asked>>
  BY <1>2 DEF Store, Asked
<1> QED BY <1>3, <1>4, <1>5 DEF MovesInv

\* Every step keeps the invariant and is a step of Simultaneous, or none.
LEMMA Step ==
  ASSUME MovesInv, [MoveNext]_moveVars
  PROVE  MovesInv' /\ [AsOne!Other \/ AsOne!MoveAll]_<<Store, Asked>>
<1>1. CASE Elsewhere
  <2>1. Asked = <<>>
    BY <1>1 DEF Elsewhere, Asked
  <2> QED BY <1>1, <2>1 DEF Elsewhere, MovesInv, Shape, Waiting, Arrived, Untouched, AsOne!Other
<1>2. CASE Ask
  <2>1. Asked = <<>>
    BY <1>2 DEF Ask, Asked
  <2> QED BY <1>2, <2>1, AskKeeps DEF AsOne!Other
<1>3. CASE MoveFree
  BY <1>3, MoveKeeps
<1>4. CASE BreakCycle
  BY <1>4, BreakKeeps
<1>5. CASE UNCHANGED moveVars
  BY <1>5 DEF moveVars, MovesInv, Shape, Waiting, Arrived, Untouched, Store, Asked
<1> QED BY <1>1, <1>2, <1>3, <1>4, <1>5 DEF MoveNext, MakeMoves

\* No move is pending at first.
LEMMA Start == MoveInit => MovesInv /\ Asked = <<>>
BY DEF MoveInit, MovesInv, Shape, Waiting, Arrived, Untouched, Asked

\* The invariant holds throughout.
LEMMA MovesInvariant == MoveSpec => []MovesInv
<1>1. MoveInit => MovesInv
  BY Start
<1>2. MovesInv /\ [MoveNext]_moveVars => MovesInv'
  BY Step
<1> QED BY <1>1, <1>2, PTL DEF MoveSpec

\* par_move implements moves made at once: a batch of any length, with any cycles in it,
\* is one step in which every source is read before any destination is written.
THEOREM MovesAtOnce == MoveSpec => AtOnce
<1>1. MoveInit => MovesInv /\ Asked = <<>>
  BY Start
<1>2. MovesInv /\ [MoveNext]_moveVars =>
        MovesInv' /\ [AsOne!Other \/ AsOne!MoveAll]_<<Store, Asked>>
  BY Step
<1> QED BY <1>1, <1>2, PTL DEF MoveSpec, AtOnce, AsOne!Spec

-----------------------------------------------------------------------------
\* If every pending move is read by another one that does not wait for A, none waits for A:
\* the readers are as many as the moves.
LEMMA StuckEmptiesA ==
  ASSUME MovesInv, Stuck
  PROVE  viaA = {}
<1>1. /\ viaA \subseteq pending /\ pending \subseteq 1 .. Len(batch) /\ batch \in Batches
  BY DEF MovesInv, Shape, Stuck
<1>2. /\ Len(batch) \in Nat
      /\ \A k, j \in 1 .. Len(batch) : k # j => batch[k].to # batch[j].to
  BY <1>1, BatchShape
<1>3. \A i \in pending : \E j \in pending \ viaA : batch[j].from = batch[i].to
  BY DEF Stuck, Free
<1> DEFINE reader == [i \in pending |->
                        CHOOSE j \in pending \ viaA : batch[j].from = batch[i].to]
<1>4. \A i \in pending : reader[i] \in pending \ viaA /\ batch[reader[i]].from = batch[i].to
  BY <1>3
<1>5. reader \in [pending -> pending \ viaA]
  BY <1>4
<1>6. \A i, j \in pending : reader[i] = reader[j] => i = j
  BY <1>1, <1>2, <1>4
<1>7. reader \in Injection(pending, pending \ viaA)
  BY <1>5, <1>6 DEF Injection, IsInjective
<1>8. IsFiniteSet(pending)
  <2>1. IsFiniteSet(1 .. Len(batch))
    BY <1>2, FS_Interval
  <2> QED BY <1>1, <2>1, FS_Subset
<1>9. IsFiniteSet(pending \ viaA) /\ Cardinality(pending \ viaA) <= Cardinality(pending)
      /\ (Cardinality(pending \ viaA) = Cardinality(pending) => pending \ viaA = pending)
  <2>1. pending \ viaA \in SUBSET pending
    OBVIOUS
  <2> QED BY <1>8, <2>1, FS_Subset
<1>10. Cardinality(pending) <= Cardinality(pending \ viaA)
  BY <1>7, <1>9, FS_Injection
<1>11. Cardinality(pending) \in Nat /\ Cardinality(pending \ viaA) \in Nat
  BY <1>8, <1>9, FS_CardinalityType
<1>12. pending \ viaA = pending
  BY <1>9, <1>10, <1>11
<1> QED BY <1>1, <1>12

\* The assertion of par_move holds for every batch: A is free whenever a cycle is met.
THEOREM NoNestedCycle == MoveSpec => []NeverNested
<1>1. MovesInv => NeverNested
  BY StuckEmptiesA DEF NeverNested, AccHeld
<1> QED BY <1>1, MovesInvariant, PTL
=============================================================================
