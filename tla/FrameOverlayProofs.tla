------------------------- MODULE FrameOverlayProofs -------------------------
(***************************************************************************)
(* Proofs about FrameOverlay, for any number of functions, any call graph  *)
(* and any areas.                                                          *)
(***************************************************************************)
EXTENDS FrameOverlay, FiniteSetTheorems, SequenceTheorems,
        WellFoundedInduction, TLAPS

-----------------------------------------------------------------------------
(***************************************************************************)
(* Types.                                                                  *)
(***************************************************************************)

\* How the phases of the layout use its counters.
Shape ==
  /\ pos \in 1 .. N + 1
  /\ area \in 1 .. Len(Areas) + 1
  /\ Len(order) <= N
  /\ phase # "order" => Len(order) = N
  /\ phase = "order" => pos = 1
  /\ phase \in {"order", "context"} => area = 1
  /\ phase \in {"main", "isr"} => area \in AreaIndex
  /\ phase = "run" => area = Len(Areas) + 1
  /\ phase # "run" => stack = << >> /\ ~booted
  /\ ~booted => Len(stack) = 0

TypeInv == TypeOK /\ Shape

\* The set of functions is finite, and so is every set of callers.
LEMMA FuncFinite ==
  /\ IsFiniteSet(Func)
  /\ Cardinality(Func) = N
  /\ \A S \in SUBSET Func : IsFiniteSet(S) /\ Cardinality(S) \in Nat
<1>1. N - 1 \in Int /\ 0 \in Int /\ ~(0 > N - 1) /\ N - 1 - 0 + 1 = N
  BY SizesAssumption
<1>2. IsFiniteSet(Func) /\ Cardinality(Func) = N
  BY <1>1, FS_Interval DEF Func
<1>3. QED
  BY <1>2, FS_Subset, FS_CardinalityType

\* A list of a set of functions is a sequence that holds exactly its members.
LEMMA ListsOfFunctions ==
  ASSUME NEW S \in SUBSET Func, NEW s \in Lists(S)
  PROVE  /\ s \in Seq(Func)
         /\ Len(s) = Cardinality(S)
         /\ \A i \in 1 .. Len(s) : s[i] \in S
         /\ \A x \in S : \E i \in 1 .. Len(s) : s[i] = x
<1>1. Cardinality(S) \in Nat
  BY FuncFinite
<1>2. s \in [1 .. Cardinality(S) -> S]
  BY DEF Lists
<1>3. s \in [1 .. Cardinality(S) -> Func]
  BY <1>2
<1>4. s \in Seq(Func) /\ Len(s) = Cardinality(S)
  BY <1>1, <1>3
<1>5. QED
  BY <1>2, <1>4 DEF Lists

LEMMA AreasTyped ==
  /\ Len(Areas) \in Nat
  /\ \A i \in AreaIndex : Areas[i] \in Area
  /\ \A i \in 1 .. Len(Areas) + 1 : i \notin AreaIndex => i = Len(Areas) + 1
BY SizesAssumption DEF AreaIndex, Area

LEMMA InitTypeInv == Init => TypeInv
<1> SUFFICES ASSUME Init PROVE TypeInv
  OBVIOUS
<1>1. prog \in ProgramType
  BY ProgramsAssumption DEF Init
<1>2. \A f \in Func : Callers(f) \in SUBSET Func
  BY DEF Callers
<1>3. indeg \in [Func -> Nat]
  BY <1>2, FuncFinite DEF Init
<1>4. queue \in Seq(Func)
  <2>1. {f \in Func : Callers(f) = {}} \in SUBSET Func
    OBVIOUS
  <2>2. queue \in Lists({f \in Func : Callers(f) = {}})
    BY DEF Init, Descending
  <2>3. QED
    BY <2>1, <2>2, ListsOfFunctions
<1>5. isrCtx \in [Func -> BOOLEAN]
  <2>1. \A f \in Func : (f \in prog.handlers) \in BOOLEAN
    OBVIOUS
  <2>2. QED
    BY <2>1 DEF Init
<1>6. stack \in Seq(Activation) /\ order \in Seq(Func)
  BY EmptySeq DEF Init
<1>7. TypeOK
  BY <1>1, <1>3, <1>4, <1>5, <1>6, SizesAssumption DEF Init, TypeOK
<1>8. Shape
  BY SizesAssumption, AreasTyped DEF Init, Shape
<1>9. QED
  BY <1>7, <1>8 DEF TypeInv

LEMMA PrefixTyped ==
  ASSUME NEW S, NEW s \in Seq(S), NEW n \in 0 .. Len(s)
  PROVE  /\ SubSeq(s, 1, n) \in Seq(S)
         /\ Len(SubSeq(s, 1, n)) = n
         /\ \A i \in 1 .. n : SubSeq(s, 1, n)[i] = s[i]
<1>1. Len(s) \in Nat
  BY LenProperties
<1>2. n \in Nat
  BY <1>1
<1>3. \A i \in 1 .. n : s[i] \in S
  BY <1>1, ElementOfSeq
<1>4. QED
  BY <1>2, <1>3

LEMMA QueueTop ==
  ASSUME queue \in Seq(Func), queue # << >>
  PROVE  /\ Len(queue) \in Nat \ {0}
         /\ Top \in Func
         /\ Popped \in Seq(Func)
         /\ Len(Popped) = Len(queue) - 1
         /\ \A i \in 1 .. Len(Popped) : Popped[i] = queue[i]
<1>1. Len(queue) \in Nat \ {0}
  BY EmptySeq
<1>2. \A i \in 1 .. Len(queue) : queue[i] \in Func
  BY ElementOfSeq
<1>3. /\ Popped \in Seq(Func)
      /\ Len(Popped) = Len(queue) - 1
      /\ \A i \in 1 .. Len(queue) - 1 : Popped[i] = queue[i]
  <2>1. Len(queue) - 1 \in 0 .. Len(queue)
    BY <1>1
  <2>2. QED
    BY <2>1, PrefixTyped DEF Popped
<1>4. QED
  BY <1>1, <1>2, <1>3 DEF Top

\* During a pass the current function is one of the order's.
LEMMA CurrentTyped ==
  ASSUME TypeInv, phase # "order", pos <= N
  PROVE  pos \in 1 .. Len(order) /\ Current \in Func
BY ElementOfSeq, SizesAssumption DEF TypeInv, TypeOK, Shape, Current

LEMMA PlaceAtTyped ==
  ASSUME TypeOK, NEW a \in Area, NEW f \in Func, NEW b \in Nat, PlaceAt(a, f, b)
  PROVE  /\ base' \in [Area -> [Func -> Nat]]
         /\ end' \in [Area -> [Func -> Nat]]
         /\ end'[a][f] \in Nat
<1>1. prog.size[a][f] \in Nat
  BY DEF TypeOK, ProgramType
<1>2. MaxGap[a] \in Nat
  BY SizesAssumption
<1>3. PICK gap \in 0 .. MaxGap[a] :
        /\ base' = [base EXCEPT ![a][f] = b]
        /\ end' = [end EXCEPT ![a][f] = b + prog.size[a][f] + gap]
  BY DEF PlaceAt
<1>4. b + prog.size[a][f] + gap \in Nat
  BY <1>1, <1>2, <1>3
<1>5. QED
  BY <1>3, <1>4 DEF TypeOK

LEMMA PlacementTyped ==
  ASSUME TypeOK,
         UNCHANGED <<prog, phase, topoVars, area, isrCtx, runVars>>,
         base' \in [Area -> [Func -> Nat]], end' \in [Area -> [Func -> Nat]],
         mainEnd' \in [Area -> Nat], isrEnd' \in [Area -> Nat], pos' \in Nat
  PROVE  TypeOK'
BY DEF TypeOK, topoVars, runVars

LEMMA WriteTyped ==
  ASSUME TypeOK, NEW f, NEW d \in Nat, Write(f, d)
  PROVE  owner' \in [Area -> [Cell -> Nat]]
BY DEF TypeOK, Write

LEMMA EnterTyped ==
  ASSUME TypeOK, NEW f \in Func, NEW irq \in BOOLEAN,
         NEW below \in Seq(Activation), Enter(f, irq, below)
  PROVE  /\ stack' \in Seq(Activation)
         /\ owner' \in [Area -> [Cell -> Nat]]
<1>1. [fn |-> f, saved |-> FALSE, irq |-> irq] \in Activation
  BY DEF Activation
<1>2. Depth + 1 \in Nat
  BY LenProperties DEF Depth, TypeOK
<1>3. QED
  BY <1>1, <1>2, AppendProperties, WriteTyped DEF Enter

\* A stack whose activation d is marked saved, or no longer saved.
LEMMA MarkTyped ==
  ASSUME NEW s \in Seq(Activation), NEW d \in 1 .. Len(s), NEW b \in BOOLEAN
  PROVE  /\ [s EXCEPT ![d].saved = b] \in Seq(Activation)
         /\ Len([s EXCEPT ![d].saved = b]) = Len(s)
         /\ \A i \in 1 .. Len(s) :
              [s EXCEPT ![d].saved = b][i] =
                IF i = d THEN [s[i] EXCEPT !.saved = b] ELSE s[i]
<1>1. s[d] \in Activation
  BY ElementOfSeq
<1>2. [s[d] EXCEPT !.saved = b] \in Activation
  BY <1>1 DEF Activation
<1>3. [s EXCEPT ![d].saved = b] = [s EXCEPT ![d] = [s[d] EXCEPT !.saved = b]]
  OBVIOUS
<1>4. QED
  BY <1>2, <1>3, ExceptSeq

LEMMA NextTypeInv == TypeInv /\ [Next]_vars => TypeInv'
<1> SUFFICES ASSUME TypeInv, [Next]_vars PROVE TypeInv'
  OBVIOUS
<1> USE DEF TypeInv
<1>1. CASE SkipSeen
  <2>1. queue' \in Seq(Func)
    BY <1>1, QueueTop DEF SkipSeen, TypeOK
  <2>2. QED
    BY <1>1, <2>1 DEF SkipSeen, TypeOK, Shape, placeVars, runVars
<1>2. CASE VisitTop
  <2>1. Top \in Func /\ Popped \in Seq(Func)
    BY <1>2, QueueTop DEF VisitTop, TypeOK
  <2>2. queue' \in Seq(Func)
    <3>1. PICK ready \in Ascending({g \in prog.callees[Top] : indeg'[g] = 0}) :
            queue' = Popped \o ready
      BY <1>2 DEF VisitTop
    <3>2. {g \in prog.callees[Top] : indeg'[g] = 0} \in SUBSET Func
      BY <2>1 DEF TypeOK, ProgramType
    <3>3. ready \in Seq(Func)
      BY <3>1, <3>2, ListsOfFunctions DEF Ascending
    <3>4. QED
      BY <2>1, <3>1, <3>3, ConcatProperties
  <2>3. indeg' \in [Func -> Nat]
    BY <1>2 DEF VisitTop, TypeOK
  <2>4. order' \in Seq(Func) /\ Len(order') = Len(order) + 1
    BY <1>2, <2>1, AppendProperties DEF VisitTop, TypeOK
  <2>5. Len(order) \in Nat /\ Len(order) < N
    BY <1>2, LenProperties DEF VisitTop, TypeOK
  <2>6. TypeOK'
    BY <1>2, <2>1, <2>2, <2>3, <2>4 DEF VisitTop, TypeOK, placeVars, runVars
  <2>7. Shape'
    BY <1>2, <2>4, <2>5, SizesAssumption DEF VisitTop, Shape, placeVars, runVars
  <2>8. QED
    BY <2>6, <2>7
<1>3. CASE BreakCycle
  <2>1. queue' \in Seq(Func) /\ indeg' \in [Func -> Nat]
    BY <1>3 DEF BreakCycle, TypeOK
  <2>2. QED
    BY <1>3, <2>1 DEF BreakCycle, TypeOK, Shape, placeVars, runVars
<1>4. CASE EndOrder
  BY <1>4 DEF EndOrder, TypeOK, Shape, topoVars, placeVars, runVars
<1>5. CASE MarkContext
  <2>1. isrCtx' \in [Func -> BOOLEAN]
    <3> DEFINE marked == isrCtx[Current] \/ \E c \in Callers(Current) : isrCtx[c]
    <3>1. marked \in BOOLEAN
      OBVIOUS
    <3>2. isrCtx' = [isrCtx EXCEPT ![Current] = marked]
      BY <1>5 DEF MarkContext
    <3> HIDE DEF marked
    <3>3. QED
      BY <3>1, <3>2 DEF TypeOK
  <2>2. pos' \in 1 .. N + 1
    BY <1>5, SizesAssumption DEF MarkContext, Shape
  <2>3. TypeOK'
    BY <1>5, <2>1, <2>2 DEF MarkContext, TypeOK, topoVars, runVars
  <2>4. Shape'
    BY <1>5, <2>2 DEF MarkContext, Shape, topoVars, runVars
  <2>5. QED
    BY <2>3, <2>4
<1>6. CASE EndContext
  <2>1. /\ pos' = 1 /\ area' = 1
        /\ phase' = IF 1 \in AreaIndex THEN "main" ELSE "run"
    BY <1>6 DEF EndContext, BeginArea
  <2>2. QED
    BY <1>6, <2>1, AreasTyped, SizesAssumption
       DEF EndContext, TypeOK, Shape, topoVars, runVars
<1>7. CASE PlaceMain
  <2> DEFINE a == Areas[area]
  <2>1. a \in Area /\ Current \in Func
    BY <1>7, AreasTyped, CurrentTyped DEF PlaceMain, Shape
  <2>2. PICK b \in {Floor[a]} \cup {end[a][c] : c \in Callers(Current)} :
          /\ PlaceAt(a, Current, b)
          /\ mainEnd' = [mainEnd EXCEPT ![a] = Larger(@, end'[a][Current])]
    BY <1>7 DEF PlaceMain
  <2>3. b \in Nat
    <3>1. Floor[a] \in Nat
      BY <2>1, SizesAssumption DEF TypeOK
    <3>2. \A c \in Callers(Current) : end[a][c] \in Nat
      BY <2>1 DEF TypeOK, Callers
    <3>3. QED
      BY <2>2, <3>1, <3>2
  <2>4. /\ base' \in [Area -> [Func -> Nat]]
        /\ end' \in [Area -> [Func -> Nat]]
        /\ end'[a][Current] \in Nat
    BY <2>1, <2>2, <2>3, PlaceAtTyped
  <2>5. mainEnd' \in [Area -> Nat]
    BY <2>1, <2>2, <2>4 DEF TypeOK, Larger
  <2>6. pos' \in 1 .. N + 1
    BY <1>7, SizesAssumption DEF PlaceMain, Shape
  <2>7. TypeOK'
    BY <1>7, <2>4, <2>5, <2>6 DEF PlaceMain, TypeOK, topoVars, runVars
  <2>8. Shape'
    BY <1>7, <2>6 DEF PlaceMain, Shape, topoVars, runVars
  <2>9. QED
    BY <2>7, <2>8
<1>8. CASE PlaceIsr
  <2> DEFINE a == Areas[area]
             callers == {c \in Callers(Current) : isrCtx[c]}
  <2>1. a \in Area /\ Current \in Func
    BY <1>8, AreasTyped, CurrentTyped DEF PlaceIsr, Shape
  <2>2. PICK b \in {mainEnd[a]} \cup {end[a][c] : c \in callers} :
          /\ PlaceAt(a, Current, b)
          /\ isrEnd' = [isrEnd EXCEPT ![a] = Larger(@, end'[a][Current])]
    BY <1>8 DEF PlaceIsr
  <2>3. b \in Nat
    <3>1. mainEnd[a] \in Nat
      BY <2>1, SizesAssumption DEF TypeOK
    <3>2. \A c \in Callers(Current) : end[a][c] \in Nat
      BY <2>1 DEF TypeOK, Callers
    <3>3. QED
      BY <2>2, <3>1, <3>2
  <2>4. /\ base' \in [Area -> [Func -> Nat]]
        /\ end' \in [Area -> [Func -> Nat]]
        /\ end'[a][Current] \in Nat
    BY <2>1, <2>2, <2>3, PlaceAtTyped
  <2>5. isrEnd' \in [Area -> Nat]
    BY <2>1, <2>2, <2>4 DEF TypeOK, Larger
  <2>6. pos' \in 1 .. N + 1
    BY <1>8, SizesAssumption DEF PlaceIsr, Shape
  <2>7. TypeOK'
    <3>1. mainEnd' \in [Area -> Nat] /\ pos' \in Nat
      BY <1>8, <2>6 DEF PlaceIsr, TypeOK
    <3>2. QED
      BY <1>8, <2>4, <2>5, <3>1, PlacementTyped DEF PlaceIsr
  <2>8. Shape'
    BY <1>8, <2>6 DEF PlaceIsr, Shape, topoVars, runVars
  <2>9. QED
    BY <2>7, <2>8
<1>9. CASE SkipOther
  <2>1. pos' \in 1 .. N + 1
    BY <1>9, SizesAssumption DEF SkipOther, Shape
  <2>2. QED
    BY <1>9, <2>1 DEF SkipOther, TypeOK, Shape, topoVars, runVars
<1>10. CASE EndMain
  <2>1. isrEnd' \in [Area -> Nat]
    BY <1>10, AreasTyped DEF EndMain, TypeOK, Shape
  <2>2. TypeOK'
    BY <1>10, <2>1 DEF EndMain, TypeOK, topoVars, runVars
  <2>3. Shape'
    BY <1>10, SizesAssumption DEF EndMain, Shape, topoVars, runVars
  <2>4. QED
    BY <2>2, <2>3
<1>11. CASE EndIsr
  <2>1. area \in AreaIndex /\ area + 1 \in 1 .. Len(Areas) + 1
    BY <1>11, AreasTyped DEF EndIsr, Shape, AreaIndex
  <2>2. CASE phase' = "failed" /\ UNCHANGED <<pos, area>>
    BY <1>11, <2>1, <2>2 DEF EndIsr, TypeOK, Shape, topoVars, runVars
  <2>3. CASE BeginArea(area + 1)
    <3>1. pos' = 1 /\ area' = area + 1 /\ area' \in Nat
      BY <2>1, <2>3, AreasTyped DEF BeginArea
    <3>2. phase' = IF area + 1 \in AreaIndex THEN "main" ELSE "run"
      BY <2>3 DEF BeginArea
    <3>3. TypeOK'
      BY <1>11, <3>1, <3>2 DEF EndIsr, TypeOK, topoVars, runVars
    <3>4. Shape'
      BY <1>11, <2>1, <3>1, <3>2, AreasTyped, SizesAssumption
         DEF EndIsr, Shape, topoVars, runVars
    <3>5. QED
      BY <3>3, <3>4
  <2>4. QED
    BY <1>11, <2>2, <2>3 DEF EndIsr
<1>12. CASE StartMain
  <2>1. prog.main \in Func
    BY DEF TypeOK, ProgramType
  <2>2. stack' \in Seq(Activation) /\ owner' \in [Area -> [Cell -> Nat]]
    BY <1>12, <2>1, EnterTyped DEF StartMain, TypeOK
  <2>3. QED
    BY <1>12, <2>2
       DEF StartMain, TypeOK, Shape, topoVars, placeVars
<1>13. CASE \E g \in Func : Call(g)
  <2>1. PICK g \in Func : Call(g)
    BY <1>13
  <2> DEFINE b == SameScc(prog, stack[Depth].fn, g)
             below == [stack EXCEPT ![Depth].saved = b]
  <2>2. Depth \in 1 .. Len(stack)
    BY <2>1, LenProperties DEF Call, Depth, TypeOK
  <2>3. b \in BOOLEAN
    BY DEF SameScc, Reaches
  <2>4. below \in Seq(Activation)
    BY <2>2, <2>3, MarkTyped DEF TypeOK
  <2>5. stack' \in Seq(Activation) /\ owner' \in [Area -> [Cell -> Nat]]
    BY <2>1, <2>4, EnterTyped DEF Call
  <2>6. phase = "run" /\ booted /\ UNCHANGED <<phase, topoVars, placeVars, booted>>
    BY <2>1, <2>2 DEF Call, Shape
  <2>7. TypeOK'
    BY <2>1, <2>5 DEF Call, TypeOK, topoVars, placeVars
  <2>8. Shape'
    BY <2>6 DEF Shape, topoVars, placeVars
  <2>9. QED
    BY <2>7, <2>8
<1>14. CASE Return
  <2>1. Depth \in Nat \ {0}
    BY <1>14, LenProperties DEF Return, Depth, TypeOK
  <2>2. /\ SubSeq(stack, 1, Depth - 1) \in Seq(Activation)
        /\ Len(SubSeq(stack, 1, Depth - 1)) = Depth - 1
    <3>1. stack \in Seq(Activation) /\ Depth - 1 \in 0 .. Len(stack)
      BY <2>1 DEF Depth, TypeOK
    <3>2. QED
      BY <3>1, PrefixTyped
  <2>3. ASSUME Depth > 1 /\ stack[Depth - 1].saved PROVE TypeOK'
    <3>1. stack' \in Seq(Activation)
      <4>1. stack' = [SubSeq(stack, 1, Depth - 1) EXCEPT ![Depth - 1].saved = FALSE]
        BY <1>14, <2>3 DEF Return
      <4>2. Depth - 1 \in 1 .. Len(SubSeq(stack, 1, Depth - 1))
        BY <2>1, <2>2, <2>3
      <4>3. QED
        BY <2>2, <4>1, <4>2, MarkTyped
    <3>2. owner' \in [Area -> [Cell -> Nat]]
      BY <1>14, <2>1, <2>3, WriteTyped DEF Return
    <3>3. QED
      BY <1>14, <3>1, <3>2 DEF Return, TypeOK, topoVars, placeVars
  <2>4. ASSUME ~(Depth > 1 /\ stack[Depth - 1].saved) PROVE TypeOK'
    BY <1>14, <2>2, <2>4 DEF Return, TypeOK, topoVars, placeVars
  <2>5. phase = "run" /\ booted /\ UNCHANGED <<phase, topoVars, placeVars, booted>>
    BY <1>14, <2>1 DEF Return, Shape, Depth
  <2>6. Shape'
    BY <2>5 DEF Shape, topoVars, placeVars
  <2>7. QED
    BY <2>3, <2>4, <2>6
<1>15. CASE \E h \in Func : Interrupt(h)
  <2>1. PICK h \in Func : Interrupt(h)
    BY <1>15
  <2>2. stack' \in Seq(Activation) /\ owner' \in [Area -> [Cell -> Nat]]
    BY <2>1, EnterTyped DEF Interrupt, TypeOK
  <2>3. QED
    BY <2>1, <2>2 DEF Interrupt, TypeOK, Shape, topoVars, placeVars
<1>16. CASE UNCHANGED vars
  BY <1>16 DEF vars, TypeOK, Shape, topoVars, placeVars, runVars
<1>17. QED
  BY <1>1, <1>2, <1>3, <1>4, <1>5, <1>6, <1>7, <1>8, <1>9, <1>10, <1>11,
     <1>12, <1>13, <1>14, <1>15, <1>16 DEF Next, Layout, Run

\* Every variable keeps the shape the Rust types give it, in every reachable
\* state and for every program.
THEOREM TypeCorrect == Spec => []TypeOK
<1>1. Init => TypeInv
  BY InitTypeInv
<1>2. TypeInv /\ [Next]_vars => TypeInv'
  BY NextTypeInv
<1>3. TypeInv => TypeOK
  BY DEF TypeInv
<1>4. QED
  BY <1>1, <1>2, <1>3, PTL DEF Spec

-----------------------------------------------------------------------------
(***************************************************************************)
(* The order (topo).                                                       *)
(***************************************************************************)

\* `order` lists exactly the seen functions, each once.
Distinct ==
  /\ \A i, j \in 1 .. Len(order) : order[i] = order[j] => i = j
  /\ \A f \in Func : f \in seen <=> \E k \in 1 .. Len(order) : order[k] = f
  /\ Len(order) = Cardinality(seen)

\* topo has just broken a cycle at f: nothing was ready, and f comes first of
\* the functions that are left.
Breaking(f) ==
  /\ broken /\ queue = <<f>>
  /\ \A g \in Func \ seen : f <= g /\ ~(Callers(g) \subseteq seen)

\* indeg counts the callers still to come, except where a cycle is being
\* broken, and the queue holds the functions that have none left.
Counted ==
  /\ \A i \in 1 .. Len(queue) : indeg[queue[i]] = 0
  /\ \A g \in Func \ seen :
       indeg[g] = 0 => \E i \in 1 .. Len(queue) : queue[i] = g
  /\ \A g \in Func \ seen :
       indeg[g] = Cardinality(Callers(g) \ seen) \/ Breaking(g)

\* The functions in front of place k of the order.
Ahead(k) == {order[j] : j \in 1 .. k - 1}

\* A function comes after all of its callers, or it broke a cycle: then it was
\* the first of the functions left, each of which had a caller among them.
Before ==
  \A k \in 1 .. Len(order) :
    \/ Callers(order[k]) \subseteq Ahead(k)
    \/ /\ broken
       /\ \A g \in Func \ Ahead(k) :
            order[k] <= g /\ ~(Callers(g) \subseteq Ahead(k))

OrderInv == TypeInv /\ Distinct /\ Counted /\ Before

LEMMA CallersTyped == \A f : Callers(f) \in SUBSET Func
BY DEF Callers

LEMMA InitOrderInv == Init => OrderInv
<1> SUFFICES ASSUME Init PROVE OrderInv
  OBVIOUS
<1>1. TypeInv
  BY InitTypeInv
<1>2. Len(order) = 0 /\ seen = {} /\ Cardinality({}) = 0
  BY EmptySeq, FS_EmptySet DEF Init
<1>3. Distinct /\ Before
  BY <1>2 DEF Distinct, Before
<1>4. Counted
  <2> DEFINE roots == {f \in Func : Callers(f) = {}}
  <2>1. /\ \A i \in 1 .. Len(queue) : queue[i] \in roots
        /\ \A g \in roots : \E i \in 1 .. Len(queue) : queue[i] = g
    <3>1. queue \in Lists(roots)
      BY DEF Init, Descending
    <3>2. QED
      BY <3>1, ListsOfFunctions
  <2>2. \A g \in Func : indeg[g] = Cardinality(Callers(g) \ seen)
    <3>1. \A g \in Func : Callers(g) \ seen = Callers(g)
      BY <1>2
    <3>2. QED
      BY <3>1 DEF Init
  <2>3. \A g \in Func : indeg[g] = 0 <=> g \in roots
    <3>1. \A g \in Func : IsFiniteSet(Callers(g))
      BY CallersTyped, FuncFinite
    <3>2. \A g \in Func : Cardinality(Callers(g)) = 0 <=> Callers(g) = {}
      BY <3>1, FS_EmptySet
    <3>3. QED
      BY <3>2 DEF Init
  <2> HIDE DEF roots
  <2>4. roots \in SUBSET Func
    BY DEF roots
  <2>5. QED
    BY <2>1, <2>2, <2>3, <2>4 DEF Counted
<1>5. QED
  BY <1>1, <1>3, <1>4 DEF OrderInv

\* The seen functions are those the order holds.
LEMMA SeenAhead ==
  ASSUME OrderInv
  PROVE  /\ seen = Ahead(Len(order) + 1)
         /\ Len(order) \in Nat
<1>1. Len(order) \in Nat /\ seen \in SUBSET Func
      /\ \A k \in 1 .. Len(order) : order[k] \in Func
  BY LenProperties, ElementOfSeq DEF OrderInv, TypeInv, TypeOK
<1>2. \A f \in Func : f \in seen <=> \E k \in 1 .. Len(order) : order[k] = f
  BY DEF OrderInv, Distinct
<1>3. (Len(order) + 1) - 1 = Len(order)
  BY <1>1
<1>4. QED
  BY <1>1, <1>2, <1>3 DEF Ahead

\* One visit: the callers of the visited function are all seen unless it
\* breaks a cycle, and seeing it brings every callee one caller closer.
LEMMA VisitCounts ==
  ASSUME OrderInv, VisitTop
  PROVE  /\ Callers(Top) \subseteq seen \/ Breaking(Top)
         /\ \A g \in Func \ seen' : indeg'[g] = Cardinality(Callers(g) \ seen')
<1>1. Top \in Func /\ Top \notin seen /\ seen' = seen \cup {Top}
  BY QueueTop DEF OrderInv, TypeInv, TypeOK, VisitTop
<1>2. ASSUME ~Breaking(Top) PROVE Callers(Top) \subseteq seen
  <2>1. indeg[Top] = 0
    BY QueueTop DEF OrderInv, TypeInv, TypeOK, VisitTop, Counted, Top
  <2>2. Cardinality(Callers(Top) \ seen) = 0
    BY <1>1, <1>2, <2>1 DEF OrderInv, Counted
  <2>3. IsFiniteSet(Callers(Top) \ seen)
    BY CallersTyped, FuncFinite
  <2>4. QED
    BY <2>2, <2>3, FS_EmptySet
<1>3. ASSUME NEW g \in Func \ seen'
      PROVE  indeg'[g] = Cardinality(Callers(g) \ seen')
  <2>0. ~Breaking(g)
    <3>1. g # Top
      BY <1>1
    <3>2. queue = <<g>> => Top = g
      BY DEF Top
    <3>3. QED
      BY <3>1, <3>2 DEF Breaking
  <2>1. indeg[g] = Cardinality(Callers(g) \ seen) /\ indeg[g] \in Nat
    BY <1>1, <2>0 DEF OrderInv, TypeInv, TypeOK, Counted
  <2>2. IsFiniteSet(Callers(g) \ seen)
    BY CallersTyped, FuncFinite
  <2>3. Callers(g) \ seen' = (Callers(g) \ seen) \ {Top}
    BY <1>1
  <2>4. Cardinality(Callers(g) \ seen') =
          IF Top \in Callers(g) \ seen THEN Cardinality(Callers(g) \ seen) - 1
          ELSE Cardinality(Callers(g) \ seen)
    <3> DEFINE T == Callers(g) \ seen
    <3> HIDE DEF T
    <3>1. Cardinality(T \ {Top}) =
            IF Top \in T THEN Cardinality(T) - 1 ELSE Cardinality(T)
      BY <2>2, FS_RemoveElement DEF T
    <3>2. QED
      BY <2>3, <3>1 DEF T
  <2>5. Top \in Callers(g) \ seen <=> g \in prog.callees[Top]
    BY <1>1 DEF Callers
  <2>6. indeg'[g] = IF g \in prog.callees[Top] /\ indeg[g] > 0
                    THEN indeg[g] - 1 ELSE indeg[g]
    BY DEF VisitTop
  <2>7. Top \in Callers(g) \ seen => Cardinality(Callers(g) \ seen) # 0
    BY <2>2, FS_EmptySet
  <2>8. QED
    BY <2>1, <2>4, <2>5, <2>6, <2>7
<1>4. QED
  BY <1>2, <1>3

LEMMA VisitOrderInv == OrderInv /\ VisitTop => Distinct' /\ Counted' /\ Before'
<1> SUFFICES ASSUME OrderInv, VisitTop PROVE Distinct' /\ Counted' /\ Before'
  OBVIOUS
<1>1. /\ Top \in Func /\ Popped \in Seq(Func)
      /\ Len(queue) \in Nat \ {0}
      /\ Len(Popped) = Len(queue) - 1
      /\ \A i \in 1 .. Len(Popped) : Popped[i] = queue[i]
  BY QueueTop DEF OrderInv, TypeInv, TypeOK, VisitTop
<1>2. Top \notin seen /\ seen' = seen \cup {Top} /\ broken' = broken
      /\ prog' = prog
  BY DEF VisitTop
<1>3. /\ Len(order) \in Nat
      /\ Len(order') = Len(order) + 1
      /\ order'[Len(order) + 1] = Top
      /\ \A k \in 1 .. Len(order) : order'[k] = order[k]
  BY <1>1, AppendProperties, LenProperties
     DEF VisitTop, OrderInv, TypeInv, TypeOK
<1>4. Distinct'
  <2>1. Cardinality(seen') = Cardinality(seen) + 1
    <3>1. IsFiniteSet(seen)
      BY FuncFinite DEF OrderInv, TypeInv, TypeOK
    <3>2. QED
      BY <1>2, <3>1, FS_AddElement
  <2>2. \A f \in Func : f \in seen <=> \E k \in 1 .. Len(order) : order[k] = f
    BY DEF OrderInv, Distinct
  <2>3. \A i, j \in 1 .. Len(order') : order'[i] = order'[j] => i = j
    <3>1. \A i, j \in 1 .. Len(order) : order[i] = order[j] => i = j
      BY DEF OrderInv, Distinct
    <3>2. \A k \in 1 .. Len(order) : order[k] # Top
      BY <1>1, <1>2, <2>2
    <3>3. QED
      BY <1>3, <3>1, <3>2
  <2>4. \A f \in Func :
          f \in seen' <=> \E k \in 1 .. Len(order') : order'[k] = f
    BY <1>2, <1>3, <2>2
  <2>5. Len(order') = Cardinality(seen')
    BY <1>3, <2>1 DEF OrderInv, Distinct
  <2>6. QED
    BY <2>3, <2>4, <2>5 DEF Distinct
<1>5. Before'
  <2> SUFFICES ASSUME NEW k \in 1 .. Len(order')
               PROVE  \/ Callers(order'[k]) \subseteq Ahead(k)'
                      \/ /\ broken
                         /\ \A g \in Func \ Ahead(k)' :
                              order'[k] <= g /\ ~(Callers(g) \subseteq Ahead(k)')
    BY <1>2 DEF Before, Callers
  <2>1. \A i \in 1 .. Len(order) + 1 : Ahead(i)' = Ahead(i)
    <3> SUFFICES ASSUME NEW i \in 1 .. Len(order) + 1
                 PROVE  {order'[j] : j \in 1 .. i - 1} = {order[j] : j \in 1 .. i - 1}
      BY DEF Ahead
    <3>1. \A j \in 1 .. i - 1 : order'[j] = order[j]
      BY <1>3
    <3>2. QED
      BY <3>1
  <2>2. CASE k \in 1 .. Len(order)
    <3>1. order'[k] = order[k] /\ Ahead(k)' = Ahead(k)
      BY <1>3, <2>1, <2>2
    <3>2. QED
      BY <2>2, <3>1 DEF OrderInv, Before
  <2>3. CASE k = Len(order) + 1
    <3>1. order'[k] = Top /\ Ahead(k)' = seen
      BY <1>3, <2>1, <2>3, SeenAhead
    <3>2. QED
      BY <3>1, VisitCounts DEF Breaking
  <2>4. QED
    BY <1>3, <2>2, <2>3
<1>6. Counted'
  <2> SUFFICES /\ \A i \in 1 .. Len(queue') : indeg'[queue'[i]] = 0
               /\ \A g \in Func \ seen' :
                    indeg'[g] = 0 => \E i \in 1 .. Len(queue') : queue'[i] = g
               /\ \A g \in Func \ seen' :
                    indeg'[g] = Cardinality(Callers(g) \ seen')
    BY <1>2 DEF Counted, Callers
  <2> DEFINE S == {g \in prog.callees[Top] : indeg'[g] = 0}
  <2>1. PICK ready \in Ascending(S) : queue' = Popped \o ready
    BY DEF VisitTop
  <2>2. S \in SUBSET Func
    BY <1>1 DEF OrderInv, TypeInv, TypeOK, ProgramType
  <2>3. /\ ready \in Seq(Func)
        /\ \A i \in 1 .. Len(ready) : ready[i] \in S
        /\ \A x \in S : \E i \in 1 .. Len(ready) : ready[i] = x
    BY <2>1, <2>2, ListsOfFunctions DEF Ascending
  <2>4. /\ Len(ready) \in Nat
        /\ Len(queue') = Len(Popped) + Len(ready)
        /\ \A i \in 1 .. Len(Popped) + Len(ready) :
             queue'[i] = IF i <= Len(Popped) THEN Popped[i]
                         ELSE ready[i - Len(Popped)]
    <3> HIDE DEF S
    <3>1. Len(ready) \in Nat
      BY <2>3, LenProperties
    <3>2. QED
      BY <1>1, <2>1, <2>3, <3>1
  <2>5. \A g \in Func : indeg[g] = 0 => indeg'[g] = 0
    BY DEF VisitTop
  <2>6. \A i \in 1 .. Len(queue') : indeg'[queue'[i]] = 0
    <3>1. \A i \in 1 .. Len(queue) : indeg[queue[i]] = 0 /\ queue[i] \in Func
      BY ElementOfSeq DEF OrderInv, Counted, TypeInv, TypeOK
    <3>2. \A i \in 1 .. Len(Popped) : indeg'[Popped[i]] = 0
      BY <1>1, <2>5, <3>1
    <3> HIDE DEF S
    <3>3. \A i \in 1 .. Len(ready) : indeg'[ready[i]] = 0
      BY <2>3 DEF S
    <3>4. QED
      BY <1>1, <2>4, <3>2, <3>3
  <2>7. ASSUME NEW g \in Func \ seen', indeg'[g] = 0
        PROVE  \E i \in 1 .. Len(queue') : queue'[i] = g
    <3>1. g \notin seen /\ g # Top
      BY <1>2, <2>7
    <3>2. CASE indeg[g] = 0
      <4>1. PICK i \in 1 .. Len(queue) : queue[i] = g
        BY <3>1, <3>2 DEF OrderInv, Counted
      <4>2. i \in 1 .. Len(Popped)
        BY <1>1, <3>1, <4>1 DEF Top
      <4>3. QED
        BY <1>1, <2>4, <4>1, <4>2
    <3>3. CASE indeg[g] # 0
      <4>1. g \in S
        BY <2>7, <3>3 DEF VisitTop
      <4> HIDE DEF S
      <4>2. PICK i \in 1 .. Len(ready) : ready[i] = g
        BY <2>3, <4>1
      <4>3. Len(Popped) + i \in 1 .. Len(queue') /\ queue'[Len(Popped) + i] = g
        BY <1>1, <2>4, <4>2, SMTT(30)
      <4>4. QED
        BY <4>3
    <3>4. QED
      BY <3>2, <3>3
  <2>8. QED
    BY <2>6, <2>7, VisitCounts
<1>7. QED
  BY <1>4, <1>5, <1>6

LEMMA NextOrderInv == OrderInv /\ [Next]_vars => OrderInv'
<1> SUFFICES ASSUME OrderInv, [Next]_vars PROVE OrderInv'
  OBVIOUS
<1>1. TypeInv'
  BY NextTypeInv DEF OrderInv
<1>2. CASE SkipSeen
  <2>1. /\ Len(queue) \in Nat \ {0}
        /\ Len(Popped) = Len(queue) - 1
        /\ \A i \in 1 .. Len(Popped) : Popped[i] = queue[i]
    BY <1>2, QueueTop DEF OrderInv, TypeInv, TypeOK, SkipSeen
  <2>2. Distinct' /\ Before'
    BY <1>2 DEF SkipSeen, OrderInv, Distinct, Before, Ahead, Callers
  <2>3. Counted'
    <3>0. ASSUME NEW g \in Func \ seen PROVE ~Breaking(g)
      <4>1. queue = <<g>> => Top = g
        BY DEF Top
      <4>2. QED
        BY <1>2, <3>0, <4>1 DEF SkipSeen, Breaking
    <3> SUFFICES /\ \A i \in 1 .. Len(Popped) : indeg[Popped[i]] = 0
                 /\ \A g \in Func \ seen : indeg[g] = 0 =>
                      \E i \in 1 .. Len(Popped) : Popped[i] = g
      BY <1>2, <3>0 DEF Counted, SkipSeen, Callers, OrderInv
    <3>1. ASSUME NEW g \in Func \ seen, indeg[g] = 0
          PROVE  \E i \in 1 .. Len(Popped) : Popped[i] = g
      <4>1. PICK i \in 1 .. Len(queue) : queue[i] = g
        BY <3>1 DEF OrderInv, Counted
      <4>2. i # Len(queue)
        BY <1>2, <4>1 DEF SkipSeen, Top
      <4>3. QED
        BY <2>1, <4>1, <4>2
    <3>2. QED
      BY <2>1, <3>1, SMTT(30) DEF OrderInv, Counted
  <2>4. QED
    BY <1>1, <2>2, <2>3 DEF OrderInv
<1>3. CASE VisitTop
  BY <1>1, <1>3, VisitOrderInv DEF OrderInv
<1>4. CASE BreakCycle
  <2>1. PICK f \in Func \ seen :
          /\ \A g \in Func \ seen : f <= g
          /\ indeg' = [indeg EXCEPT ![f] = 0]
          /\ queue' = <<f>>
    BY <1>4 DEF BreakCycle
  <2>2. /\ UNCHANGED <<prog, seen, order>> /\ broken' = TRUE /\ queue = << >>
        /\ indeg \in [Func -> Nat]
    BY <1>4 DEF BreakCycle, OrderInv, TypeInv, TypeOK
  <2>3. \A g \in Func \ seen : indeg[g] # 0 /\ ~Breaking(g)
    <3>1. \A i \in 1 .. Len(queue) : FALSE
      BY <2>2, EmptySeq
    <3>2. \A g : queue # <<g>>
      BY <2>2
    <3>3. QED
      BY <3>1, <3>2 DEF OrderInv, Counted, Breaking
  <2>4. \A g \in Func \ seen : ~(Callers(g) \subseteq seen)
    <3> SUFFICES ASSUME NEW g \in Func \ seen, Callers(g) \subseteq seen
                 PROVE  FALSE
      OBVIOUS
    <3>1. Callers(g) \ seen = {}
      OBVIOUS
    <3>2. indeg[g] = 0
      BY <2>3, <3>1, FS_EmptySet DEF OrderInv, Counted
    <3>3. QED
      BY <2>3, <3>2
  <2>5. Breaking(f)'
    BY <2>1, <2>2, <2>4 DEF Breaking, Callers
  <2>6. /\ \A g \in Func \ seen : g # f => indeg'[g] = indeg[g]
        /\ indeg'[f] = 0
    BY <2>1, <2>2
  <2>7. Len(queue') = 1 /\ queue'[1] = f
    BY <2>1
  <2>8. Counted'
    <3>1. \A i \in 1 .. Len(queue') : indeg'[queue'[i]] = 0
      BY <2>6, <2>7
    <3>2. \A g \in Func \ seen' :
            indeg'[g] = 0 => \E i \in 1 .. Len(queue') : queue'[i] = g
      BY <2>2, <2>3, <2>6, <2>7
    <3>3. \A g \in Func \ seen' :
            indeg'[g] = Cardinality(Callers(g) \ seen)' \/ Breaking(g)'
      BY <2>2, <2>3, <2>5, <2>6 DEF OrderInv, Counted, Callers
    <3>4. QED
      BY <3>1, <3>2, <3>3 DEF Counted
  <2>9. Distinct' /\ Before'
    <3>1. Distinct'
      BY <2>2 DEF OrderInv, Distinct
    <3>2. \A k : Ahead(k)' = Ahead(k) /\ Callers(k)' = Callers(k)
      BY <2>2 DEF Ahead, Callers
    <3>3. ASSUME NEW k \in 1 .. Len(order)
          PROVE  \/ Callers(order[k]) \subseteq Ahead(k)
                 \/ \A g \in Func \ Ahead(k) :
                      order[k] <= g /\ ~(Callers(g) \subseteq Ahead(k))
      BY DEF OrderInv, Before
    <3>4. Before'
      BY <2>2, <3>2, <3>3 DEF Before, Callers, Ahead
    <3>5. QED
      BY <3>1, <3>4
  <2>10. QED
    BY <1>1, <2>8, <2>9 DEF OrderInv
<1>5. CASE UNCHANGED <<prog, topoVars>>
  BY <1>1, <1>5 DEF OrderInv, Distinct, Counted, Breaking, Before, Ahead,
                    topoVars, Callers
<1>6. [Next]_vars => SkipSeen \/ VisitTop \/ BreakCycle \/ UNCHANGED <<prog, topoVars>>
  BY DEF Next, Layout, Run, vars, EndOrder, MarkContext, EndContext, PlaceMain,
         PlaceIsr, SkipOther, EndMain, EndIsr, StartMain, Call, Return, Interrupt
<1>7. QED
  BY <1>2, <1>3, <1>4, <1>5, <1>6

\* When the order is finished it lists every function.
LEMMA OrderCovers ==
  ASSUME OrderInv, phase # "order"
  PROVE  /\ seen = Func
         /\ \A f \in Func : \E k \in 1 .. N : order[k] = f
<1>1. Len(order) = N /\ Cardinality(seen) = N
  BY DEF OrderInv, TypeInv, Shape, Distinct
<1>2. seen \in SUBSET Func
  BY DEF OrderInv, TypeInv, TypeOK
<1>3. seen = Func
  BY <1>1, <1>2, FuncFinite, FS_Subset
<1>4. QED
  BY <1>1, <1>3 DEF OrderInv, Distinct

THEOREM OrderInvariant == Spec => []OrderInv
BY InitOrderInv, NextOrderInv, PTL DEF Spec

\* topo's output holds every function exactly once, whatever the call graph.
THEOREM OrderIsComplete == Spec => []OrderComplete
<1>1. OrderInv => OrderComplete
  BY OrderCovers DEF OrderComplete, OrderInv, TypeInv, Shape
<1>2. QED
  BY <1>1, OrderInvariant, PTL

\* topo puts callers first unless a cycle had to be broken.
THEOREM CallersComeFirst == Spec => []CallersFirst
<1>1. OrderInv => CallersFirst
  BY DEF OrderInv, Before, Ahead, CallersFirst
<1>2. QED
  BY <1>1, OrderInvariant, PTL

-----------------------------------------------------------------------------
(***************************************************************************)
(* Placement (layout).                                                     *)
(***************************************************************************)

\* The k-th function of the order has its final frame in the i-th area.
Done(i, k) ==
  \/ i < area
  \/ i = area /\ phase = "main" /\ k < pos /\ ~isrCtx[order[k]]
  \/ i = area /\ phase = "isr" /\ (~isrCtx[order[k]] \/ k < pos)

\* On which side of mainEnd a frame lies.
Sided(a, g) ==
  /\ base[a][g] <= end[a][g]
  /\ ~isrCtx[g] => end[a][g] <= mainEnd[a]
  /\ isrCtx[g] => mainEnd[a] <= base[a][g]

\* The k-th function's frame begins no earlier than the frames of its callers
\* in front of it end.
Stacked(a, k) ==
  \A c \in Callers(order[k]) \cap Ahead(k) :
    isrCtx[c] = isrCtx[order[k]] => end[a][c] <= base[a][order[k]]

Placing == phase \in {"main", "isr", "run"}

Placement ==
  Placing =>
    \A i \in AreaIndex : \A k \in 1 .. N : Done(i, k) =>
      Sided(Areas[i], order[k]) /\ Stacked(Areas[i], k)

LayoutInv == OrderInv /\ Placement

\* What placing f at b in area a does to the frames.
LEMMA PlaceAtFrames ==
  ASSUME TypeOK, NEW a \in Area, NEW f \in Func, NEW b \in Nat, PlaceAt(a, f, b)
  PROVE  /\ base'[a][f] = b /\ end'[a][f] \in Nat /\ b <= end'[a][f]
         /\ \A d \in Area, g \in Func : d # a \/ g # f =>
              base'[d][g] = base[d][g] /\ end'[d][g] = end[d][g]
<1>1. prog.size[a][f] \in Nat /\ MaxGap[a] \in Nat
  BY SizesAssumption DEF TypeOK, ProgramType
<1>2. PICK gap \in 0 .. MaxGap[a] :
        /\ base' = [base EXCEPT ![a][f] = b]
        /\ end' = [end EXCEPT ![a][f] = b + prog.size[a][f] + gap]
  BY DEF PlaceAt
<1>3. \A d \in Area, g \in Func :
        /\ base'[d][g] = IF d = a /\ g = f THEN b ELSE base[d][g]
        /\ end'[d][g] = IF d = a /\ g = f THEN b + prog.size[a][f] + gap
                        ELSE end[d][g]
  BY <1>2 DEF TypeOK
<1>4. b + prog.size[a][f] + gap \in Nat /\ b <= b + prog.size[a][f] + gap
  BY <1>1, <1>2
<1>5. QED
  BY <1>3, <1>4

\* A placement step that gives the current function a frame above its callers
\* and on its side of mainEnd extends Placement by that function.
LEMMA PlaceStep ==
  ASSUME LayoutInv,
         phase \in {"main", "isr"}, pos <= N,
         UNCHANGED <<prog, phase, topoVars, area, isrCtx>>, pos' = pos + 1,
         (phase = "main") <=> ~isrCtx[Current],
         NEW b \in Nat, PlaceAt(Areas[area], Current, b),
         \A d \in Area : d # Areas[area] => mainEnd'[d] = mainEnd[d],
         mainEnd[Areas[area]] <= mainEnd'[Areas[area]],
         isrCtx[Current] => mainEnd'[Areas[area]] = mainEnd[Areas[area]],
         mainEnd' \in [Area -> Nat],
         ~isrCtx[Current] => end'[Areas[area]][Current] <= mainEnd'[Areas[area]],
         isrCtx[Current] => mainEnd[Areas[area]] <= b,
         \A c \in Callers(Current) :
           isrCtx[c] = isrCtx[Current] => end[Areas[area]][c] <= b
  PROVE  Placement'
<1> USE DEF LayoutInv
<1> DEFINE a == Areas[area]
<1>1. area \in AreaIndex /\ a \in Area
  BY AreasTyped DEF OrderInv, TypeInv, Shape
<1>2. /\ pos \in 1 .. N /\ Current \in Func /\ Current = order[pos]
      /\ Len(order) = N
  BY CurrentTyped, SizesAssumption DEF OrderInv, TypeInv, Shape, Current
<1>3. TypeOK
  BY DEF OrderInv, TypeInv
<1>4. /\ base'[a][Current] = b /\ end'[a][Current] \in Nat
      /\ b <= end'[a][Current]
      /\ \A d \in Area, g \in Func : d # a \/ g # Current =>
           base'[d][g] = base[d][g] /\ end'[d][g] = end[d][g]
  BY <1>1, <1>2, <1>3, PlaceAtFrames
<1>5. \A k \in 1 .. N : order[k] \in Func /\ (order[k] = Current => k = pos)
  BY <1>2, <1>3, ElementOfSeq DEF TypeOK, OrderInv, Distinct
<1>6. ASSUME NEW k \in 1 .. pos, NEW c \in Ahead(k)
      PROVE  c \in Func /\ c # Current
  <2>1. PICK j \in 1 .. k - 1 : order[j] = c
    BY <1>6 DEF Ahead
  <2>2. j \in 1 .. N /\ j # pos
    BY <1>2
  <2>3. QED
    BY <1>5, <2>1, <2>2
<1>7. /\ \A k : Callers(order[k])' = Callers(order[k]) /\ Ahead(k)' = Ahead(k)
      /\ order' = order /\ isrCtx' = isrCtx
      /\ area' = area /\ phase' = phase
  BY DEF Callers, Ahead, topoVars
<1>8. ASSUME NEW i \in AreaIndex, NEW k \in 1 .. N, Done(i, k)'
      PROVE  Done(i, k) \/ (i = area /\ k = pos)
  BY <1>2, <1>7, <1>8 DEF Done
<1>9. ASSUME NEW i \in AreaIndex, NEW k \in 1 .. N, Done(i, k),
             ~(i = area /\ k = pos)
      PROVE  Sided(Areas[i], order[k])' /\ Stacked(Areas[i], k)'
  <2> DEFINE d == Areas[i]
             g == order[k]
  <2>1. Sided(d, g) /\ Stacked(d, k)
    BY <1>9 DEF Placement, Placing
  <2>2. d \in Area /\ g \in Func
    BY <1>5, AreasTyped
  <2>3. d = a => i = area
    BY <1>1, SizesAssumption
  <2>4. d # a \/ g # Current
    BY <1>5, <1>9, <2>3
  <2>5. base'[d][g] = base[d][g] /\ end'[d][g] = end[d][g]
    BY <1>4, <2>2, <2>4
  <2>6. mainEnd[d] <= mainEnd'[d] /\ mainEnd'[d] \in Nat /\ mainEnd[d] \in Nat
    <3>1. mainEnd'[d] \in Nat /\ mainEnd[d] \in Nat
      BY <1>3, <2>2 DEF TypeOK
    <3>2. CASE d = a
      BY <3>1, <3>2
    <3>3. CASE d # a
      BY <2>2, <3>1, <3>3
    <3>4. QED
      BY <3>1, <3>2, <3>3
  <2>7. isrCtx[g] => mainEnd'[d] = mainEnd[d]
    <3>1. CASE d # a
      BY <2>2, <3>1
    <3>2. CASE d = a /\ isrCtx[g]
      <4>1. i = area /\ phase = "isr"
        BY <1>1, <1>9, <2>3, <3>2, SizesAssumption DEF Done, AreaIndex
      <4>2. QED
        BY <3>2, <4>1
    <3>3. QED
      BY <3>1, <3>2
  <2>8. end[d][g] \in Nat /\ base[d][g] \in Nat
    BY <1>3, <2>2 DEF TypeOK
  <2>9. Sided(d, g)'
    BY <1>7, <2>1, <2>5, <2>6, <2>7, <2>8 DEF Sided
  <2>10. ASSUME NEW c \in Callers(g) \cap Ahead(k), isrCtx[c] = isrCtx[g]
         PROVE  end'[d][c] <= base'[d][g]
    <3>1. end[d][c] <= base[d][g] /\ c \in Func
      BY <2>1, <2>10, CallersTyped DEF Stacked
    <3>2. CASE d # a
      BY <1>4, <2>2, <2>5, <3>1, <3>2
    <3>3. CASE d = a
      <4>1. i = area
        BY <2>3, <3>3
      <4>2. CASE k <= pos
        BY <1>4, <1>6, <2>2, <2>5, <2>10, <3>1, <4>2
      <4>3. CASE k > pos
        <5>1. phase = "isr" /\ ~isrCtx[g] /\ isrCtx[Current]
          BY <1>1, <1>2, <1>9, <4>1, <4>3, SizesAssumption
             DEF Done, AreaIndex
        <5>2. c # Current
          BY <2>10, <5>1
        <5>3. QED
          BY <1>4, <2>2, <2>5, <3>1, <5>2
      <4>4. QED
        BY <1>2, <4>2, <4>3
    <3>4. QED
      BY <3>2, <3>3
  <2>11. Stacked(d, k)'
    BY <1>7, <2>10 DEF Stacked
  <2>12. QED
    BY <2>9, <2>11
<1>10. ASSUME NEW i \in AreaIndex, NEW k \in 1 .. N, i = area, k = pos
       PROVE  Sided(Areas[i], order[k])' /\ Stacked(Areas[i], k)'
  <2>1. order[k] = Current /\ Areas[i] = a
    BY <1>2, <1>10
  <2>2. mainEnd[a] \in Nat /\ mainEnd'[a] \in Nat
    BY <1>1, <1>3 DEF TypeOK
  <2>3. Sided(Areas[i], order[k])'
    BY <1>4, <1>7, <2>1, <2>2 DEF Sided
  <2>4. ASSUME NEW c \in Callers(Current) \cap Ahead(k),
               isrCtx[c] = isrCtx[Current]
        PROVE  end'[a][c] <= base'[a][Current]
    <3>1. c \in Func /\ c # Current
      BY <1>2, <1>6, <1>10, <2>4
    <3>2. QED
      BY <1>1, <1>4, <2>4, <3>1
  <2>5. Stacked(Areas[i], k)'
    BY <1>7, <2>1, <2>4 DEF Stacked
  <2>6. QED
    BY <2>3, <2>5
<1>11. QED
  <2>1. ASSUME NEW i \in AreaIndex, NEW k \in 1 .. N, Done(i, k)'
        PROVE  Sided(Areas[i], order[k])' /\ Stacked(Areas[i], k)'
    BY <1>8, <1>9, <1>10, <2>1
  <2>2. QED
    BY <1>7, <2>1 DEF Placement

LEMMA PlaceMainPlacement == LayoutInv /\ PlaceMain => Placement'
<1> SUFFICES ASSUME LayoutInv, PlaceMain PROVE Placement'
  OBVIOUS
<1> DEFINE a == Areas[area]
<1>1. TypeOK /\ Shape /\ phase = "main" /\ pos <= N /\ ~isrCtx[Current]
  BY DEF LayoutInv, OrderInv, TypeInv, PlaceMain
<1>2. a \in Area /\ Current \in Func
  BY <1>1, AreasTyped, CurrentTyped DEF Shape, TypeInv
<1>3. PICK b \in {Floor[a]} \cup {end[a][c] : c \in Callers(Current)} :
        /\ \A c \in Callers(Current) : end[a][c] <= b
        /\ PlaceAt(a, Current, b)
        /\ mainEnd' = [mainEnd EXCEPT ![a] = Larger(@, end'[a][Current])]
  BY DEF PlaceMain
<1>4. b \in Nat
  <2>1. Floor[a] \in Nat
    BY <1>2, SizesAssumption
  <2>2. \A c \in Callers(Current) : end[a][c] \in Nat
    BY <1>1, <1>2 DEF TypeOK, Callers
  <2>3. QED
    BY <1>3, <2>1, <2>2
<1>5. end'[a][Current] \in Nat /\ mainEnd[a] \in Nat /\ mainEnd \in [Area -> Nat]
  BY <1>1, <1>2, <1>3, <1>4, PlaceAtTyped DEF TypeOK
<1>6. /\ mainEnd' \in [Area -> Nat]
      /\ mainEnd'[a] = Larger(mainEnd[a], end'[a][Current])
      /\ \A d \in Area : d # a => mainEnd'[d] = mainEnd[d]
  BY <1>2, <1>3, <1>5 DEF Larger
<1>7. mainEnd[a] <= mainEnd'[a] /\ end'[a][Current] <= mainEnd'[a]
  BY <1>5, <1>6 DEF Larger
<1>8. /\ UNCHANGED <<prog, phase, topoVars, area, isrCtx>>
      /\ pos' = pos + 1
  BY DEF PlaceMain
<1> HIDE DEF a
<1>9. QED
  BY <1>1, <1>3, <1>4, <1>6, <1>7, <1>8, PlaceStep DEF a

LEMMA PlaceIsrPlacement == LayoutInv /\ PlaceIsr => Placement'
<1> SUFFICES ASSUME LayoutInv, PlaceIsr PROVE Placement'
  OBVIOUS
<1> DEFINE a == Areas[area]
           callers == {c \in Callers(Current) : isrCtx[c]}
<1>1. TypeOK /\ Shape /\ phase = "isr" /\ pos <= N /\ isrCtx[Current]
  BY DEF LayoutInv, OrderInv, TypeInv, PlaceIsr
<1>2. a \in Area /\ Current \in Func
  BY <1>1, AreasTyped, CurrentTyped DEF Shape, TypeInv
<1>3. PICK b \in {mainEnd[a]} \cup {end[a][c] : c \in callers} :
        /\ mainEnd[a] <= b
        /\ \A c \in callers : end[a][c] <= b
        /\ PlaceAt(a, Current, b)
  BY DEF PlaceIsr
<1>4. b \in Nat
  <2>1. mainEnd[a] \in Nat
    BY <1>1, <1>2 DEF TypeOK
  <2>2. \A c \in Callers(Current) : end[a][c] \in Nat
    BY <1>1, <1>2 DEF TypeOK, Callers
  <2>3. QED
    BY <1>3, <2>1, <2>2
<1>5. mainEnd' = mainEnd /\ mainEnd' \in [Area -> Nat] /\ mainEnd[a] <= mainEnd[a]
  BY <1>1, <1>2 DEF TypeOK, PlaceIsr
<1>6. \A c \in Callers(Current) : isrCtx[c] = isrCtx[Current] => end[a][c] <= b
  BY <1>1, <1>3
<1>7. /\ UNCHANGED <<prog, phase, topoVars, area, isrCtx>>
      /\ pos' = pos + 1
  BY DEF PlaceIsr
<1> HIDE DEF a
<1>8. phase \in {"main", "isr"} /\ ((phase = "main") <=> ~isrCtx[Current])
  BY <1>1
<1>9. PlaceAt(Areas[area], Current, b)
  BY <1>3 DEF a
<1>10. QED
  BY <1>1, <1>3, <1>4, <1>5, <1>6, <1>7, <1>8, <1>9, PlaceStep DEF a

\* A step that moves no frame and finishes none keeps Placement.
LEMMA KeepPlacement ==
  ASSUME LayoutInv, Placing,
         UNCHANGED <<prog, order, isrCtx, base, end, mainEnd>>,
         \A i \in AreaIndex, k \in 1 .. N : Done(i, k)' => Done(i, k)
  PROVE  Placement'
<1>1. ASSUME NEW i \in AreaIndex, NEW k \in 1 .. N, Done(i, k)'
      PROVE  Sided(Areas[i], order[k])' /\ Stacked(Areas[i], k)'
  <2>1. Sided(Areas[i], order[k]) /\ Stacked(Areas[i], k)
    BY <1>1 DEF LayoutInv, Placement
  <2>2. Sided(Areas[i], order[k])'
    BY <2>1 DEF Sided
  <2>3. Stacked(Areas[i], k)'
    BY <2>1 DEF Stacked, Callers, Ahead
  <2>4. QED
    BY <2>2, <2>3
<1>2. QED
  BY <1>1 DEF Placement

LEMMA NextLayoutInv == LayoutInv /\ [Next]_vars => LayoutInv'
<1> SUFFICES ASSUME LayoutInv, [Next]_vars PROVE LayoutInv'
  OBVIOUS
<1>1. OrderInv /\ OrderInv' /\ Shape /\ N \in Nat
  BY NextOrderInv, SizesAssumption DEF LayoutInv, OrderInv, TypeInv
<1> SUFFICES Placement'
  BY <1>1 DEF LayoutInv
<1>2. CASE SkipSeen \/ VisitTop \/ BreakCycle \/ EndOrder \/ MarkContext
  BY <1>2 DEF SkipSeen, VisitTop, BreakCycle, EndOrder, MarkContext, Placement,
              Placing
<1>3. CASE EndContext
  <2>1. /\ pos' = 1 /\ area' = 1
        /\ phase' = IF 1 \in AreaIndex THEN "main" ELSE "run"
    BY <1>3 DEF EndContext, BeginArea
  <2>2. \A i \in AreaIndex, k \in 1 .. N : ~Done(i, k)'
    BY <2>1, AreasTyped DEF Done, AreaIndex
  <2>3. QED
    BY <2>2, <1>1 DEF Placement
<1>4. CASE PlaceMain
  BY <1>4, PlaceMainPlacement
<1>5. CASE PlaceIsr
  BY <1>5, PlaceIsrPlacement
<1>6. CASE SkipOther
  <2>1. /\ Placing /\ Current = order[pos] /\ pos' = pos + 1
        /\ UNCHANGED <<prog, order, isrCtx, base, end, mainEnd>>
        /\ UNCHANGED <<phase, area>>
        /\ (phase = "main" /\ isrCtx[order[pos]])
           \/ (phase = "isr" /\ ~isrCtx[order[pos]])
    BY <1>6 DEF SkipOther, Placing, topoVars, Current
  <2>2. \A i \in AreaIndex, k \in 1 .. N : Done(i, k)' => Done(i, k)
    BY <1>1, <2>1 DEF Done, Shape
  <2>3. QED
    BY <2>1, <2>2, KeepPlacement
<1>7. CASE EndMain
  <2>1. /\ Placing /\ phase = "main" /\ pos > N /\ phase' = "isr" /\ pos' = 1
        /\ UNCHANGED <<prog, order, isrCtx, base, end, mainEnd, area>>
    BY <1>7 DEF EndMain, Placing, topoVars
  <2>2. \A i \in AreaIndex, k \in 1 .. N : Done(i, k)' => Done(i, k)
    BY <1>1, <2>1 DEF Done, Shape
  <2>3. QED
    BY <2>1, <2>2, KeepPlacement
<1>8. CASE EndIsr
  <2>1. /\ Placing /\ phase = "isr" /\ pos > N /\ area \in AreaIndex
        /\ UNCHANGED <<prog, order, isrCtx, base, end, mainEnd>>
    BY <1>1, <1>8 DEF EndIsr, Placing, topoVars, Shape
  <2>2. CASE phase' = "failed"
    BY <2>2 DEF Placement, Placing
  <2>3. CASE BeginArea(area + 1)
    <3>1. /\ pos' = 1 /\ area' = area + 1
          /\ phase' = IF area + 1 \in AreaIndex THEN "main" ELSE "run"
      BY <2>3 DEF BeginArea
    <3>2. \A i \in AreaIndex, k \in 1 .. N : Done(i, k)' => Done(i, k)
      BY <1>1, <2>1, <3>1, AreasTyped DEF Done, Shape, AreaIndex
    <3>3. QED
      BY <2>1, <3>2, KeepPlacement
  <2>4. QED
    BY <1>8, <2>2, <2>3 DEF EndIsr
<1>9. CASE UNCHANGED <<prog, phase, topoVars, placeVars>>
  <2>1. CASE Placing
    <3>1. UNCHANGED <<order, isrCtx, base, end, mainEnd, area, pos>>
      BY <1>9 DEF topoVars, placeVars
    <3>2. \A i \in AreaIndex, k \in 1 .. N : Done(i, k)' => Done(i, k)
      BY <1>9, <3>1 DEF Done
    <3>3. QED
      BY <1>9, <2>1, <3>1, <3>2, KeepPlacement
  <2>2. CASE ~Placing
    BY <1>9, <2>2 DEF Placement, Placing
  <2>3. QED
    BY <2>1, <2>2
<1>10. Run \/ UNCHANGED vars => UNCHANGED <<prog, phase, topoVars, placeVars>>
  BY DEF Run, vars, StartMain, Call, Return, Interrupt
<1>11. QED
  BY <1>2, <1>3, <1>4, <1>5, <1>6, <1>7, <1>8, <1>9, <1>10 DEF Next, Layout

THEOREM LayoutInvariant == Spec => []LayoutInv
<1>1. Init => LayoutInv
  BY InitOrderInv DEF Init, LayoutInv, Placement, Placing
<1>2. QED
  BY <1>1, NextLayoutInv, PTL DEF Spec

\* In a finished layout every frame of every area is in its place.
LEMMA AllPlaced ==
  ASSUME LayoutInv, phase = "run", NEW a \in Area
  PROVE  /\ \A g \in Func : Sided(a, g)
         /\ \A k \in 1 .. N : Stacked(a, k)
<1>1. PICK i \in AreaIndex : Areas[i] = a
  BY DEF Area
<1>2. \A k \in 1 .. N : Done(i, k)
  BY AreasTyped DEF LayoutInv, OrderInv, TypeInv, Shape, Done, AreaIndex
<1>3. \A k \in 1 .. N : Sided(a, order[k]) /\ Stacked(a, k)
  BY <1>1, <1>2 DEF LayoutInv, Placement, Placing
<1>4. \A g \in Func : \E k \in 1 .. N : order[k] = g
  BY OrderCovers DEF LayoutInv
<1>5. QED
  BY <1>3, <1>4

-----------------------------------------------------------------------------
(***************************************************************************)
(* Components of the call graph, and the function a component is entered   *)
(* through.                                                                *)
(***************************************************************************)
LEMMA ReachesItself == \A p, f : Reaches(p, f, f)
BY DEF Reaches

LEMMA ReachesOn ==
  ASSUME NEW p, NEW f, NEW g, NEW h, Reaches(p, f, g), Reaches(p, g, h)
  PROVE  Reaches(p, f, h)
BY DEF Reaches

LEMMA ReachesCallee ==
  ASSUME NEW p, NEW f, NEW g \in p.callees[f]
  PROVE  Reaches(p, f, g)
BY DEF Reaches

LEMMA SccEquivalence ==
  /\ \A p, f : SameScc(p, f, f)
  /\ \A p, f, g : SameScc(p, f, g) => SameScc(p, g, f)
  /\ \A p, f, g, h : SameScc(p, f, g) /\ SameScc(p, g, h) => SameScc(p, f, h)
<1>1. \A p, f : SameScc(p, f, f)
  BY ReachesItself DEF SameScc
<1>2. \A p, f, g : SameScc(p, f, g) => SameScc(p, g, f)
  BY DEF SameScc
<1>3. ASSUME NEW p, NEW f, NEW g, NEW h, SameScc(p, f, g), SameScc(p, g, h)
      PROVE  SameScc(p, f, h)
  BY <1>3, ReachesOn DEF SameScc
<1>4. QED
  BY <1>1, <1>2, <1>3

\* The least member of a set of functions or of places.
LEMMA LeastOf ==
  ASSUME NEW T \in SUBSET Nat, T # {}
  PROVE  \E m \in T : \A n \in T : m <= n
<1>1. PICK m \in T : \A n \in T : ~(<<n, m>> \in OpToRel(<, Nat))
  BY NatLessThanWellFounded, WFMin
<1>2. \A n \in T : n \in Nat /\ m \in Nat /\ ~(n < m)
  BY <1>1 DEF OpToRel
<1>3. QED
  BY <1>2

IsFirst(p, f) == \A g \in Func : SameScc(p, f, g) => f <= g

Entry(p, f) == CHOOSE e \in Func : SameScc(p, f, e) /\ IsFirst(p, e)

LEMMA EntryExists ==
  ASSUME NEW p, NEW f \in Func
  PROVE  /\ Entry(p, f) \in Func
         /\ SameScc(p, f, Entry(p, f))
         /\ IsFirst(p, Entry(p, f))
<1> DEFINE T == {g \in Func : SameScc(p, f, g)}
<1>1. T \in SUBSET Nat /\ f \in T
  BY SccEquivalence, SizesAssumption DEF Func
<1>2. PICK e \in T : \A g \in T : e <= g
  BY <1>1, LeastOf
<1>3. IsFirst(p, e)
  <2> SUFFICES ASSUME NEW g \in Func, SameScc(p, e, g) PROVE e <= g
    BY DEF IsFirst
  <2>1. SameScc(p, f, g)
    BY <1>2, SccEquivalence
  <2>2. QED
    BY <1>2, <2>1
<1>4. \E x \in Func : SameScc(p, f, x) /\ IsFirst(p, x)
  BY <1>2, <1>3
<1>5. QED
  BY <1>4 DEF Entry

\* The members of a component have one entry, and it is its own.
LEMMA EntryUnique ==
  ASSUME NEW p, NEW f \in Func, NEW g \in Func, SameScc(p, f, g)
  PROVE  /\ Entry(p, f) = Entry(p, g)
         /\ IsFirst(p, f) => Entry(p, g) = f
<1>1. ASSUME NEW d \in Func, NEW e \in Func, SameScc(p, d, e),
             IsFirst(p, d), IsFirst(p, e)
      PROVE  d = e
  <2>1. d <= e /\ e <= d
    BY <1>1, SccEquivalence DEF IsFirst
  <2>2. d \in Nat /\ e \in Nat
    BY SizesAssumption DEF Func
  <2>3. QED
    BY <2>1, <2>2
<1>2. /\ Entry(p, f) \in Func /\ Entry(p, g) \in Func
      /\ SameScc(p, f, Entry(p, f)) /\ SameScc(p, g, Entry(p, g))
      /\ IsFirst(p, Entry(p, f)) /\ IsFirst(p, Entry(p, g))
  BY EntryExists
<1>3. SameScc(p, f, Entry(p, g))
  BY <1>2, SccEquivalence
<1>4. SameScc(p, Entry(p, f), Entry(p, g))
  BY <1>2, <1>3, SccEquivalence
<1>5. QED
  BY <1>1, <1>2, <1>3, <1>4

-----------------------------------------------------------------------------
(***************************************************************************)
(* Disciplined programs: cycles are broken where they are entered, the     *)
(* interrupt context is closed under calls and disjoint from what main can *)
(* reach.                                                                  *)
(***************************************************************************)
Disciplined(p) == TopDown(p) /\ NoSharing(p) /\ OnePriority(p)

\* TopDown, without its local names.
LEMMA TopDownFacts ==
  ASSUME NEW p, TopDown(p), NEW f \in Func
  PROVE  /\ \A c \in Func : f \in p.callees[c] /\ ~SameScc(p, c, f)
              => c < f \/ ~BehindCycle(p, c)
         /\ \/ IsFirst(p, f)
            \/ /\ f \notin p.handlers
               /\ \A c \in Func : f \in p.callees[c] => SameScc(p, c, f)
               /\ \E c \in Func : f \in p.callees[c] /\ c < f
BY DEF TopDown, IsFirst

\* The functions can be ranked so that calls go up: no recursion at all.
NoRecursion(p) ==
  \E rank \in [Func -> Func] :
    \A f \in Func : \A g \in p.callees[f] : rank[f] < rank[g]

\* A program without recursion is numbered top-down, whatever its numbering.
LEMMA AcyclicIsTopDown ==
  ASSUME NEW p \in ProgramType, NoRecursion(p)
  PROVE  TopDown(p)
<1>1. PICK rank \in [Func -> Func] :
        \A f \in Func : \A g \in p.callees[f] : rank[f] < rank[g]
  BY DEF NoRecursion
<1>2. \A h \in Func : rank[h] \in Nat /\ p.callees[h] \in SUBSET Func
  <2>1. Func \in SUBSET Nat
    BY SizesAssumption DEF Func
  <2>2. \A h \in Func : rank[h] \in Func
    BY <1>1
  <2>3. QED
    BY <2>1, <2>2 DEF ProgramType
<1>3. ASSUME NEW f \in Func, NEW g \in Func, Reaches(p, f, g), f # g
      PROVE  rank[f] < rank[g]
  <2> DEFINE S == {f} \cup {h \in Func : rank[f] < rank[h]}
  <2>1. S \in SUBSET Func /\ f \in S
    OBVIOUS
  <2>2. ASSUME NEW h \in S PROVE p.callees[h] \subseteq S
    BY <1>1, <1>2
  <2>3. g \in S
    <3> HIDE DEF S
    <3>1. QED
      BY <1>3, <2>1, <2>2 DEF Reaches
  <2>4. QED
    BY <1>3, <2>3
<1>4. \A f, g \in Func : SameScc(p, f, g) => f = g
  BY <1>2, <1>3 DEF SameScc
<1>5. ASSUME NEW c \in Func PROVE ~BehindCycle(p, c)
  <2> SUFFICES ASSUME NEW r \in Func, NEW g \in p.callees[r], SameScc(p, r, g)
               PROVE  FALSE
    BY DEF BehindCycle, Recursive
  <2>1. g \in Func /\ rank[r] < rank[g]
    BY <1>1, <1>2
  <2>2. r = g
    BY <1>4, <2>1
  <2>3. QED
    BY <1>2, <2>1, <2>2
<1>6. \A f, g \in Func : SameScc(p, f, g) => f <= g
  <2>1. Func \in SUBSET Nat
    BY SizesAssumption DEF Func
  <2>2. QED
    BY <1>4, <2>1
<1>7. QED
  BY <1>5, <1>6 DEF TopDown

\* Of functions in front of all cycles, one is called by none of the others.
LEMMA FirstInFront ==
  ASSUME NEW p, NEW T \in SUBSET Func, T # {},
         \A f \in T : ~BehindCycle(p, f)
  PROVE  \E f \in T : \A c \in T : f \notin p.callees[c]
<1> DEFINE above(f) == {c \in Func : Reaches(p, c, f)}
           sizes == {Cardinality(above(f)) : f \in T}
<1>1. \A f : IsFiniteSet(above(f)) /\ Cardinality(above(f)) \in Nat
  <2>1. \A f : above(f) \in SUBSET Func
    OBVIOUS
  <2> HIDE DEF above
  <2>2. QED
    BY <2>1, FuncFinite, FS_CardinalityType
<1>2. sizes \in SUBSET Nat /\ sizes # {}
  <2> HIDE DEF above
  <2>1. QED
    BY <1>1
<1>3. PICK m \in sizes : \A n \in sizes : m <= n
  <2> HIDE DEF sizes
  <2>1. QED
    BY <1>2, LeastOf
<1>4. PICK f \in T : m = Cardinality(above(f))
  BY <1>3
<1>5. SUFFICES ASSUME NEW c \in T, f \in p.callees[c] PROVE FALSE
  OBVIOUS
<1>6. Reaches(p, c, f)
  BY <1>5, ReachesCallee
<1>7. f \in above(f) /\ f \notin above(c)
  <2>1. f \in above(f)
    BY ReachesItself
  <2>2. ASSUME Reaches(p, f, c) PROVE FALSE
    <3>1. Recursive(p, c)
      BY <1>5, <1>6, <2>2 DEF Recursive, SameScc
    <3>2. BehindCycle(p, c)
      BY <3>1, ReachesItself DEF BehindCycle
    <3>3. QED
      BY <3>2
  <2>3. QED
    BY <2>1, <2>2
<1>8. above(c) \subseteq above(f)
  BY <1>6, ReachesOn
<1>9. Cardinality(above(c)) < Cardinality(above(f))
  <2> HIDE DEF above
  <2>1. Cardinality(above(c)) <= Cardinality(above(f))
    BY <1>1, <1>8, FS_Subset
  <2>2. Cardinality(above(c)) # Cardinality(above(f))
    BY <1>1, <1>7, <1>8, FS_Subset
  <2>3. QED
    BY <1>1, <2>1, <2>2
<1>10. Cardinality(above(f)) <= Cardinality(above(c))
  <2>1. Cardinality(above(c)) \in sizes
    OBVIOUS
  <2> HIDE DEF above, sizes
  <2>2. QED
    BY <1>3, <1>4, <2>1
<1>11. QED
  <2> HIDE DEF above
  <2>1. QED
    BY <1>1, <1>9, <1>10

\* The order of a program numbered top-down: callers from other components
\* come first, and a function that is not the first of its component has a
\* caller in the component in front of it.
LEMMA OrderTopDown ==
  ASSUME OrderInv, phase # "order", TopDown(prog), NEW k \in 1 .. N
  PROVE  /\ order[k] \in Func
         /\ \A c \in Callers(order[k]) :
              SameScc(prog, c, order[k]) \/ c \in Ahead(k)
         /\ \/ IsFirst(prog, order[k])
            \/ /\ order[k] \notin prog.handlers
               /\ \E c \in Callers(order[k]) \cap Ahead(k) :
                    SameScc(prog, c, order[k])
<1> DEFINE f == order[k]
<1>1. k \in 1 .. Len(order) /\ f \in Func
  BY ElementOfSeq DEF OrderInv, TypeInv, TypeOK, Shape
<1>2. \A c \in Callers(f) : c \in Func /\ f \in prog.callees[c]
  BY DEF Callers
<1>3. CASE Callers(f) \subseteq Ahead(k)
  <2>1. \/ IsFirst(prog, f)
        \/ /\ f \notin prog.handlers
           /\ \A c \in Func : f \in prog.callees[c] => SameScc(prog, c, f)
           /\ \E c \in Func : f \in prog.callees[c] /\ c < f
    BY <1>1, TopDownFacts
  <2>2. \A c \in Func : f \in prog.callees[c] => c \in Callers(f)
    BY DEF Callers
  <2> HIDE DEF f
  <2>3. QED
    BY <1>1, <1>3, <2>1, <2>2 DEF f
<1>4. CASE \A g \in Func \ Ahead(k) : f <= g /\ ~(Callers(g) \subseteq Ahead(k))
  <2> DEFINE T == {g \in Func \ Ahead(k) : ~BehindCycle(prog, g)}
  <2>1. T = {}
    <3> SUFFICES ASSUME T # {} PROVE FALSE
      OBVIOUS
    <3>1. T \in SUBSET Func /\ \A g \in T : ~BehindCycle(prog, g)
      OBVIOUS
    <3>2. PICK g \in T : \A c \in T : g \notin prog.callees[c]
      <4> HIDE DEF T
      <4>1. QED
        BY <3>1, FirstInFront
    <3>3. PICK c \in Callers(g) : c \notin Ahead(k)
      BY <1>4
    <3>4. c \in Func /\ g \in prog.callees[c]
      BY DEF Callers
    <3>5. BehindCycle(prog, c)
      BY <3>2, <3>3, <3>4
    <3>6. PICK r \in Func : Recursive(prog, r) /\ Reaches(prog, r, c)
      BY <3>5 DEF BehindCycle
    <3>7. Reaches(prog, r, g)
      BY <3>4, <3>6, ReachesCallee, ReachesOn
    <3>8. BehindCycle(prog, g)
      BY <3>6, <3>7 DEF BehindCycle
    <3>9. QED
      BY <3>8
  <2>2. \A c \in Func : ~BehindCycle(prog, c) => c \in Ahead(k)
    BY <2>1
  <2>3. \A c \in Func : c < f => c \in Ahead(k)
    <3>1. \A c \in Func \ Ahead(k) : f <= c
      BY <1>4
    <3>2. \A g \in Func : g \in Nat
      BY SizesAssumption DEF Func
    <3> HIDE DEF f
    <3>3. QED
      BY <1>1, <3>1, <3>2
  <2>4. /\ \A c \in Func : f \in prog.callees[c] /\ ~SameScc(prog, c, f)
             => c < f \/ ~BehindCycle(prog, c)
        /\ \/ IsFirst(prog, f)
           \/ /\ f \notin prog.handlers
              /\ \A c \in Func : f \in prog.callees[c] => SameScc(prog, c, f)
              /\ \E c \in Func : f \in prog.callees[c] /\ c < f
    BY <1>1, TopDownFacts
  <2>5. \A c \in Func : f \in prog.callees[c] => c \in Callers(f)
    BY DEF Callers
  <2> HIDE DEF f
  <2>6. QED
    BY <1>1, <1>2, <2>2, <2>3, <2>4, <2>5 DEF f
<1>5. QED
  BY <1>1, <1>3, <1>4 DEF OrderInv, Before

\* The functions on the handlers' side of the program.
IsIsrSide(p, side) ==
  /\ ~side[p.main]
  /\ \A h \in p.handlers : side[h]
  /\ \A f \in Func : \A g \in p.callees[f] : side[f] = side[g]

IsrSide(p) == CHOOSE side \in [Func -> BOOLEAN] : IsIsrSide(p, side)

LEMMA IsrSideExists ==
  ASSUME NEW p, NoSharing(p)
  PROVE  IsrSide(p) \in [Func -> BOOLEAN] /\ IsIsrSide(p, IsrSide(p))
<1>1. \E side \in [Func -> BOOLEAN] : IsIsrSide(p, side)
  BY DEF NoSharing, IsIsrSide
<1>2. QED
  BY <1>1 DEF IsrSide

\* Marking has visited the first n functions of the order.
MarkedTo(n) ==
  \A k \in 1 .. n : \A c \in Callers(order[k]) \cap Ahead(k) :
    isrCtx[c] => isrCtx[order[k]]

Marks ==
  /\ \A f \in Func : isrCtx[f] => f \in ByHandlers(prog)
  /\ \A h \in prog.handlers : isrCtx[h]
  /\ phase = "context" => MarkedTo(pos - 1)
  /\ phase \notin {"order", "context"} => MarkedTo(N)

MarkInv == LayoutInv /\ Marks

LEMMA InitMarkInv == Init => MarkInv
<1> SUFFICES ASSUME Init PROVE MarkInv
  OBVIOUS
<1>1. LayoutInv
  BY InitOrderInv DEF Init, LayoutInv, Placement, Placing
<1>2. prog.handlers \in SUBSET Func
  BY <1>1 DEF LayoutInv, OrderInv, TypeInv, TypeOK, ProgramType
<1>3. \A h \in prog.handlers : h \in ByHandlers(prog)
  BY <1>2, ReachesItself DEF ByHandlers
<1>4. Marks
  BY <1>2, <1>3 DEF Marks, Init
<1>5. QED
  BY <1>1, <1>4 DEF MarkInv

LEMMA MarkMarks == MarkInv /\ MarkContext => Marks'
<1> SUFFICES ASSUME MarkInv, MarkContext PROVE Marks'
  OBVIOUS
<1>1. /\ OrderInv /\ TypeOK /\ Shape /\ Marks /\ TypeInv /\ N \in Nat
  BY SizesAssumption DEF MarkInv, LayoutInv, OrderInv, TypeInv
<1>2. /\ phase = "context" /\ pos \in 1 .. N /\ Len(order) = N
      /\ UNCHANGED <<prog, phase, order>> /\ pos' = pos + 1
  BY <1>1 DEF MarkContext, Shape, topoVars
<1>3. Current \in Func /\ Current = order[pos]
  BY <1>1, <1>2, CurrentTyped DEF Current
<1>4. /\ \A f \in Func : f # Current => isrCtx'[f] = isrCtx[f]
      /\ isrCtx'[Current] <=> isrCtx[Current] \/ \E c \in Callers(Current) : isrCtx[c]
  <2> DEFINE marked == isrCtx[Current] \/ \E c \in Callers(Current) : isrCtx[c]
  <2>1. isrCtx' = [isrCtx EXCEPT ![Current] = marked]
    BY DEF MarkContext
  <2> HIDE DEF marked
  <2>2. isrCtx'[Current] = marked
    BY <1>1, <1>3, <2>1 DEF TypeOK
  <2>3. \A f \in Func : f # Current => isrCtx'[f] = isrCtx[f]
    BY <1>1, <2>1 DEF TypeOK
  <2>4. QED
    BY <2>2, <2>3 DEF marked
<1>5. ASSUME NEW f \in Func, isrCtx'[f]
      PROVE  f \in ByHandlers(prog)
  <2>1. CASE isrCtx[f]
    BY <1>1, <2>1 DEF Marks
  <2>2. CASE ~isrCtx[f]
    <3>1. PICK c \in Callers(f) : isrCtx[c]
      BY <1>4, <1>5, <2>2
    <3>2. c \in ByHandlers(prog) /\ f \in prog.callees[c]
      BY <1>1, <3>1 DEF Marks, Callers
    <3>3. PICK h \in prog.handlers : Reaches(prog, h, c)
      BY <3>2 DEF ByHandlers
    <3>4. Reaches(prog, h, f)
      BY <3>2, <3>3, ReachesCallee, ReachesOn
    <3>5. QED
      BY <3>4 DEF ByHandlers
  <2>3. QED
    BY <2>1, <2>2
<1>6. \A h \in prog.handlers : isrCtx'[h]
  <2>1. prog.handlers \in SUBSET Func
    BY <1>1 DEF TypeOK, ProgramType
  <2>2. QED
    BY <1>1, <1>3, <1>4, <2>1 DEF Marks
<1>7. ASSUME NEW k \in 1 .. pos, NEW c \in Callers(order[k]) \cap Ahead(k),
             isrCtx'[c]
      PROVE  isrCtx'[order[k]]
  <2>1. PICK j \in 1 .. k - 1 : order[j] = c
    BY DEF Ahead
  <2>2. c # Current /\ c \in Func
    <3>1. j \in 1 .. N /\ j # pos
      BY <1>2
    <3>2. QED
      BY <1>1, <1>2, <1>3, <2>1, <3>1, ElementOfSeq DEF OrderInv, Distinct, TypeOK
  <2>3. isrCtx[c]
    BY <1>4, <1>7, <2>2
  <2>4. CASE k = pos
    BY <1>3, <1>4, <2>3, <2>4
  <2>5. CASE k # pos
    <3>1. k \in 1 .. pos - 1
      BY <1>2, <2>5
    <3>2. isrCtx[order[k]]
      BY <1>1, <1>2, <2>3, <3>1 DEF Marks, MarkedTo
    <3>3. order[k] \in Func
      BY <1>1, <1>2, ElementOfSeq DEF TypeOK
    <3>4. QED
      BY <1>4, <3>2, <3>3
  <2>6. QED
    BY <2>4, <2>5
<1>8. MarkedTo(pos - 1)'
  <2>1. pos' - 1 = pos
    BY <1>2
  <2>2. QED
    BY <1>2, <1>7, <2>1 DEF MarkedTo, Callers, Ahead
<1>9. QED
  BY <1>2, <1>5, <1>6, <1>8 DEF Marks

LEMMA NextMarkInv == MarkInv /\ [Next]_vars => MarkInv'
<1> SUFFICES ASSUME MarkInv, [Next]_vars PROVE MarkInv'
  OBVIOUS
<1>1. LayoutInv' /\ Shape /\ Marks /\ N \in Nat
  BY NextLayoutInv, SizesAssumption
     DEF MarkInv, LayoutInv, OrderInv, TypeInv
<1>2. Marks'
  <2>1. CASE MarkContext
    BY <2>1, MarkMarks
  <2>2. CASE SkipSeen \/ VisitTop \/ BreakCycle
    BY <1>1, <2>2 DEF SkipSeen, VisitTop, BreakCycle, Marks, placeVars
  <2>3. CASE EndOrder
    <3>1. phase' = "context" /\ pos' = 1 /\ UNCHANGED <<prog, isrCtx>>
      BY <1>1, <2>3 DEF EndOrder, Shape, placeVars
    <3>2. QED
      BY <1>1, <3>1 DEF Marks, MarkedTo
  <2>4. CASE EndContext
    <3>1. phase = "context" /\ pos - 1 = N /\ UNCHANGED <<prog, isrCtx, order>>
      BY <1>1, <2>4 DEF EndContext, Shape, topoVars
    <3>2. phase' \in {"main", "run"}
      BY <2>4 DEF EndContext, BeginArea
    <3>3. MarkedTo(N)'
      BY <1>1, <3>1 DEF Marks, MarkedTo, Callers, Ahead
    <3>4. QED
      BY <1>1, <3>1, <3>2, <3>3 DEF Marks
  <2>5. CASE /\ phase \in {"main", "isr"} /\ phase' \notin {"order", "context"}
             /\ UNCHANGED <<prog, isrCtx, order>>
    BY <1>1, <2>5 DEF Marks, MarkedTo, Callers, Ahead
  <2>6. CASE UNCHANGED <<prog, phase, isrCtx, order, pos>>
    BY <1>1, <2>6 DEF Marks, MarkedTo, Callers, Ahead
  <2>7. PlaceMain \/ PlaceIsr \/ SkipOther \/ EndMain \/ EndIsr
          => /\ phase \in {"main", "isr"} /\ phase' \notin {"order", "context"}
             /\ UNCHANGED <<prog, isrCtx, order>>
    BY DEF PlaceMain, PlaceIsr, SkipOther, EndMain, EndIsr, BeginArea, topoVars
  <2>8. Run \/ UNCHANGED vars => UNCHANGED <<prog, phase, isrCtx, order, pos>>
    BY DEF Run, vars, StartMain, Call, Return, Interrupt, topoVars, placeVars
  <2>9. QED
    BY <2>1, <2>2, <2>3, <2>4, <2>5, <2>6, <2>7, <2>8 DEF Next, Layout
<1>3. QED
  BY <1>1, <1>2 DEF MarkInv

THEOREM MarksInvariant == Spec => []MarkInv
BY InitMarkInv, NextMarkInv, PTL DEF Spec

-----------------------------------------------------------------------------
(***************************************************************************)
(* The finished layout of a program numbered top-down.                     *)
(***************************************************************************)

\* A function that a handler reaches is a handler, or one that a handler
\* reaches calls it and comes before it.
LEMMA MarkedCaller ==
  ASSUME OrderInv, phase # "order", TopDown(prog), NEW k \in 1 .. N,
         order[k] \in ByHandlers(prog), order[k] \notin prog.handlers
  PROVE  \E c \in Callers(order[k]) \cap Ahead(k) : c \in ByHandlers(prog)
<1> DEFINE f == order[k]
<1>1. /\ f \in Func
      /\ \A c \in Callers(f) : SameScc(prog, c, f) \/ c \in Ahead(k)
      /\ \/ IsFirst(prog, f)
         \/ \E c \in Callers(f) \cap Ahead(k) : SameScc(prog, c, f)
  BY OrderTopDown
<1>2. PICK h \in prog.handlers : Reaches(prog, h, f)
  BY DEF ByHandlers
<1>3. CASE \E c \in Callers(f) \cap Ahead(k) : SameScc(prog, c, f)
  <2>1. PICK c \in Callers(f) \cap Ahead(k) : SameScc(prog, c, f)
    BY <1>3
  <2>2. Reaches(prog, h, c)
    BY <1>2, <2>1, ReachesOn DEF SameScc
  <2>3. c \in ByHandlers(prog)
    BY <2>1, <2>2 DEF ByHandlers, Callers
  <2>4. QED
    BY <2>1, <2>3
<1>4. CASE IsFirst(prog, f)
  <2> DEFINE S == {x \in Func : Reaches(prog, h, x) /\ ~SameScc(prog, x, f)}
  <2>1. h \in S
    <3>1. h \in Func
      BY DEF OrderInv, TypeInv, TypeOK, ProgramType
    <3>2. IsFirst(prog, h)
      BY <3>1, TopDownFacts
    <3>3. ASSUME SameScc(prog, h, f) PROVE FALSE
      <4>1. Entry(prog, f) = h
        BY <1>1, <3>1, <3>2, <3>3, EntryUnique
      <4>2. Entry(prog, f) = f
        BY <1>1, <1>4, SccEquivalence, EntryUnique
      <4>3. QED
        BY <4>1, <4>2
    <3>4. QED
      BY <3>1, <3>3, ReachesItself
  <2>2. f \notin S
    BY SccEquivalence
  <2>3. PICK x \in S : ~(prog.callees[x] \subseteq S)
    <3>1. S \in SUBSET Func
      OBVIOUS
    <3> HIDE DEF S
    <3>2. QED
      BY <1>2, <2>1, <2>2, <3>1 DEF Reaches
  <2>4. PICK y \in prog.callees[x] : y \notin S
    BY <2>3
  <2>5. /\ x \in Func /\ Reaches(prog, h, x) /\ ~SameScc(prog, x, f)
        /\ y \in Func /\ Reaches(prog, h, y)
    <3>1. x \in Func /\ Reaches(prog, h, x) /\ ~SameScc(prog, x, f)
      BY <2>3
    <3>2. y \in Func
      BY <2>4, <3>1 DEF OrderInv, TypeInv, TypeOK, ProgramType
    <3>3. Reaches(prog, h, y)
      BY <2>4, <3>1, ReachesCallee, ReachesOn
    <3>4. QED
      BY <3>1, <3>2, <3>3
  <2>6. SameScc(prog, y, f)
    BY <2>4, <2>5
  <2>7. ~SameScc(prog, x, y)
    BY <2>5, <2>6, SccEquivalence
  <2>8. y = f
    <3>1. IsFirst(prog, y)
      BY <2>4, <2>5, <2>7, TopDownFacts
    <3>2. Entry(prog, f) = y
      BY <1>1, <2>5, <2>6, <3>1, EntryUnique
    <3>3. Entry(prog, f) = f
      BY <1>1, <1>4, SccEquivalence, EntryUnique
    <3>4. QED
      BY <3>2, <3>3
  <2>9. x \in Callers(f) /\ x \in ByHandlers(prog)
    BY <2>4, <2>5, <2>8 DEF Callers, ByHandlers
  <2>10. x \in Ahead(k)
    BY <1>1, <2>5, <2>9
  <2>11. QED
    BY <2>9, <2>10
<1>5. QED
  BY <1>1, <1>3, <1>4

\* One walk over the order marks exactly what handlers reach.
LEMMA MarksExact ==
  ASSUME MarkInv, phase = "run", TopDown(prog), NEW f \in Func
  PROVE  isrCtx[f] <=> f \in ByHandlers(prog)
<1>1. LayoutInv /\ OrderInv /\ Marks /\ MarkedTo(N)
  BY DEF MarkInv, LayoutInv, Marks
<1> DEFINE T == {k \in 1 .. N : order[k] \in ByHandlers(prog) /\ ~isrCtx[order[k]]}
<1>2. T = {}
  <2> SUFFICES ASSUME T # {} PROVE FALSE
    OBVIOUS
  <2>1. T \in SUBSET Nat
    BY SizesAssumption
  <2>2. PICK m \in T : \A n \in T : m <= n
    <3> HIDE DEF T
    <3>1. QED
      BY <2>1, LeastOf
  <2>3. order[m] \notin prog.handlers
    BY <1>1, <2>2 DEF Marks
  <2>4. PICK c \in Callers(order[m]) \cap Ahead(m) : c \in ByHandlers(prog)
    BY <1>1, <2>2, <2>3, MarkedCaller
  <2>5. PICK j \in 1 .. m - 1 : order[j] = c
    BY <2>4 DEF Ahead
  <2>6. j \in 1 .. N /\ ~(m <= j)
    BY <2>2, SizesAssumption
  <2>7. isrCtx[c]
    BY <2>2, <2>4, <2>5, <2>6
  <2>8. isrCtx[order[m]]
    BY <1>1, <2>2, <2>4, <2>7 DEF MarkedTo
  <2>9. QED
    BY <2>2, <2>8
<1>3. PICK k \in 1 .. N : order[k] = f
  BY <1>1, OrderCovers
<1>4. f \in ByHandlers(prog) => isrCtx[f]
  BY <1>2, <1>3
<1>5. isrCtx[f] => f \in ByHandlers(prog)
  BY <1>1 DEF Marks
<1>6. QED
  BY <1>4, <1>5

\* In a program numbered top-down where it recurses, with or without functions
\* shared between main and the handlers and whatever the priorities, what a
\* handler can reach lies above all that none can: any number of functions,
\* any call graph, any areas.
THEOREM ContextsAreApart == Spec => []ContextsApart
<1>1. MarkInv => ContextsApart
  <2> SUFFICES ASSUME MarkInv, phase = "run", TopDown(prog), NEW a \in Area,
                      NEW g \in ByHandlers(prog),
                      NEW f \in Func \ ByHandlers(prog)
               PROVE  end[a][f] <= base[a][g]
    BY DEF ContextsApart
  <2>1. g \in Func /\ f \in Func
    BY DEF ByHandlers
  <2>2. isrCtx[g] /\ ~isrCtx[f]
    BY <2>1, MarksExact
  <2>3. end[a][f] <= mainEnd[a] /\ mainEnd[a] <= base[a][g]
    BY <2>1, <2>2, AllPlaced DEF MarkInv, Sided
  <2>4. end[a][f] \in Nat /\ mainEnd[a] \in Nat /\ base[a][g] \in Nat
    BY <2>1 DEF MarkInv, LayoutInv, OrderInv, TypeInv, TypeOK
  <2>5. QED
    BY <2>3, <2>4
<1>2. QED
  BY <1>1, MarksInvariant, PTL

-----------------------------------------------------------------------------
(***************************************************************************)
(* Disciplined programs: what handlers reach is closed under calls, and    *)
(* what main reaches is no part of it.                                     *)
(***************************************************************************)
Contexts == (\A f \in Func : isrCtx[f] => IsrSide(prog)[f]) /\ Marks

ContextInv == MarkInv /\ Disciplined(prog)

LEMMA InitContextInv == Init /\ Disciplined(prog) => ContextInv
BY InitMarkInv DEF ContextInv

LEMMA NextContextInv == ContextInv /\ [Next]_vars => ContextInv'
<1>1. [Next]_vars => prog' = prog
  BY DEF Next, Layout, Run, vars, SkipSeen, VisitTop, BreakCycle, EndOrder,
         MarkContext, EndContext, PlaceMain, PlaceIsr, SkipOther, EndMain,
         EndIsr, StartMain, Call, Return, Interrupt
<1>2. QED
  BY <1>1, NextMarkInv DEF ContextInv

\* Marked functions are on the handlers' side.
LEMMA ContextsHold == ASSUME ContextInv PROVE Contexts
<1>1. IsIsrSide(prog, IsrSide(prog)) /\ TypeOK /\ Marks
  BY IsrSideExists
     DEF ContextInv, Disciplined, MarkInv, LayoutInv, OrderInv, TypeInv
<1>2. ASSUME NEW f \in Func, isrCtx[f] PROVE IsrSide(prog)[f]
  <2> DEFINE S == {g \in Func : IsrSide(prog)[g]}
  <2>1. PICK h \in prog.handlers : Reaches(prog, h, f)
    BY <1>1, <1>2 DEF Marks, ByHandlers
  <2>2. S \in SUBSET Func /\ h \in S
    BY <1>1 DEF IsIsrSide, TypeOK, ProgramType
  <2>3. ASSUME NEW g \in S PROVE prog.callees[g] \subseteq S
    BY <1>1 DEF IsIsrSide, TypeOK, ProgramType
  <2>4. f \in S
    <3> HIDE DEF S
    <3>1. QED
      BY <2>1, <2>2, <2>3 DEF Reaches
  <2>5. QED
    BY <2>4
<1>3. QED
  BY <1>1, <1>2 DEF Contexts

-----------------------------------------------------------------------------
(***************************************************************************)
(* The finished layout of a disciplined program.                           *)
(***************************************************************************)

\* What the layout says of every frame, once it is finished.
LEMMA LayoutFacts ==
  ASSUME ContextInv, phase = "run"
  PROVE  /\ TypeOK /\ MarkedTo(N) /\ Contexts /\ Disciplined(prog)
         /\ IsIsrSide(prog, IsrSide(prog))
         /\ \A a \in Area, g \in Func :
              /\ Sided(a, g)
              /\ base[a][g] \in Nat /\ end[a][g] \in Nat /\ mainEnd[a] \in Nat
         /\ \A a \in Area, k \in 1 .. N : Stacked(a, k)
         /\ \A g \in Func : \E k \in 1 .. N : order[k] = g
         /\ \A g \in Func : prog.callees[g] \in SUBSET Func
<1>1. LayoutInv /\ Disciplined(prog) /\ Contexts
  BY ContextsHold DEF ContextInv, MarkInv
<1>2. TypeOK
  BY <1>1 DEF LayoutInv, OrderInv, TypeInv
<1>3. \A a \in Area, g \in Func : Sided(a, g)
  BY <1>1, AllPlaced
<1>4. \A a \in Area, k \in 1 .. N : Stacked(a, k)
  BY <1>1, AllPlaced
<1>5. MarkedTo(N)
  BY <1>1 DEF Contexts, Marks
<1>6. IsIsrSide(prog, IsrSide(prog))
  BY <1>1, IsrSideExists DEF Disciplined
<1>7. \A a \in Area, g \in Func :
        base[a][g] \in Nat /\ end[a][g] \in Nat /\ mainEnd[a] \in Nat
  BY <1>2 DEF TypeOK
<1>8. \A g \in Func : \E k \in 1 .. N : order[k] = g
  BY <1>1, OrderCovers DEF LayoutInv
<1>9. \A g \in Func : prog.callees[g] \in SUBSET Func
  BY <1>2 DEF TypeOK, ProgramType
<1>10. QED
  BY <1>1, <1>2, <1>3, <1>4, <1>5, <1>6, <1>7, <1>8, <1>9

\* A component lies on one side of the program.
LEMMA OneSide ==
  ASSUME ContextInv, phase = "run", NEW f \in Func, NEW g \in Func,
         SameScc(prog, f, g)
  PROVE  IsrSide(prog)[f] = IsrSide(prog)[g]
<1> DEFINE S == {h \in Func : IsrSide(prog)[h] = IsrSide(prog)[f]}
<1>1. S \in SUBSET Func /\ f \in S
  OBVIOUS
<1>2. ASSUME NEW h \in S PROVE prog.callees[h] \subseteq S
  BY LayoutFacts DEF IsIsrSide
<1>3. g \in S
  <2> HIDE DEF S
  <2>1. QED
    BY <1>1, <1>2 DEF SameScc, Reaches
<1>4. QED
  BY <1>3

\* What can run: functions on main's side, and components whose entry is
\* marked.
MayRun(f) == isrCtx[Entry(prog, f)] \/ ~IsrSide(prog)[f]

\* The k-th function, if it may run, is in its entry's context, and its frame
\* begins no earlier than its entry's.
Entered(k) ==
  LET f == order[k]
      e == Entry(prog, f)
  IN MayRun(f) => /\ isrCtx[f] = isrCtx[e]
                  /\ \A a \in Area : base[a][e] <= base[a][f]

LEMMA EnteredStep ==
  ASSUME ContextInv, phase = "run", NEW k \in 1 .. N,
         \A j \in 1 .. k - 1 : Entered(j)
  PROVE  Entered(k)
<1> DEFINE f == order[k]
           e == Entry(prog, f)
<1> SUFFICES ASSUME MayRun(f)
             PROVE  /\ isrCtx[f] = isrCtx[e]
                    /\ \A a \in Area : base[a][e] <= base[a][f]
  BY DEF Entered
<1>1. /\ f \in Func
      /\ \/ IsFirst(prog, f)
         \/ \E c \in Callers(f) \cap Ahead(k) : SameScc(prog, c, f)
  BY OrderTopDown DEF ContextInv, MarkInv, LayoutInv, Disciplined
<1>2. e \in Func /\ SameScc(prog, f, e)
  BY <1>1, EntryExists
<1>3. CASE IsFirst(prog, f)
  <2>1. e = f
    BY <1>1, <1>3, SccEquivalence, EntryUnique
  <2>2. \A a \in Area : base[a][f] \in Nat
    BY <1>1, LayoutFacts
  <2>3. QED
    BY <2>1, <2>2
<1>4. CASE \E c \in Callers(f) \cap Ahead(k) : SameScc(prog, c, f)
  <2>1. PICK c \in Callers(f) \cap Ahead(k) : SameScc(prog, c, f)
    BY <1>4
  <2>2. PICK j \in 1 .. k - 1 : order[j] = c
    BY DEF Ahead
  <2>3. c \in Func
    BY DEF Callers
  <2>4. Entry(prog, c) = e /\ IsrSide(prog)[c] = IsrSide(prog)[f]
    BY <1>1, <2>1, <2>3, EntryUnique, OneSide
  <2>5. /\ isrCtx[c] = isrCtx[e]
        /\ \A a \in Area : base[a][e] <= base[a][c]
    BY <2>2, <2>4 DEF Entered, MayRun
  <2>6. isrCtx[f] = isrCtx[e]
    <3>1. CASE isrCtx[e]
      <4>1. isrCtx[f]
        BY <2>1, <2>5, <3>1, LayoutFacts DEF MarkedTo
      <4>2. isrCtx \in [Func -> BOOLEAN]
        BY LayoutFacts DEF TypeOK
      <4>3. QED
        BY <1>1, <1>2, <3>1, <4>1, <4>2
    <3>2. CASE ~isrCtx[e]
      <4>1. ~IsrSide(prog)[f]
        BY <3>2 DEF MayRun
      <4>2. ~isrCtx[f]
        BY <1>1, <4>1, LayoutFacts DEF Contexts
      <4>3. isrCtx \in [Func -> BOOLEAN]
        BY LayoutFacts DEF TypeOK
      <4>4. QED
        BY <1>1, <1>2, <3>2, <4>2, <4>3
    <3>3. QED
      BY <3>1, <3>2
  <2>7. ASSUME NEW a \in Area PROVE base[a][e] <= base[a][f]
    <3>1. end[a][c] <= base[a][f]
      BY <2>1, <2>5, <2>6, LayoutFacts DEF Stacked
    <3>2. base[a][c] <= end[a][c]
      BY <2>3, LayoutFacts DEF Sided
    <3>3. /\ base[a][e] \in Nat /\ base[a][c] \in Nat
          /\ end[a][c] \in Nat /\ base[a][f] \in Nat
      BY <1>1, <1>2, <2>3, LayoutFacts
    <3>4. base[a][e] <= base[a][c]
      BY <2>5
    <3> HIDE DEF e, f
    <3>5. QED
      BY <3>1, <3>2, <3>3, <3>4
  <2>8. QED
    BY <2>6, <2>7
<1>5. QED
  BY <1>1, <1>3, <1>4

\* A component that may run is entered through the lowest of its frames.
LEMMA EntryIsLowest ==
  ASSUME ContextInv, phase = "run", NEW f \in Func, MayRun(f)
  PROVE  /\ isrCtx[f] = isrCtx[Entry(prog, f)]
         /\ \A a \in Area : base[a][Entry(prog, f)] <= base[a][f]
<1> DEFINE T == {k \in 1 .. N : ~Entered(k)}
<1>1. T = {}
  <2> SUFFICES ASSUME T # {} PROVE FALSE
    OBVIOUS
  <2>1. T \in SUBSET Nat
    BY SizesAssumption
  <2>2. PICK m \in T : \A n \in T : m <= n
    <3> HIDE DEF T
    <3>1. QED
      BY <2>1, LeastOf
  <2>3. ASSUME NEW j \in 1 .. m - 1 PROVE Entered(j)
    <3>1. j \in 1 .. N /\ ~(m <= j)
      BY <2>2, SizesAssumption
    <3>2. QED
      BY <2>2, <3>1
  <2>4. QED
    BY <2>2, <2>3, EnteredStep
<1>2. PICK k \in 1 .. N : order[k] = f
  BY LayoutFacts
<1>3. Entered(k)
  BY <1>1
<1>4. QED
  BY <1>2, <1>3 DEF Entered

\* Handlers are entered directly: each is the first of its component.
LEMMA HandlerIsFirst ==
  ASSUME ContextInv, phase = "run", NEW h \in prog.handlers
  PROVE  h \in Func /\ Entry(prog, h) = h /\ isrCtx[h]
<1>1. h \in Func /\ isrCtx[h]
  BY LayoutFacts DEF TypeOK, ProgramType, Contexts, Marks
<1>2. IsFirst(prog, h)
  BY <1>1, TopDownFacts DEF ContextInv, Disciplined
<1>3. QED
  BY <1>1, <1>2, SccEquivalence, EntryUnique

\* A call stays in its component, or enters another one through its entry,
\* above the caller's frame and in the caller's context.
LEMMA CalleeAbove ==
  ASSUME ContextInv, phase = "run", NEW f \in Func, NEW g \in prog.callees[f],
         MayRun(f)
  PROVE  /\ g \in Func /\ IsrSide(prog)[f] = IsrSide(prog)[g]
         /\ isrCtx[Entry(prog, f)] => isrCtx[Entry(prog, g)]
         /\ SameScc(prog, f, g) => Entry(prog, g) = Entry(prog, f)
         /\ ~SameScc(prog, f, g) =>
              \A a \in Area : end[a][f] <= base[a][Entry(prog, g)]
<1>1. g \in Func /\ f \in Callers(g)
  BY LayoutFacts DEF Callers
<1>2. IsrSide(prog)[f] = IsrSide(prog)[g]
  BY LayoutFacts DEF IsIsrSide
<1>3. SameScc(prog, f, g) => Entry(prog, g) = Entry(prog, f)
  BY <1>1, EntryUnique
<1>4. ASSUME ~SameScc(prog, f, g)
      PROVE  /\ isrCtx[Entry(prog, f)] => isrCtx[Entry(prog, g)]
             /\ \A a \in Area : end[a][f] <= base[a][Entry(prog, g)]
  <2>1. IsFirst(prog, g)
    BY <1>1, <1>4, TopDownFacts DEF ContextInv, Disciplined
  <2>2. Entry(prog, g) = g
    BY <1>1, <2>1, SccEquivalence, EntryUnique
  <2>3. PICK k \in 1 .. N : order[k] = g
    BY <1>1, LayoutFacts
  <2>4. f \in Callers(order[k]) \cap Ahead(k)
    BY <1>1, <1>4, <2>3, OrderTopDown
       DEF ContextInv, MarkInv, LayoutInv, Disciplined
  <2>5. isrCtx[f] = isrCtx[Entry(prog, f)]
    BY EntryIsLowest
  <2>6. isrCtx[f] = isrCtx[g]
    <3>1. isrCtx \in [Func -> BOOLEAN]
      BY LayoutFacts DEF TypeOK
    <3>2. isrCtx[f] => isrCtx[g]
      BY <2>3, <2>4, LayoutFacts DEF MarkedTo
    <3>3. ~isrCtx[f] => ~isrCtx[g]
      BY <1>1, <1>2, <2>5, LayoutFacts DEF MayRun, Contexts
    <3>4. QED
      BY <1>1, <3>1, <3>2, <3>3
  <2>7. \A a \in Area : end[a][f] <= base[a][g]
    BY <2>3, <2>4, <2>6, LayoutFacts DEF Stacked
  <2>8. QED
    BY <2>2, <2>5, <2>6, <2>7
<1>5. QED
  BY <1>1, <1>2, <1>3, <1>4

-----------------------------------------------------------------------------
(***************************************************************************)
(* The running program.                                                    *)
(***************************************************************************)

\* Who is on the stack: handlers for the interrupts, under them what runs in
\* the interrupt context, below all of them what is on main's side.  The
\* activation on top has its frame in memory.
Chained ==
  /\ \A i \in 1 .. Len(stack) :
       /\ stack[i].irq => stack[i].fn \in prog.handlers
       /\ (\E j \in 1 .. i : stack[j].irq) => isrCtx[Entry(prog, stack[i].fn)]
       /\ (\A j \in 1 .. i : ~stack[j].irq) => ~IsrSide(prog)[stack[i].fn]
  /\ Len(stack) > 0 => ~stack[Len(stack)].saved

\* The frame of a live activation that is not saved ends before the components
\* of all later activations begin: whatever these call among themselves, they
\* stay clear of it.
Nested ==
  \A i, j \in 1 .. Len(stack) : i < j /\ ~stack[i].saved =>
    \A a \in Area : end[a][stack[i].fn] <= base[a][Entry(prog, stack[j].fn)]

RunInv == ContextInv /\ Chained /\ Nested /\ Intact

\* Facts about the stack that every case uses.
LEMMA RunFacts ==
  ASSUME RunInv, phase = "run"
  PROVE  /\ stack \in Seq(Activation) /\ Len(stack) \in Nat
         /\ \A i \in 1 .. Len(stack) :
              /\ stack[i] \in Activation /\ stack[i].fn \in Func
              /\ Entry(prog, stack[i].fn) \in Func
              /\ MayRun(stack[i].fn)
<1>1. TypeOK
  BY LayoutFacts DEF RunInv
<1>2. stack \in Seq(Activation) /\ Len(stack) \in Nat
  BY <1>1, LenProperties DEF TypeOK
<1>3. \A i \in 1 .. Len(stack) : stack[i] \in Activation
  BY <1>2, ElementOfSeq
<1>4. \A i \in 1 .. Len(stack) : stack[i].fn \in Func
  BY <1>3 DEF Activation
<1>5. \A i \in 1 .. Len(stack) : Entry(prog, stack[i].fn) \in Func
  BY <1>4, EntryExists
<1>6. \A i \in 1 .. Len(stack) : MayRun(stack[i].fn)
  BY DEF RunInv, Chained, MayRun
<1>7. QED
  BY <1>2, <1>3, <1>4, <1>5, <1>6

LEMMA UpToNext == \A n \in Nat : \A i \in 1 .. n + 1 : i \in 1 .. n \/ i = n + 1
OBVIOUS

\* Pushing an activation whose component lies above every live frame keeps the
\* chain nested and every live frame intact.
LEMMA EnterKeeps ==
  ASSUME RunInv, phase = "run", NEW f \in Func, NEW irq \in BOOLEAN,
         NEW below \in Seq(Activation), Enter(f, irq, below),
         UNCHANGED <<prog, base, end, isrCtx>>,
         Len(below) = Len(stack),
         \A i \in 1 .. Len(stack) :
           /\ below[i].fn = stack[i].fn /\ below[i].irq = stack[i].irq
           /\ ~below[i].saved =>
                /\ ~stack[i].saved
                /\ \A a \in Area :
                     end[a][stack[i].fn] <= base[a][Entry(prog, f)],
         irq => f \in prog.handlers,
         irq \/ (\E j \in 1 .. Len(stack) : stack[j].irq)
           => isrCtx[Entry(prog, f)],
         ~irq /\ (\A j \in 1 .. Len(stack) : ~stack[j].irq)
           => ~IsrSide(prog)[f]
  PROVE  Chained' /\ Nested' /\ Intact'
<1> DEFINE top == [fn |-> f, saved |-> FALSE, irq |-> irq]
<1>1. /\ TypeOK /\ stack \in Seq(Activation) /\ Len(stack) \in Nat
      /\ \A i \in 1 .. Len(stack) :
           stack[i].fn \in Func /\ Entry(prog, stack[i].fn) \in Func
  BY RunFacts, LayoutFacts DEF RunInv
<1>2. top \in Activation
  BY DEF Activation
<1>3. /\ Len(stack') = Len(stack) + 1
      /\ stack'[Len(stack) + 1] = top
      /\ \A i \in 1 .. Len(stack) : stack'[i] = below[i]
      /\ \A i \in 1 .. Len(stack') :
           i \in 1 .. Len(stack) \/ i = Len(stack) + 1
  <2>1. /\ Len(stack') = Len(stack) + 1
        /\ stack'[Len(stack) + 1] = top
        /\ \A i \in 1 .. Len(stack) : stack'[i] = below[i]
    BY <1>1, <1>2, AppendProperties DEF Enter
  <2>2. \A i \in 1 .. Len(stack') :
          i \in 1 .. Len(stack) \/ i = Len(stack) + 1
    BY <1>1, <2>1, UpToNext, Zenon
  <2>3. QED
    BY <2>1, <2>2
<1>4. Chained'
  <2>1. ASSUME NEW i \in 1 .. Len(stack')
        PROVE  /\ stack'[i].irq => stack'[i].fn \in prog.handlers
               /\ (\E j \in 1 .. i : stack'[j].irq)
                    => isrCtx[Entry(prog, stack'[i].fn)]
               /\ (\A j \in 1 .. i : ~stack'[j].irq)
                    => ~IsrSide(prog)[stack'[i].fn]
    <3>1. CASE i \in 1 .. Len(stack)
      <4>1. \A j \in 1 .. i : stack'[j].irq = stack[j].irq
        BY <1>1, <1>3, <3>1
      <4>2. stack'[i].fn = stack[i].fn
        BY <1>3, <3>1
      <4>3. QED
        BY <3>1, <4>1, <4>2, SMTT(30) DEF RunInv, Chained
    <3>2. CASE i = Len(stack) + 1
      <4>1. stack'[i].fn = f /\ stack'[i].irq = irq
        BY <1>3, <3>2
      <4>2. \A j \in 1 .. Len(stack) : stack'[j].irq = stack[j].irq
        BY <1>3
      <4>3. \A j \in 1 .. i : j \in 1 .. Len(stack) \/ j = i
        BY <1>1, <3>2
      <4>4. 1 .. Len(stack) \subseteq 1 .. i /\ i \in 1 .. i
        BY <1>1, <3>2
      <4>5. QED
        BY <4>1, <4>2, <4>3, <4>4
    <3>3. QED
      BY <1>1, <1>3, <3>1, <3>2
  <2>2. ~stack'[Len(stack')].saved
    BY <1>3
  <2>3. QED
    BY <2>1, <2>2 DEF Chained
<1>5. Nested'
  <2> SUFFICES ASSUME NEW i \in 1 .. Len(stack'), NEW j \in 1 .. Len(stack'),
                      i < j, ~stack'[i].saved, NEW a \in Area
               PROVE  end[a][stack'[i].fn] <= base[a][Entry(prog, stack'[j].fn)]
    BY DEF Nested
  <2>1. /\ i \in 1 .. Len(stack) /\ stack'[i].fn = stack[i].fn
        /\ ~stack[i].saved
        /\ end[a][stack[i].fn] <= base[a][Entry(prog, f)]
    BY <1>1, <1>3
  <2>2. CASE j \in 1 .. Len(stack)
    <3>1. stack'[j].fn = stack[j].fn
      BY <1>3, <2>2
    <3>2. QED
      BY <2>1, <2>2, <3>1 DEF RunInv, Nested
  <2>3. CASE j = Len(stack) + 1
    BY <1>3, <2>1, <2>3
  <2>4. QED
    BY <1>3, <2>2, <2>3
<1>6. Intact'
  <2> SUFFICES ASSUME NEW i \in 1 .. Len(stack'), ~stack'[i].saved,
                      NEW a \in Area, NEW v \in Cell,
                      base[a][stack'[i].fn] <= v, v < end[a][stack'[i].fn]
               PROVE  owner'[a][v] = i
    BY DEF Intact, Frame, Depth
  <2>1. owner'[a][v] = IF base[a][f] <= v /\ v < end[a][f] THEN Len(stack) + 1
                       ELSE owner[a][v]
    BY DEF Enter, Write, Depth, Frame
  <2>2. CASE i \in 1 .. Len(stack)
    <3>1. /\ stack'[i].fn = stack[i].fn /\ ~stack[i].saved
          /\ stack[i].fn \in Func
          /\ end[a][stack[i].fn] <= base[a][Entry(prog, f)]
      BY <1>1, <1>3, <2>2
    <3>2. owner[a][v] = i
      BY <2>2, <3>1 DEF RunInv, Intact, Frame, Depth
    <3>3. base[a][Entry(prog, f)] <= base[a][f]
      <4>1. MayRun(f)
        BY DEF MayRun
      <4>2. QED
        BY <4>1, EntryIsLowest DEF RunInv
    <3>4. v < base[a][f]
      <4>1. v \in Nat
        BY SizesAssumption DEF Cell
      <4>2. Entry(prog, f) \in Func
        BY EntryExists
      <4>3. /\ end[a][stack[i].fn] \in Nat /\ base[a][f] \in Nat
            /\ base[a][Entry(prog, f)] \in Nat
        BY <1>1, <3>1, <4>2 DEF TypeOK
      <4>4. v < end[a][stack[i].fn]
        BY <3>1
      <4>5. QED
        BY <3>1, <3>3, <4>1, <4>3, <4>4
    <3>5. v \in Nat /\ base[a][f] \in Nat
      BY <1>1, SizesAssumption DEF TypeOK, Cell
    <3>6. QED
      BY <2>1, <3>2, <3>4, <3>5
  <2>3. CASE i = Len(stack) + 1
    BY <1>3, <2>1, <2>3
  <2>4. QED
    BY <1>1, <1>3, <2>2, <2>3
<1>7. QED
  BY <1>4, <1>5, <1>6

LEMMA StartMainKeeps == RunInv /\ StartMain => Chained' /\ Nested' /\ Intact'
<1> SUFFICES ASSUME RunInv, StartMain PROVE Chained' /\ Nested' /\ Intact'
  OBVIOUS
<1>1. phase = "run" /\ UNCHANGED <<prog, base, end, isrCtx>>
  BY DEF StartMain, placeVars
<1>2. prog.main \in Func /\ ~IsrSide(prog)[prog.main]
  BY <1>1, LayoutFacts DEF RunInv, TypeOK, ProgramType, IsIsrSide
<1>3. Len(stack) = 0 /\ stack \in Seq(Activation)
  BY <1>1, RunFacts
     DEF StartMain, RunInv, ContextInv, MarkInv, LayoutInv, OrderInv, TypeInv,
         Shape
<1>4. Enter(prog.main, FALSE, stack)
  BY DEF StartMain
<1>5. \A i \in 1 .. Len(stack) : FALSE
  BY <1>3
<1> DEFINE m == prog.main
<1> HIDE DEF m
<1>6. m \in Func /\ Enter(m, FALSE, stack) /\ ~IsrSide(prog)[m] /\ FALSE \in BOOLEAN
  BY <1>2, <1>4 DEF m
<1>7. QED
  BY <1>1, <1>3, <1>5, <1>6, EnterKeeps

LEMMA CallKeeps ==
  ASSUME RunInv, NEW g \in Func, Call(g)
  PROVE  Chained' /\ Nested' /\ Intact'
<1> DEFINE f == stack[Len(stack)].fn
           b == SameScc(prog, f, g)
           below == [stack EXCEPT ![Len(stack)].saved = b]
<1>1. /\ phase = "run" /\ UNCHANGED <<prog, base, end, isrCtx>>
      /\ Len(stack) > 0 /\ g \in prog.callees[f]
      /\ Enter(g, FALSE, below)
  BY DEF Call, placeVars, Depth
<1>2. /\ Len(stack) \in 1 .. Len(stack) /\ Len(stack) \in Nat
      /\ stack \in Seq(Activation)
      /\ \A i \in 1 .. Len(stack) :
           /\ stack[i] \in Activation /\ stack[i].fn \in Func
           /\ MayRun(stack[i].fn)
      /\ f \in Func /\ MayRun(f)
  BY <1>1, RunFacts
<1>3. b \in BOOLEAN
  BY DEF SameScc, Reaches
<1>4. /\ below \in Seq(Activation) /\ Len(below) = Len(stack)
      /\ \A i \in 1 .. Len(stack) :
           /\ below[i].fn = stack[i].fn /\ below[i].irq = stack[i].irq
           /\ below[i].saved = IF i = Len(stack) THEN b ELSE stack[i].saved
  <2>1. /\ below \in Seq(Activation) /\ Len(below) = Len(stack)
        /\ \A i \in 1 .. Len(stack) :
             below[i] = IF i = Len(stack) THEN [stack[i] EXCEPT !.saved = b]
                        ELSE stack[i]
    <3> HIDE DEF b
    <3>1. QED
      BY <1>2, <1>3, MarkTyped
  <2> HIDE DEF b, below
  <2>2. QED
    BY <1>2, <2>1 DEF Activation
<1>5. /\ IsrSide(prog)[f] = IsrSide(prog)[g]
      /\ isrCtx[Entry(prog, f)] => isrCtx[Entry(prog, g)]
      /\ b => Entry(prog, g) = Entry(prog, f)
      /\ ~b => \A a \in Area : end[a][f] <= base[a][Entry(prog, g)]
  BY <1>1, <1>2, CalleeAbove DEF RunInv
<1>6. /\ (\E j \in 1 .. Len(stack) : stack[j].irq) => isrCtx[Entry(prog, f)]
      /\ (\A j \in 1 .. Len(stack) : ~stack[j].irq) => ~IsrSide(prog)[f]
      /\ ~stack[Len(stack)].saved
  BY <1>1, <1>2 DEF RunInv, Chained
<1>7. ASSUME NEW i \in 1 .. Len(stack), ~below[i].saved
      PROVE  /\ ~stack[i].saved
             /\ \A a \in Area : end[a][stack[i].fn] <= base[a][Entry(prog, g)]
  <2>1. CASE i = Len(stack)
    <3>1. ~b
      BY <1>4, <1>7, <2>1
    <3>2. QED
      BY <1>5, <1>6, <2>1, <3>1
  <2>2. CASE i # Len(stack)
    <3>1. ~stack[i].saved
      BY <1>4, <1>7, <2>2
    <3>2. \A a \in Area : end[a][stack[i].fn] <= base[a][Entry(prog, f)]
      BY <1>2, <2>2, <3>1 DEF RunInv, Nested
    <3>3. ASSUME NEW a \in Area, ~b
          PROVE  end[a][stack[i].fn] <= base[a][Entry(prog, g)]
      <4>1. end[a][f] <= base[a][Entry(prog, g)]
        BY <1>5, <3>3
      <4>2. base[a][Entry(prog, f)] <= base[a][f]
        BY <1>1, <1>2, EntryIsLowest DEF RunInv
      <4>3. base[a][f] <= end[a][f]
        BY <1>1, <1>2, LayoutFacts DEF RunInv, Sided
      <4>4. Entry(prog, f) \in Func /\ Entry(prog, g) \in Func
        BY <1>2, EntryExists
      <4>5. /\ end[a][stack[i].fn] \in Nat /\ base[a][f] \in Nat
            /\ end[a][f] \in Nat /\ base[a][Entry(prog, f)] \in Nat
            /\ base[a][Entry(prog, g)] \in Nat
        BY <1>1, <1>2, <4>4, LayoutFacts DEF RunInv
      <4>6. end[a][stack[i].fn] <= base[a][Entry(prog, f)]
        BY <3>2
      <4> HIDE DEF f
      <4>7. QED
        BY <4>1, <4>2, <4>3, <4>5, <4>6
    <3>4. QED
      BY <1>5, <3>1, <3>2, <3>3
  <2>3. QED
    BY <2>1, <2>2
<1> HIDE DEF f, b, below
<1>8. QED
  BY <1>1, <1>4, <1>5, <1>6, <1>7, EnterKeeps

LEMMA InterruptKeeps ==
  ASSUME RunInv, NEW h \in Func, Interrupt(h)
  PROVE  Chained' /\ Nested' /\ Intact'
<1>1. /\ phase = "run" /\ UNCHANGED <<prog, base, end, isrCtx>>
      /\ h \in prog.handlers /\ Enter(h, TRUE, stack)
  BY DEF Interrupt, placeVars
<1>2. /\ stack \in Seq(Activation) /\ Len(stack) \in Nat
      /\ \A i \in 1 .. Len(stack) : stack[i].fn \in Func
  BY <1>1, RunFacts
<1>3. isrCtx[h] /\ Entry(prog, h) = h
  BY <1>1, HandlerIsFirst DEF RunInv
<1>4. \A j \in 1 .. Len(stack) : ~stack[j].irq
  <2> SUFFICES ASSUME NEW j \in 1 .. Len(stack), stack[j].irq PROVE FALSE
    OBVIOUS
  <2>1. stack[j].fn \in prog.handlers
    BY DEF RunInv, Chained
  <2>2. prog.prio[stack[j].fn] = prog.prio[h]
    BY <1>1, <2>1 DEF RunInv, ContextInv, Disciplined, OnePriority
  <2>3. prog.prio[stack[j].fn] < prog.prio[h]
    BY DEF Interrupt, Depth
  <2>4. prog.prio[h] \in {0, 1}
    BY <1>1, LayoutFacts DEF RunInv, TypeOK, ProgramType
  <2>5. QED
    BY <2>2, <2>3, <2>4
<1>5. ASSUME NEW i \in 1 .. Len(stack), NEW a \in Area
      PROVE  end[a][stack[i].fn] <= base[a][Entry(prog, h)]
  <2>1. ~IsrSide(prog)[stack[i].fn]
    BY <1>2, <1>4 DEF RunInv, Chained
  <2>2. ~isrCtx[stack[i].fn]
    BY <1>1, <1>2, <2>1, LayoutFacts DEF RunInv, Contexts
  <2>3. end[a][stack[i].fn] <= mainEnd[a] /\ mainEnd[a] <= base[a][h]
    BY <1>1, <1>2, <1>3, <2>2, LayoutFacts DEF RunInv, Sided
  <2>4. end[a][stack[i].fn] \in Nat /\ mainEnd[a] \in Nat /\ base[a][h] \in Nat
    BY <1>1, <1>2, LayoutFacts DEF RunInv
  <2>5. QED
    BY <1>3, <2>3, <2>4
<1>6. QED
  BY <1>1, <1>2, <1>3, <1>4, <1>5, EnterKeeps

\* Returning: the stack loses its top, and the caller's frame is in memory,
\* where it was or where it has just been popped to.
LEMMA ReturnKeeps == RunInv /\ Return => Chained' /\ Nested' /\ Intact'
<1> SUFFICES ASSUME RunInv, Return PROVE Chained' /\ Nested' /\ Intact'
  OBVIOUS
<1> DEFINE n == Len(stack) - 1
           pops == n > 0 /\ stack[n].saved
<1>1. /\ phase = "run" /\ UNCHANGED <<prog, base, end, isrCtx>>
      /\ Len(stack) > 0
  BY DEF Return, placeVars, Depth
<1>2. /\ stack \in Seq(Activation) /\ Len(stack) \in Nat /\ n \in Nat
      /\ \A i \in 1 .. Len(stack) :
           /\ stack[i] \in Activation /\ stack[i].fn \in Func
           /\ MayRun(stack[i].fn)
  BY <1>1, RunFacts
<1>3. /\ SubSeq(stack, 1, n) \in Seq(Activation)
      /\ Len(SubSeq(stack, 1, n)) = n
      /\ \A i \in 1 .. n : SubSeq(stack, 1, n)[i] = stack[i]
  <2>1. n \in 0 .. Len(stack)
    BY <1>1, <1>2
  <2>2. QED
    BY <1>2, <2>1, PrefixTyped
<1>4. /\ Len(stack') = n
      /\ \A i \in 1 .. n :
           /\ stack'[i].fn = stack[i].fn /\ stack'[i].irq = stack[i].irq
           /\ ~stack'[i].saved <=> ~stack[i].saved \/ i = n
      /\ ~pops => owner' = owner
      /\ pops => Write(stack[n].fn, n)
  <2> DEFINE left == SubSeq(stack, 1, n)
  <2>1. CASE pops
    <3>1. /\ stack' = [left EXCEPT ![n].saved = FALSE]
          /\ Write(stack[n].fn, n)
      <4>1. Len(stack) > 1 /\ stack[Len(stack) - 1].saved
        BY <1>2, <2>1
      <4>2. QED
        BY <4>1, Zenon DEF Return, Depth
    <3>2. n \in 1 .. Len(left)
      BY <1>2, <1>3, <2>1
    <3>3. /\ Len(stack') = Len(left)
          /\ \A i \in 1 .. Len(left) :
               stack'[i] = IF i = n THEN [left[i] EXCEPT !.saved = FALSE]
                           ELSE left[i]
      <4> DEFINE popped == [left EXCEPT ![n].saved = FALSE]
      <4>1. left \in Seq(Activation) /\ FALSE \in BOOLEAN
        BY <1>3
      <4> HIDE DEF left, n
      <4>2. /\ Len(popped) = Len(left)
            /\ \A i \in 1 .. Len(left) :
                 popped[i] = IF i = n THEN [left[i] EXCEPT !.saved = FALSE]
                             ELSE left[i]
        BY <3>2, <4>1, MarkTyped
      <4>3. stack' = popped
        BY <3>1
      <4> HIDE DEF popped
      <4>4. QED
        BY <4>2, <4>3
    <3>4. \A i \in 1 .. n : left[i] = stack[i] /\ stack[i] \in Activation
      BY <1>2, <1>3
    <3>5. Len(left) = n
      BY <1>3
    <3> HIDE DEF left
    <3>6. QED
      BY <2>1, <3>1, <3>3, <3>4, <3>5 DEF Activation
  <2>2. CASE ~pops
    <3>1. stack' = left /\ owner' = owner
      BY <1>2, <2>2 DEF Return, Depth
    <3>2. n > 0 => ~stack[n].saved
      BY <2>2
    <3>3. QED
      BY <1>2, <1>3, <2>2, <3>1, <3>2
  <2>3. QED
    BY <2>1, <2>2
<1>5. \A i \in 1 .. n : i \in 1 .. Len(stack)
  BY <1>2
<1> HIDE DEF n
<1>6. Chained'
  <2>1. ASSUME NEW i \in 1 .. n
        PROVE  /\ stack'[i].irq => stack'[i].fn \in prog.handlers
               /\ (\E j \in 1 .. i : stack'[j].irq)
                    => isrCtx[Entry(prog, stack'[i].fn)]
               /\ (\A j \in 1 .. i : ~stack'[j].irq)
                    => ~IsrSide(prog)[stack'[i].fn]
    <3>1. \A j \in 1 .. i : stack'[j].irq = stack[j].irq
      BY <1>2, <1>4
    <3>2. stack'[i].fn = stack[i].fn /\ i \in 1 .. Len(stack)
      BY <1>4, <1>5
    <3>3. QED
      BY <3>1, <3>2, SMTT(30) DEF RunInv, Chained
  <2>2. n > 0 => ~stack'[n].saved
    BY <1>2, <1>4
  <2>3. QED
    BY <1>1, <1>4, <2>1, <2>2 DEF Chained
<1>7. Nested'
  <2> SUFFICES ASSUME NEW i \in 1 .. n, NEW j \in 1 .. n, i < j,
                      ~stack'[i].saved, NEW a \in Area
               PROVE  end[a][stack'[i].fn] <= base[a][Entry(prog, stack'[j].fn)]
    BY <1>1, <1>4 DEF Nested
  <2>1. ~stack[i].saved
    BY <1>2, <1>4
  <2>2. QED
    BY <1>4, <1>5, <2>1 DEF RunInv, Nested
<1>8. Intact'
  <2> SUFFICES ASSUME NEW i \in 1 .. n, ~stack'[i].saved, NEW a \in Area,
                      NEW v \in Cell, base[a][stack[i].fn] <= v,
                      v < end[a][stack[i].fn]
               PROVE  owner'[a][v] = i
    BY <1>1, <1>4 DEF Intact, Frame, Depth
  <2>1. CASE ~pops
    <3>1. ~stack[i].saved
      BY <1>2, <1>4, <2>1
    <3>2. QED
      BY <1>4, <1>5, <2>1, <3>1 DEF RunInv, Intact, Frame, Depth
  <2>2. CASE pops
    <3>1. owner'[a][v] = IF base[a][stack[n].fn] <= v /\ v < end[a][stack[n].fn]
                         THEN n ELSE owner[a][v]
      BY <1>4, <2>2 DEF Write, Frame
    <3>2. CASE i = n
      BY <3>1, <3>2
    <3>3. CASE i # n
      <4>1. ~stack[i].saved /\ i < n /\ n \in 1 .. Len(stack)
        BY <1>2, <1>4, <1>5, <3>3
      <4>2. owner[a][v] = i
        BY <1>5, <4>1 DEF RunInv, Intact, Frame, Depth
      <4>3. end[a][stack[i].fn] <= base[a][Entry(prog, stack[n].fn)]
        BY <1>5, <4>1 DEF RunInv, Nested
      <4>4. base[a][Entry(prog, stack[n].fn)] <= base[a][stack[n].fn]
        BY <1>1, <1>2, <4>1, EntryIsLowest DEF RunInv
      <4>5. v \in Nat
        BY SizesAssumption DEF Cell
      <4>6. /\ stack[i].fn \in Func /\ stack[n].fn \in Func
            /\ Entry(prog, stack[n].fn) \in Func
        BY <1>2, <1>5, <4>1, EntryExists
      <4>7. /\ end[a][stack[i].fn] \in Nat /\ base[a][stack[n].fn] \in Nat
            /\ base[a][Entry(prog, stack[n].fn)] \in Nat
        BY <1>1, <4>6, LayoutFacts DEF RunInv
      <4>8. v < base[a][stack[n].fn]
        BY <4>3, <4>4, <4>5, <4>7
      <4>9. QED
        BY <3>1, <4>2, <4>5, <4>7, <4>8
    <3>4. QED
      BY <3>2, <3>3
  <2>3. QED
    BY <2>1, <2>2
<1>9. QED
  BY <1>6, <1>7, <1>8

LEMMA NextRunInv == RunInv /\ [Next]_vars => RunInv'
<1> SUFFICES ASSUME RunInv, [Next]_vars PROVE RunInv'
  OBVIOUS
<1>1. ContextInv' /\ Shape
  BY NextContextInv
     DEF RunInv, ContextInv, MarkInv, LayoutInv, OrderInv, TypeInv
<1> SUFFICES Chained' /\ Nested' /\ Intact'
  BY <1>1 DEF RunInv
<1>2. CASE Layout
  <2>1. phase # "run" /\ stack' = stack
    BY <1>2 DEF Layout, SkipSeen, VisitTop, BreakCycle, EndOrder, MarkContext,
                EndContext, PlaceMain, PlaceIsr, SkipOther, EndMain, EndIsr,
                runVars
  <2>2. stack' = << >>
    BY <1>1, <2>1 DEF Shape
  <2>3. Len(stack') = 0
    BY <2>2, EmptySeq
  <2>4. QED
    BY <2>3 DEF Chained, Nested, Intact, Depth
<1>3. CASE StartMain
  BY <1>3, StartMainKeeps
<1>4. CASE \E g \in Func : Call(g)
  BY <1>4, CallKeeps
<1>5. CASE Return
  BY <1>5, ReturnKeeps
<1>6. CASE \E h \in Func : Interrupt(h)
  BY <1>6, InterruptKeeps
<1>7. CASE UNCHANGED vars
  BY <1>7 DEF vars, runVars, placeVars, RunInv, Chained, Nested, Intact, Frame,
              Depth
<1>8. QED
  BY <1>2, <1>3, <1>4, <1>5, <1>6, <1>7 DEF Next, Run

\* In a program that is numbered top-down where it recurses (one that never
\* does is: AcyclicIsTopDown), without functions shared between main and the
\* handlers, and with handlers of one priority, no live frame is overwritten
\* while its bytes are not saved: any number of functions, any call graph, any
\* areas.
THEOREM FramesIntact == DisciplinedSpec => []Intact
<1>1. Init /\ Disciplined(prog) => RunInv
  <2>1. Init => Len(stack) = 0
    BY EmptySeq DEF Init
  <2>2. QED
    BY <2>1, InitContextInv DEF RunInv, Chained, Nested, Intact, Depth
<1>2. RunInv => Intact
  BY DEF RunInv
<1>3. QED
  BY <1>1, <1>2, NextRunInv, PTL DEF DisciplinedSpec, Disciplined
=============================================================================
