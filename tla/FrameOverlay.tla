---------------------------- MODULE FrameOverlay ----------------------------
(***************************************************************************)
(* Static, overlaid function frames (src/cg/layout.rs) and the program     *)
(* that runs on them.                                                      *)
(*                                                                         *)
(* cc51 has no stack frame: every function owns a fixed range of each      *)
(* overlaid area (bits, upper RAM, directly addressed bytes).  `layout`    *)
(* orders the functions callers first (`topo`), marks the ones an          *)
(* interrupt handler can reach, and then, area by area, places the frames  *)
(* of the main context above the globals and those of the interrupt        *)
(* context above all of the main context.  A frame begins where the last   *)
(* of its callers' frames ends.                                            *)
(*                                                                         *)
(* The second half of the module runs the linked program: calls, returns,  *)
(* interrupts, and the pushes and pops with which a recursive call saves   *)
(* the caller's frame bytes (src/cg/select.rs, gen_call_ty).  Each cell    *)
(* remembers the activation that wrote it last, so "no frame is            *)
(* overwritten while it is live" is a statement about memory, not about    *)
(* the layout's own numbers.                                               *)
(*                                                                         *)
(* Addresses are the virtual offsets the layout computes with; module      *)
(* RamMap has their translation to physical RAM.                           *)
(***************************************************************************)
EXTENDS Naturals, Sequences, FiniteSets

CONSTANTS
  N,         (* number of functions that reach code generation            *)
  Areas,     (* the overlaid areas, in the order the layout fills them    *)
  Programs,  (* the programs considered: see ProgramType                  *)
  Floor,     (* Floor[a]: first offset of area a above the globals        *)
  Capacity,  (* Capacity[a]: number of cells of area a                    *)
  Cells,     (* number of cells tracked in every area                     *)
  MaxGap,    (* MaxGap[a]: most padding one frame gets to stay contiguous *)
  MaxDepth   (* bound on the number of live activations                   *)

Func == 0 .. N - 1
AreaIndex == 1 .. Len(Areas)
Area == {Areas[i] : i \in AreaIndex}
Cell == 0 .. Cells - 1

(***************************************************************************)
(* A program is its call graph (indirect calls count as calls to every     *)
(* address-taken function), the function main, its interrupt handlers with *)
(* their hardware priority, and the size of every frame in every area.     *)
(***************************************************************************)
ProgramType ==
  [callees : [Func -> SUBSET Func], main : Func, handlers : SUBSET Func,
   prio : [Func -> {0, 1}], size : [Area -> [Func -> Nat]]]

ASSUME SizesAssumption ==
  /\ N \in Nat \ {0}
  /\ Cells \in Nat
  /\ MaxDepth \in Nat
  /\ Areas \in Seq(STRING)
  /\ \A i, j \in AreaIndex : Areas[i] = Areas[j] => i = j
  /\ Floor \in [Area -> Nat]
  /\ MaxGap \in [Area -> Nat]
  /\ Capacity \in [Area -> 0 .. Cells]

ASSUME ProgramsAssumption == \A p \in Programs : p \in ProgramType

VARIABLES
  prog,     (* the program being laid out and run; never changes          *)
  phase,    (* the stage the compiler or the program has reached          *)
  queue,    (* topo's stack of functions ready to be ordered              *)
  indeg,    (* indeg[f]: callers of f not ordered yet                     *)
  seen,     (* functions already in the order                             *)
  order,    (* the order, callers before callees                          *)
  broken,   (* history: a cycle had to be broken                          *)
  pos,      (* index into `order` of the current pass                     *)
  area,     (* index of the area being filled                             *)
  isrCtx,   (* functions placed in the interrupt context                  *)
  base,     (* base[a][f]: where the frame of f begins in area a          *)
  end,      (* end[a][f]: where it ends                                   *)
  mainEnd,  (* end of all main-context frames of an area                  *)
  isrEnd,   (* end of all frames of an area                               *)
  booted,   (* the startup code has entered main                          *)
  stack,    (* live activations, oldest first                             *)
  owner     (* owner[a][v]: depth of the activation that wrote v last     *)

topoVars == <<queue, indeg, seen, order, broken>>
placeVars == <<pos, area, isrCtx, base, end, mainEnd, isrEnd>>
runVars == <<booted, stack, owner>>
vars == <<prog, phase, topoVars, placeVars, runVars>>

Callers(f) == {c \in Func : f \in prog.callees[c]}
Larger(x, y) == IF x < y THEN y ELSE x

-----------------------------------------------------------------------------
(***************************************************************************)
(* Topological order (topo).                                               *)
(***************************************************************************)

\* The sequences that list every member of S once, and those of them in
\* ascending and in descending order: topo reverses its first list.
Lists(S) ==
  {s \in [1 .. Cardinality(S) -> S] : \A x \in S : \E i \in DOMAIN s : s[i] = x}
Ascending(S) == {s \in Lists(S) : \A i, j \in DOMAIN s : i < j => s[i] < s[j]}
Descending(S) == {s \in Lists(S) : \A i, j \in DOMAIN s : i < j => s[j] < s[i]}

Init ==
  /\ prog \in Programs
  /\ phase = "order"
  /\ indeg = [f \in Func |-> Cardinality(Callers(f))]
  /\ queue \in Descending({f \in Func : Callers(f) = {}})
  /\ seen = {}
  /\ order = << >>
  /\ broken = FALSE
  /\ pos = 1
  /\ area = 1
  /\ isrCtx = [f \in Func |-> f \in prog.handlers]
  /\ base = [a \in Area |-> [f \in Func |-> 0]]
  /\ end = [a \in Area |-> [f \in Func |-> 0]]
  /\ mainEnd = Floor
  /\ isrEnd = Floor
  /\ booted = FALSE
  /\ stack = << >>
  /\ owner = [a \in Area |-> [v \in Cell |-> 0]]

Top == queue[Len(queue)]
Popped == SubSeq(queue, 1, Len(queue) - 1)

\* A function that was pushed twice is dropped the second time.
SkipSeen ==
  /\ phase = "order" /\ Len(order) < N
  /\ queue # << >>
  /\ Top \in seen
  /\ queue' = Popped
  /\ UNCHANGED <<prog, phase, indeg, seen, order, broken, placeVars, runVars>>

\* Fault for CallersFirst: callees are pushed before their last caller is seen.
VisitTopEager ==
  /\ phase = "order" /\ Len(order) < N
  /\ queue # << >>
  /\ Top \notin seen
  /\ seen' = seen \cup {Top}
  /\ order' = Append(order, Top)
  /\ \E ready \in Ascending(prog.callees[Top]) : queue' = Popped \o ready
  /\ UNCHANGED <<prog, phase, indeg, broken, placeVars, runVars>>

\* Fault for OrderComplete: the test for a function pushed twice is missing.
VisitTopAgain ==
  /\ phase = "order" /\ Len(order) < N
  /\ queue # << >>
  /\ seen' = seen \cup {Top}
  /\ order' = Append(order, Top)
  /\ indeg' = [g \in Func |-> IF g \in prog.callees[Top] /\ indeg[g] > 0
                              THEN indeg[g] - 1 ELSE indeg[g]]
  /\ \E ready \in Ascending({g \in prog.callees[Top] : indeg'[g] = 0}) :
       queue' = Popped \o ready
  /\ UNCHANGED <<prog, phase, broken, placeVars, runVars>>

\* Fault for TypeOK: the decrement does not saturate at zero.
VisitTopUnsaturated ==
  /\ phase = "order" /\ Len(order) < N
  /\ queue # << >>
  /\ Top \notin seen
  /\ seen' = seen \cup {Top}
  /\ order' = Append(order, Top)
  /\ indeg' = [g \in Func |-> IF g \in prog.callees[Top]
                              THEN indeg[g] - 1 ELSE indeg[g]]
  /\ \E ready \in Ascending({g \in prog.callees[Top] : indeg'[g] = 0}) :
       queue' = Popped \o ready
  /\ UNCHANGED <<prog, phase, broken, placeVars, runVars>>

\* Order the function on top and push the callees that have become ready.
VisitTop ==
  /\ phase = "order" /\ Len(order) < N
  /\ queue # << >>
  /\ Top \notin seen
  /\ seen' = seen \cup {Top}
  /\ order' = Append(order, Top)
  /\ indeg' = [g \in Func |-> IF g \in prog.callees[Top] /\ indeg[g] > 0
                              THEN indeg[g] - 1 ELSE indeg[g]]
  /\ \E ready \in Ascending({g \in prog.callees[Top] : indeg'[g] = 0}) :
       queue' = Popped \o ready
  /\ UNCHANGED <<prog, phase, broken, placeVars, runVars>>

\* Fault for LayoutEnds: the function that breaks the cycle may be a seen one.
BreakCycleAnywhere ==
  /\ phase = "order" /\ Len(order) < N
  /\ queue = << >>
  /\ indeg' = [indeg EXCEPT ![0] = 0]
  /\ queue' = <<0>>
  /\ broken' = TRUE
  /\ UNCHANGED <<prog, phase, seen, order, placeVars, runVars>>

\* Only functions on or behind a cycle are left: take the first unseen one.
BreakCycle ==
  /\ phase = "order" /\ Len(order) < N
  /\ queue = << >>
  /\ \E f \in Func \ seen :
       /\ \A g \in Func \ seen : f <= g
       /\ indeg' = [indeg EXCEPT ![f] = 0]
       /\ queue' = <<f>>
  /\ broken' = TRUE
  /\ UNCHANGED <<prog, phase, seen, order, placeVars, runVars>>

EndOrder ==
  /\ phase = "order" /\ Len(order) = N
  /\ phase' = "context"
  /\ UNCHANGED <<prog, topoVars, placeVars, runVars>>

-----------------------------------------------------------------------------
(***************************************************************************)
(* Context marking and placement (layout).  Each pass walks `order` once.  *)
(***************************************************************************)
Current == order[pos]

\* Fault for ContextsApart: only the callees of the handlers themselves are
\* marked.
MarkCallees ==
  /\ phase = "context" /\ pos <= N
  /\ isrCtx' = [isrCtx EXCEPT ![Current] =
                  @ \/ \E c \in Callers(Current) : c \in prog.handlers]
  /\ pos' = pos + 1
  /\ UNCHANGED <<prog, phase, topoVars, area, base, end, mainEnd, isrEnd,
                 runVars>>

\* A callee of an interrupt-context function is in the interrupt context.
MarkContext ==
  /\ phase = "context" /\ pos <= N
  /\ isrCtx' = [isrCtx EXCEPT ![Current] =
                  @ \/ \E c \in Callers(Current) : isrCtx[c]]
  /\ pos' = pos + 1
  /\ UNCHANGED <<prog, phase, topoVars, area, base, end, mainEnd, isrEnd,
                 runVars>>

\* The next pass over `order`; out of range when no area is left.
BeginArea(i) ==
  /\ pos' = 1
  /\ area' = i
  /\ phase' = IF i \in AreaIndex THEN "main" ELSE "run"

EndContext ==
  /\ phase = "context" /\ pos > N
  /\ BeginArea(1)
  /\ UNCHANGED <<prog, topoVars, isrCtx, base, end, mainEnd, isrEnd, runVars>>

\* The frame of f is placed at b, padded so that its objects are contiguous.
PlaceAt(a, f, b) ==
  \E gap \in 0 .. MaxGap[a] :
    /\ prog.size[a][f] = 0 => gap = 0
    /\ base' = [base EXCEPT ![a][f] = b]
    /\ end' = [end EXCEPT ![a][f] = b + prog.size[a][f] + gap]

PlaceMain ==
  /\ phase = "main" /\ pos <= N
  /\ ~isrCtx[Current]
  /\ LET a == Areas[area]
     IN \E b \in {Floor[a]} \cup {end[a][c] : c \in Callers(Current)} :
          /\ Floor[a] <= b
          /\ \A c \in Callers(Current) : end[a][c] <= b
          /\ PlaceAt(a, Current, b)
          /\ mainEnd' = [mainEnd EXCEPT ![a] = Larger(@, end'[a][Current])]
  /\ pos' = pos + 1
  /\ UNCHANGED <<prog, phase, topoVars, area, isrCtx, isrEnd, runVars>>

\* Fault for Intact: handlers' frames begin where main's begin.
PlaceIsrAtFloor ==
  /\ phase = "isr" /\ pos <= N
  /\ isrCtx[Current]
  /\ LET a == Areas[area]
         callers == {c \in Callers(Current) : isrCtx[c]}
     IN \E b \in {Floor[a]} \cup {end[a][c] : c \in callers} :
          /\ \A c \in callers : end[a][c] <= b
          /\ PlaceAt(a, Current, b)
          /\ isrEnd' = [isrEnd EXCEPT ![a] = Larger(@, end'[a][Current])]
  /\ pos' = pos + 1
  /\ UNCHANGED <<prog, phase, topoVars, area, isrCtx, mainEnd, runVars>>

\* Interrupt context: only callers in the same context push a frame up.
PlaceIsr ==
  /\ phase = "isr" /\ pos <= N
  /\ isrCtx[Current]
  /\ LET a == Areas[area]
         callers == {c \in Callers(Current) : isrCtx[c]}
     IN \E b \in {mainEnd[a]} \cup {end[a][c] : c \in callers} :
          /\ mainEnd[a] <= b
          /\ \A c \in callers : end[a][c] <= b
          /\ PlaceAt(a, Current, b)
          /\ isrEnd' = [isrEnd EXCEPT ![a] = Larger(@, end'[a][Current])]
  /\ pos' = pos + 1
  /\ UNCHANGED <<prog, phase, topoVars, area, isrCtx, mainEnd, runVars>>

\* Each pass skips the functions of the other context.
SkipOther ==
  /\ \/ phase = "main" /\ pos <= N /\ isrCtx[Current]
     \/ phase = "isr" /\ pos <= N /\ ~isrCtx[Current]
  /\ pos' = pos + 1
  /\ UNCHANGED <<prog, phase, topoVars, area, isrCtx, base, end, mainEnd,
                 isrEnd, runVars>>

EndMain ==
  /\ phase = "main" /\ pos > N
  /\ phase' = "isr"
  /\ pos' = 1
  /\ isrEnd' = [isrEnd EXCEPT ![Areas[area]] = mainEnd[Areas[area]]]
  /\ UNCHANGED <<prog, topoVars, area, isrCtx, base, end, mainEnd, runVars>>

\* An area that does not fit stops the compilation with an error.
EndIsr ==
  /\ phase = "isr" /\ pos > N
  /\ IF isrEnd[Areas[area]] > Capacity[Areas[area]]
     THEN phase' = "failed" /\ UNCHANGED <<pos, area>>
     ELSE BeginArea(area + 1)
  /\ UNCHANGED <<prog, topoVars, isrCtx, base, end, mainEnd, isrEnd, runVars>>

Layout ==
  \/ SkipSeen \/ VisitTop \/ BreakCycle \/ EndOrder
  \/ MarkContext \/ EndContext
  \/ PlaceMain \/ PlaceIsr \/ SkipOther \/ EndMain \/ EndIsr

-----------------------------------------------------------------------------
(***************************************************************************)
(* The running program.                                                    *)
(***************************************************************************)
Activation == [fn : Func, saved : BOOLEAN, irq : BOOLEAN]

Frame(a, f) == {v \in Cell : base[a][f] <= v /\ v < end[a][f]}

\* A frame filled, or restored, by the activation at depth d.
Write(f, d) ==
  owner' = [a \in Area |-> [v \in Cell |-> IF v \in Frame(a, f) THEN d
                                           ELSE owner[a][v]]]

\* f reaches g when every set that holds f and is closed under calls holds g.
Reaches(p, f, g) ==
  \A S \in SUBSET Func :
    (f \in S /\ \A h \in S : p.callees[h] \subseteq S) => g \in S

\* f and g are in one strongly connected component of the call graph.
SameScc(p, f, g) == Reaches(p, f, g) /\ Reaches(p, g, f)

Depth == Len(stack)

\* A new activation: its frame is written as soon as it runs.
Enter(f, irq, below) ==
  /\ Depth < MaxDepth
  /\ stack' = Append(below, [fn |-> f, saved |-> FALSE, irq |-> irq])
  /\ Write(f, Depth + 1)

StartMain ==
  /\ phase = "run" /\ ~booted
  /\ booted' = TRUE
  /\ Enter(prog.main, FALSE, stack)
  /\ UNCHANGED <<prog, phase, topoVars, placeVars>>

\* Fault for Intact: a recursive call does not save the caller's frame.
CallUnsaved(g) ==
  /\ phase = "run" /\ Depth > 0
  /\ g \in prog.callees[stack[Depth].fn]
  /\ Enter(g, FALSE, stack)
  /\ UNCHANGED <<prog, phase, topoVars, placeVars, booted>>

\* A call.  Inside a recursive component the caller first pushes its live
\* frame bytes, so that they may be overwritten until it pops them.
Call(g) ==
  /\ phase = "run" /\ Depth > 0
  /\ g \in prog.callees[stack[Depth].fn]
  /\ Enter(g, FALSE, [stack EXCEPT ![Depth].saved = SameScc(prog, stack[Depth].fn, g)])
  /\ UNCHANGED <<prog, phase, topoVars, placeVars, booted>>

\* Return to the caller or from an interrupt; a caller that saved its frame
\* pops it back before it goes on.
Return ==
  /\ phase = "run" /\ Depth > 0
  /\ IF Depth > 1 /\ stack[Depth - 1].saved
     THEN /\ stack' = [SubSeq(stack, 1, Depth - 1)
                         EXCEPT ![Depth - 1].saved = FALSE]
          /\ Write(stack[Depth - 1].fn, Depth - 1)
     ELSE /\ stack' = SubSeq(stack, 1, Depth - 1)
          /\ UNCHANGED owner
  /\ UNCHANGED <<prog, phase, topoVars, placeVars, booted>>

\* The hardware accepts an interrupt of a priority above those in service.
Interrupt(h) ==
  /\ phase = "run" /\ booted
  /\ h \in prog.handlers
  /\ \A i \in 1 .. Depth :
       stack[i].irq => prog.prio[stack[i].fn] < prog.prio[h]
  /\ Enter(h, TRUE, stack)
  /\ UNCHANGED <<prog, phase, topoVars, placeVars, booted>>

Run ==
  \/ StartMain
  \/ \E g \in Func : Call(g)
  \/ Return
  \/ \E h \in Func : Interrupt(h)

Next == Layout \/ Run

Spec == Init /\ [][Next]_vars

Fairness == WF_vars(Layout)
FairSpec == Spec /\ Fairness

-----------------------------------------------------------------------------
(***************************************************************************)
(* Programs the layout is meant for: numbered top-down where they recurse, *)
(* no function that both main and a handler can reach, all handlers at one *)
(* priority.                                                               *)
(***************************************************************************)

\* A function that calls within its component; one on or behind such a cycle.
Recursive(p, f) == \E g \in p.callees[f] : SameScc(p, f, g)
BehindCycle(p, f) == \E c \in Func : Recursive(p, c) /\ Reaches(p, c, f)

(***************************************************************************)
(* topo breaks a cycle at the first function it has not seen, whatever its *)
(* place in the call graph.  In a program numbered top-down that function  *)
(* is where the cycle is entered: a function is called from outside its    *)
(* component only by functions before it, those in front of every cycle    *)
(* excepted; a component is entered, by calls or as a handler, through its *)
(* first member only, and every other member has a caller before it.  (The *)
(* compiler rejects a recursive handler, program.rs:564.)                  *)
(***************************************************************************)
TopDown(p) ==
  LET callers(f) == {c \in Func : f \in p.callees[c]}
      outside(f) == {c \in callers(f) : ~SameScc(p, c, f)}
  IN \A f \in Func :
       /\ \A c \in outside(f) : c < f \/ ~BehindCycle(p, c)
       /\ \/ \A g \in Func : SameScc(p, f, g) => f <= g
          \/ /\ outside(f) = {} /\ f \notin p.handlers
             /\ \E c \in callers(f) : c < f

\* The functions that may run on behalf of a handler.
ByHandlers(p) == {g \in Func : \E h \in p.handlers : Reaches(p, h, g)}

NoSharing(p) ==
  \E inIsr \in [Func -> BOOLEAN] :
    /\ ~inIsr[p.main]
    /\ \A h \in p.handlers : inIsr[h]
    /\ \A f \in Func : \A g \in p.callees[f] : inIsr[f] = inIsr[g]

OnePriority(p) == \A h, k \in p.handlers : p.prio[h] = p.prio[k]

DisciplinedSpec ==
  /\ Init
  /\ TopDown(prog) /\ NoSharing(prog) /\ OnePriority(prog)
  /\ [][Next]_vars

-----------------------------------------------------------------------------
(***************************************************************************)
(* Properties.                                                             *)
(***************************************************************************)

\* Every variable keeps the shape the Rust types give it.
TypeOK ==
  /\ prog \in ProgramType
  /\ phase \in {"order", "context", "main", "isr", "run", "failed"}
  /\ queue \in Seq(Func)
  /\ indeg \in [Func -> Nat]
  /\ seen \in SUBSET Func
  /\ order \in Seq(Func)
  /\ broken \in BOOLEAN
  /\ pos \in Nat
  /\ area \in Nat
  /\ isrCtx \in [Func -> BOOLEAN]
  /\ base \in [Area -> [Func -> Nat]]
  /\ end \in [Area -> [Func -> Nat]]
  /\ mainEnd \in [Area -> Nat]
  /\ isrEnd \in [Area -> Nat]
  /\ booted \in BOOLEAN
  /\ stack \in Seq(Activation)
  /\ owner \in [Area -> [Cell -> Nat]]

\* Frames are overlaid only between functions that are not live at once
\* (README.md:118): every live activation whose bytes are not saved on the
\* hardware stack still finds in its frame what it wrote there.  Broken by an
\* order that places a callee before its caller, by contexts that overlap, or
\* by a recursive call that does not save.
Intact ==
  \A i \in 1 .. Depth : ~stack[i].saved =>
    \A a \in Area : \A v \in Frame(a, stack[i].fn) : owner[a][v] = i

\* topo puts every function behind all of its callers unless it had to break
\* a cycle (layout.rs:302).
CallersFirst ==
  ~broken =>
    \A k \in 1 .. Len(order) :
      Callers(order[k]) \subseteq {order[j] : j \in 1 .. k - 1}

\* However cyclic the graph, topo's output holds every function exactly once
\* when the passes over it begin: a function missing from it would have no
\* frame, one that is twice in it would be moved after its callees were placed.
OrderComplete ==
  phase # "order" =>
    /\ Len(order) = N
    /\ \A f \in Func : \E k \in 1 .. N : order[k] = f

\* Frames of interrupt contexts are placed above all main-context frames
\* (layout.rs:36): in the finished layout of a program numbered top-down where
\* it recurses, what a handler can reach, itself or through any chain of calls,
\* begins in every area where what no handler reaches has ended.  The marks
\* are spread in one walk over the order (layout.rs:97), so this needs every
\* function a handler reaches to come behind a caller that is marked.  The
\* layout is final when the program starts, so its first moment stands for all.
ContextsApart ==
  phase = "run" /\ ~booted /\ TopDown(prog) =>
    \A a \in Area : \A g \in ByHandlers(prog), f \in Func \ ByHandlers(prog) :
      end[a][f] <= base[a][g]

\* The layout ends, for every call graph: breaking cycles makes progress.
LayoutEnds == <>(phase \in {"run", "failed"})
=============================================================================
