--------------------------- MODULE MCFrameOverlay ---------------------------
(***************************************************************************)
(* Instances of FrameOverlay for TLC: families of small programs.          *)
(***************************************************************************)
EXTENDS FrameOverlay

OneArea == <<"data">>
TwoAreas == <<"bits", "data">>

\* One global cell below the frames, room for every frame above it.
AllFloor == [a \in {"bits", "data"} |-> 1]
AreaFloor == [a \in Area |-> AllFloor[a]]
Roomy == [a \in Area |-> Cells]
NoGap == [a \in Area |-> 0]
Gap == [a \in Area |-> IF a = "data" THEN 1 ELSE 0]

\* Call graphs without cycles in which calls go up in one of a few numberings:
\* callees numbered above their callers, below them, and mixed.
Numberings ==
  {[f \in Func |-> f], [f \in Func |-> N - 1 - f],
   [f \in Func |-> IF f % 2 = 0 THEN f ELSE N + f]}

AcyclicGraphs ==
  UNION {{g \in [Func -> SUBSET Func] :
            \A f \in Func : \A h \in g[f] : r[f] < r[h]} : r \in Numberings}

ProgramOf(graph, main, handlers, prio, size) ==
  [callees |-> graph, main |-> main, handlers |-> handlers,
   prio |-> prio, size |-> [a \in Area |-> size]]

Low == [f \in Func |-> 0]
Ones == [f \in Func |-> 1]

\* Acyclic programs, with every choice of main and of handlers; frames of one
\* byte, those of odd functions of two.
AcyclicPrograms ==
  {ProgramOf(g, m, hs, Low, [f \in Func |-> 1 + (f % 2)]) :
     g \in AcyclicGraphs, m \in {0, N - 1}, hs \in SUBSET Func}

\* Every graph there is on all functions but the last, cyclic or not.
AnyPrograms ==
  {ProgramOf([f \in Func |-> IF f \in DOMAIN g THEN g[f] ELSE {}], 0, hs, Low, Ones) :
     g \in [0 .. N - 2 -> SUBSET (0 .. N - 2)], hs \in SUBSET (1 .. N - 2)}

\* Programs numbered top-down, recursive or not, in which nothing calls main.
TopDownPrograms ==
  {p \in {ProgramOf(g, 0, hs, Low, [f \in Func |-> 1 + (f % 2)]) :
            g \in [Func -> SUBSET (1 .. N - 1)], hs \in {{}, {N - 1}}} :
     TopDown(p) /\ NoSharing(p)}

ASSUME SomeRecurse ==
  \E p \in TopDownPrograms : \E f, g \in Func :
    f # g /\ SameScc(p, f, g) /\ Recursive(p, f)

\* Acyclic programs without sharing, and those numbered top-down.
SafePrograms == {p \in AcyclicPrograms : NoSharing(p)} \cup TopDownPrograms

LaidOutPrograms == SafePrograms \cup AnyPrograms

\* Only the safe programs are run.
LayoutAndRun == Layout \/ (prog \in SafePrograms /\ Run)

LayoutAndRunSpec == Init /\ [][LayoutAndRun]_vars /\ Fairness

\* tests/c/recursion.c in small, run by an interrupt: hanoi (1) calls itself and
\* putch (0), the handler (3) calls hanoi, main (2) calls nothing.  putch is
\* defined first.
GraphOf(rows) == [f \in Func |-> rows[f + 1]]

HanoiPrograms ==
  {ProgramOf(GraphOf(<<{}, {0, 1}, {}, {1}>>), 2, {3}, Low, Ones)}

ASSUME HanoiIsApart ==
  N = 4 => \A p \in HanoiPrograms : NoSharing(p) /\ OnePriority(p)
=============================================================================
