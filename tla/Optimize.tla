------------------------------ MODULE Optimize ------------------------------
(***************************************************************************)
(* The optimizer of the intermediate representation (src/opt/mod.rs): its  *)
(* passes are run over a function in a fixed order, each until it changes  *)
(* nothing, in at most sixteen rounds; then calls may be inlined and the   *)
(* function optimized again (inline.rs).                                   *)
(*                                                                         *)
(* One step is one turn of a pass.  Which profitable calls are inlined is  *)
(* decided by estimates of code size: any may be, here.                    *)
(***************************************************************************)
EXTENDS Combine, Flow, Narrow, Loops, IrRun

CONSTANTS
  Sources,     \* the functions considered: [f, fns, inputs], fns those that can_inline accepts
  Rounds,      \* limit on the rounds: 16
  Inlines      \* bound on the calls inlined into one function

VARIABLES
  src,         \* the function as lowered, with the defined functions it calls
  meaning,     \* what it does for each of its inputs
  f,           \* the function now
  pc,          \* the pass to run next
  changed,     \* a pass of this round changed something; when done: calls were inlined
  round,
  inlined      \* number of calls inlined
vars == <<src, meaning, f, pc, changed, round, inlined>>

Outcomes(g) == Tuple([n \in DOMAIN src.inputs |-> Run(g, src.fns, src.inputs[n])])

Init ==
  /\ src \in Sources
  /\ meaning = Outcomes(src.f)
  /\ f = src.f
  /\ pc = "clean" /\ changed = FALSE /\ round = 1 /\ inlined = 0

\* The pass named p turns f into g and, once it changes nothing, next follows.
Repeat(p, g, next) ==
  /\ pc = p
  /\ f' = g
  /\ changed' = (changed \/ g # f)
  /\ pc' = IF g = f THEN next ELSE p
  /\ UNCHANGED <<src, meaning, round, inlined>>

\* A pass that is run once.
Once(p, g, next) ==
  /\ pc = p
  /\ f' = g
  /\ changed' = (changed \/ g # f)
  /\ pc' = next
  /\ UNCHANGED <<src, meaning, round, inlined>>

Clean ==
  /\ pc = "clean"
  /\ f' = SimplifyOnce(f)
  /\ pc' = IF f' = f THEN "combine" ELSE "clean"
  /\ changed' = FALSE /\ round' = 1
  /\ UNCHANGED <<src, meaning, inlined>>
CombinePass == Repeat("combine", CombineOnce(f), "propagate")
PropagatePass == Once("propagate", Propagate(f), "dce")
DeadPass == Repeat("dce", DeadOnce(f), "simplify")
SimplifyPass == Repeat("simplify", SimplifyOnce(f), "narrow")

\* Only when nothing else changed the function in this round.
Narrowing ==
  Once("narrow", IF changed THEN f ELSE NarrowPass(f), "loops")
LoopPass ==
  /\ pc = "loops"
  /\ IF changed THEN pc' = "end" /\ UNCHANGED <<f, changed>>
     ELSE LET g == Reduce(LoopTests(f))
          IN f' = g /\ changed' = (g # f) /\ pc' = "sink"
  /\ UNCHANGED <<src, meaning, round, inlined>>
SinkPass == Once("sink", Sink(f), "end")

\* Mutant: one round too many.
EndRoundLate ==
  /\ pc = "end"
  /\ IF changed /\ round <= Rounds THEN pc' = "combine" /\ round' = round + 1
                                   ELSE pc' = "done" /\ round' = round
  /\ changed' = FALSE
  /\ UNCHANGED <<src, meaning, f, inlined>>

EndRound ==
  /\ pc = "end"
  /\ IF changed /\ round < Rounds THEN pc' = "combine" /\ round' = round + 1
                                  ELSE pc' = "done" /\ round' = round
  /\ changed' = FALSE
  /\ UNCHANGED <<src, meaning, f, inlined>>

\* Inline one call, and optimize after the last.
InlineOne ==
  /\ pc = "done" /\ inlined < Inlines
  /\ \E p \in Places(f) :
       LET call == Insts(f, p[1])[p[2]]
       IN /\ call.op = "call" /\ call.k \in DOMAIN src.fns
           /\ f' = InlineCall(f, p[1], p[2], src.fns[call.k])
  /\ changed' = TRUE /\ inlined' = inlined + 1
  /\ UNCHANGED <<src, meaning, pc, round>>
Again ==
  /\ pc = "done" /\ changed
  /\ pc' = "clean"
  /\ UNCHANGED <<src, meaning, f, changed, round, inlined>>

Pass ==
  \/ Clean \/ CombinePass \/ PropagatePass \/ DeadPass \/ SimplifyPass
  \/ Narrowing \/ LoopPass \/ SinkPass \/ EndRound \/ Again
Next == Pass \/ InlineOne

\* The optimizer does not stop before it is done: weak fairness of Pass, which is enabled
\* exactly when Busy holds (written out, as ENABLED runs every pass once more).
Busy == pc # "done" \/ changed
Fairness == []<>~Busy \/ []<><<Pass>>_vars

Spec == Init /\ [][Next]_vars /\ Fairness

-----------------------------------------------------------------------------

\* Types of the variables.
TypeOK ==
  /\ pc \in {"clean", "combine", "propagate", "dce", "simplify", "narrow", "loops", "sink",
             "end", "done"}
  /\ changed \in BOOLEAN /\ round \in 1 .. Rounds /\ inlined \in 0 .. Inlines

\* After every turn of every pass the function does what the program says, for every
\* input: the same accesses, calls and results in the same order.
Same == LET now == Outcomes(f) IN \A n \in DOMAIN meaning : Allowed(meaning[n], now[n])

\* What CC51_VERIFY checks after the passes (Func::verify): no pass leaves an operand of
\* the wrong width, or a register or block that does not exist.
Verified == WellFormed(f)

\* Every pass comes to an end: no two rewrites undo each other for ever.
Ends == []<>(pc = "done")
=============================================================================
