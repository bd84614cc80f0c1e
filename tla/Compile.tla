------------------------------- MODULE Compile -------------------------------
(***************************************************************************)
(* From the syntax of a function to its optimized intermediate             *)
(* representation: the function is typed, lowered and optimized            *)
(* (cg::compile).  Functions that are not lowered from a program, those of *)
(* Sources, are optimized as well.                                         *)
(***************************************************************************)
EXTENDS Optimize, Lower, CMeaning

CONSTANT Programs   \* the functions considered: [vars, protos, params, ret, labels, body, inputs]

VARIABLE prog       \* the function as written, or NoProgram
allVars == <<prog, vars>>
NoProgram == <<>>

Lowered(p) ==
  BuildFunc(p.vars, p.params, p.ret, p.labels, TypedStmt(p.vars, p.protos, p.ret, p.body))

LowerProgram ==
  /\ prog \in Programs
  /\ src = [f |-> Lowered(prog), fns |-> [x \in {} |-> 0], inputs |-> prog.inputs]
  /\ meaning = Outcomes(src.f)
  /\ f = src.f
  /\ pc = "clean" /\ changed = FALSE /\ round = 1 /\ inlined = 0

CompileInit == LowerProgram \/ (Init /\ prog = NoProgram)
CompileNext == Next /\ UNCHANGED prog
CompileSpec == CompileInit /\ [][CompileNext]_allVars /\ Fairness

-----------------------------------------------------------------------------

\* The function as lowered, which the first step starts from, does what C says the program
\* does, for every input: the same volatile accesses and calls in the same order with the
\* same values, the same object in memory, the same result.
Faithful ==
  [][(prog # NoProgram /\ f = src.f) =>
       \A n \in DOMAIN prog.inputs : Allowed(Meaning(prog, prog.inputs[n]), meaning[n])]_allVars
=============================================================================
