----------------------------- MODULE MCCritical -----------------------------
(***************************************************************************)
(* Instances of Critical for TLC.                                          *)
(***************************************************************************)
EXTENDS Critical

T(kind) == [kind |-> kind, arg |-> 0]
Invoke(f) == [kind |-> "call", arg |-> f]
Acknowledge(s) == [kind |-> "ack", arg |-> s]

\* Main bodies: sections in a row, nested, in a loop, left by a return, and
\* around a call.
MainBodies ==
  {<<T("on"), T("open"), T("work"), T("close"), T("work")>>,
   <<T("on"), T("open"), T("open"), T("work"), T("close"), T("work"), T("close")>>,
   <<T("on"), T("open"), T("open"), T("return"), T("close"), T("close"), T("work")>>,
   <<T("on"), T("while"), T("open"), T("send"), T("close"), T("end"), T("work")>>,
   <<T("on"), T("open"), Invoke(1), T("close"), Invoke(1), T("send")>>,
   <<T("on"), T("open"), T("while"), T("break"), T("end"), T("close"), T("off")>>,
   <<T("open"), T("work"), T("close"), T("on"), T("while"), T("continue"), T("end")>>}

HelperBodies ==
  {<<T("work")>>,
   <<T("open"), T("work"), T("return"), T("close")>>}

\* Handler bodies: serve the source, switch interrupts off, use a section.
HandlerBodies(s) ==
  {<<Acknowledge(s), T("work")>>,
   <<T("off")>>,
   <<T("open"), Acknowledge(s), T("close"), T("work")>>}

(***************************************************************************)
(* Main, a function it calls, a handler of timer 0 and one of the serial   *)
(* port or timer 2; the function and the second handler may be one section *)
(* as a whole.                                                             *)
(***************************************************************************)
SectionPrograms ==
  {p \in
    UNION {{[body |-> [f \in Func |-> <<m, h, b1, b2>>[f + 1]], main |-> 0,
             critical |-> k, handler |-> [s \in Source |-> IF s = 0 THEN 2 ELSE 3],
             vectors |-> {0, second}, running |-> {0, second} \cap Timer] :
              m \in MainBodies, h \in HelperBodies, k \in {{}, {1, 3}},
              b1 \in HandlerBodies(0), b2 \in HandlerBodies(second)} :
           second \in {2, 3}} :
    \A f \in p.critical : Positions(p, f, "off") = {}}

\* They are all programs of which the theorems about sections speak.
ASSUME SectionProgramsAssumption == \A p \in SectionPrograms : Disciplined(p)
=============================================================================
