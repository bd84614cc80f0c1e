------------------------------ MODULE Critical ------------------------------
(***************************************************************************)
(* Critical sections and interrupts, down to the instruction: the lowering *)
(* of __critical (src/ir/build.rs, Builder::stmt), the code selected for   *)
(* it (src/cg/select.rs, CritEnter and CritExit), the frame of an          *)
(* interrupt handler (src/cg/program.rs, expand_isr) and the interrupt     *)
(* system of the simulator that runs it (src/sim.rs).                      *)
(*                                                                         *)
(* A function is a sequence of tokens: statements, and the brackets of     *)
(* loops and of critical sections.  The compiler walks through it with a   *)
(* stack of the sections it is inside of, and writes instructions.  The    *)
(* CPU then executes one instruction per step; at its end running timers   *)
(* may overflow and an interrupt may be accepted.                          *)
(***************************************************************************)
EXTENDS Integers, Sequences, FiniteSets

CONSTANTS
  N,         (* number of functions                                       *)
  Programs   (* the programs considered: see ProgramType                  *)

Func == 0 .. N - 1

\* The startup code, which calls main and then jumps to itself for ever.
Boot == N

\* Interrupt sources in the order the CPU polls them: timer 0, timer 1, the
\* serial port, timer 2.
Source == 0 .. 3
Serial == 2
Timer == Source \ {Serial}

\* The flags of timers 0 and 1 are cleared when their interrupt is accepted, the
\* others by the program.
ClearedOnEntry == {0, 1}

(***************************************************************************)
(* Statements.  "open" and "close" are the brackets of a critical section, *)
(* "while" and "end" those of a loop; "on" and "off" assign EA, "send"     *)
(* assigns SBUF, "ack" clears the flag of source `arg`, "call" calls       *)
(* function `arg`.  "work" stands for any other statement.                 *)
(***************************************************************************)
Kind == {"open", "close", "while", "end", "break", "continue", "return",
         "call", "on", "off", "send", "ack", "work"}
Token == [kind : Kind, arg : Nat]

ProgramType ==
  [body : [Func -> Seq(Token)], main : Func, critical : SUBSET Func,
   handler : [Source -> Func], vectors : SUBSET Source,
   running : SUBSET Timer]

\* The handlers of a program: the functions its vectors jump to.
Handlers(p) == {p.handler[s] : s \in p.vectors}

Positions(p, f, kind) ==
  {i \in 1 .. Len(p.body[f]) : p.body[f][i].kind = kind}

\* How many of the brackets opened by `open` are open before token i of f.
Nesting(p, f, i, open, close) ==
  Cardinality({k \in Positions(p, f, open) : k < i})
    - Cardinality({k \in Positions(p, f, close) : k < i})

\* The program encloses token i of f in a critical section.
Inside(p, f, i) ==
  f \in p.critical \/ Nesting(p, f, i, "open", "close") > 0

\* Brackets match and calls are not recursive (a call goes to a higher
\* number), main and handlers are not called, and a program assigns EA outside
\* its sections only.
ASSUME ProgramsAssumption ==
  /\ N \in Nat
  /\ \A p \in Programs :
       /\ p \in ProgramType
       /\ p.main \notin Handlers(p)
       /\ \A f \in Func :
            /\ \A i \in 1 .. Len(p.body[f]) + 1 :
                 /\ Nesting(p, f, i, "open", "close") >= 0
                 /\ Nesting(p, f, i, "while", "end") >= 0
            /\ Nesting(p, f, Len(p.body[f]) + 1, "open", "close") = 0
            /\ Nesting(p, f, Len(p.body[f]) + 1, "while", "end") = 0
            /\ \A i \in Positions(p, f, "break") \cup Positions(p, f, "continue") :
                 Nesting(p, f, i, "while", "end") > 0
            /\ \A i \in Positions(p, f, "call") :
                 LET g == p.body[f][i].arg
                 IN g \in Func /\ g > f /\ g # p.main /\ g \notin Handlers(p)
            /\ \A i \in Positions(p, f, "on") \cup Positions(p, f, "off") :
                 ~Inside(p, f, i)
            /\ \A i \in Positions(p, f, "ack") : p.body[f][i].arg \in Source

VARIABLES
  prog,      (* the program; never changes                                *)
  phase,     (* "build" while functions are compiled, then "run"          *)
  fn,        (* the function being compiled                               *)
  pos,       (* its token to compile next; 0 before the first             *)
  crit,      (* the critical sections open there, outermost first         *)
  loops,     (* the loops open there, outermost first                     *)
  code,      (* code[f]: instructions and labels written for f            *)
  pc,        (* the instruction to execute                                *)
  c,         (* the carry flag                                            *)
  bits,      (* the bit variables <<f, v>> that are set                   *)
  stack,     (* what calls, interrupts and PUSH PSW have pushed           *)
  ea,        (* the interrupt enable bit                                  *)
  flags,     (* sources whose request flag is set                         *)
  inIsr,     (* in_isr: an interrupt is in service                        *)
  delay,     (* isr_delay: RETI was the last instruction                  *)
  halted,    (* the simulator has stopped                                 *)
  want       (* the value that the program itself last gave EA            *)

buildVars == <<fn, pos, crit, loops, code>>
cpuVars == <<pc, c, bits, stack, ea, flags, inIsr, delay, halted, want>>
vars == <<prog, phase, buildVars, cpuVars>>

-----------------------------------------------------------------------------
(***************************************************************************)
(* The compiler.  An instruction has an operation, an operand and a note   *)
(* whether the program encloses it in a critical section.                  *)
(***************************************************************************)
Op == {"label", "jmp", "branch", "call", "ret", "reti", "push_psw", "pop_psw",
       "setb_c", "jbc_ea", "clr_c", "mov_bit_c", "mov_c_bit", "mov_ea_c",
       "setb_ea", "clr_ea", "mov_sbuf", "clr_flag", "other"}
Insn == [op : Op, arg : Nat, in : BOOLEAN]

I(op, arg, in) == [op |-> op, arg |-> arg, in |-> in]

\* Labels of the loop, or the section, that token i opens.
TestLabel(i) == 2 * i
ExitLabel(i) == 2 * i + 1
AfterEa(i) == 2 * i

\* Remember EA in bit v and clear it: jbc tests and clears in one instruction.
CritEnter(v) ==
  <<I("setb_c", 0, FALSE), I("jbc_ea", AfterEa(v), FALSE), I("clr_c", 0, FALSE),
    I("label", AfterEa(v), FALSE), I("mov_bit_c", v, FALSE)>>

\* Fault for Excluded: the end of a section always enables interrupts.
CritExitEnables(v) == <<I("mov_c_bit", v, FALSE), I("setb_ea", 0, FALSE)>>

CritExit(v) == <<I("mov_c_bit", v, FALSE), I("mov_ea_c", 0, FALSE)>>

\* The ends of all open sections, innermost first.
ExitAll(open) ==
  [k \in 1 .. 2 * Len(open) |->
     CritExit(open[Len(open) - (k - 1) \div 2])[1 + ((k - 1) % 2)]]

IsHandler(f) == f \in Handlers(prog)

\* Fault for TypeOK: a handler does not pop PSW.
EpilogueForgets(f) ==
  IF IsHandler(f) THEN <<I("reti", 0, FALSE)>> ELSE <<I("ret", 0, FALSE)>>

Epilogue(f) ==
  IF IsHandler(f) THEN <<I("pop_psw", 0, FALSE), I("reti", 0, FALSE)>>
  ELSE <<I("ret", 0, FALSE)>>

Init ==
  /\ prog \in Programs
  /\ phase = "build"
  /\ fn = 0
  /\ pos = 0
  /\ crit = << >>
  /\ loops = << >>
  /\ code = [f \in Func \cup {Boot} |->
               IF f = Boot
               THEN <<I("call", prog.main, FALSE), I("label", 0, FALSE),
                      I("jmp", 0, FALSE)>>
               ELSE << >>]
  /\ pc = <<Boot, 1>>
  /\ c = FALSE
  /\ bits = {}
  /\ stack = << >>
  /\ ea = FALSE
  /\ flags = {}
  /\ inIsr = FALSE
  /\ delay = FALSE
  /\ halted = FALSE
  /\ want = FALSE

Emit(insns) == code' = [code EXCEPT ![fn] = @ \o insns]

\* The entry of a function: a handler saves PSW, and a function declared
\* __critical is one section.
BuildEntry ==
  /\ phase = "build" /\ fn \in Func /\ pos = 0
  /\ Emit((IF IsHandler(fn) THEN <<I("push_psw", 0, FALSE)>> ELSE << >>)
            \o (IF fn \in prog.critical THEN CritEnter(0) ELSE << >>))
  /\ crit' = IF fn \in prog.critical THEN <<0>> ELSE << >>
  /\ loops' = << >>
  /\ pos' = 1
  /\ UNCHANGED <<prog, phase, fn, cpuVars>>

\* The token to compile is of kind k; compiling it leaves the walk behind it.
Takes(k) ==
  /\ phase = "build" /\ fn \in Func
  /\ pos \in Positions(prog, fn, k)
  /\ pos' = pos + 1
  /\ UNCHANGED <<prog, phase, fn, cpuVars>>

Arg == prog.body[fn][pos].arg
In == Inside(prog, fn, pos)

BuildOpen ==
  /\ Takes("open")
  /\ Emit(CritEnter(pos))
  /\ crit' = Append(crit, pos)
  /\ UNCHANGED loops

BuildClose ==
  /\ Takes("close")
  /\ Emit(CritExit(crit[Len(crit)]))
  /\ crit' = SubSeq(crit, 1, Len(crit) - 1)
  /\ UNCHANGED loops

BuildWhile ==
  /\ Takes("while")
  /\ Emit(<<I("label", TestLabel(pos), In), I("branch", ExitLabel(pos), In)>>)
  /\ loops' = Append(loops, pos)
  /\ UNCHANGED crit

BuildEnd ==
  /\ Takes("end")
  /\ LET l == loops[Len(loops)]
     IN Emit(<<I("jmp", TestLabel(l), In), I("label", ExitLabel(l), In)>>)
  /\ loops' = SubSeq(loops, 1, Len(loops) - 1)
  /\ UNCHANGED crit

\* break and continue jump; sections they leave are not closed.
BuildJump ==
  /\ \/ /\ Takes("break")
        /\ Emit(<<I("jmp", ExitLabel(loops[Len(loops)]), In)>>)
     \/ /\ Takes("continue")
        /\ Emit(<<I("jmp", TestLabel(loops[Len(loops)]), In)>>)
  /\ UNCHANGED <<crit, loops>>

\* Fault for Excluded: a return closes the innermost section only.
BuildReturnOne ==
  /\ Takes("return")
  /\ Emit(ExitAll(SubSeq(crit, 1, Len(crit) - 1)) \o Epilogue(fn))
  /\ UNCHANGED <<crit, loops>>

\* A return closes every open section on the way out.
BuildReturn ==
  /\ Takes("return")
  /\ Emit(ExitAll(crit) \o Epilogue(fn))
  /\ UNCHANGED <<crit, loops>>

StatementOp(kind) ==
  CASE kind = "call" -> "call"
    [] kind = "on" -> "setb_ea"
    [] kind = "off" -> "clr_ea"
    [] kind = "send" -> "mov_sbuf"
    [] kind = "ack" -> "clr_flag"
    [] kind = "work" -> "other"

BuildStatement ==
  /\ \E k \in {"call", "on", "off", "send", "ack", "work"} :
       /\ Takes(k)
       /\ Emit(<<I(StatementOp(k), Arg, In)>>)
  /\ UNCHANGED <<crit, loops>>

\* Behind the last token a function returns; after the last function the CPU
\* comes out of reset.
BuildExit ==
  /\ phase = "build" /\ fn \in Func
  /\ pos = Len(prog.body[fn]) + 1
  /\ Emit(ExitAll(crit) \o Epilogue(fn))
  /\ fn' = fn + 1
  /\ pos' = 0
  /\ crit' = << >>
  /\ phase' = IF fn + 1 = N THEN "run" ELSE "build"
  /\ UNCHANGED <<prog, loops, cpuVars>>

-----------------------------------------------------------------------------
(***************************************************************************)
(* The CPU.                                                                *)
(***************************************************************************)

\* The instruction at position i of f, or the first one behind the labels there.
At(f, i) ==
  CHOOSE j \in i .. Len(code[f]) :
    /\ code[f][j].op # "label"
    /\ \A k \in i .. j - 1 : code[f][k].op = "label"

\* The instruction that label l of f stands before.
Labelled(f, l) ==
  At(f, CHOOSE i \in 1 .. Len(code[f]) :
          code[f][i].op = "label" /\ code[f][i].arg = l)

Current == code[pc[1]][pc[2]]
Following == <<pc[1], At(pc[1], pc[2] + 1)>>
Target(l) == <<pc[1], Labelled(pc[1], l)>>
Entry(f) == <<f, At(f, 1)>>

(***************************************************************************)
(* What is pushed: the address to return to and whether an interrupt       *)
(* pushed it, or PSW with the carry.  `in` notes that the code left there  *)
(* is enclosed in a critical section.                                      *)
(***************************************************************************)
Pushed(kind, at, in, carry) == [kind |-> kind, at |-> at, in |-> in, c |-> carry]

Top == stack[Len(stack)]
Popped == SubSeq(stack, 1, Len(stack) - 1)

-----------------------------------------------------------------------------
(***************************************************************************)
(* The end of a step: running timers count, which may set their flags, and *)
(* then the CPU looks for an interrupt.  It accepts none while EA is off,  *)
(* while one is in service, and at the end of RETI itself.                 *)
(***************************************************************************)
Pending(raised) == prog.vectors \cap raised

First(sources) == CHOOSE s \in sources : \A t \in sources : s <= t

\* Fault for Excluded: EA is not looked at.
AcceptsAlways(raised, ea1, inIsr1, delay1) ==
  ~inIsr1 /\ ~delay1 /\ Pending(raised) # {}

Accepts(raised, ea1, inIsr1, delay1) ==
  ea1 /\ ~inIsr1 /\ ~delay1 /\ Pending(raised) # {}

Finish(pc1, stack1, ea1, flags1, inIsr1, delay1) ==
  /\ ea' = ea1
  /\ delay' = (delay1 /\ ~(ea1 /\ ~inIsr1))
  /\ \E overflows \in SUBSET prog.running :
       LET raised == flags1 \cup overflows
           s == First(Pending(raised))
       IN IF Accepts(raised, ea1, inIsr1, delay1)
          THEN /\ pc' = Entry(prog.handler[s])
               /\ stack' = Append(stack1, Pushed("irq", pc1, code[pc1[1]][pc1[2]].in, FALSE))
               /\ flags' = raised \ ({s} \cap ClearedOnEntry)
               /\ inIsr' = TRUE
          ELSE /\ pc' = pc1
               /\ stack' = stack1
               /\ flags' = raised
               /\ inIsr' = inIsr1
  /\ UNCHANGED <<prog, phase, buildVars>>

\* The rest of a step that only goes on to the next instruction.
GoOn == Finish(Following, stack, ea, flags, inIsr, delay)

Executes(op) == phase = "run" /\ ~halted /\ Current.op = op

\* setb c; clr c; mov bit,c; mov c,bit.
CarryAndBits ==
  /\ \/ Executes("setb_c") /\ c' = TRUE /\ UNCHANGED bits
     \/ Executes("clr_c") /\ c' = FALSE /\ UNCHANGED bits
     \/ /\ Executes("mov_bit_c")
        /\ bits' = IF c THEN bits \cup {<<pc[1], Current.arg>>}
                   ELSE bits \ {<<pc[1], Current.arg>>}
        /\ UNCHANGED c
     \/ /\ Executes("mov_c_bit")
        /\ c' = (<<pc[1], Current.arg>> \in bits)
        /\ UNCHANGED bits
  /\ GoOn
  /\ UNCHANGED <<halted, want>>

\* jbc ea: if EA is on, clear it and jump.
TestAndClearEa ==
  /\ Executes("jbc_ea")
  /\ Finish(IF ea THEN Target(Current.arg) ELSE Following,
            stack, FALSE, flags, inIsr, delay)
  /\ UNCHANGED <<c, bits, halted, want>>

\* mov ea,c at the end of a section.
RestoreEa ==
  /\ Executes("mov_ea_c")
  /\ Finish(Following, stack, c, flags, inIsr, delay)
  /\ UNCHANGED <<c, bits, halted, want>>

\* The program assigns EA.
AssignEa ==
  /\ \E on \in BOOLEAN :
       /\ Executes(IF on THEN "setb_ea" ELSE "clr_ea")
       /\ Finish(Following, stack, on, flags, inIsr, delay)
       /\ want' = on
  /\ UNCHANGED <<c, bits, halted>>

\* A write to SBUF sets TI at once; a handler clears the flag it serves.
AssignFlags ==
  /\ \E flags1 \in SUBSET Source :
       /\ \/ Executes("mov_sbuf") /\ flags1 = flags \cup {Serial}
          \/ Executes("clr_flag") /\ flags1 = flags \ {Current.arg}
       /\ Finish(Following, stack, ea, flags1, inIsr, delay)
  /\ UNCHANGED <<c, bits, halted, want>>

\* Any other instruction may change the carry.
Other ==
  /\ Executes("other")
  /\ c' \in BOOLEAN
  /\ GoOn
  /\ UNCHANGED <<bits, halted, want>>

\* A jump to itself stops the simulator if EA is off.
Jump ==
  /\ Executes("jmp")
  /\ halted' = (Target(Current.arg) = pc /\ ~ea)
  /\ Finish(Target(Current.arg), stack, ea, flags, inIsr, delay)
  /\ UNCHANGED <<c, bits, want>>

\* A condition of the program; testing it may change the carry.
Branch ==
  /\ Executes("branch")
  /\ c' \in BOOLEAN
  /\ \E to \in {Following, Target(Current.arg)} :
       Finish(to, stack, ea, flags, inIsr, delay)
  /\ UNCHANGED <<bits, halted, want>>

Call ==
  /\ Executes("call")
  /\ Finish(Entry(Current.arg),
            Append(stack, Pushed("call", Following, Current.in, FALSE)),
            ea, flags, inIsr, delay)
  /\ UNCHANGED <<c, bits, halted, want>>

Return ==
  /\ Executes("ret")
  /\ Finish(Top.at, Popped, ea, flags, inIsr, delay)
  /\ UNCHANGED <<c, bits, halted, want>>

PushPsw ==
  /\ Executes("push_psw")
  /\ Finish(Following, Append(stack, Pushed("psw", pc, FALSE, c)),
            ea, flags, inIsr, delay)
  /\ UNCHANGED <<c, bits, halted, want>>

PopPsw ==
  /\ Executes("pop_psw")
  /\ c' = Top.c
  /\ Finish(Following, Popped, ea, flags, inIsr, delay)
  /\ UNCHANGED <<bits, halted, want>>

\* Fault for Completes: the next interrupt is accepted at the end of RETI.
ReturnFromInterruptAtOnce ==
  /\ Executes("reti")
  /\ Finish(Top.at, Popped, ea, flags, FALSE, delay)
  /\ UNCHANGED <<c, bits, halted, want>>

ReturnFromInterrupt ==
  /\ Executes("reti")
  /\ Finish(Top.at, Popped, ea, flags, FALSE, TRUE)
  /\ UNCHANGED <<c, bits, halted, want>>

Build ==
  \/ BuildEntry \/ BuildOpen \/ BuildClose \/ BuildWhile \/ BuildEnd
  \/ BuildJump \/ BuildReturn \/ BuildStatement \/ BuildExit

Step ==
  \/ CarryAndBits \/ TestAndClearEa \/ RestoreEa \/ AssignEa \/ AssignFlags
  \/ Other \/ Jump \/ Branch \/ Call \/ Return
  \/ PushPsw \/ PopPsw \/ ReturnFromInterrupt

Next == Build \/ Step

Spec == Init /\ [][Next]_vars

\* The compiler is sequential, and the simulator steps until it halts.
FairSpec == Spec /\ WF_vars(Next)

-----------------------------------------------------------------------------
(***************************************************************************)
(* Properties.                                                             *)
(***************************************************************************)
Address == (Func \cup {Boot}) \X Nat
Entries == [kind : {"call", "irq", "psw"}, at : Address, in : BOOLEAN, c : BOOLEAN]

\* The instructions that take something from the stack find what they expect.
Matched ==
  \A op \in {"ret", "reti", "pop_psw"} :
    Current.op = op =>
      /\ stack # << >>
      /\ Top.kind = CASE op = "ret" -> "call"
                     [] op = "reti" -> "irq"
                     [] op = "pop_psw" -> "psw"

\* Every variable has its shape, and what an instruction takes from the stack
\* is what its counterpart pushed: a ret finds a call's return address.
TypeOK ==
  /\ prog \in ProgramType
  /\ phase \in {"build", "run"}
  /\ fn \in 0 .. N
  /\ pos \in Nat
  /\ crit \in Seq(Nat)
  /\ loops \in Seq(Nat)
  /\ code \in [Func \cup {Boot} -> Seq(Insn)]
  /\ pc \in (Func \cup {Boot}) \X Nat
  /\ c \in BOOLEAN
  /\ bits \subseteq Func \X Nat
  /\ stack \in Seq(Entries)
  /\ {ea, inIsr, delay, halted, want} \subseteq BOOLEAN
  /\ flags \subseteq Source
  /\ phase = "run" => Matched

\* The brackets before token i of f that are still open there.
StillOpen(p, f, i, open, close) ==
  {k \in Positions(p, f, open) :
     /\ k < i
     /\ \A m \in k + 1 .. i : Nesting(p, f, m, open, close) > Nesting(p, f, k, open, close)}

Sections(p, f, i) == StillOpen(p, f, i, "open", "close")
LoopsAround(p, f, i) == StillOpen(p, f, i, "while", "end")

\* Loops and sections lie one inside the other, and no break or continue leaves
\* a section.
JumpsStay(p) ==
  \A f \in Func :
    \A i \in Positions(p, f, "end") \cup Positions(p, f, "break") \cup Positions(p, f, "continue") :
      \A w \in LoopsAround(p, f, i) :
        (\A y \in LoopsAround(p, f, i) : y <= w) => Sections(p, f, i) = Sections(p, f, w)

\* The functions in Q and those called from sections call functions in Q only,
\* and none of Q assigns EA.
QuietIn(p, Q) ==
  \A f \in Func :
    /\ \A i \in Positions(p, f, "call") : f \in Q \/ Inside(p, f, i) => p.body[f][i].arg \in Q
    /\ f \in Q => Positions(p, f, "on") \cup Positions(p, f, "off") = {}

\* What Excluded and Restored take for granted: jumps stay in their section, and
\* what runs in a section leaves EA alone.
Disciplined(p) == JumpsStay(p) /\ \E Q \in SUBSET Func : QuietIn(p, Q)

\* The running code, or code that waits for it to return, is in a section.
InSection == Current.in \/ \E i \in 1 .. Len(stack) : stack[i].in

\* No interrupt is accepted in a critical section or in a function called from
\* one, also not between the instructions that open and close it.
Excluded ==
  \A i \in 1 .. Len(stack) :
    stack[i].kind = "irq" => \A j \in 1 .. i : ~stack[j].in

\* Instructions that open or close a section.
Bracket == {"setb_c", "jbc_ea", "clr_c", "mov_bit_c", "mov_c_bit", "mov_ea_c"}

\* EA is off in a critical section, and everywhere else it is what the program
\* last made it, whatever sections have been nested, returned from or
\* interrupted in between, and also if a handler changed it.
Restored ==
  (phase = "run" /\ Current.op \notin Bracket) => (ea <=> (want /\ ~InSection))

\* Main comes to its end although interrupts are requested all the time: one
\* of its instructions is executed between two handlers.
Finished == pc[1] = Boot /\ pc[2] = 3
Completes ==
  (\A f \in Func : Positions(prog, f, "while") = {}) => <>Finished
=============================================================================
