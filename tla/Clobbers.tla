------------------------------ MODULE Clobbers ------------------------------
(***************************************************************************)
(* Register conventions of a whole program (src/cg/program.rs, generate;   *)
(* src/cg/alloc.rs, the values kept across calls; expand_isr) and the      *)
(* program that runs under them.                                           *)
(*                                                                         *)
(* Every function has its own convention: the registers of its parameters  *)
(* and of its value, and the set of registers it may change.  Functions    *)
(* are compiled callees first; a function's set is what its own code       *)
(* writes joined with the sets of its callees, and its callers keep        *)
(* values in the other registers across a call.  An interrupt handler      *)
(* pushes the registers of its set, and B and DPTR if anything below it    *)
(* uses them, or switches to a register bank of its own.                   *)
(*                                                                         *)
(* The second half of the module runs the compiled program.  A register    *)
(* is written by its name, in the bank that PSW selects, or by its direct  *)
(* address, in the bank the function was compiled for.  Each cell holds    *)
(* the depth of the activation that wrote it last.                         *)
(***************************************************************************)
EXTENDS Naturals, Sequences, FiniteSets

CONSTANTS
  N,         (* number of functions that reach code generation            *)
  Reg,       (* the registers of one bank                                 *)
  Banks,     (* number of register banks                                  *)
  Programs,  (* the programs considered: see ProgramType                  *)
  MaxDepth   (* bound on the number of live activations                   *)

Func == 0 .. N - 1
Bank == 0 .. Banks - 1

\* Machine state outside the banks that conventions speak of, and all of it.
Special == {"B", "DPTR"}
Res == Reg \cup Special

(***************************************************************************)
(* What the passes before tell of a program: the functions each function   *)
(* calls by name and the ones that call through pointers, the functions    *)
(* whose address is taken, those whose effect is unknown ("opaque": inline *)
(* assembly, runtime helpers, library routines), `naked` ones, handlers    *)
(* with their hardware priority, the functions declared __using and their  *)
(* bank, what the code generated for each function writes, and the         *)
(* registers of its parameters and of its value.                           *)
(***************************************************************************)
ProgramType ==
  [main : Func, handlers : SUBSET Func, prio : [Func -> {0, 1}],
   calls : [Func -> SUBSET Func], indirect : SUBSET Func,
   addrTaken : SUBSET Func, opaque : SUBSET Func, naked : SUBSET Func,
   banked : SUBSET Func, using : [Func -> Bank],
   writes : [Func -> SUBSET Res],
   params : [Func -> SUBSET Reg], ret : [Func -> SUBSET Reg]]

ASSUME SizesAssumption ==
  /\ N \in Nat \ {0}
  /\ Banks \in Nat \ {0}
  /\ MaxDepth \in Nat
  /\ Reg \in SUBSET STRING
  /\ Reg \cap Special = {}

\* Handlers are entered by the hardware, and by no other function; a naked
\* handler gets no prologue and is left out.
ASSUME ProgramsAssumption ==
  \A p \in Programs :
    /\ p \in ProgramType
    /\ p.main \notin p.handlers
    /\ p.handlers \cap (p.naked \cup p.addrTaken) = {}
    /\ \A f \in Func : p.calls[f] \cap p.handlers \subseteq {f}

VARIABLES
  prog,      (* the program being compiled and run; never changes         *)
  phase,     (* the stage the compiler or the program has reached         *)
  seen,      (* functions the bottom-up visit has reached                 *)
  path,      (* functions the visit is inside of, outermost first         *)
  post,      (* functions in the order they are compiled                  *)
  next,      (* index into `post` of the function to compile              *)
  known,     (* functions that have a summary                             *)
  clobbers,  (* clobbers[f]: registers f may change, says its summary     *)
  total,     (* total[f]: what f and everything below it may change       *)
  keeps,     (* keeps[f][g]: registers f may rely on across a call of g   *)
  bank,      (* the register bank that PSW selects                        *)
  mem,       (* mem[c]: depth of the activation that wrote cell c last    *)
  stack      (* live activations, oldest first                            *)

visitVars == <<seen, path, post>>
genVars == <<next, known, clobbers, total, keeps>>
runVars == <<bank, mem, stack>>
vars == <<prog, phase, visitVars, genVars, runVars>>

\* Register r of bank b; B and DPTR are the same in all banks.
CellOf(b, r) == IF r \in Special THEN <<0, r>> ELSE <<b, r>>
Cell == {CellOf(b, r) : b \in Bank, r \in Res}

-----------------------------------------------------------------------------
(***************************************************************************)
(* The call graph.                                                         *)
(***************************************************************************)
Callees(f) ==
  prog.calls[f] \cup (IF f \in prog.indirect THEN prog.addrTaken ELSE {})

\* f reaches g when every set that holds f and is closed under calls holds g.
Reaches(f, g) ==
  \A S \in SUBSET Func :
    (f \in S /\ \A h \in S : Callees(h) \subseteq S) => g \in S

Recursive(f) ==
  \/ f \in Callees(f)
  \/ \E g \in Func \ {f} : Reaches(f, g) /\ Reaches(g, f)

Init ==
  /\ prog \in Programs
  /\ phase = "check"
  /\ seen = {}
  /\ path = << >>
  /\ post = << >>
  /\ next = 1
  /\ known = {}
  /\ clobbers = [f \in Func |-> {}]
  /\ total = [f \in Func |-> {}]
  /\ keeps = [f \in Func |-> [g \in Func |-> {}]]
  /\ bank = 0
  /\ mem = [c \in Cell |-> 0]
  /\ stack = << >>

\* A recursive handler is an error.
CheckRecursion ==
  /\ phase = "check"
  /\ phase' = IF \E h \in prog.handlers : Recursive(h) THEN "failed" ELSE "visit"
  /\ UNCHANGED <<prog, visitVars, genVars, runVars>>

\* The bottom-up visit starts again at the first function not seen.
VisitRoot ==
  /\ phase = "visit" /\ path = << >>
  /\ \E f \in Func \ seen :
       /\ \A g \in Func \ seen : f <= g
       /\ seen' = seen \cup {f}
       /\ path' = <<f>>
  /\ UNCHANGED <<prog, phase, post, genVars, runVars>>

\* Fault for TypeOK: the visit enters callees it has seen.
VisitCalleeAgain ==
  /\ phase = "visit" /\ path # << >>
  /\ \E g \in Callees(path[Len(path)]) :
       /\ seen' = seen \cup {g}
       /\ path' = Append(path, g)
  /\ UNCHANGED <<prog, phase, post, genVars, runVars>>

\* Callees are visited in the order of the calls in the body: any order.
VisitCallee ==
  /\ phase = "visit" /\ path # << >>
  /\ \E g \in Callees(path[Len(path)]) \ seen :
       /\ seen' = seen \cup {g}
       /\ path' = Append(path, g)
  /\ UNCHANGED <<prog, phase, post, genVars, runVars>>

VisitDone ==
  /\ phase = "visit" /\ path # << >>
  /\ Callees(path[Len(path)]) \subseteq seen
  /\ post' = Append(post, path[Len(path)])
  /\ path' = SubSeq(path, 1, Len(path) - 1)
  /\ UNCHANGED <<prog, phase, seen, genVars, runVars>>

\* Fault for ConventionKnown: recursive functions get no summary up-front.
FixSummariesNaked ==
  /\ phase = "visit" /\ path = << >> /\ seen = Func
  /\ known' = prog.naked
  /\ clobbers' = [f \in Func |-> IF f \in known' THEN Reg ELSE {}]
  /\ phase' = "generate"
  /\ UNCHANGED <<prog, visitVars, next, total, keeps, runVars>>

\* The summaries of naked and recursive functions are fixed before any code
\* is generated.
FixSummaries ==
  /\ phase = "visit" /\ path = << >> /\ seen = Func
  /\ known' = prog.naked \cup {f \in Func : Recursive(f)}
  /\ clobbers' = [f \in Func |-> IF f \in known' THEN Reg ELSE {}]
  /\ phase' = "generate"
  /\ UNCHANGED <<prog, visitVars, next, total, keeps, runVars>>

-----------------------------------------------------------------------------
(***************************************************************************)
(* Code generation of one function.                                        *)
(***************************************************************************)

\* Without a summary a callee is taken to change every register.
CalleeClobbers(g) == IF g \in known THEN clobbers[g] ELSE Reg

\* A call changes what its callee changes; the caller writes its parameters.
CallClobbers(g) == CalleeClobbers(g) \cup prog.params[g] \cup prog.ret[g]

Unknown(f) == f \in prog.opaque \cup prog.indirect

\* Fault for Transparent: B and DPTR count only where f itself uses them.
TotalShallow(f) ==
  IF Unknown(f) THEN Res
  ELSE prog.writes[f] \cup prog.ret[f]
         \cup (UNION {CallClobbers(g) : g \in prog.calls[f]})
         \cup (IF f \in prog.naked THEN Special ELSE {})

\* What f and everything it calls may change.
Total(f) ==
  IF Unknown(f) THEN Res
  ELSE prog.writes[f] \cup prog.ret[f]
         \cup (UNION {total[g] : g \in Callees(f)})
         \cup (UNION {CallClobbers(g) : g \in prog.calls[f]})
         \cup (IF \/ f \in prog.naked
                  \/ \E g \in prog.calls[f] : CallClobbers(g) = Reg
               THEN Special ELSE {})

\* Fault for KeptValues: an argument always survives in its register.
SurvivesArgument(g) == (Reg \ CallClobbers(g)) \cup prog.params[g]

\* Registers in which the allocator lets a value live across a call of g: those
\* the call does not change, and the one an argument is passed in if the
\* callee only reads it.
Survives(g) ==
  (Reg \ CallClobbers(g))
    \cup (prog.params[g] \ (CalleeClobbers(g) \cup prog.ret[g]))

Generate ==
  /\ phase = "generate" /\ next <= Len(post)
  /\ LET f == post[next]
     IN /\ total' = [total EXCEPT ![f] = Total(f)]
        /\ keeps' = [keeps EXCEPT ![f] =
                       [g \in Func |-> IF g \in prog.calls[f]
                                       THEN Survives(g) ELSE {}]]
        /\ IF f \in prog.naked
           THEN UNCHANGED <<known, clobbers>>
           ELSE /\ known' = known \cup {f}
                /\ clobbers' = [clobbers EXCEPT ![f] =
                                  IF Recursive(f) THEN Reg
                                  ELSE Total(f) \cap Reg]
  /\ next' = next + 1
  /\ UNCHANGED <<prog, phase, visitVars, runVars>>

-----------------------------------------------------------------------------
(***************************************************************************)
(* The running program.                                                    *)
(***************************************************************************)
Depth == Len(stack)
Running == stack[Depth].fn

\* The bank a function is compiled for: direct addresses of its registers.
OwnBankOf(f) == IF f \in prog.banked THEN prog.using[f] ELSE 0

\* The machine when an activation was entered, the registers its caller
\* relies on until it returns, and whether the hardware entered it.
Machine == [bank : Bank, mem : [Cell -> 0 .. MaxDepth]]
Activation == [fn : Func, irq : BOOLEAN, kept : SUBSET Reg, at : Machine]

Enter(f, irq, kept, m) ==
  /\ Depth < MaxDepth
  /\ mem' = m
  /\ stack' = Append(stack, [fn |-> f, irq |-> irq, kept |-> kept,
                             at |-> [bank |-> bank, mem |-> m]])

StartMain ==
  /\ phase = "generate" /\ next > Len(post)
  /\ phase' = "run"
  /\ Enter(prog.main, FALSE, {}, mem)
  /\ UNCHANGED <<prog, visitVars, genVars, bank>>

\* The running function writes a register, by name or by direct address.
Write(r) ==
  /\ phase = "run" /\ Depth > 0
  /\ r \in IF Running \in prog.opaque THEN Res ELSE prog.writes[Running]
  /\ \E b \in {bank, OwnBankOf(Running)} :
       mem' = [mem EXCEPT ![CellOf(b, r)] = Depth]
  /\ UNCHANGED <<prog, phase, visitVars, genVars, bank, stack>>

\* A call by name: arguments go to their registers, unless they are there
\* already, and what the allocator let live across the call has to survive it.
Call(g) ==
  /\ phase = "run" /\ Depth > 0
  /\ g \in prog.calls[Running]
  /\ \E moved \in SUBSET prog.params[g] :
       Enter(g, FALSE, keeps[Running][g],
             [c \in Cell |-> IF \E r \in moved : c = CellOf(bank, r)
                             THEN Depth ELSE mem[c]])
  /\ UNCHANGED <<prog, phase, visitVars, genVars, bank>>

\* A call through a pointer: nothing survives it in a register.
CallIndirect(g) ==
  /\ phase = "run" /\ Depth > 0
  /\ Running \in prog.indirect /\ g \in prog.addrTaken
  /\ Enter(g, FALSE, {}, mem)
  /\ UNCHANGED <<prog, phase, visitVars, genVars, bank>>

\* The value goes to its registers on the way out.  Main does not return.
Return ==
  /\ phase = "run" /\ Depth > 1
  /\ ~stack[Depth].irq
  /\ mem' = [c \in Cell |-> IF \E r \in prog.ret[Running] : c = CellOf(bank, r)
                            THEN Depth ELSE mem[c]]
  /\ stack' = SubSeq(stack, 1, Depth - 1)
  /\ UNCHANGED <<prog, phase, visitVars, genVars, bank>>

\* The hardware accepts an interrupt of a priority above those in service; the
\* prologue pushes PSW and selects the handler's bank if it has one.
Interrupt(h) ==
  /\ phase = "run"
  /\ h \in prog.handlers
  /\ \A i \in 1 .. Depth :
       stack[i].irq => prog.prio[stack[i].fn] < prog.prio[h]
  /\ Enter(h, TRUE, {}, mem)
  /\ bank' = IF h \in prog.banked THEN prog.using[h] ELSE bank
  /\ UNCHANGED <<prog, phase, visitVars, genVars>>

\* What the prologue pushes: registers by their addresses in bank 0.
Pushed(h) ==
  {CellOf(0, r) : r \in IF h \in prog.banked THEN total[h] \cap Special
                        ELSE total[h]}

\* Fault for OwnBank: the epilogue does not pop PSW.
ReturnFromHandlerInBank ==
  /\ phase = "run" /\ Depth > 1
  /\ stack[Depth].irq
  /\ mem' = [c \in Cell |-> IF c \in Pushed(Running)
                            THEN stack[Depth].at.mem[c] ELSE mem[c]]
  /\ stack' = SubSeq(stack, 1, Depth - 1)
  /\ UNCHANGED <<prog, phase, visitVars, genVars, bank>>

\* The epilogue pops what the prologue pushed, and reti.
ReturnFromHandler ==
  /\ phase = "run" /\ Depth > 1
  /\ stack[Depth].irq
  /\ mem' = [c \in Cell |-> IF c \in Pushed(Running)
                            THEN stack[Depth].at.mem[c] ELSE mem[c]]
  /\ bank' = stack[Depth].at.bank
  /\ stack' = SubSeq(stack, 1, Depth - 1)
  /\ UNCHANGED <<prog, phase, visitVars, genVars>>

Next ==
  \/ CheckRecursion
  \/ VisitRoot \/ VisitCallee \/ VisitDone
  \/ FixSummaries \/ Generate
  \/ StartMain
  \/ \E r \in Res : Write(r)
  \/ \E g \in Func : Call(g) \/ CallIndirect(g)
  \/ Return
  \/ \E h \in Func : Interrupt(h)
  \/ ReturnFromHandler

Spec == Init /\ [][Next]_vars

(***************************************************************************)
(* Programs whose banks agree: main and what it calls are compiled for     *)
(* bank 0, every callee for the bank of its caller; a handler without      *)
(* __using only interrupts code in bank 0, and a handler with __using has  *)
(* a bank that nothing it can interrupt is running in.                     *)
(***************************************************************************)
BanksAgree(p) ==
  LET own(f) == IF f \in p.banked THEN p.using[f] ELSE 0
      callees(f) == p.calls[f] \cup (IF f \in p.indirect THEN p.addrTaken
                                     ELSE {})
  IN /\ own(p.main) = 0
     /\ \A f \in Func : \A g \in callees(f) : own(g) = own(f)
     /\ \A h \in p.handlers \cap p.banked :
          /\ own(h) # 0
          /\ \A l \in p.handlers : p.prio[l] < p.prio[h] => own(l) # own(h)
     /\ \A h \in p.handlers \ p.banked :
          \A l \in p.handlers : p.prio[l] < p.prio[h] => own(l) = 0

DisciplinedInit == Init /\ BanksAgree(prog)

DisciplinedSpec == DisciplinedInit /\ [][Next]_vars

-----------------------------------------------------------------------------
(***************************************************************************)
(* Properties.                                                             *)
(***************************************************************************)

\* Every variable has its shape; the visit is never inside more functions
\* than there are.
TypeOK ==
  /\ prog \in ProgramType
  /\ phase \in {"check", "failed", "visit", "generate", "run"}
  /\ seen \subseteq Func
  /\ path \in Seq(Func) /\ Len(path) <= N
  /\ post \in Seq(Func) /\ Len(post) <= N
  /\ next \in Nat
  /\ known \subseteq Func
  /\ clobbers \in [Func -> SUBSET Reg]
  /\ total \in [Func -> SUBSET Res]
  /\ keeps \in [Func -> [Func -> SUBSET Reg]]
  /\ bank \in Bank
  /\ mem \in [Cell -> 0 .. MaxDepth]
  /\ stack \in Seq(Activation) /\ Len(stack) <= MaxDepth

\* When a function is compiled the convention of each of its callees is known,
\* in every call graph and from every order of visits.  generate would compile
\* the call without its arguments otherwise: a callee without a summary has no
\* parameters (src/cg/program.rs:621-632).
ConventionKnown ==
  (phase = "generate" /\ next <= Len(post)) => prog.calls[post[next]] \subseteq known

\* Activation i was entered by a call and no handler is running above it.
Awaited(i) == \A j \in i .. Depth : ~stack[j].irq

\* A value that the allocator left in a register across a call is still there
\* whatever the callee and the functions below it have written so far.
KeptValues ==
  \A i \in 1 .. Depth :
    Awaited(i) =>
      \A r \in stack[i].kept :
        mem[CellOf(bank, r)] = stack[i].at.mem[CellOf(stack[i].at.bank, r)]

\* A handler hands back every register of the interrupted bank, B, DPTR and the
\* bank itself as it found them, although it saves only what expand_isr
\* was told that it and its callees change.
Transparent ==
  [][(Depth > 0 /\ stack[Depth].irq /\ Len(stack') < Depth) =>
       LET at == stack[Depth].at
       IN /\ bank' = at.bank
          /\ \A r \in Res :
               mem'[CellOf(at.bank, r)] = at.mem[CellOf(at.bank, r)]]_vars

\* Code runs in the bank it was compiled for, so that the name and the direct
\* address of a register are one register ("Register Rn of the function's
\* register bank", src/cg/mod.rs:18).
OwnBank == Depth > 0 => bank = OwnBankOf(Running)
=============================================================================
