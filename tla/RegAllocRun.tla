---------------------------- MODULE RegAllocRun ----------------------------
(***************************************************************************)
(* A function running in the locations that register allocation gave it.   *)
(*                                                                         *)
(* An instruction is a script: the reads and writes that src/cg/select.rs  *)
(* generates for it, in their order.  A location holds a set of pairs      *)
(* (virtual register, byte), those whose present value it has.  Pair       *)
(* <<0, k>> is byte k of the result of the instruction being executed.     *)
(***************************************************************************)
EXTENDS RegAlloc, ParMove

VARIABLES
  pc,        (* block and instruction, or Halted                          *)
  step,      (* position in the script of the instruction                 *)
  defined,   (* virtual registers that have a value                       *)
  saved      (* slots pushed around a recursive call                      *)

runVars == <<pc, step, defined, saved, moveVars>>
vars == <<allocVars, runVars>>

Halted == <<0, 0>>

Init ==
  /\ AllocInit
  /\ pc = Halted /\ step = 0 /\ defined = {} /\ saved = <<>>
  /\ mem = <<>> /\ batch = <<>> /\ start = <<>> /\ pending = {} /\ viaA = {} /\ acc = {}

-----------------------------------------------------------------------------
(***************************************************************************)
(* Steps of a script: first `needs` are read, then `ruins` are overwritten *)
(* with something else, `puts` with bytes of the result, slots are popped, *)
(* and at last `moves` are made.  `ready`: no pointer register had to be   *)
(* borrowed from a value that is live.                                     *)
(***************************************************************************)
Nop == [needs |-> {}, ruins |-> {}, puts |-> {}, push |-> {}, pop |-> FALSE,
        moves |-> <<>>, ready |-> TRUE]

Need(v, k) == IF v = 0 THEN {} ELSE {<<locs[v][k], v, k>>}
NeedAll(v) == IF v = 0 THEN {} ELSE UNION {Need(v, k) : k \in 1 .. Bytes(v)}
NeedEach(us, k) == UNION {Need(us[i], k) : i \in 1 .. Len(us)}
Put(d, k) == {<<locs[d][k], k>>}

Do(needs, puts) == [Nop EXCEPT !.needs = needs, !.puts = puts]

\* The result's bytes 1 .. n are those of v, or constants.
Source(v, k) == IF v = 0 THEN K(k) ELSE locs[v][k]
Copy(d, v, n) ==
  [Nop EXCEPT !.needs = UNION {Need(v, k) : k \in 1 .. n},
              !.moves = [k \in 1 .. n |-> [to |-> locs[d][k], from |-> Source(v, k), byte |-> k]]]

Each(ins, needs(_)) == [k \in 1 .. Bytes(ins.def) |-> Do(needs(k), Put(ins.def, k))]
PutFrom(d, n) == [k \in 1 .. Bytes(d) - n |-> Do({}, Put(d, n + k))]

AllOf(ins) == UNION {NeedAll(ins.uses[i]) : i \in 1 .. Len(ins.uses)}

\* gen_bin, gen_addsub: byte by byte, or all of it before the result.
SameScript(ins) == Each(ins, LAMBDA k : NeedEach(ins.uses, k))
AnyScript(ins) == <<Do(AllOf(ins), UNION {Put(ins.def, k) : k \in 1 .. Bytes(ins.def)})>>

\* shift16_mux: one byte mixes both bytes of the operand and is written first.
MuxScript(ins, first) ==
  <<Do(AllOf(ins), Put(ins.def, first)), Do(Need(ins.uses[1], 3 - first), Put(ins.def, 3 - first))>>

\* gen_shift_var: the count waits in B, the result is shifted in its place.
ShiftScript(ins) ==
  <<Do(Need(ins.uses[2], 1), {}), Copy(ins.def, ins.uses[1], Bytes(ins.def))>>

\* Zero or sign bytes come last; the sign is read again for them.
ExtScript(ins) ==
  LET a == ins.uses[1]
  IN <<Copy(ins.def, a, Bytes(a)),
       Do(IF ins.kind = "sext" THEN Need(a, Bytes(a)) ELSE {}, {})>>
       \o PutFrom(ins.def, Bytes(a))

\* gen_load: the address goes to DPTR once, or, if the pointer is generic, to
\* DPTR and B for every byte.
LoadScript(ins) ==
  IF ins.kind = "load" THEN <<Do(AllOf(ins), {})>> \o PutFrom(ins.def, 0)
  ELSE Each(ins, LAMBDA k : NeedAll(ins.uses[1]))

\* Operations on registers, and loads through DPTR or B.
ScriptOf(ins) ==
  CASE ins.kind \in {"copy", "trunc"} -> <<Copy(ins.def, ins.uses[1], Bytes(ins.def))>>
    [] ins.kind = "same"  -> SameScript(ins)
    [] ins.kind = "any"   -> AnyScript(ins)
    [] ins.kind = "left"  -> MuxScript(ins, 2)
    [] ins.kind = "right" -> MuxScript(ins, 1)
    [] ins.kind = "shift" -> ShiftScript(ins)
    [] ins.kind \in {"ext", "sext"} -> ExtScript(ins)
    [] ins.kind \in {"load", "genload"} -> LoadScript(ins)
    [] ins.kind = "asm"   -> <<[Nop EXCEPT !.ruins = {R(n) : n \in Reg}]>>
    [] ins.kind = "use"   -> <<Do(AllOf(ins), {})>>

-----------------------------------------------------------------------------
(***************************************************************************)
(* Memory that R0 or R1 points to.  The pointer's own register is used if  *)
(* it is one of them, else one that is free.  A load of several bytes may  *)
(* also point with a register of the result, whose byte then waits in B.   *)
(***************************************************************************)
Busy(extra) == RegsOf(after[pc[1]][pc[2]] \cup (extra \ {0}))
Own(p) == IF p = 0 THEN {} ELSE {n \in PtrReg : locs[p][1] = R(n)}

\* set_rptr: the registers to choose from, the highest of which is taken.
SetRptr(p, extra) == IF Own(p) # {} THEN Own(p) ELSE PtrReg \ Busy(extra)

\* Point with the first of `regs`; `own` is left as it is.
Point(p, regs) ==
  [Nop EXCEPT !.needs = NeedAll(p),
              !.ruins = IF regs \subseteq Own(p) THEN {} ELSE {R(Max(regs))},
              !.ready = regs # {}]

\* The registers to choose from for a load; bytes of the result are not yet written.
LoadRegs(ins) ==
  LET d == ins.def
      dest == {n \in PtrReg : R(n) \in Range(locs[d])}
  IN IF Bytes(d) > 1 /\ dest # {} /\ PtrReg \subseteq Busy({d}) THEN dest
     ELSE SetRptr(ins.uses[1], IF Bytes(d) > 1 THEN {d} ELSE {})

\* The bytes of the result that wait: those of the register that points.
Waiting(ins) ==
  {k \in 1 .. Bytes(ins.def) :
     /\ Bytes(ins.def) > 1 /\ LoadRegs(ins) # {}
     /\ locs[ins.def][k] = R(Max(LoadRegs(ins)))}

PutAll(d, ks) == UNION {Put(d, k) : k \in ks}

LoadPtr(ins) ==
  <<Point(ins.uses[1], LoadRegs(ins))>>
    \o [k \in 1 .. Bytes(ins.def) |-> Do({}, PutAll(ins.def, {k} \ Waiting(ins)))]
    \o <<Do({}, PutAll(ins.def, Waiting(ins)))>>

StorePtr(ins) ==
  LET v == ins.uses[2]
  IN <<Point(ins.uses[1], SetRptr(ins.uses[1], {v}))>>
       \o [k \in 1 .. (IF v = 0 THEN 1 ELSE Bytes(v)) |-> Do(Need(v, k), {})]

-----------------------------------------------------------------------------
(***************************************************************************)
(* Calls (gen_call_ty): arguments are moved into the parameters, the       *)
(* callee changes what its summary says, the shared area of arguments and, *)
(* if it is this function again, its slots, which are pushed before and    *)
(* popped behind.  Then the result is moved to its place.                  *)
(***************************************************************************)
\* The bytes of the arguments, parameter by parameter.
Upto(S, x) == {y \in S : y[1] < x[1] \/ (y[1] = x[1] /\ y[2] <= x[2])}
InTurn(S) == [n \in 1 .. Cardinality(S) |-> CHOOSE x \in S : Cardinality(Upto(S, x)) = n]

SlotsOf(S) == {l \in UNION {Range(locs[v]) : v \in S} : l[1] = "slot"}

\* The parameters' bytes, and the moves that bring the arguments there.
Passed(s) == {x \in (1 .. Len(s.params)) \X (1 .. 4) : x[2] <= Len(s.params[x[1]])}
ArgMove(ins, x) ==
  [to |-> ins.callee.params[x[1]][x[2]], from |-> Source(ins.uses[x[1]], x[2]), byte |-> 0]
ArgMoves(ins) ==
  [n \in 1 .. Cardinality(Passed(ins.callee)) |-> ArgMove(ins, InTurn(Passed(ins.callee))[n])]

\* Fault for ReadsRight: of a value in several bytes only the first one is pushed.
SaveFirstBytes(s) ==
  [Nop EXCEPT !.push = IF s.recursive
                       THEN {l \in {locs[v][1] : v \in after[pc[1]][pc[2]]} : l[1] = "slot"}
                       ELSE {}]

SaveSlots(s) == [Nop EXCEPT !.push = IF s.recursive THEN SlotsOf(after[pc[1]][pc[2]]) ELSE {}]
PassArgs(ins) ==
  [Nop EXCEPT !.needs = UNION {Need(ins.uses[x[1]], x[2]) : x \in Passed(ins.callee)},
              !.moves = ArgMoves(ins)]

\* The callee finds its arguments, and leaves its result.
Callee(ins) ==
  LET s == ins.callee
      frame == IF s.recursive THEN {Slot(n) : n \in 0 .. Slots - 1} ELSE {}
  IN [Nop EXCEPT
        !.needs = {<<s.params[x[1]][x[2]], ins.uses[x[1]], x[2]>> :
                     x \in {y \in Passed(s) : ins.uses[y[1]] # 0}},
        !.ruins = {R(n) : n \in s.clobbers} \cup frame \cup {Arg(n) : n \in 0 .. Others - 1},
        !.puts = {<<s.ret[k], k>> : k \in 1 .. Len(s.ret)}]

ResultMoves(ins) ==
  [k \in 1 .. Len(ins.callee.ret) |->
     [to |-> locs[ins.def][k], from |-> ins.callee.ret[k], byte |-> 0]]
TakeResult(ins) ==
  [Nop EXCEPT !.pop = ins.callee.recursive,
              !.moves = IF ins.def = 0 THEN <<>> ELSE ResultMoves(ins)]

Call(ins) == <<SaveSlots(ins.callee), PassArgs(ins), Callee(ins), TakeResult(ins)>>

Script ==
  LET ins == Insts(pc[1])[pc[2]]
  IN CASE ins.kind = "ptrload"  -> LoadPtr(ins)
       [] ins.kind = "ptrstore" -> StorePtr(ins)
       [] ins.kind \in {"call", "helper"} -> Call(ins)
       [] OTHER -> ScriptOf(ins)

-----------------------------------------------------------------------------
(***************************************************************************)
(* Execution.                                                              *)
(***************************************************************************)
Idle == pc # Halted /\ pending = {}
AtTerm == pc[2] > Len(Insts(pc[1]))

\* The bytes of parameters that the caller moves to l, one over the other.
Arrives(l) == {x \in Params \X (1 .. 4) : x[2] <= Len(locs[x[1]]) /\ locs[x[1]][x[2]] = l}

Enter ==
  /\ phase = "placed" /\ pc = Halted /\ step = 0
  /\ mem' = [l \in Location |-> IF Cardinality(Arrives(l)) = 1 THEN Arrives(l) ELSE {}]
  /\ defined' = Params
  /\ pc' = <<1, 1>> /\ step' = 1
  /\ UNCHANGED <<allocVars, batch, start, pending, viaA, acc, saved>>

\* What the locations hold when the moves of a step begin.
Written(op) ==
  [l \in Location |->
     IF \E x \in op.puts : x[1] = l THEN {<<0, x[2]>> : x \in {y \in op.puts : y[1] = l}}
     ELSE IF op.pop /\ l \in DOMAIN saved THEN saved[l]
     ELSE IF l \in op.ruins THEN {} ELSE mem[l]]

\* The source of a result byte has its value too.
Tagged(m, moves) ==
  [l \in Location |->
     m[l] \cup {<<0, moves[i].byte>> : i \in {j \in 1 .. Len(moves) :
                                              moves[j].from = l /\ moves[j].byte # 0}}]

RunStep ==
  /\ Idle /\ ~AtTerm /\ step <= Len(Script)
  /\ \E op \in {Script[step]} :
        /\ Begin(op.moves, Tagged(Written(op), op.moves))
        /\ saved' = IF op.push # {} THEN [l \in op.push |-> mem[l]]
                    ELSE IF op.pop THEN <<>> ELSE saved
  /\ step' = step + 1
  /\ UNCHANGED <<allocVars, pc, defined>>

\* The instruction is done: byte k of its result is byte k of its register.
Finish ==
  LET d == Insts(pc[1])[pc[2]].def
  IN /\ Idle /\ ~AtTerm /\ step > Len(Script)
     /\ mem' = [l \in Location |->
                  {x \in mem[l] : x[1] \notin {0, d}}
                    \cup (IF d = 0 THEN {} ELSE {<<d, x[2]>> : x \in {y \in mem[l] : y[1] = 0}})]
     /\ defined' = defined \cup ({d} \ {0})
     /\ pc' = <<pc[1], pc[2] + 1>> /\ step' = 1
     /\ batch' = <<>> /\ start' = <<>>
     /\ UNCHANGED <<allocVars, pending, viaA, acc, saved>>

Jump ==
  /\ Idle /\ AtTerm
  /\ IF prog.blocks[pc[1]].succs = {} THEN pc' = Halted
     ELSE \E b \in prog.blocks[pc[1]].succs : pc' = <<b, 1>>
  /\ UNCHANGED <<allocVars, step, defined, saved, moveVars>>

\* Back in the caller.
Return == pc = Halted /\ step # 0 /\ UNCHANGED vars

Next ==
  \/ Allocate /\ UNCHANGED runVars
  \/ Enter \/ RunStep \/ Finish \/ Jump \/ Return
  \/ MakeMoves /\ UNCHANGED <<allocVars, pc, step, defined, saved>>

Spec == Init /\ [][Next]_vars

-----------------------------------------------------------------------------
Values == (0 .. Len(prog.size)) \X (1 .. 4)

TypeOK ==
  /\ Len(prog.blocks) > 0
  /\ phase \in {"live", "walk", "registers", "slots", "placed"}
  /\ \A b \in Blocks : liveIn[b] \subseteq V /\ liveOut[b] \subseteq V
  /\ \A v \in V : forbid[v] \subseteq Reg
  /\ \A v \in V : Range(locs[v]) \subseteq Location \cup {Spilled}
  /\ phase = "placed" => \A v \in V : Spilled \notin Range(locs[v])
  /\ pc # Halted => \A l \in Location : mem[l] \subseteq Values

\* What is read now: locations, and the bytes that must be in them.
Needed ==
  IF AtTerm THEN UNION {NeedAll(v) : v \in prog.blocks[pc[1]].uses}
  ELSE IF step <= Len(Script) THEN Script[step].needs ELSE {}

\* Whatever an instruction reads is the present value of its operand: between its
\* definition and the read, nothing that was given the same register or slot has
\* overwritten it, nor a call, nor the bytes of the result written so far
\* (alloc.rs:176).
ReadsRight == Idle => \A x \in Needed : x[2] \in defined => <<x[2], x[3]>> \in mem[x[1]]

\* Generic loads are of one byte.
NarrowGeneric ==
  \A p \in Programs : \A b \in 1 .. Len(p.blocks) : \A i \in 1 .. Len(p.blocks[b].insts) :
    p.blocks[b].insts[i].kind = "genload" => Width(p, p.blocks[b].insts[i].def) = 1

\* Wherever internal RAM is accessed through a pointer, R0 or R1 is free for it or
\* holds it already (alloc.rs:411): no live value has to be pushed.
PointerReady == (Idle /\ ~AtTerm /\ step <= Len(Script)) => Script[step].ready
=============================================================================
