------------------------------ MODULE RegAlloc ------------------------------
(***************************************************************************)
(* Register and slot allocation of one function (src/cg/alloc.rs, with the *)
(* liveness of src/opt/dataflow.rs).                                       *)
(*                                                                         *)
(* A backward walk over every block finds which virtual registers are live *)
(* after each instruction, and from that which of them must not share a    *)
(* location ("interfere"), which may share one only at the same byte       *)
(* position, which machine registers each must keep off, and where a       *)
(* pointer register (R0 or R1) is needed.  Then every byte of every        *)
(* virtual register gets a register or a slot of the frame.  The order of  *)
(* the assignment and the preferences of the code are heuristics: here any *)
(* order and any allowed register may be taken, or none.                   *)
(*                                                                         *)
(* What the function then does in these locations is in RegAllocRun.       *)
(***************************************************************************)
EXTENDS Naturals, Sequences, FiniteSets, FiniteSetsExt, Functions

CONSTANTS
  Registers,   (* number of machine registers: 8                           *)
  Slots,       (* bound on the slots of the frame                          *)
  Others,      (* bound on its bits and on the shared argument bytes       *)
  Programs     (* the functions considered: see IsProgram                  *)

Reg == 0 .. Registers - 1
PtrReg == {0, 1}

R(n) == <<"reg", n>>
Slot(n) == <<"slot", n>>
Bit(n) == <<"bit", n>>
Arg(n) == <<"arg", n>>
A == <<"a", 0>>
K(n) == <<"const", n>>    \* byte n of a constant, as a source of moves

Location ==
  {R(n) : n \in Reg} \cup {A} \cup {K(n) : n \in 1 .. 4}
    \cup {Slot(n) : n \in 0 .. Slots - 1}
    \cup {Bit(n) : n \in 0 .. Others - 1} \cup {Arg(n) : n \in 0 .. Others - 1}

\* A byte without a register: slot u16::MAX in the code.
Spilled == Slot(Slots)

(***************************************************************************)
(* Instructions.  Operand 0 is a constant.  "same": goes from byte to byte  *)
(* of operands of the result's type; "left" and "right": shifts of two     *)
(* bytes by three to seven bits; "shift": by a variable; "any": all        *)
(* operands are read before the result is written; "load": from memory     *)
(* that DPTR points to; "ptrload" and "ptrstore": through R0 or R1;        *)
(* "genload": through a generic pointer; "helper": an operation that calls *)
(* the runtime library; "use": anything without a result.                  *)
(***************************************************************************)
Bytewise == {"copy", "same", "left", "right", "shift", "helper"}
Loads == {"load", "genload", "ptrload"}
Kind == Bytewise \cup Loads \cup
          {"any", "ext", "sext", "trunc", "ptrstore", "call", "asm", "use"}

\* Where a parameter can be passed, and a result returned: A stands for the carry too.
ArgLocation == {R(n) : n \in Reg} \cup {Arg(n) : n \in 0 .. Others - 1}
RetLocation == {R(n) : n \in Reg} \cup {A}

Summary == [params : Seq(Seq(ArgLocation)), ret : Seq(RetLocation),
            clobbers : SUBSET Reg, recursive : BOOLEAN]
Insn == [kind : Kind, def : Nat, uses : Seq(Nat), callee : Summary]
Block == [insts : Seq(Insn), uses : SUBSET Nat, succs : SUBSET Nat]

Width(p, v) == IF p.size[v] = 0 THEN 1 ELSE p.size[v]

\* No location occurs twice in a list of lists of them.
AllApart(ls) ==
  \A i, j \in DOMAIN ls : \A k \in DOMAIN ls[i], l \in DOMAIN ls[j] :
    ls[i][k] = ls[j][l] => i = j /\ k = l

\* Arguments have their places, the result as many bytes as it is stored in.
CalleeFits(p, ins) ==
  LET s == ins.callee
  IN /\ Len(s.params) <= Len(ins.uses)
     /\ \A i \in 1 .. Len(s.params) :
          Len(s.params[i]) <= IF ins.uses[i] = 0 THEN 4 ELSE Width(p, ins.uses[i])
     /\ AllApart(s.params)
     /\ Len(s.ret) <= 4 /\ (ins.def # 0 => Len(s.ret) = Width(p, ins.def))

\* The operands and the result that an instruction of each kind has, and their sizes.
IsTyped(p, ins) ==
  LET d == ins.def
      a == ins.uses[1]
      is(S) == ins.kind \in S
  IN /\ is({"asm", "use", "ptrstore"}) => d = 0
     /\ d = 0 => is({"asm", "use", "ptrstore", "call", "helper"})
     /\ is({"copy", "left", "right", "ext", "sext", "trunc", "genload", "ptrload"}) => Len(ins.uses) = 1
     /\ is({"shift", "ptrstore"}) => Len(ins.uses) = 2
     /\ is({"copy", "same", "left", "right"}) => \A u \in Range(ins.uses) \ {0} : p.size[u] = p.size[d]
     /\ is({"left", "right"}) => p.size[d] = 2
     /\ is({"shift"}) /\ a # 0 => p.size[a] = p.size[d]
     /\ is({"ext", "sext"}) => a # 0 /\ Width(p, a) <= Width(p, d)
     /\ is({"sext"}) => Width(p, a) # Width(p, d)
     /\ is({"trunc"}) /\ a # 0 => Width(p, d) <= Width(p, a)
     /\ is({"ptrload", "ptrstore"}) /\ a # 0 => p.size[a] = 1
     /\ is({"call", "helper"}) => CalleeFits(p, ins)

\* Parameters that have fixed locations are read by the copies which the function begins
\* with, and by nothing else (split_params of program.rs).
IsSplit(p) ==
  \A v \in Range(p.params) : \A b \in 1 .. Len(p.blocks) :
    /\ v \notin p.blocks[b].uses
    /\ \A i \in 1 .. Len(p.blocks[b].insts) :
         /\ p.blocks[b].insts[i].def # v
         /\ v \in Range(p.blocks[b].insts[i].uses) =>
              b = 1 /\ \A j \in 1 .. i : p.blocks[1].insts[j].kind = "copy"

\* A function: the size of every virtual register (0: one bit), its parameters,
\* their fixed locations if it has any, whether it is recursive and so keeps bits
\* in bytes (no_bit_slots), and its blocks, of which no one jumps to the first.
IsProgram(p) ==
  /\ p.size \in Seq(0 .. 4)
  /\ p.params \in Seq(1 .. Len(p.size))
  /\ p.fixed \in Seq(Seq(ArgLocation)) /\ Len(p.fixed) \in {0, Len(p.params)}
  /\ p.fixed # <<>> =>
       /\ \A i \in 1 .. Len(p.params) : Len(p.fixed[i]) = Width(p, p.params[i])
       /\ AllApart(p.fixed) /\ IsSplit(p)
  /\ p.recursive \in BOOLEAN
  /\ p.blocks \in Seq(Block) /\ p.blocks # <<>>
  /\ \A b \in 1 .. Len(p.blocks) :
       /\ p.blocks[b].succs \subseteq 2 .. Len(p.blocks)
       /\ p.blocks[b].uses \subseteq                    \* read by its terminator
            (Range(p.params) \cup {i.def : i \in UNION {Range(c.insts) : c \in Range(p.blocks)}}) \ {0}
       /\ \A i \in 1 .. Len(p.blocks[b].insts) :
            LET ins == p.blocks[b].insts[i]
            IN /\ ins.def \in 0 .. Len(p.size)
               /\ \A u \in 1 .. Len(ins.uses) : ins.uses[u] \in 0 .. Len(p.size)
               /\ IsTyped(p, ins)

ASSUME ConstantsAssumption ==
  /\ Registers \in Nat /\ PtrReg \subseteq Reg /\ Slots \in Nat /\ Others \in Nat
  /\ \A p \in Programs : IsProgram(p)

VARIABLES
  prog,      (* the function; never changes                               *)
  phase,     (* "live", "walk", "registers", "slots", "placed"            *)
  unswept,   (* blocks that the sweep of liveness has not visited yet      *)
  changed,   (* the sweep has changed something                           *)
  liveIn,    (* live at the beginning of every block                      *)
  liveOut,   (* live at its end                                           *)
  at,        (* block and instruction of the walk                         *)
  live,      (* l: live behind the instruction `at`                       *)
  after,     (* live_after, for the blocks walked so far                  *)
  interf,    (* pairs that interfere                                      *)
  aligned,   (* pairs that may share a location at the same byte only     *)
  forbid,    (* registers that each virtual register must keep off        *)
  sites,     (* ptr_sites: where a pointer register is needed             *)
  locs,      (* the location of every byte                                *)
  todo       (* virtual registers still without registers, or slots       *)

liveVars == <<unswept, changed, liveIn, liveOut>>
walkVars == <<live, after, interf, aligned, forbid, sites>>
assignVars == <<locs, todo>>
allocVars == <<prog, phase, liveVars, at, walkVars, assignVars>>

V == 1 .. Len(prog.size)
Blocks == 1 .. Len(prog.blocks)
Insts(b) == prog.blocks[b].insts
Uses(ins) == Range(ins.uses) \ {0}
Params == Range(prog.params)
Bytes(v) == Width(prog, v)
HasBit(v) == prog.size[v] = 0 /\ ~prog.recursive

-----------------------------------------------------------------------------
(***************************************************************************)
(* Liveness: sweeps over the reachable blocks until nothing changes.       *)
(***************************************************************************)
Reachable ==
  {b \in Blocks : \A S \in SUBSET Blocks :
     (1 \in S /\ \A c \in S : prog.blocks[c].succs \subseteq S) => b \in S}

\* Read in block b before it is written there.
Gen(b) ==
  LET defsTo(n) == {Insts(b)[j].def : j \in 1 .. n}
  IN (UNION {Uses(Insts(b)[i]) \ defsTo(i - 1) : i \in 1 .. Len(Insts(b))})
       \cup (prog.blocks[b].uses \ defsTo(Len(Insts(b))))
Kill(b) == {Insts(b)[j].def : j \in 1 .. Len(Insts(b))}

OutOf(b) == UNION {liveIn[s] : s \in prog.blocks[b].succs}
InOf(b) == (OutOf(b) \ Kill(b)) \cup Gen(b)

AllocInit ==
  /\ prog \in Programs
  /\ phase = "live"
  /\ unswept = Reachable /\ changed = FALSE
  /\ liveIn = [b \in Blocks |-> {}] /\ liveOut = [b \in Blocks |-> {}]
  /\ at = <<1, 0>>
  /\ live = {} /\ after = [b \in Blocks |-> <<>>]
  /\ interf = {} /\ aligned = {} /\ forbid = [v \in V |-> {}]
  /\ sites = {}
  /\ locs = [v \in V |-> <<>>] /\ todo = {}

Sweep(b) ==
  /\ phase = "live" /\ b \in unswept
  /\ unswept' = unswept \ {b}
  /\ liveOut' = [liveOut EXCEPT ![b] = OutOf(b)]
  /\ liveIn' = [liveIn EXCEPT ![b] = InOf(b)]
  /\ changed' = (changed \/ InOf(b) # liveIn[b])
  /\ UNCHANGED <<prog, phase, at, walkVars, assignVars>>

\* The instruction behind which the walk of block b begins.
StartOf(b) == <<b, Len(Insts(b))>>
LiveBeforeTerm(b) == liveOut[b] \cup prog.blocks[b].uses

StartWalk ==
  /\ phase' = "walk" /\ at' = StartOf(1) /\ live' = LiveBeforeTerm(1)
  /\ after' = [b \in Blocks |-> [i \in 1 .. Len(Insts(b)) + 1 |->
                 IF i = Len(Insts(b)) + 1 THEN liveOut[b] ELSE {}]]
  /\ UNCHANGED <<interf, aligned, forbid, sites, unswept, changed>>

\* Fault for Settled: one sweep is taken to be enough.
NotSettledEver == FALSE

NotSettled == changed

EndSweep ==
  /\ phase = "live" /\ unswept = {}
  /\ IF NotSettled
     THEN unswept' = Reachable /\ changed' = FALSE /\ UNCHANGED <<phase, at, walkVars>>
     ELSE StartWalk
  /\ UNCHANGED <<prog, liveIn, liveOut, assignVars>>

-----------------------------------------------------------------------------
(***************************************************************************)
(* The walk.                                                               *)
(***************************************************************************)
Pairs(v, S) == {{v, x} : x \in S \ {v}}

\* The source of a copy, which may be live and share the copy's location.
Exempt(ins) == IF ins.kind = "copy" THEN Uses(ins) ELSE {}

\* The operands of an instruction whose result has several bytes: result bytes
\* are written while operand bytes are still read.
Overlapped(ins) ==
  IF ins.def # 0 /\ Bytes(ins.def) > 1
       /\ ins.kind \notin Loads \cup {"call"}
  THEN Uses(ins) \ {ins.def} ELSE {}

\* Those of them that may share a location at the same byte position.
Alignable(ins) ==
  {u \in Overlapped(ins) :
     /\ ins.kind \in Bytewise
     /\ prog.size[u] = prog.size[ins.def]}

\* inst_clobbers: what the instruction may change of the values that live
\* across it.
Clobbers(ins) ==
  CASE ins.kind = "call" ->
         ins.callee.clobbers
           \cup {n \in Reg : R(n) \in UNION {Range(pl) : pl \in Range(ins.callee.params)}}
           \cup {n \in Reg : R(n) \in Range(ins.callee.ret)}
    [] ins.kind \in {"asm", "helper"} -> Reg
    [] OTHER -> {}

\* Fault for ReadsRight: a value survives in any register it was passed in.
KeepsResult(ins, v) ==
  IF ins.kind # "call" THEN {}
  ELSE {n \in Reg : \E i \in 1 .. Len(ins.uses) :
          /\ ins.uses[i] = v /\ prog.size[v] = 1
          /\ i <= Len(ins.callee.params) /\ ins.callee.params[i] = <<R(n)>>}

\* The register of a parameter that the callee leaves alone: a value passed in
\* it survives there.
Keeps(ins, v) ==
  IF ins.kind # "call" THEN {}
  ELSE {n \in Reg \ ins.callee.clobbers :
          \E i \in 1 .. Len(ins.uses) :
            /\ ins.uses[i] = v /\ prog.size[v] = 1
            /\ i <= Len(ins.callee.params) /\ ins.callee.params[i] = <<R(n)>>
            /\ \A j \in 1 .. Len(ins.callee.params) :
                 j # i => R(n) \notin Range(ins.callee.params[j])
            /\ R(n) \notin Range(ins.callee.ret)}

\* Where a pointer register is needed, who may have R0 or R1 then: `base` can be
\* used in place, the others are in the way.
Site(ins, across) ==
  IF ins.kind \in {"ptrload", "ptrstore"}
  THEN {[base |-> ins.uses[1],
         live |-> across \cup ({ins.def} \ {0}) \cup (Uses(ins) \ {ins.uses[1]})]}
  ELSE {}

WalkInst ==
  LET ins == Insts(at[1])[at[2]]
      d == {ins.def} \ {0}
      across == live \ d
  IN /\ phase = "walk" /\ at[2] > 0
     /\ after' = [after EXCEPT ![at[1]][at[2]] = live]
     /\ interf' = interf \cup UNION {Pairs(v, live \ Exempt(ins))
                                       \cup Pairs(v, Overlapped(ins) \ Alignable(ins)) : v \in d}
     /\ aligned' = aligned \cup UNION {Pairs(v, Alignable(ins)) : v \in d}
     /\ forbid' = [v \in V |-> IF v \in across
                               THEN forbid[v] \cup (Clobbers(ins) \ Keeps(ins, v))
                               ELSE forbid[v]]
     /\ sites' = sites \cup Site(ins, across)
     /\ live' = across \cup Uses(ins)
     /\ at' = <<at[1], at[2] - 1>>
     /\ UNCHANGED <<prog, phase, liveVars, assignVars>>

WalkNext ==
  /\ phase = "walk" /\ at[2] = 0 /\ at[1] < Len(prog.blocks)
  /\ at' = StartOf(at[1] + 1) /\ live' = LiveBeforeTerm(at[1] + 1)
  /\ UNCHANGED <<prog, phase, liveVars, after, interf, aligned, forbid, sites, assignVars>>

EverLive ==
  {v \in V :
     \/ v \in Params
     \/ \E b \in Blocks : \E i \in 1 .. Len(Insts(b)) :
          v = Insts(b)[i].def \/ v \in Uses(Insts(b)[i])}

LiveAtEntry ==
  IF Insts(1) = <<>> THEN LiveBeforeTerm(1)
  ELSE (after[1][1] \ {Insts(1)[1].def}) \cup Uses(Insts(1)[1])

FixedLoc(v) ==
  IF v \in Params /\ prog.fixed # <<>>
  THEN prog.fixed[CHOOSE i \in 1 .. Len(prog.params) : prog.params[i] = v]
  ELSE <<>>
Movable(v) == v \in EverLive /\ (v \in Params => prog.fixed = <<>>)

\* Fault for ReadsRight: a parameter that is never read interferes with nothing.
EntryPairsLive == UNION {Pairs(p, LiveAtEntry) : p \in LiveAtEntry}

\* Parameters are defined at the entry: they interfere with what is live there
\* and with each other.
EntryPairs == UNION {Pairs(p, LiveAtEntry \cup Params) : p \in Params}

\* Parameters with fixed locations have them from now on.
EndWalk ==
  /\ phase = "walk" /\ at = <<Len(prog.blocks), 0>>
  /\ interf' = interf \cup EntryPairs
  /\ locs' = [v \in V |-> FixedLoc(v)]
  /\ todo' = {v \in V : Movable(v) /\ ~HasBit(v)}
  /\ phase' = "registers"
  /\ UNCHANGED <<prog, liveVars, at, live, after, aligned, forbid, sites>>

-----------------------------------------------------------------------------
(***************************************************************************)
(* Assignment.                                                             *)
(***************************************************************************)
Soft(v) == {u \in V : {u, v} \in aligned /\ {u, v} \notin interf /\ u # v}
Hard(v) == {u \in V : {u, v} \in interf /\ u # v}

RegsOf(S) == {n \in Reg : \E u \in S : R(n) \in Range(locs[u])}

\* Fault for ReadsRight: aligned pairs share any byte.
TakenHard(v, k) == forbid[v] \cup RegsOf(Hard(v))

\* Registers that byte k of v must not have.
Taken(v, k) ==
  forbid[v] \cup RegsOf(Hard(v))
    \cup {n \in Reg : \E u \in Soft(v) : \E j \in 1 .. Len(locs[u]) :
            j # k /\ locs[u][j] = R(n)}

\* Fault for PointerReady: the bytes of v itself are not looked at.
OtherTakenElse(s, v, k, choice, other) == other \in RegsOf(s.live \ {v})

\* At s, the other pointer register is taken by v itself or something else.
OtherTaken(s, v, k, choice, other) ==
  (\E j \in 1 .. k - 1 : choice[j] = R(other)) \/ other \in RegsOf(s.live \ {v})

\* Byte k of v keeps off R0 or R1 if the other one is taken where a pointer
\* register is needed, unless the pointer is in one of them itself.
Blocked(v, k, choice) ==
  \E r \in PtrReg :
    /\ choice[k] = R(r)
    /\ \E s \in sites :
         /\ v \in s.live
         /\ s.base # v
         /\ s.base = 0 \/ locs[s.base] = <<>> \/ locs[s.base][1] \notin {R(0), R(1)}
         /\ OtherTaken(s, v, k, choice, 1 - r)

\* Every byte of v gets a register of its own, or none.
AssignRegisters(v) ==
  /\ phase = "registers" /\ v \in todo
  /\ \E choice \in [1 .. Bytes(v) -> {R(n) : n \in Reg} \cup {Spilled}] :
       /\ \A k \in 1 .. Bytes(v) :
            ~Blocked(v, k, choice) /\ \A n \in Taken(v, k) : choice[k] # R(n)
       /\ \A j, k \in 1 .. Bytes(v) : j # k /\ choice[j] = choice[k] => choice[j] = Spilled
       /\ locs' = [locs EXCEPT ![v] = choice]
  /\ todo' = todo \ {v}
  /\ UNCHANGED <<prog, phase, liveVars, at, walkVars>>

EndRegisters ==
  /\ phase = "registers" /\ todo = {}
  /\ phase' = "slots"
  /\ todo' = {v \in V : Movable(v)}
  /\ UNCHANGED <<prog, liveVars, at, walkVars, locs>>

\* Slots that byte k of v must not have.
SlotsTaken(v, k) ==
  {n \in 0 .. Slots - 1 :
     \/ \E u \in Hard(v) \cup {v} : Slot(n) \in Range(locs[u])
     \/ \E u \in Soft(v) : \E j \in 1 .. Len(locs[u]) : j # k /\ locs[u][j] = Slot(n)}

\* Those of `free` that byte k can have when the bytes before it have theirs.
FreeSlots(k, free, place) == {n \in free[k] : \A j \in 1 .. k - 1 : place[j] # Slot(n)}

\* Fault for TypeOK: bytes without a register are left without a slot.
PlacedNot(v, free, place) == place = locs[v]

\* The first free slot for every byte without a register (none if all Slots are taken).
Placed(v, free, place) ==
  \A k \in 1 .. Bytes(v) :
    IF locs[v][k] # Spilled THEN place[k] = locs[v][k]
    ELSE \E n \in FreeSlots(k, free, place) :
           place[k] = Slot(n) /\ \A m \in FreeSlots(k, free, place) : n <= m

\* The first free bit for a value of one bit.
FreeBits(v) == {s \in 0 .. Others - 1 : \A u \in Hard(v) : locs[u] # <<Bit(s)>>}

AssignSlots(v) ==
  /\ phase = "slots" /\ v \in todo
  /\ IF HasBit(v)
     THEN \E s \in FreeBits(v) :
            (\A t \in FreeBits(v) : s <= t) /\ locs' = [locs EXCEPT ![v] = <<Bit(s)>>]
     ELSE \E free \in {[k \in 1 .. Bytes(v) |-> (0 .. Slots - 1) \ SlotsTaken(v, k)]} :
          \E place \in [1 .. Bytes(v) -> Range(locs[v]) \cup {Slot(n) : n \in 0 .. Slots - 1}] :
            Placed(v, free, place) /\ locs' = [locs EXCEPT ![v] = place]
  /\ todo' = todo \ {v}
  /\ UNCHANGED <<prog, phase, liveVars, at, walkVars>>

EndSlots ==
  /\ phase = "slots" /\ todo = {}
  /\ phase' = "placed"
  /\ UNCHANGED <<prog, liveVars, at, walkVars, assignVars>>

Allocate ==
  \/ \E b \in Blocks : Sweep(b)
  \/ EndSweep \/ WalkInst \/ WalkNext \/ EndWalk
  \/ \E v \in V : AssignRegisters(v) \/ AssignSlots(v)
  \/ EndRegisters \/ EndSlots

-----------------------------------------------------------------------------
\* When the sweeps end (dataflow.rs:150), every reachable block has the values
\* live at its beginning that it and its successors ask for: a value needed only
\* around a loop is not forgotten.
Settled ==
  phase # "live" =>
    \A b \in Reachable : liveOut[b] = OutOf(b) /\ liveIn[b] = InOf(b)
=============================================================================
