------------------------------ MODULE ParMove ------------------------------
(***************************************************************************)
(* Simultaneous moves (src/cg/select.rs, par_move): arguments into the     *)
(* registers of a callee, results out of them, copies of several bytes.    *)
(* All sources are meant to be read before any destination is written, but *)
(* the moves are made one by one: first any whose destination no other     *)
(* move still reads; when none is left, the moves form cycles, and the     *)
(* byte at one destination is saved in A.                                  *)
(***************************************************************************)
EXTENDS Naturals, Sequences, FiniteSets

VARIABLES
  mem,       (* what every location holds                                 *)
  batch,     (* the moves being made, as they were asked for              *)
  start,     (* what the locations held then                              *)
  pending,   (* the moves of batch still to be made                       *)
  viaA,      (* those of them that wait for A instead of their source     *)
  acc        (* what A holds                                              *)

moveVars == <<mem, batch, start, pending, viaA, acc>>

\* A move from a location to itself is none.
Begin(moves, m0) ==
  /\ mem' = m0 /\ start' = IF moves = <<>> THEN <<>> ELSE m0
  /\ batch' = moves
  /\ pending' = {i \in 1 .. Len(moves) : moves[i].to # moves[i].from}
  /\ viaA' = {} /\ UNCHANGED acc

\* Fault for NeverNested: moves that wait for A still count as readers.
FreeStale(i) == \A j \in pending \ {i} : batch[j].from # batch[i].to

\* Fault for AtOnce: the first move is made whoever reads its destination.
FreeAlways(i) == TRUE

\* Move i is not needed by any other: nothing reads its destination.
Free(i) == \A j \in pending \ {i} : j \in viaA \/ batch[j].from # batch[i].to

\* acc_holds: A holds a byte that some move waits for.
AccHeld == viaA # {}

MoveFree ==
  \E i \in pending :
    /\ Free(i) /\ \A j \in pending : j < i => ~Free(j)
    /\ mem' = [mem EXCEPT ![batch[i].to] =
                 IF i \in viaA THEN acc ELSE mem[batch[i].from]]
    /\ pending' = pending \ {i} /\ viaA' = viaA \ {i}
    /\ UNCHANGED <<batch, start, acc>>

Stuck == pending # {} /\ \A i \in pending : ~Free(i)

\* The moves that read location l.
Readers(l) == {r \in pending \ viaA : batch[r].from = l}

\* Save the destination of the first move in A; who reads it reads A instead.
BreakCycle ==
  /\ Stuck /\ ~AccHeld
  /\ \E first \in pending :
        /\ \A j \in pending : first <= j
        /\ acc' = mem[batch[first].to]
        /\ viaA' = viaA \cup Readers(batch[first].to)
  /\ UNCHANGED <<mem, batch, start, pending>>

MakeMoves == MoveFree \/ BreakCycle

-----------------------------------------------------------------------------
Store == IF pending = {} THEN mem ELSE start
Asked == IF pending = {} THEN <<>> ELSE batch
AsOne == INSTANCE Simultaneous WITH store <- Store, moves <- Asked

\* The moves of a batch, however many steps they take and whichever bytes pass through A,
\* are one step of Simultaneous: until the last is made the others see the old contents.
AtOnce == AsOne!Spec

\* select.rs:783 asserts that no cycle is met while A holds a byte.
NeverNested == Stuck => ~AccHeld
=============================================================================
