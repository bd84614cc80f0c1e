---------------------------- MODULE Simultaneous ----------------------------
(***************************************************************************)
(* What par_move promises (src/cg/select.rs, par_move): a set of moves is  *)
(* made in one step, every source read before any destination is written.  *)
(***************************************************************************)
EXTENDS Naturals, Sequences

VARIABLES
  store,     (* what every location holds                                 *)
  moves      (* the moves asked for and not made yet; <<>> if there are none *)

\* Nothing is being moved: other code may write what it likes, and may ask for moves.
Other == moves = <<>>

\* Every destination gets what its source holds; nothing else changes.
MoveAll ==
  /\ moves # <<>> /\ moves' = <<>>
  /\ DOMAIN store' = DOMAIN store
  /\ \A i \in 1 .. Len(moves) : store'[moves[i].to] = store[moves[i].from]
  /\ \A l \in DOMAIN store :
       (\A i \in 1 .. Len(moves) : moves[i].to # l) => store'[l] = store[l]

Spec == moves = <<>> /\ [][Other \/ MoveAll]_<<store, moves>>
=============================================================================
