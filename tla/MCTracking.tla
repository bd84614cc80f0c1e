----------------------------- MODULE MCTracking -----------------------------
(***************************************************************************)
(* A small machine for Tracking: bytes of two bits.  Cells are numbers:    *)
(* R0 and R1 are 0 and 1, two bytes of RAM 10 and 11 (at addresses 2 and   *)
(* 3), an SFR 20, a bit of RAM 30, a bit of an SFR 31; 40 is R1 as a       *)
(* direct address, 50 a symbol of external RAM.                            *)
(***************************************************************************)
EXTENDS Tracking, TLC

MCAt == (2 :> 10) @@ (3 :> 11)
MCWindow == (40 :> 1)

\* The symbol lies across the carry into the high byte of its address.
MCWhere == [e \in Expr |-> <<(3 + e[2]) % M, IF e[2] = 0 THEN 0 ELSE 1>>]

\* The constants the facts compare most: zero, and one that a register may hold.
MCImmediate == {K(0), K(1)}

\* A pointer to external RAM, half in RAM and half in a register.
MCWords == {<<10, 1>>}

\* A sum, a complement and the low byte of a word; the first two are stored
\* through pointers.
MCTrees == {<<"add", L(10), L(0)>>, <<"not", L(11)>>, <<"low", L(1)>>}
MCStored == {t \in MCTrees : t[1] # "low"}

\* R0 points to 10 at offset 0 and to 11 at offset 1 or 5.
MCStart == {[a |-> 0, b |-> 0, c |-> 0, dptr |-> <<0, 0>>,
   cell |-> (0 :> 2) @@ (1 :> 1) @@ (10 :> 3) @@ (11 :> 0) @@ (20 :> 1) @@ (30 :> 1) @@ (31 :> 1)]}
=============================================================================
