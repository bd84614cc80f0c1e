------------------------------- MODULE Relax -------------------------------
(***************************************************************************)
(* The linker (src/link.rs): placing code sections, branch relaxation, the *)
(* overlap check and encoding.                                             *)
(*                                                                         *)
(* Every jump and call starts in its shortest form.  A pass walks all      *)
(* items and gives them addresses, then looks at every jump: one that does *)
(* not reach its target from there gets a longer form.  Passes repeat      *)
(* until nothing changes, or until a fixed number of them was made.  The   *)
(* sections, sorted by address, must then not overlap, and each            *)
(* instruction is encoded at its address.                                  *)
(*                                                                         *)
(* A conditional jump that cannot reach becomes a conditional jump around  *)
(* (or, where the condition has no inverse, to) a far jump, which is an    *)
(* ajmp if the target is in the 2K page of the instruction behind it.      *)
(***************************************************************************)
EXTENDS Naturals, Sequences, FiniteSets

CONSTANTS
  Programs,       (* the programs considered: see IsProgram               *)
  Sections,       (* number of code sections                              *)
  Page,           (* bytes an ajmp or acall can address: 2048             *)
  Pages,          (* pages in the code space: 32                          *)
  Back, Ahead,    (* reach of a relative jump: 128 and 127                *)
  CodeStart,      (* address of the first relocatable section             *)
  CodeEnd,        (* end of the code memory                               *)
  MaxIterations   (* passes the relaxation makes at most, less one: 100   *)

Section == 1 .. Sections

(***************************************************************************)
(* The items of all sections in one sequence.  An item stands for a label  *)
(* or none (0), a jump or none, and the `tail` bytes of data and of other  *)
(* instructions behind it, whose size is fixed.  `len` is the size of a    *)
(* conditional jump in its short form, `over` that of the sjmp with which  *)
(* a condition that has no inverse skips its far jump (jbc, cjne, djnz).   *)
(***************************************************************************)
Item == [sec : Section, label : Nat, kind : {"none", "jmp", "call", "cond"},
         len : {2, 3}, over : {0, 2}, target : Nat, tail : Nat]

\* Sections lie one behind the other in the sequence of items; `fixed` ones
\* have an origin, `absolute` ones were given it by the program; `syms` holds
\* the symbols known before linking.
IsProgram(p) ==
  /\ p.items \in Seq(Item)
  /\ \A j, k \in 1 .. Len(p.items) : j <= k => p.items[j].sec <= p.items[k].sec
  /\ p.fixed \in [Section -> BOOLEAN]
  /\ p.org \in [Section -> Nat]
  /\ p.absolute \in [Section -> BOOLEAN]
  /\ DOMAIN p.syms \subseteq Nat /\ \A x \in DOMAIN p.syms : p.syms[x] \in Nat

ASSUME ConstantsAssumption ==
  /\ Sections \in Nat
  /\ Page \in Nat \ {0} /\ Pages \in Nat \ {0}
  /\ Back \in Nat /\ Ahead \in Nat
  /\ CodeStart \in Nat /\ CodeEnd \in Nat /\ MaxIterations \in Nat

ASSUME ProgramsAssumption == \A p \in Programs : IsProgram(p)

VARIABLES
  prog,        (* the program being linked; never changes                 *)
  phase,       (* the stage the linker has reached                        *)
  iterations,  (* number of the current pass                              *)
  pos,         (* next item of the address pass                           *)
  pc,          (* address of that item                                    *)
  freePc,      (* where the next relocatable section goes                 *)
  cur,         (* section of the last item; 0 before the first            *)
  addr,        (* address of every item                                   *)
  lo, hi,      (* bounds of every section                                 *)
  syms,        (* value of every symbol                                   *)
  reach,       (* form of every jump                                      *)
  settled      (* history: the last pass changed no form                  *)

passVars == <<pos, pc, freePc, cur>>
vars == <<prog, phase, iterations, passVars, addr, lo, hi, syms, reach, settled>>

Items == prog.items
Index == 1 .. Len(Items)
Relaxable(k) == Items[k].kind # "none"

\* Bytes the jump of item `it` takes in form r.
JumpSize(it, r) ==
  CASE it.kind = "none" -> 0
    [] it.kind \in {"jmp", "call"} -> IF r = "Long" THEN 3 ELSE 2
    [] it.kind = "cond" -> it.len + (CASE r = "Long" -> it.over + 3
                                       [] r = "CondAbs" -> it.over + 2
                                       [] OTHER -> 0)

JumpEnd(k) == addr[k] + JumpSize(Items[k], reach[k])
ItemEnd(k) == JumpEnd(k) + Items[k].tail

\* Targets a relative jump, or a jump within the page, reaches when the
\* instruction behind it is at `after`.
RelFits(t, after) == after <= t + Back /\ t <= after + Ahead
SamePage(t, after) == (t \div Page) % Pages = (after \div Page) % Pages

-----------------------------------------------------------------------------
FirstReach(k) == IF Items[k].kind = "call" THEN "Abs11" ELSE "Short"

Init ==
  /\ prog \in Programs
  /\ phase = "place"
  /\ iterations = 1
  /\ pos = 1 /\ pc = CodeStart /\ freePc = CodeStart /\ cur = 0
  /\ addr = [k \in Index |-> 0]
  /\ lo = [s \in Section |-> 0]
  /\ hi = [s \in Section |-> 0]
  /\ syms = prog.syms
  /\ reach = [k \in Index |-> FirstReach(k)]
  /\ settled = FALSE

Assign(x, v) == [y \in DOMAIN syms \cup {x} |-> IF y = x THEN v ELSE syms[y]]

\* The next item goes to pc.  The first item of a section moves pc to the
\* section's origin or behind the last relocatable section; sections that the
\* program placed itself do not move the others.
PlaceItem ==
  /\ phase = "place" /\ pos \in Index
  /\ LET s == Items[pos].sec
         entered == s # cur
         left == entered /\ cur # 0
         free == IF left /\ ~prog.absolute[cur] THEN pc ELSE freePc
         at == CASE ~entered -> pc
                 [] entered /\ prog.fixed[s] -> prog.org[s]
                 [] OTHER -> free
     IN /\ freePc' = IF entered /\ ~prog.absolute[s] THEN at ELSE free
        /\ lo' = IF entered THEN [lo EXCEPT ![s] = at] ELSE lo
        /\ hi' = IF left THEN [hi EXCEPT ![cur] = pc] ELSE hi
        /\ cur' = s
        /\ addr' = [addr EXCEPT ![pos] = at]
        /\ syms' = IF Items[pos].label # 0
                   THEN Assign(Items[pos].label, at) ELSE syms
        /\ pc' = at + JumpSize(Items[pos], reach[pos]) + Items[pos].tail
  /\ pos' = pos + 1
  /\ UNCHANGED <<prog, phase, iterations, reach, settled>>

EndPass ==
  /\ phase = "place" /\ pos \notin Index
  /\ hi' = IF cur = 0 THEN hi ELSE [hi EXCEPT ![cur] = pc]
  /\ phase' = "reach"
  /\ UNCHANGED <<prog, iterations, passVars, addr, lo, syms, reach, settled>>

\* Fault for EncodeFits: the page is that of the jump itself.
FitsFromStart(k) ==
  LET t == syms[Items[k].target]
      kind == Items[k].kind
  IN \/ kind \in {"call", "jmp"} /\ SamePage(t, addr[k])
     \/ kind = "jmp" /\ RelFits(t, JumpEnd(k))
     \/ kind = "cond" /\ reach[k] = "Short" /\ RelFits(t, JumpEnd(k))
     \/ kind = "cond" /\ reach[k] = "CondAbs" /\ SamePage(t, addr[k])

Fits(k) ==
  LET t == syms[Items[k].target]
      kind == Items[k].kind
  IN \/ kind \in {"call", "jmp"} /\ SamePage(t, JumpEnd(k))
     \/ kind = "jmp" /\ RelFits(t, JumpEnd(k))
     \/ kind = "cond" /\ reach[k] = "Short" /\ RelFits(t, JumpEnd(k))
     \/ kind = "cond" /\ reach[k] = "CondAbs" /\ SamePage(t, JumpEnd(k))

\* Fault for Paid: a call that fits again gets its short form back.
WidenedBack(k) ==
  CASE Items[k].kind = "call" ->
         IF SamePage(syms[Items[k].target], addr[k] + 2) THEN "Abs11" ELSE "Long"
    [] ~Relaxable(k) \/ reach[k] = "Long" \/ Fits(k) -> reach[k]
    [] OTHER -> "Long"

\* Fault for TypeOK: any jump may get the middle form of a conditional.
WidenedToAny(k) ==
  CASE ~Relaxable(k) \/ reach[k] = "Long" \/ Fits(k) -> reach[k]
    [] OTHER ->
         IF /\ reach[k] = "Short"
            /\ SamePage(syms[Items[k].target], JumpEnd(k) + 2)
         THEN "CondAbs" ELSE "Long"

\* The form of jump k after a pass.
Widened(k) ==
  CASE ~Relaxable(k) \/ reach[k] = "Long" \/ Fits(k) -> reach[k]
    [] OTHER ->
         IF /\ Items[k].kind = "cond" /\ reach[k] = "Short"
            /\ SamePage(syms[Items[k].target], JumpEnd(k) + 2)
         THEN "CondAbs" ELSE "Long"

\* Jumps whose target the pass looks up.
Pending == {k \in Index : Relaxable(k) /\ reach[k] # "Long"}

\* Fault for Apart: growing to the middle form does not count as a change.
CheckReachMissed ==
  /\ phase = "reach"
  /\ \A k \in Pending : Items[k].target \in DOMAIN syms
  /\ reach' = [k \in Index |-> Widened(k)]
  /\ settled' = (\A k \in Index : reach'[k] \in {reach[k], "CondAbs"})
  /\ IF settled' \/ iterations > MaxIterations
     THEN phase' = "sections" /\ UNCHANGED <<iterations, passVars>>
     ELSE /\ phase' = "place"
          /\ iterations' = iterations + 1
          /\ pos' = 1 /\ pc' = CodeStart /\ freePc' = CodeStart /\ cur' = 0
  /\ UNCHANGED <<prog, addr, lo, hi, syms>>

CheckReach ==
  /\ phase = "reach"
  /\ \A k \in Pending : Items[k].target \in DOMAIN syms
  /\ reach' = [k \in Index |-> Widened(k)]
  /\ settled' = (reach' = reach)
  /\ IF settled' \/ iterations > MaxIterations
     THEN phase' = "sections" /\ UNCHANGED <<iterations, passVars>>
     ELSE /\ phase' = "place"
          /\ iterations' = iterations + 1
          /\ pos' = 1 /\ pc' = CodeStart /\ freePc' = CodeStart /\ cur' = 0
  /\ UNCHANGED <<prog, addr, lo, hi, syms>>

UndefinedSymbol ==
  /\ phase = "reach"
  /\ \E k \in Pending : Items[k].target \notin DOMAIN syms
  /\ phase' = "undefined"
  /\ UNCHANGED <<prog, iterations, passVars, addr, lo, hi, syms, reach, settled>>

-----------------------------------------------------------------------------
Occupied == {Items[k].sec : k \in Index}

\* The order the sections are sorted in, and neighbours in it.
Below(s, t) ==
  \/ lo[s] < lo[t]
  \/ lo[s] = lo[t] /\ hi[s] < hi[t]
  \/ lo[s] = lo[t] /\ hi[s] = hi[t] /\ s < t

Neighbours(s, t) ==
  Below(s, t) /\ \A u \in Occupied : ~(Below(s, u) /\ Below(u, t))

Overlap == \E s, t \in Occupied : Neighbours(s, t) /\ hi[s] > lo[t]

\* Only neighbours are compared.
CheckSections ==
  /\ phase = "sections"
  /\ phase' = CASE Overlap -> "overlap"
                [] ~Overlap /\ \E s \in Occupied : hi[s] > CodeEnd -> "too_large"
                [] OTHER -> "encode"
  /\ UNCHANGED <<prog, iterations, passVars, addr, lo, hi, syms, reach, settled>>

\* The encoder accepts jump k: the target is reached from the instruction
\* behind the jump that goes there.
Encodable(k) ==
  LET t == syms[Items[k].target]
      a == addr[k]
      it == Items[k]
  IN \/ reach[k] = "Long"
     \/ it.kind \in {"call", "jmp"} /\ SamePage(t, a + 2)
     \/ it.kind = "jmp" /\ RelFits(t, a + 2)
     \/ it.kind = "cond" /\ reach[k] = "Short" /\ RelFits(t, a + it.len)
     \/ /\ it.kind = "cond" /\ reach[k] = "CondAbs"
        /\ SamePage(t, a + it.len + it.over + 2)

Encode ==
  /\ phase = "encode"
  /\ phase' = IF \A k \in Index : Relaxable(k) => Encodable(k)
              THEN "linked" ELSE "encode_error"
  /\ UNCHANGED <<prog, iterations, passVars, addr, lo, hi, syms, reach, settled>>

Next ==
  \/ PlaceItem \/ EndPass \/ CheckReach \/ UndefinedSymbol
  \/ CheckSections \/ Encode

Spec == Init /\ [][Next]_vars

-----------------------------------------------------------------------------
(***************************************************************************)
(* Properties.                                                             *)
(***************************************************************************)
\* The forms a jump of some kind may have.
Forms(kind) ==
  CASE kind = "none" -> {"Short"}
    [] kind = "jmp" -> {"Short", "Long"}
    [] kind = "call" -> {"Abs11", "Long"}
    [] kind = "cond" -> {"Short", "CondAbs", "Long"}

\* Every variable keeps the shape the code gives it.  A jump only ever has a
\* form of its own kind: insn_size and encode know no others.
TypeOK ==
  /\ IsProgram(prog)
  /\ phase \in {"place", "reach", "sections", "encode", "linked",
                "undefined", "overlap", "too_large", "encode_error"}
  /\ iterations \in 1 .. MaxIterations + 1
  /\ pos \in Nat \ {0} /\ pc \in Nat /\ freePc \in Nat
  /\ cur \in Section \cup {0}
  /\ addr \in [Index -> Nat]
  /\ lo \in [Section -> Nat] /\ hi \in [Section -> Nat]
  /\ \A x \in DOMAIN syms : syms[x] \in Nat
  /\ DOMAIN reach = Index /\ \A k \in Index : reach[k] \in Forms(Items[k].kind)
  /\ settled \in BOOLEAN

\* No two items share a byte of the image.
Disjoint ==
  \A j, k \in Index : j < k /\ addr[j] < ItemEnd(j) /\ addr[k] < ItemEnd(k) =>
    ItemEnd(j) <= addr[k] \/ ItemEnd(k) <= addr[j]

\* When relaxation came to rest and the program links, no item overwrites
\* another: the addresses are those of the final forms, and comparing
\* neighbouring sections (link.rs:165) was enough to find every overlap.
Apart == phase = "linked" /\ settled => Disjoint

\* A relaxation that came to rest never makes the encoder fail: the test of a
\* jump's reach and the encoder agree on every form and on the instruction from
\* which its displacement or page is counted.
EncodeFits == ~(phase = "encode_error" /\ settled)

\* Every pass but the last is paid for by a jump that grew, and a jump grows
\* at most twice, so relaxation comes to rest by itself.
Paid ==
  iterations <= 1 + Cardinality({k \in Index : reach[k] = "Long"})
                  + Cardinality({k \in Index : Items[k].kind = "cond"
                                               /\ reach[k] # "Short"})
=============================================================================
