---------------------------- MODULE RelaxProofs ----------------------------
(***************************************************************************)
(* Proofs about Relax, for any program, page size, jump reach and limit.   *)
(***************************************************************************)
EXTENDS Relax, FiniteSetTheorems, WellFoundedInduction, TLAPS

\* The stages behind relaxation.
Later == {"sections", "encode", "linked", "overlap", "too_large", "encode_error"}

-----------------------------------------------------------------------------
(***************************************************************************)
(* Types.                                                                  *)
(***************************************************************************)
LEMMA ItemTypes ==
  ASSUME TypeOK
  PROVE  /\ Index = 1 .. Len(Items)
         /\ Len(Items) \in Nat
         /\ \A k \in Index : Items[k] \in Item
<1>1. Items \in Seq(Item)
  BY DEF TypeOK, IsProgram, Items
<1>2. QED
  BY <1>1 DEF Index

LEMMA SizeTypes ==
  ASSUME NEW it \in Item, NEW r \in Forms(it.kind)
  PROVE  JumpSize(it, r) \in Nat /\ it.tail \in Nat
<1>1. it.kind \in {"none", "jmp", "call", "cond"} /\ it.len \in {2, 3}
      /\ it.over \in {0, 2} /\ it.tail \in Nat
  BY DEF Item
<1>2. CASE it.kind = "none"
  BY <1>1, <1>2 DEF JumpSize
<1>3. CASE it.kind \in {"jmp", "call"}
  BY <1>1, <1>3 DEF JumpSize
<1>4. CASE it.kind = "cond"
  <2>1. r \in {"Short", "CondAbs", "Long"}
    BY <1>4 DEF Forms
  <2>2. QED
    BY <1>1, <1>4, <2>1 DEF JumpSize
<1>5. QED
  BY <1>1, <1>2, <1>3, <1>4

LEMMA EndTypes ==
  ASSUME TypeOK, NEW k \in Index
  PROVE  /\ addr[k] \in Nat /\ JumpEnd(k) \in Nat /\ ItemEnd(k) \in Nat
         /\ addr[k] <= JumpEnd(k) /\ JumpEnd(k) <= ItemEnd(k)
<1>1. Items[k] \in Item
  BY ItemTypes
<1>2. addr[k] \in Nat /\ reach[k] \in Forms(Items[k].kind)
  BY DEF TypeOK
<1>3. JumpSize(Items[k], reach[k]) \in Nat /\ Items[k].tail \in Nat
  BY <1>1, <1>2, SizeTypes
<1>4. QED
  BY <1>2, <1>3 DEF JumpEnd, ItemEnd

EndsNat == \A k \in Index : addr[k] \in Nat /\ ItemEnd(k) \in Nat

LEMMA EndsAreNat == TypeOK => EndsNat
BY EndTypes DEF EndsNat

LEMMA WidenedTypes ==
  ASSUME TypeOK, NEW k \in Index
  PROVE  Widened(k) \in Forms(Items[k].kind)
<1>1. reach[k] \in Forms(Items[k].kind)
  BY DEF TypeOK
<1>2. Items[k].kind \in {"none", "jmp", "call", "cond"}
  BY ItemTypes DEF Item
<1>3. CASE ~Relaxable(k) \/ reach[k] = "Long" \/ Fits(k)
  BY <1>1, <1>3 DEF Widened
<1>4. CASE Relaxable(k) /\ reach[k] # "Long" /\ ~Fits(k)
  BY <1>2, <1>4 DEF Widened, Forms, Relaxable
<1>5. QED
  BY <1>3, <1>4

LEMMA InitTypes == Init => TypeOK
<1> SUFFICES ASSUME Init PROVE TypeOK
  OBVIOUS
<1>1. IsProgram(prog)
  BY ProgramsAssumption DEF Init
<1>2. \A k \in Index : Items[k] \in Item
  BY <1>1 DEF IsProgram, Items, Index
<1>3. \A k \in Index : FirstReach(k) \in Forms(Items[k].kind)
  BY <1>2 DEF FirstReach, Forms, Item
<1>4. \A x \in DOMAIN syms : syms[x] \in Nat
  BY <1>1 DEF Init, IsProgram
<1>5. /\ iterations \in 1 .. MaxIterations + 1
      /\ pos \in Nat \ {0} /\ pc \in Nat /\ freePc \in Nat
  BY ConstantsAssumption DEF Init
<1>6. DOMAIN reach = Index /\ \A k \in Index : reach[k] \in Forms(Items[k].kind)
  BY <1>3 DEF Init
<1>7. /\ addr \in [Index -> Nat] /\ lo \in [Section -> Nat]
      /\ hi \in [Section -> Nat] /\ settled \in BOOLEAN
      /\ cur \in Section \cup {0} /\ phase = "place"
  BY DEF Init
<1>8. QED
  BY <1>1, <1>4, <1>5, <1>6, <1>7 DEF TypeOK

LEMMA PlaceItemTypes == TypeOK /\ PlaceItem => TypeOK'
<1> SUFFICES ASSUME TypeOK, PlaceItem PROVE TypeOK'
  OBVIOUS
<1> DEFINE s == Items[pos].sec
           entered == s # cur
           left == entered /\ cur # 0
           free == IF left /\ ~prog.absolute[cur] THEN pc ELSE freePc
           at == CASE ~entered -> pc
                   [] entered /\ prog.fixed[s] -> prog.org[s]
                   [] OTHER -> free
<1>1. Items[pos] \in Item /\ s \in Section /\ pos \in Index
  BY ItemTypes DEF PlaceItem, Item
<1>2. free \in Nat
  BY DEF TypeOK
<1>3. prog.org[s] \in Nat
  BY <1>1 DEF TypeOK, IsProgram
<1>4. at \in Nat
  BY <1>2, <1>3 DEF TypeOK
<1>5. reach[pos] \in Forms(Items[pos].kind)
  BY <1>1 DEF TypeOK
<1>6. JumpSize(Items[pos], reach[pos]) \in Nat /\ Items[pos].tail \in Nat
  BY <1>1, <1>5, SizeTypes
<1> HIDE DEF s, entered, left, free, at
<1>7. /\ pc' = at + JumpSize(Items[pos], reach[pos]) + Items[pos].tail
      /\ freePc' = IF entered /\ ~prog.absolute[s] THEN at ELSE free
      /\ lo' = IF entered THEN [lo EXCEPT ![s] = at] ELSE lo
      /\ hi' = IF left THEN [hi EXCEPT ![cur] = pc] ELSE hi
      /\ cur' = s
      /\ addr' = [addr EXCEPT ![pos] = at]
      /\ syms' = IF Items[pos].label # 0 THEN Assign(Items[pos].label, at) ELSE syms
      /\ pos' = pos + 1
      /\ UNCHANGED <<prog, phase, iterations, reach, settled>>
  BY DEF PlaceItem, s, entered, left, free, at
<1>8. pc' \in Nat /\ freePc' \in Nat /\ cur' \in Section /\ pos' \in Nat \ {0}
  BY <1>1, <1>2, <1>4, <1>6, <1>7 DEF TypeOK
<1>9. lo' \in [Section -> Nat] /\ hi' \in [Section -> Nat]
  BY <1>1, <1>4, <1>7 DEF TypeOK, left
<1>10. \A x \in DOMAIN syms' : syms'[x] \in Nat
  BY <1>4, <1>7 DEF TypeOK, Assign
<1>11. /\ IsProgram(prog') /\ Index' = Index /\ Items' = Items
       /\ addr' \in [Index' -> Nat]
  BY <1>4, <1>7 DEF TypeOK, Index, Items
<1>12. QED
  BY <1>7, <1>8, <1>9, <1>10, <1>11 DEF TypeOK

LEMMA CheckReachTypes == TypeOK /\ CheckReach => TypeOK'
<1> SUFFICES ASSUME TypeOK, CheckReach PROVE TypeOK'
  OBVIOUS
<1>1. Index' = Index /\ Items' = Items
  BY DEF CheckReach, Index, Items
<1>2. DOMAIN reach' = Index' /\ \A k \in Index' : reach'[k] \in Forms(Items'[k].kind)
  BY <1>1, WidenedTypes DEF CheckReach
<1>3. settled' \in BOOLEAN
  BY DEF CheckReach
<1>4. CASE settled' \/ iterations > MaxIterations
  BY <1>1, <1>2, <1>3, <1>4 DEF CheckReach, passVars, TypeOK
<1>5. CASE ~(settled' \/ iterations > MaxIterations)
  <2>1. iterations' \in 1 .. MaxIterations + 1
    BY <1>5, ConstantsAssumption DEF CheckReach, TypeOK
  <2>2. QED
    BY <1>1, <1>2, <1>3, <1>5, <2>1, ConstantsAssumption DEF CheckReach, TypeOK
<1>6. QED
  BY <1>4, <1>5

LEMMA NextTypes == TypeOK /\ [Next]_vars => TypeOK'
<1> SUFFICES ASSUME TypeOK, [Next]_vars PROVE TypeOK'
  OBVIOUS
<1>1. CASE PlaceItem
  BY <1>1, PlaceItemTypes
<1>2. CASE EndPass
  <2>1. hi' \in [Section -> Nat]
    BY <1>2 DEF EndPass, TypeOK
  <2>2. QED
    BY <1>2, <2>1 DEF EndPass, passVars, TypeOK, Index, Items
<1>3. CASE CheckReach
  BY <1>3, CheckReachTypes
<1>4. CASE UndefinedSymbol
  BY <1>4 DEF UndefinedSymbol, passVars, TypeOK, Index, Items
<1>5. CASE CheckSections
  BY <1>5 DEF CheckSections, passVars, TypeOK, Index, Items
<1>6. CASE Encode
  BY <1>6 DEF Encode, passVars, TypeOK, Index, Items
<1>7. CASE UNCHANGED vars
  BY <1>7 DEF vars, passVars, TypeOK, Index, Items
<1>8. QED
  BY <1>1, <1>2, <1>3, <1>4, <1>5, <1>6, <1>7 DEF Next

\* Every variable keeps its shape, and every jump a form of its own kind.
THEOREM TypeCorrect == Spec => []TypeOK
<1>1. QED
  BY InitTypes, NextTypes, PTL DEF Spec

-----------------------------------------------------------------------------
(***************************************************************************)
(* A settled relaxation encodes.  Settling means that every jump fits in   *)
(* its form, and nothing a jump fits by changes after that.                *)
(***************************************************************************)
FitInv ==
  /\ phase \in {"place", "reach"} => ~settled
  /\ settled => \A k \in Index : Relaxable(k) => reach[k] = "Long" \/ Fits(k)
  /\ phase = "encode_error" =>
       ~ \A k \in Index : Relaxable(k) => Encodable(k)

LEMMA FitEncodes ==
  ASSUME TypeOK, NEW k \in Index, Relaxable(k), reach[k] = "Long" \/ Fits(k)
  PROVE  Encodable(k)
<1>1. Items[k].kind \in {"jmp", "call", "cond"}
  BY ItemTypes DEF Item, Relaxable
<1>2. reach[k] \in Forms(Items[k].kind)
  BY DEF TypeOK
<1>3. CASE reach[k] = "Long"
  BY <1>3 DEF Encodable
<1>4. CASE reach[k] # "Long" /\ Items[k].kind \in {"jmp", "call"}
  <2>1. JumpEnd(k) = addr[k] + 2
    BY <1>4 DEF JumpEnd, JumpSize
  <2>2. QED
    BY <1>4, <2>1 DEF Encodable, Fits
<1>5. CASE reach[k] = "CondAbs" /\ Items[k].kind = "cond"
  <2>1. addr[k] \in Nat /\ Items[k].len \in {2, 3} /\ Items[k].over \in {0, 2}
    BY ItemTypes DEF TypeOK, Item
  <2>2. JumpEnd(k) = addr[k] + Items[k].len + Items[k].over + 2
    BY <1>5, <2>1 DEF JumpEnd, JumpSize
  <2>3. QED
    BY <1>5, <2>2 DEF Encodable, Fits
<1>6. CASE reach[k] = "Short" /\ Items[k].kind = "cond"
  <2>1. addr[k] \in Nat /\ Items[k].len \in {2, 3}
    BY ItemTypes DEF TypeOK, Item
  <2>2. JumpEnd(k) = addr[k] + Items[k].len
    BY <1>6, <2>1 DEF JumpEnd, JumpSize
  <2>3. QED
    BY <1>6, <2>2 DEF Encodable, Fits
<1>7. QED
  BY <1>1, <1>2, <1>3, <1>4, <1>5, <1>6 DEF Forms

LEMMA CheckReachFits == TypeOK /\ FitInv /\ CheckReach => FitInv'
<1> SUFFICES ASSUME TypeOK, FitInv, CheckReach PROVE FitInv'
  OBVIOUS
<1>1. phase' \in {"place", "sections"} /\ (settled' => phase' = "sections")
  BY DEF CheckReach
<1>2. ASSUME settled', NEW k \in Index', Relaxable(k)'
      PROVE  (reach[k] = "Long" \/ Fits(k))'
  <2>1. /\ Index' = Index /\ Items' = Items /\ addr' = addr /\ syms' = syms
        /\ reach' = reach
    BY <1>2 DEF CheckReach, Index, Items
  <2>2. k \in Index /\ Relaxable(k) /\ reach[k] = Widened(k)
    BY <1>2, <2>1 DEF CheckReach, Relaxable
  <2>3. Items[k].kind \in {"jmp", "call", "cond"}
    BY <2>2, ItemTypes DEF Item, Relaxable
  <2>4. reach[k] = "Long" \/ Fits(k)
    <3> SUFFICES ASSUME reach[k] # "Long", ~Fits(k) PROVE FALSE
      OBVIOUS
    <3>1. Widened(k) \in {"CondAbs", "Long"}
      BY <2>2 DEF Widened
    <3>2. reach[k] = "CondAbs"
      BY <2>2, <3>1
    <3>3. Widened(k) = "Long"
      BY <2>2, <3>2 DEF Widened
    <3>4. QED
      BY <2>2, <3>3
  <2>5. Fits(k) => Fits(k)'
    BY <2>1 DEF Fits, JumpEnd
  <2>6. QED
    BY <2>1, <2>4, <2>5
<1>3. QED
  BY <1>1, <1>2 DEF FitInv

LEMMA NextFits == TypeOK /\ FitInv /\ [Next]_vars => FitInv'
<1> SUFFICES ASSUME TypeOK, FitInv, [Next]_vars PROVE FitInv'
  OBVIOUS
<1>1. CASE PlaceItem
  BY <1>1 DEF PlaceItem, FitInv
<1>2. CASE EndPass
  BY <1>2 DEF EndPass, FitInv
<1>3. CASE CheckReach
  BY <1>3, CheckReachFits
<1>4. ASSUME UNCHANGED <<prog, addr, lo, hi, syms, reach, settled>>
      PROVE  /\ Index' = Index /\ Items' = Items /\ settled' = settled /\ reach' = reach
             /\ \A k \in Index : /\ Relaxable(k)' <=> Relaxable(k)
                                 /\ Fits(k)' <=> Fits(k)
                                 /\ Encodable(k)' <=> Encodable(k)
  BY <1>4 DEF Index, Items, Relaxable, Fits, Encodable, JumpEnd
<1>5. CASE UndefinedSymbol
  BY <1>4, <1>5 DEF UndefinedSymbol, FitInv
<1>6. CASE CheckSections
  BY <1>4, <1>6 DEF CheckSections, FitInv
<1>7. CASE Encode
  BY <1>4, <1>7 DEF Encode, FitInv
<1>8. CASE UNCHANGED vars
  BY <1>4, <1>8 DEF vars, FitInv
<1>9. QED
  BY <1>1, <1>2, <1>3, <1>5, <1>6, <1>7, <1>8 DEF Next

\* The encoder never refuses a jump of a relaxation that came to rest.
THEOREM SettledEncodes == Spec => []EncodeFits
<1>1. Init => FitInv
  BY DEF Init, FitInv
<1>2. TypeOK /\ FitInv => EncodeFits
  BY FitEncodes DEF FitInv, EncodeFits
<1>3. QED
  BY <1>1, <1>2, NextFits, TypeCorrect, PTL DEF Spec

-----------------------------------------------------------------------------
(***************************************************************************)
(* Items do not overlap.  Within a section each item begins behind the one *)
(* before it; two sections are apart because the check compared each with  *)
(* the next one in address order.                                          *)
(***************************************************************************)

\* Addresses and forms belong to the same pass.
InStep == phase \in {"place", "reach"} \/ settled

\* The items placed so far in this pass, and the sections they are in.
Walk ==
  /\ phase \in {"place", "reach"} => ~settled
  /\ phase # "place" => pos = Len(Items) + 1
  /\ pos \in 1 .. Len(Items) + 1
  /\ \A j \in Index : j < pos => Items[j].sec <= cur
  /\ cur # 0 => pos > 1 /\ cur = Items[pos - 1].sec
  /\ cur = 0 => pos = 1
  /\ InStep =>
       /\ cur # 0 => lo[cur] <= pc
       /\ \A j \in Index : j < pos =>
            /\ lo[Items[j].sec] <= addr[j]
            /\ Items[j].sec = cur /\ phase = "place" => ItemEnd(j) <= pc
            /\ Items[j].sec # cur \/ phase # "place" => ItemEnd(j) <= hi[Items[j].sec]
       /\ \A j, k \in Index : j < k /\ k < pos /\ Items[j].sec = Items[k].sec
                                => ItemEnd(j) <= addr[k]
  /\ phase \in {"encode", "linked", "encode_error"} => ~Overlap

LEMMA PlaceItemWalks == TypeOK /\ Walk /\ PlaceItem => Walk'
<1> SUFFICES ASSUME TypeOK, Walk, PlaceItem PROVE Walk'
  OBVIOUS
<1> DEFINE s == Items[pos].sec
           entered == s # cur
           left == entered /\ cur # 0
           free == IF left /\ ~prog.absolute[cur] THEN pc ELSE freePc
           at == CASE ~entered -> pc
                   [] entered /\ prog.fixed[s] -> prog.org[s]
                   [] OTHER -> free
<1>1. /\ phase = "place" /\ phase' = "place" /\ ~settled /\ ~settled' /\ InStep
      /\ Index' = Index /\ Items' = Items /\ pos \in Index /\ pos' = pos + 1
      /\ reach' = reach
  BY DEF PlaceItem, Walk, InStep, Index, Items
<1>2. /\ pc' = at + JumpSize(Items[pos], reach[pos]) + Items[pos].tail
      /\ lo' = IF entered THEN [lo EXCEPT ![s] = at] ELSE lo
      /\ hi' = IF left THEN [hi EXCEPT ![cur] = pc] ELSE hi
      /\ cur' = s
      /\ addr' = [addr EXCEPT ![pos] = at]
  BY DEF PlaceItem
<1>3. /\ Index = 1 .. Len(Items) /\ Len(Items) \in Nat
      /\ \A k \in Index : Items[k] \in Item
  BY ItemTypes
<1>4. /\ TypeOK'
      /\ \A j \in Index : addr[j] \in Nat /\ ItemEnd(j) \in Nat /\ Items[j].sec \in Section
      /\ \A j \in Index : addr'[j] \in Nat /\ ItemEnd(j)' \in Nat
  <2>1. TypeOK'
    BY PlaceItemTypes
  <2>2. EndsNat
    BY EndsAreNat
  <2>3. EndsNat'
    BY <2>1, EndsAreNat, PTL
  <2>4. QED
    BY <1>1, <1>3, <2>1, <2>2, <2>3 DEF Item, EndsNat
<1>5. ~entered => at = pc
  OBVIOUS
<1> HIDE DEF at, free
<1>6. /\ addr'[pos] = at
      /\ \A j \in Index : j # pos => addr'[j] = addr[j] /\ ItemEnd(j)' = ItemEnd(j)
      /\ \A j \in Index : j = pos => ItemEnd(j)' = pc'
  <2>1. addr \in [Index -> Nat]
    BY DEF TypeOK
  <2>2. addr'[pos] = at /\ \A j \in Index : j # pos => addr'[j] = addr[j]
    BY <1>1, <1>2, <2>1
  <2>3. \A j \in Index : ItemEnd(j)' = addr'[j] + JumpSize(Items[j], reach[j]) + Items[j].tail
    BY <1>1 DEF ItemEnd, JumpEnd
  <2>4. \A j \in Index : ItemEnd(j) = addr[j] + JumpSize(Items[j], reach[j]) + Items[j].tail
    BY DEF ItemEnd, JumpEnd
  <2>5. ASSUME NEW j \in Index, j # pos PROVE ItemEnd(j)' = ItemEnd(j)
    BY <2>2, <2>3, <2>4, <2>5
  <2>6. ASSUME NEW j \in Index, j = pos PROVE ItemEnd(j)' = pc'
    BY <1>2, <2>2, <2>3, <2>6
  <2>7. QED
    BY <2>2, <2>5, <2>6
<1>7. at \in Nat /\ pc' \in Nat /\ at <= pc' /\ pc \in Nat
  <2>1. at \in Nat
    BY <1>1, <1>4, <1>6
  <2>2. reach[pos] \in Forms(Items[pos].kind)
    BY <1>1 DEF TypeOK
  <2>3. JumpSize(Items[pos], reach[pos]) \in Nat /\ Items[pos].tail \in Nat
    BY <1>1, <1>3, <2>2, SizeTypes
  <2>4. QED
    BY <1>2, <2>1, <2>3 DEF TypeOK
<1>8. /\ \A t \in Section : t \in Nat /\ t # 0
      /\ s \in Section /\ cur \in Section \cup {0} /\ s = Items[pos].sec
  BY <1>1, <1>4, ConstantsAssumption DEF Section, TypeOK
<1> HIDE DEF s
<1>9. lo \in [Section -> Nat] /\ hi \in [Section -> Nat]
  BY DEF TypeOK
\* Sections come in order, so a section that is entered has no item yet.
<1>10. \A j \in Index : j < pos => Items[j].sec <= s
  BY <1>1, <1>3, <1>8 DEF TypeOK, IsProgram, Items
<1>11. entered => \A j \in Index : j < pos => Items[j].sec # s
  <2> SUFFICES ASSUME entered, NEW j \in Index, j < pos, Items[j].sec = s PROVE FALSE
    OBVIOUS
  <2>1. Items[j].sec <= cur
    BY DEF Walk
  <2>2. cur # 0 /\ cur = Items[pos - 1].sec /\ pos > 1
    BY <1>8, <2>1 DEF Walk
  <2>3. cur <= s
    BY <1>1, <1>3, <1>10, <2>2
  <2>4. QED
    BY <1>8, <2>1, <2>3
<1>12. \A j \in Index : j < pos' => Items[j].sec <= cur'
  BY <1>1, <1>2, <1>3, <1>8, <1>10
<1>13. cur' # 0 /\ pos' > 1 /\ cur' = Items[pos' - 1].sec
  BY <1>1, <1>2, <1>3, <1>8
<1>14. pos' \in 1 .. Len(Items) + 1
  BY <1>1, <1>3
<1>15. lo'[cur'] <= pc'
  <2>1. CASE entered
    BY <1>2, <1>7, <1>8, <1>9, <2>1
  <2>2. CASE ~entered
    BY <1>1, <1>2, <1>5, <1>7, <1>8, <1>9, <2>2 DEF Walk
  <2>3. QED
    BY <2>1, <2>2
<1>16. ASSUME NEW j \in Index, j < pos'
       PROVE  /\ lo'[Items[j].sec] <= addr'[j]
              /\ Items[j].sec = cur' => ItemEnd(j)' <= pc'
              /\ Items[j].sec # cur' => ItemEnd(j)' <= hi'[Items[j].sec]
  <2>1. Items[j].sec \in Section
    BY <1>4
  <2>2. CASE j = pos
    <3>1. CASE entered
      <4>1. lo'[s] = at
        BY <1>2, <1>8, <1>9, <3>1
      <4>2. QED
        BY <1>2, <1>6, <1>7, <1>8, <2>2, <4>1
    <3>2. CASE ~entered
      <4>1. lo'[s] = lo[cur] /\ lo[cur] <= pc
        BY <1>1, <1>2, <1>8, <3>2 DEF Walk
      <4>2. QED
        BY <1>2, <1>5, <1>6, <1>7, <1>8, <2>2, <3>2, <4>1
    <3>3. QED
      BY <3>1, <3>2
  <2>3. CASE j # pos
    <3>1. j < pos /\ addr'[j] = addr[j] /\ ItemEnd(j)' = ItemEnd(j)
      BY <1>1, <1>3, <1>6, <1>16, <2>3
    <3>2. /\ lo[Items[j].sec] <= addr[j]
          /\ Items[j].sec = cur => ItemEnd(j) <= pc
          /\ Items[j].sec # cur => ItemEnd(j) <= hi[Items[j].sec]
      BY <1>1, <3>1 DEF Walk
    <3>3. CASE entered
      <4>1. Items[j].sec # s
        BY <1>11, <3>1, <3>3
      <4>2. lo'[Items[j].sec] = lo[Items[j].sec]
        BY <1>2, <1>8, <1>9, <2>1, <4>1
      <4>3. CASE Items[j].sec = cur
        BY <1>2, <1>8, <1>9, <2>1, <3>1, <3>2, <3>3, <4>1, <4>2, <4>3
      <4>4. CASE Items[j].sec # cur
        BY <1>2, <1>8, <1>9, <2>1, <3>1, <3>2, <3>3, <4>1, <4>2, <4>4
      <4>5. QED
        BY <4>3, <4>4
    <3>4. CASE ~entered
      <4>1. lo' = lo /\ hi' = hi /\ cur' = cur /\ pc <= pc'
        BY <1>2, <1>5, <1>7, <3>4
      <4>2. ItemEnd(j) \in Nat
        BY <1>4
      <4>3. QED
        BY <1>7, <3>1, <3>2, <4>1, <4>2
    <3>5. QED
      BY <3>3, <3>4
  <2>4. QED
    BY <2>2, <2>3
<1>17. ASSUME NEW j \in Index, NEW k \in Index, j < k, k < pos',
              Items[j].sec = Items[k].sec
       PROVE  ItemEnd(j)' <= addr'[k]
  <2>1. j # pos /\ j < pos /\ ItemEnd(j)' = ItemEnd(j)
    BY <1>1, <1>3, <1>6, <1>17
  <2>2. CASE k = pos
    <3>1. Items[j].sec = s
      BY <1>8, <1>17, <2>2
    <3>2. ~entered
      BY <1>11, <2>1, <3>1
    <3>3. ItemEnd(j) <= pc
      BY <1>1, <2>1, <3>1, <3>2 DEF Walk
    <3>4. QED
      BY <1>5, <1>6, <2>1, <2>2, <3>2, <3>3
  <2>3. CASE k # pos
    <3>1. k < pos /\ addr'[k] = addr[k]
      BY <1>1, <1>3, <1>6, <1>17, <2>3
    <3>2. QED
      BY <1>1, <1>17, <2>1, <3>1 DEF Walk
  <2>4. QED
    BY <2>2, <2>3
<1>18. QED
  BY <1>1, <1>12, <1>13, <1>14, <1>15, <1>16, <1>17 DEF Walk, InStep

LEMMA EndPassWalks == TypeOK /\ Walk /\ EndPass => Walk'
<1> SUFFICES ASSUME TypeOK, Walk, EndPass PROVE Walk'
  OBVIOUS
<1>1. /\ phase = "place" /\ phase' = "reach" /\ ~settled /\ ~settled' /\ InStep
      /\ Index' = Index /\ Items' = Items /\ pos' = pos /\ cur' = cur /\ pc' = pc
      /\ lo' = lo /\ addr' = addr /\ reach' = reach
      /\ hi' = IF cur = 0 THEN hi ELSE [hi EXCEPT ![cur] = pc]
      /\ pos \notin Index
  BY DEF EndPass, passVars, Walk, InStep, Index, Items
<1>2. /\ Index = 1 .. Len(Items) /\ Len(Items) \in Nat
      /\ \A j \in Index : Items[j].sec \in Section
  BY ItemTypes DEF Item
<1>3. pos = Len(Items) + 1
  BY <1>1, <1>2 DEF Walk
<1>4. \A j \in Index : ItemEnd(j)' = ItemEnd(j)
  BY <1>1 DEF ItemEnd, JumpEnd
<1>5. ASSUME NEW j \in Index PROVE ItemEnd(j) <= hi'[Items[j].sec]
  <2>1. /\ j < pos /\ Items[j].sec \in Section
        /\ Items[j].sec = cur => ItemEnd(j) <= pc
        /\ Items[j].sec # cur => ItemEnd(j) <= hi[Items[j].sec]
    BY <1>1, <1>2, <1>3 DEF Walk
  <2>2. cur # 0
    BY <2>1, <1>2 DEF Walk
  <2>3. hi \in [Section -> Nat] /\ cur \in Section \cup {0}
    BY DEF TypeOK
  <2>4. QED
    BY <1>1, <2>1, <2>2, <2>3
<1>6. QED
  BY <1>1, <1>2, <1>3, <1>4, <1>5 DEF Walk, InStep

LEMMA CheckReachWalks == TypeOK /\ Walk /\ CheckReach => Walk'
<1> SUFFICES ASSUME TypeOK, Walk, CheckReach PROVE Walk'
  OBVIOUS
<1>1. /\ phase = "reach" /\ Index' = Index /\ Items' = Items /\ addr' = addr
      /\ lo' = lo /\ hi' = hi /\ InStep
  BY DEF CheckReach, Index, Items, InStep
<1>2. /\ Index = 1 .. Len(Items) /\ Len(Items) \in Nat
      /\ \A j \in Index : Items[j].sec \in Section
  BY ItemTypes DEF Item
<1>3. CASE settled' \/ iterations > MaxIterations
  <2>1. phase' = "sections" /\ pos' = pos /\ cur' = cur /\ pc' = pc
    BY <1>3 DEF CheckReach, passVars
  <2>2. settled' => reach' = reach
    BY DEF CheckReach
  <2>3. settled' => \A j \in Index : ItemEnd(j)' = ItemEnd(j)
    BY <1>1, <2>2 DEF ItemEnd, JumpEnd
  <2>4. QED
    BY <1>1, <1>2, <2>1, <2>3 DEF Walk, InStep
<1>4. CASE ~(settled' \/ iterations > MaxIterations)
  <2>1. phase' = "place" /\ pos' = 1 /\ cur' = 0 /\ ~settled'
    BY <1>4 DEF CheckReach
  <2>2. QED
    BY <1>1, <1>2, <2>1 DEF Walk, InStep
<1>5. QED
  BY <1>3, <1>4

LEMMA RestWalks ==
  ASSUME TypeOK, Walk, phase # "place", phase' \notin {"place", "reach"},
         UNCHANGED <<prog, passVars, addr, lo, hi, syms, reach, settled>>,
         phase' \in {"encode", "linked", "encode_error"} => ~Overlap
  PROVE  Walk'
<1>1. /\ Index' = Index /\ Items' = Items /\ pos' = pos /\ cur' = cur /\ pc' = pc
      /\ \A j \in Index : ItemEnd(j)' = ItemEnd(j)
  BY DEF Index, Items, passVars, ItemEnd, JumpEnd
<1>2. Overlap' <=> Overlap
  BY <1>1 DEF Overlap, Occupied, Neighbours, Below
<1>3. InStep' => InStep
  BY DEF InStep
<1>4. QED
  BY <1>1, <1>2, <1>3 DEF Walk

LEMMA NextWalks == TypeOK /\ Walk /\ [Next]_vars => Walk'
<1> SUFFICES ASSUME TypeOK, Walk, [Next]_vars PROVE Walk'
  OBVIOUS
<1>1. CASE PlaceItem
  BY <1>1, PlaceItemWalks
<1>2. CASE EndPass
  BY <1>2, EndPassWalks
<1>3. CASE CheckReach
  BY <1>3, CheckReachWalks
<1>4. CASE UndefinedSymbol
  BY <1>4, RestWalks DEF UndefinedSymbol
<1>5. CASE CheckSections
  <2>1. phase' \in {"overlap", "too_large", "encode"} /\ (phase' = "encode" => ~Overlap)
    BY <1>5 DEF CheckSections
  <2>2. QED
    BY <1>5, <2>1, RestWalks DEF CheckSections
<1>6. CASE Encode
  <2>1. ~Overlap
    BY <1>6 DEF Encode, Walk
  <2>2. QED
    BY <1>6, <2>1, RestWalks DEF Encode
<1>7. CASE UNCHANGED vars
  <2>1. /\ Index' = Index /\ Items' = Items /\ pos' = pos /\ cur' = cur /\ pc' = pc
        /\ \A j \in Index : ItemEnd(j)' = ItemEnd(j)
    BY <1>7 DEF vars, Index, Items, passVars, ItemEnd, JumpEnd
  <2>2. Overlap' <=> Overlap
    BY <1>7, <2>1 DEF vars, Overlap, Occupied, Neighbours, Below
  <2>3. QED
    BY <1>7, <2>1, <2>2 DEF vars, passVars, Walk, InStep
<1>8. QED
  BY <1>1, <1>2, <1>3, <1>4, <1>5, <1>6, <1>7 DEF Next

\* A nonempty set has a member whose value under f is least.
LEMMA LeastOf ==
  ASSUME NEW S, NEW T \in SUBSET S, T # {}, NEW f \in [S -> Nat]
  PROVE  \E u \in T : \A v \in T : f[u] <= f[v]
<1> DEFINE values == {f[u] : u \in T}
<1>1. values \in SUBSET Nat /\ values # {}
  OBVIOUS
<1> HIDE DEF values
<1>2. PICK n \in values : \A m \in values : ~(<<m, n>> \in OpToRel(<, Nat))
  BY <1>1, NatLessThanWellFounded, WFMin
<1>3. \A m \in values : n <= m
  <2>1. \A m \in values : ~(m < n)
    BY <1>1, <1>2 DEF OpToRel
  <2>2. QED
    BY <1>1, <2>1
<1>4. PICK u \in T : f[u] = n
  BY <1>2 DEF values
<1>5. QED
  BY <1>3, <1>4 DEF values

\* The next section in address order: least start, then end, then index.
LEMMA NextSection ==
  ASSUME TypeOK, NEW s \in Occupied, NEW t \in Occupied, Below(s, t)
  PROVE  \E u \in Occupied : Neighbours(s, u) /\ lo[u] <= lo[t]
<1>1. Occupied \subseteq Section /\ \A u \in Section : u \in Nat
  BY ItemTypes, ConstantsAssumption DEF Occupied, Item, Section
<1>2. lo \in [Section -> Nat] /\ hi \in [Section -> Nat]
  BY DEF TypeOK
<1> DEFINE A == {u \in Occupied : Below(s, u)}
           B == {u \in A : \A v \in A : lo[u] <= lo[v]}
           C == {u \in B : \A v \in B : hi[u] <= hi[v]}
<1>3. A \in SUBSET Section /\ A # {}
  BY <1>1
<1>4. B \in SUBSET Section /\ B # {}
  <2> HIDE DEF A
  <2>1. \E u \in A : \A v \in A : lo[u] <= lo[v]
    BY <1>2, <1>3, LeastOf
  <2>2. QED
    BY <1>3, <2>1
<1>5. C \in SUBSET Section /\ C # {}
  <2> HIDE DEF B
  <2>1. \E u \in B : \A v \in B : hi[u] <= hi[v]
    BY <1>2, <1>4, LeastOf
  <2>2. QED
    BY <1>4, <2>1
<1>6. PICK u \in C : \A v \in C : u <= v
  <2> HIDE DEF C
  <2> DEFINE id == [v \in Section |-> v]
  <2>1. id \in [Section -> Nat]
    BY <1>1
  <2> HIDE DEF id
  <2>2. \E u \in C : \A v \in C : id[u] <= id[v]
    BY <1>5, <2>1, LeastOf
  <2>3. QED
    BY <1>5, <2>2 DEF id
<1>7. u \in A /\ u \in Section /\ \A v \in A : lo[u] <= lo[v]
  BY <1>1
<1>8. ASSUME NEW v \in Occupied, Below(s, v), Below(v, u) PROVE FALSE
  <2>1. v \in A /\ v \in Section /\ lo[u] <= lo[v]
    BY <1>1, <1>7, <1>8
  <2>2. lo[v] = lo[u]
    BY <1>2, <1>7, <1>8, <2>1 DEF Below
  <2>3. v \in B
    BY <1>7, <2>1, <2>2
  <2>4. hi[u] <= hi[v]
    BY <2>3
  <2>5. hi[v] = hi[u] /\ v < u
    BY <1>2, <1>7, <1>8, <2>1, <2>2, <2>4 DEF Below
  <2>6. v \in C
    BY <2>3, <2>5
  <2>7. QED
    BY <1>1, <1>6, <1>7, <2>1, <2>5, <2>6
<1>9. Neighbours(s, u)
  BY <1>7, <1>8 DEF Neighbours
<1>10. lo[u] <= lo[t]
  BY <1>7
<1>11. QED
  BY <1>7, <1>9, <1>10

LEMMA SectionsApart ==
  ASSUME TypeOK, ~Overlap, NEW s \in Occupied, NEW t \in Occupied, s # t
  PROVE  hi[s] <= lo[t] \/ hi[t] <= lo[s]
<1>1. /\ Occupied \subseteq Section /\ \A u \in Section : u \in Nat
      /\ lo \in [Section -> Nat] /\ hi \in [Section -> Nat]
  <2>1. Occupied \subseteq Section /\ \A u \in Section : u \in Nat
    BY ItemTypes, ConstantsAssumption DEF Occupied, Item, Section
  <2>2. lo \in [Section -> Nat] /\ hi \in [Section -> Nat]
    BY DEF TypeOK
  <2>3. QED
    BY <2>1, <2>2
<1>2. ASSUME NEW x \in Occupied, NEW y \in Occupied, Below(x, y)
      PROVE  hi[x] <= lo[y]
  <2>1. PICK u \in Occupied : Neighbours(x, u) /\ lo[u] <= lo[y]
    BY <1>2, NextSection
  <2>2. ~(hi[x] > lo[u])
    BY <2>1 DEF Overlap
  <2>3. QED
    BY <1>1, <2>1, <2>2
<1>3. Below(s, t) \/ Below(t, s)
  <2>1. /\ lo[s] \in Nat /\ lo[t] \in Nat /\ hi[s] \in Nat /\ hi[t] \in Nat
        /\ s \in Nat /\ t \in Nat
    BY <1>1
  <2>2. QED
    BY <2>1 DEF Below
<1>4. QED
  BY <1>2, <1>3

\* When relaxation came to rest no item of a linked image overwrites another,
\* wherever the program put its own sections.
THEOREM ItemsApart == Spec => []Apart
<1>1. Init => Walk
  <2> SUFFICES ASSUME Init PROVE Walk
    OBVIOUS
  <2>1. /\ Index = 1 .. Len(Items) /\ Len(Items) \in Nat
        /\ \A j \in Index : Items[j].sec \in Section
    BY InitTypes, ItemTypes DEF Item
  <2>2. QED
    BY <2>1 DEF Init, Walk, InStep
<1>2. TypeOK /\ Walk => Apart
  <2> SUFFICES ASSUME TypeOK, Walk, phase = "linked", settled,
                      NEW j \in Index, NEW k \in Index, j < k
               PROVE  ItemEnd(j) <= addr[k] \/ ItemEnd(k) <= addr[j]
    BY DEF Apart, Disjoint
  <2>1. /\ Index = 1 .. Len(Items) /\ Len(Items) \in Nat /\ pos = Len(Items) + 1
        /\ j < pos /\ k < pos /\ InStep /\ ~Overlap
    BY ItemTypes DEF Walk, InStep
  <2>2. /\ lo[Items[j].sec] <= addr[j] /\ ItemEnd(j) <= hi[Items[j].sec]
        /\ lo[Items[k].sec] <= addr[k] /\ ItemEnd(k) <= hi[Items[k].sec]
    BY <2>1 DEF Walk
  <2>3. CASE Items[j].sec = Items[k].sec
    BY <2>1, <2>3 DEF Walk
  <2>4. CASE Items[j].sec # Items[k].sec
    <3>1. Items[j].sec \in Occupied /\ Items[k].sec \in Occupied
      BY DEF Occupied
    <3>2. \/ hi[Items[j].sec] <= lo[Items[k].sec]
          \/ hi[Items[k].sec] <= lo[Items[j].sec]
      BY <2>1, <2>4, <3>1, SectionsApart
    <3>3. /\ lo \in [Section -> Nat] /\ hi \in [Section -> Nat]
          /\ Items[j].sec \in Section /\ Items[k].sec \in Section
          /\ addr[j] \in Nat /\ addr[k] \in Nat
          /\ ItemEnd(j) \in Nat /\ ItemEnd(k) \in Nat
      BY ItemTypes, EndTypes DEF TypeOK, Item
    <3>4. QED
      BY <2>2, <3>2, <3>3
  <2>5. QED
    BY <2>3, <2>4
<1>3. QED
  BY <1>1, <1>2, NextWalks, TypeCorrect, PTL DEF Spec

(***************************************************************************)
(* Relaxation comes to rest.  Forms only grow, and every pass that is      *)
(* followed by another one grew a jump.                                    *)
(***************************************************************************)

\* Jumps in their longest form, and conditional jumps that grew.
LongJumps == {k \in Index : reach[k] = "Long"}
GrownJumps == {k \in Index : Items[k].kind = "cond" /\ reach[k] # "Short"}

LEMMA GrownFinite ==
  ASSUME TypeOK
  PROVE  /\ IsFiniteSet(LongJumps) /\ IsFiniteSet(GrownJumps)
         /\ Cardinality(LongJumps) \in Nat /\ Cardinality(GrownJumps) \in Nat
<1>1. IsFiniteSet(Index)
  BY ItemTypes, FS_Interval
<1>2. LongJumps \in SUBSET Index /\ GrownJumps \in SUBSET Index
  BY DEF LongJumps, GrownJumps
<1>3. IsFiniteSet(LongJumps) /\ IsFiniteSet(GrownJumps)
  BY <1>1, <1>2, FS_Subset
<1> QED BY <1>3, FS_CardinalityType

\* A set that got a member has more of them.
LEMMA Larger ==
  ASSUME NEW S, NEW T, IsFiniteSet(T), S \subseteq T
  PROVE  /\ Cardinality(S) \in Nat /\ Cardinality(T) \in Nat
         /\ Cardinality(S) <= Cardinality(T)
         /\ S # T => Cardinality(S) + 1 <= Cardinality(T)
<1>1. S \in SUBSET T
  OBVIOUS
<1>2. /\ IsFiniteSet(S) /\ Cardinality(S) <= Cardinality(T)
      /\ Cardinality(T) = Cardinality(S) => T = S
  BY <1>1, FS_Subset
<1>3. Cardinality(S) \in Nat /\ Cardinality(T) \in Nat
  BY <1>2, FS_CardinalityType
<1> QED BY <1>2, <1>3

\* A pass makes no jump shorter, and one of them longer if it changes any.
LEMMA PassGrows ==
  ASSUME TypeOK, reach = [k \in Index |-> reach[k]], CheckReach
  PROVE  /\ LongJumps \subseteq LongJumps' /\ GrownJumps \subseteq GrownJumps'
         /\ reach' # reach => LongJumps # LongJumps' \/ GrownJumps # GrownJumps'
<1>1. /\ Index' = Index /\ Items' = Items
      /\ \A k \in Index : reach'[k] = Widened(k)
  BY DEF CheckReach, Index, Items
<1>2. \A k \in Index : \/ Widened(k) = reach[k]
                       \/ Widened(k) = "Long" /\ reach[k] # "Long"
                       \/ Widened(k) = "CondAbs" /\ Items[k].kind = "cond" /\ reach[k] = "Short"
  BY DEF Widened
<1>3. LongJumps \subseteq LongJumps'
  BY <1>1, <1>2 DEF LongJumps
<1>4. GrownJumps \subseteq GrownJumps'
  BY <1>1, <1>2 DEF GrownJumps
<1>5. ASSUME reach' # reach
      PROVE  LongJumps # LongJumps' \/ GrownJumps # GrownJumps'
  <2>1. reach' = [k \in Index |-> Widened(k)]
    BY DEF CheckReach
  <2>2. PICK k \in Index : Widened(k) # reach[k]
    <3> SUFFICES ASSUME \A k \in Index : Widened(k) = reach[k] PROVE FALSE
      OBVIOUS
    <3>1. [k \in Index |-> Widened(k)] = [k \in Index |-> reach[k]]
      OBVIOUS
    <3> QED BY <1>5, <2>1, <3>1
  <2>3. CASE Widened(k) = "Long"
    <3>1. k \in LongJumps' /\ k \notin LongJumps
      BY <1>1, <2>2, <2>3 DEF LongJumps
    <3> QED BY <3>1
  <2>4. CASE Widened(k) = "CondAbs" /\ Items[k].kind = "cond" /\ reach[k] = "Short"
    <3>1. k \in GrownJumps' /\ k \notin GrownJumps
      BY <1>1, <2>2, <2>4 DEF GrownJumps
    <3> QED BY <3>1
  <2> QED BY <1>2, <2>2, <2>3, <2>4
<1> QED BY <1>3, <1>4, <1>5

PaidInv == Paid /\ reach = [k \in Index |-> reach[k]]

LEMMA NextPaid == TypeOK /\ PaidInv /\ [Next]_vars => PaidInv'
<1> SUFFICES ASSUME TypeOK, Paid, reach = [k \in Index |-> reach[k]], [Next]_vars
             PROVE  PaidInv'
  BY DEF PaidInv
<1>1. Paid <=> iterations <= 1 + Cardinality(LongJumps) + Cardinality(GrownJumps)
  BY DEF Paid, LongJumps, GrownJumps
<1>2. Paid' <=> iterations' <= 1 + Cardinality(LongJumps') + Cardinality(GrownJumps')
  BY DEF Paid, LongJumps, GrownJumps
<1>3. CASE CheckReach
  <2>1. Index' = Index
    BY <1>3 DEF CheckReach, Index, Items
  <2>2. IsFiniteSet(LongJumps') /\ IsFiniteSet(GrownJumps')
    <3>1. IsFiniteSet(Index)
      BY ItemTypes, FS_Interval
    <3>2. LongJumps' \in SUBSET Index /\ GrownJumps' \in SUBSET Index
      BY <2>1 DEF LongJumps, GrownJumps
    <3> QED BY <3>1, <3>2, FS_Subset
  <2>3. /\ LongJumps \subseteq LongJumps' /\ GrownJumps \subseteq GrownJumps'
        /\ reach' # reach => LongJumps # LongJumps' \/ GrownJumps # GrownJumps'
    BY <1>3, PassGrows
  <2>4. iterations \in Nat /\ (iterations' # iterations => iterations' = iterations + 1 /\ reach' # reach)
    <3>1. iterations \in Nat
      BY DEF TypeOK
    <3>2. settled' <=> reach' = reach
      BY <1>3 DEF CheckReach
    <3>3. CASE settled' \/ iterations > MaxIterations
      BY <1>3, <3>1, <3>3 DEF CheckReach
    <3>4. CASE ~(settled' \/ iterations > MaxIterations)
      BY <1>3, <3>1, <3>2, <3>4 DEF CheckReach
    <3> QED BY <3>3, <3>4
  <2>5. PICK a, b, c, d : /\ a = Cardinality(LongJumps) /\ b = Cardinality(GrownJumps)
                          /\ c = Cardinality(LongJumps') /\ d = Cardinality(GrownJumps')
    OBVIOUS
  <2>6. a \in Nat /\ c \in Nat /\ a <= c /\ (LongJumps # LongJumps' => a + 1 <= c)
    BY <2>2, <2>3, <2>5, Larger
  <2>7. b \in Nat /\ d \in Nat /\ b <= d /\ (GrownJumps # GrownJumps' => b + 1 <= d)
    BY <2>2, <2>3, <2>5, Larger
  <2>8. iterations <= 1 + a + b
    BY <1>1, <2>5
  <2>9. iterations' <= 1 + c + d
    BY <2>3, <2>4, <2>6, <2>7, <2>8
  <2>10. Paid'
    BY <1>2, <2>5, <2>9
  <2>11. reach' = [k \in Index |-> reach'[k]]
    BY <1>3 DEF CheckReach
  <2> QED BY <2>1, <2>10, <2>11 DEF PaidInv
<1>4. CASE UNCHANGED <<prog, reach, iterations>>
  BY <1>4 DEF PaidInv, Paid, Index, Items
<1> QED BY <1>3, <1>4
        DEF Next, PlaceItem, EndPass, UndefinedSymbol, CheckSections, Encode, vars

\* Every pass after the first is paid for by a jump that grew, of the two times at most
\* that each jump grows: relaxation comes to rest whatever the program.
THEOREM PassesPaid == Spec => []Paid
<1>1. Init => PaidInv
  <2> SUFFICES ASSUME Init PROVE PaidInv
    OBVIOUS
  <2>1. Cardinality(LongJumps) \in Nat /\ Cardinality(GrownJumps) \in Nat
    BY InitTypes, GrownFinite
  <2>2. iterations = 1 /\ reach = [k \in Index |-> reach[k]]
    BY DEF Init
  <2> QED BY <2>1, <2>2 DEF PaidInv, Paid, LongJumps, GrownJumps
<1>2. PaidInv => Paid
  BY DEF PaidInv
<1> QED BY <1>1, <1>2, NextPaid, TypeCorrect, PTL DEF Spec
=============================================================================
