---------------------------- MODULE RamMapProofs ----------------------------
(***************************************************************************)
(* Theorems of RamMap, for every program and every size of the memories.   *)
(*                                                                         *)
(* LayoutInvariant is the inductive invariant: what is placed, below which *)
(* offset it lies, and that items which can be live together share         *)
(* nothing, for every prefix of the layout.  MachineInv and MemoryInv add  *)
(* what the startup code needs.  Apart, Reachable, StackClear and          *)
(* Initialized follow from them.                                           *)
(*                                                                         *)
(* Numbers are counted and listed by induction over the naturals, done as  *)
(* the choice of a least counterexample (LeastMember).                     *)
(***************************************************************************)
EXTENDS RamMap, FiniteSetTheorems, WellFoundedInduction, TLAPS

-----------------------------------------------------------------------------
(***************************************************************************)
(* Numbers and finite sets of them.                                        *)
(***************************************************************************)
LEMMA LeastMember ==
  ASSUME NEW S \in SUBSET Nat, S # {}
  PROVE  Least(S) \in S /\ \A y \in S : Least(S) <= y
<1>1. PICK n \in S : \A m \in S : ~(<<m, n>> \in OpToRel(<, Nat))
  BY NatLessThanWellFounded, WFMin
<1>2. \A m \in S : n <= m
  <2>1. \A m \in S : ~(m < n)
    BY <1>1 DEF OpToRel
  <2> QED BY <2>1
<1> QED BY <1>2 DEF Least

\* A sequence of numbers has a greatest one.
LEMMA GreatestUpTo ==
  ASSUME NEW n \in Nat, NEW f \in [1 .. n -> Nat], NEW k \in 1 .. n
  PROVE  \E i \in 1 .. k : \A j \in 1 .. k : f[j] <= f[i]
<1> DEFINE P(m) == \E i \in 1 .. m : \A j \in 1 .. m : f[j] <= f[i]
           T == {m \in 1 .. n : ~P(m)}
<1>1. T \in SUBSET Nat
  OBVIOUS
<1>2. CASE T = {}
  BY <1>2
<1>3. CASE T # {}
  <2>1. PICK m \in T : \A l \in T : m <= l
    BY <1>1, <1>3, LeastMember
  <2>2. m \in 1 .. n /\ ~P(m)
    BY <2>1
  <2>3. m # 1
    <3>1. f[1] \in Nat
      BY <2>2
    <3> QED BY <2>2, <3>1
  <2>4. m - 1 \in 1 .. n /\ ~(m <= m - 1)
    BY <2>2, <2>3
  <2>5. m - 1 \notin T
    <3> HIDE DEF T
    <3> QED BY <2>1, <2>4
  <2>6. PICK i \in 1 .. m - 1 : \A j \in 1 .. m - 1 : f[j] <= f[i]
    BY <2>4, <2>5
  <2>7. \A j \in 1 .. m : j = m \/ j \in 1 .. m - 1
    BY <2>2
  <2>8. i \in 1 .. m /\ m \in 1 .. m /\ f[i] \in Nat /\ f[m] \in Nat
    BY <2>2, <2>6
  <2>9. CASE f[m] <= f[i]
    BY <2>2, <2>6, <2>7, <2>8, <2>9
  <2>10. CASE f[i] <= f[m]
    <3>1. \A j \in 1 .. m : f[j] <= f[m]
      BY <2>2, <2>6, <2>7, <2>8, <2>10
    <3> QED BY <2>2, <2>8, <3>1
  <2> QED BY <2>8, <2>9, <2>10
<1> QED BY <1>2, <1>3

LEMMA GreatestMember ==
  ASSUME NEW S \in SUBSET Nat, S # {}, IsFiniteSet(S)
  PROVE  Largest(S) \in S /\ \A y \in S : y <= Largest(S)
<1>1. PICK n \in Nat : ExistsBijection(1 .. n, S)
  BY FS_NatBijection
<1>2. PICK f \in Bijection(1 .. n, S) : TRUE
  BY <1>1 DEF ExistsBijection
<1>3. f \in [1 .. n -> Nat] /\ \A y \in S : \E j \in 1 .. n : f[j] = y
  BY <1>2 DEF Bijection, Surjection
<1>4. n \in 1 .. n
  <2>1. PICK y \in S : TRUE
    OBVIOUS
  <2>2. PICK j \in 1 .. n : f[j] = y
    BY <1>3, <2>1
  <2> QED BY <2>2
<1>5. PICK i \in 1 .. n : \A j \in 1 .. n : f[j] <= f[i]
  BY <1>3, <1>4, GreatestUpTo
<1>6. f[i] \in S
  BY <1>2 DEF Bijection, Injection
<1>7. \A y \in S : y <= f[i]
  BY <1>3, <1>5
<1> QED BY <1>6, <1>7 DEF Largest

LEMMA FiniteImage ==
  ASSUME NEW S, IsFiniteSet(S), NEW T, NEW f \in [S -> T]
  PROVE  IsFiniteSet({f[x] : x \in S})
<1>1. f \in Surjection(S, {f[x] : x \in S})
  BY DEF Surjection
<1> QED BY <1>1, FS_Surjection

\* The members of a set of numbers in their order.
Count(S, x) == Cardinality({y \in S : y < x})

LEMMA CountType ==
  ASSUME NEW S \in SUBSET Nat, IsFiniteSet(S), NEW x \in S
  PROVE  Count(S, x) \in 0 .. Cardinality(S) - 1
<1> DEFINE L == {y \in S : y < x}
<1>1. L \in SUBSET (S \ {x})
  <2>1. \A y \in S : y \in Nat
    OBVIOUS
  <2>2. ~(x < x)
    BY <2>1
  <2> QED BY <2>2
<1>2. IsFiniteSet(S \ {x}) /\ Cardinality(S \ {x}) = Cardinality(S) - 1
  BY FS_RemoveElement
<1>3. IsFiniteSet(L) /\ Cardinality(L) <= Cardinality(S) - 1
  BY <1>1, <1>2, FS_Subset
<1>4. Cardinality(L) \in Nat /\ Cardinality(S) \in Nat
  BY <1>3, FS_CardinalityType
<1> QED BY <1>3, <1>4 DEF Count

LEMMA CountOrder ==
  ASSUME NEW S \in SUBSET Nat, IsFiniteSet(S), NEW x \in S, NEW y \in S, x < y
  PROVE  Count(S, x) < Count(S, y)
<1> DEFINE L == {z \in S : z < x}
           R == {z \in S : z < y}
<1>1. L \in SUBSET (R \ {x}) /\ R \in SUBSET S /\ x \in R
  <2>1. \A z \in S : z \in Nat
    OBVIOUS
  <2>2. \A z \in S : z < x => z < y /\ z # x
    BY <2>1
  <2> QED BY <2>2
<1>2. IsFiniteSet(R)
  BY <1>1, FS_Subset
<1>3. IsFiniteSet(R \ {x}) /\ Cardinality(R \ {x}) = Cardinality(R) - 1
  BY <1>1, <1>2, FS_RemoveElement
<1>4. IsFiniteSet(L) /\ Cardinality(L) <= Cardinality(R) - 1
  BY <1>1, <1>3, FS_Subset
<1>5. Cardinality(L) \in Nat /\ Cardinality(R) \in Nat
  BY <1>2, <1>4, FS_CardinalityType
<1> QED BY <1>4, <1>5 DEF Count

\* Behind a member that is not the last comes another one.
LEMMA CountNext ==
  ASSUME NEW S \in SUBSET Nat, IsFiniteSet(S), NEW x \in S,
         Count(S, x) + 1 < Cardinality(S)
  PROVE  \E y \in S : Count(S, y) = Count(S, x) + 1
<1> DEFINE L == {z \in S : z < x}
           A == L \cup {x}
           R == {z \in S : x < z}
<1>1. L \in SUBSET S /\ R \in SUBSET S /\ S = A \cup R /\ x \notin L
  <2>1. \A z \in S : z \in Nat
    OBVIOUS
  <2>2. \A z \in S : (z < x \/ z = x \/ x < z) /\ ~(x < x)
    BY <2>1
  <2> QED BY <2>2
<1>2. IsFiniteSet(L) /\ Cardinality(L) \in Nat
  BY <1>1, FS_Subset, FS_CardinalityType
<1>3. Cardinality(A) = Cardinality(L) + 1
  BY <1>1, <1>2, FS_AddElement
<1>4. R # {}
  <2> SUFFICES ASSUME R = {} PROVE FALSE
    OBVIOUS
  <2>1. S = A
    BY <1>1
  <2> QED BY <1>2, <1>3, <2>1 DEF Count
<1>5. Least(R) \in R /\ \A z \in R : Least(R) <= z
  BY <1>1, <1>4, LeastMember
<1> DEFINE y == Least(R)
<1>6. y \in S /\ x < y
  BY <1>5
<1>7. {z \in S : z < y} = A
  <2>1. y \in Nat /\ x \in Nat /\ \A z \in S : z \in Nat
    BY <1>6
  <2>2. \A z \in A : z \in S /\ z < y
    BY <1>6, <2>1
  <2>3. \A z \in S : z < y => z \notin R
    BY <1>5, <2>1
  <2>4. \A z \in S : z < y => z \in A
    BY <1>1, <2>3
  <2> QED BY <2>2, <2>4
<1> QED BY <1>3, <1>6, <1>7 DEF Count

LEMMA NthExists ==
  ASSUME NEW S \in SUBSET Nat, IsFiniteSet(S), NEW i \in 0 .. Cardinality(S) - 1
  PROVE  \E x \in S : Count(S, x) = i
<1>1. Cardinality(S) \in Nat
  BY FS_CardinalityType
<1> DEFINE T == {j \in 0 .. Cardinality(S) - 1 : ~ \E x \in S : Count(S, x) = j}
<1>2. CASE T = {}
  BY <1>2
<1>3. CASE T # {}
  <2>1. T \in SUBSET Nat
    BY <1>1
  <2>2. PICK j \in T : \A k \in T : j <= k
    BY <1>3, <2>1, LeastMember
  <2>3. CASE j = 0
    <3>1. S # {}
      BY <1>1, <2>2, FS_EmptySet
    <3>2. Least(S) \in S /\ \A y \in S : Least(S) <= y
      BY <3>1, LeastMember
    <3>3. {y \in S : y < Least(S)} = {}
      <4>1. PICK m : m = Least(S)
        OBVIOUS
      <4>2. m \in Nat /\ \A y \in S : y \in Nat /\ m <= y
        BY <3>2, <4>1
      <4>3. \A y \in S : ~(y < m)
        BY <4>2
      <4> QED BY <4>1, <4>3
    <3>4. Count(S, Least(S)) = 0
      BY <3>3, FS_EmptySet DEF Count
    <3> QED BY <2>2, <2>3, <3>2, <3>4
  <2>4. CASE j # 0
    <3>1. j - 1 \in 0 .. Cardinality(S) - 1 /\ j - 1 \notin T /\ j \in Nat
      BY <1>1, <2>1, <2>2, <2>4
    <3>2. PICK x \in S : Count(S, x) = j - 1
      BY <3>1
    <3>3. \E y \in S : Count(S, y) = Count(S, x) + 1
      BY <1>1, <2>2, <3>1, <3>2, CountNext
    <3> QED BY <2>2, <3>1, <3>2, <3>3
  <2> QED BY <2>3, <2>4
<1> QED BY <1>2, <1>3

LEMMA NthMember ==
  ASSUME NEW S \in SUBSET Nat, IsFiniteSet(S), NEW i \in 0 .. Cardinality(S) - 1
  PROVE  Nth(S, i) \in S /\ Count(S, Nth(S, i)) = i
<1>1. \E x \in S : Cardinality({y \in S : y < x}) = i
  BY NthExists DEF Count
<1> QED BY <1>1 DEF Nth, Count

LEMMA NthOrder ==
  ASSUME NEW S \in SUBSET Nat, IsFiniteSet(S),
         NEW i \in 0 .. Cardinality(S) - 1, NEW j \in 0 .. Cardinality(S) - 1, i < j
  PROVE  Nth(S, i) < Nth(S, j)
<1>1. /\ Nth(S, i) \in S /\ Count(S, Nth(S, i)) = i
      /\ Nth(S, j) \in S /\ Count(S, Nth(S, j)) = j
  BY NthMember
<1>2. Nth(S, i) \in Nat /\ Nth(S, j) \in Nat /\ i \in Int /\ j \in Int
  <2>1. \A y \in S : y \in Nat
    OBVIOUS
  <2>2. i \in Int /\ j \in Int
    BY FS_CardinalityType
  <2> QED BY <1>1, <2>1, <2>2
<1>3. ~(Nth(S, j) < Nth(S, i))
  <2> SUFFICES ASSUME Nth(S, j) < Nth(S, i) PROVE FALSE
    OBVIOUS
  <2>1. Count(S, Nth(S, j)) < Count(S, Nth(S, i))
    BY <1>1, CountOrder
  <2> QED BY <1>1, <1>2, <2>1
<1>4. Nth(S, i) # Nth(S, j)
  BY <1>1
<1> QED BY <1>2, <1>3, <1>4

LEMMA NthOnto ==
  ASSUME NEW S \in SUBSET Nat, IsFiniteSet(S), NEW x \in S
  PROVE  Nth(S, Count(S, x)) = x
<1>1. Count(S, x) \in 0 .. Cardinality(S) - 1
  BY CountType
<1> DEFINE y == Nth(S, Count(S, x))
<1>2. y \in S /\ Count(S, y) = Count(S, x)
  BY <1>1, NthMember
<1> HIDE DEF y
<1>3. Count(S, x) \in Int
  BY <1>1
<1>4. ~(x < y) /\ ~(y < x)
  <2>1. x < y => Count(S, x) < Count(S, y)
    BY <1>2, CountOrder
  <2>2. y < x => Count(S, y) < Count(S, x)
    BY <1>2, CountOrder
  <2> QED BY <1>2, <1>3, <2>1, <2>2
<1>5. x \in Nat /\ y \in Nat
  BY <1>2
<1> QED BY <1>4, <1>5 DEF y

\* Ascending(S) is S without repetition, in order.
LEMMA AscendingOrder ==
  ASSUME NEW S \in SUBSET Nat, IsFiniteSet(S)
  PROVE  /\ Ascending(S) \in Seq(S) /\ Len(Ascending(S)) = Cardinality(S)
         /\ Cardinality(S) \in Nat
         /\ \A k \in 1 .. Cardinality(S) : Ascending(S)[k] = Nth(S, k - 1) /\ Ascending(S)[k] \in S
         /\ \A k, l \in 1 .. Cardinality(S) : k < l => Ascending(S)[k] < Ascending(S)[l]
         /\ \A x \in S : \E k \in 1 .. Cardinality(S) : Ascending(S)[k] = x
<1> DEFINE n == Cardinality(S)
           s == Ascending(S)
<1>1. n \in Nat
  BY FS_CardinalityType
<1>2. s = [k \in 1 .. n |-> Nth(S, k - 1)]
  BY DEF Ascending
<1> HIDE DEF s
<1>3. \A k \in 1 .. n : k - 1 \in 0 .. n - 1
  BY <1>1
<1>4. \A k \in 1 .. n : s[k] = Nth(S, k - 1) /\ s[k] \in S
  BY <1>2, <1>3, NthMember
<1>5. s \in Seq(S) /\ Len(s) = n
  BY <1>1, <1>2, <1>4
<1>6. \A k, l \in 1 .. n : k < l => s[k] < s[l]
  <2> SUFFICES ASSUME NEW k \in 1 .. n, NEW l \in 1 .. n, k < l PROVE s[k] < s[l]
    OBVIOUS
  <2>1. k - 1 \in 0 .. n - 1 /\ l - 1 \in 0 .. n - 1 /\ k - 1 < l - 1
    BY <1>1
  <2>2. Nth(S, k - 1) < Nth(S, l - 1)
    BY <2>1, NthOrder
  <2> QED BY <1>4, <2>2
<1>7. \A x \in S : \E k \in 1 .. n : s[k] = x
  <2> SUFFICES ASSUME NEW x \in S PROVE \E k \in 1 .. n : s[k] = x
    OBVIOUS
  <2>1. Count(S, x) \in 0 .. n - 1 /\ Nth(S, Count(S, x)) = x
    BY CountType, NthOnto
  <2>2. Count(S, x) + 1 \in 1 .. n /\ (Count(S, x) + 1) - 1 = Count(S, x)
    BY <1>1, <2>1
  <2> QED BY <1>4, <2>1, <2>2
<1> QED BY <1>1, <1>4, <1>5, <1>6, <1>7 DEF s

-----------------------------------------------------------------------------
(***************************************************************************)
(* The sizes of a program.                                                 *)
(***************************************************************************)
LEMMA Division ==
  ASSUME NEW d \in Nat \ {0}, NEW x \in Nat
  PROVE  x \div d \in Nat /\ d * (x \div d) <= x /\ x < d * (x \div d) + d
  OBVIOUS

LEMMA DivisionOrder ==
  ASSUME NEW d \in Nat \ {0}, NEW x \in Nat, NEW y \in Nat, x <= y
  PROVE  x \div d <= y \div d
<1> DEFINE a == x \div d
           b == y \div d
<1>1. a \in Nat /\ b \in Nat /\ d * a <= x /\ y < d * b + d
  BY Division
<1> HIDE DEF a, b
<1>2. ~(b + 1 <= a)
  <2> SUFFICES ASSUME b + 1 <= a PROVE FALSE
    OBVIOUS
  <2>1. d * (b + 1) <= d * a
    BY <1>1
  <2>2. d * (b + 1) = d * b + d
    BY <1>1
  <2>3. d * a \in Nat /\ d * b \in Nat
    BY <1>1
  <2> QED BY <1>1, <2>1, <2>2, <2>3
<1> QED BY <1>1, <1>2 DEF a, b

LEMMA DivisionBelow ==
  ASSUME NEW d \in Nat \ {0}, NEW n \in Nat, NEW x \in Nat, x < n * d
  PROVE  x \div d < n
<1> DEFINE a == x \div d
<1>1. a \in Nat /\ d * a <= x
  BY Division
<1> HIDE DEF a
<1>2. ~(n <= a)
  <2> SUFFICES ASSUME n <= a PROVE FALSE
    OBVIOUS
  <2>1. d * n <= d * a
    BY <1>1
  <2>2. d * n = n * d /\ d * n \in Nat /\ d * a \in Nat
    BY <1>1
  <2> QED BY <1>1, <2>1, <2>2
<1> QED BY <1>1, <1>2 DEF a

LEMMA ProgramSizes ==
  ASSUME IsProgram(prog)
  PROVE  /\ RamTop \in Nat /\ BitHi <= RamTop
         /\ RegEnd \in Nat /\ BankBytes <= RegEnd /\ RegEnd <= BitLo
         /\ DirectTop \in Nat /\ BitHi <= DirectTop /\ DirectTop <= Direct /\ DirectTop <= RamTop
         /\ (RamTop <= Direct => DirectTop = RamTop) /\ (Direct <= RamTop => DirectTop = Direct)
         /\ prog.bits \in Nat
<1>1. prog.iram \in BitHi .. MaxRam /\ prog.banks \in 1 .. BitLo \div BankBytes /\ prog.bits \in Nat
  BY DEF IsProgram
<1>2. RamTop \in Nat /\ BitHi <= RamTop
  BY <1>1, SizesAssumption DEF RamTop
<1>3. RegEnd \in Nat /\ BankBytes <= RegEnd /\ RegEnd <= BitLo
  <2> DEFINE b == BitLo \div BankBytes
  <2>1. b \in Nat /\ BankBytes * b <= BitLo
    BY SizesAssumption, Division
  <2> HIDE DEF b
  <2>2. prog.banks \in Nat /\ 1 <= prog.banks /\ prog.banks <= b
    BY <1>1, <2>1 DEF b
  <2>3. BankBytes * 1 <= BankBytes * prog.banks /\ BankBytes * prog.banks <= BankBytes * b
    BY <2>1, <2>2, SizesAssumption
  <2>4. BankBytes * prog.banks \in Nat /\ BankBytes * b \in Nat
    BY <2>1, <2>2, SizesAssumption
  <2> QED BY <2>1, <2>3, <2>4, SizesAssumption DEF RegEnd
<1>4. /\ DirectTop \in Nat /\ BitHi <= DirectTop /\ DirectTop <= Direct /\ DirectTop <= RamTop
      /\ (RamTop <= Direct => DirectTop = RamTop) /\ (Direct <= RamTop => DirectTop = Direct)
  BY <1>2, SizesAssumption DEF DirectTop
<1> QED BY <1>1, <1>2, <1>3, <1>4

LEMMA FrameNumbers ==
  Frame \in SUBSET Nat /\ 0 \notin Frame
  BY DEF Frame

-----------------------------------------------------------------------------
(***************************************************************************)
(* The tables: bits, and directly addressed bytes.                         *)
(***************************************************************************)
LEMMA FreeBitsFinite ==
  /\ FreeBits \in SUBSET Nat /\ IsFiniteSet(FreeBits) /\ Cardinality(FreeBits) \in Nat
  /\ \A b \in FreeBits : BitByte(b) \in (BitLo .. BitHi - 1) \ Reserved /\ b \div ByteBits \in Nat
                         /\ b \div ByteBits < BitHi - BitLo
<1> DEFINE n == BitHi - BitLo
           last == n * ByteBits - 1
<1>1. n \in Nat /\ ByteBits \in Nat \ {0} /\ n * ByteBits \in Nat
  <2>1. n \in Nat /\ ByteBits \in Nat
    BY SizesAssumption
  <2> HIDE DEF n
  <2> QED BY <2>1, SizesAssumption
<1> HIDE DEF n
<1>2. 0 .. last \in SUBSET Nat /\ IsFiniteSet(0 .. last)
  BY <1>1, FS_Interval
<1>3. FreeBits \in SUBSET (0 .. last)
  BY DEF FreeBits, n
<1>4. \A b \in FreeBits : b \in Nat /\ b < n * ByteBits
  BY <1>1, <1>3
<1>5. \A b \in FreeBits : b \div ByteBits \in Nat /\ b \div ByteBits < n
  BY <1>1, <1>4, Division, DivisionBelow
<1>6. \A b \in FreeBits : BitByte(b) \in (BitLo .. BitHi - 1) \ Reserved
  BY <1>5, SizesAssumption DEF FreeBits, BitByte, n
<1> QED BY <1>2, <1>3, <1>5, <1>6, FS_Subset, FS_CardinalityType DEF n

\* The bytes of the bit area in use end behind the last bit.
LEMMA BitBytesBound ==
  ASSUME NEW t \in Nat, t <= Cardinality(FreeBits)
  PROVE  /\ BitBytes(t) \in Nat /\ BitLo + BitBytes(t) <= BitHi
         /\ \A v \in Nat : v < t => BitByte(Nth(FreeBits, v)) \in BytesFrom(BitLo, BitBytes(t))
<1> DEFINE n == Cardinality(FreeBits)
<1>1. n \in Nat /\ FreeBits \in SUBSET Nat /\ IsFiniteSet(FreeBits)
  BY FreeBitsFinite
<1>2. CASE t = 0
  BY <1>2, SizesAssumption DEF BitBytes
<1>3. CASE t # 0
  <2> DEFINE b == Nth(FreeBits, t - 1)
             d == b \div ByteBits
  <2>1. t - 1 \in 0 .. n - 1
    BY <1>1, <1>3
  <2>2. b \in FreeBits
    BY <1>1, <2>1, NthMember
  <2>3. d \in Nat /\ d < BitHi - BitLo /\ b \in Nat
    BY <1>1, <2>2, FreeBitsFinite
  <2>4. BitBytes(t) = d + 1
    BY <1>3 DEF BitBytes
  <2> HIDE DEF d, b
  <2>5. ASSUME NEW v \in Nat, v < t
        PROVE  BitByte(Nth(FreeBits, v)) \in BytesFrom(BitLo, BitBytes(t))
    <3>1. v \in 0 .. n - 1 /\ (v = t - 1 \/ v < t - 1)
      BY <1>1, <2>5
    <3> DEFINE c == Nth(FreeBits, v)
    <3>2. c \in FreeBits /\ (c = b \/ c < b)
      BY <1>1, <2>1, <3>1, NthMember, NthOrder DEF b
    <3> HIDE DEF c
    <3>3. c \in Nat /\ c <= b
      BY <1>1, <2>3, <3>2
    <3>4. c \div ByteBits <= d /\ c \div ByteBits \in Nat
      BY <2>3, <3>2, <3>3, DivisionOrder, FreeBitsFinite, SizesAssumption DEF d
    <3>5. BitByte(c) \in BytesFrom(BitLo, d + 1)
      BY <2>3, <3>4, SizesAssumption DEF BitByte, BytesFrom
    <3> QED BY <2>4, <3>5 DEF c
  <2> QED BY <2>3, <2>4, <2>5, SizesAssumption
<1> QED BY <1>2, <1>3

LEMMA UsableFinite ==
  ASSUME IsProgram(prog), NEW n \in Nat
  PROVE  /\ Usable(n) \in SUBSET Nat /\ IsFiniteSet(Usable(n))
         /\ Usable(n) \in SUBSET (0 .. DirectTop - 1)
<1>1. RegEnd \in Nat /\ DirectTop \in Nat
  BY ProgramSizes
<1>2. Usable(n) \in SUBSET (0 .. DirectTop - 1)
  BY <1>1 DEF Usable
<1>3. IsFiniteSet(0 .. DirectTop - 1) /\ 0 .. DirectTop - 1 \in SUBSET Nat
  BY <1>1, FS_Interval
<1> QED BY <1>2, <1>3, FS_Subset

\* What the table of direct addresses is once the bits are placed.
Tabled == phys = Ascending(Usable(BitBytes(bitTotal))) /\ bitTotal \in Nat /\ bitTotal <= Cardinality(FreeBits)

LEMMA Table ==
  ASSUME IsProgram(prog), Tabled
  PROVE  /\ phys \in Seq(0 .. DirectTop - 1) /\ Capacity \in Nat
         /\ \A v \in 0 .. Capacity - 1 :
              /\ Addr(v) \in (RegEnd .. DirectTop - 1) \ (Reserved \cup UsedBits)
              /\ Addr(v) \in Nat
         /\ \A v, w \in 0 .. Capacity - 1 : v < w => Addr(v) < Addr(w)
<1> DEFINE u == Usable(BitBytes(bitTotal))
<1>1. BitBytes(bitTotal) \in Nat
  BY BitBytesBound DEF Tabled
<1>2. u \in SUBSET Nat /\ IsFiniteSet(u) /\ u \in SUBSET (0 .. DirectTop - 1)
  BY <1>1, UsableFinite
<1>3. u \in SUBSET ((RegEnd .. DirectTop - 1) \ (Reserved \cup UsedBits))
  BY DEF Usable, UsedBits
<1> HIDE DEF u
<1>4. phys = Ascending(u)
  BY DEF Tabled, u
<1>5. /\ phys \in Seq(u) /\ Len(phys) = Cardinality(u) /\ Cardinality(u) \in Nat
      /\ \A k \in 1 .. Cardinality(u) : phys[k] \in u
      /\ \A k, l \in 1 .. Cardinality(u) : k < l => phys[k] < phys[l]
  BY <1>2, <1>4, AscendingOrder
<1>6. Capacity = Cardinality(u) /\ Capacity \in Nat
  BY <1>5 DEF Capacity
<1>7. \A v \in 0 .. Capacity - 1 : v + 1 \in 1 .. Capacity /\ Addr(v) = phys[v + 1]
  BY <1>6 DEF Addr
<1>8. \A v \in 0 .. Capacity - 1 : Addr(v) \in u
  BY <1>5, <1>6, <1>7
<1>9. \A v, w \in 0 .. Capacity - 1 : v < w => Addr(v) < Addr(w)
  <2> SUFFICES ASSUME NEW v \in 0 .. Capacity - 1, NEW w \in 0 .. Capacity - 1, v < w
               PROVE  Addr(v) < Addr(w)
    OBVIOUS
  <2>1. v + 1 \in 1 .. Capacity /\ w + 1 \in 1 .. Capacity /\ v + 1 < w + 1
    BY <1>6
  <2> QED BY <1>5, <1>6, <1>7, <2>1
<1>10. phys \in Seq(0 .. DirectTop - 1)
  <2>1. phys = [k \in 1 .. Cardinality(u) |-> Nth(u, k - 1)]
    BY <1>4 DEF Ascending
  <2>2. \A k \in 1 .. Cardinality(u) : phys[k] \in 0 .. DirectTop - 1
    BY <1>2, <1>5
  <2>3. phys \in [1 .. Cardinality(u) -> 0 .. DirectTop - 1]
    BY <2>1, <2>2
  <2>4. PICK n \in Nat : n = Cardinality(u)
    BY <1>5
  <2>5. PICK D : D = 0 .. DirectTop - 1
    OBVIOUS
  <2>6. phys \in [1 .. n -> D]
    BY <2>3, <2>4, <2>5
  <2>7. phys \in Seq(D)
    BY <2>6
  <2> QED BY <2>5, <2>7
<1> QED BY <1>2, <1>3, <1>6, <1>8, <1>9, <1>10

-----------------------------------------------------------------------------
(***************************************************************************)
(* An object that fits lies at consecutive addresses.                      *)
(***************************************************************************)
LEMMA AddrGrows ==
  ASSUME IsProgram(prog), Tabled, NEW v \in Nat, NEW d \in Nat, v + d < Capacity
  PROVE  Addr(v) + d <= Addr(v + d)
<1> DEFINE T == {e \in Nat : v + e < Capacity /\ ~(Addr(v) + e <= Addr(v + e))}
<1>1. Capacity \in Nat /\ \A w \in Nat : w < Capacity => w \in 0 .. Capacity - 1
  BY Table
<1>2. \A w \in Nat : w < Capacity => Addr(w) \in Nat
  BY <1>1, Table
<1>3. CASE T = {}
  BY <1>3
<1>4. CASE T # {}
  <2>1. T \in SUBSET Nat
    OBVIOUS
  <2>2. PICK e \in T : \A x \in T : e <= x
    BY <1>4, <2>1, LeastMember
  <2>3. e \in Nat /\ v + e < Capacity /\ ~(Addr(v) + e <= Addr(v + e))
    BY <2>2
  <2>4. e # 0
    <3>1. Addr(v) \in Nat
      BY <1>1, <1>2, <2>3
    <3>2. v + 0 = v
      OBVIOUS
    <3> QED BY <2>3, <3>1, <3>2
  <2>5. e - 1 \in Nat /\ ~(e <= e - 1) /\ v + (e - 1) \in Nat /\ v + (e - 1) < v + e /\ v + e \in Nat
    BY <2>3, <2>4
  <2>6. e - 1 \notin T
    <3> HIDE DEF T
    <3> QED BY <2>2, <2>5
  <2>7. v + (e - 1) < Capacity
    BY <1>1, <2>3, <2>5
  <2>8. Addr(v) + (e - 1) <= Addr(v + (e - 1))
    BY <2>5, <2>6, <2>7
  <2>9. Addr(v + (e - 1)) < Addr(v + e)
    BY <1>1, <2>3, <2>5, <2>7, Table
  <2>10. Addr(v) \in Nat /\ Addr(v + (e - 1)) \in Nat /\ Addr(v + e) \in Nat
    BY <1>1, <1>2, <2>3, <2>5, <2>7
  <2> QED BY <2>3, <2>8, <2>9, <2>10
<1> QED BY <1>3, <1>4

LEMMA WholeBytes ==
  ASSUME IsProgram(prog), Tabled, NEW v \in Nat, NEW n \in Nat \ {0}, v + n <= Capacity,
         Addr(v + n - 1) = Addr(v) + n - 1, NEW k \in 0 .. n - 1
  PROVE  Addr(v + k) = Addr(v) + k
<1>1. Capacity \in Nat
  BY Table
<1>2. /\ v + k \in Nat /\ v + k < Capacity /\ n - 1 - k \in Nat
      /\ (v + k) + (n - 1 - k) = v + n - 1 /\ v + n - 1 < Capacity
      /\ v \in 0 .. Capacity - 1 /\ v + k \in 0 .. Capacity - 1 /\ k \in Nat
  BY <1>1
<1>3. Addr(v) + k <= Addr(v + k)
  BY <1>2, AddrGrows
<1>4. Addr(v + k) + (n - 1 - k) <= Addr((v + k) + (n - 1 - k))
  BY <1>2, AddrGrows
<1>5. Addr(v) \in Nat /\ Addr(v + k) \in Nat
  BY <1>2, Table
<1>6. Addr((v + k) + (n - 1 - k)) = Addr(v) + n - 1
  BY <1>2
<1> QED BY <1>2, <1>3, <1>4, <1>5, <1>6

LEMMA FitPlace ==
  ASSUME IsProgram(prog), Tabled, NEW v \in Nat, NEW n \in Nat \ {0}, HasAddr(Fit(v, n))
  PROVE  LET w == Fit(v, n)
         IN w \in Nat /\ v <= w /\ w + n <= Capacity /\ Addr(w + n - 1) = Addr(w) + n - 1
<1> DEFINE whole == {w \in v .. Capacity : w + n <= Capacity /\ Addr(w + n - 1) = Addr(w) + n - 1}
<1>1. Capacity \in Nat
  BY Table
<1>2. CASE whole = {}
  <2>1. Fit(v, n) = Largest({v, Capacity})
    BY <1>2 DEF Fit
  <2>2. {v, Capacity} \in SUBSET Nat /\ {v, Capacity} # {} /\ IsFiniteSet({v, Capacity})
    <3>1. IsFiniteSet({v} \cup {Capacity})
      BY FS_Singleton, FS_Union
    <3>2. {v} \cup {Capacity} = {v, Capacity}
      OBVIOUS
    <3> QED BY <1>1, <3>1, <3>2
  <2>3. Capacity <= Fit(v, n) /\ Fit(v, n) \in Nat
    BY <1>1, <2>1, <2>2, GreatestMember
  <2> QED BY <1>1, <2>3 DEF HasAddr
<1>3. CASE whole # {}
  <2>1. Fit(v, n) = Least(whole)
    BY <1>3 DEF Fit
  <2>2. whole \in SUBSET Nat
    OBVIOUS
  <2>3. Fit(v, n) \in whole
    <3> HIDE DEF whole
    <3> QED BY <1>3, <2>1, <2>2, LeastMember
  <2> QED BY <2>3
<1> QED BY <1>2, <1>3

-----------------------------------------------------------------------------
(***************************************************************************)
(* Lists: every member of a set once.                                      *)
(***************************************************************************)
Lists(s, S) ==
  /\ s \in Seq(S)
  /\ \A x \in S : \E k \in 1 .. Len(s) : s[k] = x
  /\ \A k, l \in 1 .. Len(s) : s[k] = s[l] => k = l

LEMMA AscendingLists ==
  ASSUME NEW S \in SUBSET Nat, IsFiniteSet(S)
  PROVE  Lists(Ascending(S), S)
<1> DEFINE n == Cardinality(S)
           s == Ascending(S)
<1>1. /\ s \in Seq(S) /\ Len(s) = n /\ n \in Nat
      /\ \A k \in 1 .. n : s[k] \in S
      /\ \A k, l \in 1 .. n : k < l => s[k] < s[l]
      /\ \A x \in S : \E k \in 1 .. n : s[k] = x
  BY AscendingOrder
<1> HIDE DEF s, n
<1>2. \A k, l \in 1 .. n : s[k] = s[l] => k = l
  <2> SUFFICES ASSUME NEW k \in 1 .. n, NEW l \in 1 .. n, s[k] = s[l] PROVE k = l
    OBVIOUS
  <2>1. s[k] \in Nat /\ s[l] \in Nat
    BY <1>1
  <2>2. k < l => s[k] < s[l]
    BY <1>1
  <2>3. l < k => s[l] < s[k]
    BY <1>1
  <2> QED BY <1>1, <2>1, <2>2, <2>3
<1> QED BY <1>1, <1>2 DEF Lists, s

LEMMA ConcatLists ==
  ASSUME NEW A, NEW B, NEW s, NEW t, Lists(s, A), Lists(t, B), A \cap B = {}
  PROVE  Lists(s \o t, A \cup B)
<1> DEFINE c == s \o t
<1>1. s \in Seq(A) /\ t \in Seq(B) /\ Len(s) \in Nat /\ Len(t) \in Nat
  BY DEF Lists
<1>2. /\ c \in Seq(A \cup B) /\ Len(c) = Len(s) + Len(t)
      /\ \A k \in 1 .. Len(s) : c[k] = s[k] /\ s[k] \in A
      /\ \A k \in 1 .. Len(t) : c[Len(s) + k] = t[k] /\ t[k] \in B
  <2>1. s \in Seq(A \cup B) /\ t \in Seq(A \cup B)
    BY <1>1
  <2> QED BY <1>1, <2>1
<1> HIDE DEF c
<1>3. \A k \in 1 .. Len(c) : k \in 1 .. Len(s) \/ \E j \in 1 .. Len(t) : k = Len(s) + j
  <2> SUFFICES ASSUME NEW k \in 1 .. Len(c), k \notin 1 .. Len(s)
               PROVE \E j \in 1 .. Len(t) : k = Len(s) + j
    OBVIOUS
  <2>1. k - Len(s) \in 1 .. Len(t) /\ k = Len(s) + (k - Len(s))
    BY <1>1, <1>2
  <2> QED BY <2>1
<1>4. \A x \in A \cup B : \E k \in 1 .. Len(c) : c[k] = x
  <2>1. ASSUME NEW x \in A PROVE \E k \in 1 .. Len(c) : c[k] = x
    <3>1. PICK k \in 1 .. Len(s) : s[k] = x
      BY DEF Lists
    <3>2. k \in 1 .. Len(c) /\ c[k] = x
      BY <1>1, <1>2, <3>1
    <3> QED BY <3>2
  <2>2. ASSUME NEW x \in B PROVE \E k \in 1 .. Len(c) : c[k] = x
    <3>1. PICK k \in 1 .. Len(t) : t[k] = x
      BY DEF Lists
    <3>2. Len(s) + k \in 1 .. Len(c) /\ c[Len(s) + k] = x
      BY <1>1, <1>2, <3>1
    <3> QED BY <3>2
  <2> QED BY <2>1, <2>2
<1>5. \A k, l \in 1 .. Len(c) : c[k] = c[l] => k = l
  <2> SUFFICES ASSUME NEW k \in 1 .. Len(c), NEW l \in 1 .. Len(c), c[k] = c[l] PROVE k = l
    OBVIOUS
  <2>1. CASE k \in 1 .. Len(s) /\ l \in 1 .. Len(s)
    BY <1>2, <2>1 DEF Lists
  <2>2. CASE k \in 1 .. Len(s) /\ l \notin 1 .. Len(s)
    BY <1>2, <1>3, <2>2
  <2>3. CASE k \notin 1 .. Len(s) /\ l \in 1 .. Len(s)
    BY <1>2, <1>3, <2>3
  <2>4. CASE k \notin 1 .. Len(s) /\ l \notin 1 .. Len(s)
    <3>1. PICK i \in 1 .. Len(t) : k = Len(s) + i
      BY <1>3, <2>4
    <3>2. PICK j \in 1 .. Len(t) : l = Len(s) + j
      BY <1>3, <2>4
    <3>3. t[i] = t[j]
      BY <1>2, <3>1, <3>2
    <3>4. i = j
      BY <3>3 DEF Lists
    <3> QED BY <3>1, <3>2, <3>4
  <2> QED BY <2>1, <2>2, <2>3, <2>4
<1> QED BY <1>2, <1>4, <1>5 DEF Lists, c

LEMMA NumbersFinite ==
  ASSUME NEW n \in Nat, NEW S \in SUBSET (1 .. n)
  PROVE  S \in SUBSET Nat /\ IsFiniteSet(S)
<1>1. IsFiniteSet(1 .. n)
  BY FS_Interval
<1>2. IsFiniteSet(S)
  BY <1>1, FS_Subset
<1>3. S \in SUBSET Nat
  OBVIOUS
<1> QED BY <1>2, <1>3

LEMMA InOrderLists ==
  ASSUME IsProgram(prog), NEW S \in SUBSET (1 .. Len(prog.globals))
  PROVE  Lists(InOrder(S), S)
<1> DEFINE live == {g \in S : ~AllZero(prog.globals[g].init)}
<1>1. Len(prog.globals) \in Nat
  BY DEF IsProgram
<1>2. live \in SUBSET (1 .. Len(prog.globals)) /\ S \ live \in SUBSET (1 .. Len(prog.globals))
  OBVIOUS
<1>3. live \cap (S \ live) = {} /\ S = live \cup (S \ live)
  OBVIOUS
<1>4. InOrder(S) = Ascending(live) \o Ascending(S \ live)
  BY DEF InOrder
<1> HIDE DEF live
<1>5. Lists(Ascending(live), live) /\ Lists(Ascending(S \ live), S \ live)
  BY <1>1, <1>2, NumbersFinite, AscendingLists
<1>6. Lists(Ascending(live) \o Ascending(S \ live), live \cup (S \ live))
  BY <1>3, <1>5, ConcatLists
<1> QED BY <1>3, <1>4, <1>6

-----------------------------------------------------------------------------
(***************************************************************************)
(* What there is to place.                                                 *)
(***************************************************************************)
IsUpper(name) ==
  name[1] = "object" /\ IF name[2] = 0 THEN UpperGlobal(name[3])
                        ELSE UpperObject(Frames[name[2]].objects[name[3]])

\* The area an item belongs to.
AreaOf(name) == IF name[1] = "bit" THEN "bits" ELSE IF IsUpper(name) THEN "upper" ELSE "direct"

\* An item of area a and frame f.
IsItem(a, f, i) ==
  /\ i.size \in Nat \ {0}
  /\ i.name[2] = f /\ AreaOf(i.name) = a
  /\ i.name[1] = "bit" <=> a = "bits"
  /\ a = "bits" => i.size = 1
  /\ f = 0 /\ a # "bits" =>
       \E g \in 1 .. Len(prog.globals) :
         i.name = <<"object", 0, g>> /\ i.size = prog.globals[g].size

Item == [name : {"bit", "slot", "object"} \X Nat \X Nat, size : Nat \ {0}]

\* A sequence of items with different names.
AreItems(a, f, s) ==
  /\ s \in Seq(Item) /\ Len(s) \in Nat
  /\ \A k \in 1 .. Len(s) : IsItem(a, f, s[k])
  /\ \A k, l \in 1 .. Len(s) : s[k].name = s[l].name => k = l

LEMMA AreaNames ==
  ASSUME NEW a \in Area
  PROVE  a = "bits" \/ a = "upper" \/ a = "direct"
BY DEF Area

LEMMA ProgramShape ==
  ASSUME IsProgram(prog)
  PROVE  /\ Len(prog.globals) \in Nat /\ Len(prog.fixed) \in Nat /\ Len(Frames) \in Nat
         /\ \A g \in 1 .. Len(prog.globals) :
              /\ prog.globals[g].size \in Nat \ {0} /\ prog.globals[g].init \in Seq(Byte)
              /\ prog.globals[g].idata \in BOOLEAN /\ prog.globals[g].big \in BOOLEAN
              /\ Len(prog.globals[g].init) \in {0, prog.globals[g].size}
         /\ \A x \in 1 .. Len(prog.fixed) :
              /\ prog.fixed[x].at \in Nat /\ prog.fixed[x].size \in Nat \ {0}
              /\ prog.fixed[x].init \in Seq(Byte)
              /\ Len(prog.fixed[x].init) \in {0, prog.fixed[x].size}
         /\ \A f \in Frame :
              /\ Frames[f].slots \in Nat /\ Frames[f].bits \in Nat
              /\ Frames[f].isr \in BOOLEAN
              /\ Len(Frames[f].objects) \in Nat
              /\ \A k \in 1 .. Len(Frames[f].objects) :
                   /\ Frames[f].objects[k].size \in Nat \ {0}
                   /\ Frames[f].objects[k].kind \in {"data", "idata", "param"}
              /\ Frames[f].callers \in SUBSET Frame
              /\ \A c \in Frames[f].callers : c < f /\ c \in Nat
              /\ Frames[f].isr \/ \A c \in Frames[f].callers : ~Frames[c].isr
<1> DEFINE G == [size : Nat \ {0}, idata : BOOLEAN, big : BOOLEAN, init : Seq(Byte)]
           X == [at : 0 .. MaxRam - 1, size : Nat \ {0}, init : Seq(Byte)]
           B == [size : Nat \ {0}, kind : {"data", "idata", "param"}]
           F == [callers : SUBSET Nat, isr : BOOLEAN, slots : Nat, bits : Nat, objects : Seq(B)]
<1>1. prog.globals \in Seq(G) /\ prog.fixed \in Seq(X) /\ Frames \in Seq(F)
  BY DEF IsProgram, Frames
<1>2. /\ \A g \in 1 .. Len(prog.globals) : Len(prog.globals[g].init) \in {0, prog.globals[g].size}
      /\ \A x \in 1 .. Len(prog.fixed) : Len(prog.fixed[x].init) \in {0, prog.fixed[x].size}
      /\ \A f \in 1 .. Len(Frames) :
           /\ Frames[f].callers \subseteq 1 .. f - 1
           /\ Frames[f].isr \/ \A c \in Frames[f].callers : ~Frames[c].isr
  BY DEF IsProgram, Frames
<1>3. \A g \in 1 .. Len(prog.globals) : prog.globals[g] \in G
  <2> HIDE DEF G
  <2> QED BY <1>1
<1>4. \A x \in 1 .. Len(prog.fixed) : prog.fixed[x] \in X
  <2> HIDE DEF X
  <2> QED BY <1>1
<1>5. \A f \in Frame : Frames[f] \in F
  <2> HIDE DEF F
  <2> QED BY <1>1 DEF Frame
<1>6. Len(prog.globals) \in Nat /\ Len(prog.fixed) \in Nat /\ Len(Frames) \in Nat
  <2> HIDE DEF G, X, F
  <2> QED BY <1>1
<1>7. \A g \in 1 .. Len(prog.globals) :
        /\ prog.globals[g].size \in Nat \ {0} /\ prog.globals[g].init \in Seq(Byte)
        /\ prog.globals[g].idata \in BOOLEAN /\ prog.globals[g].big \in BOOLEAN
  BY <1>3
<1>8. \A x \in 1 .. Len(prog.fixed) :
        /\ prog.fixed[x].at \in Nat /\ prog.fixed[x].size \in Nat \ {0}
        /\ prog.fixed[x].init \in Seq(Byte)
  BY <1>4, SizesAssumption
<1>9. \A f \in Frame : /\ Frames[f].slots \in Nat /\ Frames[f].bits \in Nat
                       /\ Frames[f].isr \in BOOLEAN /\ Frames[f].objects \in Seq(B)
  <2> HIDE DEF B
  <2> QED BY <1>5
<1>10. ASSUME NEW f \in Frame
       PROVE  /\ Len(Frames[f].objects) \in Nat
              /\ \A k \in 1 .. Len(Frames[f].objects) : Frames[f].objects[k] \in B
  <2> HIDE DEF B
  <2> QED BY <1>9
<1>11. \A f \in Frame : \A k \in 1 .. Len(Frames[f].objects) :
         /\ Frames[f].objects[k].size \in Nat \ {0}
         /\ Frames[f].objects[k].kind \in {"data", "idata", "param"}
  BY <1>10
<1>12. ASSUME NEW f \in Frame
       PROVE  /\ Frames[f].callers \in SUBSET Frame
              /\ \A c \in Frames[f].callers : c < f /\ c \in Nat
  <2>1. f \in 1 .. Len(Frames) /\ Frames[f].callers \subseteq 1 .. f - 1
    BY <1>2 DEF Frame
  <2>2. \A c \in 1 .. f - 1 : c \in 1 .. Len(Frames) /\ c < f /\ c \in Nat
    BY <1>6, <2>1
  <2> QED BY <2>1, <2>2 DEF Frame
<1>13. \A f \in Frame : Frames[f].isr \/ \A c \in Frames[f].callers : ~Frames[c].isr
  BY <1>2 DEF Frame
<1> HIDE DEF G, X, B, F
<1> QED BY <1>2, <1>6, <1>7, <1>8, <1>9, <1>10, <1>11, <1>12, <1>13

LEMMA SingleItems ==
  ASSUME NEW kind \in {"bit", "slot"}, NEW f \in Nat, NEW n \in Nat, kind = "slot" => f # 0
  PROVE  /\ AreItems(IF kind = "bit" THEN "bits" ELSE "direct", f, Singles(kind, f, n))
         /\ Len(Singles(kind, f, n)) = n
         /\ \A k \in 1 .. n : Singles(kind, f, n)[k].name[1] = kind
<1> DEFINE s == Singles(kind, f, n)
<1>1. Len(s) = n /\ \A k \in 1 .. n : s[k] = [name |-> <<kind, f, k>>, size |-> 1]
  BY DEF Singles
<1>2. \A k \in 1 .. n : s[k].name = <<kind, f, k>> /\ s[k].size = 1
  BY <1>1
<1>3. s \in Seq(Item)
  <2>1. \A k \in 1 .. n : [name |-> <<kind, f, k>>, size |-> 1] \in Item
    BY DEF Item
  <2> HIDE DEF Item
  <2>2. [k \in 1 .. n |-> [name |-> <<kind, f, k>>, size |-> 1]] \in [1 .. n -> Item]
    BY <2>1
  <2> QED BY <2>2 DEF Singles
<1> HIDE DEF s
<1>4. \A k \in 1 .. n : s[k].name[1] = kind /\ s[k].name[2] = f /\ s[k].name[3] = k
  BY <1>2
<1>5. \A k \in 1 .. n : IsItem(IF kind = "bit" THEN "bits" ELSE "direct", f, s[k])
  BY <1>2, <1>4 DEF IsItem, AreaOf, IsUpper
<1>6. \A k, l \in 1 .. n : s[k].name = s[l].name => k = l
  BY <1>4
<1> QED BY <1>1, <1>4, <1>5, <1>6, <1>3 DEF AreItems, s

LEMMA GlobalsAreItems ==
  ASSUME IsProgram(prog), moved \in BOOLEAN, NEW upper \in BOOLEAN
  PROVE  /\ AreItems(IF upper THEN "upper" ELSE "direct", 0, GlobalItems(upper))
         /\ \A g \in 1 .. Len(prog.globals) : UpperGlobal(g) = upper =>
              \E k \in 1 .. Len(GlobalItems(upper)) : GlobalItems(upper)[k].name = <<"object", 0, g>>
<1> DEFINE S == {g \in 1 .. Len(prog.globals) : UpperGlobal(g) = upper}
           a == IF upper THEN "upper" ELSE "direct"
           s == GlobalItems(upper)
<1>1. PICK gs : gs = InOrder(S)
  OBVIOUS
<1>2. Lists(gs, S)
  BY <1>1, InOrderLists
<1>3. s = [k \in 1 .. Len(gs) |-> [name |-> <<"object", 0, gs[k]>>,
                                   size |-> prog.globals[gs[k]].size]]
  BY <1>1 DEF GlobalItems
<1>4. \A g \in S : g \in 1 .. Len(prog.globals) /\ UpperGlobal(g) = upper
  OBVIOUS
<1>5. \A g \in 1 .. Len(prog.globals) : UpperGlobal(g) \in BOOLEAN
  BY ProgramShape DEF UpperGlobal
<1> HIDE DEF S, s
<1>6. gs \in Seq(S) /\ Len(gs) \in Nat /\ \A k \in 1 .. Len(gs) : gs[k] \in S
  BY <1>2 DEF Lists
<1>7. Len(s) = Len(gs) /\ \A k \in 1 .. Len(gs) : s[k] = [name |-> <<"object", 0, gs[k]>>,
                                                        size |-> prog.globals[gs[k]].size]
  BY <1>3, <1>6
<1>8. \A k \in 1 .. Len(gs) : s[k].name = <<"object", 0, gs[k]>> /\ s[k].size = prog.globals[gs[k]].size
  <2> SUFFICES ASSUME NEW k \in 1 .. Len(gs)
               PROVE  s[k].name = <<"object", 0, gs[k]>> /\ s[k].size = prog.globals[gs[k]].size
    OBVIOUS
  <2> DEFINE n == <<"object", 0, gs[k]>>
             z == prog.globals[gs[k]].size
  <2>1. s[k] = [name |-> n, size |-> z]
    BY <1>7
  <2> HIDE DEF n, z
  <2>2. s[k].name = n /\ s[k].size = z
    BY <2>1
  <2> QED BY <2>2 DEF n, z
<1>9. \A k \in 1 .. Len(gs) : /\ s[k].name[1] = "object" /\ s[k].name[2] = 0
                              /\ s[k].name[3] = gs[k]
  BY <1>8
<1>10. ASSUME NEW k \in 1 .. Len(gs) PROVE IsItem(a, 0, s[k])
  <2>1. gs[k] \in 1 .. Len(prog.globals) /\ UpperGlobal(gs[k]) = upper
    BY <1>4, <1>6
  <2>2. s[k].size \in Nat \ {0}
    BY <1>8, <2>1, ProgramShape
  <2>3. IsUpper(s[k].name) = upper
    BY <1>9, <2>1 DEF IsUpper
  <2>4. AreaOf(s[k].name) = a
    BY <1>9, <2>3 DEF AreaOf
  <2> QED BY <1>8, <1>9, <2>1, <2>2, <2>4 DEF IsItem
<1>11. \A k, l \in 1 .. Len(gs) : s[k].name = s[l].name => k = l
  <2>1. \A k, l \in 1 .. Len(gs) : gs[k] = gs[l] => k = l
    BY <1>2 DEF Lists
  <2> QED BY <1>9, <2>1
<1>12. ASSUME NEW g \in 1 .. Len(prog.globals), UpperGlobal(g) = upper
       PROVE  \E k \in 1 .. Len(s) : s[k].name = <<"object", 0, g>>
  <2>1. g \in S
    BY <1>12 DEF S
  <2>2. PICK k \in 1 .. Len(gs) : gs[k] = g
    BY <1>2, <2>1 DEF Lists
  <2> QED BY <1>7, <1>8, <2>2
<1>13. s \in Seq(Item)
  <2>1. \A k \in 1 .. Len(gs) : gs[k] \in Nat /\ prog.globals[gs[k]].size \in Nat \ {0}
    BY <1>4, <1>6, ProgramShape
  <2>2. \A k \in 1 .. Len(gs) : [name |-> <<"object", 0, gs[k]>>, size |-> prog.globals[gs[k]].size] \in Item
    BY <2>1 DEF Item
  <2>3. s \in [1 .. Len(gs) -> Item]
    <3> HIDE DEF Item
    <3> QED BY <1>3, <2>2
  <2> QED BY <1>6, <2>3
<1> QED BY <1>6, <1>7, <1>10, <1>11, <1>12, <1>13 DEF AreItems, s

LEMMA ObjectsAreItems ==
  ASSUME IsProgram(prog), moved \in BOOLEAN, NEW f \in Frame, NEW upper \in BOOLEAN
  PROVE  /\ AreItems(IF upper THEN "upper" ELSE "direct", f, ObjectItems(f, upper))
         /\ \A k \in 1 .. Len(ObjectItems(f, upper)) : ObjectItems(f, upper)[k].name[1] = "object"
<1> DEFINE objs == Frames[f].objects
           S == {k \in 1 .. Len(objs) : UpperObject(objs[k]) = upper}
           a == IF upper THEN "upper" ELSE "direct"
           s == ObjectItems(f, upper)
<1>1. PICK ks : ks = Ascending(S)
  OBVIOUS
<1>2. Len(objs) \in Nat /\ f # 0 /\ \A k \in 1 .. Len(objs) : objs[k].size \in Nat \ {0}
  BY ProgramShape, FrameNumbers
<1>3. s = [k \in 1 .. Len(ks) |-> [name |-> <<"object", f, ks[k]>>, size |-> objs[ks[k]].size]]
  BY <1>1 DEF ObjectItems
<1>4. \A k \in S : k \in 1 .. Len(objs) /\ UpperObject(objs[k]) = upper
  OBVIOUS
<1>5. S \in SUBSET (1 .. Len(objs))
  OBVIOUS
<1> HIDE DEF S, s
<1>6. Lists(ks, S)
  <2>1. S \in SUBSET Nat /\ IsFiniteSet(S)
    BY <1>2, <1>5, NumbersFinite
  <2> QED BY <1>1, <2>1, AscendingLists
<1>7. ks \in Seq(S) /\ Len(ks) \in Nat /\ \A k \in 1 .. Len(ks) : ks[k] \in S
  BY <1>6 DEF Lists
<1>8. Len(s) = Len(ks) /\ \A k \in 1 .. Len(ks) : s[k] = [name |-> <<"object", f, ks[k]>>,
                                                        size |-> objs[ks[k]].size]
  BY <1>3, <1>7
<1>9. \A k \in 1 .. Len(ks) : s[k].name = <<"object", f, ks[k]>> /\ s[k].size = objs[ks[k]].size
  <2> SUFFICES ASSUME NEW k \in 1 .. Len(ks)
               PROVE  s[k].name = <<"object", f, ks[k]>> /\ s[k].size = objs[ks[k]].size
    OBVIOUS
  <2> DEFINE n == <<"object", f, ks[k]>>
             z == objs[ks[k]].size
  <2>1. s[k] = [name |-> n, size |-> z]
    BY <1>8
  <2> HIDE DEF n, z
  <2>2. s[k].name = n /\ s[k].size = z
    BY <2>1
  <2> QED BY <2>2 DEF n, z
<1>10. \A k \in 1 .. Len(ks) : /\ s[k].name[1] = "object" /\ s[k].name[2] = f
                               /\ s[k].name[3] = ks[k]
  BY <1>9
<1>11. ASSUME NEW k \in 1 .. Len(ks) PROVE IsItem(a, f, s[k])
  <2>1. ks[k] \in 1 .. Len(objs) /\ UpperObject(objs[ks[k]]) = upper
    BY <1>4, <1>7
  <2>2. s[k].size \in Nat \ {0}
    BY <1>2, <1>9, <2>1
  <2>3. IsUpper(s[k].name) = upper
    BY <1>2, <1>10, <2>1 DEF IsUpper
  <2>4. AreaOf(s[k].name) = a
    BY <1>10, <2>3 DEF AreaOf
  <2> QED BY <1>2, <1>10, <2>2, <2>4 DEF IsItem
<1>12. \A k, l \in 1 .. Len(ks) : s[k].name = s[l].name => k = l
  <2>1. \A k, l \in 1 .. Len(ks) : ks[k] = ks[l] => k = l
    BY <1>6 DEF Lists
  <2> QED BY <1>10, <2>1
<1>13. s \in Seq(Item)
  <2>1. \A k \in 1 .. Len(ks) : ks[k] \in Nat /\ objs[ks[k]].size \in Nat \ {0}
    BY <1>2, <1>4, <1>7
  <2>2. f \in Nat
    BY FrameNumbers
  <2>3. \A k \in 1 .. Len(ks) : [name |-> <<"object", f, ks[k]>>, size |-> objs[ks[k]].size] \in Item
    BY <2>1, <2>2 DEF Item
  <2>4. s \in [1 .. Len(ks) -> Item]
    <3> HIDE DEF Item
    <3> QED BY <1>3, <2>3
  <2> QED BY <1>7, <2>4
<1> QED BY <1>7, <1>8, <1>10, <1>11, <1>12, <1>13 DEF AreItems, s

LEMMA ItemsShape ==
  ASSUME IsProgram(prog), moved \in BOOLEAN, NEW a \in Area, NEW f \in Frame \cup {0}
  PROVE  /\ AreItems(a, f, ItemsOf(a, f))
         /\ a = "bits" => Len(ItemsOf(a, f)) = IF f = 0 THEN prog.bits ELSE Frames[f].bits
         /\ a # "bits" /\ f = 0 =>
              \A g \in 1 .. Len(prog.globals) : UpperGlobal(g) = (a = "upper") =>
                \E k \in 1 .. Len(ItemsOf(a, f)) : ItemsOf(a, f)[k].name = <<"object", 0, g>>
<1>1. CASE a = "bits"
  <2> DEFINE n == IF f = 0 THEN prog.bits ELSE Frames[f].bits
  <2>1. n \in Nat
    BY ProgramShape, ProgramSizes
  <2>2. ItemsOf(a, f) = Singles("bit", f, n)
    BY <1>1 DEF ItemsOf
  <2> HIDE DEF n
  <2>3. f \in Nat
    BY FrameNumbers
  <2>4. \A kind \in {"bit", "slot"} : (kind = "slot" => f # 0) =>
          /\ AreItems(IF kind = "bit" THEN "bits" ELSE "direct", f, Singles(kind, f, n))
          /\ Len(Singles(kind, f, n)) = n
    BY <2>1, <2>3, SingleItems
  <2>5. AreItems("bits", f, Singles("bit", f, n)) /\ Len(Singles("bit", f, n)) = n
    BY <2>4
  <2> QED BY <1>1, <2>2, <2>5 DEF n
<1>2. CASE a = "upper"
  <2>1. CASE f = 0
    <3>1. ItemsOf(a, f) = GlobalItems(TRUE)
      BY <1>2, <2>1 DEF ItemsOf
    <3>2. /\ AreItems("upper", 0, GlobalItems(TRUE))
          /\ \A g \in 1 .. Len(prog.globals) : UpperGlobal(g) = TRUE =>
               \E k \in 1 .. Len(GlobalItems(TRUE)) : GlobalItems(TRUE)[k].name = <<"object", 0, g>>
      BY GlobalsAreItems
    <3>3. (a = "upper") = TRUE /\ a # "bits"
      BY <1>2
    <3> QED BY <1>2, <2>1, <3>1, <3>2, <3>3
  <2>2. CASE f # 0
    <3>1. ItemsOf(a, f) = ObjectItems(f, TRUE)
      BY <1>2, <2>2 DEF ItemsOf
    <3> QED BY <1>2, <2>2, <3>1, ObjectsAreItems
  <2> QED BY <2>1, <2>2
<1>3. CASE a = "direct"
  <2>1. CASE f = 0
    <3>1. ItemsOf(a, f) = GlobalItems(FALSE)
      BY <1>3, <2>1 DEF ItemsOf
    <3>2. /\ AreItems("direct", 0, GlobalItems(FALSE))
          /\ \A g \in 1 .. Len(prog.globals) : UpperGlobal(g) = FALSE =>
               \E k \in 1 .. Len(GlobalItems(FALSE)) : GlobalItems(FALSE)[k].name = <<"object", 0, g>>
      BY GlobalsAreItems
    <3>3. (a = "upper") = FALSE /\ a # "bits"
      BY <1>3
    <3> QED BY <1>3, <2>1, <3>1, <3>2, <3>3
  <2>2. CASE f # 0
    <3> DEFINE s == ObjectItems(f, FALSE)
               t == Singles("slot", f, Frames[f].slots)
               c == s \o t
    <3>1. ItemsOf(a, f) = c
      BY <1>3, <2>2 DEF ItemsOf
    <3>2. Frames[f].slots \in Nat
      BY <2>2, ProgramShape
    <3>3. /\ AreItems("direct", f, s) /\ \A k \in 1 .. Len(s) : s[k].name[1] = "object"
          /\ AreItems("direct", f, t) /\ \A k \in 1 .. Len(t) : t[k].name[1] = "slot"
      <4>1. /\ AreItems("direct", f, t) /\ Len(t) = Frames[f].slots
            /\ \A k \in 1 .. Frames[f].slots : t[k].name[1] = "slot"
        BY <2>2, <3>2, FrameNumbers, SingleItems
      <4>2. AreItems("direct", f, s) /\ \A k \in 1 .. Len(s) : s[k].name[1] = "object"
        BY <2>2, ObjectsAreItems
      <4> QED BY <4>1, <4>2
    <3> HIDE DEF s, t
    <3>4. /\ s \in Seq(Item) /\ t \in Seq(Item) /\ Len(s) \in Nat /\ Len(t) \in Nat
          /\ c \in Seq(Item) /\ Len(c) = Len(s) + Len(t)
          /\ \A k \in 1 .. Len(s) : c[k] = s[k]
          /\ \A k \in 1 .. Len(t) : c[Len(s) + k] = t[k]
      <4>1. s \in Seq(Item) /\ t \in Seq(Item) /\ Len(s) \in Nat /\ Len(t) \in Nat
        BY <3>3 DEF AreItems
      <4> HIDE DEF Item
      <4> QED BY <4>1
    <3> HIDE DEF c
    <3>5. \A k \in 1 .. Len(c) : k \in 1 .. Len(s) \/ \E j \in 1 .. Len(t) : k = Len(s) + j
      <4> SUFFICES ASSUME NEW k \in 1 .. Len(c), k \notin 1 .. Len(s)
                   PROVE \E j \in 1 .. Len(t) : k = Len(s) + j
        OBVIOUS
      <4>1. k - Len(s) \in 1 .. Len(t) /\ k = Len(s) + (k - Len(s))
        BY <3>4
      <4> QED BY <4>1
    <3>6. \A k \in 1 .. Len(c) : IsItem("direct", f, c[k])
      <4> SUFFICES ASSUME NEW k \in 1 .. Len(c) PROVE IsItem("direct", f, c[k])
        OBVIOUS
      <4>1. CASE k \in 1 .. Len(s)
        BY <3>3, <3>4, <4>1 DEF AreItems
      <4>2. CASE k \notin 1 .. Len(s)
        <5>1. PICK j \in 1 .. Len(t) : k = Len(s) + j
          BY <3>5, <4>2
        <5>2. c[k] = t[j] /\ IsItem("direct", f, t[j])
          BY <3>3, <3>4, <5>1 DEF AreItems
        <5> QED BY <5>2
      <4> QED BY <4>1, <4>2
    <3>7. ASSUME NEW k \in 1 .. Len(c), NEW l \in 1 .. Len(c), c[k].name = c[l].name PROVE k = l
      <4>1. CASE k \in 1 .. Len(s) /\ l \in 1 .. Len(s)
        BY <3>3, <3>4, <3>7, <4>1 DEF AreItems
      <4>2. CASE k \in 1 .. Len(s) /\ l \notin 1 .. Len(s)
        <5>1. PICK j \in 1 .. Len(t) : l = Len(s) + j
          BY <3>5, <4>2
        <5>2. c[k] = s[k] /\ s[k].name[1] = "object"
          BY <3>3, <3>4, <4>2
        <5>3. c[l] = t[j] /\ t[j].name[1] = "slot"
          BY <3>3, <3>4, <5>1
        <5> QED BY <3>7, <5>2, <5>3
      <4>3. CASE k \notin 1 .. Len(s) /\ l \in 1 .. Len(s)
        <5>1. PICK j \in 1 .. Len(t) : k = Len(s) + j
          BY <3>5, <4>3
        <5>2. c[l] = s[l] /\ s[l].name[1] = "object"
          BY <3>3, <3>4, <4>3
        <5>3. c[k] = t[j] /\ t[j].name[1] = "slot"
          BY <3>3, <3>4, <5>1
        <5> QED BY <3>7, <5>2, <5>3
      <4>4. CASE k \notin 1 .. Len(s) /\ l \notin 1 .. Len(s)
        <5>1. PICK i \in 1 .. Len(t) : k = Len(s) + i
          BY <3>5, <4>4
        <5>2. PICK j \in 1 .. Len(t) : l = Len(s) + j
          BY <3>5, <4>4
        <5>3. t[i].name = t[j].name
          BY <3>4, <3>7, <5>1, <5>2
        <5>4. i = j
          BY <3>3, <5>3 DEF AreItems
        <5> QED BY <5>1, <5>2, <5>4
      <4> QED BY <4>1, <4>2, <4>3, <4>4
    <3>8. AreItems("direct", f, c)
      BY <3>4, <3>6, <3>7 DEF AreItems
    <3> QED BY <1>3, <2>2, <3>1, <3>8
  <2> QED BY <2>1, <2>2
<1> QED BY <1>1, <1>2, <1>3, AreaNames

-----------------------------------------------------------------------------
(***************************************************************************)
(* The frames above another one in a chain of calls.                       *)
(***************************************************************************)
Chained(n, h) ==
  h = [f \in 1 .. n |-> Frames[f].callers \cup UNION {h[c] : c \in Frames[f].callers}]

LEMMA ChainedExists ==
  ASSUME IsProgram(prog), NEW n \in 0 .. Len(Frames)
  PROVE  \E h : Chained(n, h)
<1> DEFINE T == {m \in 0 .. Len(Frames) : ~ \E h : Chained(m, h)}
<1>1. Len(Frames) \in Nat
  BY ProgramShape
<1>2. CASE T = {}
  BY <1>2
<1>3. CASE T # {}
  <2>1. T \in SUBSET Nat
    OBVIOUS
  <2>2. PICK m \in T : \A l \in T : m <= l
    BY <1>3, <2>1, LeastMember
  <2>3. m \in Nat /\ m <= Len(Frames) /\ ~ \E h : Chained(m, h)
    BY <1>1, <2>2
  <2>4. m # 0
    <3> SUFFICES ASSUME m = 0 PROVE FALSE
      OBVIOUS
    <3> DEFINE h == [f \in 1 .. 0 |-> {}]
    <3>1. 1 .. 0 = {}
      OBVIOUS
    <3>2. Chained(0, h)
      BY <3>1 DEF Chained
    <3> QED BY <2>3, <3>2
  <2>5. m - 1 \in 0 .. Len(Frames) /\ ~(m <= m - 1)
    BY <1>1, <2>3, <2>4
  <2>6. m - 1 \notin T
    <3> HIDE DEF T
    <3> QED BY <2>2, <2>5
  <2>7. PICK h : Chained(m - 1, h)
    BY <2>5, <2>6
  <2> DEFINE up(f, g) == Frames[f].callers \cup UNION {g[c] : c \in Frames[f].callers}
             k == [f \in 1 .. m |-> IF f = m THEN up(m, h) ELSE h[f]]
  <2>8. h = [f \in 1 .. m - 1 |-> up(f, h)]
    BY <2>7 DEF Chained
  <2>9. \A f \in 1 .. m : \A c \in Frames[f].callers : c \in 1 .. m - 1
    <3>1. \A f \in 1 .. m : f \in Frame
      BY <1>1, <2>3 DEF Frame
    <3>2. \A f \in 1 .. m : \A c \in Frames[f].callers : c < f /\ c \in Frame
      BY <3>1, ProgramShape
    <3>3. \A c \in Frame : c \in Nat /\ c >= 1
      BY DEF Frame
    <3> QED BY <2>3, <3>2, <3>3
  <2>10. \A c \in 1 .. m - 1 : k[c] = h[c]
    <3>1. \A c \in 1 .. m - 1 : c \in 1 .. m /\ c # m
      BY <2>3
    <3> HIDE DEF up
    <3> QED BY <3>1
  <2>11. \A f \in 1 .. m : up(f, k) = up(f, h)
    <3> HIDE DEF k
    <3>1. \A f \in 1 .. m : \A c \in Frames[f].callers : k[c] = h[c]
      BY <2>9, <2>10
    <3> QED BY <3>1
  <2>12. \A f \in 1 .. m : k[f] = up(f, h)
    <3>1. \A f \in 1 .. m : f = m \/ f \in 1 .. m - 1
      BY <2>3
    <3> HIDE DEF up
    <3> QED BY <2>8, <3>1
  <2>13. k = [f \in 1 .. m |-> up(f, k)]
    <3>1. k = [f \in 1 .. m |-> k[f]]
      <4> HIDE DEF up
      <4> QED OBVIOUS
    <3> HIDE DEF k, up
    <3> QED BY <2>11, <2>12, <3>1
  <2>14. Chained(m, k)
    <3> HIDE DEF k
    <3> QED BY <2>13 DEF Chained
  <2> QED BY <2>3, <2>14
<1> QED BY <1>2, <1>3

LEMMA AboveChained ==
  ASSUME IsProgram(prog)
  PROVE  \A f \in Frame : Above[f] = Frames[f].callers \cup UNION {Above[c] : c \in Frames[f].callers}
<1>1. \E h : Chained(Len(Frames), h)
  BY ChainedExists, ProgramShape
<1>2. \E h : h = [f \in Frame |-> Frames[f].callers \cup UNION {h[c] : c \in Frames[f].callers}]
  BY <1>1 DEF Chained, Frame
<1>3. Above = [f \in Frame |-> Frames[f].callers \cup UNION {Above[c] : c \in Frames[f].callers}]
  BY <1>2 DEF Above
<1> DEFINE A == Above
<1>4. A = [f \in Frame |-> Frames[f].callers \cup UNION {A[c] : c \in Frames[f].callers}]
  BY <1>3
<1> HIDE DEF A
<1>5. \A f \in Frame : A[f] = Frames[f].callers \cup UNION {A[c] : c \in Frames[f].callers}
  BY <1>4
<1> QED BY <1>5 DEF A

\* Frames above come before, and above a frame of main there are only frames of
\* main.
LEMMA AboveBefore ==
  ASSUME IsProgram(prog), NEW g \in Frame, NEW f \in Above[g]
  PROVE  f \in Frame /\ f < g /\ (Frames[f].isr => Frames[g].isr)
<1> DEFINE Good(h) == \A e \in Above[h] : e \in Frame /\ e < h /\ (Frames[e].isr => Frames[h].isr)
           T == {h \in Frame : ~Good(h)}
<1>1. CASE T = {}
  BY <1>1
<1>2. CASE T # {}
  <2>1. T \in SUBSET Nat
    BY FrameNumbers
  <2>2. PICK h \in T : \A l \in T : h <= l
    BY <1>2, <2>1, LeastMember
  <2>3. h \in Frame /\ h \in Nat
    BY <2>1, <2>2
  <2>4. \A c \in Frames[h].callers : c \in Frame /\ c \in Nat /\ c < h /\ (Frames[c].isr => Frames[h].isr)
    BY <2>3, ProgramShape
  <2>5. \A c \in Frames[h].callers : Good(c)
    <3>1. \A c \in Frames[h].callers : c \notin T
      <4> HIDE DEF T
      <4> QED BY <2>2, <2>3, <2>4
    <3> HIDE DEF Good
    <3> QED BY <2>4, <3>1
  <2>6. ASSUME NEW e \in Above[h]
        PROVE  e \in Frame /\ e < h /\ (Frames[e].isr => Frames[h].isr)
    <3>1. CASE e \in Frames[h].callers
      BY <2>4, <3>1
    <3>2. CASE e \notin Frames[h].callers
      <4>1. PICK c \in Frames[h].callers : e \in Above[c]
        BY <2>3, <2>6, <3>2, AboveChained
      <4>2. e \in Frame /\ e < c /\ (Frames[e].isr => Frames[c].isr)
        BY <2>5, <4>1
      <4>3. e \in Nat
        BY <4>2, FrameNumbers
      <4> QED BY <2>3, <2>4, <4>1, <4>2, <4>3
    <3> QED BY <3>1, <3>2
  <2> QED BY <2>2, <2>6
<1> QED BY <1>1, <1>2

-----------------------------------------------------------------------------
(***************************************************************************)
(* Where an item lies: the offset it was given in its area.                *)
(***************************************************************************)
Complete == {"boot", "clear", "init", "run"}

\* The offsets an area has, and the address of n of them from v on.
Cap(a) ==
  CASE a = "bits" -> Cardinality(FreeBits)
    [] a = "upper" -> RamTop - DirectTop
    [] a = "direct" -> Capacity

AddressIn(a, v, n) ==
  CASE a = "bits" -> Nth(FreeBits, v)
    [] a = "upper" -> RamTop - (v + n)
    [] a = "direct" -> Addr(v)

Lies(a, o, v) ==
  /\ v \in Nat /\ v + o.size <= Cap(a) /\ o.at = AddressIn(a, v, o.size)
  /\ a = "direct" => Addr(v + o.size - 1) = Addr(v) + o.size - 1

Below(a, o, hi) == \E v \in Nat : v + o.size <= hi /\ Lies(a, o, v)

\* An item that can be placed in area a.
Sized(a, o) == o.size \in Nat \ {0} /\ (a = "bits" => o.size = 1)

LEMMA BelowMore ==
  ASSUME NEW a, NEW o, o.size \in Nat, NEW h \in Nat, NEW k \in Nat, h <= k, Below(a, o, h)
  PROVE  Below(a, o, k)
<1>1. PICK v \in Nat : v + o.size <= h /\ Lies(a, o, v)
  BY DEF Below
<1>2. v + o.size <= k
  BY <1>1
<1> QED BY <1>1, <1>2 DEF Below

LEMMA CapType ==
  ASSUME IsProgram(prog), NEW a \in Area, a = "direct" => Tabled
  PROVE  Cap(a) \in Nat
<1>1. CASE a = "bits"
  BY <1>1, FreeBitsFinite DEF Cap
<1>2. CASE a = "upper"
  BY <1>2, ProgramSizes DEF Cap
<1>3. CASE a = "direct"
  BY <1>3, Table DEF Cap
<1> QED BY <1>1, <1>2, <1>3, AreaNames

LEMMA LiesUpper ==
  ASSUME IsProgram(prog), NEW o, NEW v, Sized("upper", o), Lies("upper", o, v)
  PROVE  o.at \in Nat /\ DirectTop <= o.at /\ o.at = RamTop - (v + o.size)
         /\ v \in Nat /\ v + o.size <= RamTop - DirectTop
<1>1. o.at = RamTop - (v + o.size) /\ v \in Nat /\ v + o.size <= RamTop - DirectTop
  BY DEF Lies, AddressIn, Cap
<1>2. PICK n \in Nat : n = o.size
  BY DEF Sized
<1> QED BY <1>1, <1>2, ProgramSizes

LEMMA LiesDirect ==
  ASSUME IsProgram(prog), Tabled, NEW o, NEW v, Sized("direct", o), Lies("direct", o, v)
  PROVE  /\ o.at \in Nat /\ v \in Nat /\ v + o.size <= Capacity /\ o.at = Addr(v)
         /\ o.at + o.size - 1 = Addr(v + o.size - 1)
         /\ o.at + o.size <= DirectTop
         /\ BytesOf(o) \subseteq (RegEnd .. DirectTop - 1) \ (Reserved \cup UsedBits)
<1>1. /\ o.at = Addr(v) /\ v \in Nat /\ v + o.size <= Capacity
      /\ Addr(v + o.size - 1) = Addr(v) + o.size - 1
  BY DEF Lies, AddressIn, Cap
<1>2. PICK n \in Nat \ {0} : n = o.size
  BY DEF Sized
<1>3. Capacity \in Nat /\ DirectTop \in Nat
  BY Table, ProgramSizes
<1>4. v \in 0 .. Capacity - 1 /\ v + n - 1 \in 0 .. Capacity - 1
  BY <1>1, <1>2, <1>3
<1>5. Addr(v) \in Nat /\ Addr(v + n - 1) < DirectTop
  <2>1. \A w \in 0 .. Capacity - 1 : Addr(w) \in Nat /\ Addr(w) \in RegEnd .. DirectTop - 1
    BY Table
  <2>2. Addr(v) \in Nat /\ Addr(v + n - 1) \in RegEnd .. DirectTop - 1
    BY <1>4, <2>1
  <2> QED BY <1>3, <2>2, ProgramSizes
<1>6. ASSUME NEW b \in BytesOf(o)
      PROVE  b \in (RegEnd .. DirectTop - 1) \ (Reserved \cup UsedBits)
  <2>1. b \in Addr(v) .. Addr(v) + n - 1
    BY <1>1, <1>2, <1>6 DEF BytesOf, BytesFrom
  <2>2. PICK k \in Nat : k = b - Addr(v)
    BY <1>5, <2>1
  <2>3. k \in 0 .. n - 1 /\ b = Addr(v) + k
    BY <1>2, <1>5, <2>1, <2>2
  <2>4. Addr(v + k) = Addr(v) + k
    BY <1>1, <1>2, <2>3, WholeBytes
  <2>5. v + k \in 0 .. Capacity - 1
    BY <1>1, <1>2, <1>3, <2>2, <2>3
  <2> QED BY <2>3, <2>4, <2>5, Table
<1> QED BY <1>1, <1>2, <1>3, <1>5, <1>6

LEMMA LiesBit ==
  ASSUME NEW o, NEW v, Sized("bits", o), Lies("bits", o, v)
  PROVE  /\ o.at \in Nat /\ o.size = 1 /\ v \in 0 .. Cardinality(FreeBits) - 1
         /\ o.at = Nth(FreeBits, v) /\ o.at \in FreeBits
         /\ BitByte(o.at) \in (BitLo .. BitHi - 1) \ Reserved
<1>1. o.at = Nth(FreeBits, v) /\ v \in Nat /\ v + o.size <= Cardinality(FreeBits) /\ o.size = 1
  BY DEF Lies, AddressIn, Cap, Sized
<1>2. v \in 0 .. Cardinality(FreeBits) - 1
  BY <1>1, FreeBitsFinite
<1>3. Nth(FreeBits, v) \in FreeBits
  BY <1>2, FreeBitsFinite, NthMember
<1> QED BY <1>1, <1>2, <1>3, FreeBitsFinite

\* Items at different offsets of an area share nothing.
LEMMA LiesApart ==
  ASSUME IsProgram(prog), NEW a \in Area, a = "direct" => Tabled, NEW o, NEW q, NEW v, NEW w,
         Sized(a, o), Sized(a, q), Lies(a, o, v), Lies(a, q, w), v + o.size <= w
  PROVE  BytesOf(o) \cap BytesOf(q) = {}
<1>1. CASE a = "bits"
  <2>1. /\ o.at = Nth(FreeBits, v) /\ q.at = Nth(FreeBits, w) /\ o.at \in Nat /\ q.at \in Nat
        /\ o.size = 1 /\ q.size = 1
        /\ v \in 0 .. Cardinality(FreeBits) - 1 /\ w \in 0 .. Cardinality(FreeBits) - 1
    BY <1>1, LiesBit
  <2>2. v < w
    BY <2>1, FreeBitsFinite
  <2>3. o.at < q.at
    BY <2>1, <2>2, FreeBitsFinite, NthOrder
  <2> QED BY <2>1, <2>3 DEF BytesOf, BytesFrom
<1>2. CASE a = "upper"
  <2>1. PICK m \in Nat : m = o.size
    BY DEF Sized
  <2>2. PICK n \in Nat : n = q.size
    BY DEF Sized
  <2>3. /\ o.at = RamTop - (v + m) /\ q.at = RamTop - (w + n)
        /\ v \in Nat /\ w \in Nat /\ o.at \in Nat /\ q.at \in Nat
    BY <1>2, <2>1, <2>2, LiesUpper
  <2>4. q.at + n <= o.at
    BY <2>1, <2>2, <2>3, ProgramSizes
  <2> QED BY <2>2, <2>3, <2>4 DEF BytesOf, BytesFrom
<1>3. CASE a = "direct"
  <2>1. PICK m \in Nat \ {0} : m = o.size
    BY DEF Sized
  <2>2. PICK n \in Nat \ {0} : n = q.size
    BY DEF Sized
  <2>3. /\ v \in Nat /\ w \in Nat /\ o.at \in Nat /\ q.at \in Nat
        /\ o.at + m - 1 = Addr(v + m - 1) /\ q.at = Addr(w)
        /\ v + m <= Capacity /\ w + n <= Capacity
    BY <1>3, <2>1, <2>2, LiesDirect
  <2>4. Capacity \in Nat
    BY <1>3, Table
  <2>5. v + m - 1 \in 0 .. Capacity - 1 /\ w \in 0 .. Capacity - 1 /\ v + m - 1 < w
    <3>1. v + m <= w
      BY <2>1
    <3> QED BY <2>3, <2>4, <3>1
  <2>6. Addr(v + m - 1) < Addr(w)
    BY <1>3, <2>5, Table
  <2> QED BY <2>1, <2>2, <2>3, <2>6 DEF BytesOf, BytesFrom
<1> QED BY <1>1, <1>2, <1>3, AreaNames

-----------------------------------------------------------------------------
(***************************************************************************)
(* What only depends on the program, the attempt and the table.            *)
(***************************************************************************)
LEMMA SameProgram ==
  ASSUME prog' = prog, moved' = moved
  PROVE  /\ IsProgram(prog)' = IsProgram(prog)
         /\ Frames' = Frames /\ Frame' = Frame /\ RamTop' = RamTop /\ RegEnd' = RegEnd
         /\ DirectTop' = DirectTop /\ Reserved' = Reserved /\ FreeBits' = FreeBits
         /\ Above' = Above
         /\ \A f, g : LiveTogether(f, g)' = LiveTogether(f, g)
         /\ \A a, f : ItemsOf(a, f)' = ItemsOf(a, f)
         /\ \A name : AreaOf(name)' = AreaOf(name) /\ IsUpper(name)' = IsUpper(name)
         /\ \A g : UpperGlobal(g)' = UpperGlobal(g)
         /\ \A n : BitBytes(n)' = BitBytes(n) /\ Usable(n)' = Usable(n)
<1>1. IsProgram(prog)' = IsProgram(prog) /\ Frames' = Frames /\ RamTop' = RamTop /\ RegEnd' = RegEnd /\ Reserved' = Reserved
  BY DEF IsProgram, Frames, RamTop, RegEnd, Reserved
<1>2. Frame' = Frame /\ DirectTop' = DirectTop /\ FreeBits' = FreeBits
  BY <1>1 DEF Frame, DirectTop, FreeBits
<1>3. Above' = Above
  BY <1>1, <1>2 DEF Above
<1>4. \A f, g : LiveTogether(f, g)' = LiveTogether(f, g)
  BY <1>1, <1>3 DEF LiveTogether
<1>5. \A g : UpperGlobal(g)' = UpperGlobal(g)
  BY <1>1 DEF UpperGlobal
<1>6. \A o : UpperObject(o)' = UpperObject(o)
  BY DEF UpperObject
<1>7. \A u : GlobalItems(u)' = GlobalItems(u)
  BY <1>5 DEF GlobalItems, InOrder
<1>8. \A f, u : ObjectItems(f, u)' = ObjectItems(f, u)
  BY <1>1, <1>6 DEF ObjectItems
<1>9. \A a, f : ItemsOf(a, f)' = ItemsOf(a, f)
  BY <1>1, <1>7, <1>8 DEF ItemsOf
<1>10. \A name : AreaOf(name)' = AreaOf(name) /\ IsUpper(name)' = IsUpper(name)
  BY <1>1, <1>5, <1>6 DEF AreaOf, IsUpper
<1>11. \A n : BitBytes(n)' = BitBytes(n) /\ Usable(n)' = Usable(n)
  BY <1>1, <1>2 DEF BitBytes, Usable
<1> QED BY <1>1, <1>2, <1>3, <1>4, <1>5, <1>9, <1>10, <1>11

LEMMA SameTable ==
  ASSUME prog' = prog, moved' = moved, phys' = phys
  PROVE  /\ Capacity' = Capacity
         /\ \A v : Addr(v)' = Addr(v)
         /\ \A a : Cap(a)' = Cap(a)
         /\ \A a, o, v : Lies(a, o, v)' = Lies(a, o, v)
         /\ \A a, o, h : Below(a, o, h)' = Below(a, o, h)
<1>1. Capacity' = Capacity /\ \A v : Addr(v)' = Addr(v)
  BY DEF Capacity, Addr
<1>2. \A a : Cap(a)' = Cap(a)
  BY <1>1, SameProgram DEF Cap
<1>3. \A a, v, n : AddressIn(a, v, n)' = AddressIn(a, v, n)
  BY <1>1, SameProgram DEF AddressIn
<1>4. \A a, o, v : Lies(a, o, v)' = Lies(a, o, v)
  BY <1>1, <1>2, <1>3 DEF Lies
<1>5. \A a, o, h : Below(a, o, h)' = Below(a, o, h)
  BY <1>4 DEF Below
<1> QED BY <1>1, <1>2, <1>4, <1>5

-----------------------------------------------------------------------------
(***************************************************************************)
(* The counters of the layout.                                             *)
(***************************************************************************)
\* The frames of this area that have their place, globals being frame 0, and
\* where they end.
Done(f) ==
  \/ ctx = "main" /\ ~Frames[f].isr /\ f < fr
  \/ ctx = "isr" /\ (~Frames[f].isr \/ f < fr)

Basic ==
  /\ IsProgram(prog) /\ moved \in BOOLEAN
  /\ phase \in Area \cup {"exhausted", "failed"} \cup Complete
  /\ ctx \in {"globals", "main", "isr"} /\ fr \in 0 .. Len(Frames) + 1
  /\ todo \in Nat /\ cursor \in Nat
  /\ endOf \in [Frame -> Nat] /\ top \in Nat /\ ctxEnd \in Nat
  /\ bitTotal \in Nat

\* A frame ends above its callers of the same context, and the frames of main
\* below those of interrupts.
EndsInv ==
  \A f \in Frame : Done(f) =>
    /\ endOf[f] <= ctxEnd
    /\ \A c \in Frames[f].callers : Frames[c].isr = Frames[f].isr => endOf[c] <= endOf[f]
    /\ ctx = "isr" /\ ~Frames[f].isr => endOf[f] <= top

CursorInv ==
  phase \in Area =>
    /\ (ctx = "globals") <=> (fr = 0)
    /\ IF Placing THEN todo <= Len(Items) ELSE todo = 0
    /\ todo > 0 => Start <= cursor /\ cursor <= Cap(phase)
    /\ ctx # "globals" => top <= ctxEnd /\ ctxEnd <= Cap(phase)
    /\ EndsInv
    /\ phase = "bits" => IF ctx = "globals" THEN todo > 0 => cursor = todo
                         ELSE prog.bits <= top

TableInv ==
  /\ bitTotal <= Cardinality(FreeBits) /\ upperTop \in 0 .. RamTop - DirectTop
  /\ Tabled \/ (phys = <<>> /\ bitTotal = 0)
  /\ phase = "bits" => phys = <<>> /\ bitTotal = 0
  /\ phase \in {"upper", "direct"} \cup Complete => Tabled /\ prog.bits <= bitTotal
  /\ phase \in Complete => top <= Capacity

PhaseInv == Basic /\ CursorInv /\ TableInv

LEMMA PhaseCap ==
  ASSUME PhaseInv, phase \in Area
  PROVE  Cap(phase) \in Nat
<1>1. phase = "direct" => Tabled
  BY DEF PhaseInv, TableInv
<1> QED BY <1>1, CapType DEF PhaseInv, Basic

LEMMA TwoLargest ==
  ASSUME NEW x \in Nat, NEW y \in Nat
  PROVE  /\ Largest({x, y}) \in {x, y} /\ x <= Largest({x, y}) /\ y <= Largest({x, y})
         /\ Largest({x, y}) \in Nat
<1>1. IsFiniteSet({x} \cup {y})
  BY FS_Singleton, FS_Union
<1>2. {x} \cup {y} = {x, y}
  OBVIOUS
<1>3. {x, y} \in SUBSET Nat /\ {x, y} # {} /\ IsFiniteSet({x, y})
  BY <1>1, <1>2
<1>4. Largest({x, y}) \in {x, y} /\ \A z \in {x, y} : z <= Largest({x, y})
  BY <1>3, GreatestMember
<1> QED BY <1>4

\* Where a frame starts, above the frames that can be live with it.
LEMMA StartPlace ==
  ASSUME PhaseInv, Placing
  PROVE  /\ fr \in Frame \cup {0} /\ AreItems(phase, fr, Items) /\ todo <= Len(Items)
         /\ Start \in Nat /\ Start <= Cap(phase)
         /\ ctx = "globals" => Start = 0 /\ fr = 0
         /\ ctx # "globals" =>
              /\ fr \in Frame /\ Frames[fr].isr = (ctx = "isr") /\ top <= Start
              /\ \A c \in Frames[fr].callers : Frames[c].isr = Frames[fr].isr =>
                   Done(c) /\ endOf[c] <= Start
         /\ Cursor \in Nat /\ Start <= Cursor /\ Cursor <= Cap(phase)
         /\ Cap(phase) \in Nat /\ phase \in Area
<1>1. phase \in Area /\ Cap(phase) \in Nat /\ fr \in Frame \cup {0}
  BY PhaseCap DEF PhaseInv, Placing, CursorInv
<1>2. AreItems(phase, fr, Items)
  BY <1>1, ItemsShape DEF PhaseInv, Basic, Items
<1>3. todo <= Len(Items) /\ ((ctx = "globals") <=> (fr = 0)) /\ (todo > 0 => Start <= cursor /\ cursor <= Cap(phase))
  BY <1>1 DEF PhaseInv, CursorInv
<1>4. CASE ctx = "globals"
  <2>1. Start = 0
    BY <1>4 DEF Start
  <2> QED BY <1>1, <1>2, <1>3, <1>4, <2>1 DEF Cursor, PhaseInv, Basic
<1>5. CASE ctx # "globals"
  <2> DEFINE C == {d \in Frames[fr].callers : Frames[d].isr = Frames[fr].isr}
             E == {endOf[c] : c \in C}
             S == {top} \cup E
  <2>1. fr \in Frame /\ Frames[fr].isr = (ctx = "isr")
    BY <1>5 DEF Placing
  <2>2. Start = Largest(S)
    BY <1>5 DEF Start
  <2>3. IsProgram(prog) /\ endOf \in [Frame -> Nat] /\ top \in Nat /\ ctxEnd \in Nat
    BY DEF PhaseInv, Basic
  <2>4. C \in SUBSET Frame /\ \A c \in C : c \in Nat /\ c < fr
    BY <2>1, <2>3, ProgramShape
  <2>5. IsFiniteSet(E) /\ E \in SUBSET Nat
    <3>1. Len(Frames) \in Nat
      BY <2>3, ProgramShape
    <3>2. IsFiniteSet(C)
      BY <2>4, <3>1, NumbersFinite DEF Frame
    <3> DEFINE F == [c \in C |-> endOf[c]]
    <3> HIDE DEF C
    <3>3. F \in [C -> Nat] /\ \A c \in C : F[c] = endOf[c]
      BY <2>3, <2>4
    <3> HIDE DEF F
    <3>4. IsFiniteSet({F[c] : c \in C})
      BY <3>2, <3>3, FiniteImage
    <3>5. {F[c] : c \in C} = E
      BY <3>3
    <3> QED BY <2>3, <2>4, <3>4, <3>5
  <2>6. S \in SUBSET Nat /\ S # {} /\ IsFiniteSet(S)
    <3> HIDE DEF E
    <3> QED BY <2>3, <2>5, FS_Singleton, FS_Union
  <2>7. Start \in S /\ \A y \in S : y <= Start
    <3> HIDE DEF S
    <3> QED BY <2>2, <2>6, GreatestMember
  <2>8. \A c \in C : Done(c) /\ endOf[c] \in S
    <3>1. \A c \in C : Frames[c].isr = (ctx = "isr") /\ c < fr
      BY <2>1, <2>4
    <3>2. ctx = "main" \/ ctx = "isr"
      BY <1>5 DEF PhaseInv, Basic
    <3> QED BY <3>1, <3>2 DEF Done
  <2>9. \A c \in C : endOf[c] <= ctxEnd
    BY <1>1, <2>4, <2>8 DEF PhaseInv, CursorInv, EndsInv
  <2>10. Start <= ctxEnd /\ ctxEnd <= Cap(phase) /\ Start \in Nat
    <3>1. top <= ctxEnd /\ ctxEnd <= Cap(phase)
      BY <1>1, <1>5 DEF PhaseInv, CursorInv
    <3>2. \A y \in S : y <= ctxEnd
      BY <2>9, <3>1
    <3> HIDE DEF S
    <3> QED BY <2>6, <2>7, <3>1, <3>2
  <2>11. Start <= Cap(phase)
    BY <1>1, <2>3, <2>10
  <2>12. top <= Start /\ \A c \in C : Done(c) /\ endOf[c] <= Start
    BY <2>7, <2>8
  <2>13. Cursor \in Nat /\ Start <= Cursor /\ Cursor <= Cap(phase)
    BY <1>3, <2>10, <2>11 DEF Cursor, PhaseInv, Basic
  <2>14. \A c \in Frames[fr].callers : Frames[c].isr = Frames[fr].isr => c \in C
    OBVIOUS
  <2> HIDE DEF C, S
  <2> QED BY <1>1, <1>2, <1>3, <1>5, <2>1, <2>10, <2>11, <2>12, <2>13, <2>14
<1> QED BY <1>4, <1>5

\* Where the next item goes.
LEMMA OffsetPlace ==
  ASSUME PhaseInv, Placing, todo < Len(Items),
         NEW item, item = Items[todo + 1],
         NEW v, v = Offset(item.size), HasPlace(v, item.size),
         NEW o, o = [name |-> item.name, size |-> item.size, at |-> AddressAt(v, item.size)]
  PROVE  /\ IsItem(phase, fr, item) /\ o.name = item.name /\ o.size = item.size
         /\ item.size \in Nat \ {0} /\ Sized(phase, o)
         /\ v \in Nat /\ Cursor <= v /\ v + item.size <= Cap(phase)
         /\ Lies(phase, o, v)
         /\ phase = "bits" => v = Cursor
<1>1. /\ phase \in Area /\ AreItems(phase, fr, Items) /\ Cursor \in Nat /\ Cap(phase) \in Nat
  BY StartPlace
<1>2. todo + 1 \in 1 .. Len(Items)
  BY <1>1 DEF PhaseInv, Basic, AreItems
<1>3. IsItem(phase, fr, item)
  BY <1>1, <1>2 DEF AreItems
<1>4. item.size \in Nat \ {0} /\ (phase = "bits" => item.size = 1)
  BY <1>3 DEF IsItem
<1>5. o.name = item.name /\ o.size = item.size /\ o.at = AddressAt(v, item.size)
  OBVIOUS
<1>6. Sized(phase, o)
  BY <1>4, <1>5 DEF Sized
<1>7. CASE phase = "bits"
  <2>1. v = Cursor /\ v + item.size <= Cap(phase)
    BY <1>7 DEF Offset, HasPlace, Cap
  <2> QED BY <1>1, <1>3, <1>4, <1>5, <1>6, <1>7, <2>1 DEF Lies, AddressIn, AddressAt
<1>8. CASE phase = "upper"
  <2>1. v = Cursor /\ v + item.size <= Cap(phase)
    BY <1>8 DEF Offset, HasPlace, Cap
  <2> QED BY <1>1, <1>3, <1>4, <1>5, <1>6, <1>8, <2>1 DEF Lies, AddressIn, AddressAt
<1>9. CASE phase = "direct"
  <2>1. v = Fit(Cursor, item.size) /\ HasAddr(v) /\ Tabled /\ IsProgram(prog)
    BY <1>9 DEF Offset, HasPlace, PhaseInv, TableInv, Basic
  <2>2. v \in Nat /\ Cursor <= v /\ v + item.size <= Capacity /\ Addr(v + item.size - 1) = Addr(v) + item.size - 1
    BY <1>1, <1>4, <2>1, FitPlace
  <2> QED BY <1>1, <1>3, <1>4, <1>5, <1>6, <1>9, <2>2 DEF Lies, AddressIn, AddressAt, Cap
<1> QED BY <1>1, <1>7, <1>8, <1>9, AreaNames

\* A step that keeps the program and the table keeps what is defined by them.
LEMMA SameTabled ==
  ASSUME prog' = prog, moved' = moved, phys' = phys, bitTotal' = bitTotal
  PROVE  Tabled' = Tabled
BY SameProgram DEF Tabled

LEMMA PlaceItemPhase ==
  ASSUME PhaseInv, PlaceItem
  PROVE  PhaseInv'
<1>1. /\ Placing /\ todo < Len(Items) /\ todo' = todo + 1
      /\ UNCHANGED <<prog, moved, phase, ctx, fr, endOf, top, ctxEnd, bitTotal,
                     upperTop, phys, globalsEnd, machine>>
  BY DEF PlaceItem
<1>2. PICK item : item = Items[todo + 1]
  OBVIOUS
<1>3. PICK v : v = Offset(item.size)
  OBVIOUS
<1>4. HasPlace(v, item.size) /\ cursor' = v + item.size
  BY <1>2, <1>3 DEF PlaceItem
<1>5. /\ item.size \in Nat \ {0} /\ v \in Nat /\ Cursor <= v /\ v + item.size <= Cap(phase)
      /\ (phase = "bits" => v = Cursor /\ item.size = 1)
  <2>1. PICK o : o = [name |-> item.name, size |-> item.size, at |-> AddressAt(v, item.size)]
    OBVIOUS
  <2> QED BY <1>1, <1>2, <1>3, <1>4, <2>1, OffsetPlace DEF IsItem
<1>6. /\ Start \in Nat /\ Start <= Cursor /\ Cursor \in Nat /\ phase \in Area
      /\ Len(Items) \in Nat /\ todo \in Nat /\ Cap(phase) \in Nat
  BY <1>1, StartPlace DEF AreItems, PhaseInv, Basic
<1>7. Basic'
  BY <1>1, <1>4, <1>5, SameProgram DEF PhaseInv, Basic
<1>8. TableInv'
  BY <1>1, SameProgram, SameTabled, SameTable DEF PhaseInv, TableInv
<1>9. /\ Placing' /\ Items' = Items /\ Start' = Start /\ Cap(phase)' = Cap(phase)
      /\ EndsInv'
  <2>1. Placing' = Placing /\ Start' = Start
    BY <1>1, SameProgram DEF Placing, Start
  <2>2. Items' = Items
    BY <1>1, SameProgram DEF Items
  <2>3. Cap(phase)' = Cap(phase)
    BY <1>1, SameTable
  <2>4. EndsInv' = EndsInv
    BY <1>1, SameProgram DEF EndsInv, Done
  <2> QED BY <1>1, <1>6, <2>1, <2>2, <2>3, <2>4 DEF PhaseInv, CursorInv
<1>10. CursorInv'
  <2>1. (ctx = "globals") <=> (fr = 0)
    BY <1>6 DEF PhaseInv, CursorInv
  <2>2. todo + 1 <= Len(Items)
    BY <1>1, <1>6
  <2>3. Start <= v + item.size /\ v + item.size <= Cap(phase)
    BY <1>5, <1>6
  <2>4. ctx # "globals" => top <= ctxEnd /\ ctxEnd <= Cap(phase)
    BY <1>6 DEF PhaseInv, CursorInv
  <2>5. phase = "bits" => IF ctx = "globals" THEN v + item.size = todo + 1 ELSE prog.bits <= top
    <3> SUFFICES ASSUME phase = "bits"
                 PROVE IF ctx = "globals" THEN v + item.size = todo + 1 ELSE prog.bits <= top
      OBVIOUS
    <3>1. CASE ctx = "globals"
      <4>1. Cursor = todo
        BY <1>6, <3>1 DEF Cursor, Start, PhaseInv, CursorInv
      <4> QED BY <1>5, <3>1, <4>1
    <3>2. CASE ctx # "globals"
      BY <1>6, <3>2 DEF PhaseInv, CursorInv
    <3> QED BY <3>1, <3>2
  <2> QED BY <1>1, <1>4, <1>9, <2>1, <2>2, <2>3, <2>4, <2>5 DEF CursorInv
<1> QED BY <1>7, <1>8, <1>10 DEF PhaseInv

\* The steps that stop the layout, and those of the startup code but the
\* numbering of initializers, leave it as it is.
LEMMA OtherPhase ==
  ASSUME PhaseInv,
         UNCHANGED <<prog, moved, ctx, fr, cursor, endOf, top, ctxEnd, bitTotal, upperTop, phys>>,
         todo' \in Nat,
         phase' \in {"failed", "exhausted"} \cup Complete,
         phase' \in Complete => phase \in Complete
  PROVE  PhaseInv'
<1>1. Basic'
  BY SameProgram DEF PhaseInv, Basic
<1>2. phase' \notin Area
  BY DEF Area, Complete
<1>3. TableInv'
  <2>1. phase' # "bits" /\ phase' \notin {"upper", "direct"}
    BY DEF Complete
  <2> QED BY <2>1, SameProgram, SameTabled, SameTable DEF PhaseInv, TableInv
<1>4. CursorInv'
  BY <1>2 DEF CursorInv
<1> QED BY <1>1, <1>3, <1>4 DEF PhaseInv

LEMMA EndGlobalsPhase ==
  ASSUME PhaseInv, EndGlobals
  PROVE  PhaseInv'
<1>1. /\ phase \in Area /\ ctx = "globals" /\ todo = Len(Items)
      /\ top' = Cursor /\ ctxEnd' = Cursor /\ ctx' = "main" /\ fr' = 1 /\ todo' = 0
      /\ UNCHANGED <<prog, moved, phase, cursor, endOf, placed, bitTotal, upperTop, phys>>
  BY DEF EndGlobals
<1>2. /\ Placing /\ Start = 0 /\ fr = 0 /\ Cursor \in Nat /\ Cursor <= Cap(phase)
      /\ AreItems(phase, fr, Items) /\ Cap(phase) \in Nat
  BY <1>1, StartPlace DEF Placing
<1>3. Basic'
  <2>1. 1 \in 0 .. Len(Frames) + 1
    BY ProgramShape DEF PhaseInv, Basic
  <2> QED BY <1>1, <1>2, <2>1, SameProgram DEF PhaseInv, Basic
<1>4. TableInv'
  <2>1. phase \notin Complete
    BY <1>1 DEF Area, Complete
  <2> QED BY <1>1, <2>1, SameProgram, SameTabled DEF PhaseInv, TableInv
<1>5. EndsInv'
  <2>1. \A f \in Frame : ~(f < 1)
    BY DEF Frame
  <2> QED BY <1>1, <2>1, SameProgram DEF EndsInv, Done
<1>6. phase = "bits" => prog.bits <= Cursor
  <2>1. ASSUME phase = "bits" PROVE Len(Items) = prog.bits
    <3>1. Len(ItemsOf(phase, fr)) = prog.bits
      BY <1>1, <1>2, <2>1, ItemsShape DEF PhaseInv, Basic
    <3> QED BY <3>1 DEF Items
  <2>2. phase = "bits" => Cursor = todo
    BY <1>1, <1>2 DEF Cursor, PhaseInv, CursorInv, Basic
  <2>3. prog.bits \in Nat
    BY ProgramSizes DEF PhaseInv, Basic
  <2> QED BY <1>1, <2>1, <2>2, <2>3
<1>7. CursorInv'
  <2>1. Cap(phase)' = Cap(phase)
    BY <1>1, SameTable
  <2>2. 0 <= Len(Items')
    <3>1. Items' = ItemsOf(phase, 1)
      BY <1>1, SameProgram DEF Items
    <3>2. Placing' => 1 \in Frame
      BY <1>1, SameProgram DEF Placing
    <3>3. 1 \in Frame => AreItems(phase, 1, ItemsOf(phase, 1))
      BY <1>1, ItemsShape DEF PhaseInv, Basic
    <3> QED BY <3>1, <3>2, <3>3 DEF AreItems
  <2> QED BY <1>1, <1>2, <1>5, <1>6, <2>1, <2>2 DEF CursorInv
<1> QED BY <1>3, <1>4, <1>7 DEF PhaseInv

\* A frame is done when it is placed.
LEMMA DoneNext ==
  ASSUME PhaseInv, phase \in Area, fr \in Frame, UNCHANGED <<prog, moved, ctx>>, fr' = fr + 1,
         NEW f \in Frame
  PROVE  Done(f)' <=> Done(f) \/ (f = fr /\ Placing)
<1>1. Frames' = Frames
  BY SameProgram
<1>2. f \in Nat /\ fr \in Nat /\ Frames[f].isr \in BOOLEAN
  BY ProgramShape DEF Frame, PhaseInv, Basic
<1>3. fr # 0
  BY FrameNumbers
<1>4. ctx = "main" \/ ctx = "isr"
  BY <1>3 DEF PhaseInv, Basic, CursorInv
<1>5. f < fr' <=> f < fr \/ f = fr
  BY <1>2
<1>6. Placing <=> (Frames[fr].isr = (ctx = "isr"))
  BY <1>4 DEF Placing
<1>7. CASE ctx = "main"
  BY <1>1, <1>2, <1>5, <1>6, <1>7 DEF Done
<1>8. CASE ctx = "isr"
  BY <1>1, <1>2, <1>5, <1>6, <1>8 DEF Done
<1> QED BY <1>4, <1>7, <1>8

LEMMA EndFramePhase ==
  ASSUME PhaseInv, EndFrame
  PROVE  PhaseInv'
<1>1. /\ Placing /\ ctx # "globals" /\ todo = Len(Items)
      /\ endOf' = [endOf EXCEPT ![fr] = Cursor] /\ ctxEnd' = Largest({ctxEnd, Cursor})
      /\ fr' = fr + 1 /\ todo' = 0
      /\ UNCHANGED <<prog, moved, phase, ctx, cursor, top, placed, bitTotal, upperTop, phys>>
  BY DEF EndFrame, results
<1>2. /\ fr \in Frame /\ Frames[fr].isr = (ctx = "isr") /\ top <= Start /\ Start \in Nat
      /\ Cursor \in Nat /\ Start <= Cursor /\ Cursor <= Cap(phase) /\ Cap(phase) \in Nat
      /\ phase \in Area
      /\ \A c \in Frames[fr].callers : Frames[c].isr = Frames[fr].isr => Done(c) /\ endOf[c] <= Start
  BY <1>1, StartPlace
<1>3. /\ ctxEnd \in Nat /\ endOf \in [Frame -> Nat] /\ top \in Nat /\ IsProgram(prog)
      /\ top <= ctxEnd /\ ctxEnd <= Cap(phase) /\ EndsInv /\ Len(Frames) \in Nat
  BY <1>1, <1>2, ProgramShape DEF PhaseInv, Basic, CursorInv
<1>4. ctxEnd' \in {ctxEnd, Cursor} /\ ctxEnd <= ctxEnd' /\ Cursor <= ctxEnd' /\ ctxEnd' \in Nat
  BY <1>1, <1>2, <1>3, TwoLargest
<1>5. /\ endOf' \in [Frame -> Nat] /\ endOf'[fr] = Cursor
      /\ \A f \in Frame : f # fr => endOf'[f] = endOf[f]
  BY <1>1, <1>2, <1>3
<1>6. Basic'
  <2>1. fr + 1 \in 0 .. Len(Frames) + 1
    BY <1>2, <1>3 DEF Frame
  <2> QED BY <1>1, <1>4, <1>5, <2>1, SameProgram DEF PhaseInv, Basic
<1>7. TableInv'
  BY <1>1, SameProgram, SameTabled, SameTable DEF PhaseInv, TableInv
<1>8. EndsInv'
  <2> SUFFICES ASSUME NEW f \in Frame, Done(f)'
               PROVE  /\ endOf'[f] <= ctxEnd'
                      /\ \A c \in Frames[f].callers : Frames[c].isr = Frames[f].isr => endOf'[c] <= endOf'[f]
                      /\ ctx = "isr" /\ ~Frames[f].isr => endOf'[f] <= top
    BY <1>1, SameProgram DEF EndsInv
  <2>1. \A c \in Frames[f].callers : c \in Frame /\ c < f /\ c \in Nat
    BY <1>3, ProgramShape
  <2>2. f \in Nat /\ fr \in Nat
    BY <1>2, FrameNumbers
  <2>3. CASE f = fr
    <3>1. \A c \in Frames[f].callers : c # fr
      BY <2>1, <2>2, <2>3
    <3>2. \A c \in Frames[f].callers : Frames[c].isr = Frames[f].isr => endOf'[c] <= endOf'[f]
      <4> SUFFICES ASSUME NEW c \in Frames[f].callers, Frames[c].isr = Frames[f].isr
                   PROVE  endOf'[c] <= endOf'[f]
        OBVIOUS
      <4>1. endOf'[c] = endOf[c] /\ endOf[c] <= Start /\ endOf[c] \in Nat
        BY <1>2, <1>3, <1>5, <2>1, <2>3, <3>1
      <4> QED BY <1>2, <1>5, <2>3, <4>1
    <3>3. endOf'[f] <= ctxEnd'
      BY <1>4, <1>5, <2>3
    <3>4. ~(ctx = "isr" /\ ~Frames[f].isr)
      BY <1>2, <2>3
    <3> QED BY <3>2, <3>3, <3>4
  <2>4. CASE f # fr
    <3>1. Done(f)
      BY <1>1, <1>2, <2>4, DoneNext
    <3>2. /\ endOf[f] <= ctxEnd
          /\ \A c \in Frames[f].callers : Frames[c].isr = Frames[f].isr => endOf[c] <= endOf[f]
          /\ ctx = "isr" /\ ~Frames[f].isr => endOf[f] <= top
      BY <1>3, <3>1 DEF EndsInv
    <3>3. endOf'[f] = endOf[f] /\ endOf[f] \in Nat
      BY <1>3, <1>5, <2>4
    <3>4. ~Done(fr)
      <4>1. ~(fr < fr)
        BY <2>2
      <4>2. ctx = "isr" => Frames[fr].isr
        BY <1>2
      <4> QED BY <4>1, <4>2 DEF Done
    <3>5. ASSUME NEW c \in Frames[f].callers, Frames[c].isr = Frames[f].isr PROVE c # fr
      <4>1. c \in Frame /\ c < f /\ c \in Nat
        BY <2>1
      <4>2. Done(c)
        BY <2>2, <3>1, <3>5, <4>1 DEF Done
      <4> QED BY <3>4, <4>2
    <3>6. \A c \in Frames[f].callers : Frames[c].isr = Frames[f].isr => endOf'[c] <= endOf'[f]
      BY <1>5, <2>1, <3>2, <3>3, <3>5
    <3> QED BY <1>3, <1>4, <3>2, <3>3, <3>6
  <2> QED BY <2>3, <2>4
<1>9. CursorInv'
  <2>1. Cap(phase)' = Cap(phase)
    BY <1>1, SameTable
  <2>2. Placing' => 0 <= Len(Items')
    <3>1. Items' = ItemsOf(phase, fr + 1)
      BY <1>1, SameProgram DEF Items
    <3>2. Placing' => fr + 1 \in Frame
      BY <1>1, SameProgram DEF Placing
    <3>3. fr + 1 \in Frame => AreItems(phase, fr + 1, ItemsOf(phase, fr + 1))
      BY <1>2, <1>3, ItemsShape DEF PhaseInv, Basic
    <3> QED BY <3>1, <3>2, <3>3 DEF AreItems
  <2>3. top <= ctxEnd' /\ ctxEnd' <= Cap(phase)
    BY <1>2, <1>3, <1>4
  <2>4. fr + 1 # 0 /\ fr # 0
    BY <1>2, FrameNumbers
  <2>5. phase = "bits" => prog.bits <= top
    BY <1>1, <1>2 DEF PhaseInv, CursorInv
  <2> QED BY <1>1, <1>8, <2>1, <2>2, <2>3, <2>4, <2>5 DEF CursorInv
<1> QED BY <1>6, <1>7, <1>9 DEF PhaseInv

LEMMA SkipFramePhase ==
  ASSUME PhaseInv, SkipFrame
  PROVE  PhaseInv'
<1>1. /\ phase \in Area /\ fr \in Frame /\ ~Placing /\ fr' = fr + 1
      /\ UNCHANGED <<prog, moved, phase, ctx, todo, cursor, endOf, top, ctxEnd, placed, bitTotal,
                     upperTop, phys>>
  BY DEF SkipFrame, results
<1>2. todo = 0 /\ ctx # "globals" /\ EndsInv /\ top <= ctxEnd /\ ctxEnd <= Cap(phase) /\ fr # 0
  BY <1>1, FrameNumbers DEF PhaseInv, CursorInv, Placing
<1>3. IsProgram(prog) /\ Len(Frames) \in Nat /\ fr \in Nat
  BY <1>1, FrameNumbers, ProgramShape DEF PhaseInv, Basic
<1>4. Basic'
  <2>1. fr + 1 \in 0 .. Len(Frames) + 1
    BY <1>1, <1>3 DEF Frame
  <2> QED BY <1>1, <2>1, SameProgram DEF PhaseInv, Basic
<1>5. TableInv'
  BY <1>1, SameProgram, SameTabled, SameTable DEF PhaseInv, TableInv
<1>6. EndsInv'
  <2>1. \A f \in Frame : Done(f)' <=> Done(f)
    BY <1>1, DoneNext
  <2> QED BY <1>1, <1>2, <2>1, SameProgram DEF EndsInv
<1>7. CursorInv'
  <2>1. Cap(phase)' = Cap(phase)
    BY <1>1, SameTable
  <2>2. Placing' => 0 <= Len(Items')
    <3>1. Items' = ItemsOf(phase, fr + 1)
      BY <1>1, SameProgram DEF Items
    <3>2. Placing' => fr + 1 \in Frame
      BY <1>1, <1>2, SameProgram DEF Placing
    <3>3. fr + 1 \in Frame => AreItems(phase, fr + 1, ItemsOf(phase, fr + 1))
      BY <1>1, <1>3, ItemsShape DEF PhaseInv, Basic
    <3> QED BY <3>1, <3>2, <3>3 DEF AreItems
  <2>3. fr + 1 # 0
    BY <1>3
  <2>4. phase = "bits" => prog.bits <= top
    BY <1>1, <1>2 DEF PhaseInv, CursorInv
  <2> QED BY <1>1, <1>2, <1>6, <2>1, <2>2, <2>3, <2>4 DEF CursorInv
<1> QED BY <1>4, <1>5, <1>7 DEF PhaseInv

LEMMA EndMainPhase ==
  ASSUME PhaseInv, EndMain
  PROVE  PhaseInv'
<1>1. /\ phase \in Area /\ ctx = "main" /\ fr = Len(Frames) + 1
      /\ ctx' = "isr" /\ top' = ctxEnd /\ fr' = 1
      /\ UNCHANGED <<prog, moved, phase, todo, cursor, endOf, ctxEnd, placed, bitTotal, upperTop,
                     phys>>
  BY DEF EndMain, results
<1>2. IsProgram(prog) /\ Len(Frames) \in Nat /\ ctxEnd \in Nat /\ top \in Nat
  BY ProgramShape DEF PhaseInv, Basic
<1>3. /\ ~Placing /\ todo = 0 /\ EndsInv /\ top <= ctxEnd /\ ctxEnd <= Cap(phase)
      /\ (phase = "bits" => prog.bits <= top)
  <2>1. fr \notin Frame
    BY <1>1, <1>2 DEF Frame
  <2>2. ~Placing
    BY <1>1, <2>1 DEF Placing
  <2> QED BY <1>1, <2>2 DEF PhaseInv, CursorInv
<1>4. Basic'
  <2>1. 1 \in 0 .. Len(Frames) + 1
    BY <1>2
  <2> QED BY <1>1, <2>1, SameProgram DEF PhaseInv, Basic
<1>5. TableInv'
  <2>1. phase \notin Complete
    BY <1>1 DEF Area, Complete
  <2> QED BY <1>1, <2>1, SameProgram, SameTabled, SameTable DEF PhaseInv, TableInv
<1>6. EndsInv'
  <2> SUFFICES ASSUME NEW f \in Frame, Done(f)'
               PROVE  /\ endOf[f] <= ctxEnd
                      /\ \A c \in Frames[f].callers : Frames[c].isr = Frames[f].isr => endOf[c] <= endOf[f]
                      /\ ~Frames[f].isr => endOf[f] <= ctxEnd
    BY <1>1, SameProgram DEF EndsInv
  <2>1. f < Len(Frames) + 1 /\ ~(f < 1)
    BY <1>2 DEF Frame
  <2>2. ~Frames[f].isr
    BY <1>1, <2>1, SameProgram DEF Done
  <2>3. Done(f)
    BY <1>1, <2>1, <2>2 DEF Done
  <2> QED BY <1>3, <2>3 DEF EndsInv
<1>7. CursorInv'
  <2>1. Cap(phase)' = Cap(phase)
    BY <1>1, SameTable
  <2>2. Placing' => 0 <= Len(Items')
    <3>1. Items' = ItemsOf(phase, 1)
      BY <1>1, SameProgram DEF Items
    <3>2. Placing' => 1 \in Frame
      BY <1>1, SameProgram DEF Placing
    <3>3. 1 \in Frame => AreItems(phase, 1, ItemsOf(phase, 1))
      BY <1>1, <1>2, ItemsShape DEF PhaseInv, Basic
    <3> QED BY <3>1, <3>2, <3>3 DEF AreItems
  <2>3. phase = "bits" => prog.bits <= ctxEnd
    BY <1>2, <1>3, ProgramSizes
  <2>4. ctxEnd <= ctxEnd
    BY <1>2
  <2> QED BY <1>1, <1>3, <1>6, <2>1, <2>2, <2>3, <2>4 DEF CursorInv
<1> QED BY <1>4, <1>5, <1>7 DEF PhaseInv

LEMMA EndAreaPhase ==
  ASSUME PhaseInv, EndArea
  PROVE  PhaseInv'
<1>1. /\ phase \in Area /\ ctx = "isr" /\ fr = Len(Frames) + 1
      /\ ctx' = "globals" /\ fr' = 0 /\ top' = ctxEnd
      /\ bitTotal' = (IF phase = "bits" THEN ctxEnd ELSE bitTotal)
      /\ upperTop' = (IF phase = "upper" THEN ctxEnd ELSE upperTop)
      /\ phys' = (IF phase # "bits" THEN phys ELSE Ascending(Usable(BitBytes(ctxEnd))))
      /\ UNCHANGED <<prog, moved, todo, cursor, endOf, ctxEnd, placed, globalsEnd>>
  BY DEF EndArea
<1>2. /\ phase = "bits" => phase' = "upper"
      /\ phase = "upper" => phase' = "direct"
      /\ phase = "direct" => phase' = IF ctxEnd > Capacity THEN "exhausted" ELSE "boot"
  BY DEF EndArea
<1>3. IsProgram(prog) /\ Len(Frames) \in Nat /\ ctxEnd \in Nat /\ top \in Nat /\ Cap(phase) \in Nat
  BY <1>1, PhaseCap, ProgramShape DEF PhaseInv, Basic
<1>4. /\ ~Placing /\ todo = 0 /\ top <= ctxEnd /\ ctxEnd <= Cap(phase)
      /\ (phase = "bits" => prog.bits <= top)
  <2>1. fr \notin Frame
    BY <1>1, <1>3 DEF Frame
  <2>2. ~Placing
    BY <1>1, <2>1 DEF Placing
  <2> QED BY <1>1, <2>2 DEF PhaseInv, CursorInv
<1>5. phase' \in {"upper", "direct", "exhausted", "boot"} /\ (phase' = "boot" => phase = "direct" /\ ctxEnd <= Capacity)
  <2>1. phase = "direct" => Capacity \in Nat
    BY Table DEF PhaseInv, TableInv, Basic
  <2> QED BY <1>1, <1>2, <1>3, <2>1, AreaNames
<1>6. Basic'
  <2>1. phase' \in Area \cup {"exhausted", "failed"} \cup Complete
    BY <1>5 DEF Area, Complete
  <2>2. bitTotal' \in Nat /\ 0 \in 0 .. Len(Frames) + 1
    BY <1>1, <1>3 DEF PhaseInv, Basic
  <2> QED BY <1>1, <1>3, <2>1, <2>2, SameProgram DEF PhaseInv, Basic
<1>7. Tabled' /\ prog.bits <= bitTotal'
  <2>1. CASE phase = "bits"
    <3>1. bitTotal' = ctxEnd /\ phys' = Ascending(Usable(BitBytes(ctxEnd)))
      BY <1>1, <2>1
    <3>2. phys' = Ascending(Usable(BitBytes(bitTotal)))'
      <4>1. PICK t : t = ctxEnd
        OBVIOUS
      <4>2. Usable(BitBytes(t))' = Usable(BitBytes(t))
        BY <1>1, SameProgram
      <4>3. Ascending(Usable(BitBytes(bitTotal)))' = Ascending(Usable(BitBytes(t)))
        BY <3>1, <4>1, <4>2 DEF Ascending, Nth
      <4> QED BY <3>1, <4>1, <4>3
    <3>3. bitTotal' \in Nat /\ bitTotal' <= Cardinality(FreeBits)' /\ prog.bits <= bitTotal'
      <4>1. ctxEnd <= Cardinality(FreeBits)
        BY <1>4, <2>1 DEF Cap
      <4>2. prog.bits <= ctxEnd
        BY <1>3, <1>4, <2>1, ProgramSizes
      <4> QED BY <1>1, <1>3, <3>1, <4>1, <4>2, SameProgram
    <3> QED BY <3>2, <3>3 DEF Tabled
  <2>2. CASE phase # "bits"
    <3>1. Tabled /\ prog.bits <= bitTotal
      BY <1>1, <2>2 DEF PhaseInv, TableInv, Area
    <3> QED BY <1>1, <2>2, <3>1, SameTabled
  <2> QED BY <2>1, <2>2
<1>8. TableInv'
  <2>1. bitTotal' <= Cardinality(FreeBits)'
    BY <1>7 DEF Tabled
  <2>2. upperTop' \in 0 .. RamTop - DirectTop
    <3>1. CASE phase = "upper"
      BY <1>1, <1>3, <1>4, <3>1, ProgramSizes DEF Cap
    <3>2. CASE phase # "upper"
      BY <1>1, <3>2 DEF PhaseInv, TableInv
    <3> QED BY <3>1, <3>2
  <2>3. (RamTop - DirectTop)' = RamTop - DirectTop
    BY <1>1, SameProgram
  <2>4. phase' \in Complete => top' <= Capacity'
    <3> SUFFICES ASSUME phase' \in Complete PROVE ctxEnd <= Capacity'
      BY <1>1
    <3>1. phase = "direct" /\ ctxEnd <= Capacity
      BY <1>5 DEF Complete
    <3> QED BY <1>1, <3>1, SameTable
  <2>5. phase' # "bits" /\ prog' = prog
    BY <1>1, <1>5
  <2> QED BY <1>7, <2>1, <2>2, <2>3, <2>4, <2>5 DEF TableInv
<1>9. CursorInv'
  <2>1. EndsInv'
    BY <1>1 DEF EndsInv, Done
  <2>2. Placing' => 0 <= Len(Items')
    <3>1. Items' = ItemsOf(phase', 0)
      BY <1>1, SameProgram DEF Items
    <3>2. Placing' => phase' \in Area
      BY DEF Placing
    <3>3. phase' \in Area => AreItems(phase', 0, ItemsOf(phase', 0))
      BY <1>3, ItemsShape DEF PhaseInv, Basic
    <3> QED BY <3>1, <3>2, <3>3 DEF AreItems
  <2>3. phase' # "bits"
    BY <1>5
  <2> QED BY <1>1, <1>4, <2>1, <2>2, <2>3 DEF CursorInv
<1> QED BY <1>6, <1>8, <1>9 DEF PhaseInv

\* Both attempts begin alike.
Begun ==
  /\ IsProgram(prog) /\ moved \in BOOLEAN /\ phase = "bits" /\ ctx = "globals" /\ fr = 0
  /\ todo = 0 /\ cursor = 0 /\ endOf = [f \in Frame |-> 0] /\ top = 0 /\ ctxEnd = 0
  /\ bitTotal = 0 /\ upperTop = 0 /\ phys = <<>>

LEMMA BeginPhase == Begun => PhaseInv
<1> SUFFICES ASSUME Begun PROVE PhaseInv
  OBVIOUS
<1> USE DEF Begun
<1>1. Len(Frames) \in Nat /\ RamTop - DirectTop \in Nat /\ Cardinality(FreeBits) \in Nat
  BY ProgramShape, ProgramSizes, FreeBitsFinite
<1>2. Basic
  BY <1>1 DEF Basic, Area
<1>3. TableInv
  BY <1>1 DEF TableInv, Complete
<1>4. AreItems(phase, 0, Items)
  BY ItemsShape DEF Items, Area
<1>5. EndsInv
  BY DEF EndsInv, Done
<1>6. CursorInv
  BY <1>4, <1>5 DEF CursorInv, AreItems
<1> QED BY <1>2, <1>3, <1>6 DEF PhaseInv

LEMMA InitPhase == Init => PhaseInv
<1>1. Init => Begun
  BY ProgramsAssumption DEF Init, Begun
<1> QED BY <1>1, BeginPhase

LEMMA RetryPhase ==
  ASSUME PhaseInv, Retry
  PROVE  PhaseInv'
<1>1. Frame' = Frame
  BY DEF Retry, Frame, Frames
<1>2. Begun'
  BY <1>1 DEF Begun, Retry, PhaseInv, Basic
<1>3. Begun' => PhaseInv'
  BY BeginPhase, PTL
<1> QED BY <1>2, <1>3

\* What the steps that place nothing leave alone.
LEMMA StopPhase ==
  ASSUME PhaseInv, NoPlace \/ Fail
  PROVE  PhaseInv'
<1>1. UNCHANGED <<prog, moved, ctx, fr, cursor, endOf, top, ctxEnd, bitTotal, upperTop, phys, todo>>
  BY DEF NoPlace, Fail, cursors, results
<1>2. phase' \in {"failed", "exhausted"}
  BY DEF NoPlace, Fail
<1>3. phase' \notin Complete /\ todo' \in Nat
  BY <1>1, <1>2 DEF Complete, PhaseInv, Basic
<1> QED BY <1>1, <1>2, <1>3, OtherPhase

LEMMA StartupPhase ==
  ASSUME PhaseInv, Startup
  PROVE  /\ PhaseInv' /\ phase \in Complete /\ phase' \in Complete
         /\ UNCHANGED <<prog, moved, ctx, fr, cursor, endOf, top, ctxEnd, results>>
<1>1. UNCHANGED <<prog, moved, ctx, fr, cursor, endOf, top, ctxEnd, results>>
  BY DEF Startup, Boot, ClearByte, EndClear, WriteInit, StartMain, cursors
<1>2. phase \in Complete /\ phase' \in Complete
  BY DEF Startup, Boot, ClearByte, EndClear, WriteInit, StartMain, Complete
<1>3. todo' = todo \/ todo' = 0 \/ todo' = todo + 1
  BY DEF Startup, Boot, ClearByte, EndClear, WriteInit, StartMain, cursors
<1>4. todo' \in Nat
  BY <1>3 DEF PhaseInv, Basic
<1>5. UNCHANGED <<prog, moved, ctx, fr, cursor, endOf, top, ctxEnd, bitTotal, upperTop, phys>>
  BY <1>1 DEF results
<1>6. PhaseInv'
  BY <1>2, <1>4, <1>5, OtherPhase
<1> QED BY <1>1, <1>2, <1>6

LEMMA IdlePhase ==
  ASSUME PhaseInv, UNCHANGED vars
  PROVE  PhaseInv'
<1>1. /\ UNCHANGED <<prog, moved, phase, ctx, fr, cursor, endOf, top, ctxEnd, bitTotal, upperTop,
                     phys, todo>>
  BY DEF vars, cursors, results
<1>2. Basic'
  BY <1>1, SameProgram DEF PhaseInv, Basic
<1>3. TableInv'
  BY <1>1, SameProgram, SameTabled, SameTable DEF PhaseInv, TableInv
<1>4. Placing' = Placing /\ Start' = Start /\ Items' = Items /\ EndsInv' = EndsInv
  BY <1>1, SameProgram DEF Placing, Start, Items, EndsInv, Done
<1>5. Cap(phase)' = Cap(phase)
  BY <1>1, SameTable
<1>6. CursorInv'
  BY <1>1, <1>4, <1>5 DEF PhaseInv, CursorInv
<1> QED BY <1>2, <1>3, <1>6 DEF PhaseInv

LEMMA NextPhase == PhaseInv /\ [Next]_vars => PhaseInv'
<1> SUFFICES ASSUME PhaseInv, [Next]_vars PROVE PhaseInv'
  OBVIOUS
<1>1. CASE PlaceItem
  BY <1>1, PlaceItemPhase
<1>2. CASE NoPlace \/ Fail
  BY <1>2, StopPhase
<1>3. CASE EndGlobals
  BY <1>3, EndGlobalsPhase
<1>4. CASE EndFrame
  BY <1>4, EndFramePhase
<1>5. CASE SkipFrame
  BY <1>5, SkipFramePhase
<1>6. CASE EndMain
  BY <1>6, EndMainPhase
<1>7. CASE EndArea
  BY <1>7, EndAreaPhase
<1>8. CASE Retry
  BY <1>8, RetryPhase
<1>9. CASE Startup
  BY <1>9, StartupPhase
<1>10. CASE UNCHANGED vars
  BY <1>10, IdlePhase
<1> QED BY <1>1, <1>2, <1>3, <1>4, <1>5, <1>6, <1>7, <1>8, <1>9, <1>10 DEF Next, Layout

-----------------------------------------------------------------------------
(***************************************************************************)
(* What is placed.                                                         *)
(***************************************************************************)
Turn(p) == CASE p = "bits" -> 1 [] p = "upper" -> 2 [] p = "direct" -> 3 [] OTHER -> 4

Finished(f) == IF f = 0 THEN ctx # "globals" ELSE Done(f)
Bound(f) == IF f = 0 THEN top ELSE endOf[f]

NameOf(a, f, k) == ItemsOf(a, f)[k].name
Known(o) ==
  \E a \in Area, f \in Frame \cup {0} : \E k \in 1 .. Len(ItemsOf(a, f)) :
    o.name = NameOf(a, f, k) /\ o.size = ItemsOf(a, f)[k].size

\* Every placed item is one of the program, is there once, and has a place in
\* its area.
KnownInv ==
  /\ \A o \in placed : Known(o) /\ (AreaOf(o.name) # "bits" => Tabled)
                       /\ \E v : Lies(AreaOf(o.name), o, v)
  /\ \A o \in placed, q \in placed : o.name = q.name => o = q

\* The items of this area lie below the end of their frame.
HereBelow(o) ==
  \/ Finished(Owner(o)) /\ Below(phase, o, Bound(Owner(o)))
  \/ Owner(o) = fr /\ todo > 0 /\ Below(phase, o, cursor)
PlacedInv ==
  phase \in Area => \A o \in placed :
    Turn(AreaOf(o.name)) < Turn(phase) \/ (AreaOf(o.name) = phase /\ HereBelow(o))

PairsInv ==
  \A o \in placed, q \in placed :
    AreaOf(o.name) = AreaOf(q.name) /\ o.name # q.name /\ LiveTogether(Owner(o), Owner(q)) =>
      BytesOf(o) \cap BytesOf(q) = {}

\* Item k of frame f in area a has had its turn.
WasPlaced(a, f, k) ==
  \/ Turn(a) < Turn(phase)
  \/ a = phase /\ (Finished(f) \/ (f = fr /\ k <= todo))

NamesInv ==
  phase \in Area \cup Complete =>
    \A a \in Area, f \in Frame \cup {0} : \A k \in 1 .. Len(ItemsOf(a, f)) :
      (\E o \in placed : o.name = NameOf(a, f, k)) <=> WasPlaced(a, f, k)

\* What the end of an area, and of the globals in it, remembers of its items.
PastOf(o) ==
  /\ AreaOf(o.name) = "bits" /\ phase \in {"upper", "direct"} \cup Complete => Below("bits", o, bitTotal)
  /\ AreaOf(o.name) = "upper" /\ phase \in {"direct"} \cup Complete => Below("upper", o, upperTop)
  /\ AreaOf(o.name) = "direct" /\ phase \in Complete => Below("direct", o, top)
  /\ AreaOf(o.name) = "bits" /\ Owner(o) = 0 => Below("bits", o, prog.bits)
  /\ AreaOf(o.name) = "direct" /\ Owner(o) = 0
       /\ ((phase = "direct" /\ ctx # "globals") \/ phase \in Complete) =>
         o.at + o.size <= globalsEnd
PastInv == \A o \in placed : PastOf(o)

PlaceInv == PhaseInv /\ KnownInv /\ PlacedInv /\ PairsInv /\ NamesInv /\ PastInv

LEMMA ItemFacts ==
  ASSUME PhaseInv, NEW a \in Area, NEW f \in Frame \cup {0}, NEW k \in 1 .. Len(ItemsOf(a, f))
  PROVE  /\ IsItem(a, f, ItemsOf(a, f)[k])
         /\ NameOf(a, f, k)[2] = f /\ AreaOf(NameOf(a, f, k)) = a
         /\ Len(ItemsOf(a, f)) \in Nat /\ k \in Nat
         /\ ItemsOf(a, f)[k].size \in Nat \ {0}
         /\ ItemsOf(a, f)[k].name \in {"bit", "slot", "object"} \X Nat \X Nat
<1>1. AreItems(a, f, ItemsOf(a, f))
  BY ItemsShape DEF PhaseInv, Basic
<1>2. PICK s : s = ItemsOf(a, f)
  OBVIOUS
<1>3. s \in Seq(Item) /\ Len(s) \in Nat /\ IsItem(a, f, s[k])
  BY <1>1, <1>2 DEF AreItems
<1>4. s[k] \in Item
  <2> HIDE DEF Item
  <2> QED BY <1>2, <1>3
<1>5. s[k].size \in Nat \ {0} /\ s[k].name \in {"bit", "slot", "object"} \X Nat \X Nat
  BY <1>4 DEF Item
<1>6. s[k].name[2] = f /\ AreaOf(s[k].name) = a
  BY <1>3 DEF IsItem
<1> QED BY <1>2, <1>3, <1>5, <1>6 DEF NameOf

\* A name belongs to one item.
LEMMA NameOnce ==
  ASSUME PhaseInv, NEW a \in Area, NEW f \in Frame \cup {0}, NEW k \in 1 .. Len(ItemsOf(a, f)),
         NEW b \in Area, NEW g \in Frame \cup {0}, NEW l \in 1 .. Len(ItemsOf(b, g)),
         NameOf(a, f, k) = NameOf(b, g, l)
  PROVE  a = b /\ f = g /\ k = l
<1>1. a = b /\ f = g
  BY ItemFacts
<1>2. AreItems(a, f, ItemsOf(a, f))
  BY ItemsShape DEF PhaseInv, Basic
<1>3. k = l
  BY <1>1, <1>2 DEF AreItems, NameOf
<1> QED BY <1>1, <1>3

LEMMA KnownFacts ==
  ASSUME PhaseInv, NEW o, Known(o)
  PROVE  /\ AreaOf(o.name) \in Area /\ Owner(o) \in Frame \cup {0}
         /\ o.size \in Nat \ {0} /\ Sized(AreaOf(o.name), o)
         /\ IsItem(AreaOf(o.name), Owner(o), o)
         /\ o.name[1] = "bit" <=> AreaOf(o.name) = "bits"
<1>1. PICK a \in Area, f \in Frame \cup {0} : \E k \in 1 .. Len(ItemsOf(a, f)) :
        o.name = NameOf(a, f, k) /\ o.size = ItemsOf(a, f)[k].size
  BY DEF Known
<1>2. PICK k \in 1 .. Len(ItemsOf(a, f)) : o.name = NameOf(a, f, k) /\ o.size = ItemsOf(a, f)[k].size
  BY <1>1
<1>3. IsItem(a, f, ItemsOf(a, f)[k])
  BY ItemFacts
<1>4. IsItem(a, f, o)
  BY <1>2, <1>3 DEF IsItem, NameOf
<1>5. AreaOf(o.name) = a /\ Owner(o) = f
  BY <1>4 DEF IsItem, Owner
<1> QED BY <1>4, <1>5 DEF IsItem, Sized

LEMMA LiveSymmetric ==
  \A f, g : LiveTogether(f, g) <=> LiveTogether(g, f)
BY DEF LiveTogether

\* Along a chain of calls in one context the frames end one above the other.
LEMMA ChainEnds ==
  ASSUME PhaseInv, phase \in Area, NEW h \in Frame, Done(h), NEW e \in Above[h],
         Frames[e].isr = Frames[h].isr
  PROVE  endOf[e] <= endOf[h]
<1> DEFINE Good(g) == \A d \in Above[g] : Frames[d].isr = Frames[g].isr => endOf[d] <= endOf[g]
           T == {g \in Frame : Done(g) /\ ~Good(g)}
<1>1. IsProgram(prog) /\ endOf \in [Frame -> Nat] /\ EndsInv
  BY DEF PhaseInv, Basic, CursorInv
<1>2. CASE T = {}
  BY <1>2
<1>3. CASE T # {}
  <2>1. T \in SUBSET Nat
    BY FrameNumbers
  <2>2. PICK g \in T : \A l \in T : g <= l
    BY <1>3, <2>1, LeastMember
  <2>3. g \in Frame /\ g \in Nat /\ Done(g)
    BY <2>1, <2>2
  <2>4. ASSUME NEW c \in Frames[g].callers, Frames[c].isr = Frames[g].isr
        PROVE  c \in Frame /\ Good(c) /\ endOf[c] <= endOf[g]
    <3>1. c \in Frame /\ c < g /\ c \in Nat
      BY <1>1, <2>3, ProgramShape
    <3>2. Done(c)
      <4>1. fr \in Nat
        BY <1>1, ProgramShape DEF PhaseInv, Basic
      <4>2. g < fr => c < fr
        BY <2>3, <3>1, <4>1
      <4> QED BY <2>3, <2>4, <4>2 DEF Done
    <3>3. c \notin T
      <4>1. ~(g <= c)
        BY <2>3, <3>1
      <4> HIDE DEF T
      <4> QED BY <2>2, <4>1
    <3>4. Good(c)
      <4> HIDE DEF Good
      <4> QED BY <3>1, <3>2, <3>3
    <3> QED BY <1>1, <2>3, <2>4, <3>1, <3>4 DEF EndsInv
  <2>5. ASSUME NEW d \in Above[g], Frames[d].isr = Frames[g].isr
        PROVE  endOf[d] <= endOf[g]
    <3>1. CASE d \in Frames[g].callers
      BY <2>4, <2>5, <3>1
    <3>2. CASE d \notin Frames[g].callers
      <4>1. PICK c \in Frames[g].callers : d \in Above[c]
        BY <1>1, <2>3, <2>5, <3>2, AboveChained
      <4>2. c \in Frame /\ (Frames[g].isr \/ ~Frames[c].isr) /\ Frames[g].isr \in BOOLEAN
        BY <1>1, <2>3, ProgramShape
      <4>3. d \in Frame /\ (Frames[d].isr => Frames[c].isr)
        BY <1>1, <4>1, <4>2, AboveBefore
      <4>4. Frames[c].isr \in BOOLEAN
        BY <1>1, <4>2, ProgramShape
      <4>5. Frames[c].isr = Frames[g].isr
        BY <2>5, <4>2, <4>3, <4>4
      <4>6. Good(c) /\ endOf[c] <= endOf[g]
        BY <2>4, <4>5
      <4>7. endOf[d] <= endOf[c]
        BY <2>5, <4>1, <4>5, <4>6
      <4>8. endOf[d] \in Nat /\ endOf[c] \in Nat /\ endOf[g] \in Nat
        BY <1>1, <2>3, <4>2, <4>3
      <4> QED BY <4>6, <4>7, <4>8
    <3> QED BY <3>1, <3>2
  <2> QED BY <2>2, <2>5
<1> QED BY <1>2, <1>3

LEMMA ChainStart ==
  ASSUME PhaseInv, Placing, ctx # "globals", NEW e \in Above[fr], Frames[e].isr = Frames[fr].isr
  PROVE  endOf[e] <= Start
<1>1. IsProgram(prog) /\ endOf \in [Frame -> Nat]
  BY DEF PhaseInv, Basic
<1>2. /\ fr \in Frame /\ Start \in Nat /\ phase \in Area
      /\ \A c \in Frames[fr].callers : Frames[c].isr = Frames[fr].isr => Done(c) /\ endOf[c] <= Start
  BY StartPlace
<1>3. CASE e \in Frames[fr].callers
  BY <1>2, <1>3
<1>4. CASE e \notin Frames[fr].callers
  <2>1. PICK c \in Frames[fr].callers : e \in Above[c]
    BY <1>1, <1>2, <1>4, AboveChained
  <2>2. c \in Frame /\ (Frames[fr].isr \/ ~Frames[c].isr) /\ Frames[fr].isr \in BOOLEAN
    BY <1>1, <1>2, ProgramShape
  <2>3. e \in Frame /\ (Frames[e].isr => Frames[c].isr)
    BY <1>1, <2>1, <2>2, AboveBefore
  <2>4. Frames[c].isr \in BOOLEAN
    BY <1>1, <2>2, ProgramShape
  <2>5. Frames[c].isr = Frames[fr].isr
    BY <2>2, <2>3, <2>4
  <2>6. Done(c) /\ endOf[c] <= Start
    BY <1>2, <2>5
  <2>7. endOf[e] <= endOf[c]
    BY <1>2, <2>1, <2>2, <2>5, <2>6, ChainEnds
  <2>8. endOf[e] \in Nat /\ endOf[c] \in Nat
    BY <1>1, <2>2, <2>3
  <2> QED BY <1>2, <2>6, <2>7, <2>8
<1> QED BY <1>3, <1>4

\* Everything that is live with the item to place lies below where it goes.
LEMMA LiveBelow ==
  ASSUME PhaseInv, PlacedInv, Placing, NEW o \in placed, Known(o), AreaOf(o.name) = phase,
         LiveTogether(fr, Owner(o))
  PROVE  Below(phase, o, Cursor)
<1>1. /\ phase \in Area /\ Start \in Nat /\ Start <= Cursor /\ Cursor \in Nat
      /\ ctx # "globals" => fr \in Frame /\ Frames[fr].isr = (ctx = "isr") /\ top <= Start
      /\ ctx = "globals" => fr = 0
  BY StartPlace
<1>2. o.size \in Nat /\ Owner(o) \in Frame \cup {0}
  BY KnownFacts
<1>3. /\ IsProgram(prog) /\ endOf \in [Frame -> Nat] /\ top \in Nat /\ EndsInv
      /\ ctx \in {"globals", "main", "isr"}
  BY <1>1 DEF PhaseInv, Basic, CursorInv
<1>4. HereBelow(o)
  <2>1. ~(Turn(phase) < Turn(phase))
    <3>1. Turn(phase) \in Nat
      BY DEF Turn
    <3> QED BY <3>1
  <2> QED BY <1>1, <2>1 DEF PlacedInv
<1>5. CASE Owner(o) = fr /\ todo > 0 /\ Below(phase, o, cursor)
  <2>1. Cursor = cursor
    BY <1>5 DEF Cursor, PhaseInv, Basic
  <2> QED BY <1>5, <2>1
<1>6. CASE Finished(Owner(o)) /\ Below(phase, o, Bound(Owner(o)))
  <2>1. ctx # "globals"
    BY <1>6 DEF Finished, Done
  <2>2. PICK g : g = Owner(o)
    OBVIOUS
  <2>3. Bound(g) <= Start /\ Bound(g) \in Nat
    <3>1. CASE g = 0
      BY <1>1, <1>3, <2>1, <3>1 DEF Bound
    <3>2. CASE g # 0
      <4>1. g \in Frame /\ g \in Nat /\ Done(g) /\ fr \in Frame /\ fr \in Nat /\ fr # 0
        BY <1>1, <1>2, <1>6, <2>1, <2>2, <3>2, FrameNumbers DEF Finished
      <4>2. Bound(g) = endOf[g] /\ endOf[g] \in Nat
        BY <1>3, <3>2, <4>1 DEF Bound
      <4>3. ctx = "isr" => (Frames[fr].isr <=> TRUE)
        BY <1>1, <2>1
      <4>4. ctx = "main" => (Frames[fr].isr <=> FALSE)
        BY <1>1, <2>1
      <4>5. Frames[g].isr \in BOOLEAN /\ Frames[fr].isr \in BOOLEAN
        BY <1>3, <4>1, ProgramShape
      <4>6. CASE Frames[g].isr # Frames[fr].isr
        <5>1. ctx = "isr" /\ ~Frames[g].isr
          BY <1>3, <2>1, <4>1, <4>3, <4>4, <4>5, <4>6 DEF Done
        <5>2. endOf[g] <= top
          BY <1>3, <4>1, <5>1 DEF EndsInv
        <5> QED BY <1>1, <1>3, <2>1, <4>2, <5>2
      <4>7. CASE Frames[g].isr = Frames[fr].isr
        <5>1. g < fr
          BY <1>3, <2>1, <4>1, <4>3, <4>4, <4>5, <4>7 DEF Done
        <5>2. g \in Above[fr]
          <6>1. fr \notin Above[g]
            <7>1. ~(fr < g)
              BY <4>1, <5>1
            <7> QED BY <1>3, <4>1, <7>1, AboveBefore
          <6>2. g # fr
            BY <4>1, <5>1
          <6> QED BY <2>2, <3>2, <4>1, <4>7, <6>1, <6>2 DEF LiveTogether
        <5>3. endOf[g] <= Start
          BY <2>1, <4>7, <5>2, ChainStart
        <5> QED BY <4>2, <5>3
      <4> QED BY <4>6, <4>7
    <3> QED BY <3>1, <3>2
  <2>4. Bound(g) <= Cursor
    BY <1>1, <2>3
  <2> QED BY <1>1, <1>2, <1>6, <2>2, <2>3, <2>4, BelowMore
<1> QED BY <1>4, <1>5, <1>6 DEF HereBelow

LEMMA SameNames ==
  ASSUME prog' = prog, moved' = moved
  PROVE  /\ \A a, f, k : NameOf(a, f, k)' = NameOf(a, f, k)
         /\ \A o : Known(o)' = Known(o)
<1>1. \A a, f, k : NameOf(a, f, k)' = NameOf(a, f, k)
  BY SameProgram DEF NameOf
<1>2. \A o : Known(o)' = Known(o)
  BY <1>1, SameProgram DEF Known
<1> QED BY <1>1, <1>2

LEMMA TurnOrder ==
  /\ Turn("bits") = 1 /\ Turn("upper") = 2 /\ Turn("direct") = 3
  /\ \A a \in Area : Turn(a) \in 1 .. 3
  /\ \A p \in Complete : Turn(p) = 4
<1>1. Turn("bits") = 1 /\ Turn("upper") = 2 /\ Turn("direct") = 3
  BY DEF Turn
<1>2. \A p \in Complete : Turn(p) = 4
  BY DEF Turn, Complete
<1> QED BY <1>1, <1>2, AreaNames

\* The frame that is being placed is not finished.
LEMMA NotFinished ==
  ASSUME PhaseInv, Placing
  PROVE  ~Finished(fr)
<1>1. /\ ctx = "globals" => fr = 0
      /\ ctx # "globals" => fr \in Frame /\ Frames[fr].isr = (ctx = "isr")
  BY StartPlace
<1>2. CASE ctx = "globals"
  BY <1>1, <1>2 DEF Finished
<1>3. CASE ctx # "globals"
  <2>1. fr # 0 /\ fr \in Nat /\ ~(fr < fr)
    <3>1. fr \in Frame
      BY <1>1, <1>3
    <3>2. fr # 0 /\ fr \in Nat
      BY <3>1, FrameNumbers
    <3> QED BY <3>2
  <2>2. ctx = "isr" => Frames[fr].isr
    BY <1>1
  <2> QED BY <2>1, <2>2 DEF Finished, Done
<1> QED BY <1>2, <1>3

LEMMA PlaceItemPlaced ==
  ASSUME PlaceInv, PlaceItem
  PROVE  KnownInv' /\ PlacedInv' /\ PairsInv' /\ NamesInv' /\ PastInv'
<1>1. /\ Placing /\ todo < Len(Items) /\ todo' = todo + 1
      /\ UNCHANGED <<prog, moved, phase, ctx, fr, endOf, top, ctxEnd, bitTotal,
                     upperTop, phys, globalsEnd, machine>>
  BY DEF PlaceItem
<1>2. PICK item : item = Items[todo + 1]
  OBVIOUS
<1>3. PICK v : v = Offset(item.size)
  OBVIOUS
<1>4. PICK new : new = [name |-> item.name, size |-> item.size, at |-> AddressAt(v, item.size)]
  OBVIOUS
<1>5. HasPlace(v, item.size) /\ cursor' = v + item.size /\ placed' = placed \cup {new}
  BY <1>2, <1>3, <1>4 DEF PlaceItem
<1>6. PhaseInv /\ KnownInv /\ PlacedInv /\ PairsInv /\ NamesInv /\ PastInv
  BY DEF PlaceInv
<1>7. /\ IsItem(phase, fr, item) /\ new.name = item.name /\ new.size = item.size
      /\ item.size \in Nat \ {0} /\ Sized(phase, new)
      /\ v \in Nat /\ Cursor <= v /\ v + item.size <= Cap(phase)
      /\ Lies(phase, new, v)
      /\ phase = "bits" => v = Cursor
  BY <1>1, <1>2, <1>3, <1>4, <1>5, <1>6, OffsetPlace
<1>8. /\ phase \in Area /\ fr \in Frame \cup {0} /\ Cursor \in Nat /\ Cap(phase) \in Nat
      /\ AreItems(phase, fr, Items) /\ todo \in Nat /\ Len(Items) \in Nat
      /\ IsProgram(prog)
  BY <1>1, <1>6, StartPlace DEF AreItems, PhaseInv, Basic
<1>9. AreaOf(new.name) = phase /\ Owner(new) = fr
  BY <1>7 DEF IsItem, Owner
<1>10. /\ todo + 1 \in 1 .. Len(ItemsOf(phase, fr)) /\ new.name = NameOf(phase, fr, todo + 1)
       /\ new.size = ItemsOf(phase, fr)[todo + 1].size
  BY <1>1, <1>2, <1>7, <1>8 DEF NameOf, Items
<1>11. Known(new)
  BY <1>8, <1>10 DEF Known
<1>12. phase = "direct" => Tabled
  BY <1>6 DEF PhaseInv, TableInv
<1>13. /\ \A o : Known(o)' = Known(o)
       /\ \A a, f, k : NameOf(a, f, k)' = NameOf(a, f, k)
       /\ \A a, o, w : Lies(a, o, w)' = Lies(a, o, w)
       /\ \A a, o, h : Below(a, o, h)' = Below(a, o, h)
       /\ \A name : AreaOf(name)' = AreaOf(name)
       /\ \A f, g : LiveTogether(f, g)' = LiveTogether(f, g)
       /\ Tabled' = Tabled /\ Frame' = Frame
       /\ \A a, f : ItemsOf(a, f)' = ItemsOf(a, f)
  BY <1>1, SameNames, SameTable, SameProgram, SameTabled
<1>14. \A f : Finished(f)' = Finished(f) /\ Bound(f)' = Bound(f)
  BY <1>1, SameProgram DEF Finished, Done, Bound
<1>15. \A o \in placed : o.name # new.name
  <2>1. ~(Turn(phase) < Turn(phase))
    BY <1>8, TurnOrder
  <2>2. ~Finished(fr)
    BY <1>1, <1>6, NotFinished
  <2>3. ~WasPlaced(phase, fr, todo + 1)
    BY <1>8, <2>1, <2>2 DEF WasPlaced
  <2> QED BY <1>6, <1>8, <1>10, <2>3 DEF NamesInv
<1>16. KnownInv'
  <2>1. phase # "bits" => Tabled
    BY <1>6, <1>8 DEF PhaseInv, TableInv, Area
  <2>2. Known(new) /\ (AreaOf(new.name) # "bits" => Tabled) /\ \E w : Lies(AreaOf(new.name), new, w)
    BY <1>7, <1>9, <1>11, <2>1
  <2>3. \A o \in placed : Known(o) /\ (AreaOf(o.name) # "bits" => Tabled)
                          /\ \E w : Lies(AreaOf(o.name), o, w)
    BY <1>6 DEF KnownInv
  <2>4. \A o \in placed', q \in placed' : o.name = q.name => o = q
    BY <1>5, <1>6, <1>15 DEF KnownInv
  <2> QED BY <1>5, <1>13, <2>2, <2>3, <2>4 DEF KnownInv
<1>17. PlacedInv'
  <2>1. Below(phase, new, v + item.size)
    BY <1>7 DEF Below
  <2>2. todo + 1 > 0
    BY <1>8
  <2>3. HereBelow(new)'
    BY <1>1, <1>5, <1>9, <1>13, <2>1, <2>2 DEF HereBelow, Owner
  <2>4. ASSUME NEW o \in placed, HereBelow(o) PROVE HereBelow(o)'
    <3>1. CASE Finished(Owner(o)) /\ Below(phase, o, Bound(Owner(o)))
      BY <1>1, <1>13, <1>14, <3>1 DEF HereBelow, Owner
    <3>2. CASE Owner(o) = fr /\ todo > 0 /\ Below(phase, o, cursor)
      <4>1. Cursor = cursor
        BY <3>2, <1>8 DEF Cursor
      <4>2. cursor <= v + item.size /\ v + item.size \in Nat /\ cursor \in Nat
        BY <1>7, <1>8, <4>1
      <4>3. o.size \in Nat
        BY <1>6, KnownFacts DEF KnownInv
      <4>4. Below(phase, o, v + item.size)
        BY <3>2, <4>2, <4>3, BelowMore
      <4> QED BY <1>1, <1>5, <1>13, <2>2, <3>2, <4>4 DEF HereBelow, Owner
    <3> QED BY <2>4, <3>1, <3>2 DEF HereBelow
  <2>5. \A o \in placed : Turn(AreaOf(o.name)) < Turn(phase) \/ (AreaOf(o.name) = phase /\ HereBelow(o))
    BY <1>6, <1>8 DEF PlacedInv
  <2>6. \A o \in placed' : Turn(AreaOf(o.name)) < Turn(phase) \/ (AreaOf(o.name) = phase /\ HereBelow(o)')
    BY <1>5, <1>9, <2>3, <2>4, <2>5
  <2>7. \A p : Turn(p)' = Turn(p)
    BY DEF Turn
  <2> QED BY <1>1, <1>13, <2>6, <2>7 DEF PlacedInv
<1>18. PairsInv'
  <2>1. ASSUME NEW o \in placed, AreaOf(o.name) = phase, LiveTogether(fr, Owner(o))
        PROVE  BytesOf(o) \cap BytesOf(new) = {}
    <3>1. Known(o)
      BY <1>6 DEF KnownInv
    <3>2. Below(phase, o, Cursor)
      BY <1>1, <1>6, <2>1, <3>1, LiveBelow
    <3>3. PICK w \in Nat : w + o.size <= Cursor /\ Lies(phase, o, w)
      BY <3>2 DEF Below
    <3>4. Sized(phase, o) /\ o.size \in Nat
      BY <1>6, <2>1, <3>1, KnownFacts
    <3>5. w + o.size <= v
      BY <1>7, <1>8, <3>3, <3>4
    <3> QED BY <1>7, <1>8, <1>12, <3>3, <3>4, <3>5, LiesApart
  <2>2. \A o \in placed' : BytesOf(o)' = BytesOf(o) /\ Owner(o)' = Owner(o)
    BY DEF BytesOf, BytesFrom, Owner
  <2>3. \A o \in placed', q \in placed' :
          AreaOf(o.name) = AreaOf(q.name) /\ o.name # q.name /\ LiveTogether(Owner(o), Owner(q)) =>
            BytesOf(o) \cap BytesOf(q) = {}
    <3> SUFFICES ASSUME NEW o \in placed', NEW q \in placed', AreaOf(o.name) = AreaOf(q.name),
                        o.name # q.name, LiveTogether(Owner(o), Owner(q))
                 PROVE  BytesOf(o) \cap BytesOf(q) = {}
      OBVIOUS
    <3>1. CASE o \in placed /\ q \in placed
      BY <1>6, <3>1 DEF PairsInv
    <3>2. CASE o \in placed /\ q = new
      BY <1>9, <2>1, <3>2, LiveSymmetric
    <3>3. CASE o = new /\ q \in placed
      <4>1. BytesOf(q) \cap BytesOf(new) = {}
        BY <1>9, <2>1, <3>3
      <4> QED BY <3>3, <4>1
    <3> QED BY <1>5, <3>1, <3>2, <3>3
  <2> QED BY <1>13, <2>2, <2>3 DEF PairsInv
<1>19. NamesInv'
  <2> SUFFICES ASSUME NEW a \in Area, NEW f \in Frame \cup {0}, NEW k \in 1 .. Len(ItemsOf(a, f))
               PROVE  (\E o \in placed' : o.name = NameOf(a, f, k)) <=> WasPlaced(a, f, k)'
    BY <1>13 DEF NamesInv
  <2>1. (\E o \in placed : o.name = NameOf(a, f, k)) <=> WasPlaced(a, f, k)
    BY <1>6, <1>8 DEF NamesInv
  <2>2. new.name = NameOf(a, f, k) <=> a = phase /\ f = fr /\ k = todo + 1
    BY <1>6, <1>8, <1>10, NameOnce
  <2>3. (\E o \in placed' : o.name = NameOf(a, f, k)) <=>
          WasPlaced(a, f, k) \/ (a = phase /\ f = fr /\ k = todo + 1)
    BY <1>5, <2>1, <2>2
  <2>4. k \in Nat
    BY <1>6, ItemFacts
  <2>5. k <= todo' <=> k <= todo \/ k = todo + 1
    BY <1>1, <1>8, <2>4
  <2>6. WasPlaced(a, f, k)' <=> WasPlaced(a, f, k) \/ (a = phase /\ f = fr /\ k = todo + 1)
    BY <1>1, <1>14, <2>5 DEF WasPlaced, Turn
  <2> QED BY <2>3, <2>6
<1>20. PastInv'
  <2>1. phase \notin Complete /\ globalsEnd' = globalsEnd
    BY <1>1, <1>8 DEF Area, Complete
  <2>2. ASSUME NEW o \in placed PROVE PastOf(o)'
    <3>1. PastOf(o)
      BY <1>6 DEF PastInv
    <3> QED BY <1>1, <1>13, <3>1 DEF PastOf, Owner
  <2>3. PastOf(new)'
    <3>1. CASE phase = "bits"
      <4>1. ASSUME fr = 0 PROVE Below("bits", new, prog.bits)
        <5>1. ctx = "globals"
          BY <1>1, <1>6, <4>1, FrameNumbers, StartPlace
        <5>2. Len(Items) = prog.bits
          BY <1>6, <1>8, <3>1, <4>1, ItemsShape DEF Items, PhaseInv, Basic, Area
        <5>3. Cursor = todo
          BY <1>6, <1>8, <3>1, <5>1 DEF Cursor, Start, PhaseInv, CursorInv
        <5>4. item.size = 1 /\ v = todo
          BY <1>7, <3>1, <5>3 DEF IsItem
        <5>5. v + item.size <= prog.bits
          BY <1>1, <1>8, <5>2, <5>4
        <5> QED BY <1>7, <3>1, <5>5 DEF Below
      <4> QED BY <1>1, <1>9, <1>13, <2>1, <3>1, <4>1 DEF PastOf, Owner
    <3>2. CASE phase = "upper"
      BY <1>1, <1>9, <1>13, <2>1, <3>2 DEF PastOf, Owner
    <3>3. CASE phase = "direct"
      <4>1. fr = 0 => ctx = "globals"
        BY <1>1, <1>6, FrameNumbers, StartPlace
      <4> QED BY <1>1, <1>9, <1>13, <2>1, <3>3, <4>1 DEF PastOf, Owner
    <3> QED BY <1>8, <3>1, <3>2, <3>3, AreaNames
  <2> QED BY <1>5, <2>2, <2>3 DEF PastInv
<1> QED BY <1>16, <1>17, <1>18, <1>19, <1>20

\* A step that places nothing keeps what is said of the items alone.
LEMMA SamePlaced ==
  ASSUME KnownInv, PairsInv, UNCHANGED <<prog, moved, phys, bitTotal, placed>>
  PROVE  KnownInv' /\ PairsInv'
<1>1. /\ \A o : Known(o)' = Known(o)
      /\ \A a, o, w : Lies(a, o, w)' = Lies(a, o, w)
      /\ \A name : AreaOf(name)' = AreaOf(name)
      /\ \A f, g : LiveTogether(f, g)' = LiveTogether(f, g)
      /\ Tabled' = Tabled
  BY SameNames, SameTable, SameProgram, SameTabled
<1>2. KnownInv'
  BY <1>1 DEF KnownInv
<1>3. PairsInv'
  BY <1>1 DEF PairsInv, BytesOf, BytesFrom, Owner
<1> QED BY <1>2, <1>3

\* A step within an area that places nothing moves the ends of its frames.
LEMMA WithinArea ==
  ASSUME PlaceInv, phase \in Area,
         UNCHANGED <<prog, moved, phase, phys, placed, bitTotal, upperTop>>,
         \A o \in placed : AreaOf(o.name) = phase /\ HereBelow(o) => HereBelow(o)',
         \A f \in Frame \cup {0} : \A k \in 1 .. Len(ItemsOf(phase, f)) :
           (Finished(f) \/ (f = fr /\ k <= todo)) <=> (Finished(f)' \/ (f = fr' /\ k <= todo')),
         \A o \in placed : AreaOf(o.name) = "direct" /\ Owner(o) = 0 /\ phase = "direct" /\ ctx' # "globals" =>
           o.at + o.size <= globalsEnd'
  PROVE  KnownInv' /\ PlacedInv' /\ PairsInv' /\ NamesInv' /\ PastInv'
<1>1. PhaseInv /\ KnownInv /\ PlacedInv /\ PairsInv /\ NamesInv /\ PastInv
  BY DEF PlaceInv
<1>2. /\ \A a, f, k : NameOf(a, f, k)' = NameOf(a, f, k)
      /\ \A a, o, h : Below(a, o, h)' = Below(a, o, h)
      /\ \A name : AreaOf(name)' = AreaOf(name)
      /\ Frame' = Frame
      /\ \A a, f : ItemsOf(a, f)' = ItemsOf(a, f)
      /\ \A p : Turn(p)' = Turn(p)
  BY SameNames, SameTable, SameProgram DEF Turn
<1>3. KnownInv' /\ PairsInv'
  BY <1>1, SamePlaced
<1>4. PlacedInv'
  BY <1>1, <1>2 DEF PlacedInv
<1>5. phase \notin Complete
  BY DEF Area, Complete
<1>6. NamesInv'
  <2> SUFFICES ASSUME NEW a \in Area, NEW f \in Frame \cup {0}, NEW k \in 1 .. Len(ItemsOf(a, f))
               PROVE  (\E o \in placed : o.name = NameOf(a, f, k)) <=> WasPlaced(a, f, k)'
    BY <1>2 DEF NamesInv
  <2>1. (\E o \in placed : o.name = NameOf(a, f, k)) <=> WasPlaced(a, f, k)
    BY <1>1 DEF NamesInv
  <2>2. WasPlaced(a, f, k)' <=> WasPlaced(a, f, k)
    BY <1>2 DEF WasPlaced
  <2> QED BY <2>1, <2>2
<1>7. PastInv'
  <2> SUFFICES ASSUME NEW o \in placed PROVE PastOf(o)'
    BY DEF PastInv
  <2>1. PastOf(o)
    BY <1>1 DEF PastInv
  <2> QED BY <1>2, <1>5, <2>1 DEF PastOf, Owner
<1> QED BY <1>3, <1>4, <1>6, <1>7

LEMMA EndGlobalsPlaced ==
  ASSUME PlaceInv, EndGlobals
  PROVE  KnownInv' /\ PlacedInv' /\ PairsInv' /\ NamesInv' /\ PastInv'
<1>1. /\ phase \in Area /\ ctx = "globals" /\ todo = Len(Items)
      /\ top' = Cursor /\ ctxEnd' = Cursor /\ ctx' = "main" /\ fr' = 1 /\ todo' = 0
      /\ UNCHANGED <<prog, moved, phase, cursor, endOf, placed, bitTotal, upperTop, phys>>
  BY DEF EndGlobals
<1>2. PhaseInv /\ KnownInv /\ PlacedInv
  BY DEF PlaceInv
<1>3. /\ Placing /\ fr = 0 /\ Cursor \in Nat /\ Cursor <= Cap(phase)
      /\ (todo > 0 => Cursor = cursor) /\ todo \in Nat
  BY <1>1, <1>2, StartPlace DEF Placing, Cursor, PhaseInv, Basic
<1>4. \A f : ~Finished(f) /\ (f = 0 => Finished(f)')
  BY <1>1 DEF Finished, Done
<1>5. \A a, o, h : Below(a, o, h)' = Below(a, o, h)
  BY <1>1, SameTable
<1>6. \A o \in placed : AreaOf(o.name) = phase /\ HereBelow(o) =>
        Owner(o) = 0 /\ todo > 0 /\ Below(phase, o, Cursor)
  BY <1>3, <1>4 DEF HereBelow
<1>7. \A o \in placed : AreaOf(o.name) = phase /\ HereBelow(o) => HereBelow(o)'
  BY <1>1, <1>4, <1>5, <1>6 DEF HereBelow, Owner, Bound
<1>8. ASSUME NEW f \in Frame \cup {0}, NEW k \in 1 .. Len(ItemsOf(phase, f))
      PROVE  (Finished(f) \/ (f = fr /\ k <= todo)) <=> (Finished(f)' \/ (f = fr' /\ k <= todo'))
  <2>1. k \in Nat /\ k >= 1 /\ ~(k <= 0) /\ k <= Len(ItemsOf(phase, f))
    BY <1>1, <1>2, ItemFacts
  <2>2. CASE f = 0
    BY <1>1, <1>3, <1>4, <2>1, <2>2 DEF Items
  <2>3. CASE f # 0
    <3>1. ~(f < 1)
      BY <2>3 DEF Frame
    <3>2. ~Finished(f)'
      BY <1>1, <2>3, <3>1 DEF Finished, Done
    <3> QED BY <1>1, <1>3, <1>4, <2>1, <2>3, <3>2
  <2> QED BY <2>2, <2>3
<1>9. ASSUME NEW o \in placed, AreaOf(o.name) = "direct", Owner(o) = 0, phase = "direct"
      PROVE  o.at + o.size <= globalsEnd'
  <2>1. ~(Turn(phase) < Turn(phase))
    BY <1>1, TurnOrder
  <2>2. HereBelow(o)
    BY <1>1, <1>2, <1>9, <2>1 DEF PlacedInv
  <2>3. PICK w \in Nat : w + o.size <= Cursor /\ Lies("direct", o, w)
    BY <1>6, <1>9, <2>2 DEF Below
  <2>4. IsProgram(prog) /\ Tabled /\ Sized("direct", o)
    BY <1>2, <1>9, KnownFacts DEF KnownInv, PhaseInv, Basic
  <2>5. PICK n \in Nat \ {0} : n = o.size
    BY <2>4 DEF Sized
  <2>6. o.at \in Nat /\ o.at + n - 1 = Addr(w + n - 1)
    BY <2>3, <2>4, <2>5, LiesDirect
  <2>7. Cursor <= Capacity /\ Capacity \in Nat
    BY <1>3, <1>9, <2>4, Table DEF Cap
  <2>8. /\ w + n - 1 \in 0 .. Capacity - 1 /\ Cursor - 1 \in 0 .. Capacity - 1
        /\ (w + n - 1 = Cursor - 1 \/ w + n - 1 < Cursor - 1) /\ Cursor # 0
    BY <1>3, <2>3, <2>5, <2>7
  <2>9. Addr(w + n - 1) <= Addr(Cursor - 1) /\ Addr(Cursor - 1) \in Nat
    <3>1. Addr(w + n - 1) \in Nat /\ Addr(Cursor - 1) \in Nat
      BY <2>4, <2>8, Table
    <3>2. w + n - 1 < Cursor - 1 => Addr(w + n - 1) < Addr(Cursor - 1)
      BY <2>4, <2>8, Table
    <3> QED BY <2>8, <3>1, <3>2
  <2>10. globalsEnd' = Addr(Cursor - 1) + 1
    <3>1. HasAddr(Cursor - 1)
      BY <2>7, <2>8 DEF HasAddr
    <3> QED BY <1>9, <2>8, <3>1 DEF EndGlobals
  <2> QED BY <2>5, <2>6, <2>9, <2>10
<1> QED BY <1>1, <1>7, <1>8, <1>9, WithinArea

LEMMA EndFramePlaced ==
  ASSUME PlaceInv, EndFrame
  PROVE  KnownInv' /\ PlacedInv' /\ PairsInv' /\ NamesInv' /\ PastInv'
<1>1. /\ Placing /\ ctx # "globals" /\ todo = Len(Items)
      /\ endOf' = [endOf EXCEPT ![fr] = Cursor] /\ fr' = fr + 1 /\ todo' = 0
      /\ UNCHANGED <<prog, moved, phase, ctx, cursor, top, placed, bitTotal, upperTop, phys, globalsEnd>>
  BY DEF EndFrame, results
<1>2. PhaseInv /\ KnownInv /\ PlacedInv /\ PastInv
  BY DEF PlaceInv
<1>3. /\ phase \in Area /\ fr \in Frame /\ fr # 0 /\ fr \in Nat /\ Cursor \in Nat
      /\ (todo > 0 => Cursor = cursor) /\ todo \in Nat /\ endOf \in [Frame -> Nat]
  BY <1>1, <1>2, FrameNumbers, StartPlace DEF Cursor, PhaseInv, Basic
<1>4. ASSUME NEW f \in Frame \cup {0} PROVE Finished(f)' <=> Finished(f) \/ f = fr
  BY <1>1, <1>2, <1>3, DoneNext DEF Finished
<1>5. \A a, o, h : Below(a, o, h)' = Below(a, o, h)
  BY <1>1, SameTable
<1>6. ~Finished(fr)
  BY <1>1, <1>2, NotFinished
<1>7. /\ endOf'[fr] = Cursor /\ \A f \in Frame : f # fr => endOf'[f] = endOf[f]
  BY <1>1, <1>3
<1>8. ASSUME NEW o \in placed, AreaOf(o.name) = phase, HereBelow(o) PROVE HereBelow(o)'
  <2>1. Owner(o) \in Frame \cup {0}
    BY <1>2, KnownFacts DEF KnownInv
  <2>2. CASE Owner(o) = fr
    <3>1. Below(phase, o, Cursor)
      BY <1>3, <1>6, <1>8, <2>2 DEF HereBelow
    <3>2. Finished(Owner(o))' /\ Bound(Owner(o))' = Cursor
      BY <1>3, <1>4, <1>7, <2>2 DEF Owner, Bound
    <3> QED BY <1>1, <1>5, <3>1, <3>2 DEF HereBelow
  <2>3. CASE Owner(o) # fr
    <3>1. Finished(Owner(o)) /\ Below(phase, o, Bound(Owner(o)))
      BY <1>8, <2>3 DEF HereBelow
    <3>2. Finished(Owner(o))' /\ Bound(Owner(o))' = Bound(Owner(o))
      <4>1. PICK f \in Frame \cup {0} : f = Owner(o)
        BY <2>1
      <4>2. Finished(f)' /\ Bound(f)' = Bound(f) /\ Owner(o)' = f
        BY <1>1, <1>4, <1>7, <2>3, <3>1, <4>1 DEF Bound, Owner
      <4> QED BY <4>1, <4>2 DEF Owner
    <3> QED BY <1>1, <1>5, <3>1, <3>2 DEF HereBelow
  <2> QED BY <2>2, <2>3
<1>9. ASSUME NEW f \in Frame \cup {0}, NEW k \in 1 .. Len(ItemsOf(phase, f))
      PROVE  (Finished(f) \/ (f = fr /\ k <= todo)) <=> (Finished(f)' \/ (f = fr' /\ k <= todo'))
  <2>1. k \in Nat /\ k >= 1 /\ ~(k <= 0) /\ k <= Len(ItemsOf(phase, f))
    BY <1>3, <1>2, ItemFacts
  <2> QED BY <1>1, <1>4, <2>1 DEF Items
<1>10. \A o \in placed : AreaOf(o.name) = "direct" /\ Owner(o) = 0 /\ phase = "direct" =>
         o.at + o.size <= globalsEnd'
  BY <1>1, <1>2 DEF PastInv, PastOf
<1> QED BY <1>1, <1>3, <1>8, <1>9, <1>10, WithinArea

LEMMA SkipFramePlaced ==
  ASSUME PlaceInv, SkipFrame
  PROVE  KnownInv' /\ PlacedInv' /\ PairsInv' /\ NamesInv' /\ PastInv'
<1>1. /\ phase \in Area /\ fr \in Frame /\ ~Placing /\ fr' = fr + 1
      /\ UNCHANGED <<prog, moved, phase, ctx, todo, cursor, endOf, top, ctxEnd, placed, bitTotal,
                     upperTop, phys, globalsEnd>>
  BY DEF SkipFrame, results
<1>2. PhaseInv /\ KnownInv /\ PlacedInv /\ PastInv
  BY DEF PlaceInv
<1>3. todo = 0 /\ ctx # "globals"
  BY <1>1, <1>2, FrameNumbers DEF PhaseInv, CursorInv, Placing
<1>4. ASSUME NEW f \in Frame \cup {0} PROVE Finished(f)' <=> Finished(f)
  BY <1>1, <1>2, DoneNext DEF Finished
<1>5. \A a, o, h : Below(a, o, h)' = Below(a, o, h)
  BY <1>1, SameTable
<1>6. ASSUME NEW o \in placed, AreaOf(o.name) = phase, HereBelow(o) PROVE HereBelow(o)'
  <2>1. PICK f \in Frame \cup {0} : f = Owner(o)
    BY <1>2, KnownFacts DEF KnownInv
  <2>2. Finished(f) /\ Below(phase, o, Bound(f))
    BY <1>3, <1>6, <2>1 DEF HereBelow
  <2>3. Finished(f)' /\ Bound(f)' = Bound(f) /\ Owner(o)' = f
    BY <1>1, <1>4, <2>1, <2>2 DEF Bound, Owner
  <2> QED BY <1>1, <1>5, <2>2, <2>3 DEF HereBelow
<1>7. ASSUME NEW f \in Frame \cup {0}, NEW k \in 1 .. Len(ItemsOf(phase, f))
      PROVE  (Finished(f) \/ (f = fr /\ k <= todo)) <=> (Finished(f)' \/ (f = fr' /\ k <= todo'))
  <2>1. ~(k <= 0)
    BY <1>1, <1>2, ItemFacts
  <2> QED BY <1>1, <1>3, <1>4, <2>1
<1>8. \A o \in placed : AreaOf(o.name) = "direct" /\ Owner(o) = 0 /\ phase = "direct" =>
         o.at + o.size <= globalsEnd'
  BY <1>1, <1>2, <1>3 DEF PastInv, PastOf
<1> QED BY <1>1, <1>6, <1>7, <1>8, WithinArea

LEMMA EndMainPlaced ==
  ASSUME PlaceInv, EndMain
  PROVE  KnownInv' /\ PlacedInv' /\ PairsInv' /\ NamesInv' /\ PastInv'
<1>1. /\ phase \in Area /\ ctx = "main" /\ fr = Len(Frames) + 1
      /\ ctx' = "isr" /\ top' = ctxEnd /\ fr' = 1
      /\ UNCHANGED <<prog, moved, phase, todo, cursor, endOf, ctxEnd, placed, bitTotal, upperTop,
                     phys, globalsEnd>>
  BY DEF EndMain, results
<1>2. PhaseInv /\ KnownInv /\ PlacedInv /\ PastInv
  BY DEF PlaceInv
<1>3. IsProgram(prog) /\ Len(Frames) \in Nat /\ ctxEnd \in Nat /\ top \in Nat
  BY <1>2, ProgramShape DEF PhaseInv, Basic
<1>4. todo = 0 /\ top <= ctxEnd
  <2>1. fr \notin Frame
    BY <1>1, <1>3 DEF Frame
  <2>2. ~Placing
    BY <1>1, <2>1 DEF Placing
  <2> QED BY <1>1, <1>2, <2>2 DEF PhaseInv, CursorInv
<1>5. ASSUME NEW f \in Frame \cup {0} PROVE Finished(f)' <=> Finished(f)
  <2>1. CASE f = 0
    BY <1>1, <2>1 DEF Finished
  <2>2. CASE f # 0
    <3>1. f < Len(Frames) + 1 /\ ~(f < 1)
      BY <1>3, <2>2 DEF Frame
    <3> QED BY <1>1, <2>2, <3>1, SameProgram DEF Finished, Done
  <2> QED BY <2>1, <2>2
<1>6. \A a, o, h : Below(a, o, h)' = Below(a, o, h)
  BY <1>1, SameTable
<1>7. ASSUME NEW o \in placed, AreaOf(o.name) = phase, HereBelow(o) PROVE HereBelow(o)'
  <2>1. PICK f \in Frame \cup {0} : f = Owner(o)
    BY <1>2, KnownFacts DEF KnownInv
  <2>2. Finished(f) /\ Below(phase, o, Bound(f))
    BY <1>4, <1>7, <2>1 DEF HereBelow
  <2>3. Finished(f)' /\ Owner(o)' = f
    BY <1>1, <1>5, <2>1, <2>2 DEF Owner
  <2>4. Below(phase, o, Bound(f)')
    <3>1. CASE f = 0
      <4>1. o.size \in Nat
        BY <1>2, KnownFacts DEF KnownInv
      <4>2. Below(phase, o, ctxEnd)
        BY <1>3, <1>4, <2>2, <3>1, <4>1, BelowMore DEF Bound
      <4> QED BY <1>1, <3>1, <4>2 DEF Bound
    <3>2. CASE f # 0
      BY <1>1, <2>2, <3>2 DEF Bound
    <3> QED BY <3>1, <3>2
  <2> QED BY <1>1, <1>6, <2>3, <2>4 DEF HereBelow
<1>8. ASSUME NEW f \in Frame \cup {0}, NEW k \in 1 .. Len(ItemsOf(phase, f))
      PROVE  (Finished(f) \/ (f = fr /\ k <= todo)) <=> (Finished(f)' \/ (f = fr' /\ k <= todo'))
  <2>1. ~(k <= 0)
    BY <1>1, <1>2, ItemFacts
  <2> QED BY <1>1, <1>4, <1>5, <2>1
<1>9. \A o \in placed : AreaOf(o.name) = "direct" /\ Owner(o) = 0 /\ phase = "direct" =>
         o.at + o.size <= globalsEnd'
  BY <1>1, <1>2 DEF PastInv, PastOf
<1> QED BY <1>1, <1>7, <1>8, <1>9, WithinArea

\* Bits and upper objects do not depend on the table of direct addresses.
LEMMA SameBelow ==
  ASSUME prog' = prog, moved' = moved
  PROVE  /\ \A o, v : Lies("bits", o, v)' = Lies("bits", o, v)
         /\ \A o, h : Below("bits", o, h)' = Below("bits", o, h)
<1>1. \A o, v : Lies("bits", o, v)' = Lies("bits", o, v)
  BY SameProgram DEF Lies, Cap, AddressIn, Nth
<1> QED BY <1>1 DEF Below

LEMMA EndAreaPlaced ==
  ASSUME PlaceInv, EndArea
  PROVE  KnownInv' /\ PlacedInv' /\ PairsInv' /\ NamesInv' /\ PastInv'
<1>1. /\ phase \in Area /\ ctx = "isr" /\ fr = Len(Frames) + 1
      /\ ctx' = "globals" /\ fr' = 0 /\ top' = ctxEnd
      /\ bitTotal' = (IF phase = "bits" THEN ctxEnd ELSE bitTotal)
      /\ upperTop' = (IF phase = "upper" THEN ctxEnd ELSE upperTop)
      /\ (phase # "bits" => phys' = phys)
      /\ UNCHANGED <<prog, moved, todo, cursor, endOf, ctxEnd, placed, globalsEnd>>
  BY DEF EndArea
<1>2. /\ phase = "bits" => phase' = "upper"
      /\ phase = "upper" => phase' = "direct"
      /\ phase = "direct" => phase' \in {"exhausted", "boot"}
  BY DEF EndArea
<1>3. PhaseInv /\ KnownInv /\ PlacedInv /\ PairsInv /\ NamesInv /\ PastInv
  BY DEF PlaceInv
<1>4. IsProgram(prog) /\ Len(Frames) \in Nat /\ ctxEnd \in Nat /\ top \in Nat /\ endOf \in [Frame -> Nat]
  BY <1>3, ProgramShape DEF PhaseInv, Basic
<1>5. todo = 0 /\ top <= ctxEnd /\ EndsInv
  <2>1. fr \notin Frame
    BY <1>1, <1>4 DEF Frame
  <2>2. ~Placing
    BY <1>1, <2>1 DEF Placing
  <2> QED BY <1>1, <1>3, <2>2 DEF PhaseInv, CursorInv
<1>6. ASSUME NEW f \in Frame \cup {0} PROVE Finished(f) /\ Bound(f) <= ctxEnd /\ Bound(f) \in Nat
  <2>1. CASE f = 0
    BY <1>1, <1>4, <1>5, <2>1 DEF Finished, Bound
  <2>2. CASE f # 0
    <3>1. f < Len(Frames) + 1 /\ f \in Frame
      BY <1>4, <2>2 DEF Frame
    <3>2. Done(f)
      BY <1>1, <3>1 DEF Done
    <3> QED BY <1>4, <1>5, <2>2, <3>1, <3>2 DEF Finished, Bound, EndsInv
  <2> QED BY <2>1, <2>2
<1>7. /\ \A o : Known(o)' = Known(o)
      /\ \A a, f, k : NameOf(a, f, k)' = NameOf(a, f, k)
      /\ \A o, w : Lies("bits", o, w)' = Lies("bits", o, w)
      /\ \A o, h : Below("bits", o, h)' = Below("bits", o, h)
      /\ phase # "bits" => /\ \A a, o, w : Lies(a, o, w)' = Lies(a, o, w)
                           /\ \A a, o, h : Below(a, o, h)' = Below(a, o, h)
      /\ \A name : AreaOf(name)' = AreaOf(name)
      /\ \A f, g : LiveTogether(f, g)' = LiveTogether(f, g)
      /\ Frame' = Frame
      /\ \A a, f : ItemsOf(a, f)' = ItemsOf(a, f)
      /\ \A p : Turn(p)' = Turn(p)
  BY <1>1, SameNames, SameTable, SameBelow, SameProgram DEF Turn
<1>8. \A o \in placed : /\ Known(o) /\ o.size \in Nat /\ AreaOf(o.name) \in Area
                        /\ Owner(o) \in Frame \cup {0}
                        /\ Turn(AreaOf(o.name)) < Turn(phase) \/ (AreaOf(o.name) = phase /\ HereBelow(o))
  BY <1>1, <1>3, KnownFacts DEF KnownInv, PlacedInv
<1>9. ASSUME NEW o \in placed, AreaOf(o.name) = phase PROVE Below(phase, o, ctxEnd)
  <2>1. ~(Turn(phase) < Turn(phase))
    BY <1>1, TurnOrder
  <2>2. PICK f \in Frame \cup {0} : f = Owner(o)
    BY <1>8
  <2>3. Below(phase, o, Bound(f))
    BY <1>5, <1>8, <1>9, <2>1, <2>2 DEF HereBelow
  <2> QED BY <1>4, <1>6, <1>8, <2>3, BelowMore
<1>10. phase = "bits" => \A o \in placed : AreaOf(o.name) = "bits"
  <2>1. \A a \in Area : ~(Turn(a) < 1)
    BY TurnOrder
  <2> QED BY <1>8, <2>1, TurnOrder
<1>11. KnownInv'
  <2>1. \A o \in placed : AreaOf(o.name) # "bits" => Tabled'
    <3>1. CASE phase = "bits"
      BY <1>10, <3>1
    <3>2. CASE phase # "bits"
      BY <1>1, <1>3, <3>2, SameTabled DEF KnownInv
    <3> QED BY <3>1, <3>2
  <2>2. \A o \in placed : (\E w : Lies(AreaOf(o.name), o, w))' = (\E w : Lies(AreaOf(o.name), o, w))
    BY <1>7, <1>10
  <2> QED BY <1>1, <1>3, <1>7, <2>1, <2>2 DEF KnownInv
<1>12. PairsInv'
  BY <1>1, <1>3, <1>7 DEF PairsInv, BytesOf, BytesFrom, Owner
<1>13. PlacedInv'
  <2> SUFFICES ASSUME phase' \in Area, NEW o \in placed PROVE Turn(AreaOf(o.name)) < Turn(phase')
    BY <1>1, <1>7 DEF PlacedInv
  <2>1. Turn(phase) < Turn(phase') /\ Turn(phase) \in Nat /\ Turn(phase') \in Nat
    BY <1>1, <1>2, TurnOrder DEF Area
  <2>2. Turn(AreaOf(o.name)) \in Nat
    BY <1>8, TurnOrder
  <2>3. Turn(AreaOf(o.name)) < Turn(phase) \/ Turn(AreaOf(o.name)) = Turn(phase)
    BY <1>8
  <2> QED BY <2>1, <2>2, <2>3
<1>14. NamesInv'
  <2> SUFFICES ASSUME phase' \in Area \cup Complete,
                      NEW a \in Area, NEW f \in Frame \cup {0}, NEW k \in 1 .. Len(ItemsOf(a, f))
               PROVE  (\E o \in placed : o.name = NameOf(a, f, k)) <=> WasPlaced(a, f, k)'
    BY <1>1, <1>7 DEF NamesInv
  <2>1. (\E o \in placed : o.name = NameOf(a, f, k)) <=> WasPlaced(a, f, k)
    BY <1>1, <1>3 DEF NamesInv
  <2>2. WasPlaced(a, f, k) <=> Turn(a) < Turn(phase) \/ a = phase
    BY <1>6 DEF WasPlaced
  <2>3. ~(k <= 0)
    BY <1>3, ItemFacts
  <2>4. WasPlaced(a, f, k)' <=> Turn(a) < Turn(phase')
    <3>1. ~Finished(f)'
      BY <1>1 DEF Finished, Done
    <3> QED BY <1>1, <1>5, <1>7, <2>3, <3>1 DEF WasPlaced
  <2>5. Turn(a) < Turn(phase') <=> Turn(a) < Turn(phase) \/ a = phase
    <3>1. "boot" \in Complete /\ "exhausted" \notin Area \cup Complete
      BY DEF Complete, Area
    <3>2. \/ phase = "bits" /\ phase' = "upper"
          \/ phase = "upper" /\ phase' = "direct"
          \/ phase = "direct" /\ phase' = "boot"
      BY <1>1, <1>2, <3>1, AreaNames
    <3>3. Turn("boot") = 4
      BY DEF Turn
    <3>4. a = "bits" \/ a = "upper" \/ a = "direct"
      BY AreaNames
    <3> QED BY <3>2, <3>3, <3>4, TurnOrder
  <2> QED BY <2>1, <2>2, <2>4, <2>5
<1>15. PastInv'
  <2> SUFFICES ASSUME NEW o \in placed PROVE PastOf(o)'
    BY <1>1 DEF PastInv
  <2>1. PastOf(o)
    BY <1>3 DEF PastInv
  <2>2. CASE phase = "bits"
    <3>1. AreaOf(o.name) = "bits" /\ Below("bits", o, ctxEnd) /\ bitTotal' = ctxEnd
      BY <1>1, <1>9, <1>10, <2>2
    <3> QED BY <1>1, <1>7, <2>1, <3>1 DEF PastOf, Owner
  <2>3. CASE phase = "upper"
    <3>1. phase' = "direct" /\ "direct" \notin Complete /\ upperTop' = ctxEnd /\ bitTotal' = bitTotal
      BY <1>1, <1>2, <2>3 DEF Complete
    <3>2. AreaOf(o.name) = "upper" => Below("upper", o, ctxEnd)
      BY <1>9, <2>3
    <3> QED BY <1>1, <1>7, <2>1, <2>3, <3>1, <3>2 DEF PastOf, Owner
  <2>4. CASE phase = "direct"
    <3>1. bitTotal' = bitTotal /\ upperTop' = upperTop /\ phase' \notin {"upper", "direct"}
      BY <1>1, <1>2, <2>4
    <3>2. AreaOf(o.name) = "direct" => Below("direct", o, ctxEnd)
      BY <1>9, <2>4
    <3> QED BY <1>1, <1>7, <2>1, <2>4, <3>1, <3>2 DEF PastOf, Owner
  <2> QED BY <1>1, <2>2, <2>3, <2>4, AreaNames
<1> QED BY <1>11, <1>12, <1>13, <1>14, <1>15

\* Both attempts begin with nothing placed.
LEMMA BeginPlaced == Begun /\ placed = {} => PlaceInv
<1> SUFFICES ASSUME Begun, placed = {} PROVE PlaceInv
  OBVIOUS
<1>1. PhaseInv
  BY BeginPhase
<1>2. NamesInv
  <2> SUFFICES ASSUME NEW a \in Area, NEW f \in Frame \cup {0}, NEW k \in 1 .. Len(ItemsOf(a, f))
               PROVE  ~WasPlaced(a, f, k)
    BY DEF NamesInv
  <2>1. ~(Turn(a) < Turn("bits"))
    BY TurnOrder
  <2>2. ~(k <= 0) /\ ~Finished(f)
    BY DEF Begun, Finished, Done
  <2> QED BY <2>1, <2>2 DEF Begun, WasPlaced
<1> QED BY <1>1, <1>2 DEF PlaceInv, KnownInv, PlacedInv, PairsInv, PastInv

LEMMA InitPlaced == Init => PlaceInv
<1>1. Init => Begun /\ placed = {}
  BY ProgramsAssumption DEF Init, Begun
<1> QED BY <1>1, BeginPlaced

LEMMA RetryPlaced ==
  ASSUME PlaceInv, Retry
  PROVE  PlaceInv'
<1>1. Frame' = Frame
  BY DEF Retry, Frame, Frames
<1>2. Begun' /\ placed' = {}
  BY <1>1 DEF Begun, Retry, PlaceInv, PhaseInv, Basic
<1>3. Begun' /\ (placed = {})' => PlaceInv'
  BY BeginPlaced, PTL
<1> QED BY <1>2, <1>3

\* Once the layout ended nothing about the items changes.
LEMMA OtherPlaced ==
  ASSUME PlaceInv, UNCHANGED <<prog, moved, phys, placed, bitTotal, upperTop, top, globalsEnd>>,
         \/ phase' \in {"failed", "exhausted"}
         \/ phase \in Complete /\ phase' \in Complete
  PROVE  KnownInv' /\ PlacedInv' /\ PairsInv' /\ NamesInv' /\ PastInv'
<1>1. PhaseInv /\ KnownInv /\ PlacedInv /\ PairsInv /\ NamesInv /\ PastInv
  BY DEF PlaceInv
<1>2. KnownInv' /\ PairsInv'
  BY <1>1, SamePlaced
<1>3. phase' \notin Area
  BY DEF Area, Complete
<1>4. PlacedInv'
  BY <1>3 DEF PlacedInv
<1>5. /\ \A a, f, k : NameOf(a, f, k)' = NameOf(a, f, k)
      /\ \A a, o, h : Below(a, o, h)' = Below(a, o, h)
      /\ \A name : AreaOf(name)' = AreaOf(name)
      /\ Frame' = Frame
      /\ \A a, f : ItemsOf(a, f)' = ItemsOf(a, f)
      /\ \A p : Turn(p)' = Turn(p)
  BY SameNames, SameTable, SameProgram DEF Turn
<1>6. NamesInv'
  <2> SUFFICES ASSUME phase' \in Complete, phase \in Complete,
                      NEW a \in Area, NEW f \in Frame \cup {0}, NEW k \in 1 .. Len(ItemsOf(a, f))
               PROVE  (\E o \in placed : o.name = NameOf(a, f, k)) <=> WasPlaced(a, f, k)'
    BY <1>3, <1>5 DEF NamesInv, Complete
  <2>1. (\E o \in placed : o.name = NameOf(a, f, k)) <=> WasPlaced(a, f, k)
    BY <1>1 DEF NamesInv
  <2>2. Turn(a) < Turn(phase) /\ Turn(a) < Turn(phase')
    BY TurnOrder
  <2> QED BY <1>5, <2>1, <2>2 DEF WasPlaced
<1>7. PastInv'
  <2> SUFFICES ASSUME NEW o \in placed PROVE PastOf(o)'
    BY DEF PastInv
  <2>1. PastOf(o)
    BY <1>1 DEF PastInv
  <2>2. CASE phase' \in {"failed", "exhausted"}
    <3>1. phase' \notin {"upper", "direct"} \cup Complete /\ phase' \notin {"direct"} \cup Complete
      BY <2>2 DEF Complete
    <3> QED BY <1>5, <2>1, <3>1 DEF PastOf, Owner
  <2>3. CASE phase \in Complete /\ phase' \in Complete
    BY <1>5, <2>1, <2>3 DEF PastOf, Owner
  <2> QED BY <2>2, <2>3
<1> QED BY <1>2, <1>4, <1>6, <1>7

LEMMA IdlePlaced ==
  ASSUME PlaceInv, UNCHANGED vars
  PROVE  PlaceInv'
<1>1. UNCHANGED <<prog, moved, phys, placed, bitTotal, upperTop, top, globalsEnd, phase, ctx, fr,
                  todo, cursor, endOf>>
  BY DEF vars, cursors, results
<1>2. PhaseInv /\ KnownInv /\ PlacedInv /\ PairsInv /\ NamesInv /\ PastInv
  BY DEF PlaceInv
<1>3. PhaseInv'
  BY <1>2, IdlePhase
<1>4. KnownInv' /\ PairsInv'
  BY <1>1, <1>2, SamePlaced
<1>5. /\ \A a, f, k : NameOf(a, f, k)' = NameOf(a, f, k)
      /\ \A a, o, h : Below(a, o, h)' = Below(a, o, h)
      /\ \A name : AreaOf(name)' = AreaOf(name)
      /\ Frame' = Frame
      /\ \A a, f : ItemsOf(a, f)' = ItemsOf(a, f)
      /\ \A p : Turn(p)' = Turn(p)
      /\ \A f : Finished(f)' = Finished(f) /\ Bound(f)' = Bound(f)
  BY <1>1, SameNames, SameTable, SameProgram DEF Turn, Finished, Done, Bound
<1>6. \A o : HereBelow(o)' = HereBelow(o)
  BY <1>1, <1>5 DEF HereBelow, Owner
<1>7. PlacedInv'
  BY <1>1, <1>2, <1>5, <1>6 DEF PlacedInv
<1>8. \A a, f, k : WasPlaced(a, f, k)' = WasPlaced(a, f, k)
  BY <1>1, <1>5 DEF WasPlaced
<1>9. NamesInv'
  BY <1>1, <1>2, <1>5, <1>8 DEF NamesInv
<1>10. PastInv'
  BY <1>1, <1>2, <1>5 DEF PastInv, PastOf, Owner
<1> QED BY <1>3, <1>4, <1>7, <1>9, <1>10 DEF PlaceInv

LEMMA NextPlaced == PlaceInv /\ [Next]_vars => PlaceInv'
<1> SUFFICES ASSUME PlaceInv, [Next]_vars PROVE PlaceInv'
  OBVIOUS
<1>1. PhaseInv'
  BY NextPhase DEF PlaceInv
<1>2. CASE PlaceItem
  BY <1>1, <1>2, PlaceItemPlaced DEF PlaceInv
<1>3. CASE NoPlace \/ Fail
  <2>1. /\ UNCHANGED <<prog, moved, phys, placed, bitTotal, upperTop, top, globalsEnd>>
        /\ phase' \in {"failed", "exhausted"}
    BY <1>3 DEF NoPlace, Fail, cursors, results
  <2> QED BY <1>1, <2>1, OtherPlaced DEF PlaceInv
<1>4. CASE EndGlobals
  BY <1>1, <1>4, EndGlobalsPlaced DEF PlaceInv
<1>5. CASE EndFrame
  BY <1>1, <1>5, EndFramePlaced DEF PlaceInv
<1>6. CASE SkipFrame
  BY <1>1, <1>6, SkipFramePlaced DEF PlaceInv
<1>7. CASE EndMain
  BY <1>1, <1>7, EndMainPlaced DEF PlaceInv
<1>8. CASE EndArea
  BY <1>1, <1>8, EndAreaPlaced DEF PlaceInv
<1>9. CASE Retry
  BY <1>9, RetryPlaced
<1>10. CASE Startup
  <2>1. /\ phase \in Complete /\ phase' \in Complete
        /\ UNCHANGED <<prog, moved, top, results>>
    BY <1>10, StartupPhase DEF PlaceInv
  <2>2. UNCHANGED <<phys, placed, bitTotal, upperTop, globalsEnd>>
    BY <2>1 DEF results
  <2> QED BY <1>1, <2>1, <2>2, OtherPlaced DEF PlaceInv
<1>11. CASE UNCHANGED vars
  BY <1>11, IdlePlaced
<1> QED BY <1>2, <1>3, <1>4, <1>5, <1>6, <1>7, <1>8, <1>9, <1>10, <1>11 DEF Next, Layout

\* The inductive invariant of the layout, for every program: after every step
\* (layout.rs:246, :263, :276, and the second attempt, program.rs:138) what is
\* placed is known, has its place once, and lies apart from what it lives with.
THEOREM LayoutInvariant == Spec => []PlaceInv
BY InitPlaced, NextPlaced, PTL DEF Spec

-----------------------------------------------------------------------------
(***************************************************************************)
(* What the layout promises.                                               *)
(***************************************************************************)
\* Objects at fixed addresses lie where code can address them directly.
FixedLow(p) ==
  \A x \in 1 .. Len(p.fixed) :
    p.fixed[x].at + p.fixed[x].size <= p.iram /\ p.fixed[x].at + p.fixed[x].size <= Direct

LEMMA ReservedLow ==
  ASSUME IsProgram(prog), FixedLow(prog)
  PROVE  \A a \in Reserved : a < DirectTop
<1> SUFFICES ASSUME NEW a \in Reserved PROVE a < DirectTop
  OBVIOUS
<1>1. PICK x \in 1 .. Len(prog.fixed) : a \in BytesFrom(prog.fixed[x].at, prog.fixed[x].size)
  BY DEF Reserved
<1>2. prog.fixed[x].at \in Nat /\ prog.fixed[x].size \in Nat
  BY ProgramShape
<1>3. prog.fixed[x].at + prog.fixed[x].size <= RamTop /\ prog.fixed[x].at + prog.fixed[x].size <= Direct
  BY DEF FixedLow, RamTop
<1>4. prog.fixed[x].at + prog.fixed[x].size <= DirectTop
  BY <1>3 DEF DirectTop
<1>5. a \in Int /\ a < prog.fixed[x].at + prog.fixed[x].size
  BY <1>1, <1>2 DEF BytesFrom
<1> QED BY <1>2, <1>4, <1>5, ProgramSizes

LEMMA UsedBitsLow ==
  ASSUME IsProgram(prog), Tabled
  PROVE  \A a \in UsedBits : a \in Nat /\ BitLo <= a /\ a < BitHi /\ a < DirectTop
<1>1. BitBytes(bitTotal) \in Nat /\ BitLo + BitBytes(bitTotal) <= BitHi
  BY BitBytesBound DEF Tabled
<1>2. \A a \in UsedBits : a \in Nat /\ BitLo <= a /\ a < BitHi
  BY <1>1, SizesAssumption DEF UsedBits, BytesFrom
<1>3. DirectTop \in Nat /\ BitHi <= DirectTop
  BY ProgramSizes
<1> QED BY <1>2, <1>3, SizesAssumption

\* Where the bytes of an item are.
LEMMA PlacedWhere ==
  ASSUME PlaceInv, NEW o \in placed
  PROVE  /\ IsProgram(prog) /\ Known(o) /\ o.at \in Nat /\ o.size \in Nat \ {0}
         /\ AreaOf(o.name) \in Area /\ Owner(o) \in Frame \cup {0}
         /\ o.name[1] = "bit" <=> AreaOf(o.name) = "bits"
         /\ AreaOf(o.name) = "bits" => BitByte(o.at) \in (BitLo .. BitHi - 1) \ Reserved
         /\ AreaOf(o.name) = "upper" => /\ Tabled /\ Direct <= o.at /\ DirectTop <= o.at
                                        /\ o.at + o.size <= RamTop
         /\ AreaOf(o.name) = "direct" =>
              /\ Tabled /\ o.at + o.size <= DirectTop
              /\ BytesOf(o) \subseteq (RegEnd .. DirectTop - 1) \ (Reserved \cup UsedBits)
<1>1. IsProgram(prog) /\ PhaseInv /\ Known(o) /\ (AreaOf(o.name) # "bits" => Tabled)
  BY DEF PlaceInv, PhaseInv, Basic, KnownInv
<1>2. PICK v : Lies(AreaOf(o.name), o, v)
  BY DEF PlaceInv, KnownInv
<1>3. /\ AreaOf(o.name) \in Area /\ Owner(o) \in Frame \cup {0} /\ o.size \in Nat \ {0}
      /\ Sized(AreaOf(o.name), o) /\ (o.name[1] = "bit" <=> AreaOf(o.name) = "bits")
  BY <1>1, KnownFacts
<1>4. CASE AreaOf(o.name) = "bits"
  BY <1>1, <1>2, <1>3, <1>4, LiesBit
<1>5. CASE AreaOf(o.name) = "upper"
  <2>1. /\ o.at \in Nat /\ DirectTop <= o.at /\ o.at = RamTop - (v + o.size)
        /\ v \in Nat /\ v + o.size <= RamTop - DirectTop
    BY <1>1, <1>2, <1>3, <1>5, LiesUpper
  <2>2. RamTop \in Nat /\ Direct \in Nat /\ DirectTop \in Nat /\ (RamTop <= Direct => DirectTop = RamTop)
        /\ (Direct <= RamTop => DirectTop = Direct)
    BY <1>1, ProgramSizes, SizesAssumption
  <2>3. DirectTop < RamTop
    BY <1>3, <2>1, <2>2
  <2>4. DirectTop = Direct
    BY <2>2, <2>3
  <2>5. o.at + o.size <= RamTop
    BY <1>3, <2>1, <2>2
  <2> QED BY <1>1, <1>3, <1>5, <2>1, <2>4, <2>5
<1>6. CASE AreaOf(o.name) = "direct"
  BY <1>1, <1>2, <1>3, <1>6, LiesDirect
<1> QED BY <1>3, <1>4, <1>5, <1>6, AreaNames

LEMMA LayoutApart == PlaceInv /\ FixedLow(prog) => Apart
<1> SUFFICES ASSUME PlaceInv, FixedLow(prog) PROVE Apart
  OBVIOUS
<1>1. \A o \in Objects : o \in placed /\ AreaOf(o.name) # "bits" /\ AreaOf(o.name) \in Area
  BY PlacedWhere DEF Objects, Bits
<1>2. \A b \in Bits : b \in placed /\ AreaOf(b.name) = "bits"
  BY PlacedWhere DEF Bits
<1>3. ASSUME NEW o \in Objects
      PROVE  BytesOf(o) \subseteq (RegEnd .. RamTop - 1) \ (Reserved \cup UsedBits)
  <2>1. /\ o \in placed /\ IsProgram(prog) /\ o.at \in Nat /\ o.size \in Nat
    BY <1>1, PlacedWhere
  <2>2. /\ RegEnd \in Nat /\ RamTop \in Nat /\ DirectTop \in Nat /\ DirectTop <= RamTop
        /\ RegEnd <= DirectTop
    BY <2>1, ProgramSizes, SizesAssumption
  <2>3. CASE AreaOf(o.name) = "direct"
    <3>1. BytesOf(o) \subseteq (RegEnd .. DirectTop - 1) \ (Reserved \cup UsedBits)
      BY <2>1, <2>3, PlacedWhere
    <3>2. \A a \in RegEnd .. DirectTop - 1 : a \in RegEnd .. RamTop - 1
      BY <2>2
    <3> QED BY <3>1, <3>2
  <2>4. CASE AreaOf(o.name) = "upper"
    <3>1. Tabled /\ DirectTop <= o.at /\ o.at + o.size <= RamTop
      BY <2>1, <2>4, PlacedWhere
    <3>2. \A a \in BytesOf(o) : a \in Int /\ DirectTop <= a /\ a < RamTop
      BY <2>1, <2>2, <3>1 DEF BytesOf, BytesFrom
    <3>3. \A a \in BytesOf(o) : a \in RegEnd .. RamTop - 1 /\ ~(a < DirectTop)
      BY <2>2, <3>2
    <3> QED BY <2>1, <3>1, <3>3, ReservedLow, UsedBitsLow
  <2> QED BY <1>1, <2>3, <2>4, AreaNames
<1>4. \A b \in Bits : BitByte(b.at) \in (BitLo .. BitHi - 1) \ Reserved
  BY <1>2, PlacedWhere
<1>5. ASSUME NEW o \in Objects, NEW q \in Objects, AreaOf(o.name) = "upper", AreaOf(q.name) = "direct"
      PROVE  BytesOf(o) \cap BytesOf(q) = {}
  <2>1. o \in placed /\ q \in placed
    BY <1>1
  <2>2. /\ o.at \in Nat /\ o.size \in Nat /\ q.at \in Nat /\ q.size \in Nat
        /\ DirectTop <= o.at /\ q.at + q.size <= DirectTop /\ IsProgram(prog)
    BY <1>5, <2>1, PlacedWhere
  <2> QED BY <2>2, ProgramSizes DEF BytesOf, BytesFrom
<1>6. ASSUME NEW S \in {Objects, Bits}, NEW o \in S, NEW q \in S, o.name # q.name,
             LiveTogether(Owner(o), Owner(q))
      PROVE  BytesOf(o) \cap BytesOf(q) = {}
  <2>1. o \in placed /\ q \in placed
    BY <1>1, <1>2, <1>6
  <2>2. CASE AreaOf(o.name) = AreaOf(q.name)
    BY <1>6, <2>1, <2>2 DEF PlaceInv, PairsInv
  <2>3. CASE AreaOf(o.name) # AreaOf(q.name)
    <3>1. S = Objects
      BY <1>2, <1>6, <2>3
    <3>2. \/ AreaOf(o.name) = "upper" /\ AreaOf(q.name) = "direct"
          \/ AreaOf(o.name) = "direct" /\ AreaOf(q.name) = "upper"
      BY <1>1, <1>6, <2>3, <3>1, AreaNames
    <3>3. BytesOf(o) \cap BytesOf(q) = {} \/ BytesOf(q) \cap BytesOf(o) = {}
      BY <1>5, <1>6, <3>1, <3>2
    <3> QED BY <3>3
  <2> QED BY <2>2, <2>3
<1> QED BY <1>3, <1>4, <1>6 DEF Apart

LEMMA LayoutReachable == PlaceInv => Reachable
<1> SUFFICES ASSUME PlaceInv, phase \in {"boot", "clear", "init", "run"} PROVE Reachable
  BY DEF Reachable
<1> DEFINE names(area) ==
          UNION {LET is == ItemsOf(area, f) IN {is[k].name : k \in 1 .. Len(is)} :
                   f \in Frame \cup {0}}
<1>1. phase \in Complete /\ PhaseInv
  BY DEF Complete, PlaceInv
<1>2. \A a \in Area : \A n : n \in names(a) <=> \E f \in Frame \cup {0} : \E k \in 1 .. Len(ItemsOf(a, f)) : n = NameOf(a, f, k)
  BY DEF NameOf
<1> HIDE DEF names
<1>3. {o.name : o \in placed} = names("bits") \cup names("upper") \cup names("direct")
  <2>1. \A o \in placed : \E a \in Area : o.name \in names(a)
    <3> SUFFICES ASSUME NEW o \in placed PROVE \E a \in Area : o.name \in names(a)
      OBVIOUS
    <3>1. Known(o)
      BY DEF PlaceInv, KnownInv
    <3>2. PICK a \in Area, f \in Frame \cup {0} : \E k \in 1 .. Len(ItemsOf(a, f)) : o.name = NameOf(a, f, k)
      BY <3>1 DEF Known
    <3> QED BY <1>2, <3>2
  <2>2. ASSUME NEW a \in Area, NEW n \in names(a) PROVE n \in {o.name : o \in placed}
    <3>1. PICK f \in Frame \cup {0} : \E k \in 1 .. Len(ItemsOf(a, f)) : n = NameOf(a, f, k)
      BY <1>2, <2>2
    <3>2. PICK k \in 1 .. Len(ItemsOf(a, f)) : n = NameOf(a, f, k)
      BY <3>1
    <3>3. WasPlaced(a, f, k)
      BY <1>1, TurnOrder DEF WasPlaced
    <3>4. \E o \in placed : o.name = n
      BY <1>1, <3>2, <3>3 DEF PlaceInv, NamesInv
    <3> QED BY <3>4
  <2>3. "bits" \in Area /\ "upper" \in Area /\ "direct" \in Area
    BY DEF Area
  <2> QED BY <2>1, <2>2, <2>3, AreaNames
<1>4. ASSUME NEW o \in placed, NEW a \in Area PROVE o.name \in names(a) => AreaOf(o.name) = a
  BY <1>1, <1>2, ItemFacts
<1>5. \A o \in placed : AreaOf(o.name) = "upper" => o.name \in names("upper")
  <2> SUFFICES ASSUME NEW o \in placed, AreaOf(o.name) = "upper" PROVE o.name \in names("upper")
    OBVIOUS
  <2>1. o.name \in names("bits") \/ o.name \in names("upper") \/ o.name \in names("direct")
    BY <1>3
  <2> QED BY <1>4, <2>1 DEF Area
<1>6. ASSUME NEW o \in Objects
      PROVE  IF o.name \in names("upper") THEN o.at >= Direct ELSE o.at + o.size <= DirectTop
  <2>1. o \in placed /\ AreaOf(o.name) # "bits" /\ AreaOf(o.name) \in Area
    BY PlacedWhere DEF Objects, Bits
  <2>2. CASE AreaOf(o.name) = "upper"
    <3>1. Direct <= o.at /\ o.at \in Nat /\ o.name \in names("upper")
      BY <1>5, <2>1, <2>2, PlacedWhere
    <3> QED BY <3>1, SizesAssumption
  <2>3. CASE AreaOf(o.name) = "direct"
    <3>1. o.name \notin names("upper")
      BY <1>4, <2>1, <2>3 DEF Area
    <3> QED BY <2>1, <2>3, <3>1, PlacedWhere
  <2> QED BY <2>1, <2>2, <2>3, AreaNames
<1>7. ASSUME NEW b \in Bits PROVE BitByte(b.at) \in UsedBits
  <2>1. b \in placed /\ AreaOf(b.name) = "bits" /\ Known(b)
    BY PlacedWhere DEF Bits
  <2>2. Below("bits", b, bitTotal)
    BY <1>1, <2>1 DEF PlaceInv, PastInv, PastOf
  <2>3. PICK v \in Nat : v + b.size <= bitTotal /\ Lies("bits", b, v)
    BY <2>2 DEF Below
  <2>4. Sized("bits", b)
    BY <1>1, <2>1, KnownFacts
  <2>5. b.size = 1 /\ b.at = Nth(FreeBits, v)
    BY <2>3, <2>4, LiesBit
  <2>6. bitTotal \in Nat /\ bitTotal <= Cardinality(FreeBits)
    BY <1>1 DEF PhaseInv, TableInv, Basic
  <2>7. v < bitTotal
    BY <2>3, <2>5, <2>6
  <2> QED BY <2>5, <2>6, <2>7, BitBytesBound DEF UsedBits
<1> QED BY <1>3, <1>6, <1>7 DEF Reachable, names

\* No step changes the program.
LEMMA ProgramStays == [Next]_vars => prog' = prog
BY DEF Next, Layout, Startup, PlaceItem, NoPlace, EndGlobals, EndFrame, SkipFrame, EndMain,
       EndArea, Retry, Fail, Boot, ClearByte, EndClear, WriteInit, StartMain, vars

\* A program may put an object where indirect addressing reaches it only, and
\* the layout takes no notice of it there (layout.rs:184): not in these programs.
FixedSpec == Spec /\ FixedLow(prog)

\* What can hold a value at the same time never shares a byte or a bit, and no
\* object is torn by a hole or lies on registers, bits in use or fixed objects
\* (layout.rs:53), for every program whose fixed objects are directly addressed.
THEOREM ApartCorrect == FixedSpec => []Apart
<1>1. FixedLow(prog) /\ [Next]_vars => FixedLow(prog)'
  BY ProgramStays DEF FixedLow
<1>2. FixedSpec => []FixedLow(prog)
  BY <1>1, PTL DEF FixedSpec, Spec
<1>3. FixedSpec => []PlaceInv
  BY LayoutInvariant, PTL DEF FixedSpec
<1> QED BY <1>2, <1>3, LayoutApart, PTL

\* A finished layout has a place for every item of the program, one that the
\* code generated for it can address, and counts the bytes of its bits
\* (layout.rs:147).
THEOREM ReachableCorrect == Spec => []Reachable
BY LayoutInvariant, LayoutReachable, PTL

-----------------------------------------------------------------------------
(***************************************************************************)
(* The startup code: what it starts from.                                  *)
(***************************************************************************)
LEMMA RamEndPlace ==
  ASSUME PhaseInv, phase \in Complete
  PROVE  /\ RamEnd \in Nat \ {0} /\ RamEnd <= DirectTop
         /\ bitTotal > 0 => BitLo + BitBytes(bitTotal) <= RamEnd
         /\ top # 0 => Addr(top - 1) + 1 <= RamEnd
<1>1. /\ IsProgram(prog) /\ Tabled /\ top \in Nat /\ top <= Capacity /\ bitTotal \in Nat
      /\ bitTotal <= Cardinality(FreeBits)
  BY DEF PhaseInv, Basic, TableInv
<1> DEFINE low == IF bitTotal > 0 THEN BitLo + BitBytes(bitTotal) ELSE RegEnd
           high == IF top = 0 THEN {} ELSE {Addr(top - 1) + 1}
<1>2. BitBytes(bitTotal) \in Nat /\ BitLo + BitBytes(bitTotal) <= BitHi
  BY <1>1, BitBytesBound
<1>3. /\ RegEnd \in Nat /\ BankBytes <= RegEnd /\ RegEnd <= BitLo /\ DirectTop \in Nat
      /\ BitHi <= DirectTop
  BY <1>1, ProgramSizes
<1>4. low \in Nat \ {0} /\ low <= DirectTop
  BY <1>1, <1>2, <1>3, SizesAssumption
<1>5. RamEnd = Largest({low} \cup high)
  BY DEF RamEnd
<1>6. bitTotal > 0 => low = BitLo + BitBytes(bitTotal)
  OBVIOUS
<1> HIDE DEF low
<1>7. CASE top = 0
  <2>1. {low} \cup high = {low, low}
    BY <1>7
  <2>2. RamEnd = low
    <3> HIDE DEF high
    <3> QED BY <1>4, <1>5, <2>1, TwoLargest
  <2> QED BY <1>4, <1>6, <1>7, <2>2
<1>8. CASE top # 0
  <2>1. PICK e : e = Addr(top - 1) + 1
    OBVIOUS
  <2>2. e \in Nat /\ e <= DirectTop
    <3>1. Capacity \in Nat
      BY <1>1, Table
    <3>2. top - 1 \in 0 .. Capacity - 1
      BY <1>1, <1>8, <3>1
    <3>3. Addr(top - 1) \in Nat /\ Addr(top - 1) \in RegEnd .. DirectTop - 1
      BY <1>1, <3>2, Table
    <3> QED BY <1>3, <2>1, <3>3
  <2>3. {low} \cup high = {low, e}
    BY <1>8, <2>1
  <2>4. RamEnd \in {low, e} /\ low <= RamEnd /\ e <= RamEnd /\ RamEnd \in Nat
    <3> HIDE DEF high
    <3> QED BY <1>4, <1>5, <2>2, <2>3, TwoLargest
  <2>5. RamEnd # 0 /\ RamEnd <= DirectTop
    BY <1>3, <1>4, <2>2, <2>4
  <2> QED BY <1>4, <1>6, <1>8, <2>1, <2>4, <2>5
<1> QED BY <1>7, <1>8

\* The bits of the program fit into the bit area.
LEMMA BitsFit ==
  ASSUME PhaseInv, phase \in Complete
  PROVE  LET n == (prog.bits + ByteBits - 1) \div ByteBits
         IN n \in Nat /\ BitLo + n <= BitHi
            /\ \A b \in Nat : b < prog.bits => b \div ByteBits < n /\ b \div ByteBits \in Nat
<1>1. prog.bits \in Nat /\ prog.bits <= bitTotal /\ bitTotal \in Nat /\ bitTotal <= Cardinality(FreeBits)
  BY ProgramSizes DEF PhaseInv, Basic, TableInv
<1> DEFINE m == BitHi - BitLo
           d == ByteBits
           t == m * d
           x == prog.bits + d - 1
           n == x \div d
<1>2. m \in Nat /\ d \in Nat \ {0}
  BY SizesAssumption
<1>3. t \in Nat /\ (m + 1) * d = t + d
  <2> HIDE DEF m, d
  <2> QED BY <1>2
<1>4. Cardinality(FreeBits) <= t
  <2>1. FreeBits \in SUBSET (0 .. t - 1)
    BY DEF FreeBits
  <2> HIDE DEF t
  <2>2. IsFiniteSet(0 .. t - 1) /\ Cardinality(0 .. t - 1) = IF 0 > t - 1 THEN 0 ELSE t - 1 - 0 + 1
    BY <1>3, FS_Interval
  <2>3. Cardinality(0 .. t - 1) = t
    BY <1>3, <2>2
  <2> QED BY <2>1, <2>2, <2>3, FS_Subset
<1>5. x \in Nat /\ x < (m + 1) * d
  <2>1. Cardinality(FreeBits) \in Nat
    BY FreeBitsFinite
  <2> HIDE DEF m, d, t
  <2> QED BY <1>1, <1>2, <1>3, <1>4, <2>1
<1>6. n < m + 1 /\ n \in Nat
  <2>1. m + 1 \in Nat
    BY <1>2
  <2> HIDE DEF m, d, x
  <2> QED BY <1>2, <1>5, <2>1, Division, DivisionBelow
<1>7. ASSUME NEW b \in Nat, b < prog.bits PROVE b \div d < n /\ b \div d \in Nat
  <2>1. b + d <= x /\ b + d \in Nat
    BY <1>1, <1>2, <1>7
  <2>2. (b + d) \div d <= n
    <3> HIDE DEF d, x
    <3> QED BY <1>2, <1>5, <2>1, DivisionOrder
  <2>3. b \div d < (b + d) \div d
    <3> DEFINE q == (b + d) \div d
    <3> HIDE DEF d
    <3>1. q \in Nat /\ b + d < d * q + d
      BY <1>2, <2>1, Division
    <3> HIDE DEF q
    <3>2. b < q * d
      <4>1. d * q = q * d /\ d * q \in Nat
        BY <1>2, <3>1
      <4> QED BY <1>2, <3>1, <4>1
    <3> QED BY <1>2, <3>1, <3>2, DivisionBelow DEF q
  <2>4. b \div d \in Nat /\ (b + d) \div d \in Nat
    <3> HIDE DEF d
    <3> QED BY <1>2, <2>1, Division
  <2> HIDE DEF d, n
  <2> QED BY <1>6, <2>2, <2>3, <2>4
<1>8. BitLo + n <= BitHi
  <2> HIDE DEF n
  <2> QED BY <1>6, SizesAssumption
<1> QED BY <1>6, <1>7, <1>8

LEMMA ClearEndPlace ==
  ASSUME PhaseInv, phase \in Complete, globalsEnd \in 0 .. DirectTop
  PROVE  /\ ClearEnd \in Nat /\ ClearEnd <= RamTop
         /\ ClearsUpper => RamTop <= ClearEnd
         /\ globalsEnd <= ClearEnd
         /\ prog.bits > 0 => BitLo + ((prog.bits + ByteBits - 1) \div ByteBits) <= ClearEnd
<1>1. IsProgram(prog)
  BY DEF PhaseInv, Basic
<1>2. RamTop \in Nat /\ DirectTop \in Nat /\ DirectTop <= RamTop /\ BitHi <= RamTop /\ prog.bits \in Nat
  BY <1>1, ProgramSizes
<1> DEFINE n == (prog.bits + ByteBits - 1) \div ByteBits
           bytes == IF ClearsUpper THEN RamTop ELSE globalsEnd
           bits == BitLo + n
<1>3. n \in Nat /\ BitLo + n <= BitHi
  BY BitsFit
<1> HIDE DEF n
<1>4. bytes \in Nat /\ bytes <= RamTop /\ globalsEnd <= bytes /\ (ClearsUpper => bytes = RamTop)
  BY <1>2
<1>5. bits \in Nat /\ bits <= RamTop
  BY <1>2, <1>3, SizesAssumption
<1>6. ClearEnd = IF prog.bits > 0 THEN Largest({bytes, bits}) ELSE bytes
  BY DEF ClearEnd, n
<1> HIDE DEF bytes, bits
<1>7. CASE prog.bits > 0
  <2>1. ClearEnd \in {bytes, bits} /\ bytes <= ClearEnd /\ bits <= ClearEnd /\ ClearEnd \in Nat
    BY <1>4, <1>5, <1>6, <1>7, TwoLargest
  <2>2. ClearEnd <= RamTop
    BY <1>4, <1>5, <2>1
  <2>3. globalsEnd <= ClearEnd
    BY <1>2, <1>4, <2>1
  <2> QED BY <1>4, <2>1, <2>2, <2>3 DEF bits, n
<1>8. CASE ~(prog.bits > 0)
  BY <1>2, <1>4, <1>6, <1>8
<1> QED BY <1>7, <1>8

\* What the startup code writes: the initializers of globals, and those of the
\* objects at fixed addresses.
OfGlobal(i, g) ==
  \E o \in placed : o.name = <<"object", 0, g>> /\ i.at = o.at /\ i.init = prog.globals[g].init
OfFixed(i, x) == i.at = prog.fixed[x].at /\ i.init = prog.fixed[x].init

StartedGlobals == {g \in 1 .. Len(prog.globals) : prog.globals[g].init # <<>>}
StartedFixed == {x \in 1 .. Len(prog.fixed) : prog.fixed[x].init # <<>>}

\* In a finished layout every global has its place.
LEMMA GlobalPlaced ==
  ASSUME PlaceInv, phase \in Complete, NEW g \in 1 .. Len(prog.globals)
  PROVE  \E o \in placed : o.name = <<"object", 0, g>>
<1>1. IsProgram(prog) /\ moved \in BOOLEAN /\ PhaseInv
  BY DEF PlaceInv, PhaseInv, Basic
<1>2. UpperGlobal(g) \in BOOLEAN
  BY <1>1, ProgramShape DEF UpperGlobal
<1> DEFINE a == IF UpperGlobal(g) THEN "upper" ELSE "direct"
<1>3. a \in Area /\ a # "bits" /\ UpperGlobal(g) = (a = "upper")
  BY <1>2 DEF Area
<1> HIDE DEF a
<1>4. PICK k \in 1 .. Len(ItemsOf(a, 0)) : ItemsOf(a, 0)[k].name = <<"object", 0, g>>
  BY <1>1, <1>3, ItemsShape
<1>5. NameOf(a, 0, k) = <<"object", 0, g>>
  BY <1>4 DEF NameOf
<1>6. WasPlaced(a, 0, k)
  BY <1>3, TurnOrder DEF WasPlaced
<1>7. \E o \in placed : o.name = NameOf(a, 0, k)
  BY <1>3, <1>6 DEF PlaceInv, NamesInv
<1> QED BY <1>5, <1>7

LEMMA InitializersShape ==
  ASSUME PlaceInv, phase \in Complete
  PROVE  /\ Len(Initializers) \in Nat
         /\ \A k \in 1 .. Len(Initializers) :
              \/ \E g \in StartedGlobals : OfGlobal(Initializers[k], g)
              \/ \E x \in StartedFixed : OfFixed(Initializers[k], x)
         /\ \A g \in StartedGlobals : \E k \in 1 .. Len(Initializers) : OfGlobal(Initializers[k], g)
         /\ \A x \in StartedFixed : \E k \in 1 .. Len(Initializers) : OfFixed(Initializers[k], x)
<1>1. IsProgram(prog)
  BY DEF PlaceInv, PhaseInv, Basic
<1>2. PICK gs : gs = InOrder(StartedGlobals)
  OBVIOUS
<1>3. PICK xs : xs = Ascending(StartedFixed)
  OBVIOUS
<1>4. Lists(gs, StartedGlobals)
  <2>1. StartedGlobals \in SUBSET (1 .. Len(prog.globals))
    BY DEF StartedGlobals
  <2> QED BY <1>1, <1>2, <2>1, InOrderLists
<1>5. Lists(xs, StartedFixed)
  <2>1. StartedFixed \in SUBSET (1 .. Len(prog.fixed))
    BY DEF StartedFixed
  <2>2. StartedFixed \in SUBSET Nat /\ IsFiniteSet(StartedFixed)
    BY <1>1, <2>1, NumbersFinite, ProgramShape
  <2> QED BY <1>3, <2>2, AscendingLists
<1> DEFINE ofG(g) == [at |-> AddressOf(<<"object", 0, g>>), init |-> prog.globals[g].init]
           ofX(x) == [at |-> prog.fixed[x].at, init |-> prog.fixed[x].init]
           s == [k \in 1 .. Len(gs) |-> ofG(gs[k])]
           t == [k \in 1 .. Len(xs) |-> ofX(xs[k])]
<1>6. Initializers = s \o t
  BY <1>2, <1>3 DEF Initializers, StartedGlobals, StartedFixed
<1>7. \A g \in StartedGlobals : OfGlobal(ofG(g), g)
  <2> SUFFICES ASSUME NEW g \in StartedGlobals PROVE OfGlobal(ofG(g), g)
    OBVIOUS
  <2>1. \E o \in placed : o.name = <<"object", 0, g>>
    BY GlobalPlaced DEF StartedGlobals
  <2> DEFINE c == CHOOSE o \in placed : o.name = <<"object", 0, g>>
  <2>2. c \in placed /\ c.name = <<"object", 0, g>>
    BY <2>1
  <2>3. AddressOf(<<"object", 0, g>>) = c.at
    BY DEF AddressOf
  <2> HIDE DEF c
  <2>4. ofG(g).at = c.at /\ ofG(g).init = prog.globals[g].init
    BY <2>3
  <2> HIDE DEF ofG
  <2> QED BY <2>2, <2>4 DEF OfGlobal
<1>8. \A x \in StartedFixed : OfFixed(ofX(x), x)
  BY DEF OfFixed
<1>9. /\ Len(gs) \in Nat /\ \A k \in 1 .. Len(gs) : gs[k] \in StartedGlobals
      /\ Len(xs) \in Nat /\ \A k \in 1 .. Len(xs) : xs[k] \in StartedFixed
  BY <1>4, <1>5 DEF Lists
<1> HIDE DEF ofG, ofX
<1> DEFINE V == {ofG(g) : g \in StartedGlobals} \cup {ofX(x) : x \in StartedFixed}
<1>10. s \in [1 .. Len(gs) -> V] /\ t \in [1 .. Len(xs) -> V]
  BY <1>9
<1>11. s \in Seq(V) /\ t \in Seq(V) /\ Len(s) = Len(gs) /\ Len(t) = Len(xs)
  <2> HIDE DEF V
  <2>1. PICK m \in Nat : m = Len(gs)
    BY <1>9
  <2>2. PICK n \in Nat : n = Len(xs)
    BY <1>9
  <2>3. s \in [1 .. m -> V] /\ t \in [1 .. n -> V]
    BY <1>10, <2>1, <2>2
  <2> HIDE DEF s, t
  <2> QED BY <2>1, <2>2, <2>3
<1>12. /\ \A k \in 1 .. Len(gs) : s[k] = ofG(gs[k])
       /\ \A k \in 1 .. Len(xs) : t[k] = ofX(xs[k])
  OBVIOUS
<1> HIDE DEF s, t, V
<1> DEFINE c == s \o t
<1>13. /\ Len(c) = Len(gs) + Len(xs)
       /\ \A k \in 1 .. Len(gs) : c[k] = s[k]
       /\ \A k \in 1 .. Len(xs) : c[Len(gs) + k] = t[k]
  BY <1>9, <1>11
<1> HIDE DEF c
<1>14. Initializers = c
  BY <1>6 DEF c
<1>15. ASSUME NEW k \in 1 .. Len(c)
       PROVE  (\E g \in StartedGlobals : OfGlobal(c[k], g)) \/ (\E x \in StartedFixed : OfFixed(c[k], x))
  <2>1. CASE k \in 1 .. Len(gs)
    BY <1>7, <1>9, <1>12, <1>13, <2>1
  <2>2. CASE k \notin 1 .. Len(gs)
    <3>1. k - Len(gs) \in 1 .. Len(xs) /\ k = Len(gs) + (k - Len(gs))
      BY <1>9, <1>13, <2>2
    <3>2. PICK j \in 1 .. Len(xs) : k = Len(gs) + j
      BY <3>1
    <3> QED BY <1>8, <1>9, <1>12, <1>13, <3>2
  <2> QED BY <2>1, <2>2
<1>16. ASSUME NEW g \in StartedGlobals PROVE \E k \in 1 .. Len(c) : OfGlobal(c[k], g)
  <2>1. PICK k \in 1 .. Len(gs) : gs[k] = g
    BY <1>4 DEF Lists
  <2>2. k \in 1 .. Len(c) /\ c[k] = ofG(g)
    BY <1>9, <1>12, <1>13, <2>1
  <2> QED BY <1>7, <2>2
<1>17. ASSUME NEW x \in StartedFixed PROVE \E k \in 1 .. Len(c) : OfFixed(c[k], x)
  <2>1. PICK k \in 1 .. Len(xs) : xs[k] = x
    BY <1>5 DEF Lists
  <2>2. Len(gs) + k \in 1 .. Len(c) /\ c[Len(gs) + k] = ofX(x)
    BY <1>9, <1>12, <1>13, <2>1
  <2> QED BY <1>8, <2>2
<1> QED BY <1>9, <1>13, <1>14, <1>15, <1>16, <1>17

-----------------------------------------------------------------------------
(***************************************************************************)
(* Types, and where the stack starts.                                      *)
(***************************************************************************)
MachineInv ==
  /\ globalsEnd \in 0 .. DirectTop
  /\ mem \in [0 .. RamTop - 1 -> Byte \cup {Junk}]
  /\ r0 \in 0 .. RamTop - 1 /\ sp \in Nat
  /\ phase \in {"clear", "init", "run"} => sp + 1 = RamEnd

LEMMA InitMachine == Init => MachineInv
<1> SUFFICES ASSUME Init PROVE MachineInv
  OBVIOUS
<1>1. IsProgram(prog)
  BY ProgramsAssumption DEF Init
<1>2. RamTop \in Nat /\ DirectTop \in Nat /\ RamTop > 0
  BY <1>1, ProgramSizes, SizesAssumption
<1>3. mem \in [0 .. RamTop - 1 -> Byte \cup {Junk}]
  BY DEF Init
<1> QED BY <1>2, <1>3, SizesAssumption DEF Init, MachineInv

\* A step of the layout leaves the machine alone.
LEMMA LayoutMachine ==
  ASSUME PlaceInv, MachineInv, Layout
  PROVE  MachineInv'
<1>1. prog' = prog /\ UNCHANGED <<mem, r0, sp>>
  BY DEF Layout, PlaceItem, NoPlace, EndGlobals, EndFrame, SkipFrame, EndMain, EndArea, Retry,
         Fail, machine
<1>2. phase' \notin {"clear", "init", "run"}
  BY DEF Layout, Placing, PlaceItem, NoPlace, EndGlobals, EndFrame, SkipFrame, EndMain, EndArea,
         Retry, Fail, Area
<1>3. RamTop' = RamTop /\ DirectTop' = DirectTop
  BY <1>1 DEF DirectTop, RamTop
<1>4. globalsEnd' \in 0 .. DirectTop
  <2>1. IsProgram(prog) /\ PhaseInv
    BY DEF PlaceInv, PhaseInv, Basic
  <2>2. RegEnd \in Nat /\ DirectTop \in Nat /\ RegEnd <= DirectTop
    BY <2>1, ProgramSizes, SizesAssumption
  <2>3. CASE EndGlobals /\ phase = "direct"
    <3>1. globalsEnd' = IF Cursor = 0 THEN RegEnd
                        ELSE IF HasAddr(Cursor - 1) THEN Addr(Cursor - 1) + 1
                        ELSE DirectTop
      BY <2>3 DEF EndGlobals
    <3>2. Cursor \in Nat
      BY <2>1, <2>3, StartPlace DEF EndGlobals, Placing
    <3>3. Tabled
      BY <2>1, <2>3 DEF PhaseInv, TableInv
    <3>4. Cursor # 0 /\ HasAddr(Cursor - 1) => Addr(Cursor - 1) + 1 \in 0 .. DirectTop
      <4> SUFFICES ASSUME Cursor # 0, HasAddr(Cursor - 1) PROVE Addr(Cursor - 1) + 1 \in 0 .. DirectTop
        OBVIOUS
      <4>1. Capacity \in Nat
        BY <2>1, <3>3, Table
      <4>2. Cursor - 1 \in 0 .. Capacity - 1
        BY <3>2, <4>1 DEF HasAddr
      <4>3. Addr(Cursor - 1) \in Nat /\ Addr(Cursor - 1) \in RegEnd .. DirectTop - 1
        BY <2>1, <3>3, <4>2, Table
      <4> QED BY <2>2, <4>3
    <3> QED BY <2>2, <3>1, <3>4
  <2>4. CASE ~(EndGlobals /\ phase = "direct")
    <3>1. globalsEnd' = globalsEnd \/ globalsEnd' = 0
      BY <2>4 DEF Layout, PlaceItem, NoPlace, EndGlobals, EndFrame, SkipFrame, EndMain, EndArea,
                  Retry, Fail, results
    <3> QED BY <2>2, <3>1 DEF MachineInv
  <2> QED BY <2>3, <2>4
<1> QED BY <1>1, <1>2, <1>3, <1>4 DEF MachineInv

\* The bytes a write changes are bytes of the initializer.
LEMMA WrittenBytes ==
  ASSUME PlaceInv, phase \in Complete, NEW j \in 1 .. Len(Initializers)
  PROVE  LET i == Initializers[j]
         IN i.at \in Nat /\ i.init \in Seq(Byte) /\ Len(i.init) \in Nat
            /\ \A k \in 1 .. Len(i.init) : (i.at + k - 1) - i.at + 1 = k /\ i.init[k] \in Byte
<1> DEFINE i == Initializers[j]
<1>1. IsProgram(prog)
  BY DEF PlaceInv, PhaseInv, Basic
<1>2. (\E g \in StartedGlobals : OfGlobal(i, g)) \/ (\E x \in StartedFixed : OfFixed(i, x))
  BY InitializersShape
<1> HIDE DEF i
<1>3. i.at \in Nat /\ i.init \in Seq(Byte)
  <2>1. CASE \E g \in StartedGlobals : OfGlobal(i, g)
    BY <1>1, <2>1, PlacedWhere, ProgramShape DEF OfGlobal, StartedGlobals
  <2>2. CASE \E x \in StartedFixed : OfFixed(i, x)
    BY <1>1, <2>2, ProgramShape DEF OfFixed, StartedFixed
  <2> QED BY <1>2, <2>1, <2>2
<1>4. Len(i.init) \in Nat /\ \A k \in 1 .. Len(i.init) : i.init[k] \in Byte
  <2>1. PICK B : B = Byte
    OBVIOUS
  <2>2. i.init \in Seq(B)
    BY <1>3, <2>1
  <2>3. Len(i.init) \in Nat /\ \A k \in 1 .. Len(i.init) : i.init[k] \in B
    BY <2>2
  <2> QED BY <2>1, <2>3
<1>5. \A k \in 1 .. Len(i.init) : (i.at + k - 1) - i.at + 1 = k
  BY <1>3
<1> QED BY <1>3, <1>4, <1>5 DEF i

LEMMA WriteEffect ==
  ASSUME PlaceInv, MachineInv, WriteInit
  PROVE  LET i == Initializers[todo + 1]
         IN /\ todo + 1 \in 1 .. Len(Initializers)
            /\ mem' \in [0 .. RamTop - 1 -> Byte \cup {Junk}]
            /\ \A k \in 1 .. Len(i.init) : i.init[k] # 0 /\ i.at + k - 1 \in 0 .. RamTop - 1 =>
                 mem'[i.at + k - 1] = i.init[k]
            /\ \A a \in 0 .. RamTop - 1 :
                 (\A k \in 1 .. Len(i.init) : i.init[k] # 0 => a # i.at + k - 1) => mem'[a] = mem[a]
<1>1. phase = "init" /\ phase \in Complete /\ todo < Len(Initializers)
  BY DEF WriteInit, Complete
<1>2. Len(Initializers) \in Nat /\ todo \in Nat
  BY <1>1, InitializersShape DEF PlaceInv, PhaseInv, Basic
<1>3. todo + 1 \in 1 .. Len(Initializers)
  BY <1>1, <1>2
<1>4. PICK i : i = Initializers[todo + 1]
  OBVIOUS
<1>5. /\ i.at \in Nat /\ Len(i.init) \in Nat
      /\ \A k \in 1 .. Len(i.init) : (i.at + k - 1) - i.at + 1 = k /\ i.init[k] \in Byte
  BY <1>1, <1>3, <1>4, WrittenBytes
<1> DEFINE written == {k \in 1 .. Len(i.init) : i.init[k] # 0}
<1>6. mem' = [a \in DOMAIN mem |-> IF \E k \in written : a = i.at + k - 1
                                  THEN i.init[a - i.at + 1] ELSE mem[a]]
  BY <1>4 DEF WriteInit
<1>7. DOMAIN mem = 0 .. RamTop - 1 /\ \A a \in 0 .. RamTop - 1 : mem[a] \in Byte \cup {Junk}
  BY DEF MachineInv
<1>8. \A a \in 0 .. RamTop - 1 : mem'[a] = IF \E k \in written : a = i.at + k - 1
                                           THEN i.init[a - i.at + 1] ELSE mem[a]
  BY <1>6, <1>7
<1>9. \A k \in written : k \in 1 .. Len(i.init) /\ i.init[k] # 0
  OBVIOUS
<1>10. \A k \in 1 .. Len(i.init) : i.init[k] # 0 => k \in written
  OBVIOUS
<1> HIDE DEF written
<1>11. \A a \in 0 .. RamTop - 1 : \A k \in written : a = i.at + k - 1 => mem'[a] = i.init[k]
  <2> SUFFICES ASSUME NEW a \in 0 .. RamTop - 1, NEW k \in written, a = i.at + k - 1
               PROVE  mem'[a] = i.init[k]
    OBVIOUS
  <2>1. a - i.at + 1 = k
    BY <1>5, <1>9
  <2>2. mem'[a] = i.init[a - i.at + 1]
    BY <1>8
  <2> QED BY <2>1, <2>2
<1>12. \A a \in 0 .. RamTop - 1 : (\A k \in written : a # i.at + k - 1) => mem'[a] = mem[a]
  BY <1>8
<1>13. mem' \in [0 .. RamTop - 1 -> Byte \cup {Junk}]
  <2>1. \A a \in 0 .. RamTop - 1 : mem'[a] \in Byte \cup {Junk}
    BY <1>5, <1>7, <1>9, <1>11, <1>12
  <2>2. mem' = [a \in 0 .. RamTop - 1 |-> mem'[a]]
    BY <1>6, <1>7
  <2> QED BY <2>1, <2>2
<1> QED BY <1>3, <1>4, <1>9, <1>10, <1>11, <1>12, <1>13

LEMMA RamEndStays ==
  ASSUME prog' = prog, moved' = moved, phys' = phys, bitTotal' = bitTotal, top' = top
  PROVE  RamEnd' = RamEnd
<1>1. BitBytes(bitTotal)' = BitBytes(bitTotal)
  <2>1. PICK t : t = bitTotal
    OBVIOUS
  <2>2. BitBytes(t)' = BitBytes(t)
    BY SameProgram
  <2> QED BY <2>1, <2>2 DEF BitBytes, FreeBits, BitByte, Reserved, Nth
<1>2. Addr(top - 1)' = Addr(top - 1)
  BY DEF Addr
<1> QED BY <1>1, <1>2, SameProgram DEF RamEnd

LEMMA StartupMachine ==
  ASSUME PlaceInv, MachineInv, Startup
  PROVE  MachineInv'
<1>1. /\ PhaseInv /\ phase \in Complete
      /\ UNCHANGED <<prog, moved, phys, bitTotal, top, globalsEnd>>
  <2>1. PhaseInv
    BY DEF PlaceInv
  <2>2. phase \in Complete /\ UNCHANGED <<prog, moved, ctx, fr, cursor, endOf, top, ctxEnd, results>>
    BY <2>1, StartupPhase
  <2> QED BY <2>1, <2>2 DEF results
<1>2. RamTop' = RamTop /\ DirectTop' = DirectTop /\ RamEnd' = RamEnd
  BY <1>1, SameProgram, RamEndStays
<1>3. RamTop \in Nat /\ RamEnd \in Nat \ {0} /\ RamTop > 0
  BY <1>1, ProgramSizes, SizesAssumption, RamEndPlace DEF PhaseInv, Basic
<1>4. CASE Boot
  <2>1. ClearEnd \in Nat /\ ClearEnd <= RamTop
    BY <1>1, ClearEndPlace DEF MachineInv
  <2>2. r0' \in 0 .. RamTop - 1
    BY <1>3, <1>4, <2>1 DEF Boot
  <2>3. sp' = RamEnd - 1 /\ mem' = mem /\ phase' = "clear"
    BY <1>4 DEF Boot
  <2> QED BY <1>1, <1>2, <1>3, <2>2, <2>3 DEF MachineInv
<1>5. CASE ClearByte
  <2>1. r0 > 0 /\ mem' = [mem EXCEPT ![r0] = 0] /\ r0' = r0 - 1 /\ sp' = sp /\ phase' = phase
    BY <1>5 DEF ClearByte
  <2>2. mem' \in [0 .. RamTop - 1 -> Byte \cup {Junk}]
    BY <2>1 DEF MachineInv, Byte
  <2>3. r0' \in 0 .. RamTop - 1
    BY <1>3, <2>1 DEF MachineInv
  <2> QED BY <1>1, <1>2, <2>1, <2>2, <2>3 DEF MachineInv
<1>6. CASE EndClear
  <2>1. UNCHANGED <<mem, r0, sp>> /\ phase = "clear" /\ phase' = "init"
    BY <1>6 DEF EndClear, machine
  <2> QED BY <1>1, <1>2, <2>1 DEF MachineInv
<1>7. CASE WriteInit
  <2>1. UNCHANGED <<phase, r0, sp>>
    BY <1>7 DEF WriteInit
  <2>2. mem' \in [0 .. RamTop - 1 -> Byte \cup {Junk}]
    BY <1>7, WriteEffect
  <2> QED BY <1>1, <1>2, <2>1, <2>2 DEF MachineInv
<1>8. CASE StartMain
  <2>1. UNCHANGED <<mem, r0, sp>> /\ phase = "init" /\ phase' = "run"
    BY <1>8 DEF StartMain, machine
  <2> QED BY <1>1, <1>2, <2>1 DEF MachineInv
<1> QED BY <1>4, <1>5, <1>6, <1>7, <1>8 DEF Startup

LEMMA NextMachine == PlaceInv /\ MachineInv /\ [Next]_vars => MachineInv'
<1> SUFFICES ASSUME PlaceInv, MachineInv, [Next]_vars PROVE MachineInv'
  OBVIOUS
<1>1. CASE Layout
  BY <1>1, LayoutMachine
<1>2. CASE Startup
  BY <1>2, StartupMachine
<1>3. CASE UNCHANGED vars
  <2>1. UNCHANGED <<prog, moved, phase, phys, bitTotal, top, globalsEnd, mem, r0, sp>>
    BY <1>3 DEF vars, cursors, results, machine
  <2>2. RamTop' = RamTop /\ DirectTop' = DirectTop /\ RamEnd' = RamEnd
    BY <2>1, SameProgram, RamEndStays
  <2> QED BY <2>1, <2>2 DEF MachineInv
<1> QED BY <1>1, <1>2, <1>3 DEF Next

LEMMA MachineCorrect == Spec => [](PlaceInv /\ MachineInv)
<1>1. Init => PlaceInv /\ MachineInv
  BY InitPlaced, InitMachine
<1>2. PlaceInv /\ MachineInv /\ [Next]_vars => (PlaceInv /\ MachineInv)'
  BY NextPlaced, NextMachine
<1> QED BY <1>1, <1>2, PTL DEF Spec

LEMMA LayoutTypes == PlaceInv /\ MachineInv => TypeOK
<1> SUFFICES ASSUME PlaceInv, MachineInv PROVE TypeOK
  OBVIOUS
<1>1. PhaseInv /\ Basic /\ TableInv
  BY DEF PlaceInv, PhaseInv
<1>2. phase \in Area \cup {"exhausted", "failed", "boot", "clear", "init", "run"}
  BY <1>1 DEF Basic, Complete
<1>3. \A o \in placed : o.at \in Nat /\ o.size \in Nat \ {0}
  BY PlacedWhere
<1>4. phys \in Seq(0 .. DirectTop - 1)
  <2>1. CASE Tabled
    BY <1>1, <2>1, Table DEF Basic
  <2>2. CASE phys = <<>>
    <3>1. PICK D : D = 0 .. DirectTop - 1
      OBVIOUS
    <3>2. <<>> \in Seq(D)
      OBVIOUS
    <3> QED BY <2>2, <3>1, <3>2
  <2> QED BY <1>1, <2>1, <2>2 DEF TableInv
<1> QED BY <1>1, <1>2, <1>3, <1>4 DEF TypeOK, Basic, TableInv, MachineInv

\* Every variable keeps its type, the clear loop's register and the addresses
\* in RAM included.
THEOREM TypeCorrect == Spec => []TypeOK
BY MachineCorrect, LayoutTypes, PTL

LEMMA StackAbove == PlaceInv /\ MachineInv => StackClear
<1> SUFFICES ASSUME PlaceInv, MachineInv, phase = "run" PROVE StackClear
  BY DEF StackClear
<1>1. /\ PhaseInv /\ phase \in Complete /\ sp + 1 = RamEnd /\ sp \in Nat
  BY DEF PlaceInv, MachineInv, Complete
<1>2. /\ IsProgram(prog) /\ Tabled /\ upperTop \in 0 .. RamTop - DirectTop /\ top \in Nat
      /\ top <= Capacity /\ bitTotal \in Nat /\ bitTotal <= Cardinality(FreeBits)
  BY <1>1 DEF PhaseInv, Basic, TableInv
<1>3. /\ RamEnd \in Nat \ {0} /\ RamEnd <= DirectTop
      /\ bitTotal > 0 => BitLo + BitBytes(bitTotal) <= RamEnd
      /\ top # 0 => Addr(top - 1) + 1 <= RamEnd
  BY <1>1, RamEndPlace
<1>4. RamTop \in Nat /\ DirectTop \in Nat /\ DirectTop <= RamTop
  BY <1>2, ProgramSizes
<1>5. sp + 1 <= UpperStart
  BY <1>1, <1>2, <1>3, <1>4 DEF UpperStart
<1>6. ASSUME NEW o \in Objects PROVE o.at + o.size <= sp + 1 \/ o.at >= UpperStart
  <2>1. /\ o \in placed /\ AreaOf(o.name) # "bits" /\ AreaOf(o.name) \in Area /\ Known(o)
        /\ o.at \in Nat
    BY PlacedWhere DEF Objects, Bits
  <2>2. Sized(AreaOf(o.name), o)
    BY <1>1, <2>1, KnownFacts
  <2>3. PICK n \in Nat \ {0} : n = o.size
    BY <2>2 DEF Sized
  <2>4. CASE AreaOf(o.name) = "upper"
    <3>1. Below("upper", o, upperTop)
      BY <1>1, <2>1, <2>4 DEF PlaceInv, PastInv, PastOf
    <3>2. PICK v \in Nat : v + o.size <= upperTop /\ Lies("upper", o, v)
      BY <3>1 DEF Below
    <3>3. o.at = RamTop - (v + n)
      BY <1>2, <2>2, <2>3, <2>4, <3>2, LiesUpper
    <3> QED BY <1>2, <1>4, <2>3, <3>2, <3>3 DEF UpperStart
  <2>5. CASE AreaOf(o.name) = "direct"
    <3>1. Below("direct", o, top)
      BY <1>1, <2>1, <2>5 DEF PlaceInv, PastInv, PastOf
    <3>2. PICK v \in Nat : v + o.size <= top /\ Lies("direct", o, v)
      BY <3>1 DEF Below
    <3>3. o.at + n - 1 = Addr(v + n - 1)
      BY <1>2, <2>2, <2>3, <2>5, <3>2, LiesDirect
    <3>4. Capacity \in Nat
      BY <1>2, Table
    <3>5. /\ v + n - 1 \in 0 .. Capacity - 1 /\ top - 1 \in 0 .. Capacity - 1 /\ top # 0
          /\ (v + n - 1 = top - 1 \/ v + n - 1 < top - 1)
      BY <1>2, <2>3, <3>2, <3>4
    <3>6. Addr(v + n - 1) <= Addr(top - 1) /\ Addr(top - 1) \in Nat
      <4>1. Addr(v + n - 1) \in Nat /\ Addr(top - 1) \in Nat
        BY <1>2, <3>5, Table
      <4>2. v + n - 1 < top - 1 => Addr(v + n - 1) < Addr(top - 1)
        BY <1>2, <3>5, Table
      <4> QED BY <3>5, <4>1, <4>2
    <3> QED BY <1>1, <1>3, <2>1, <2>3, <3>3, <3>5, <3>6
  <2> QED BY <2>1, <2>4, <2>5, AreaNames
<1>7. ASSUME NEW b \in Bits PROVE BitByte(b.at) <= sp
  <2>1. BitByte(b.at) \in UsedBits
    <3>1. Reachable
      BY LayoutReachable
    <3> QED BY <3>1 DEF Reachable
  <2>2. BitBytes(bitTotal) \in Nat
    BY <1>2, BitBytesBound
  <2>3. BitByte(b.at) \in Nat /\ BitByte(b.at) < BitLo + BitBytes(bitTotal) /\ BitBytes(bitTotal) # 0
    BY <2>1, <2>2, SizesAssumption DEF UsedBits, BytesFrom
  <2>4. bitTotal > 0
    BY <1>2, <2>3 DEF BitBytes
  <2> QED BY <1>1, <1>3, <2>2, <2>3, <2>4, SizesAssumption
<1> QED BY <1>5, <1>6, <1>7 DEF StackClear

\* When main starts the stack lies behind all directly addressed data and bits,
\* and below the objects in upper RAM (layout.rs:43).
THEOREM StackClearCorrect == Spec => []StackClear
BY MachineCorrect, StackAbove, PTL

-----------------------------------------------------------------------------
(***************************************************************************)
(* What RAM holds when main starts.                                        *)
(***************************************************************************)
\* Objects at fixed addresses that have initializers do not overlap.
FixedApart(p) ==
  \A x, y \in 1 .. Len(p.fixed) :
    x # y /\ p.fixed[x].init # <<>> /\ p.fixed[y].init # <<>> =>
      BytesFrom(p.fixed[x].at, p.fixed[x].size) \cap BytesFrom(p.fixed[y].at, p.fixed[y].size) = {}

\* The programs of FixedSpec whose own initializers do not contradict each other.
TidySpec == FixedSpec /\ FixedApart(prog)

\* Address a is to hold v when main starts: as a byte of a global, of global
\* bits, or of an object at a fixed address.
OwedGlobal(a, v) ==
  \E o \in Globals : \E k \in 1 .. o.size :
    /\ UpperGlobal(o.name[3]) => ClearsUpper
    /\ a = o.at + k - 1 /\ v = InitialByte(o.name[3], k)
OwedBit(a, v) ==
  \E b \in Bits : Owner(b) = 0 /\ Reserved \cap BitLo .. BitHi - 1 = {} /\ a = BitByte(b.at) /\ v = 0
OwedFixed(a, v) ==
  \E x \in 1 .. Len(prog.fixed) : \E k \in 1 .. Len(prog.fixed[x].init) :
    a = prog.fixed[x].at + k - 1 /\ v = prog.fixed[x].init[k] /\ v # 0
Owed(a, v) == OwedGlobal(a, v) \/ OwedBit(a, v) \/ OwedFixed(a, v)

\* Initializer i writes v at a; one still to come does.
Writes(i, a, v) ==
  \E k \in 1 .. Len(Initializers[i].init) :
    a = Initializers[i].at + k - 1 /\ v = Initializers[i].init[k] /\ v # 0
Pending(a, v) == \E i \in todo + 1 .. Len(Initializers) : Writes(i, a, v)

\* What the clear loop has passed is zero.  Then every byte that is owed a
\* value has it, or a write of that value is still to come.
ClearedInv ==
  phase = "clear" =>
    \A a \in 1 .. RamTop - 1 : NeedsClear /\ a < ClearEnd /\ r0 < a => mem[a] = 0
OwedInv ==
  phase \in {"init", "run"} =>
    \A a \in 0 .. RamTop - 1, v \in Byte :
      Owed(a, v) => mem[a] = v \/ (phase = "init" /\ Pending(a, v))
MemoryInv == ClearedInv /\ OwedInv

LEMMA GlobalShape ==
  ASSUME PlaceInv, NEW o \in Globals
  PROVE  /\ o \in placed /\ o \in Objects /\ o.name[3] \in 1 .. Len(prog.globals)
         /\ o.name = <<"object", 0, o.name[3]>> /\ o.size = prog.globals[o.name[3]].size
         /\ AreaOf(o.name) = IF UpperGlobal(o.name[3]) THEN "upper" ELSE "direct"
<1>1. o \in placed /\ o \in Objects /\ Owner(o) = 0 /\ o.name[1] # "bit"
  BY DEF Globals, Objects, Bits
<1>2. PhaseInv /\ Known(o)
  BY <1>1 DEF PlaceInv, KnownInv
<1>3. IsItem(AreaOf(o.name), 0, o) /\ AreaOf(o.name) # "bits"
  BY <1>1, <1>2, KnownFacts
<1>4. PICK g \in 1 .. Len(prog.globals) : o.name = <<"object", 0, g>> /\ o.size = prog.globals[g].size
  BY <1>3 DEF IsItem
<1>5. o.name[1] = "object" /\ o.name[2] = 0 /\ o.name[3] = g
  BY <1>4
<1>6. AreaOf(o.name) = IF UpperGlobal(g) THEN "upper" ELSE "direct"
  BY <1>5 DEF AreaOf, IsUpper
<1> QED BY <1>1, <1>4, <1>5, <1>6

LEMMA FixedBytes ==
  ASSUME IsProgram(prog), NEW x \in 1 .. Len(prog.fixed), NEW k \in 1 .. Len(prog.fixed[x].init)
  PROVE  /\ x \in StartedFixed /\ prog.fixed[x].init[k] \in Byte
         /\ prog.fixed[x].at + k - 1 \in BytesFrom(prog.fixed[x].at, prog.fixed[x].size)
         /\ prog.fixed[x].at + k - 1 \in Reserved
<1>1. PICK s : s = prog.fixed[x].init
  OBVIOUS
<1>2. PICK B : B = Byte
  OBVIOUS
<1>3. /\ s \in Seq(B) /\ Len(s) \in {0, prog.fixed[x].size}
      /\ prog.fixed[x].at \in Nat /\ prog.fixed[x].size \in Nat \ {0}
  BY <1>1, <1>2, ProgramShape
<1>4. k \in 1 .. Len(s) /\ Len(s) \in Nat /\ s # <<>> /\ s[k] \in B
  BY <1>1, <1>3
<1>5. k \in 1 .. prog.fixed[x].size
  BY <1>3, <1>4
<1>6. prog.fixed[x].at + k - 1 \in BytesFrom(prog.fixed[x].at, prog.fixed[x].size)
  BY <1>3, <1>5 DEF BytesFrom
<1> QED BY <1>1, <1>2, <1>4, <1>6 DEF StartedFixed, Reserved

\* The bytes of the initializer of a global are the bytes of its object.
LEMMA GlobalBytes ==
  ASSUME PlaceInv, NEW o \in Globals, NEW k \in 1 .. o.size
  PROVE  LET g == o.name[3]
         IN /\ o.at + k - 1 \in BytesOf(o) /\ o.at + k - 1 \in 0 .. RamTop - 1
            /\ InitialByte(g, k) \in Byte
            /\ InitialByte(g, k) # 0 => g \in StartedGlobals /\ k \in 1 .. Len(prog.globals[g].init)
            /\ InitialByte(g, k) = 0 => NeedsClear
<1> DEFINE g == o.name[3]
<1>1. o \in placed /\ g \in 1 .. Len(prog.globals) /\ o.size = prog.globals[g].size
  BY GlobalShape
<1>2. /\ IsProgram(prog) /\ o.at \in Nat /\ o.size \in Nat \ {0} /\ AreaOf(o.name) \in Area
      /\ AreaOf(o.name) # "bits"
  BY <1>1, PlacedWhere DEF Globals, Objects, Bits
<1>3. o.at + o.size <= RamTop
  <2>1. RamTop \in Nat /\ DirectTop \in Nat /\ DirectTop <= RamTop
    BY <1>2, ProgramSizes
  <2>2. o.at + o.size <= RamTop \/ o.at + o.size <= DirectTop
    BY <1>1, <1>2, PlacedWhere, AreaNames
  <2> QED BY <1>2, <2>1, <2>2
<1>4. o.at + k - 1 \in BytesOf(o) /\ o.at + k - 1 \in 0 .. RamTop - 1
  <2>1. RamTop \in Nat
    BY <1>2, ProgramSizes
  <2> QED BY <1>2, <1>3, <2>1 DEF BytesOf, BytesFrom
<1>5. PICK s : s = prog.globals[g].init
  OBVIOUS
<1>6. PICK B : B = Byte
  OBVIOUS
<1>7. s \in Seq(B) /\ Len(s) \in {0, o.size}
  BY <1>1, <1>2, <1>5, <1>6, ProgramShape
<1>8. s # <<>> => Len(s) = o.size /\ k \in 1 .. Len(s) /\ s[k] \in B
  BY <1>2, <1>7
<1>9. InitialByte(g, k) = IF s = <<>> THEN 0 ELSE s[k]
  BY <1>5 DEF InitialByte
<1> HIDE DEF g
<1>10. InitialByte(g, k) \in Byte
  BY <1>6, <1>8, <1>9 DEF Byte
<1>11. InitialByte(g, k) # 0 => g \in StartedGlobals /\ k \in 1 .. Len(prog.globals[g].init)
  BY <1>1, <1>5, <1>8, <1>9 DEF StartedGlobals
<1>12. InitialByte(g, k) = 0 => NeedsClear
  <2>1. InitialByte(g, k) = 0 /\ s # <<>> => HasZero(s)
    BY <1>8, <1>9 DEF HasZero
  <2> QED BY <1>1, <1>5, <2>1 DEF NeedsClear
<1> QED BY <1>4, <1>10, <1>11, <1>12 DEF g

\* A global bit, if nothing is fixed in the bit area, has its number from the
\* program, and its byte is one the clear loop reaches.
LEMMA BitCleared ==
  ASSUME PlaceInv, MachineInv, phase \in Complete, Reserved \cap BitLo .. BitHi - 1 = {},
         NEW b \in Bits, Owner(b) = 0
  PROVE  /\ prog.bits > 0 /\ NeedsClear
         /\ BitByte(b.at) \in 1 .. RamTop - 1 /\ BitByte(b.at) < ClearEnd
<1>1. /\ b \in placed /\ AreaOf(b.name) = "bits" /\ Known(b) /\ IsProgram(prog) /\ PhaseInv
      /\ b.at \in Nat /\ BitByte(b.at) \in BitLo .. BitHi - 1
  BY PlacedWhere DEF Bits, PlaceInv
<1>2. Below("bits", b, prog.bits)
  BY <1>1 DEF PlaceInv, PastInv, PastOf
<1>3. PICK v \in Nat : v + b.size <= prog.bits /\ Lies("bits", b, v)
  BY <1>2 DEF Below
<1>4. b.size = 1 /\ b.at = Nth(FreeBits, v) /\ v \in 0 .. Cardinality(FreeBits) - 1
  <2>1. Sized("bits", b)
    BY <1>1, KnownFacts
  <2> QED BY <1>3, <2>1, LiesBit
<1>5. v < prog.bits /\ prog.bits \in Nat /\ prog.bits > 0
  BY <1>1, <1>3, <1>4, ProgramSizes
<1>6. b.at = v
  <2>1. FreeBits \in SUBSET Nat /\ IsFiniteSet(FreeBits) /\ b.at \in FreeBits /\ Count(FreeBits, b.at) = v
    BY <1>4, FreeBitsFinite, NthMember
  <2>2. \A c \in Nat : c < b.at => c \in FreeBits
    <3> SUFFICES ASSUME NEW c \in Nat, c < b.at PROVE c \in FreeBits
      OBVIOUS
    <3> DEFINE t == (BitHi - BitLo) * ByteBits
    <3>1. t \in Nat
      BY SizesAssumption
    <3>2. b.at \in 0 .. t - 1
      BY <2>1 DEF FreeBits
    <3> HIDE DEF t
    <3>3. c \in 0 .. t - 1
      BY <1>1, <3>1, <3>2
    <3>4. BitByte(c) \in BitLo .. BitHi - 1
      <4>1. c \div ByteBits <= b.at \div ByteBits /\ c \div ByteBits \in Nat /\ b.at \div ByteBits \in Nat
        BY <1>1, SizesAssumption, Division, DivisionOrder
      <4>2. PICK p \in Nat : p = c \div ByteBits
        BY <4>1
      <4>3. PICK q \in Nat : q = b.at \div ByteBits
        BY <4>1
      <4>4. p <= q /\ BitLo + q \in BitLo .. BitHi - 1
        BY <1>1, <4>1, <4>2, <4>3 DEF BitByte
      <4>5. BitLo + p \in BitLo .. BitHi - 1
        BY <4>4, SizesAssumption
      <4> QED BY <4>2, <4>5 DEF BitByte
    <3> QED BY <3>3, <3>4 DEF FreeBits, t
  <2>3. {y \in FreeBits : y < b.at} = 0 .. b.at - 1
    <3>1. \A y \in FreeBits : y \in Nat
      BY <2>1
    <3> QED BY <1>1, <2>2, <3>1
  <2>4. Cardinality(0 .. b.at - 1) = b.at
    <3>1. PICK n \in Nat : n = b.at
      BY <1>1
    <3>2. Cardinality(0 .. n - 1) = IF 0 > n - 1 THEN 0 ELSE n - 1 - 0 + 1
      BY FS_Interval
    <3> QED BY <3>1, <3>2
  <2> QED BY <2>1, <2>3, <2>4 DEF Count
<1> DEFINE n == (prog.bits + ByteBits - 1) \div ByteBits
           d == b.at \div ByteBits
<1>7. n \in Nat /\ d < n /\ d \in Nat
  BY <1>1, <1>5, <1>6, BitsFit
<1>8. ClearEnd \in Nat /\ BitLo + n <= ClearEnd
  BY <1>1, <1>5, ClearEndPlace DEF MachineInv
<1>9. BitByte(b.at) = BitLo + d
  BY DEF BitByte
<1> HIDE DEF n, d
<1>10. BitByte(b.at) < ClearEnd
  BY <1>7, <1>8, <1>9, SizesAssumption
<1>11. BitByte(b.at) \in 1 .. RamTop - 1
  <2>1. RamTop \in Nat /\ BitHi <= RamTop
    BY <1>1, ProgramSizes
  <2> QED BY <1>1, <2>1, SizesAssumption
<1> QED BY <1>5, <1>10, <1>11 DEF NeedsClear

\* A byte that is owed zero is one the clear loop reaches.
LEMMA OwedZero ==
  ASSUME PlaceInv, MachineInv, FixedLow(prog), phase \in Complete, NEW a, Owed(a, 0)
  PROVE  a \in 1 .. RamTop - 1 /\ NeedsClear /\ a < ClearEnd
<1>1. CASE OwedBit(a, 0)
  BY <1>1, BitCleared DEF OwedBit
<1>2. CASE OwedGlobal(a, 0)
  <2>1. PICK o \in Globals : \E k \in 1 .. o.size :
          /\ UpperGlobal(o.name[3]) => ClearsUpper
          /\ a = o.at + k - 1 /\ 0 = InitialByte(o.name[3], k)
    BY <1>2 DEF OwedGlobal
  <2>2. PICK k \in 1 .. o.size : /\ UpperGlobal(o.name[3]) => ClearsUpper
                                 /\ a = o.at + k - 1 /\ 0 = InitialByte(o.name[3], k)
    BY <2>1
  <2>3. a \in BytesOf(o) /\ a \in 0 .. RamTop - 1 /\ NeedsClear
    BY <2>2, GlobalBytes
  <2>4. IsProgram(prog) /\ PhaseInv /\ o \in placed /\ o \in Objects /\ Owner(o) = 0
    BY GlobalShape DEF PlaceInv, PhaseInv, Basic, Globals
  <2>5. RegEnd \in Nat /\ RamTop \in Nat /\ BankBytes <= RegEnd
    BY <2>4, ProgramSizes
  <2>6. a \in 1 .. RamTop - 1
    <3>1. a \in RegEnd .. RamTop - 1
      BY <2>3, <2>4, LayoutApart DEF Apart
    <3> QED BY <2>5, <3>1, SizesAssumption
  <2>7. ClearEnd \in Nat /\ globalsEnd <= ClearEnd /\ (ClearsUpper => RamTop <= ClearEnd) /\ globalsEnd \in Nat
    BY <2>4, ClearEndPlace DEF MachineInv
  <2>8. CASE UpperGlobal(o.name[3])
    BY <2>2, <2>3, <2>5, <2>6, <2>7, <2>8
  <2>9. CASE ~UpperGlobal(o.name[3])
    <3>1. AreaOf(o.name) = "direct"
      BY <2>9, GlobalShape
    <3>2. o.at + o.size <= globalsEnd
      BY <2>4, <3>1 DEF PlaceInv, PastInv, PastOf
    <3>3. o.at \in Nat /\ o.size \in Nat
      BY <2>4, PlacedWhere
    <3> QED BY <2>2, <2>3, <2>6, <2>7, <3>2, <3>3
  <2> QED BY <2>8, <2>9
<1> QED BY <1>1, <1>2 DEF Owed, OwedFixed

\* A byte that is owed another value is written.
LEMMA OwedOther ==
  ASSUME PlaceInv, phase \in Complete, NEW a, NEW v, Owed(a, v), v # 0
  PROVE  \E i \in 1 .. Len(Initializers) : Writes(i, a, v)
<1>1. CASE OwedGlobal(a, v)
  <2>1. PICK o \in Globals : \E k \in 1 .. o.size : a = o.at + k - 1 /\ v = InitialByte(o.name[3], k)
    BY <1>1 DEF OwedGlobal
  <2>2. PICK k \in 1 .. o.size : a = o.at + k - 1 /\ v = InitialByte(o.name[3], k)
    BY <2>1
  <2>3. PICK g : g = o.name[3]
    OBVIOUS
  <2>4. g \in StartedGlobals /\ k \in 1 .. Len(prog.globals[g].init)
    BY <2>2, <2>3, GlobalBytes
  <2>5. PICK i \in 1 .. Len(Initializers) : OfGlobal(Initializers[i], g)
    BY <2>4, InitializersShape
  <2>6. PICK q \in placed : /\ q.name = <<"object", 0, g>> /\ Initializers[i].at = q.at
                            /\ Initializers[i].init = prog.globals[g].init
    BY <2>5 DEF OfGlobal
  <2>7. q = o
    <3>1. o \in placed /\ o.name = <<"object", 0, g>>
      BY <2>3, GlobalShape
    <3> QED BY <2>6, <3>1 DEF PlaceInv, KnownInv
  <2>8. v = prog.globals[g].init[k]
    BY <1>1, <2>2, <2>3, <2>4 DEF InitialByte, StartedGlobals
  <2>9. Writes(i, a, v)
    BY <2>2, <2>4, <2>6, <2>7, <2>8 DEF Writes
  <2> QED BY <2>9
<1>2. CASE OwedFixed(a, v)
  <2>1. PICK x \in 1 .. Len(prog.fixed) : \E k \in 1 .. Len(prog.fixed[x].init) :
          a = prog.fixed[x].at + k - 1 /\ v = prog.fixed[x].init[k]
    BY <1>2 DEF OwedFixed
  <2>2. PICK k \in 1 .. Len(prog.fixed[x].init) : a = prog.fixed[x].at + k - 1 /\ v = prog.fixed[x].init[k]
    BY <2>1
  <2>3. x \in StartedFixed
    BY FixedBytes DEF PlaceInv, PhaseInv, Basic
  <2>4. PICK i \in 1 .. Len(Initializers) : OfFixed(Initializers[i], x)
    BY <2>3, InitializersShape
  <2>5. Writes(i, a, v)
    BY <2>2, <2>4 DEF Writes, OfFixed
  <2> QED BY <2>5
<1> QED BY <1>1, <1>2 DEF Owed, OwedBit

\* No write brings another value than the one that is owed.
LEMMA OwedAgree ==
  ASSUME PlaceInv, FixedLow(prog), FixedApart(prog), phase \in Complete, NEW a, NEW v, Owed(a, v),
         NEW i \in 1 .. Len(Initializers), NEW w, Writes(i, a, w)
  PROVE  v = w
<1>1. IsProgram(prog) /\ Apart /\ Reachable
  BY LayoutApart, LayoutReachable DEF PlaceInv, PhaseInv, Basic
<1>2. PICK j : j = Initializers[i]
  OBVIOUS
<1>3. PICK k \in 1 .. Len(j.init) : a = j.at + k - 1 /\ w = j.init[k]
  BY <1>2 DEF Writes
<1>4. \A x \in 1 .. Len(prog.fixed) : \A l \in 1 .. Len(prog.fixed[x].init) :
        prog.fixed[x].at + l - 1 \in Reserved
  BY <1>1, FixedBytes
<1>5. CASE \E g \in StartedGlobals : OfGlobal(j, g)
  <2>1. PICK g \in StartedGlobals : OfGlobal(j, g)
    BY <1>5
  <2>2. PICK q \in placed : q.name = <<"object", 0, g>> /\ j.at = q.at /\ j.init = prog.globals[g].init
    BY <2>1 DEF OfGlobal
  <2>3. q \in Globals /\ q.name[3] = g
    BY <2>2 DEF Globals, Objects, Bits, Owner
  <2>4. k \in 1 .. q.size /\ a \in BytesOf(q) /\ q \in Objects
    <3>1. prog.globals[g].init \in Seq(Byte) /\ Len(prog.globals[g].init) \in {0, q.size} /\ q.size \in Nat
      BY <1>1, <2>2, <2>3, GlobalShape, ProgramShape
    <3>2. k \in 1 .. q.size
      BY <1>3, <2>2, <3>1
    <3> QED BY <1>3, <2>2, <2>3, <3>2, GlobalBytes, GlobalShape
  <2>5. w = InitialByte(g, k)
    BY <1>3, <2>1, <2>2 DEF InitialByte, StartedGlobals
  <2>6. a \notin Reserved /\ a \notin UsedBits
    BY <1>1, <2>4 DEF Apart
  <2>7. CASE OwedGlobal(a, v)
    <3>1. PICK o \in Globals : \E l \in 1 .. o.size : a = o.at + l - 1 /\ v = InitialByte(o.name[3], l)
      BY <2>7 DEF OwedGlobal
    <3>2. PICK l \in 1 .. o.size : a = o.at + l - 1 /\ v = InitialByte(o.name[3], l)
      BY <3>1
    <3>3. a \in BytesOf(o) /\ o \in Objects /\ o \in placed /\ o.at \in Nat
      BY <3>2, GlobalBytes, GlobalShape, PlacedWhere
    <3>4. o.name = q.name
      <4>1. LiveTogether(Owner(o), Owner(q))
        BY DEF LiveTogether, Globals
      <4>2. o.name # q.name => BytesOf(o) \cap BytesOf(q) = {}
        BY <1>1, <2>4, <3>3, <4>1 DEF Apart
      <4> QED BY <2>4, <3>3, <4>2
    <3>5. o = q
      BY <2>2, <3>3, <3>4 DEF PlaceInv, KnownInv
    <3>6. l = k
      BY <1>3, <2>2, <2>4, <3>2, <3>3, <3>5
    <3> QED BY <2>3, <2>5, <3>2, <3>5, <3>6
  <2>8. CASE OwedBit(a, v)
    <3>1. a \in UsedBits
      BY <1>1, <2>8 DEF OwedBit, Reachable, Complete
    <3> QED BY <2>6, <3>1
  <2>9. CASE OwedFixed(a, v)
    BY <1>4, <2>6, <2>9 DEF OwedFixed
  <2> QED BY <2>7, <2>8, <2>9 DEF Owed
<1>6. CASE \E x \in StartedFixed : OfFixed(j, x)
  <2>1. PICK x \in StartedFixed : OfFixed(j, x)
    BY <1>6
  <2>2. /\ x \in 1 .. Len(prog.fixed) /\ prog.fixed[x].init # <<>> /\ k \in 1 .. Len(prog.fixed[x].init)
        /\ a = prog.fixed[x].at + k - 1 /\ w = prog.fixed[x].init[k]
    BY <1>3, <2>1 DEF OfFixed, StartedFixed
  <2>3. a \in Reserved
    BY <1>4, <2>2
  <2>4. CASE OwedGlobal(a, v)
    <3>1. PICK o \in Globals : \E l \in 1 .. o.size : a = o.at + l - 1
      BY <2>4 DEF OwedGlobal
    <3>2. a \in BytesOf(o) /\ o \in Objects
      BY <3>1, GlobalBytes, GlobalShape
    <3> QED BY <1>1, <2>3, <3>2 DEF Apart
  <2>5. CASE OwedBit(a, v)
    BY <1>1, <2>3, <2>5 DEF OwedBit, Apart
  <2>6. CASE OwedFixed(a, v)
    <3>1. PICK y \in 1 .. Len(prog.fixed) : \E l \in 1 .. Len(prog.fixed[y].init) :
            a = prog.fixed[y].at + l - 1 /\ v = prog.fixed[y].init[l]
      BY <2>6 DEF OwedFixed
    <3>2. PICK l \in 1 .. Len(prog.fixed[y].init) : a = prog.fixed[y].at + l - 1 /\ v = prog.fixed[y].init[l]
      BY <3>1
    <3>3. /\ a \in BytesFrom(prog.fixed[x].at, prog.fixed[x].size)
          /\ a \in BytesFrom(prog.fixed[y].at, prog.fixed[y].size)
          /\ prog.fixed[y].init # <<>>
      BY <1>1, <2>2, <3>2, FixedBytes DEF StartedFixed
    <3>4. x = y
      BY <2>2, <3>3 DEF FixedApart
    <3>5. k = l
      <4>1. prog.fixed[x].at \in Nat
        BY <1>1, <2>2, ProgramShape
      <4> QED BY <2>2, <3>2, <3>4, <4>1
    <3> QED BY <2>2, <3>2, <3>4, <3>5
  <2> QED BY <2>4, <2>5, <2>6 DEF Owed
<1> QED BY <1>2, <1>5, <1>6, InitializersShape

LEMMA SameStart ==
  ASSUME prog' = prog, moved' = moved, results' = results
  PROVE  /\ Initializers' = Initializers
         /\ NeedsClear' = NeedsClear /\ ClearEnd' = ClearEnd
         /\ \A a, v : Owed(a, v)' = Owed(a, v)
<1>1. UNCHANGED <<placed, bitTotal, upperTop, phys, globalsEnd>>
  BY DEF results
<1>2. /\ RamTop' = RamTop /\ Reserved' = Reserved
      /\ \A g : UpperGlobal(g)' = UpperGlobal(g)
  BY SameProgram
<1>3. NeedsClear' = NeedsClear
  BY DEF NeedsClear
<1>4. ClearsUpper' = ClearsUpper
  BY <1>1, <1>2 DEF ClearsUpper, UpperStart
<1>5. ClearEnd' = ClearEnd
  BY <1>1, <1>2, <1>4 DEF ClearEnd
<1>6. Initializers' = Initializers
  BY <1>1 DEF Initializers, InOrder, AddressOf
<1>7. Globals' = Globals /\ Bits' = Bits
  BY <1>1 DEF Globals, Objects, Bits
<1>8. \A a, v : OwedGlobal(a, v)' = OwedGlobal(a, v)
  BY <1>2, <1>4, <1>7 DEF OwedGlobal, InitialByte
<1>9. \A a, v : OwedBit(a, v)' = OwedBit(a, v)
  BY <1>2, <1>7 DEF OwedBit
<1>10. \A a, v : OwedFixed(a, v)' = OwedFixed(a, v)
  BY DEF OwedFixed
<1> QED BY <1>3, <1>5, <1>6, <1>8, <1>9, <1>10 DEF Owed

LEMMA StartupMemory ==
  ASSUME PlaceInv, MachineInv, FixedLow(prog), FixedApart(prog), MemoryInv, Startup
  PROVE  MemoryInv'
<1>1. phase \in Complete /\ UNCHANGED <<prog, moved, results>>
  <2>1. PhaseInv
    BY DEF PlaceInv
  <2> QED BY <2>1, StartupPhase
<1>2. /\ Initializers' = Initializers /\ NeedsClear' = NeedsClear /\ ClearEnd' = ClearEnd
      /\ RamTop' = RamTop /\ \A a, v : Owed(a, v)' = Owed(a, v)
  BY <1>1, SameStart, SameProgram
<1>3. /\ RamTop \in Nat /\ RamTop > 0 /\ r0 \in 0 .. RamTop - 1
      /\ mem \in [0 .. RamTop - 1 -> Byte \cup {Junk}] /\ ClearEnd \in Nat /\ ClearEnd <= RamTop
      /\ Len(Initializers) \in Nat /\ todo \in Nat
  BY <1>1, ProgramSizes, SizesAssumption, ClearEndPlace, InitializersShape
     DEF PlaceInv, PhaseInv, Basic, MachineInv
<1>4. CASE Boot
  <2>1. phase' = "clear" /\ r0' = IF NeedsClear /\ ClearEnd > 1 THEN ClearEnd - 1 ELSE 0
    BY <1>4 DEF Boot
  <2>2. \A a \in 1 .. RamTop - 1 : ~(NeedsClear /\ a < ClearEnd /\ r0' < a)
    BY <1>3, <2>1
  <2>3. ClearedInv'
    BY <1>2, <2>2 DEF ClearedInv
  <2> QED BY <2>1, <2>3 DEF MemoryInv, OwedInv
<1>5. CASE ClearByte
  <2>1. /\ phase = "clear" /\ phase' = "clear" /\ r0 > 0 /\ r0' = r0 - 1
        /\ mem' = [mem EXCEPT ![r0] = 0]
    BY <1>5 DEF ClearByte
  <2>2. ASSUME NEW a \in 1 .. RamTop - 1, NeedsClear, a < ClearEnd, r0' < a PROVE mem'[a] = 0
    <3>1. a \in 0 .. RamTop - 1
      BY <1>3
    <3>2. CASE a = r0
      BY <1>3, <2>1, <3>1, <3>2
    <3>3. CASE a # r0
      <4>1. r0 < a
        BY <1>3, <2>1, <2>2, <3>3
      <4>2. mem[a] = 0
        BY <2>1, <2>2, <4>1 DEF MemoryInv, ClearedInv
      <4> QED BY <1>3, <2>1, <3>1, <3>3, <4>2
    <3> QED BY <3>2, <3>3
  <2>3. ClearedInv'
    BY <1>2, <2>2 DEF ClearedInv
  <2> QED BY <2>1, <2>3 DEF MemoryInv, OwedInv
<1>6. CASE EndClear
  <2>1. phase = "clear" /\ r0 = 0 /\ phase' = "init" /\ todo' = 0 /\ mem' = mem
    BY <1>6 DEF EndClear, machine
  <2>2. ASSUME NEW a \in 0 .. RamTop - 1, NEW v \in Byte, Owed(a, v)
        PROVE  mem[a] = v \/ Pending(a, v)'
    <3>1. CASE v = 0
      <4>1. Owed(a, 0)
        BY <2>2, <3>1
      <4>2. a \in 1 .. RamTop - 1 /\ NeedsClear /\ a < ClearEnd
        BY <1>1, <4>1, OwedZero
      <4>3. r0 < a
        BY <2>1, <4>2
      <4> QED BY <2>1, <3>1, <4>2, <4>3 DEF MemoryInv, ClearedInv
    <3>2. CASE v # 0
      <4>1. PICK i \in 1 .. Len(Initializers) : Writes(i, a, v)
        BY <1>1, <2>2, <3>2, OwedOther
      <4>2. i \in todo' + 1 .. Len(Initializers')
        BY <1>2, <2>1, <4>1
      <4>3. Writes(i, a, v)'
        BY <1>2, <4>1 DEF Writes
      <4> QED BY <4>2, <4>3 DEF Pending
    <3> QED BY <3>1, <3>2
  <2>3. OwedInv'
    BY <1>2, <2>1, <2>2 DEF OwedInv
  <2> QED BY <2>1, <2>3 DEF MemoryInv, ClearedInv
<1>7. CASE WriteInit
  <2>1. phase = "init" /\ phase' = phase /\ todo' = todo + 1
    BY <1>7 DEF WriteInit
  <2>2. PICK j : j = Initializers[todo + 1]
    OBVIOUS
  <2>3. /\ todo + 1 \in 1 .. Len(Initializers)
        /\ \A k \in 1 .. Len(j.init) : j.init[k] # 0 /\ j.at + k - 1 \in 0 .. RamTop - 1 =>
             mem'[j.at + k - 1] = j.init[k]
        /\ \A a \in 0 .. RamTop - 1 :
             (\A k \in 1 .. Len(j.init) : j.init[k] # 0 => a # j.at + k - 1) => mem'[a] = mem[a]
    BY <1>7, <2>2, WriteEffect
  <2>4. ASSUME NEW a \in 0 .. RamTop - 1, NEW v \in Byte, Owed(a, v)
        PROVE  mem'[a] = v \/ Pending(a, v)'
    <3>1. CASE \E k \in 1 .. Len(j.init) : j.init[k] # 0 /\ a = j.at + k - 1
      <4>1. PICK k \in 1 .. Len(j.init) : j.init[k] # 0 /\ a = j.at + k - 1
        BY <3>1
      <4>2. Writes(todo + 1, a, j.init[k])
        BY <2>2, <4>1 DEF Writes
      <4>3. v = j.init[k]
        BY <1>1, <2>3, <2>4, <4>2, OwedAgree
      <4> QED BY <2>3, <4>1, <4>3
    <3>2. CASE ~ \E k \in 1 .. Len(j.init) : j.init[k] # 0 /\ a = j.at + k - 1
      <4>1. mem'[a] = mem[a]
        BY <2>3, <3>2
      <4>2. mem[a] = v \/ Pending(a, v)
        BY <2>1, <2>4 DEF MemoryInv, OwedInv
      <4>3. ASSUME Pending(a, v) PROVE Pending(a, v)'
        <5>1. PICK i \in todo + 1 .. Len(Initializers) : Writes(i, a, v)
          BY <4>3 DEF Pending
        <5>2. i # todo + 1
          BY <2>2, <3>2, <5>1 DEF Writes
        <5>3. i \in todo' + 1 .. Len(Initializers')
          BY <1>2, <1>3, <2>1, <5>1, <5>2
        <5>4. Writes(i, a, v)'
          BY <1>2, <5>1 DEF Writes
        <5> QED BY <5>3, <5>4 DEF Pending
      <4> QED BY <4>1, <4>2, <4>3
    <3> QED BY <3>1, <3>2
  <2>5. OwedInv'
    BY <1>2, <2>1, <2>4 DEF OwedInv
  <2> QED BY <2>1, <2>5 DEF MemoryInv, ClearedInv
<1>8. CASE StartMain
  <2>1. phase = "init" /\ todo = Len(Initializers) /\ phase' = "run" /\ mem' = mem
    BY <1>8 DEF StartMain, machine
  <2>2. \A a, v : ~Pending(a, v)
    BY <1>3, <2>1 DEF Pending
  <2>3. \A a \in 0 .. RamTop - 1, v \in Byte : Owed(a, v) => mem[a] = v
    BY <2>1, <2>2 DEF MemoryInv, OwedInv
  <2>4. OwedInv'
    BY <1>2, <2>1, <2>3 DEF OwedInv
  <2> QED BY <2>1, <2>4 DEF MemoryInv, ClearedInv
<1> QED BY <1>4, <1>5, <1>6, <1>7, <1>8 DEF Startup

LEMMA NextMemory ==
  PlaceInv /\ MachineInv /\ FixedLow(prog) /\ FixedApart(prog) /\ MemoryInv /\ [Next]_vars => MemoryInv'
<1> SUFFICES ASSUME PlaceInv, MachineInv, FixedLow(prog), FixedApart(prog), MemoryInv, [Next]_vars
             PROVE  MemoryInv'
  OBVIOUS
<1>1. CASE Layout
  <2>1. phase' \notin {"clear", "init", "run"}
    BY <1>1 DEF Layout, Placing, PlaceItem, NoPlace, EndGlobals, EndFrame, SkipFrame, EndMain,
                EndArea, Retry, Fail, Area
  <2> QED BY <2>1 DEF MemoryInv, ClearedInv, OwedInv
<1>2. CASE Startup
  BY <1>2, StartupMemory
<1>3. CASE UNCHANGED vars
  <2>1. UNCHANGED <<prog, moved, phase, todo, results, mem, r0>>
    BY <1>3 DEF vars, cursors, machine
  <2>2. /\ Initializers' = Initializers /\ NeedsClear' = NeedsClear /\ ClearEnd' = ClearEnd
        /\ RamTop' = RamTop /\ \A a, v : Owed(a, v)' = Owed(a, v)
    BY <2>1, SameStart, SameProgram
  <2>3. \A a, v : Pending(a, v)' = Pending(a, v)
    BY <2>1, <2>2 DEF Pending, Writes
  <2> QED BY <2>1, <2>2, <2>3 DEF MemoryInv, ClearedInv, OwedInv
<1> QED BY <1>1, <1>2, <1>3 DEF Next

LEMMA MemoryRight ==
  PlaceInv /\ FixedLow(prog) /\ MemoryInv => Initialized
<1> SUFFICES ASSUME PlaceInv, FixedLow(prog), MemoryInv, phase = "run" PROVE Initialized
  BY DEF Initialized
<1>1. IsProgram(prog) /\ phase \in Complete
  BY DEF PlaceInv, PhaseInv, Basic, Complete
<1>2. \A a \in 0 .. RamTop - 1, v \in Byte : Owed(a, v) => mem[a] = v
  BY DEF MemoryInv, OwedInv
<1>3. ASSUME NEW o \in Globals, UpperGlobal(o.name[3]) => ClearsUpper, NEW k \in 1 .. o.size
      PROVE  mem[o.at + k - 1] = InitialByte(o.name[3], k)
  <2>1. o.at + k - 1 \in 0 .. RamTop - 1 /\ InitialByte(o.name[3], k) \in Byte
    BY GlobalBytes
  <2>2. Owed(o.at + k - 1, InitialByte(o.name[3], k))
    BY <1>3 DEF Owed, OwedGlobal
  <2> QED BY <1>2, <2>1, <2>2
<1>4. ASSUME Reserved \cap BitLo .. BitHi - 1 = {}, NEW b \in Bits, Owner(b) = 0
      PROVE  mem[BitByte(b.at)] = 0
  <2>1. BitByte(b.at) \in BitLo .. BitHi - 1
    BY PlacedWhere DEF Bits
  <2>2. BitByte(b.at) \in 0 .. RamTop - 1
    BY <1>1, <2>1, ProgramSizes, SizesAssumption
  <2>3. Owed(BitByte(b.at), 0)
    BY <1>4 DEF Owed, OwedBit
  <2> QED BY <1>2, <2>2, <2>3 DEF Byte
<1>5. ASSUME NEW x \in 1 .. Len(prog.fixed), NEW k \in 1 .. Len(prog.fixed[x].init),
             prog.fixed[x].init[k] # 0
      PROVE  mem[prog.fixed[x].at + k - 1] = prog.fixed[x].init[k]
  <2>1. prog.fixed[x].init[k] \in Byte
    BY <1>1, FixedBytes
  <2>2. Owed(prog.fixed[x].at + k - 1, prog.fixed[x].init[k])
    BY <1>5 DEF Owed, OwedFixed
  <2>3. prog.fixed[x].at + k - 1 \in 0 .. RamTop - 1
    <3>1. prog.fixed[x].at + k - 1 \in Reserved
      BY <1>1, FixedBytes
    <3>2. RamTop \in Nat /\ DirectTop \in Nat /\ DirectTop <= RamTop
      BY <1>1, ProgramSizes
    <3>3. prog.fixed[x].at \in Nat /\ k \in Nat \ {0}
      BY <1>1, ProgramShape
    <3>4. prog.fixed[x].at + k - 1 < DirectTop
      BY <1>1, <3>1, ReservedLow
    <3> QED BY <3>2, <3>3, <3>4
  <2> QED BY <1>2, <2>1, <2>2, <2>3
<1> QED BY <1>3, <1>4, <1>5 DEF Initialized

\* When main starts every global that the clear loop is meant for and every
\* written byte hold their initial values: the loop reaches all zero bytes the
\* writes leave out, and no write hits another object (program.rs:1113).
THEOREM InitializedCorrect == TidySpec => []Initialized
<1> DEFINE Inv == PlaceInv /\ MachineInv
           Pre == FixedLow(prog) /\ FixedApart(prog)
<1>1. Init => MemoryInv
  <2>1. Init => phase \notin {"clear", "init", "run"}
    BY DEF Init
  <2> QED BY <2>1 DEF MemoryInv, ClearedInv, OwedInv
<1>2. Pre /\ [Next]_vars => Pre'
  BY ProgramStays DEF FixedLow, FixedApart
<1>3. Inv /\ Pre /\ MemoryInv /\ [Next]_vars => MemoryInv'
  BY NextMemory
<1>4. Inv /\ Pre /\ MemoryInv => Initialized
  BY MemoryRight
<1>5. TidySpec => Init /\ [][Next]_vars /\ Pre /\ []Inv
  BY MachineCorrect DEF TidySpec, FixedSpec, Spec
<1> HIDE DEF Inv, Pre
<1> QED BY <1>1, <1>2, <1>3, <1>4, <1>5, PTL
=============================================================================
