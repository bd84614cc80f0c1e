--------------------------- MODULE TrackingProofs ---------------------------
(***************************************************************************)
(* What the selector believes of the machine is true; the code of a move   *)
(* delivers the value the machine began with, and pointers point where     *)
(* they should; for every number of registers, bytes, bits and values and every *)
(* sequence of operations.                                                 *)
(***************************************************************************)
EXTENDS Tracking, TLAPS

Machine == [st : State, cpu : Cpu]

\* A machine of which all facts are true.
Good(n) == n \in Machine /\ Known(n)

-----------------------------------------------------------------------------
(***************************************************************************)
(* Locations and facts.                                                    *)
(***************************************************************************)
LEMMA CellIsPhys ==
  ASSUME NEW c \in Cell PROVE Phys(c) = c
  BY CellAssumption DEF Phys

LEMMA MemoryIsCell == Memory \subseteq Cell
  BY DEF Memory, Cell, ByteCell, BitCell

LEMMA PhysIsCell ==
  ASSUME NEW l \in Loc PROVE Phys(l) \in Cell
  BY CellAssumption DEF Phys, Loc, Cell, ByteCell

LEMMA PhysByte ==
  ASSUME NEW l \in ByteCell \cup DOMAIN Window
  PROVE  Phys(l) \in ByteCell /\ l \in Loc /\ l \notin BitCell
  BY CellAssumption DEF Phys, ByteCell, Loc, Cell

LEMMA PhysBit ==
  ASSUME NEW l \in BitCell PROVE Phys(l) = l /\ l \in Loc /\ l \in Cell
  BY CellIsPhys DEF Cell, Loc

LEMMA TrackedByte ==
  ASSUME NEW l \in ByteCell \cup DOMAIN Window
  PROVE  Tracked(l) <=> Phys(l) \in Reg \cup Ram
  BY PhysByte, CellAssumption DEF Tracked, Memory, BitCell

LEMMA TrackedBit ==
  ASSUME NEW l \in BitCell PROVE Tracked(l) <=> l \in BitRam
  BY PhysBit, CellAssumption DEF Tracked, Memory, ByteCell

LEMMA MIsPositive == M \in Nat /\ M >= 2 /\ 0 \in Byte /\ 1 \in Byte /\ Bit \subseteq Byte
  BY SizeAssumption DEF Byte, Bit

\* A fact has one of four shapes.
LEMMA FactShapes ==
  ASSUME NEW f \in Fact
  PROVE  \/ f = None
         \/ \E k \in Byte : f = K(k)
         \/ \E e \in Expr : f = E(e)
         \/ \E c \in Memory : f = L(c)
  BY DEF Fact, Constant

LEMMA BitFactIsFact == BitFact \subseteq Fact
  BY MIsPositive DEF BitFact, Fact, Constant, Memory

LEMMA ConstantValue ==
  ASSUME NEW x \in Constant, NEW m PROVE Val(m, x) \in Byte /\ x \in Fact /\ x # None /\ x # Acc
  BY LinkAssumption DEF Constant, Val, K, E, Acc, None, Fact, Addr

LEMMA CpuCells ==
  ASSUME NEW m \in Cpu
  PROVE  /\ m.a \in Byte /\ m.b \in Byte /\ m.c \in Bit /\ m.dptr \in Addr
         /\ \A c \in Cell : m.cell[c] \in Byte
         /\ \A c \in BitCell : m.cell[c] \in Bit
  BY DEF Cpu

LEMMA OperandValue ==
  ASSUME NEW x \in Operand \cup BitOperand \cup {Acc}, NEW m \in Cpu
  PROVE  Val(m, x) \in Byte
<1>1. CASE x = Acc
  BY <1>1, CpuCells DEF Val
<1>2. CASE x \in Constant
  BY <1>2, ConstantValue
<1>3. CASE \E k \in Bit : x = K(k)
  BY <1>3, MIsPositive DEF Val, K, Acc
<1>4. CASE \E l \in ByteCell \cup DOMAIN Window \cup BitCell : x = L(l)
  <2>1. PICK l \in ByteCell \cup DOMAIN Window \cup BitCell : x = L(l)
    BY <1>4
  <2>2. Phys(l) \in Cell
    BY PhysIsCell DEF Loc, Cell
  <2>3. Val(m, x) = m.cell[Phys(l)]
    BY <2>1 DEF Val, L, Acc
  <2> QED BY <2>2, <2>3, CpuCells
<1> QED BY <1>1, <1>2, <1>3, <1>4 DEF Operand, BitOperand

LEMMA BitOperandValue ==
  ASSUME NEW x \in BitOperand, NEW m \in Cpu
  PROVE  Val(m, x) \in Bit
  BY CpuCells, PhysBit DEF BitOperand, Val, K, L, Acc

\* What is known of an operand is true of its value.
LEMMA ContentTrue ==
  ASSUME NEW n, Good(n), NEW x \in Operand \cup BitOperand \cup {Acc}
  PROVE  ContentOf(n.st, x) \in Fact /\ True(n.cpu, ContentOf(n.st, x), Val(n.cpu, x))
<1> USE DEF Good, Machine
<1>1. CASE x = Acc
  BY <1>1 DEF ContentOf, Val, Known, State
<1>2. CASE x \in Constant \cup {K(k) : k \in Bit}
  <2>1. ContentOf(n.st, x) = x
    BY <1>2 DEF Constant, ContentOf, K, E, Acc
  <2>2. x \in Fact
    BY <1>2, MIsPositive DEF Fact, Constant
  <2> QED BY <2>1, <2>2 DEF True
<1>3. CASE \E l \in ByteCell \cup DOMAIN Window \cup BitCell : x = L(l)
  <2>1. PICK l \in ByteCell \cup DOMAIN Window \cup BitCell : x = L(l)
    BY <1>3
  <2>2. Phys(l) \in Cell /\ Phys(Phys(l)) = Phys(l)
    BY PhysIsCell, CellIsPhys DEF Loc, Cell
  <2>3. Val(n.cpu, x) = n.cpu.cell[Phys(l)] /\ Val(n.cpu, L(Phys(l))) = n.cpu.cell[Phys(l)]
    BY <2>1, <2>2 DEF Val, L, Acc
  <2>4. ContentOf(n.st, x) = IF ~Tracked(l) THEN None
          ELSE IF n.st.mem[Phys(l)] # None THEN n.st.mem[Phys(l)] ELSE L(Phys(l))
    BY <2>1 DEF ContentOf, L, Acc
  <2>5. CASE ~Tracked(l)
    BY <2>4, <2>5 DEF True, Fact
  <2>6. CASE Tracked(l)
    <3>1. Phys(l) \in Memory
      BY <2>6 DEF Tracked
    <3>2. n.st.mem[Phys(l)] \in Fact /\ True(n.cpu, n.st.mem[Phys(l)], n.cpu.cell[Phys(l)])
      BY <3>1 DEF Known, State
    <3> QED BY <2>3, <2>4, <2>6, <3>1, <3>2 DEF True, Fact
  <2> QED BY <2>5, <2>6
<1> QED BY <1>1, <1>2, <1>3 DEF Operand, BitOperand

-----------------------------------------------------------------------------
(***************************************************************************)
(* Writes to a location.                                                   *)
(***************************************************************************)

\* A fact that does not lean on cell k outlives a change of it.
LEMMA Outlives ==
  ASSUME NEW m \in Cpu, NEW f \in Fact, NEW k \in Cell, f # L(k), NEW v, NEW w,
         True(m, f, w)
  PROVE  True([m EXCEPT !.cell[k] = v], f, w)
<1>1. CASE f = None
  BY <1>1 DEF True
<1>2. CASE f \in Constant
  BY <1>2 DEF True, Constant, Val, K, E, L, None, Acc, Cpu
<1>3. CASE \E c \in Memory : f = L(c)
  <2>1. PICK c \in Memory : f = L(c)
    BY <1>3
  <2>2. c # k /\ c \in Cell /\ Phys(c) = c
    BY <2>1, MemoryIsCell, CellIsPhys DEF L
  <2>3. [m EXCEPT !.cell[k] = v].cell[c] = m.cell[c]
    BY <2>2 DEF Cpu
  <2> QED BY <2>1, <2>2, <2>3 DEF True, Val, L, Acc, None
<1> QED BY <1>1, <1>2, <1>3 DEF Fact

LEMMA UnlessTrue ==
  ASSUME NEW m \in Cpu, NEW f \in Fact, NEW k \in Cell, NEW v, NEW w, True(m, f, w)
  PROVE  /\ Unless(f, k) \in Fact
         /\ f \in BitFact => Unless(f, k) \in BitFact
         /\ True([m EXCEPT !.cell[k] = v], Unless(f, k), w)
  BY Outlives DEF Unless, True, Fact, BitFact

\* The value of a location that is written with the right width.
Fits(l, v) == v \in Byte /\ (l \in BitCell => v \in Bit)

LEMMA CellWritten ==
  ASSUME NEW m \in Cpu, NEW k \in Cell, NEW v, Fits(k, v)
  PROVE  [m EXCEPT !.cell[k] = v] \in Cpu
<1>1. [m.cell EXCEPT ![k] = v] \in [Cell -> Byte]
  BY DEF Cpu, Fits
<1>2. \A l \in BitCell : [m.cell EXCEPT ![k] = v][l] \in Bit
  BY PhysBit DEF Cpu, Fits
<1>3. [m EXCEPT !.cell[k] = v] = [m EXCEPT !.cell = [m.cell EXCEPT ![k] = v]]
  BY DEF Cpu
<1> QED BY <1>1, <1>2, <1>3 DEF Cpu

\* The facts s are true of m but for what they say that k holds.
TrueBut(s, m, k) ==
  /\ s \in State
  /\ True(m, s.a, m.a) /\ True(m, s.b, m.b) /\ True(m, s.c, m.c)
  /\ \A c \in Memory \ {k} : True(m, s.mem[c], m.cell[c])
  /\ s.dptr[1] = "E" => m.dptr = Where[s.dptr[2]]
  /\ s.dptr[1] = "L" => m.dptr = <<m.cell[s.dptr[2]], m.cell[s.dptr[3]]>>

\* invalidate_refs makes the facts true of a machine in which cell k differs.
LEMMA ForgetTrue ==
  ASSUME NEW n, Good(n), NEW k \in Cell, NEW v, Fits(k, v)
  PROVE  TrueBut(Forget(n.st, k), [n.cpu EXCEPT !.cell[k] = v], k)
<1> DEFINE s == Forget(n.st, k)
           m == [n.cpu EXCEPT !.cell[k] = v]
<1> USE DEF Good, Machine
<1>1. m.a = n.cpu.a /\ m.b = n.cpu.b /\ m.c = n.cpu.c /\ m.dptr = n.cpu.dptr
  BY DEF Cpu
<1>2. n.st.a \in Fact /\ n.st.b \in Fact /\ n.st.c \in BitFact /\ n.st.dptr \in DptrFact
      /\ \A c \in Memory : n.st.mem[c] \in Fact
  BY DEF State
<1>3. s.a \in Fact /\ True(m, s.a, m.a) /\ s.b \in Fact /\ True(m, s.b, m.b)
  BY <1>1, <1>2, UnlessTrue DEF Forget, Known
<1>4. s.c \in BitFact /\ True(m, s.c, m.c)
  BY <1>1, <1>2, UnlessTrue, BitFactIsFact DEF Forget, Known
<1>5. \A c \in Memory : s.mem[c] \in Fact /\ True(m, s.mem[c], n.cpu.cell[c])
  BY <1>2, UnlessTrue DEF Forget, Known
<1>6. s.mem \in [Memory -> Fact]
  BY <1>5 DEF Forget
<1>7. \A c \in Memory \ {k} : m.cell[c] = n.cpu.cell[c]
  BY MemoryIsCell DEF Cpu
<1>8. s.dptr \in DptrFact
  BY <1>2 DEF Forget, DptrFact
<1>9. s \in State
  BY <1>3, <1>4, <1>6, <1>8 DEF Forget, State
<1>10. s.dptr[1] = "E" => m.dptr = Where[s.dptr[2]]
  BY <1>1 DEF Forget, Known, None
<1>11. s.dptr[1] = "L" => m.dptr = <<m.cell[s.dptr[2]], m.cell[s.dptr[3]]>>
  <2> SUFFICES ASSUME s.dptr[1] = "L" PROVE m.dptr = <<m.cell[s.dptr[2]], m.cell[s.dptr[3]]>>
    OBVIOUS
  <2>1. s.dptr = n.st.dptr /\ s.dptr[2] # k /\ s.dptr[3] # k
    BY DEF Forget, None
  <2>2. s.dptr[2] \in Cell /\ s.dptr[3] \in Cell
    BY <1>8, MemoryIsCell DEF DptrFact, None, E, Memory
  <2>3. m.cell[s.dptr[2]] = n.cpu.cell[s.dptr[2]] /\ m.cell[s.dptr[3]] = n.cpu.cell[s.dptr[3]]
    BY <2>1, <2>2 DEF Cpu
  <2> QED BY <1>1, <2>1, <2>3 DEF Known
<1> QED BY <1>3, <1>4, <1>5, <1>7, <1>9, <1>10, <1>11 DEF TrueBut

\* write keeps the facts true if it is told the truth.
LEMMA WriteTrue ==
  ASSUME NEW n, Good(n), NEW l \in Loc, NEW f \in Fact, NEW v, Fits(Phys(l), v),
         True(n.cpu, f, v)
  PROVE  Good(Both(Write(n.st, l, f), [n.cpu EXCEPT !.cell[Phys(l)] = v]))
<1> DEFINE k == Phys(l)
           m == [n.cpu EXCEPT !.cell[k] = v]
           s == Forget(n.st, k)
<1>1. k \in Cell
  BY PhysIsCell
<1>2. m \in Cpu /\ m.cell[k] = v
  BY <1>1, CellWritten DEF Cpu, Good, Machine
<1>3. Fits(k, v) /\ s = Forget(n.st, k) /\ m = [n.cpu EXCEPT !.cell[k] = v]
  OBVIOUS
<1> HIDE DEF m, s, k
<1>4. TrueBut(s, m, k)
  BY <1>3, <1>1, ForgetTrue
<1> USE DEF Good, Machine, Both, TrueBut
<1>5. CASE f = L(k)
  <2>1. Val(n.cpu, L(k)) = n.cpu.cell[k]
    BY <1>1, CellIsPhys DEF Val, L, Acc
  <2>2. v = n.cpu.cell[k]
    BY <2>1, <1>5 DEF True, None, L
  <2>3. m = n.cpu
    BY <2>2, <1>1 DEF m, Cpu
  <2> QED BY <2>3, <1>5 DEF Write, m, k
<1>6. CASE f # L(k) /\ ~Tracked(l)
  <2>1. k \notin Memory
    BY <1>6 DEF Tracked, k
  <2>2. Unless(n.st.a, k) = n.st.a /\ Unless(n.st.b, k) = n.st.b /\ Unless(n.st.c, k) = n.st.c
    BY <2>1, FactShapes, BitFactIsFact DEF Unless, State, None, K, E, L
  <2>3. \A c \in Memory : Unless(n.st.mem[c], k) = n.st.mem[c]
    BY <2>1, FactShapes DEF Unless, State, None, K, E, L
  <2>4. ~(n.st.dptr[1] = "L" /\ (n.st.dptr[2] = k \/ n.st.dptr[3] = k))
    BY <2>1 DEF State, DptrFact, None, E, Memory
  <2>5. s = n.st
    BY <2>2, <2>3, <2>4 DEF s, Forget, State
  <2>6. Both(Write(n.st, l, f), m) = Both(s, m)
    BY <1>6, <2>5 DEF Write
  <2>7. Known(Both(s, m))
    BY <1>4, <2>1 DEF Known
  <2> QED BY <1>2, <1>4, <2>6, <2>7 DEF m, k
<1>7. CASE f # L(k) /\ Tracked(l)
  <2> DEFINE w == [s EXCEPT !.mem[k] = f]
  <2>1. Write(n.st, l, f) = w
    BY <1>7 DEF Write, k, s
  <2>2. k \in Memory
    BY <1>7 DEF Tracked, k
  <2>3. w \in State /\ w.a = s.a /\ w.b = s.b /\ w.c = s.c /\ w.dptr = s.dptr /\ w.mem[k] = f
        /\ \A c \in Memory \ {k} : w.mem[c] = s.mem[c]
    BY <1>4, <2>2 DEF State
  <2>4. True(m, f, v)
    BY <1>1, <1>7, Outlives DEF m
  <2> HIDE DEF w
  <2>5. Known(Both(w, m))
    BY <1>2, <1>4, <2>3, <2>4 DEF Known
  <2> QED BY <1>2, <2>1, <2>3, <2>5 DEF m, k
<1> QED BY <1>5, <1>6, <1>7

-----------------------------------------------------------------------------
(***************************************************************************)
(* Instructions.                                                           *)
(***************************************************************************)
LEMMA SameCells ==
  ASSUME NEW m, NEW w, m.cell = w.cell, NEW f \in Fact, NEW v
  PROVE  True(m, f, v) <=> True(w, f, v)
  BY FactShapes DEF True, Val, None, K, E, L, Acc

LEMMA GoodParts ==
  ASSUME NEW n, Good(n)
  PROVE  /\ n.st \in State /\ n.cpu \in Cpu /\ n = Both(n.st, n.cpu)
         /\ n.st.a \in Fact /\ n.st.b \in Fact /\ n.st.c \in BitFact /\ n.st.c \in Fact
         /\ n.st.dptr \in DptrFact /\ n.st.mem \in [Memory -> Fact]
         /\ True(n.cpu, n.st.a, n.cpu.a) /\ True(n.cpu, n.st.b, n.cpu.b)
         /\ True(n.cpu, n.st.c, n.cpu.c)
         /\ \A c \in Memory : True(n.cpu, n.st.mem[c], n.cpu.cell[c])
         /\ n.cpu.a \in Byte /\ n.cpu.b \in Byte /\ n.cpu.c \in Bit /\ n.cpu.dptr \in Addr
  BY BitFactIsFact DEF Good, Machine, Known, State, Cpu, Both

\* A, B, C and DPTR may change, to what is known of them then.
LEMMA Registers ==
  ASSUME NEW n, Good(n), NEW s \in State, NEW m \in Cpu,
         s.mem = n.st.mem, m.cell = n.cpu.cell,
         True(n.cpu, s.a, m.a), True(n.cpu, s.b, m.b), True(n.cpu, s.c, m.c),
         s.dptr[1] = "E" => m.dptr = Where[s.dptr[2]],
         s.dptr[1] = "L" => m.dptr = <<n.cpu.cell[s.dptr[2]], n.cpu.cell[s.dptr[3]]>>
  PROVE  Good(Both(s, m))
<1>1. s.a \in Fact /\ s.b \in Fact /\ s.c \in Fact
  BY BitFactIsFact DEF State
<1>2. True(m, s.a, m.a) /\ True(m, s.b, m.b) /\ True(m, s.c, m.c)
  BY <1>1, SameCells
<1>3. \A l \in Memory : True(m, s.mem[l], m.cell[l])
  BY SameCells, GoodParts
<1>4. Known(Both(s, m))
  BY <1>2, <1>3 DEF Known, Both
<1> QED BY <1>4 DEF Good, Machine, Both

LEMMA CpuRegisters ==
  ASSUME NEW m \in Cpu, NEW a \in Byte, NEW b \in Byte, NEW c \in Bit, NEW p \in Addr
  PROVE  /\ [m EXCEPT !.a = a] \in Cpu
         /\ [m EXCEPT !.b = b] \in Cpu
         /\ [m EXCEPT !.c = c] \in Cpu
         /\ [m EXCEPT !.a = a, !.c = c] \in Cpu
         /\ [m EXCEPT !.a = a, !.b = b, !.c = c] \in Cpu
         /\ [m EXCEPT !.dptr = p] \in Cpu
  BY DEF Cpu

LEMMA DptrKept ==
  ASSUME NEW n, Good(n)
  PROVE  /\ n.st.dptr[1] = "E" => n.cpu.dptr = Where[n.st.dptr[2]]
         /\ n.st.dptr[1] = "L" =>
              n.cpu.dptr = <<n.cpu.cell[n.st.dptr[2]], n.cpu.cell[n.st.dptr[3]]>>
  BY DEF Good, Known

LEMMA SetA ==
  ASSUME NEW n, Good(n), NEW f \in Fact, NEW v \in Byte, True(n.cpu, f, v)
  PROVE  Good(Both([n.st EXCEPT !.a = f], [n.cpu EXCEPT !.a = v]))
<1> DEFINE s == [n.st EXCEPT !.a = f]
           m == [n.cpu EXCEPT !.a = v]
<1>1. /\ s \in State /\ s.a = f /\ s.b = n.st.b /\ s.c = n.st.c
      /\ s.mem = n.st.mem /\ s.dptr = n.st.dptr
  BY GoodParts DEF State
<1>2. m \in Cpu
  BY GoodParts, CpuRegisters
<1>3. /\ m.a = v /\ m.b = n.cpu.b /\ m.c = n.cpu.c
      /\ m.cell = n.cpu.cell /\ m.dptr = n.cpu.dptr
  BY GoodParts DEF Cpu
<1> HIDE DEF s, m
<1>4. Good(Both(s, m))
  BY <1>1, <1>2, <1>3, Registers, GoodParts, DptrKept
<1> QED BY <1>4 DEF s, m

LEMMA SetB ==
  ASSUME NEW n, Good(n), NEW f \in Fact, NEW v \in Byte, True(n.cpu, f, v)
  PROVE  Good(Both([n.st EXCEPT !.b = f], [n.cpu EXCEPT !.b = v]))
<1> DEFINE s == [n.st EXCEPT !.b = f]
           m == [n.cpu EXCEPT !.b = v]
<1>1. /\ s \in State /\ s.b = f /\ s.a = n.st.a /\ s.c = n.st.c
      /\ s.mem = n.st.mem /\ s.dptr = n.st.dptr
  BY GoodParts DEF State
<1>2. m \in Cpu
  BY GoodParts, CpuRegisters
<1>3. /\ m.b = v /\ m.a = n.cpu.a /\ m.c = n.cpu.c
      /\ m.cell = n.cpu.cell /\ m.dptr = n.cpu.dptr
  BY GoodParts DEF Cpu
<1> HIDE DEF s, m
<1>4. Good(Both(s, m))
  BY <1>1, <1>2, <1>3, Registers, GoodParts, DptrKept
<1> QED BY <1>4 DEF s, m

LEMMA SetC ==
  ASSUME NEW n, Good(n), NEW f \in BitFact, NEW v \in Bit, True(n.cpu, f, v)
  PROVE  Good(Both([n.st EXCEPT !.c = f], [n.cpu EXCEPT !.c = v]))
<1> DEFINE s == [n.st EXCEPT !.c = f]
           m == [n.cpu EXCEPT !.c = v]
<1>1. /\ s \in State /\ s.c = f /\ s.a = n.st.a /\ s.b = n.st.b
      /\ s.mem = n.st.mem /\ s.dptr = n.st.dptr
  BY GoodParts DEF State
<1>2. m \in Cpu
  BY GoodParts, CpuRegisters
<1>3. /\ m.c = v /\ m.a = n.cpu.a /\ m.b = n.cpu.b
      /\ m.cell = n.cpu.cell /\ m.dptr = n.cpu.dptr
  BY GoodParts DEF Cpu
<1> HIDE DEF s, m
<1>4. Good(Both(s, m))
  BY <1>1, <1>2, <1>3, Registers, GoodParts, DptrKept
<1> QED BY <1>4 DEF s, m

\* Arithmetic: nothing is known of the result.
LEMMA SetAC ==
  ASSUME NEW n, Good(n), NEW v \in Byte, NEW c \in Bit
  PROVE  Good(Both([n.st EXCEPT !.a = None, !.c = None], [n.cpu EXCEPT !.a = v, !.c = c]))
<1> DEFINE s == [n.st EXCEPT !.a = None, !.c = None]
           m == [n.cpu EXCEPT !.a = v, !.c = c]
<1>1. /\ s \in State /\ s.a = None /\ s.b = n.st.b /\ s.c = None
      /\ s.mem = n.st.mem /\ s.dptr = n.st.dptr
  <2>1. n.st \in State /\ None \in Fact /\ None \in BitFact
    BY GoodParts DEF Fact, BitFact
  <2> QED BY <2>1 DEF State
<1>2. m \in Cpu
  <2>1. n.cpu \in Cpu /\ n.cpu.b \in Byte /\ n.cpu.dptr \in Addr
    BY GoodParts
  <2> QED BY <2>1, CpuRegisters
<1>3. m.b = n.cpu.b /\ m.cell = n.cpu.cell /\ m.dptr = n.cpu.dptr
  BY GoodParts DEF Cpu
<1> HIDE DEF s, m
<1>4. \A w : True(n.cpu, None, w)
  BY DEF True
<1>5. Good(Both(s, m))
  BY <1>1, <1>2, <1>3, <1>4, Registers, GoodParts, DptrKept
<1> QED BY <1>5 DEF s, m

\* The DPTR changes.
LEMMA SetDptrTrue ==
  ASSUME NEW n, Good(n), NEW f \in DptrFact, NEW p \in Addr,
         f[1] = "E" => p = Where[f[2]],
         f[1] = "L" => p = <<n.cpu.cell[f[2]], n.cpu.cell[f[3]]>>
  PROVE  Good(Both([n.st EXCEPT !.dptr = f], [n.cpu EXCEPT !.dptr = p]))
<1> DEFINE s == [n.st EXCEPT !.dptr = f]
           m == [n.cpu EXCEPT !.dptr = p]
<1>1. /\ s \in State /\ s.a = n.st.a /\ s.b = n.st.b /\ s.c = n.st.c
      /\ s.mem = n.st.mem /\ s.dptr = f
  BY GoodParts DEF State
<1>2. m \in Cpu
  BY GoodParts, CpuRegisters
<1>3. /\ m.a = n.cpu.a /\ m.b = n.cpu.b /\ m.c = n.cpu.c
      /\ m.cell = n.cpu.cell /\ m.dptr = p
  BY GoodParts DEF Cpu
<1> HIDE DEF s, m
<1>4. Good(Both(s, m))
  BY <1>1, <1>2, <1>3, Registers, GoodParts
<1> QED BY <1>4 DEF s, m

LEMMA NoneTrue == None \in Fact /\ None \in BitFact /\ None \in DptrFact /\ \A m, v : True(m, None, v)
  BY DEF Fact, BitFact, DptrFact, True

LEMMA KTrue ==
  ASSUME NEW k \in Byte
  PROVE  /\ K(k) \in Fact /\ (k \in Bit => K(k) \in BitFact) /\ K(k) # None
         /\ \A m, v : True(m, K(k), v) <=> v = k
  BY DEF Fact, Constant, BitFact, True, Val, K, None, Acc

LEMMA LTrue ==
  ASSUME NEW c \in Memory
  PROVE  /\ L(c) \in Fact /\ L(c) # None
         /\ \A m, v : True(m, L(c), v) <=> v = m.cell[c]
  BY MemoryIsCell, CellIsPhys DEF Fact, True, Val, L, None, Acc

LEMMA MovAGood ==
  ASSUME NEW n, Good(n), NEW x \in Operand \cup BitOperand \cup {Acc}
  PROVE  Good(MovA(n, x))
  BY ContentTrue, OperandValue, GoodParts, SetA DEF MovA

LEMMA MovBGood ==
  ASSUME NEW n, Good(n), NEW x \in Operand \cup {Acc}
  PROVE  Good(MovB(n, x))
  BY ContentTrue, OperandValue, GoodParts, SetB DEF MovB

LEMMA MovABGood ==
  ASSUME NEW n, Good(n) PROVE Good(MovAB(n))
  BY NoneTrue, GoodParts, SetA DEF MovAB

LEMMA ClrAGood ==
  ASSUME NEW n, Good(n) PROVE Good(ClrA(n))
  BY MIsPositive, KTrue, SetA DEF ClrA

LEMMA StepInByte ==
  ASSUME NEW v \in Byte PROVE IncV(v) \in Byte /\ DecV(v) \in Byte /\ M - 1 - v \in Byte
  BY MIsPositive DEF Byte, IncV, DecV

\* A fact that is a constant is that constant.
LEMMA ConstantFact ==
  ASSUME NEW m, NEW f \in Fact, NEW v, True(m, f, v), f[1] = "K"
  PROVE  f[2] = v /\ f = K(v) /\ v \in Byte
<1>1. PICK k \in Byte : f = K(k)
  BY FactShapes DEF None, K, E, L
<1> QED BY <1>1, KTrue DEF K

LEMMA IncAGood ==
  ASSUME NEW n, Good(n) PROVE Good(IncA(n)) /\ Good(DecA(n)) /\ Good(CplA(n))
<1> DEFINE f == n.st.a
           v == n.cpu.a
<1>1. f \in Fact /\ v \in Byte /\ True(n.cpu, f, v)
  BY GoodParts
<1>2. /\ Fold(f, IncV(f[2])) \in Fact /\ True(n.cpu, Fold(f, IncV(f[2])), IncV(v))
      /\ Fold(f, DecV(f[2])) \in Fact /\ True(n.cpu, Fold(f, DecV(f[2])), DecV(v))
      /\ Fold(f, M - 1 - f[2]) \in Fact /\ True(n.cpu, Fold(f, M - 1 - f[2]), M - 1 - v)
  <2>1. CASE f[1] = "K"
    BY <1>1, <2>1, ConstantFact, StepInByte, KTrue DEF Fold
  <2>2. CASE f[1] # "K"
    BY <2>2, NoneTrue DEF Fold
  <2> QED BY <2>1, <2>2
<1> QED BY <1>1, <1>2, StepInByte, SetA DEF IncA, DecA, CplA

LEMMA SumGood ==
  ASSUME NEW n, Good(n), NEW v \in Byte, NEW c \in Bit
  PROVE  Good(Sum(n, v, c))
<1> DEFINE s == n.cpu.a + v + c
<1>1. (IF s < M THEN s ELSE s - M) \in Byte /\ (IF s < M THEN 0 ELSE 1) \in Bit
  BY GoodParts, MIsPositive DEF Byte, Bit
<1> QED BY <1>1, SetAC DEF Sum

LEMMA RlcGood ==
  ASSUME NEW n, Good(n) PROVE Good(Rlc(n))
<1> DEFINE d == 2 * n.cpu.a + n.cpu.c
<1>1. (IF d < M THEN d ELSE d - M) \in Byte /\ (IF d < M THEN 0 ELSE 1) \in Bit
  BY GoodParts, MIsPositive DEF Byte, Bit
<1> QED BY <1>1, SetAC DEF Rlc

LEMMA RrcGood ==
  ASSUME NEW n, Good(n) PROVE Good(Rrc(n))
<1>1. PICK h \in 1 .. M : M = 2 * h
  BY SizeAssumption
<1>2. M \div 2 = h
  BY <1>1, MIsPositive
<1>3. n.cpu.a \in 0 .. 2 * h - 1 /\ n.cpu.c \in {0, 1}
  BY <1>1, GoodParts DEF Byte, Bit
<1>4. n.cpu.a \div 2 \in 0 .. h - 1 /\ n.cpu.a % 2 \in Bit
  BY <1>1, <1>3 DEF Bit
<1>5. (n.cpu.a \div 2) + n.cpu.c * (M \div 2) \in Byte
  <2>1. CASE n.cpu.c = 0
    BY <2>1, <1>1, <1>2, <1>4 DEF Byte
  <2>2. CASE n.cpu.c = 1
    BY <2>2, <1>1, <1>2, <1>4 DEF Byte
  <2> QED BY <2>1, <2>2, <1>3
<1> QED BY <1>4, <1>5, SetAC DEF Rrc

LEMMA PutCGood ==
  ASSUME NEW n, Good(n), NEW k \in Bit PROVE Good(PutC(n, k))
  BY MIsPositive, KTrue, SetC DEF PutC

LEMMA MovGood ==
  ASSUME NEW n, Good(n), NEW l \in ByteCell \cup DOMAIN Window, NEW x \in Operand \cup {Acc}
  PROVE  Good(Mov(n, l, x))
<1> DEFINE f == ContentOf(n.st, x)
           v == Val(n.cpu, x)
           k == Phys(l)
           w == Both(Write(n.st, l, f), [n.cpu EXCEPT !.cell[k] = v])
<1>1. k \in Cell /\ k \in ByteCell /\ k \notin BitCell /\ l \in Loc
  BY PhysByte, CellAssumption DEF Cell
<1>2. f \in Fact /\ True(n.cpu, f, v) /\ v \in Byte
  BY ContentTrue, OperandValue, GoodParts
<1>3. Fits(k, v)
  BY <1>1, <1>2 DEF Fits
<1>4. Good(w)
  BY <1>1, <1>2, <1>3, WriteTrue
<1>5. CASE ~(x = Acc /\ f = None)
  BY <1>4, <1>5 DEF Mov
<1>6. CASE x = Acc /\ f = None
  <2> DEFINE g == IF Tracked(l) THEN L(k) ELSE None
  <2>1. v = n.cpu.a /\ w.cpu.a = n.cpu.a /\ w.cpu.cell[k] = v
    BY <1>1, <1>6, GoodParts DEF Val, Both, Cpu
  <2>2. g \in Fact /\ True(w.cpu, g, n.cpu.a)
    BY <2>1, LTrue, NoneTrue DEF Tracked
  <2>3. w.cpu = [w.cpu EXCEPT !.a = n.cpu.a] /\ n.cpu.a \in Byte
    BY <2>1, <1>4, GoodParts DEF Cpu
  <2>4. Mov(n, l, x) = Both([w.st EXCEPT !.a = g], w.cpu)
    BY <1>6 DEF Mov, Both
  <2> HIDE DEF w, g
  <2>5. Good(Both([w.st EXCEPT !.a = g], [w.cpu EXCEPT !.a = n.cpu.a]))
    BY <1>4, <2>2, <2>3, SetA
  <2> QED BY <2>3, <2>4, <2>5
<1> QED BY <1>5, <1>6

LEMMA MovCGood ==
  ASSUME NEW n, Good(n), NEW l \in BitCell
  PROVE  Good(MovC(n, l))
<1> DEFINE f == IF ~Tracked(l) THEN None ELSE IF n.st.mem[l][1] = "K" THEN n.st.mem[l] ELSE L(l)
           v == n.cpu.cell[l]
<1>1. v \in Bit
  BY GoodParts, CpuCells
<1>2. f \in BitFact /\ True(n.cpu, f, v)
  <2>1. CASE ~Tracked(l)
    BY <2>1, NoneTrue
  <2>2. CASE Tracked(l)
    <3>1. l \in BitRam /\ l \in Memory
      BY <2>2, TrackedBit DEF Memory
    <3>2. L(l) \in BitFact /\ True(n.cpu, L(l), v)
      BY <3>1, LTrue DEF BitFact
    <3>3. n.st.mem[l] \in Fact /\ True(n.cpu, n.st.mem[l], v)
      BY <3>1, GoodParts
    <3>4. n.st.mem[l][1] = "K" => n.st.mem[l] \in BitFact
      BY <1>1, <3>3, ConstantFact, KTrue
    <3> QED BY <2>2, <3>2, <3>3, <3>4
  <2> QED BY <2>1, <2>2
<1> QED BY <1>1, <1>2, SetC DEF MovC

LEMMA PutBitGood ==
  ASSUME NEW n, Good(n), NEW l \in BitCell, NEW k \in Bit
  PROVE  Good(PutBit(n, l, k))
<1>1. Fits(Phys(l), k) /\ k \in Byte
  BY MIsPositive DEF Fits
<1> QED BY <1>1, PhysBit, KTrue, WriteTrue DEF PutBit

LEMMA MovBitGood ==
  ASSUME NEW n, Good(n), NEW l \in BitCell
  PROVE  Good(MovBit(n, l))
<1> DEFINE w == Both(Write(n.st, l, n.st.c), [n.cpu EXCEPT !.cell[l] = n.cpu.c])
<1>1. Phys(l) = l /\ l \in Loc /\ l \in Cell
  BY PhysBit
<1>2. Fits(l, n.cpu.c)
  BY GoodParts, MIsPositive DEF Fits
<1>3. Good(w)
  BY <1>1, <1>2, GoodParts, WriteTrue
<1>4. CASE ~(n.st.c = None /\ Tracked(l))
  BY <1>3, <1>4 DEF MovBit
<1>5. CASE n.st.c = None /\ Tracked(l)
  <2>1. l \in BitRam /\ l \in Memory
    BY <1>5, TrackedBit DEF Memory
  <2>2. w.cpu.c = n.cpu.c /\ w.cpu.cell[l] = n.cpu.c
    BY <1>1, GoodParts DEF Both, Cpu
  <2>3. L(l) \in BitFact /\ True(w.cpu, L(l), n.cpu.c)
    BY <2>1, <2>2, LTrue DEF BitFact
  <2>4. w.cpu = [w.cpu EXCEPT !.c = n.cpu.c] /\ n.cpu.c \in Bit
    BY <2>2, <1>3, GoodParts DEF Cpu
  <2>5. MovBit(n, l) = Both([w.st EXCEPT !.c = L(l)], w.cpu)
    BY <1>5 DEF MovBit, Both
  <2> HIDE DEF w
  <2>6. Good(Both([w.st EXCEPT !.c = L(l)], [w.cpu EXCEPT !.c = n.cpu.c]))
    BY <1>3, <2>3, <2>4, SetC
  <2> QED BY <2>4, <2>5, <2>6
<1> QED BY <1>4, <1>5

LEMMA NextIsAddr ==
  ASSUME NEW p \in Addr PROVE Next16(p) \in Addr
  BY MIsPositive DEF Addr, Byte, Next16

LEMMA MovDptrGood ==
  ASSUME NEW n, Good(n), NEW e \in Expr PROVE Good(MovDptr(n, e))
<1>1. E(e) \in DptrFact /\ E(e)[1] = "E" /\ E(e)[2] = e /\ Where[e] \in Addr
  BY LinkAssumption DEF E, DptrFact
<1> QED BY <1>1, SetDptrTrue DEF MovDptr

LEMMA IncDptrGood ==
  ASSUME NEW n, Good(n) PROVE Good(IncDptr(n))
<1> DEFINE f == n.st.dptr
           g == IF f[1] = "E" /\ f[2][2] < MaxOffset THEN E(<<f[2][1], f[2][2] + 1>>) ELSE None
           p == Next16(n.cpu.dptr)
<1>1. p \in Addr
  BY GoodParts, NextIsAddr
<1>2. CASE ~(f[1] = "E" /\ f[2][2] < MaxOffset)
  <2>1. g \in DptrFact /\ g[1] # "E" /\ g[1] # "L"
    BY <1>2, NoneTrue DEF None
  <2> QED BY <1>1, <2>1, SetDptrTrue DEF IncDptr
<1>3. CASE f[1] = "E" /\ f[2][2] < MaxOffset
  <2>1. PICK e \in Expr : f = E(e)
    BY <1>3, GoodParts DEF DptrFact, None, E
  <2>2. f[2] = e /\ e[1] \in Symbols /\ e[2] \in 0 .. MaxOffset - 1 /\ e = <<e[1], e[2]>>
    BY <2>1, <1>3, LinkAssumption DEF E, Expr
  <2> DEFINE d == <<e[1], e[2] + 1>>
  <2>3. e[2] + 1 \in 1 .. MaxOffset /\ (e[2] + 1) - 1 = e[2]
    BY <2>2, LinkAssumption
  <2>4. d \in Expr /\ Where[d] = Next16(Where[e])
    BY <2>2, <2>3, LinkAssumption DEF Expr
  <2>5. n.cpu.dptr = Where[e]
    BY <1>3, <2>2, DptrKept
  <2>6. g = E(d) /\ g[1] = "E" /\ g[2] = d /\ g \in DptrFact
    BY <1>3, <2>2, <2>4 DEF E, DptrFact
  <2>7. p = Where[g[2]]
    BY <2>4, <2>5, <2>6
  <2> QED BY <1>1, <2>6, <2>7, SetDptrTrue DEF IncDptr
<1> QED BY <1>2, <1>3

LEMMA MovDplGood ==
  ASSUME NEW n, Good(n), NEW v \in Byte
  PROVE  Good(MovDpl(n, v)) /\ Good(MovDph(n, v))
<1> DEFINE p == [n.cpu.dptr EXCEPT ![1] = v]
           q == [n.cpu.dptr EXCEPT ![2] = v]
<1>1. p \in Addr /\ q \in Addr
  BY GoodParts DEF Addr
<1>2. [n.cpu EXCEPT !.dptr[1] = v] = [n.cpu EXCEPT !.dptr = p]
      /\ [n.cpu EXCEPT !.dptr[2] = v] = [n.cpu EXCEPT !.dptr = q]
  BY GoodParts DEF Cpu
<1>3. None[1] # "E" /\ None[1] # "L"
  BY DEF None
<1> HIDE DEF p, q
<1> QED BY <1>1, <1>2, <1>3, NoneTrue, SetDptrTrue DEF MovDpl, MovDph

LEMMA MovDptrSets ==
  ASSUME NEW n, Good(n), NEW v \in Byte
  PROVE  /\ MovDpl(n, v).cpu.dptr = <<v, n.cpu.dptr[2]>>
         /\ MovDpl(n, v).cpu.a = n.cpu.a /\ MovDpl(n, v).cpu.b = n.cpu.b
         /\ MovDpl(n, v).cpu.cell = n.cpu.cell
         /\ MovDph(n, v).cpu.dptr = <<n.cpu.dptr[1], v>>
         /\ MovDph(n, v).cpu.a = n.cpu.a /\ MovDph(n, v).cpu.b = n.cpu.b
         /\ MovDph(n, v).cpu.cell = n.cpu.cell
<1>1. n.cpu \in Cpu
  BY GoodParts
<1>2. /\ MovDpl(n, v).cpu = [n.cpu EXCEPT !.dptr[1] = v]
      /\ MovDph(n, v).cpu = [n.cpu EXCEPT !.dptr[2] = v]
  BY DEF MovDpl, MovDph, Both
<1>3. /\ [n.cpu.dptr EXCEPT ![1] = v] = <<v, n.cpu.dptr[2]>>
      /\ [n.cpu.dptr EXCEPT ![2] = v] = <<n.cpu.dptr[1], v>>
  BY GoodParts DEF Addr
<1> QED BY <1>1, <1>2, <1>3 DEF Cpu

LEMMA IncRegGood ==
  ASSUME NEW n, Good(n), NEW r \in Reg PROVE Good(IncReg(n, r))
<1> DEFINE f == ContentOf(n.st, L(r))
           v == n.cpu.cell[r]
<1>1. r \in Cell /\ r \in Loc /\ Phys(r) = r /\ r \notin BitCell /\ L(r) \in Operand
  BY CellIsPhys, PhysByte DEF Cell, Loc, ByteCell, Operand
<1>2. Val(n.cpu, L(r)) = v /\ v \in Byte
  BY <1>1, GoodParts, CpuCells DEF Val, L, Acc
<1>3. f \in Fact /\ True(n.cpu, f, v)
  BY <1>1, <1>2, ContentTrue
<1>4. Fold(f, IncV(f[2])) \in Fact /\ True(n.cpu, Fold(f, IncV(f[2])), IncV(v))
  <2>1. CASE f[1] = "K"
    BY <1>3, <2>1, ConstantFact, StepInByte, KTrue DEF Fold
  <2>2. CASE f[1] # "K"
    BY <2>2, NoneTrue DEF Fold
  <2> QED BY <2>1, <2>2
<1>5. Fits(Phys(r), IncV(v))
  BY <1>1, <1>2, StepInByte DEF Fits
<1>6. Good(Both(Write(n.st, r, Fold(f, IncV(f[2]))), [n.cpu EXCEPT !.cell[Phys(r)] = IncV(v)]))
  BY <1>1, <1>4, <1>5, WriteTrue
<1>7. [n.cpu EXCEPT !.cell[Phys(r)] = IncV(v)] = [n.cpu EXCEPT !.cell[r] = IncV(@)]
  BY <1>1, GoodParts DEF Cpu
<1> QED BY <1>6, <1>7 DEF IncReg

LEMMA LoadAtGood ==
  ASSUME NEW n, Good(n), NEW r \in Reg, n.cpu.cell[r] \in DOMAIN At
  PROVE  Good(LoadAt(n, r)) /\ At[n.cpu.cell[r]] \in Ram
<1>1. At[n.cpu.cell[r]] \in Ram /\ At[n.cpu.cell[r]] \in Cell
  BY CellAssumption DEF Cell, ByteCell
<1>2. n.cpu.cell[At[n.cpu.cell[r]]] \in Byte
  BY <1>1, GoodParts, CpuCells
<1> QED BY <1>1, <1>2, NoneTrue, SetA DEF LoadAt

\* What a store through a pointer leaves known does not lean on a byte of RAM.
LEMMA StoreAtGood ==
  ASSUME NEW n, Good(n), NEW r \in Reg, n.cpu.cell[r] \in DOMAIN At, NEW x \in Operand \cup {Acc}
  PROVE  Good(StoreAt(n, r, x))
<1> DEFINE t == At[n.cpu.cell[r]]
           v == Val(n.cpu, x)
           m == [n.cpu EXCEPT !.cell[t] = v]
           s == ClobberMem(n.st)
           kept(f) == IF f[1] = "L" /\ f[2] \notin Reg THEN None ELSE f
           ram(f) == IF f[1] = "L" /\ f[2] \in ByteCell \ Reg THEN None ELSE f
<1>1. t \in Ram /\ t \in Cell /\ t \notin BitCell /\ t \notin Reg /\ t \in ByteCell
  BY CellAssumption DEF Cell, ByteCell
<1>2. v \in Byte /\ Fits(t, v)
  BY <1>1, OperandValue, GoodParts DEF Fits
<1>3. m \in Cpu
  BY <1>1, <1>2, CellWritten, GoodParts
<1>4. m.a = n.cpu.a /\ m.b = n.cpu.b /\ m.c = n.cpu.c /\ m.dptr = n.cpu.dptr
      /\ \A c \in Cell \ {t} : m.cell[c] = n.cpu.cell[c]
  BY GoodParts DEF Cpu
<1>5. ASSUME NEW f \in Fact, NEW w, True(n.cpu, f, w)
      PROVE  kept(f) \in Fact /\ True(m, kept(f), w) /\ ram(f) \in Fact /\ True(m, ram(f), w)
  <2>1. CASE f = L(t)
    BY <2>1, <1>1, NoneTrue DEF L
  <2>2. CASE f # L(t)
    <3>1. True(m, f, w)
      BY <2>2, <1>1, <1>5, Outlives, GoodParts
    <3> QED BY <3>1, <1>5, NoneTrue
  <2> QED BY <2>1, <2>2
<1>6. s.a = kept(n.st.a) /\ s.b = kept(n.st.b)
      /\ s.c = (IF n.st.c[1] = "L" THEN None ELSE n.st.c)
      /\ s.dptr = (IF n.st.dptr[1] = "L" THEN None ELSE n.st.dptr)
      /\ s.mem = [c \in Memory |-> IF c \in Reg THEN ram(n.st.mem[c]) ELSE None]
      /\ s = [a |-> s.a, b |-> s.b, c |-> s.c, dptr |-> s.dptr, mem |-> s.mem]
  BY DEF ClobberMem
<1>7. s.a \in Fact /\ True(m, s.a, m.a) /\ s.b \in Fact /\ True(m, s.b, m.b)
  BY <1>4, <1>5, <1>6, GoodParts
<1>8. s.c \in BitFact /\ True(m, s.c, m.c)
  <2>1. CASE n.st.c[1] = "L"
    BY <2>1, <1>6, NoneTrue
  <2>2. CASE n.st.c[1] # "L"
    <3>1. n.st.c # L(t)
      BY <2>2 DEF L
    <3>2. True(m, n.st.c, n.cpu.c)
      BY <3>1, <1>1, Outlives, GoodParts
    <3>3. s.c = n.st.c
      BY <2>2, <1>6
    <3> QED BY <3>2, <3>3, <1>4, GoodParts
  <2> QED BY <2>1, <2>2
<1>9. \A c \in Memory : s.mem[c] \in Fact /\ True(m, s.mem[c], m.cell[c])
  <2> SUFFICES ASSUME NEW c \in Memory PROVE s.mem[c] \in Fact /\ True(m, s.mem[c], m.cell[c])
    OBVIOUS
  <2>1. CASE c \in Reg
    <3>1. c # t /\ c \in Cell
      BY <2>1, <1>1, MemoryIsCell
    <3> QED BY <2>1, <3>1, <1>4, <1>5, <1>6, GoodParts
  <2>2. CASE c \notin Reg
    BY <2>2, <1>6, NoneTrue
  <2> QED BY <2>1, <2>2
<1>10. s.mem \in [Memory -> Fact]
  BY <1>6, <1>9
<1>11. s.dptr \in DptrFact /\ s.dptr[1] # "L" /\ (s.dptr[1] = "E" => m.dptr = Where[s.dptr[2]])
  <2>1. s.dptr = None \/ (s.dptr = n.st.dptr /\ s.dptr[1] # "L")
    BY <1>6
  <2> HIDE DEF m, s, kept, ram
  <2>2. CASE s.dptr = None
    BY <2>2, NoneTrue DEF None
  <2>3. CASE s.dptr = n.st.dptr /\ s.dptr[1] # "L"
    BY <1>4, <2>3, GoodParts, DptrKept
  <2> QED BY <2>1, <2>2, <2>3
<1> HIDE DEF m, s, kept, ram
<1>12. s \in State
  BY <1>6, <1>7, <1>8, <1>10, <1>11 DEF State
<1>13. Known(Both(s, m))
  BY <1>7, <1>8, <1>9, <1>11 DEF Known, Both
<1>14. Good(Both(s, m))
  BY <1>3, <1>12, <1>13 DEF Good, Machine, Both
<1> QED BY <1>14 DEF StoreAt, m, s

-----------------------------------------------------------------------------
(***************************************************************************)
(* Moves and loads.                                                        *)
(***************************************************************************)
Source == Operand \cup BitOperand \cup {Tree(t) : t \in Folded}

LEMMA SourceShapes ==
  ASSUME NEW x \in Source
  PROVE  \/ x \in Operand /\ ~IsTree(x) /\ ~(x[1] = "L" /\ IsBit(x[2]))
         \/ x \in BitOperand /\ ~IsTree(x)
         \/ IsTree(x) /\ x[2] \in Folded /\ x[1] # "L" /\ x[1] # "K"
<1>1. CASE x \in Operand
  BY <1>1, PhysByte DEF Operand, Constant, IsTree, IsBit, K, E, L
<1>2. CASE x \in BitOperand
  BY <1>2 DEF BitOperand, IsTree, K, L
<1>3. CASE x \in {Tree(t) : t \in Folded}
  BY <1>3 DEF IsTree, Tree
<1> QED BY <1>1, <1>2, <1>3 DEF Source

LEMMA AccIsPlain == Acc[1] # "K" /\ Acc[1] # "E" /\ Acc[1] # "L" /\ ~IsTree(Acc)
  BY DEF Acc, IsTree

LEMMA FromCGood ==
  ASSUME NEW n, Good(n) PROVE Good(FromC(n))
  BY ClrAGood, RlcGood DEF FromC

LEMMA LoadPlainGood ==
  ASSUME NEW n, Good(n), NEW x \in Operand \cup BitOperand \cup {Acc}
  PROVE  Good(LoadPlain(n, x))
<1>1. CASE x[1] = "L" /\ IsBit(x[2])
  BY <1>1, MovCGood, FromCGood, ClrAGood, MovAGood DEF LoadPlain, IsBit
<1>2. CASE ~(x[1] = "L" /\ IsBit(x[2]))
  BY <1>2, ClrAGood, MovAGood DEF LoadPlain
<1> QED BY <1>1, <1>2

LEMMA PlusGood ==
  ASSUME NEW n, Good(n), NEW x \in Operand
  PROVE  Good(Plus(n, x))
<1>1. Val(n.cpu, x) \in Byte /\ 0 \in Bit
  BY OperandValue, GoodParts DEF Bit
<1> QED BY <1>1, IncAGood, SumGood DEF Plus

LEMMA FoldedShapes ==
  ASSUME NEW t \in Folded
  PROVE  /\ t[2] \in Operand
         /\ t[1] = "add" => t[3] \in Operand \ {K(0)}
         /\ t[1] \in {"add", "not", "low"}
  BY DEF Folded

LEMMA GenTreeGood ==
  ASSUME NEW n, Good(n), NEW t \in Folded
  PROVE  Good(GenTree(n, t))
<1>1. Good(LoadPlain(n, t[2]))
  BY LoadPlainGood, FoldedShapes
<1>2. CASE t[1] = "add"
  BY <1>1, <1>2, PlusGood, FoldedShapes DEF GenTree
<1>3. CASE t[1] = "not"
  BY <1>1, <1>3, IncAGood DEF GenTree
<1>4. CASE t[1] = "low"
  BY <1>1, <1>4 DEF GenTree
<1> QED BY <1>2, <1>3, <1>4, FoldedShapes

LEMMA LoadAGood ==
  ASSUME NEW n, Good(n), NEW x \in Source \cup {Acc}
  PROVE  Good(LoadA(n, x))
<1>1. CASE IsTree(x)
  BY <1>1, SourceShapes, AccIsPlain, GenTreeGood DEF LoadA
<1>2. CASE ~IsTree(x)
  BY <1>2, SourceShapes, LoadPlainGood DEF LoadA
<1> QED BY <1>1, <1>2

LEMMA StoreAGood ==
  ASSUME NEW n, Good(n), NEW l \in Loc
  PROVE  Good(StoreA(n, l))
<1>1. CASE IsBit(l)
  BY <1>1, RrcGood, MovBitGood DEF StoreA, IsBit
<1>2. CASE ~IsBit(l)
  <2>1. l \in ByteCell \cup DOMAIN Window
    BY <1>2 DEF IsBit, Loc, Cell
  <2> QED BY <1>2, <2>1, MovGood DEF StoreA
<1> QED BY <1>1, <1>2

LEMMA LowBit ==
  ASSUME NEW k \in Byte PROVE k % 2 \in Bit
  BY MIsPositive DEF Byte, Bit

LEMMA KIsByte ==
  ASSUME NEW x \in Operand \cup BitOperand, x[1] = "K" PROVE x[2] \in Byte /\ x = K(x[2])
  BY MIsPositive DEF Operand, BitOperand, Constant, K, E, L

LEMMA LoadCGood ==
  ASSUME NEW n, Good(n), NEW x \in Source
  PROVE  Good(LoadC(n, x))
<1>1. CASE x[1] = "K"
  <2>1. x[2] % 2 \in Bit
    BY <1>1, SourceShapes, KIsByte, LowBit
  <2> QED BY <1>1, <2>1, PutCGood DEF LoadC
<1>2. CASE x[1] # "K" /\ x[1] = "L" /\ IsBit(x[2])
  BY <1>2, MovCGood DEF LoadC, IsBit
<1>3. CASE x[1] # "K" /\ ~(x[1] = "L" /\ IsBit(x[2]))
  BY <1>3, LoadAGood, RrcGood DEF LoadC
<1> QED BY <1>1, <1>2, <1>3

\* The lowest register of a set.
LEMMA FirstIsMember ==
  ASSUME NEW S \in SUBSET Reg, S # {}
  PROVE  First(S) \in S
<1>1. S \subseteq 0 .. 7
  BY CellAssumption
<1>2. \E r \in S : \A q \in S : r <= q
  <2>1. CASE 0 \in S
    BY <2>1, <1>1
  <2>2. CASE 0 \notin S /\ 1 \in S
    BY <2>2, <1>1
  <2>3. CASE 0 \notin S /\ 1 \notin S /\ 2 \in S
    BY <2>3, <1>1
  <2>4. CASE 0 \notin S /\ 1 \notin S /\ 2 \notin S /\ 3 \in S
    BY <2>4, <1>1
  <2>5. CASE \A k \in 0 .. 3 : k \notin S
    <3>1. S \subseteq 4 .. 7
      BY <2>5, <1>1
    <3>2. CASE 4 \in S
      BY <3>1, <3>2
    <3>3. CASE 4 \notin S /\ 5 \in S
      BY <3>1, <3>3
    <3>4. CASE 4 \notin S /\ 5 \notin S /\ 6 \in S
      BY <3>1, <3>4
    <3>5. CASE 4 \notin S /\ 5 \notin S /\ 6 \notin S
      <4>1. S \subseteq {7}
        BY <3>1, <3>5
      <4>2. PICK r \in S : TRUE
        OBVIOUS
      <4>3. r = 7
        BY <4>1, <4>2
      <4> QED BY <4>1, <4>2, <4>3
    <3> QED BY <3>2, <3>3, <3>4, <3>5
  <2> QED BY <2>1, <2>2, <2>3, <2>4, <2>5
<1> QED BY <1>2 DEF First

LEMMA MoveByteGood ==
  ASSUME NEW n, Good(n), NEW l \in Loc, NEW x \in Source
  PROVE  Good(MoveByte(n, l, x))
<1> DEFINE f == ContentOf(n.st, x)
<1>1. CASE IsBit(l)
  BY <1>1, LoadCGood, MovBitGood DEF MoveByte, IsBit
<1>2. CASE ~IsBit(l) /\ x[1] = "L" /\ IsBit(x[2])
  BY <1>2, LoadCGood, FromCGood, StoreAGood DEF MoveByte
<1>3. CASE ~IsBit(l) /\ ~(x[1] = "L" /\ IsBit(x[2])) /\ (IsTree(x) \/ AHolds(n.st, x))
  BY <1>3, LoadAGood, StoreAGood DEF MoveByte
<1>4. CASE ~IsBit(l) /\ ~(x[1] = "L" /\ IsBit(x[2])) /\ ~(IsTree(x) \/ AHolds(n.st, x))
  <2>1. l \in ByteCell \cup DOMAIN Window
    BY <1>4 DEF IsBit, Loc, Cell
  <2>2. x \in Operand
    <3>1. x \in Operand \/ x \in BitOperand
      BY <1>4, SourceShapes
    <3>2. CASE x \in BitOperand
      BY <3>2, <1>4, MIsPositive DEF BitOperand, Operand, Constant, IsBit, L
    <3> QED BY <3>1, <3>2
  <2>3. Holding(n.st, f[2]) # {} => L(First(Holding(n.st, f[2]))) \in Operand
    <3> SUFFICES ASSUME Holding(n.st, f[2]) # {}
                 PROVE  L(First(Holding(n.st, f[2]))) \in Operand
      OBVIOUS
    <3>1. First(Holding(n.st, f[2])) \in Reg
      BY FirstIsMember DEF Holding
    <3> QED BY <3>1 DEF Operand, ByteCell
  <2> HIDE DEF f
  <2> QED BY <1>4, <2>1, <2>2, <2>3, MovGood DEF MoveByte, f
<1> QED BY <1>1, <1>2, <1>3, <1>4

LEMMA LoadBGood ==
  ASSUME NEW n, Good(n), NEW x \in Operand
  PROVE  Good(LoadB(n, x))
  BY MovBGood DEF LoadB

LEMMA LoadBThenAGood ==
  ASSUME NEW n, Good(n), NEW y \in Operand \cup {Tree(t) : t \in Folded},
         NEW x \in Operand \cup {Tree(t) : t \in Folded}, ~(IsTree(x) /\ IsTree(y))
  PROVE  Good(LoadBThenA(n, y, x))
<1>1. x \in Source /\ y \in Source
  BY DEF Source
<1>2. CASE IsTree(y)
  BY <1>1, <1>2, LoadAGood, MovBGood DEF LoadBThenA
<1>3. CASE ~IsTree(y)
  <2>1. y \in Operand
    BY <1>3 DEF IsTree, Tree
  <2> QED BY <1>1, <1>3, <2>1, LoadAGood, LoadBGood DEF LoadBThenA
<1> QED BY <1>2, <1>3

LEMMA StoreBitGood ==
  ASSUME NEW n, Good(n), NEW l \in BitCell, NEW x \in BitOperand
  PROVE  Good(StoreBit(n, l, x))
<1>1. x \in Source
  BY DEF Source
<1>2. x[1] = "K" => x[2] % 2 \in Bit
  BY KIsByte, LowBit
<1> QED BY <1>1, <1>2, PutBitGood, LoadCGood, MovBitGood DEF StoreBit

-----------------------------------------------------------------------------
(***************************************************************************)
(* Pointers: what operations leave alone, and where a pointer register     *)
(* points to.                                                              *)
(***************************************************************************)
LEMMA Division ==
  ASSUME NEW x \in Nat
  PROVE  x \div M \in Nat /\ x % M \in 0 .. M - 1 /\ x = M * (x \div M) + (x % M)
  BY MIsPositive

LEMMA Modulo ==
  ASSUME NEW q \in Nat, NEW w \in 0 .. M - 1
  PROVE  (M * q + w) % M = w
<1> DEFINE x == M * q + w
           d == x \div M
           y == x % M
<1>1. x \in Nat
  BY MIsPositive
<1>2. d \in Nat /\ y \in 0 .. M - 1 /\ M * q + w = M * d + y
  BY <1>1, Division
<1> HIDE DEF d, y
<1>3. CASE q < d
  <2>1. M * q + M <= M * d
    <3>1. q + 1 <= d
      BY <1>2, <1>3
    <3>2. M * (q + 1) <= M * d
      BY <1>2, <3>1, MIsPositive
    <3> QED BY <1>2, <3>2, MIsPositive
  <2> QED BY <1>2, <2>1, MIsPositive
<1>4. CASE d < q
  <2>1. M * d + M <= M * q
    <3>1. d + 1 <= q
      BY <1>2, <1>4
    <3>2. M * (d + 1) <= M * q
      BY <1>2, <3>1, MIsPositive
    <3> QED BY <1>2, <3>2, MIsPositive
  <2> QED BY <1>2, <2>1, MIsPositive
<1>5. CASE d = q
  BY <1>2, <1>5, MIsPositive DEF y
<1> QED BY <1>2, <1>3, <1>4, <1>5

\* Sums of bytes: a carry or none.
LEMMA ModuloSum ==
  ASSUME NEW x \in Nat, NEW k \in Byte
  PROVE  (x + k) % M = IF (x % M) + k < M THEN (x % M) + k ELSE (x % M) + k - M
<1> DEFINE q == x \div M
           w == x % M
<1>1. q \in Nat /\ w \in 0 .. M - 1 /\ x = M * q + w
  BY Division
<1> HIDE DEF q, w
<1>2. CASE w + k < M
  <2>1. x + k = M * q + (w + k) /\ w + k \in 0 .. M - 1
    BY <1>1, <1>2, MIsPositive DEF Byte
  <2> QED BY <1>1, <1>2, <2>1, Modulo DEF w
<1>3. CASE ~(w + k < M)
  <2>1. x + k = M * (q + 1) + (w + k - M) /\ w + k - M \in 0 .. M - 1 /\ q + 1 \in Nat
    BY <1>1, <1>3, MIsPositive DEF Byte
  <2> QED BY <1>1, <1>3, <2>1, Modulo DEF w
<1> QED BY <1>2, <1>3

LEMMA ByteModulo ==
  ASSUME NEW v \in Byte PROVE v % M = v
<1>1. v = M * 0 + v /\ v \in 0 .. M - 1
  BY MIsPositive DEF Byte
<1> QED BY <1>1, Modulo

LEMMA IncVModulo ==
  ASSUME NEW x \in Nat PROVE IncV(x % M) = (x + 1) % M
<1>1. x % M \in 0 .. M - 1
  BY Division
<1>2. (x + 1) % M = IF (x % M) + 1 < M THEN (x % M) + 1 ELSE (x % M) + 1 - M
  BY MIsPositive, ModuloSum
<1> QED BY <1>1, <1>2, MIsPositive DEF IncV

\* Only the remainder of an offset counts.
LEMMA OffsetModulo ==
  ASSUME NEW v \in Byte, NEW off \in Nat
  PROVE  /\ off % M \in Byte
         /\ (v + off) % M = (IF v + (off % M) < M THEN v + (off % M) ELSE v + (off % M) - M)
<1>1. off % M \in 0 .. M - 1
  BY Division
<1>2. v + off = off + v /\ v + (off % M) = (off % M) + v
  BY <1>1 DEF Byte
<1>3. (off + v) % M = IF (off % M) + v < M THEN (off % M) + v ELSE (off % M) + v - M
  BY ModuloSum
<1>4. off % M \in Byte
  BY <1>1 DEF Byte
<1> QED BY <1>1, <1>2, <1>3, <1>4, MIsPositive DEF Byte

\* Instructions that load A touch no cell.
LEMMA LoadPlainCells ==
  ASSUME NEW n, Good(n), NEW x \in Operand \cup BitOperand \cup {Acc}
  PROVE  LoadPlain(n, x).cpu.cell = n.cpu.cell
<1>1. \A p : Good(p) => ClrA(p).cpu.cell = p.cpu.cell /\ Rlc(p).cpu.cell = p.cpu.cell
                        /\ MovA(p, x).cpu.cell = p.cpu.cell
  BY GoodParts DEF ClrA, Rlc, MovA, Both, Cpu
<1>2. CASE x[1] = "L" /\ IsBit(x[2])
  <2>1. Good(MovC(n, x[2])) /\ MovC(n, x[2]).cpu.cell = n.cpu.cell
    BY <1>2, MovCGood, GoodParts DEF MovC, Both, Cpu, IsBit
  <2>2. FromC(MovC(n, x[2])).cpu.cell = n.cpu.cell
    BY <2>1, <1>1, ClrAGood DEF FromC
  <2> QED BY <1>2, <2>2 DEF LoadPlain
<1>3. CASE ~(x[1] = "L" /\ IsBit(x[2]))
  BY <1>1, <1>3 DEF LoadPlain
<1> QED BY <1>2, <1>3

LEMMA PlusCells ==
  ASSUME NEW n, Good(n), NEW x
  PROVE  Plus(n, x).cpu.cell = n.cpu.cell
  BY GoodParts DEF Plus, IncA, DecA, Sum, Both, Cpu

LEMMA LoadACells ==
  ASSUME NEW n, Good(n), NEW x \in Source \cup {Acc}
  PROVE  LoadA(n, x).cpu.cell = n.cpu.cell
<1>1. CASE ~IsTree(x)
  BY <1>1, SourceShapes, LoadPlainCells DEF LoadA
<1>2. CASE IsTree(x)
  <2> DEFINE t == x[2]
             p == LoadPlain(n, t[2])
  <2>1. t \in Folded /\ t[2] \in Operand
    BY <1>2, SourceShapes, AccIsPlain, FoldedShapes
  <2>2. Good(p) /\ p.cpu.cell = n.cpu.cell
    BY <2>1, LoadPlainGood, LoadPlainCells
  <2>3. CplA(p).cpu.cell = p.cpu.cell
    BY <2>2, GoodParts DEF CplA, Both, Cpu
  <2> HIDE DEF p, t
  <2>4. GenTree(n, t).cpu.cell = n.cpu.cell
    BY <2>2, <2>3, PlusCells DEF GenTree, p
  <2> QED BY <1>2, <2>4 DEF LoadA, t
<1> QED BY <1>1, <1>2

\* What A is known to hold it does hold.
LEMMA KnownEqual ==
  ASSUME NEW m, NEW f, f # None, NEW v, NEW w, True(m, f, v), True(m, f, w)
  PROVE  v = w
  BY DEF True

\* A byte is loaded into A.
LEMMA LoadPlainValue ==
  ASSUME NEW n, Good(n), NEW x \in Operand
  PROVE  LoadPlain(n, x).cpu.a = Val(n.cpu, x)
<1>1. ~(x[1] = "L" /\ IsBit(x[2])) /\ x # Acc
  BY PhysByte, AccIsPlain DEF Operand, Constant, IsBit, K, E, L
<1>2. True(n.cpu, ContentOf(n.st, x), Val(n.cpu, x))
  BY ContentTrue
<1>3. CASE AHolds(n.st, x)
  <2>1. n.st.a # None /\ n.st.a = ContentOf(n.st, x)
    BY <1>1, <1>3 DEF AHolds
  <2>2. n.cpu.a = Val(n.cpu, x)
    BY <2>1, <1>2, KnownEqual, GoodParts
  <2> QED BY <1>3, <2>2 DEF LoadPlain
<1>4. CASE ~AHolds(n.st, x) /\ ContentOf(n.st, x) = K(0)
  <2>1. Val(n.cpu, x) = 0
    BY <1>2, <1>4, KTrue, MIsPositive
  <2>2. ClrA(n).cpu.a = 0
    BY GoodParts DEF ClrA, Both, Cpu
  <2> QED BY <1>1, <1>4, <2>1, <2>2 DEF LoadPlain
<1>5. CASE ~AHolds(n.st, x) /\ ContentOf(n.st, x) # K(0)
  <2>1. MovA(n, x).cpu.a = Val(n.cpu, x)
    BY GoodParts DEF MovA, Both, Cpu
  <2> QED BY <1>1, <1>5, <2>1 DEF LoadPlain
<1> QED BY <1>3, <1>4, <1>5

LEMMA PlusValue ==
  ASSUME NEW n, Good(n), NEW k \in Byte
  PROVE  Plus(n, K(k)).cpu.a = IF n.cpu.a + k < M THEN n.cpu.a + k ELSE n.cpu.a + k - M
<1>1. n.cpu.a \in 0 .. M - 1 /\ k \in 0 .. M - 1 /\ M \in Nat
  BY GoodParts, MIsPositive DEF Byte
<1>2. \A j : K(k) = K(j) <=> k = j
  BY DEF K
<1>3. Val(n.cpu, K(k)) = k
  BY DEF Val, K, Acc
<1>4. CASE k = 0
  BY <1>1, <1>4 DEF Plus
<1>5. CASE k = 1
  <2>1. Plus(n, K(k)) = IncA(n)
    BY <1>2, <1>5 DEF Plus
  <2>2. IncA(n).cpu.a = IncV(n.cpu.a)
    BY GoodParts DEF IncA, Both, Cpu
  <2> QED BY <1>1, <1>5, <2>1, <2>2 DEF IncV
<1>6. CASE k # 0 /\ k # 1 /\ k = M - 1
  <2>1. Plus(n, K(k)) = DecA(n)
    BY <1>2, <1>6 DEF Plus
  <2>2. DecA(n).cpu.a = DecV(n.cpu.a)
    BY GoodParts DEF DecA, Both, Cpu
  <2> QED BY <1>1, <1>6, <2>1, <2>2 DEF DecV
<1>7. CASE k # 0 /\ k # 1 /\ k # M - 1
  <2>1. Plus(n, K(k)) = Sum(n, k, 0)
    BY <1>2, <1>3, <1>7 DEF Plus
  <2>2. PICK s : s = n.cpu.a + k + 0
    OBVIOUS
  <2>3. Sum(n, k, 0).cpu = [n.cpu EXCEPT !.a = IF s < M THEN s ELSE s - M, !.c = IF s < M THEN 0 ELSE 1]
    BY <2>2 DEF Sum, Both
  <2>4. Sum(n, k, 0).cpu.a = IF s < M THEN s ELSE s - M
    BY <2>3, GoodParts DEF Cpu
  <2>5. s = n.cpu.a + k /\ s \in Int
    BY <1>1, <2>2
  <2>6. CASE s < M
    BY <2>1, <2>4, <2>5, <2>6
  <2>7. CASE ~(s < M)
    BY <1>1, <2>1, <2>4, <2>5, <2>7
  <2> QED BY <2>6, <2>7
<1> QED BY <1>4, <1>5, <1>6, <1>7

\* One register is written, with a byte, and A stays.
Sets(n, m, r, v) == m.cell = [n.cpu.cell EXCEPT ![r] = v] /\ m.a = n.cpu.a

LEMMA RegisterCell ==
  ASSUME NEW l \in Reg \cup Ram
  PROVE  /\ l \in Cell /\ l \in Loc /\ l \in ByteCell /\ Phys(l) = l /\ ~IsBit(l)
         /\ L(l) \in Operand /\ L(l) \in Source /\ L(l) # Acc /\ ~IsTree(L(l))
         /\ \A m : Val(m, L(l)) = m.cell[l]
  BY CellIsPhys, PhysByte DEF Cell, Loc, ByteCell, IsBit, IsTree, Operand, Source, L, Acc, Val

LEMMA MovSets ==
  ASSUME NEW n, Good(n), NEW r \in Reg, NEW x
  PROVE  Sets(n, Mov(n, r, x).cpu, r, Val(n.cpu, x))
  BY GoodParts, RegisterCell DEF Sets, Mov, Both, Cpu

LEMMA SetsNothing ==
  ASSUME NEW n, Good(n), NEW r \in Reg, NEW v, v = n.cpu.cell[r]
  PROVE  Sets(n, n.cpu, r, v)
  BY GoodParts, RegisterCell DEF Sets, Cpu

\* The copy of a pointer to its register.
LEMMA PointerMoved ==
  ASSUME NEW n, Good(n), NEW p \in Reg \cup Ram, NEW r \in Reg
  PROVE  Sets(n, MoveByte(n, r, L(p)).cpu, r, n.cpu.cell[p])
<1> DEFINE x == L(p)
           v == n.cpu.cell[p]
<1>1. ~IsBit(r) /\ ~IsBit(p) /\ x[1] = "L" /\ x[2] = p /\ ~IsTree(x) /\ x \in Operand /\ x # Acc
  BY RegisterCell DEF L
<1>2. Val(n.cpu, x) = v /\ True(n.cpu, ContentOf(n.st, x), v)
  BY <1>1, ContentTrue, RegisterCell
<1>3. True(n.cpu, ContentOf(n.st, L(r)), n.cpu.cell[r])
  BY ContentTrue, RegisterCell
<1> HIDE DEF x, v
<1>4. CASE x = L(r)
  <2>1. v = n.cpu.cell[r]
    BY <1>2, <1>4, RegisterCell
  <2> QED BY <1>1, <1>4, <2>1, SetsNothing DEF MoveByte, x, v
<1>5. CASE x # L(r) /\ There(n.st, r, x)
  <2>1. v = n.cpu.cell[r]
    BY <1>2, <1>3, <1>5, KnownEqual DEF There
  <2> QED BY <1>1, <1>5, <2>1, SetsNothing DEF MoveByte, x, v
<1>6. CASE x # L(r) /\ ~There(n.st, r, x) /\ AHolds(n.st, x)
  <2>1. MoveByte(n, r, x) = StoreA(n, r)
    BY <1>1, <1>6 DEF MoveByte, LoadA, LoadPlain
  <2>2. n.st.a # None /\ n.st.a = ContentOf(n.st, x)
    BY <1>1, <1>6 DEF AHolds
  <2>3. n.cpu.a = v
    BY <1>2, <2>2, KnownEqual, GoodParts
  <2>4. CASE n.st.a = ContentOf(n.st, L(r))
    <3>1. v = n.cpu.cell[r]
      BY <1>2, <1>3, <2>2, <2>4, KnownEqual
    <3> QED BY <1>1, <2>1, <2>2, <2>4, <3>1, SetsNothing DEF StoreA, x, v
  <2>5. CASE n.st.a # ContentOf(n.st, L(r))
    <3>1. Val(n.cpu, Acc) = v
      BY <2>3 DEF Val
    <3> QED BY <1>1, <2>1, <2>5, <3>1, MovSets DEF StoreA, x, v
  <2> QED BY <2>4, <2>5
<1>7. CASE x # L(r) /\ ~There(n.st, r, x) /\ ~AHolds(n.st, x)
  <2>1. MoveByte(n, r, x) = Mov(n, r, x)
    BY <1>1, <1>7 DEF MoveByte
  <2> QED BY <1>2, <2>1, MovSets DEF x, v
<1> QED BY <1>4, <1>5, <1>6, <1>7

LEMMA IncRegSets ==
  ASSUME NEW n, Good(n), NEW r \in Reg, NEW x \in Nat, n.cpu.cell[r] = x % M
  PROVE  /\ Good(IncReg(n, r))
         /\ IncReg(n, r).cpu.cell = [n.cpu.cell EXCEPT ![r] = (x + 1) % M]
         /\ IncReg(n, r).cpu.cell[r] = (x + 1) % M
         /\ IncReg(n, r).cpu.a = n.cpu.a
<1>1. IncV(n.cpu.cell[r]) = (x + 1) % M
  BY IncVModulo
<1> QED BY <1>1, IncRegGood, GoodParts, RegisterCell DEF IncReg, Both, Cpu

LEMMA IncBySets ==
  ASSUME NEW n, Good(n), NEW r \in Reg, NEW k \in 0 .. 3
  PROVE  Good(IncBy(n, r, k)) /\ Sets(n, IncBy(n, r, k).cpu, r, (n.cpu.cell[r] + k) % M)
<1>1. PICK v \in Byte : v = n.cpu.cell[r]
  BY GoodParts, CpuCells, RegisterCell
<1>2. v \in Nat /\ v + 1 \in Nat /\ (v + 1) + 1 \in Nat /\ v % M = v /\ (v + 1) + 1 = v + 2
      /\ (v + 2) + 1 = v + 3 /\ v + 2 \in Nat /\ v + 0 = v
  BY ByteModulo DEF Byte
<1> DEFINE a == IncReg(n, r)
           b == IncReg(a, r)
           c == IncReg(b, r)
<1>3. Good(a) /\ a.cpu.cell[r] = (v + 1) % M /\ Sets(n, a.cpu, r, (v + 1) % M)
  BY <1>1, <1>2, IncRegSets DEF Sets
<1> HIDE DEF a
<1>4. /\ Good(b) /\ b.cpu.cell[r] = (v + 2) % M /\ b.cpu.a = a.cpu.a
      /\ b.cpu.cell = [a.cpu.cell EXCEPT ![r] = (v + 2) % M]
  BY <1>2, <1>3, IncRegSets
<1>5. Sets(n, b.cpu, r, (v + 2) % M)
  BY <1>3, <1>4, GoodParts DEF Sets, Cpu
<1> HIDE DEF b
<1>6. /\ Good(c) /\ c.cpu.a = b.cpu.a
      /\ c.cpu.cell = [b.cpu.cell EXCEPT ![r] = (v + 3) % M]
  <2>1. PICK w \in Nat : w = v + 2
    BY <1>2
  <2>2. Good(b) /\ b.cpu.cell[r] = w % M
    BY <1>4, <2>1
  <2>3. /\ Good(c) /\ c.cpu.a = b.cpu.a
        /\ c.cpu.cell = [b.cpu.cell EXCEPT ![r] = (w + 1) % M]
    BY <2>2, IncRegSets
  <2>4. w + 1 = v + 3
    BY <1>2, <2>1
  <2> QED BY <2>3, <2>4
<1>7. Sets(n, c.cpu, r, (v + 3) % M)
  BY <1>5, <1>6, GoodParts DEF Sets, Cpu
<1> HIDE DEF c
<1>8. CASE k = 0
  BY <1>1, <1>2, <1>8, SetsNothing DEF IncBy
<1>9. CASE k = 1
  BY <1>1, <1>3, <1>9 DEF IncBy, a
<1>10. CASE k = 2
  BY <1>1, <1>4, <1>5, <1>10 DEF IncBy, a, b
<1>11. CASE k = 3
  BY <1>1, <1>6, <1>7, <1>11 DEF IncBy, a, b, c
<1> QED BY <1>8, <1>9, <1>10, <1>11

\* The pointer register points where it should, and a value that waits in A is
\* still there unless set_rptr says it takes A.
Aimed(n, m, p, off, r) == m.cell = [n.cpu.cell EXCEPT ![r] = (n.cpu.cell[p] + off) % M]

LEMMA SetRptrSets ==
  ASSUME NEW n, Good(n), NEW p \in Reg \cup Ram, NEW off \in Nat, NEW r \in Reg,
         p = r => off \in 0 .. 3
  PROVE  /\ Good(SetRptr(n, p, off, r))
         /\ Aimed(n, SetRptr(n, p, off, r).cpu, p, off, r)
         /\ off \in 0 .. 2 \/ p = r => SetRptr(n, p, off, r).cpu.a = n.cpu.a
<1> DEFINE v == n.cpu.cell[p]
           x == L(p)
<1>1. v \in Byte /\ x \in Operand /\ x \in Source /\ x # Acc /\ ~IsTree(x) /\ r \in Loc /\ r \in Cell
      /\ Val(n.cpu, x) = v
  BY GoodParts, CpuCells, RegisterCell
<1>2. CASE p = r
  <2>1. SetRptr(n, p, off, r) = IncBy(n, r, off) /\ off \in 0 .. 3
    BY <1>2 DEF SetRptr
  <2>2. Good(IncBy(n, r, off)) /\ Sets(n, IncBy(n, r, off).cpu, r, (n.cpu.cell[r] + off) % M)
    BY <2>1, IncBySets
  <2> QED BY <1>2, <2>1, <2>2 DEF Sets, Aimed
<1>3. CASE p # r /\ off \in 0 .. 2
  <2> DEFINE q == MoveByte(n, r, x)
  <2>1. Good(q) /\ q.cpu.cell = [n.cpu.cell EXCEPT ![r] = v] /\ q.cpu.a = n.cpu.a
    BY <1>1, MoveByteGood, PointerMoved DEF Sets
  <2>2. q.cpu.cell[r] = v
    BY <1>1, <2>1, GoodParts DEF Cpu
  <2> HIDE DEF q
  <2>3. off \in 0 .. 3
    BY <1>3
  <2>4. Good(IncBy(q, r, off)) /\ Sets(q, IncBy(q, r, off).cpu, r, (v + off) % M)
    BY <2>1, <2>2, <2>3, IncBySets
  <2>5. IncBy(q, r, off).cpu.cell = [n.cpu.cell EXCEPT ![r] = (v + off) % M]
        /\ IncBy(q, r, off).cpu.a = n.cpu.a
    BY <2>1, <2>4, GoodParts DEF Sets, Cpu
  <2> QED BY <1>3, <2>4, <2>5 DEF SetRptr, Aimed, q
<1>4. CASE p # r /\ off \notin 0 .. 2
  <2> DEFINE q == LoadPlain(n, x)
             k == off % M
             w == Plus(q, K(k))
  <2>1. Good(q) /\ q.cpu.a = v /\ q.cpu.cell = n.cpu.cell /\ LoadA(n, x) = q
    BY <1>1, LoadPlainGood, LoadPlainValue, LoadPlainCells DEF LoadA
  <2>2. k \in Byte /\ (v + off) % M = IF v + k < M THEN v + k ELSE v + k - M
    BY <1>1, OffsetModulo
  <2>3. K(k) \in Operand
    BY <2>2 DEF Operand, Constant
  <2> HIDE DEF q, k
  <2>4. Good(w) /\ w.cpu.cell = n.cpu.cell /\ w.cpu.a = (v + off) % M
    BY <2>1, <2>2, <2>3, PlusGood, PlusCells, PlusValue
  <2> HIDE DEF w
  <2>5. Good(Mov(w, r, Acc)) /\ Sets(w, Mov(w, r, Acc).cpu, r, Val(w.cpu, Acc))
    BY <2>4, MovGood, MovSets, RegisterCell
  <2>6. Val(w.cpu, Acc) = (v + off) % M
    BY <2>4 DEF Val
  <2> QED BY <1>4, <2>1, <2>4, <2>5, <2>6 DEF SetRptr, Aimed, Sets, w, k
<1> QED BY <1>2, <1>3, <1>4

LEMMA SetRptrPoints ==
  ASSUME NEW n, Good(n), NEW p \in Reg \cup Ram, NEW off \in Nat, NEW r \in Reg,
         p = r => off \in 0 .. 3, Points(n.cpu, p, off)
  PROVE  SetRptr(n, p, off, r).cpu.cell[r] \in DOMAIN At
<1>1. (n.cpu.cell[p] + off) % M \in DOMAIN At /\ r \in Cell
  BY RegisterCell DEF Points
<1>2. SetRptr(n, p, off, r).cpu.cell = [n.cpu.cell EXCEPT ![r] = (n.cpu.cell[p] + off) % M]
  <2>1. Aimed(n, SetRptr(n, p, off, r).cpu, p, off, r)
    BY SetRptrSets
  <2> QED BY <2>1 DEF Aimed
<1>3. n.cpu.cell \in [Cell -> Byte]
  BY GoodParts DEF Cpu
<1> QED BY <1>1, <1>2, <1>3

-----------------------------------------------------------------------------
(***************************************************************************)
(* Loads and stores.                                                       *)
(***************************************************************************)

\* An expression that is stored leaves nothing known of A but a constant.
LEMMA StoredFact ==
  ASSUME NEW n, Good(n), NEW t \in Stored
  PROVE  GenTree(n, t).st.a = None \/ \E k \in Byte : GenTree(n, t).st.a = K(k)
<1> DEFINE q == LoadPlain(n, t[2])
<1>1. t \in Folded /\ t[1] # "low" /\ t[2] \in Operand
  BY CodeAssumption, StoredAssumption, FoldedShapes
<1>2. Good(q)
  BY <1>1, LoadPlainGood
<1>3. \A f, v : Fold(f, v) = None \/ Fold(f, v) = K(v)
  BY DEF Fold
<1> HIDE DEF q
<1>4. /\ CplA(q).st.a = None \/ \E v : CplA(q).st.a = K(v)
      /\ IncA(q).st.a = None \/ \E v : IncA(q).st.a = K(v)
      /\ DecA(q).st.a = None \/ \E v : DecA(q).st.a = K(v)
      /\ \A v, c : Sum(q, v, c).st.a = None
  BY <1>2, <1>3, GoodParts DEF CplA, IncA, DecA, Sum, Both, State
<1>5. GenTree(n, t).st.a = None \/ \E v : GenTree(n, t).st.a = K(v)
  <2>1. CASE t[1] = "add"
    <3>1. t[3] # K(0)
      BY <1>1, <2>1, FoldedShapes
    <3> QED BY <2>1, <3>1, <1>4 DEF GenTree, Plus, q
  <2>2. CASE t[1] = "not"
    BY <2>2, <1>4 DEF GenTree, q
  <2> QED BY <1>1, <2>1, <2>2, FoldedShapes
<1>6. GenTree(n, t).st.a \in Fact
  BY <1>1, GenTreeGood, GoodParts
<1> QED BY <1>5, <1>6, FactShapes DEF None, K, E, L

\* A fact that is no cell is true whatever the cells are.
LEMMA SetFactA ==
  ASSUME NEW n, Good(n), NEW f, f = None \/ \E k \in Byte : f = K(k), NEW m, True(m, f, n.cpu.a)
  PROVE  Good([n EXCEPT !.st.a = f])
<1>1. f \in Fact /\ True(n.cpu, f, n.cpu.a)
  BY NoneTrue, KTrue
<1>2. [n EXCEPT !.st.a = f] = Both([n.st EXCEPT !.a = f], n.cpu)
  BY GoodParts DEF Both
<1>3. [n.cpu EXCEPT !.a = n.cpu.a] = n.cpu
  BY GoodParts DEF Cpu
<1> QED BY <1>1, <1>2, <1>3, GoodParts, SetA

LEMMA StoreTreeGood ==
  ASSUME NEW n, Good(n), NEW p \in Reg \cup Ram, NEW off \in Offsets, NEW r \in Reg,
         p = r => off \in 0 .. 3, Points(n.cpu, p, off), NEW t \in Stored
  PROVE  Good(StoreTree(n, p, off, r, Tree(t)))
<1> DEFINE x == Tree(t)
           a == LoadA(n, x)
<1>1. x \in Source /\ t \in Folded /\ off \in Nat /\ off # 3 /\ LoadA(n, x) = GenTree(n, t)
  BY CodeAssumption, StoredAssumption DEF Source, LoadA, IsTree, Tree
<1>2. Good(a) /\ a.cpu.cell = n.cpu.cell
  BY <1>1, LoadAGood, LoadACells
<1>3. a.st.a = None \/ \E k \in Byte : a.st.a = K(k)
  BY <1>1, StoredFact
<1> HIDE DEF a
<1>4. Points(a.cpu, p, off)
  BY <1>2, RegisterCell DEF Points
<1>5. CASE RptrNeedsA(off)
  <2> DEFINE b == MovB(a, Acc)
             q == SetRptr(b, p, off, r)
  <2>1. Good(b) /\ b.cpu.cell = n.cpu.cell
    BY <1>2, MovBGood, GoodParts DEF MovB, Both, Cpu
  <2>2. Points(b.cpu, p, off)
    BY <2>1, RegisterCell DEF Points
  <2> HIDE DEF b
  <2>3. Good(q) /\ q.cpu.cell[r] \in DOMAIN At
    BY <1>1, <2>1, <2>2, SetRptrSets, SetRptrPoints
  <2> HIDE DEF q
  <2>4. Good(MovAB(q)) /\ MovAB(q).cpu.cell = q.cpu.cell
    BY <2>3, MovABGood, GoodParts DEF MovAB, Both, Cpu
  <2>5. Good(StoreAt(MovAB(q), r, Acc))
    BY <2>3, <2>4, StoreAtGood
  <2> QED BY <1>5, <2>5 DEF StoreTree, a, b, q
<1>6. CASE ~RptrNeedsA(off)
  <2> DEFINE q == SetRptr(a, p, off, r)
             w == [q EXCEPT !.st.a = a.st.a]
  <2>1. off \in 0 .. 2
    BY <1>1, <1>6 DEF RptrNeedsA
  <2>2. Good(q) /\ q.cpu.cell[r] \in DOMAIN At /\ q.cpu.a = a.cpu.a
    BY <1>1, <1>2, <1>4, <2>1, SetRptrSets, SetRptrPoints
  <2>3. True(a.cpu, a.st.a, q.cpu.a)
    BY <1>2, <2>2, GoodParts
  <2> HIDE DEF q
  <2>4. Good(w) /\ w.cpu = q.cpu
    BY <1>3, <2>2, <2>3, SetFactA, GoodParts DEF Both
  <2> HIDE DEF w
  <2>5. Good(StoreAt(w, r, Acc))
    BY <2>2, <2>4, StoreAtGood
  <2> QED BY <1>6, <2>5 DEF StoreTree, a, q, w
<1> QED BY <1>5, <1>6

LEMMA GenStoreGood ==
  ASSUME NEW n, Good(n), NEW p \in Reg \cup Ram, NEW off \in Offsets, NEW r \in Reg,
         p = r => off \in 0 .. 3, Points(n.cpu, p, off), NEW x \in Operand \cup {Tree(t) : t \in Stored}
  PROVE  Good(GenStore(n, p, off, r, x))
<1> DEFINE m == SetRptr(n, p, off, r)
<1>1. off \in Nat
  BY CodeAssumption
<1>2. Good(m) /\ m.cpu.cell[r] \in DOMAIN At
  BY <1>1, SetRptrSets, SetRptrPoints
<1> HIDE DEF m
<1>3. CASE IsTree(x)
  <2>1. PICK t \in Stored : x = Tree(t)
    BY <1>3 DEF Operand, Constant, IsTree, K, E, L
  <2>2. Good(StoreTree(n, p, off, r, x))
    BY <2>1, StoreTreeGood
  <2> QED BY <1>3, <2>2 DEF GenStore
<1>4. CASE ~IsTree(x)
  <2>1. x \in Operand /\ x \in Source
    BY <1>4 DEF IsTree, Tree, Source
  <2>2. Good(LoadA(m, x)) /\ LoadA(m, x).cpu.cell = m.cpu.cell
    BY <1>2, <2>1, LoadAGood, LoadACells
  <2>3. Good(StoreAt(LoadA(m, x), r, Acc))
    BY <1>2, <2>2, StoreAtGood
  <2>4. Good(StoreAt(m, r, Acc)) /\ Good(StoreAt(m, r, x))
    BY <1>2, <2>1, StoreAtGood
  <2> QED BY <1>4, <2>3, <2>4 DEF GenStore, m
<1> QED BY <1>3, <1>4

LEMMA GenLoadGood ==
  ASSUME NEW n, Good(n), NEW p \in Reg \cup Ram, NEW off \in Nat, NEW r \in Reg,
         p = r => off \in 0 .. 3, Points(n.cpu, p, off), NEW l \in Loc
  PROVE  Good(GenLoad(n, l, p, off, r))
<1> DEFINE m == SetRptr(n, p, off, r)
<1>1. Good(m) /\ m.cpu.cell[r] \in DOMAIN At
  BY SetRptrSets, SetRptrPoints
<1> HIDE DEF m
<1>2. Good(LoadAt(m, r))
  BY <1>1, LoadAtGood
<1> QED BY <1>2, StoreAGood DEF GenLoad, m

\* DPTR: no cell changes, and A stays unless the offset is added to it.
Beside(n, m) == m.cell = n.cpu.cell /\ m.a = n.cpu.a

LEMMA IncDptrByGood ==
  ASSUME NEW n, Good(n), NEW k \in 0 .. 3
  PROVE  Good(IncDptrBy(n, k)) /\ Beside(n, IncDptrBy(n, k).cpu)
<1>1. \A q : Good(q) => Beside(q, IncDptr(q).cpu)
  BY GoodParts DEF IncDptr, Both, Cpu, Beside
<1> DEFINE a == IncDptr(n)
           b == IncDptr(a)
           c == IncDptr(b)
<1>2. Good(a) /\ Beside(n, a.cpu)
  BY <1>1, IncDptrGood
<1> HIDE DEF a
<1>3. Good(b) /\ Beside(n, b.cpu)
  BY <1>1, <1>2, IncDptrGood DEF Beside
<1> HIDE DEF b
<1>4. Good(c) /\ Beside(n, c.cpu)
  BY <1>1, <1>3, IncDptrGood DEF Beside
<1> HIDE DEF c
<1>5. CASE k = 0
  BY <1>5 DEF IncDptrBy, Beside
<1>6. CASE k = 1
  BY <1>2, <1>6 DEF IncDptrBy, a
<1>7. CASE k = 2
  BY <1>3, <1>7 DEF IncDptrBy, a, b
<1>8. CASE k = 3
  BY <1>4, <1>8 DEF IncDptrBy, a, b, c
<1> QED BY <1>5, <1>6, <1>7, <1>8

LEMMA SetDptrGood ==
  ASSUME NEW n, Good(n), NEW e \in Expr
  PROVE  Good(SetDptr(n, e))
<1>1. \A k \in 1 .. 2 : Good(IncDptrBy(n, k))
  BY IncDptrByGood
<1> QED BY <1>1, MovDptrGood DEF SetDptr

LEMMA SetBaseGood ==
  ASSUME NEW n, Good(n), NEW lo \in Reg \cup Ram, NEW hi \in Reg \cup Ram
  PROVE  Good(SetBase(n, lo, hi)) /\ Beside(n, SetBase(n, lo, hi).cpu)
<1> DEFINE u == n.cpu.cell[lo]
           v == n.cpu.cell[hi]
           l == MovDpl(n, u)
           m == MovDph(l, v)
           f == <<"L", lo, hi>>
<1>1. u \in Byte /\ v \in Byte /\ Val(n.cpu, L(lo)) = u /\ Val(n.cpu, L(hi)) = v
      /\ Phys(lo) = lo /\ Phys(hi) = hi
  BY RegisterCell, GoodParts, CpuCells
<1>2. Good(l)
  BY <1>1, MovDplGood
<1>3. l.cpu.cell = n.cpu.cell /\ l.cpu.a = n.cpu.a /\ l.cpu.dptr = <<u, n.cpu.dptr[2]>>
  BY <1>1, MovDptrSets
<1> HIDE DEF l
<1>4. Good(m)
  BY <1>1, <1>2, MovDplGood
<1>5. m.cpu.cell = n.cpu.cell /\ m.cpu.a = n.cpu.a /\ m.cpu.dptr = <<l.cpu.dptr[1], v>>
  BY <1>1, <1>2, <1>3, MovDptrSets
<1> HIDE DEF m
<1>6. m.cpu.dptr = <<u, v>>
  BY <1>3, <1>5
<1>7. f \in DptrFact /\ f[1] = "L" /\ f[1] # "E" /\ f[2] = lo /\ f[3] = hi
  BY DEF DptrFact
<1>8. m.cpu.dptr \in Addr
  BY <1>4, GoodParts
<1>9. f[1] = "L" => m.cpu.dptr = <<m.cpu.cell[f[2]], m.cpu.cell[f[3]]>>
  BY <1>5, <1>6, <1>7
<1>10. Good(Both([m.st EXCEPT !.dptr = f], [m.cpu EXCEPT !.dptr = m.cpu.dptr]))
  BY <1>4, <1>7, <1>8, <1>9, SetDptrTrue
<1>11. [m.cpu EXCEPT !.dptr = m.cpu.dptr] = m.cpu
  BY <1>4, GoodParts DEF Cpu
<1>12. [m EXCEPT !.st.dptr = f] = Both([m.st EXCEPT !.dptr = f], m.cpu)
  BY <1>4, GoodParts DEF Both
<1>13. [m EXCEPT !.st.dptr = f] = Both([m.st EXCEPT !.dptr = f], [m.cpu EXCEPT !.dptr = m.cpu.dptr])
  BY <1>11, <1>12
<1>14. Good([m EXCEPT !.st.dptr = f]) /\ [m EXCEPT !.st.dptr = f].cpu = m.cpu
  BY <1>4, <1>10, <1>13, GoodParts DEF Both
<1>15. \/ SetBase(n, lo, hi) = m
       \/ SetBase(n, lo, hi) = n
       \/ SetBase(n, lo, hi) = [m EXCEPT !.st.dptr = f]
  BY <1>1 DEF SetBase, m, l, f
<1> QED BY <1>4, <1>5, <1>14, <1>15 DEF Beside

\* Nothing need be true of A before a sum.
LEMMA SumOfAnything ==
  ASSUME NEW n, Good(n), NEW v \in Byte, NEW k \in Byte, NEW c \in Bit
  PROVE  /\ Good(Sum([n EXCEPT !.cpu.a = v], k, c))
         /\ Sum([n EXCEPT !.cpu.a = v], k, c).cpu.cell = n.cpu.cell
<1>1. Good(Both([n.st EXCEPT !.a = None], [n.cpu EXCEPT !.a = v]))
  BY NoneTrue, SetA
<1>2. PICK q : q = Both([n.st EXCEPT !.a = None], [n.cpu EXCEPT !.a = v])
  OBVIOUS
<1>3. Good(Sum(q, k, c))
  BY <1>1, <1>2, SumGood
<1>4. [n EXCEPT !.cpu.a = v] = Both(n.st, [n.cpu EXCEPT !.a = v])
  BY GoodParts DEF Both
<1>5. [q.st EXCEPT !.a = None, !.c = None] = [n.st EXCEPT !.a = None, !.c = None]
  BY <1>2, GoodParts DEF Both, State
<1>6. q.cpu = [n.cpu EXCEPT !.a = v] /\ q.cpu.cell = n.cpu.cell
  BY <1>2, GoodParts DEF Both, Cpu
<1>7. Sum(q, k, c) = Sum([n EXCEPT !.cpu.a = v], k, c)
  BY <1>6, <1>4, <1>5 DEF Sum, Both
<1>8. Sum(q, k, c).cpu.cell = q.cpu.cell
  BY <1>1, <1>2, GoodParts DEF Sum, Both, Cpu
<1> QED BY <1>3, <1>6, <1>7, <1>8

LEMMA AddDptrGood ==
  ASSUME NEW n, Good(n), NEW off \in Nat
  PROVE  Good(AddDptr(n, off)) /\ AddDptr(n, off).cpu.cell = n.cpu.cell
<1> DEFINE l == Sum([n EXCEPT !.cpu.a = n.cpu.dptr[1]], off % M, 0)
           h == Sum([l EXCEPT !.cpu.a = n.cpu.dptr[2]], (off \div M) % M, l.cpu.c)
<1>1. n.cpu.dptr[1] \in Byte /\ n.cpu.dptr[2] \in Byte /\ 0 \in Bit
  BY GoodParts DEF Addr, Bit
<1>2. off % M \in Byte /\ (off \div M) % M \in Byte
  BY Division DEF Byte
<1>3. Good(l) /\ l.cpu.cell = n.cpu.cell
  BY <1>1, <1>2, SumOfAnything
<1> HIDE DEF l
<1>4. Good(h) /\ h.cpu.cell = n.cpu.cell
  <2>1. PICK c \in Bit : c = l.cpu.c
    BY <1>3, GoodParts
  <2>2. PICK v \in Byte, k \in Byte : v = n.cpu.dptr[2] /\ k = (off \div M) % M
    BY <1>1, <1>2
  <2>3. /\ Good(Sum([l EXCEPT !.cpu.a = v], k, c))
        /\ Sum([l EXCEPT !.cpu.a = v], k, c).cpu.cell = l.cpu.cell
    BY <1>3, SumOfAnything
  <2> QED BY <1>3, <2>1, <2>2, <2>3
<1> HIDE DEF h
<1>5. Good(MovDpl(h, l.cpu.a)) /\ MovDpl(h, l.cpu.a).cpu.cell = n.cpu.cell
  BY <1>3, <1>4, MovDplGood, MovDptrSets, GoodParts
<1>6. Good(MovDph(MovDpl(h, l.cpu.a), h.cpu.a))
      /\ MovDph(MovDpl(h, l.cpu.a), h.cpu.a).cpu.cell = n.cpu.cell
  BY <1>4, <1>5, MovDplGood, MovDptrSets, GoodParts
<1> QED BY <1>6 DEF AddDptr, l, h

LEMMA SetDptrMemGood ==
  ASSUME NEW n, Good(n), NEW lo \in Reg \cup Ram, NEW hi \in Reg \cup Ram, NEW off \in Nat
  PROVE  /\ Good(SetDptrMem(n, lo, hi, off))
         /\ SetDptrMem(n, lo, hi, off).cpu.cell = n.cpu.cell
         /\ off \in 0 .. 3 => SetDptrMem(n, lo, hi, off).cpu.a = n.cpu.a
<1> DEFINE m == SetBase(n, lo, hi)
<1>1. Good(m) /\ Beside(n, m.cpu)
  BY SetBaseGood
<1> HIDE DEF m
<1>2. CASE off \in 0 .. 3
  BY <1>1, <1>2, IncDptrByGood DEF SetDptrMem, Beside, m
<1>3. CASE off \notin 0 .. 3
  BY <1>1, <1>3, AddDptrGood DEF SetDptrMem, Beside, m
<1> QED BY <1>2, <1>3

LEMMA GenStoreXGood ==
  ASSUME NEW n, Good(n), NEW lo \in Reg \cup Ram, NEW hi \in Reg \cup Ram, NEW off \in Nat,
         NEW x \in Operand \cup {Tree(t) : t \in Folded}
  PROVE  Good(GenStoreX(n, lo, hi, off, x))
<1> DEFINE a == LoadA(n, x)
<1>1. x \in Source
  BY DEF Source
<1>2. Good(a)
  BY <1>1, LoadAGood
<1> HIDE DEF a
<1>3. CASE ~IsTree(x)
  BY <1>1, <1>3, SetDptrMemGood, LoadAGood DEF GenStoreX
<1>4. CASE IsTree(x) /\ DptrNeedsA(off)
  <2>1. Good(MovB(a, Acc))
    BY <1>2, MovBGood
  <2>2. Good(MovAB(SetDptrMem(MovB(a, Acc), lo, hi, off)))
    BY <2>1, SetDptrMemGood, MovABGood
  <2> QED BY <1>4, <2>2 DEF GenStoreX, a
<1>5. CASE IsTree(x) /\ ~DptrNeedsA(off)
  <2> DEFINE q == SetDptrMem(a, lo, hi, off)
             f == a.st.a
  <2>1. off \in 0 .. 3
    BY <1>5 DEF DptrNeedsA
  <2>2. Good(q) /\ q.cpu.cell = a.cpu.cell /\ q.cpu.a = a.cpu.a
    BY <1>2, <2>1, SetDptrMemGood
  <2> HIDE DEF q
  <2>3. f \in Fact /\ True(a.cpu, f, a.cpu.a)
    BY <1>2, GoodParts
  <2>4. f \in Fact /\ True(q.cpu, f, q.cpu.a) /\ q.cpu.a \in Byte
    BY <2>2, <2>3, SameCells, GoodParts
  <2> HIDE DEF f
  <2>5. Good(Both([q.st EXCEPT !.a = f], [q.cpu EXCEPT !.a = q.cpu.a]))
    BY <2>2, <2>4, SetA
  <2>6. [q.cpu EXCEPT !.a = q.cpu.a] = q.cpu
    BY <2>2, GoodParts DEF Cpu
  <2>7. [q EXCEPT !.st.a = f] = Both([q.st EXCEPT !.a = f], q.cpu)
    BY <2>2, GoodParts DEF Both
  <2> QED BY <1>5, <2>5, <2>6, <2>7 DEF GenStoreX, a, q, f
<1> QED BY <1>3, <1>4, <1>5

LEMMA LoadXGood ==
  ASSUME NEW n, Good(n), NEW l \in Loc, NEW v \in Byte
  PROVE  Good(LoadX(n, l, v))
  BY NoneTrue, SetA, StoreAGood DEF LoadX

LEMMA CallPtrGood ==
  ASSUME NEW n, Good(n), NEW lo \in Reg \cup Ram, NEW hi \in Reg \cup Ram, NEW l \in Loc,
         NEW x \in Source
  PROVE  Good(CallPtr(n, L(lo), L(hi), l, x))
<1>1. Val(n.cpu, L(lo)) \in Byte /\ Val(n.cpu, L(hi)) \in Byte
  BY RegisterCell, OperandValue, GoodParts
<1> QED BY <1>1, MovDplGood, MoveByteGood DEF CallPtr

\* Knowing nothing is right of any machine.
LEMMA FreshGood ==
  ASSUME NEW m \in Cpu PROVE Good(Both(Fresh, m))
<1>1. Fresh \in State
  BY NoneTrue DEF Fresh, State
<1>2. Known(Both(Fresh, m))
  BY NoneTrue DEF Known, Fresh, Both, None
<1> QED BY <1>1, <1>2 DEF Good, Machine, Both

\* Nothing is known of special function registers: they may change.
LEMMA UntrackedGood ==
  ASSUME NEW n, Good(n), NEW l \in Sfr \cup SfrBit, NEW v, Fits(l, v)
  PROVE  Good(Both(n.st, [n.cpu EXCEPT !.cell[l] = v]))
<1>1. l \in Loc /\ Phys(l) = l /\ ~Tracked(l)
  BY CellIsPhys, CellAssumption DEF Loc, Cell, ByteCell, BitCell, Tracked
<1>2. Write(n.st, l, None) = n.st
  BY <1>1 DEF Write
<1>3. Good(Both(Write(n.st, l, None), [n.cpu EXCEPT !.cell[Phys(l)] = v]))
  BY <1>1, NoneTrue, WriteTrue
<1> QED BY <1>1, <1>2, <1>3

-----------------------------------------------------------------------------
(***************************************************************************)
(* The basic block.                                                        *)
(***************************************************************************)
Inv == Good(Now) /\ ops \in 0 .. MaxOps

LEMMA InputShapes ==
  /\ Plain \subseteq Operand
  /\ Sources \subseteq Operand \cup {Tree(t) : t \in Folded} /\ Sources \subseteq Source
  /\ Places \subseteq Loc /\ BitCell \subseteq Loc
  /\ Pointers \subseteq Reg \cup Ram /\ PtrReg \subseteq Reg
  /\ \A w \in Words : w[1] \in Reg \cup Ram /\ w[2] \in Reg \cup Ram
  /\ Outside \subseteq Byte /\ Offsets \subseteq Nat
  BY CodeAssumption, PhysByte
     DEF Plain, Sources, Operand, Source, Places, Loc, Cell, PtrReg

LEMMA BecomeGood ==
  ASSUME Inv, NEW n, Good(n), Become(n)
  PROVE  Inv'
<1>1. Now' = n
  BY GoodParts DEF Become, Now, Both
<1>2. ops' \in 0 .. MaxOps
  BY CodeAssumption DEF Inv, Become
<1> QED BY <1>1, <1>2 DEF Inv

\* No operation makes the selector believe what is not so.
LEMMA StepGood ==
  ASSUME Inv, Next
  PROVE  Inv'
<1>1. Good(Now)
  BY DEF Inv
<1>2. CASE Move
  <2>1. PICK l \in Places, x \in Sources : Become(MoveByte(Now, l, x))
    BY <1>2 DEF Move
  <2>2. Good(MoveByte(Now, l, x))
    BY <1>1, InputShapes, MoveByteGood
  <2> QED BY <2>1, <2>2, BecomeGood
<1>3. CASE MoveBit
  <2>1. \A l \in Loc, x \in Source : Good(MoveByte(Now, l, x))
    BY <1>1, MoveByteGood
  <2>2. \A l \in BitCell, x \in BitOperand : Good(StoreBit(Now, l, x))
    BY <1>1, StoreBitGood
  <2>3. BitOperand \subseteq Source
    BY DEF Source
  <2>4. CASE \E l \in BitCell, x \in BitOperand \cup Sources : Become(MoveByte(Now, l, x))
    <3>1. PICK l \in BitCell, x \in BitOperand \cup Sources : Become(MoveByte(Now, l, x))
      BY <2>4
    <3>2. Good(MoveByte(Now, l, x))
      BY <2>1, <2>3, InputShapes
    <3> QED BY <3>1, <3>2, BecomeGood
  <2>5. CASE \E l \in Places, x \in BitOperand : Become(MoveByte(Now, l, x))
    <3>1. PICK l \in Places, x \in BitOperand : Become(MoveByte(Now, l, x))
      BY <2>5
    <3>2. Good(MoveByte(Now, l, x))
      BY <2>1, <2>3, InputShapes
    <3> QED BY <3>1, <3>2, BecomeGood
  <2>6. CASE \E l \in BitCell, x \in BitOperand : Become(StoreBit(Now, l, x))
    BY <2>2, <2>6, BecomeGood
  <2> QED BY <1>3, <2>4, <2>5, <2>6 DEF MoveBit
<1>4. CASE Multiply
  <2>1. PICK y \in Plain, x \in Sources, v \in Outside, w \in Outside :
          LET n == LoadBThenA(Now, y, x)
          IN Become(Both([n.st EXCEPT !.a = None, !.b = None, !.c = K(0)],
                         [n.cpu EXCEPT !.a = v, !.b = w, !.c = 0]))
    BY <1>4 DEF Multiply
  <2>2. PICK n : n = LoadBThenA(Now, y, x)
    OBVIOUS
  <2>3. ~IsTree(y)
    BY InputShapes DEF Operand, Constant, IsTree, K, E, L
  <2>4. Good(n)
    BY <1>1, <2>2, <2>3, InputShapes, LoadBThenAGood
  <2> DEFINE s == [n.st EXCEPT !.a = None, !.b = None, !.c = K(0)]
             m == [n.cpu EXCEPT !.a = v, !.b = w, !.c = 0]
  <2>5. v \in Byte /\ w \in Byte /\ 0 \in Bit /\ 0 \in Byte
    BY InputShapes, MIsPositive DEF Bit
  <2>6. /\ s \in State /\ s.a = None /\ s.b = None /\ s.c = K(0)
        /\ s.mem = n.st.mem /\ s.dptr = n.st.dptr
    BY <2>4, <2>5, GoodParts, NoneTrue, KTrue DEF State
  <2>7. m \in Cpu /\ m.c = 0 /\ m.cell = n.cpu.cell /\ m.dptr = n.cpu.dptr
    <3>1. n.cpu \in Cpu /\ n.cpu.dptr \in Addr
      BY <2>4, GoodParts, CpuCells
    <3>2. m \in Cpu
      BY <2>5, <3>1, CpuRegisters
    <3>3. m.c = 0 /\ m.cell = n.cpu.cell /\ m.dptr = n.cpu.dptr
      BY <3>1 DEF Cpu
    <3> QED BY <3>2, <3>3
  <2> HIDE DEF s, m
  <2>8. True(n.cpu, s.a, m.a) /\ True(n.cpu, s.b, m.b) /\ True(n.cpu, s.c, m.c)
    BY <2>5, <2>6, <2>7, NoneTrue, KTrue
  <2>9. Good(Both(s, m))
    BY <2>4, <2>6, <2>7, <2>8, Registers, DptrKept
  <2> QED BY <2>1, <2>2, <2>9, BecomeGood DEF s, m
<1>5. CASE LoadVolatile
  <2>1. PICK l \in Places, x \in {L(c) : c \in Ram \cup Sfr} :
          Become([MoveByte(Now, l, x) EXCEPT !.st.a = None])
    BY <1>5 DEF LoadVolatile
  <2>2. x \in Source
    BY DEF Source, Operand, ByteCell
  <2>3. PICK n : n = MoveByte(Now, l, x)
    OBVIOUS
  <2>4. Good(n)
    BY <1>1, <2>2, <2>3, InputShapes, MoveByteGood
  <2>5. Good([n EXCEPT !.st.a = None])
    BY <2>4, NoneTrue, SetFactA
  <2> QED BY <2>1, <2>3, <2>5, BecomeGood
<1>6. CASE Load
  <2>1. PICK l \in Places, p \in Pointers, off \in Offsets, r \in PtrReg :
          /\ Points(cpu, p, off) /\ CanPoint(p, off, r, None)
          /\ Become(GenLoad(Now, l, p, off, r))
    BY <1>6 DEF Load
  <2>2. l \in Loc /\ p \in Reg \cup Ram /\ off \in Nat /\ r \in Reg /\ (p = r => off \in 0 .. 3)
        /\ Points(Now.cpu, p, off)
    BY <2>1, InputShapes DEF CanPoint, Now, Both
  <2>3. Good(GenLoad(Now, l, p, off, r))
    BY <1>1, <2>2, GenLoadGood
  <2> QED BY <2>1, <2>3, BecomeGood
<1>7. CASE Store
  <2>1. PICK x \in Plain \cup {Tree(t) : t \in Stored}, p \in Pointers, off \in Offsets,
             r \in PtrReg :
          /\ Points(cpu, p, off) /\ CanPoint(p, off, r, x)
          /\ Become(GenStore(Now, p, off, r, x))
    BY <1>7 DEF Store
  <2>2. /\ x \in Operand \cup {Tree(t) : t \in Stored} /\ p \in Reg \cup Ram /\ r \in Reg
        /\ p = r => off \in 0 .. 3
        /\ Points(Now.cpu, p, off)
    BY <2>1, InputShapes DEF CanPoint, Now, Both
  <2>3. Good(GenStore(Now, p, off, r, x))
    BY <1>1, <2>2, GenStoreGood
  <2> QED BY <2>1, <2>3, BecomeGood
<1>8. CASE LoadExternal
  <2>1. PICK l \in Places, v \in Outside :
          \/ \E e \in Expr : Become(LoadX(SetDptr(Now, e), l, v))
          \/ \E w \in Words, off \in Offsets : Become(LoadX(SetDptrMem(Now, w[1], w[2], off), l, v))
    BY <1>8 DEF LoadExternal
  <2>2. l \in Loc /\ v \in Byte
    BY InputShapes
  <2>3. \A e \in Expr : Good(LoadX(SetDptr(Now, e), l, v))
    BY <1>1, <2>2, SetDptrGood, LoadXGood
  <2>4. \A w \in Words, off \in Offsets : Good(LoadX(SetDptrMem(Now, w[1], w[2], off), l, v))
    BY <1>1, <2>2, InputShapes, SetDptrMemGood, LoadXGood
  <2> QED BY <2>1, <2>3, <2>4, BecomeGood
<1>9. CASE StoreExternal
  <2>1. PICK x \in Sources, w \in Words, off \in Offsets :
          Become(GenStoreX(Now, w[1], w[2], off, x))
    BY <1>9 DEF StoreExternal
  <2>2. Good(GenStoreX(Now, w[1], w[2], off, x))
    BY <1>1, InputShapes, GenStoreXGood
  <2> QED BY <2>1, <2>2, BecomeGood
<1>10. CASE Call
  <2>1. PICK l \in Places, v \in Outside :
          Become(StoreA(Both(Fresh, [a |-> v, b |-> v, c |-> 0, dptr |-> <<v, v>>,
                                     cell |-> [c \in Cell |-> IF IsBit(c) THEN 0 ELSE v]]), l))
    BY <1>10 DEF Call
  <2> DEFINE m == [a |-> v, b |-> v, c |-> 0, dptr |-> <<v, v>>,
                   cell |-> [c \in Cell |-> IF IsBit(c) THEN 0 ELSE v]]
  <2>2. v \in Byte /\ l \in Loc /\ 0 \in Byte /\ 0 \in Bit
    BY InputShapes, MIsPositive DEF Bit
  <2>3. m \in Cpu
    BY <2>2 DEF Cpu, Addr, IsBit, Cell
  <2> HIDE DEF m
  <2>4. Good(StoreA(Both(Fresh, m), l))
    BY <2>2, <2>3, FreshGood, StoreAGood
  <2> QED BY <2>1, <2>4, BecomeGood DEF m
<1>11. CASE CallPointer
  <2>1. PICK w \in Words, l \in Reg, x \in Plain :
          Become(Both(Fresh, CallPtr(Now, L(w[1]), L(w[2]), l, x).cpu))
    BY <1>11 DEF CallPointer
  <2>2. l \in Loc /\ x \in Source
    BY InputShapes, RegisterCell DEF Source
  <2>3. Good(CallPtr(Now, L(w[1]), L(w[2]), l, x))
    BY <1>1, <2>2, InputShapes, CallPtrGood
  <2>4. Good(Both(Fresh, CallPtr(Now, L(w[1]), L(w[2]), l, x).cpu))
    BY <2>3, GoodParts, FreshGood
  <2> QED BY <2>1, <2>4, BecomeGood
<1>12. CASE Label
  <2>1. cpu \in Cpu
    BY <1>1, GoodParts DEF Now, Both
  <2>2. Good(Both(Fresh, cpu))
    BY <2>1, FreshGood
  <2> QED BY <1>12, <2>2, BecomeGood DEF Label
<1>13. CASE CritEnter
  <2>1. PICK flag \in SfrBit, l \in BitRam :
          LET was == PutC(Now, cpu.cell[flag])
          IN Become(MovBit(Both([was.st EXCEPT !.c = None], [was.cpu EXCEPT !.cell[flag] = 0]), l))
    BY <1>13 DEF CritEnter
  <2>2. PICK was : was = PutC(Now, cpu.cell[flag])
    OBVIOUS
  <2>3. cpu.cell[flag] \in Bit /\ l \in BitCell
    BY <1>1, GoodParts, CpuCells DEF Now, Both, BitCell
  <2>4. Good(was)
    BY <1>1, <2>2, <2>3, PutCGood
  <2> DEFINE q == Both([was.st EXCEPT !.c = None], was.cpu)
  <2>5. [was.cpu EXCEPT !.c = was.cpu.c] = was.cpu /\ was.cpu.c \in Bit
    BY <2>4, GoodParts DEF Cpu
  <2>6. Good(Both([was.st EXCEPT !.c = None], [was.cpu EXCEPT !.c = was.cpu.c]))
    BY <2>4, <2>5, NoneTrue, SetC
  <2>7. Good(q) /\ q.st = [was.st EXCEPT !.c = None] /\ q.cpu = was.cpu
    BY <2>5, <2>6 DEF Both
  <2> HIDE DEF q
  <2>8. Fits(flag, 0)
    BY MIsPositive DEF Fits, Bit
  <2>9. Good(Both(q.st, [q.cpu EXCEPT !.cell[flag] = 0]))
    BY <2>7, <2>8, UntrackedGood
  <2>10. Good(MovBit(Both(q.st, [q.cpu EXCEPT !.cell[flag] = 0]), l))
    BY <2>3, <2>9, MovBitGood
  <2> QED BY <2>1, <2>2, <2>7, <2>10, BecomeGood
<1>14. CASE Hardware
  <2>1. PICK l \in Sfr \cup SfrBit, v \in Byte : Fits(l, v) /\ cpu' = [cpu EXCEPT !.cell[l] = v]
    <3>1. \A l \in Sfr, v \in Outside : v \in Byte /\ Fits(l, v)
      BY CellAssumption, InputShapes DEF Fits, ByteCell
    <3>2. 1 \in Byte /\ \A l \in SfrBit : Fits(l, 1)
      BY MIsPositive DEF Fits, Bit
    <3> QED BY <1>14, <3>1, <3>2 DEF Hardware
  <2>2. st' = st /\ ops' = ops
    BY <1>14 DEF Hardware
  <2>3. Good(Both(st, [cpu EXCEPT !.cell[l] = v]))
    BY <1>1, <2>1, UntrackedGood DEF Now, Both
  <2>4. Now' = Both(st, [cpu EXCEPT !.cell[l] = v])
    BY <2>1, <2>2 DEF Now, Both
  <2> QED BY <2>2, <2>3, <2>4 DEF Inv
<1> QED BY <1>2, <1>3, <1>4, <1>5, <1>6, <1>7, <1>8, <1>9, <1>10, <1>11, <1>12, <1>13, <1>14
        DEF Next

LEMMA InvHolds == Spec => []Inv
<1>1. Init => Inv
  <2> SUFFICES ASSUME Init PROVE Inv
    OBVIOUS
  <2>1. cpu \in Cpu
    BY CodeAssumption DEF Init
  <2>2. Good(Both(Fresh, cpu))
    BY <2>1, FreshGood
  <2> QED BY <2>2, CodeAssumption DEF Init, Inv, Now
<1>2. Inv /\ UNCHANGED vars => Inv'
  BY DEF Inv, Now, vars, Good, Known, Both
<1>3. Inv /\ [Next]_vars => Inv'
  BY <1>2, StepGood
<1> QED BY <1>1, <1>3, PTL DEF Spec

\* Every fact and every register, cell and count keeps its shape (select.rs:22), whatever
\* the number of cells and values.
THEOREM TypeCorrect == Spec => []TypeOK
<1>1. Inv => TypeOK
  BY DEF Inv, TypeOK, Good, Machine, Now, Both
<1> QED BY <1>1, InvHolds, PTL

\* What the selector believes of the machine is so after every sequence of operations
\* (select.rs:160), for every number of registers, bytes of RAM, bits and values.
THEOREM FactsAreTrue == Spec => []FactsTrue
<1>1. Inv => FactsTrue
  BY DEF Inv, FactsTrue, Good
<1> QED BY <1>1, InvHolds, PTL

-----------------------------------------------------------------------------
(***************************************************************************)
(* What operations deliver.                                                *)
(***************************************************************************)
FoldedTrees == {Tree(t) : t \in Folded}

\* Arithmetic in A and C leaves the rest of the machine alone.
Keeps(n, m) == m.b = n.cpu.b /\ m.dptr = n.cpu.dptr /\ m.cell = n.cpu.cell

LEMMA ArithmeticKeeps ==
  ASSUME NEW n, Good(n)
  PROVE  /\ Keeps(n, n.cpu) /\ Keeps(n, ClrA(n).cpu) /\ Keeps(n, CplA(n).cpu)
         /\ Keeps(n, IncA(n).cpu) /\ Keeps(n, DecA(n).cpu)
         /\ Keeps(n, Rlc(n).cpu) /\ Keeps(n, Rrc(n).cpu)
         /\ \A v, c : Keeps(n, Sum(n, v, c).cpu)
         /\ \A k : Keeps(n, PutC(n, k).cpu)
         /\ \A l : Keeps(n, MovC(n, l).cpu)
         /\ \A x : Keeps(n, MovA(n, x).cpu)
  BY GoodParts DEF Keeps, ClrA, CplA, IncA, DecA, Rlc, Rrc, Sum, PutC, MovC, MovA, Both, Cpu

LEMMA KeepsTwice ==
  ASSUME NEW n, NEW p, NEW q, Keeps(n, p.cpu), Keeps(p, q)
  PROVE  Keeps(n, q)
  BY DEF Keeps

LEMMA FromCKeeps ==
  ASSUME NEW n, Good(n) PROVE Keeps(n, FromC(n).cpu)
  BY ClrAGood, ArithmeticKeeps, KeepsTwice DEF FromC

LEMMA LoadPlainKeeps ==
  ASSUME NEW n, Good(n), NEW x \in Operand \cup BitOperand \cup {Acc}
  PROVE  Keeps(n, LoadPlain(n, x).cpu)
<1>1. CASE x[1] = "L" /\ IsBit(x[2])
  <2>1. Good(MovC(n, x[2])) /\ Keeps(n, MovC(n, x[2]).cpu)
    BY <1>1, MovCGood, ArithmeticKeeps DEF IsBit
  <2>2. Keeps(n, FromC(MovC(n, x[2])).cpu)
    BY <2>1, FromCKeeps, KeepsTwice
  <2> QED BY <1>1, <2>2, ArithmeticKeeps DEF LoadPlain
<1>2. CASE ~(x[1] = "L" /\ IsBit(x[2]))
  BY <1>2, ArithmeticKeeps DEF LoadPlain
<1> QED BY <1>1, <1>2

LEMMA PlusKeeps ==
  ASSUME NEW n, Good(n), NEW x PROVE Keeps(n, Plus(n, x).cpu)
  BY ArithmeticKeeps DEF Plus

LEMMA LoadAKeeps ==
  ASSUME NEW n, Good(n), NEW x \in Source \cup {Acc}
  PROVE  Keeps(n, LoadA(n, x).cpu)
<1>1. CASE ~IsTree(x)
  BY <1>1, SourceShapes, LoadPlainKeeps DEF LoadA
<1>2. CASE IsTree(x)
  <2> DEFINE t == x[2]
             p == LoadPlain(n, t[2])
  <2>1. t \in Folded /\ t[2] \in Operand
    BY <1>2, SourceShapes, AccIsPlain, FoldedShapes
  <2>2. Good(p) /\ Keeps(n, p.cpu)
    BY <2>1, LoadPlainGood, LoadPlainKeeps
  <2> HIDE DEF p, t
  <2>3. \A y : Keeps(n, Plus(p, y).cpu)
    BY <2>2, PlusKeeps, KeepsTwice
  <2>4. Keeps(n, CplA(p).cpu)
    BY <2>2, ArithmeticKeeps, KeepsTwice
  <2>5. Keeps(n, GenTree(n, t).cpu)
    BY <2>2, <2>3, <2>4 DEF GenTree, p
  <2> QED BY <1>2, <2>5 DEF LoadA, t
<1> QED BY <1>1, <1>2

LEMMA LoadCKeeps ==
  ASSUME NEW n, Good(n), NEW x \in Source
  PROVE  Keeps(n, LoadC(n, x).cpu)
<1>1. Good(LoadA(n, x)) /\ Keeps(n, LoadA(n, x).cpu)
  BY LoadAGood, LoadAKeeps
<1>2. Keeps(n, Rrc(LoadA(n, x)).cpu)
  BY <1>1, ArithmeticKeeps, KeepsTwice
<1> QED BY <1>2, ArithmeticKeeps DEF LoadC

\* The values of operands are the same where no cell differs.
LEMMA ValKept ==
  ASSUME NEW n, NEW m, m.cell = n.cpu.cell, NEW x, x # Acc
  PROVE  Val(m, x) = Val(n.cpu, x)
  BY DEF Val

LEMMA ByteSum ==
  ASSUME NEW a \in Byte, NEW k \in Byte
  PROVE  (a + k) % M = IF a + k < M THEN a + k ELSE a + k - M
<1>1. a \in Nat /\ a % M = a
  BY ByteModulo DEF Byte
<1> QED BY <1>1, ModuloSum

LEMMA OperandIsPlain ==
  ASSUME NEW x \in Operand
  PROVE  x # Acc /\ ~IsTree(x) /\ ~(x[1] = "L" /\ IsBit(x[2]))
  BY SourceShapes, AccIsPlain, PhysByte DEF Operand, Constant, IsBit, IsTree, K, E, L

LEMMA SumValue ==
  ASSUME NEW n, Good(n), NEW k \in Byte
  PROVE  Sum(n, k, 0).cpu.a = (n.cpu.a + k) % M
<1>1. n.cpu.a \in Byte /\ n.cpu.a \in Int /\ k \in Int /\ M \in Int
  BY GoodParts, MIsPositive DEF Byte
<1>2. PICK s \in Int : s = n.cpu.a + k + 0 /\ s = n.cpu.a + k
  BY <1>1
<1>3. Sum(n, k, 0).cpu = [n.cpu EXCEPT !.a = IF s < M THEN s ELSE s - M, !.c = IF s < M THEN 0 ELSE 1]
  BY <1>2 DEF Sum, Both
<1>4. Sum(n, k, 0).cpu.a = IF s < M THEN s ELSE s - M
  BY <1>3, GoodParts DEF Cpu
<1>5. s % M = IF s < M THEN s ELSE s - M
  BY <1>1, <1>2, ByteSum
<1> QED BY <1>2, <1>4, <1>5

LEMMA PlusOperand ==
  ASSUME NEW n, Good(n), NEW x \in Operand
  PROVE  Plus(n, x).cpu.a = (n.cpu.a + Val(n.cpu, x)) % M
<1>1. Val(n.cpu, x) \in Byte /\ n.cpu.a \in Byte
  BY OperandValue, GoodParts
<1>2. CASE \E k \in Byte : x = K(k)
  <2>1. PICK k \in Byte : x = K(k)
    BY <1>2
  <2>2. Val(n.cpu, x) = k
    BY <2>1 DEF Val, K, Acc
  <2> QED BY <1>1, <2>1, <2>2, PlusValue, ByteSum
<1>3. CASE ~ \E k \in Byte : x = K(k)
  <2>1. M - 1 \in Byte /\ 0 \in Byte /\ 1 \in Byte
    BY MIsPositive DEF Byte
  <2>2. Plus(n, x) = Sum(n, Val(n.cpu, x), 0)
    BY <1>3, <2>1 DEF Plus
  <2> QED BY <1>1, <2>2, SumValue
<1> QED BY <1>2, <1>3

\* A value that is asked for arrives in A, with everything else in its place.
LEMMA LoadAValue ==
  ASSUME NEW n, Good(n), NEW x \in Operand \cup FoldedTrees
  PROVE  LoadA(n, x).cpu.a = Value(n.cpu, x) /\ Value(n.cpu, x) \in Byte
<1>1. CASE x \in Operand
  BY <1>1, OperandIsPlain, LoadPlainValue, OperandValue, GoodParts DEF LoadA, Value
<1>2. CASE x \in FoldedTrees
  <2>1. PICK t \in Folded : x = Tree(t)
    BY <1>2 DEF FoldedTrees
  <2>2. IsTree(x) /\ x[2] = t /\ LoadA(n, x) = GenTree(n, t) /\ t[2] \in Operand /\ t[2] # Acc
    BY <2>1, FoldedShapes, OperandIsPlain DEF IsTree, Tree, LoadA
  <2> DEFINE p == LoadPlain(n, t[2])
  <2>3. Good(p) /\ p.cpu.a = Val(n.cpu, t[2]) /\ p.cpu.cell = n.cpu.cell
    BY <2>2, LoadPlainGood, LoadPlainValue, LoadPlainCells
  <2> HIDE DEF p
  <2>4. CASE t[1] = "add"
    <3>1. t[3] \in Operand /\ Val(p.cpu, t[3]) = Val(n.cpu, t[3])
      BY <2>3, <2>4, FoldedShapes, OperandIsPlain, ValKept
    <3>2. GenTree(n, t) = Plus(p, t[3])
      BY <2>4 DEF GenTree, p
    <3>3. Plus(p, t[3]).cpu.a = (Val(n.cpu, t[2]) + Val(n.cpu, t[3])) % M
      BY <2>3, <3>1, PlusOperand
    <3>4. Good(Plus(p, t[3])) /\ Plus(p, t[3]).cpu.a \in Byte
      BY <2>3, <3>1, PlusGood, GoodParts
    <3> QED BY <2>2, <2>4, <3>2, <3>3, <3>4 DEF Value
  <2>5. CASE t[1] = "not"
    <3>1. GenTree(n, t) = CplA(p)
      BY <2>5 DEF GenTree, p
    <3>2. CplA(p).cpu.a = M - 1 - p.cpu.a
      BY <2>3, GoodParts DEF CplA, Both, Cpu
    <3>3. Good(CplA(p)) /\ CplA(p).cpu.a \in Byte
      BY <2>3, IncAGood, GoodParts
    <3> QED BY <2>2, <2>3, <2>5, <3>1, <3>2, <3>3 DEF Value
  <2>6. CASE t[1] = "low"
    <3>1. GenTree(n, t) = p
      BY <2>6 DEF GenTree, p
    <3> QED BY <2>2, <2>3, <2>6, <3>1, GoodParts DEF Value
  <2> QED BY <2>4, <2>5, <2>6, FoldedShapes
<1> QED BY <1>1, <1>2

LEMMA BitModulo ==
  ASSUME NEW v \in Bit PROVE v % 2 = v
  BY DEF Bit

\* The lowest bit of a value arrives in C.
LEMMA LoadCValue ==
  ASSUME NEW n, Good(n), NEW x \in Source
  PROVE  LoadC(n, x).cpu.c = Value(n.cpu, x) % 2
<1>1. CASE x[1] = "K"
  <2>1. x \in Operand \cup BitOperand /\ ~IsTree(x) /\ x # Acc
    BY <1>1, SourceShapes, AccIsPlain
  <2>2. x[2] \in Byte /\ x[2] % 2 \in Bit /\ x[2] % 2 \in Byte
    BY <1>1, <2>1, KIsByte, LowBit, MIsPositive
  <2>3. Value(n.cpu, x) = x[2]
    BY <1>1, <2>1 DEF Value, Val
  <2>4. CASE n.st.c = K(x[2] % 2)
    <3>1. n.cpu.c = x[2] % 2
      BY <2>2, <2>4, GoodParts, KTrue
    <3> QED BY <1>1, <2>3, <2>4, <3>1 DEF LoadC
  <2>5. CASE n.st.c # K(x[2] % 2)
    <3>1. PutC(n, x[2] % 2).cpu.c = x[2] % 2
      BY GoodParts DEF PutC, Both, Cpu
    <3> QED BY <1>1, <2>3, <2>5, <3>1 DEF LoadC
  <2> QED BY <2>4, <2>5
<1>2. CASE x[1] = "L" /\ IsBit(x[2])
  <2>1. PICK l \in BitCell : l = x[2]
    BY <1>2 DEF IsBit
  <2>2. Phys(l) = l /\ n.cpu.cell[l] \in Bit /\ x # Acc /\ ~IsTree(x) /\ x[1] # "K" /\ x[1] # "E"
    BY <1>2, PhysBit, GoodParts, CpuCells, AccIsPlain DEF IsTree
  <2>3. Value(n.cpu, x) = n.cpu.cell[l]
    BY <2>1, <2>2 DEF Value, Val
  <2>4. CASE Tracked(l) /\ n.st.c = L(l)
    <3>1. l \in Memory
      BY <2>2, <2>4 DEF Tracked
    <3>2. n.cpu.c = n.cpu.cell[l]
      BY <2>4, <3>1, GoodParts, LTrue
    <3> QED BY <1>2, <2>1, <2>2, <2>3, <2>4, <3>2, BitModulo DEF LoadC
  <2>5. CASE ~(Tracked(l) /\ n.st.c = L(l))
    <3>1. MovC(n, l).cpu.c = n.cpu.cell[l]
      BY GoodParts DEF MovC, Both, Cpu
    <3> QED BY <1>2, <2>1, <2>2, <2>3, <2>5, <3>1, BitModulo DEF LoadC
  <2> QED BY <2>4, <2>5
<1>3. CASE x[1] # "K" /\ ~(x[1] = "L" /\ IsBit(x[2]))
  <2>1. x \in Operand \cup FoldedTrees
    BY <1>3 DEF Source, FoldedTrees, BitOperand, IsBit, K, L
  <2>2. Good(LoadA(n, x)) /\ LoadA(n, x).cpu.a = Value(n.cpu, x)
    BY <2>1, LoadAGood, LoadAValue
  <2>3. Rrc(LoadA(n, x)).cpu.c = LoadA(n, x).cpu.a % 2
    BY <2>2, GoodParts DEF Rrc, Both, Cpu
  <2> QED BY <1>3, <2>2, <2>3 DEF LoadC
<1> QED BY <1>1, <1>2, <1>3

\* Instructions that write a cell write no other, and leave B and DPTR.
Puts(n, m, l, v) ==
  m.cell = Changed(n.cpu, l, v) /\ m.b = n.cpu.b /\ m.dptr = n.cpu.dptr

LEMMA PutsAfter ==
  ASSUME NEW n, NEW p, Keeps(n, p.cpu), NEW m, NEW l, NEW v, Puts(p, m, l, v)
  PROVE  Puts(n, m, l, v)
  BY DEF Keeps, Puts, Changed

LEMMA MovPuts ==
  ASSUME NEW n, Good(n), NEW l, NEW x
  PROVE  Puts(n, Mov(n, l, x).cpu, l, Val(n.cpu, x))
  BY GoodParts DEF Puts, Changed, Mov, Both, Cpu

LEMMA PutsNothing ==
  ASSUME NEW n, Good(n), NEW l \in Loc, NEW v, v = n.cpu.cell[Phys(l)]
  PROVE  Puts(n, n.cpu, l, v)
<1>1. Phys(l) \in Cell /\ n.cpu.cell \in [Cell -> Byte]
  BY PhysIsCell, GoodParts DEF Cpu
<1>2. [n.cpu.cell EXCEPT ![Phys(l)] = v] = n.cpu.cell
  BY <1>1
<1> QED BY <1>2 DEF Puts, Changed

LEMMA MovBitPuts ==
  ASSUME NEW n, Good(n), NEW l \in BitCell
  PROVE  Puts(n, MovBit(n, l).cpu, l, n.cpu.c)
  BY GoodParts, PhysBit DEF Puts, Changed, MovBit, Both, Cpu

LEMMA PutBitPuts ==
  ASSUME NEW n, Good(n), NEW l \in BitCell, NEW k
  PROVE  Puts(n, PutBit(n, l, k).cpu, l, k)
  BY GoodParts, PhysBit DEF Puts, Changed, PutBit, Both, Cpu

LEMMA PlaceShapes ==
  ASSUME NEW l \in Places
  PROVE  /\ l \in Loc /\ ~IsBit(l) /\ L(l) \in Operand /\ L(l) # Acc
         /\ \A m : Val(m, L(l)) = m.cell[Phys(l)]
  BY PhysByte DEF Places, IsBit, Operand, L, Acc, Val

\* store_a
LEMMA StoreAPuts ==
  ASSUME NEW n, Good(n), NEW l \in Places
  PROVE  Puts(n, StoreA(n, l).cpu, l, n.cpu.a)
<1>1. l \in Loc /\ ~IsBit(l) /\ L(l) \in Operand /\ Val(n.cpu, L(l)) = n.cpu.cell[Phys(l)]
  BY PlaceShapes
<1>2. CASE n.st.a # None /\ n.st.a = ContentOf(n.st, L(l))
  <2>1. True(n.cpu, ContentOf(n.st, L(l)), n.cpu.cell[Phys(l)])
    BY <1>1, ContentTrue
  <2>2. n.cpu.a = n.cpu.cell[Phys(l)]
    BY <1>2, <2>1, KnownEqual, GoodParts
  <2> QED BY <1>1, <1>2, <2>2, PutsNothing DEF StoreA
<1>3. CASE ~(n.st.a # None /\ n.st.a = ContentOf(n.st, L(l)))
  <2>1. Val(n.cpu, Acc) = n.cpu.a
    BY DEF Val
  <2> QED BY <1>1, <1>3, <2>1, MovPuts DEF StoreA
<1> QED BY <1>2, <1>3

\* C in A as 0 or 1
LEMMA FromCValue ==
  ASSUME NEW n, Good(n) PROVE FromC(n).cpu.a = n.cpu.c
<1> DEFINE p == ClrA(n)
<1>1. p.cpu.a = 0 /\ p.cpu.c = n.cpu.c /\ Good(p)
  BY ClrAGood, GoodParts DEF ClrA, Both, Cpu
<1> HIDE DEF p
<1>2. n.cpu.c \in {0, 1}
  BY GoodParts DEF Bit
<1>3. PICK d \in Int : d = 2 * p.cpu.a + p.cpu.c /\ d = n.cpu.c
  BY <1>1, <1>2
<1>4. d < M
  BY <1>2, <1>3, MIsPositive
<1>5. Rlc(p).cpu.a = d
  BY <1>1, <1>3, <1>4, GoodParts DEF Rlc, Both, Cpu
<1> QED BY <1>3, <1>5 DEF FromC, p

\* move_byte to a byte: the destination holds what the source held.
LEMMA MoveBytePuts ==
  ASSUME NEW n, Good(n), NEW l \in Places, NEW x \in Source
  PROVE  Puts(n, MoveByte(n, l, x).cpu, l, Value(n.cpu, x))
<1> DEFINE f == ContentOf(n.st, x)
           v == Value(n.cpu, x)
<1>1. l \in Loc /\ ~IsBit(l) /\ L(l) \in Operand /\ Val(n.cpu, L(l)) = n.cpu.cell[Phys(l)] /\ L(l) # Acc
      /\ ~IsTree(L(l))
  BY PlaceShapes, OperandIsPlain
<1>2. CASE x[1] = "L" /\ IsBit(x[2])
  <2> DEFINE c == LoadC(n, x)
  <2>1. Good(c) /\ Keeps(n, c.cpu) /\ c.cpu.c = v % 2
    BY LoadCGood, LoadCKeeps, LoadCValue
  <2>2. v \in Bit
    <3>1. ~IsTree(x) /\ x # Acc /\ x[1] # "K" /\ x[1] # "E" /\ x[2] \in BitCell
      BY <1>2, AccIsPlain DEF IsTree, IsBit
    <3> QED BY <1>2, <3>1, PhysBit, GoodParts, CpuCells DEF Value, Val
  <2>3. v % 2 = v
    BY <2>2, BitModulo
  <2> HIDE DEF c, v
  <2>4. Good(FromC(c)) /\ Keeps(n, FromC(c).cpu) /\ FromC(c).cpu.a = v
    BY <2>1, <2>3, FromCGood, FromCKeeps, FromCValue, KeepsTwice
  <2>5. Puts(n, StoreA(FromC(c), l).cpu, l, v)
    BY <2>4, StoreAPuts, PutsAfter
  <2>6. x # L(l)
    BY <1>1, <1>2 DEF L
  <2> QED BY <1>1, <1>2, <2>5, <2>6 DEF MoveByte, c, v
<1>3. CASE ~(x[1] = "L" /\ IsBit(x[2]))
  <2>1. x \in Operand \cup FoldedTrees
    BY <1>3, MIsPositive DEF Source, FoldedTrees, BitOperand, Operand, Constant, IsBit, K, L
  <2>2. ~IsTree(x) => x \in Operand /\ v = Val(n.cpu, x) /\ True(n.cpu, f, v) /\ x # Acc
    <3> SUFFICES ASSUME ~IsTree(x) PROVE x \in Operand /\ v = Val(n.cpu, x) /\ True(n.cpu, f, v) /\ x # Acc
      OBVIOUS
    <3>1. x \in Operand
      BY <2>1 DEF FoldedTrees, IsTree, Tree
    <3> QED BY <3>1, ContentTrue, OperandIsPlain DEF Value
  <2>3. True(n.cpu, ContentOf(n.st, L(l)), n.cpu.cell[Phys(l)])
    BY <1>1, ContentTrue
  <2> HIDE DEF f, v
  <2>4. CASE x = L(l)
    <3>1. v = n.cpu.cell[Phys(l)]
      BY <1>1, <2>2, <2>4
    <3> QED BY <1>1, <2>4, <3>1, PutsNothing DEF MoveByte, v
  <2>5. CASE x # L(l) /\ There(n.st, l, x)
    <3>1. v = n.cpu.cell[Phys(l)]
      BY <2>2, <2>3, <2>5, KnownEqual DEF There, f
    <3> QED BY <1>1, <1>3, <2>5, <3>1, PutsNothing DEF MoveByte, v
  <2>6. CASE x # L(l) /\ ~There(n.st, l, x) /\ (IsTree(x) \/ AHolds(n.st, x))
    <3>1. MoveByte(n, l, x) = StoreA(LoadA(n, x), l)
      BY <1>1, <1>3, <2>6 DEF MoveByte
    <3>2. Good(LoadA(n, x)) /\ Keeps(n, LoadA(n, x).cpu) /\ LoadA(n, x).cpu.a = v
      BY <2>1, LoadAGood, LoadAKeeps, LoadAValue DEF v
    <3>3. Puts(n, StoreA(LoadA(n, x), l).cpu, l, v)
      BY <3>2, StoreAPuts, PutsAfter
    <3> QED BY <3>1, <3>3 DEF v
  <2>7. CASE x # L(l) /\ ~There(n.st, l, x) /\ ~IsTree(x) /\ ~AHolds(n.st, x)
    <3>1. CASE l \notin Reg /\ f[1] = "K" /\ Holding(n.st, f[2]) # {}
      <4>1. PICK r \in Reg : r = First(Holding(n.st, f[2])) /\ n.st.mem[r] = K(f[2])
        <5>1. Holding(n.st, f[2]) \in SUBSET Reg
          BY DEF Holding
        <5> QED BY <3>1, <5>1, FirstIsMember DEF Holding
      <4>2. MoveByte(n, l, x) = Mov(n, l, L(r))
        BY <1>1, <1>3, <2>7, <3>1, <4>1 DEF MoveByte, f
      <4>3. f \in Fact
        BY <2>2, <2>7, ContentTrue DEF f
      <4>4. f[2] = v /\ v \in Byte
        BY <2>2, <2>7, <3>1, <4>3, ConstantFact
      <4>5. r \in Memory /\ Val(n.cpu, L(r)) = n.cpu.cell[r]
        BY RegisterCell DEF Memory
      <4>6. n.cpu.cell[r] = v
        BY <4>1, <4>4, <4>5, GoodParts, KTrue
      <4> QED BY <4>2, <4>5, <4>6, MovPuts DEF v
    <3>2. CASE ~(l \notin Reg /\ f[1] = "K" /\ Holding(n.st, f[2]) # {})
      <4>1. MoveByte(n, l, x) = Mov(n, l, x)
        BY <1>1, <1>3, <2>7, <3>2 DEF MoveByte, f
      <4> QED BY <2>2, <2>7, <4>1, MovPuts DEF v
    <3> QED BY <3>1, <3>2
  <2> QED BY <2>4, <2>5, <2>6, <2>7
<1> QED BY <1>2, <1>3

\* move_byte to a bit
LEMMA MoveBitPuts ==
  ASSUME NEW n, Good(n), NEW l \in BitCell, NEW x \in Source
  PROVE  Puts(n, MoveByte(n, l, x).cpu, l, Value(n.cpu, x) % 2)
<1>1. Good(LoadC(n, x)) /\ Keeps(n, LoadC(n, x).cpu) /\ LoadC(n, x).cpu.c = Value(n.cpu, x) % 2
  BY LoadCGood, LoadCKeeps, LoadCValue
<1>2. Puts(n, MovBit(LoadC(n, x), l).cpu, l, Value(n.cpu, x) % 2)
  BY <1>1, MovBitPuts, PutsAfter
<1> QED BY <1>2 DEF MoveByte, IsBit

LEMMA StoreBitPuts ==
  ASSUME NEW n, Good(n), NEW l \in BitCell, NEW x \in BitOperand
  PROVE  Puts(n, StoreBit(n, l, x).cpu, l, Value(n.cpu, x))
<1>1. ~IsTree(x) /\ x \in Source /\ x # Acc
  BY AccIsPlain DEF Source, BitOperand, IsTree, K, L, Acc
<1>2. Value(n.cpu, x) = Val(n.cpu, x) /\ Val(n.cpu, x) \in Bit
  BY <1>1, GoodParts, BitOperandValue DEF Value
<1>3. CASE x[1] = "K"
  <2>1. PICK k \in Bit : x = K(k) /\ x[2] = k /\ Val(n.cpu, x) = k /\ k % 2 = k /\ k \in Byte
    BY <1>1, <1>3, BitModulo, MIsPositive DEF BitOperand, Val, K, L
  <2>2. CASE Tracked(l) /\ n.st.mem[l] = K(k)
    <3>1. l \in Memory /\ Phys(l) = l /\ l \in Loc
      BY <2>2, PhysBit DEF Tracked
    <3>2. n.cpu.cell[l] = k
      BY <2>1, <2>2, <3>1, GoodParts, KTrue
    <3> QED BY <1>2, <1>3, <2>1, <2>2, <3>1, <3>2, PutsNothing DEF StoreBit
  <2>3. CASE ~(Tracked(l) /\ n.st.mem[l] = K(k))
    BY <1>2, <1>3, <2>1, <2>3, PutBitPuts DEF StoreBit
  <2> QED BY <2>2, <2>3
<1>4. CASE x[1] # "K"
  <2>1. Good(LoadC(n, x)) /\ Keeps(n, LoadC(n, x).cpu) /\ LoadC(n, x).cpu.c = Value(n.cpu, x) % 2
    BY <1>1, LoadCGood, LoadCKeeps, LoadCValue
  <2>2. LoadC(n, x).cpu.c = Value(n.cpu, x)
    BY <1>2, <2>1, BitModulo
  <2>3. Puts(n, MovBit(LoadC(n, x), l).cpu, l, Value(n.cpu, x))
    BY <2>1, <2>2, MovBitPuts, PutsAfter
  <2> QED BY <1>4, <2>3 DEF StoreBit
<1> QED BY <1>3, <1>4

LEMMA ValueKept ==
  ASSUME NEW n, NEW m, m.cell = n.cpu.cell, NEW x \in Operand \cup FoldedTrees
  PROVE  Value(m, x) = Value(n.cpu, x)
<1>1. CASE x \in Operand
  BY <1>1, OperandIsPlain, ValKept DEF Value
<1>2. CASE x \in FoldedTrees
  <2>1. PICK t \in Folded : x = Tree(t)
    BY <1>2 DEF FoldedTrees
  <2>2. IsTree(x) /\ x[2] = t /\ Val(m, t[2]) = Val(n.cpu, t[2])
        /\ (t[1] = "add" => Val(m, t[3]) = Val(n.cpu, t[3]))
    BY <2>1, FoldedShapes, OperandIsPlain, ValKept DEF IsTree, Tree
  <2> QED BY <2>2 DEF Value
<1> QED BY <1>1, <1>2

\* load_b
LEMMA LoadBValue ==
  ASSUME NEW n, Good(n), NEW x \in Operand
  PROVE  /\ LoadB(n, x).cpu.b = Val(n.cpu, x) /\ LoadB(n, x).cpu.a = n.cpu.a
         /\ LoadB(n, x).cpu.cell = n.cpu.cell
<1>1. True(n.cpu, ContentOf(n.st, x), Val(n.cpu, x)) /\ x # Acc
  BY ContentTrue, OperandIsPlain
<1>2. \A y : /\ MovB(n, y).cpu.b = Val(n.cpu, y) /\ MovB(n, y).cpu.a = n.cpu.a
             /\ MovB(n, y).cpu.cell = n.cpu.cell
  BY GoodParts DEF MovB, Both, Cpu
<1>3. CASE n.st.b # None /\ n.st.b = ContentOf(n.st, x)
  <2>1. n.cpu.b = Val(n.cpu, x)
    BY <1>1, <1>3, KnownEqual, GoodParts
  <2> QED BY <1>3, <2>1 DEF LoadB
<1>4. CASE ~(n.st.b # None /\ n.st.b = ContentOf(n.st, x)) /\ AHolds(n.st, x)
  <2>1. n.cpu.a = Val(n.cpu, x)
    BY <1>1, <1>4, KnownEqual, GoodParts DEF AHolds
  <2>2. Val(n.cpu, Acc) = n.cpu.a
    BY DEF Val
  <2> QED BY <1>2, <1>4, <2>1, <2>2 DEF LoadB
<1>5. CASE ~(n.st.b # None /\ n.st.b = ContentOf(n.st, x)) /\ ~AHolds(n.st, x)
  BY <1>2, <1>5 DEF LoadB
<1> QED BY <1>3, <1>4, <1>5

LEMMA LoadBThenAValue ==
  ASSUME NEW n, Good(n), NEW y \in Operand \cup FoldedTrees, NEW x \in Operand \cup FoldedTrees,
         ~(IsTree(x) /\ IsTree(y))
  PROVE  /\ LoadBThenA(n, y, x).cpu.a = Value(n.cpu, x)
         /\ LoadBThenA(n, y, x).cpu.b = Value(n.cpu, y)
         /\ LoadBThenA(n, y, x).cpu.cell = n.cpu.cell
<1>1. x \in Source /\ y \in Source
  BY DEF Source, FoldedTrees
<1>2. CASE IsTree(y)
  <2> DEFINE p == LoadA(n, y)
             q == MovB(p, Acc)
  <2>1. Good(p) /\ p.cpu.a = Value(n.cpu, y) /\ p.cpu.cell = n.cpu.cell
    BY <1>1, LoadAGood, LoadAValue, LoadAKeeps DEF Keeps
  <2> HIDE DEF p
  <2>2. Good(q) /\ q.cpu.b = p.cpu.a /\ q.cpu.cell = p.cpu.cell
    BY <2>1, MovBGood, GoodParts DEF MovB, Both, Cpu, Val
  <2> HIDE DEF q
  <2>3. LoadA(q, x).cpu.a = Value(n.cpu, x) /\ Keeps(q, LoadA(q, x).cpu)
    BY <1>1, <2>1, <2>2, LoadAValue, LoadAKeeps, ValueKept
  <2> QED BY <1>2, <2>1, <2>2, <2>3 DEF LoadBThenA, Keeps, p, q
<1>3. CASE ~IsTree(y) /\ IsTree(x)
  <2> DEFINE p == LoadA(n, x)
  <2>1. Good(p) /\ p.cpu.a = Value(n.cpu, x) /\ p.cpu.cell = n.cpu.cell
    BY <1>1, LoadAGood, LoadAValue, LoadAKeeps DEF Keeps
  <2>2. y \in Operand
    BY <1>3 DEF FoldedTrees, IsTree, Tree
  <2> HIDE DEF p
  <2>3. LoadB(p, y).cpu.b = Value(n.cpu, y) /\ LoadB(p, y).cpu.a = p.cpu.a
        /\ LoadB(p, y).cpu.cell = p.cpu.cell
    BY <1>3, <2>1, <2>2, LoadBValue, ValueKept DEF Value
  <2> QED BY <1>3, <2>1, <2>3 DEF LoadBThenA, p
<1>4. CASE ~IsTree(y) /\ ~IsTree(x)
  <2> DEFINE p == LoadB(n, y)
  <2>1. y \in Operand
    BY <1>4 DEF FoldedTrees, IsTree, Tree
  <2>2. Good(p) /\ p.cpu.b = Value(n.cpu, y) /\ p.cpu.cell = n.cpu.cell
    BY <1>4, <2>1, LoadBGood, LoadBValue DEF Value
  <2> HIDE DEF p
  <2>3. LoadA(p, x).cpu.a = Value(n.cpu, x) /\ Keeps(p, LoadA(p, x).cpu)
    BY <1>1, <2>2, LoadAValue, LoadAKeeps, ValueKept
  <2> QED BY <1>4, <2>2, <2>3 DEF LoadBThenA, Keeps, p
<1> QED BY <1>2, <1>3, <1>4

\* From true facts, what a move was asked to deliver arrives and nothing else changes,
\* whatever instructions are left out (select.rs:633, 1021).
THEOREM MovesDeliver == Spec => []Delivers
<1>1. Inv => Delivers
  <2> SUFFICES ASSUME Inv PROVE Delivers
    OBVIOUS
  <2>1. Good(Now) /\ Now.cpu = cpu
    BY DEF Inv, Now, Both
  <2>2. \A x \in Sources : x \in Source /\ x \in Operand \cup FoldedTrees
    BY InputShapes DEF FoldedTrees
  <2>3. \A x \in BitOperand : x \in Source
    BY DEF Source
  <2>4. \A l \in Places, x \in Sources \cup BitOperand :
          MoveByte(Now, l, x).cpu.cell = Changed(cpu, l, Value(cpu, x))
    BY <2>1, <2>2, <2>3, MoveBytePuts DEF Puts
  <2>5. \A l \in BitCell, x \in BitOperand \cup Sources :
          MoveByte(Now, l, x).cpu.cell = Changed(cpu, l, Value(cpu, x) % 2)
    BY <2>1, <2>2, <2>3, MoveBitPuts DEF Puts
  <2>6. \A l \in BitCell, x \in BitOperand :
          StoreBit(Now, l, x).cpu.cell = Changed(cpu, l, Value(cpu, x))
    BY <2>1, StoreBitPuts DEF Puts
  <2>7. ASSUME NEW y \in Sources, NEW x \in Sources, ~(IsTree(x) /\ IsTree(y))
        PROVE  LET n == LoadBThenA(Now, y, x)
               IN n.cpu.a = Value(cpu, x) /\ n.cpu.b = Value(cpu, y) /\ n.cpu.cell = cpu.cell
    BY <2>1, <2>2, <2>7, LoadBThenAValue
  <2> QED BY <2>4, <2>5, <2>6, <2>7 DEF Delivers
<1> QED BY <1>1, InvHolds, PTL

-----------------------------------------------------------------------------
(***************************************************************************)
(* Where pointers point.                                                   *)
(***************************************************************************)
LEMMA Quotient ==
  ASSUME NEW x \in Nat, NEW q \in Nat, NEW w \in 0 .. M - 1, x = M * q + w
  PROVE  x % M = w /\ x \div M = q
<1> DEFINE d == x \div M
           y == x % M
<1>1. d \in Nat /\ y \in 0 .. M - 1 /\ M * q + w = M * d + y
  BY Division
<1> HIDE DEF d, y
<1>2. CASE q < d
  <2>1. q + 1 <= d
    BY <1>1, <1>2
  <2>2. M * (q + 1) <= M * d
    BY <1>1, <2>1, MIsPositive
  <2> QED BY <1>1, <2>2, MIsPositive
<1>3. CASE d < q
  <2>1. d + 1 <= q
    BY <1>1, <1>3
  <2>2. M * (d + 1) <= M * q
    BY <1>1, <2>1, MIsPositive
  <2> QED BY <1>1, <2>2, MIsPositive
<1>4. CASE d = q
  BY <1>1, <1>4, MIsPositive DEF d, y
<1> QED BY <1>1, <1>2, <1>3, <1>4

LEMMA SmallQuotient ==
  ASSUME NEW v \in Byte PROVE v \div M = 0 /\ v % M = v
<1>1. v = M * 0 + v /\ v \in 0 .. M - 1 /\ v \in Nat
  BY MIsPositive DEF Byte
<1> QED BY <1>1, Quotient

\* One more: the remainder counts, and turns over.
LEMMA NextQuotient ==
  ASSUME NEW x \in Nat
  PROVE  /\ x % M < M - 1 => (x + 1) % M = (x % M) + 1 /\ (x + 1) \div M = x \div M
         /\ ~(x % M < M - 1) => (x + 1) % M = 0 /\ (x + 1) \div M = (x \div M) + 1
                                /\ x % M = M - 1
<1>1. PICK q, w : q = x \div M /\ w = x % M
  OBVIOUS
<1>2. q \in Nat /\ w \in 0 .. M - 1 /\ x = M * q + w
  BY <1>1, Division
<1>3. CASE w < M - 1
  <2>1. w + 1 \in 0 .. M - 1 /\ x + 1 \in Nat /\ x + 1 = M * q + (w + 1)
    BY <1>2, <1>3, MIsPositive
  <2> QED BY <1>1, <1>2, <1>3, <2>1, Quotient
<1>4. CASE ~(w < M - 1)
  <2>1. w = M - 1 /\ M \in Nat
    BY <1>2, <1>4, MIsPositive
  <2>2. M * (q + 1) = M * q + M
    BY <1>2, <2>1
  <2>3. 0 \in 0 .. M - 1 /\ x + 1 \in Nat /\ q + 1 \in Nat /\ x + 1 = M * (q + 1) + 0
    <3>1. PICK y \in Int : y = M * q
      BY <1>2, <2>1
    <3> QED BY <1>2, <2>1, <2>2, <3>1, MIsPositive
  <2>4. (x + 1) % M = 0 /\ (x + 1) \div M = q + 1
    BY <2>3, Quotient
  <2> QED BY <1>1, <2>1, <2>4
<1> QED BY <1>3, <1>4

LEMMA AddrParts ==
  ASSUME NEW p \in Addr PROVE p = <<p[1], p[2]>> /\ p[1] \in Byte /\ p[2] \in Byte
  BY DEF Addr

LEMMA Plus16Zero ==
  ASSUME NEW p \in Addr PROVE Plus16(p, 0) = p
<1>1. 0 % M = 0 /\ 0 \div M = 0
  BY SmallQuotient, MIsPositive
<1>2. p = <<p[1], p[2]>> /\ p[1] \in Byte /\ p[2] \in Byte /\ p[1] + 0 = p[1] /\ p[2] + 0 + 0 = p[2]
  BY AddrParts DEF Byte
<1>3. p[1] % M = p[1] /\ p[1] \div M = 0 /\ p[2] % M = p[2]
  BY <1>2, SmallQuotient
<1> QED BY <1>1, <1>2, <1>3 DEF Plus16

\* inc dptr adds one to a pointer.
LEMMA Plus16Next ==
  ASSUME NEW p \in Addr, NEW off \in Nat
  PROVE  Plus16(p, off + 1) = Next16(Plus16(p, off))
<1>1. PICK a, b : a = p[1] /\ b = p[2] /\ a \in 0 .. M - 1 /\ b \in Nat
  BY AddrParts DEF Byte
<1>2. PICK q, w : q = off \div M /\ w = off % M
  OBVIOUS
<1>3. q \in Nat /\ w \in 0 .. M - 1 /\ M \in Nat /\ M >= 2
  BY <1>2, Division, MIsPositive
<1>4. PICK l \in Nat : l = a + w
  BY <1>1, <1>3
<1>5. PICK d, e : d = l \div M /\ e = l % M
  OBVIOUS
<1>6. d \in Nat /\ e \in 0 .. M - 1
  BY <1>4, <1>5, Division
<1>7. PICK h \in Nat : h = b + q + d
  BY <1>1, <1>3, <1>6
<1>8. Plus16(p, off) = <<e, h % M>>
  BY <1>1, <1>2, <1>4, <1>5, <1>7 DEF Plus16
<1>9. Next16(Plus16(p, off)) = IF e < M - 1 THEN <<e + 1, h % M>> ELSE <<0, (h + 1) % M>>
  BY <1>7, <1>8, IncVModulo DEF Next16, IncV
<1>10. CASE w < M - 1
  <2>1. (off + 1) % M = w + 1 /\ (off + 1) \div M = q
    BY <1>2, <1>10, NextQuotient
  <2>2. a + (w + 1) = l + 1
    BY <1>1, <1>3, <1>4
  <2>3. Plus16(p, off + 1) = <<(l + 1) % M, (b + q + ((l + 1) \div M)) % M>>
    BY <1>1, <2>1, <2>2 DEF Plus16
  <2>4. CASE e < M - 1
    <3>1. (l + 1) % M = e + 1 /\ (l + 1) \div M = d
      BY <1>5, <2>4, NextQuotient
    <3> QED BY <1>7, <1>9, <2>3, <2>4, <3>1
  <2>5. CASE ~(e < M - 1)
    <3>1. (l + 1) % M = 0 /\ (l + 1) \div M = d + 1
      BY <1>5, <2>5, NextQuotient
    <3>2. b + q + (d + 1) = h + 1
      BY <1>1, <1>3, <1>6, <1>7
    <3> QED BY <1>9, <2>3, <2>5, <3>1, <3>2
  <2> QED BY <2>4, <2>5
<1>11. CASE ~(w < M - 1)
  <2>1. (off + 1) % M = 0 /\ (off + 1) \div M = q + 1 /\ w = M - 1
    BY <1>2, <1>11, NextQuotient
  <2>2. a + 0 = a /\ a \in Byte
    BY <1>1 DEF Byte
  <2>3. a % M = a /\ a \div M = 0
    BY <2>2, SmallQuotient
  <2>4. b + (q + 1) + 0 = b + q + 1
    BY <1>1, <1>3
  <2>5. Plus16(p, off + 1) = <<a, (b + q + 1) % M>>
    BY <1>1, <2>1, <2>2, <2>3, <2>4 DEF Plus16
  <2>6. CASE a = 0
    <3>1. l \in Byte /\ l = M - 1
      BY <1>3, <1>4, <2>1, <2>6 DEF Byte
    <3>2. e = M - 1 /\ d = 0
      BY <1>5, <3>1, SmallQuotient
    <3>3. h + 1 = b + q + 1
      BY <1>1, <1>3, <1>7, <3>2
    <3> QED BY <1>3, <1>9, <2>5, <2>6, <3>2, <3>3
  <2>7. CASE a # 0
    <3>1. a - 1 \in 0 .. M - 1 /\ l = M * 1 + (a - 1)
      BY <1>1, <1>3, <1>4, <2>1, <2>7
    <3>2. e = a - 1 /\ d = 1
      BY <1>5, <3>1, Quotient
    <3>3. e < M - 1 /\ e + 1 = a /\ h = b + q + 1
      BY <1>1, <1>3, <1>7, <3>2
    <3> QED BY <1>9, <2>5, <3>3
  <2> QED BY <2>6, <2>7
<1> QED BY <1>10, <1>11

\* Only the remainder of the high byte of an offset counts.
LEMMA HighByte ==
  ASSUME NEW b \in Byte, NEW q \in Nat, NEW c \in Bit
  PROVE  (b + q + c) % M = IF b + (q % M) + c < M THEN b + (q % M) + c ELSE b + (q % M) + c - M
<1>1. PICK t, k : t = q \div M /\ k = q % M
  OBVIOUS
<1>2. t \in Nat /\ k \in 0 .. M - 1 /\ q = M * t + k
  BY <1>1, Division
<1>3. b \in 0 .. M - 1 /\ c \in 0 .. 1 /\ M \in Nat /\ M >= 2
  BY MIsPositive DEF Byte, Bit
<1>4. PICK y \in Int : y = M * t
  BY <1>2, <1>3
<1>5. b + q + c = y + (b + k + c) /\ b + q + c \in Nat
  BY <1>2, <1>3, <1>4
<1>6. CASE b + k + c < M
  <2>1. b + k + c \in 0 .. M - 1
    BY <1>2, <1>3, <1>6
  <2> QED BY <1>1, <1>2, <1>4, <1>5, <1>6, <2>1, Quotient
<1>7. CASE ~(b + k + c < M)
  <2>1. b + k + c - M \in 0 .. M - 1 /\ t + 1 \in Nat
    BY <1>2, <1>3, <1>7
  <2>2. M * (t + 1) = y + M
    BY <1>2, <1>3, <1>4
  <2>3. b + q + c = M * (t + 1) + (b + k + c - M)
    BY <1>2, <1>3, <1>4, <1>5, <2>2
  <2>4. (b + q + c) % M = b + k + c - M
    BY <1>5, <2>1, <2>3, Quotient
  <2> QED BY <1>1, <1>7, <2>4
<1> QED BY <1>6, <1>7

LEMMA NextDptr ==
  ASSUME NEW n, Good(n)
  PROVE  /\ Good(IncDptr(n)) /\ IncDptr(n).cpu = [n.cpu EXCEPT !.dptr = Next16(n.cpu.dptr)]
         /\ IncDptr(n).cpu.dptr = Next16(n.cpu.dptr) /\ IncDptr(n).cpu.b = n.cpu.b
  BY IncDptrGood, GoodParts DEF IncDptr, Both, Cpu

LEMMA IncDptrByPoints ==
  ASSUME NEW n, Good(n), NEW k \in 0 .. 3
  PROVE  /\ IncDptrBy(n, k).cpu.dptr = Plus16(n.cpu.dptr, k)
         /\ IncDptrBy(n, k).cpu.b = n.cpu.b
<1> DEFINE p == n.cpu.dptr
           a == IncDptr(n)
           b == IncDptr(a)
           c == IncDptr(b)
<1>1. p \in Addr
  BY GoodParts
<1>2. Plus16(p, 0) = p /\ Plus16(p, 1) = Next16(Plus16(p, 0))
      /\ Plus16(p, 2) = Next16(Plus16(p, 1)) /\ Plus16(p, 3) = Next16(Plus16(p, 2))
  <2>1. \A j \in Nat : Plus16(p, j + 1) = Next16(Plus16(p, j))
    BY <1>1, Plus16Next
  <2>2. 0 + 1 = 1 /\ 1 + 1 = 2 /\ 2 + 1 = 3 /\ 0 \in Nat /\ 1 \in Nat /\ 2 \in Nat
    OBVIOUS
  <2> HIDE DEF p
  <2> QED BY <1>1, <2>1, <2>2, Plus16Zero
<1>3. Good(a) /\ a.cpu.dptr = Plus16(p, 1) /\ a.cpu.b = n.cpu.b
  BY <1>2, NextDptr
<1> HIDE DEF a, p
<1>4. Good(b) /\ b.cpu.dptr = Plus16(p, 2) /\ b.cpu.b = n.cpu.b
  BY <1>2, <1>3, NextDptr
<1> HIDE DEF b
<1>5. Good(c) /\ c.cpu.dptr = Plus16(p, 3) /\ c.cpu.b = n.cpu.b
  BY <1>2, <1>4, NextDptr
<1> HIDE DEF c
<1>6. CASE k = 0
  BY <1>2, <1>6 DEF IncDptrBy, p
<1>7. CASE k = 1
  BY <1>3, <1>7 DEF IncDptrBy, p, a
<1>8. CASE k = 2
  BY <1>4, <1>8 DEF IncDptrBy, p, a, b
<1>9. CASE k = 3
  BY <1>5, <1>9 DEF IncDptrBy, p, a, b, c
<1> QED BY <1>6, <1>7, <1>8, <1>9

\* set_dptr_expr
LEMMA SetDptrPoints ==
  ASSUME NEW n, Good(n), NEW e \in Expr
  PROVE  SetDptr(n, e).cpu = [n.cpu EXCEPT !.dptr = Where[e]]
<1> DEFINE f == n.st.dptr
<1>1. n.cpu \in Cpu /\ f \in DptrFact /\ (f[1] = "E" => n.cpu.dptr = Where[f[2]])
  BY GoodParts, DptrKept
<1>2. CASE f = E(e)
  <2>1. n.cpu.dptr = Where[e]
    BY <1>1, <1>2 DEF E
  <2>2. n.cpu = [n.cpu EXCEPT !.dptr = Where[e]]
    BY <1>1, <2>1 DEF Cpu
  <2> QED BY <1>2, <2>2 DEF SetDptr
<1>3. CASE f # E(e) /\ ~(f[1] = "E" /\ f[2][1] = e[1] /\ e[2] - f[2][2] \in 1 .. 2)
  BY <1>3 DEF SetDptr, MovDptr, Both
<1>4. CASE f # E(e) /\ f[1] = "E" /\ f[2][1] = e[1] /\ e[2] - f[2][2] \in 1 .. 2
  <2>1. PICK d \in Expr : f = E(d)
    BY <1>1, <1>4 DEF DptrFact, None, E
  <2>2. f[2] = d
    BY <2>1 DEF E
  <2>3. PICK s \in Symbols, i \in 0 .. MaxOffset, j \in 0 .. MaxOffset : e = <<s, i>> /\ d = <<s, j>>
    BY <1>4, <2>2 DEF Expr
  <2>4. i - j \in 1 .. 2 /\ MaxOffset \in Nat
    BY <1>4, <2>2, <2>3, LinkAssumption
  <2>5. n.cpu.dptr = Where[<<s, j>>]
    BY <1>1, <1>4, <2>2, <2>3
  <2>6. \A o \in 1 .. MaxOffset : Where[<<s, o>>] = Next16(Where[<<s, o - 1>>])
    BY LinkAssumption
  <2>7. SetDptr(n, e) = IncDptrBy(n, i - j)
    BY <1>4, <2>2, <2>3 DEF SetDptr
  <2>8. Good(IncDptr(n)) /\ IncDptr(n).cpu = [n.cpu EXCEPT !.dptr = Next16(n.cpu.dptr)]
    BY NextDptr
  <2>9. CASE i - j = 1
    <3>1. i \in 1 .. MaxOffset /\ i - 1 = j
      BY <2>4, <2>9
    <3>2. Where[<<s, i>>] = Next16(Where[<<s, j>>])
      BY <2>6, <3>1
    <3> QED BY <2>3, <2>5, <2>7, <2>8, <2>9, <3>2 DEF IncDptrBy
  <2>10. CASE i - j = 2
    <3>1. i \in 1 .. MaxOffset /\ i - 1 \in 1 .. MaxOffset /\ (i - 1) - 1 = j
      BY <2>4, <2>10
    <3>2. Where[<<s, i>>] = Next16(Where[<<s, i - 1>>]) /\ Where[<<s, i - 1>>] = Next16(Where[<<s, j>>])
      BY <2>6, <3>1
    <3>3. IncDptr(IncDptr(n)).cpu = [IncDptr(n).cpu EXCEPT !.dptr = Next16(IncDptr(n).cpu.dptr)]
      BY <2>8, NextDptr
    <3>4. IncDptr(n).cpu.dptr = Where[<<s, i - 1>>]
      BY <1>1, <2>5, <2>8, <3>2 DEF Cpu
    <3>5. IncDptr(IncDptr(n)).cpu = [n.cpu EXCEPT !.dptr = Where[e]]
      BY <1>1, <2>3, <2>8, <3>2, <3>3, <3>4 DEF Cpu
    <3> QED BY <2>7, <2>10, <3>5 DEF IncDptrBy
  <2> QED BY <2>4, <2>9, <2>10
<1> QED BY <1>2, <1>3, <1>4

\* Adding to DPTR: each byte and the carry between them.
LEMMA SumOver ==
  ASSUME NEW n, Good(n), NEW v \in Byte, NEW k \in Byte, NEW c \in Bit, NEW s \in Int,
         s = v + k + c, NEW w, w.cpu = [n.cpu EXCEPT !.a = v]
  PROVE  /\ Sum(w, k, c).cpu.a = (IF s < M THEN s ELSE s - M)
         /\ Sum(w, k, c).cpu.c = (IF s < M THEN 0 ELSE 1)
         /\ Sum(w, k, c).cpu.b = n.cpu.b /\ Sum(w, k, c).cpu.dptr = n.cpu.dptr
<1>1. w.cpu \in Cpu /\ w.cpu.a = v /\ w.cpu.b = n.cpu.b /\ w.cpu.dptr = n.cpu.dptr
  BY GoodParts DEF Cpu
<1>2. s = w.cpu.a + k + c
  BY <1>1
<1>3. Sum(w, k, c).cpu = [w.cpu EXCEPT !.a = IF s < M THEN s ELSE s - M, !.c = IF s < M THEN 0 ELSE 1]
  BY <1>2 DEF Sum, Both
<1> QED BY <1>1, <1>3 DEF Cpu

LEMMA AddDptrPoints ==
  ASSUME NEW n, Good(n), NEW off \in Nat
  PROVE  AddDptr(n, off).cpu.dptr = Plus16(n.cpu.dptr, off) /\ AddDptr(n, off).cpu.b = n.cpu.b
<1> DEFINE l == Sum([n EXCEPT !.cpu.a = n.cpu.dptr[1]], off % M, 0)
           h == Sum([l EXCEPT !.cpu.a = n.cpu.dptr[2]], (off \div M) % M, l.cpu.c)
<1>1. PICK u \in Byte, v \in Byte : u = n.cpu.dptr[1] /\ v = n.cpu.dptr[2] /\ n.cpu.dptr = <<u, v>>
  BY GoodParts, AddrParts
<1>2. PICK w \in Byte, q \in Nat : w = off % M /\ q = off \div M
  BY Division DEF Byte
<1>3. PICK k \in Byte : k = q % M
  BY Division DEF Byte
<1>4. Good(l) /\ 0 \in Bit
  BY <1>1, <1>2, SumOfAnything DEF Bit
<1>5. u \in Int /\ v \in Int /\ w \in Int /\ u + w + 0 = u + w /\ u + w \in Nat
  BY DEF Byte
<1>6. /\ l.cpu.a = (IF u + w < M THEN u + w ELSE u + w - M)
      /\ l.cpu.c = (IF u + w < M THEN 0 ELSE 1)
      /\ l.cpu.b = n.cpu.b /\ l.cpu.dptr = n.cpu.dptr
  <2>1. PICK s \in Int : s = u + w /\ s = u + w + 0
    BY <1>5
  <2> DEFINE y == [n EXCEPT !.cpu.a = u]
  <2>2. l = Sum(y, w, 0) /\ y.cpu = [n.cpu EXCEPT !.a = u]
    BY <1>1, <1>2, GoodParts DEF Both
  <2> HIDE DEF y
  <2> HIDE DEF l
  <2>3. /\ Sum(y, w, 0).cpu.a = (IF s < M THEN s ELSE s - M)
        /\ Sum(y, w, 0).cpu.c = (IF s < M THEN 0 ELSE 1)
        /\ Sum(y, w, 0).cpu.b = n.cpu.b /\ Sum(y, w, 0).cpu.dptr = n.cpu.dptr
    BY <1>4, <2>1, <2>2, SumOver
  <2>4. s < M <=> u + w < M
    BY <2>1
  <2>5. s - M = u + w - M
    BY <1>5, <2>1, MIsPositive
  <2> QED BY <2>1, <2>2, <2>3, <2>4, <2>5
<1> HIDE DEF l
<1>7. PICK c \in Bit : c = l.cpu.c
  BY <1>4, GoodParts
<1>8. /\ h.cpu.a = (IF v + k + c < M THEN v + k + c ELSE v + k + c - M)
      /\ h.cpu.b = l.cpu.b /\ h.cpu.dptr = l.cpu.dptr
  <2>1. PICK s \in Int : s = v + k + c
    BY MIsPositive DEF Byte, Bit
  <2> DEFINE y == [l EXCEPT !.cpu.a = v]
  <2>2. h = Sum(y, k, c) /\ y.cpu = [l.cpu EXCEPT !.a = v]
    BY <1>1, <1>2, <1>3, <1>4, <1>7, GoodParts DEF Both
  <2> HIDE DEF y
  <2> HIDE DEF h
  <2>3. /\ Sum(y, k, c).cpu.a = (IF s < M THEN s ELSE s - M)
        /\ Sum(y, k, c).cpu.b = l.cpu.b /\ Sum(y, k, c).cpu.dptr = l.cpu.dptr
    BY <1>4, <2>1, <2>2, SumOver
  <2>4. s < M <=> v + k + c < M
    BY <2>1
  <2>5. s - M = v + k + c - M
    BY <2>1, MIsPositive DEF Byte, Bit
  <2> QED BY <2>1, <2>2, <2>3, <2>4, <2>5
<1>9. Good(h)
  <2>1. Good(Sum([l EXCEPT !.cpu.a = v], k, c))
    BY <1>4, SumOfAnything
  <2> QED BY <1>1, <1>2, <1>3, <1>7, <2>1
<1> HIDE DEF h
<1>10. l.cpu.a = (u + w) % M /\ c = (u + w) \div M
  <2>1. CASE u + w < M
    <3>1. u + w \in Byte
      BY <1>5, <2>1, MIsPositive DEF Byte
    <3> QED BY <1>6, <1>7, <2>1, <3>1, SmallQuotient
  <2>2. CASE ~(u + w < M)
    <3>1. u + w - M \in 0 .. M - 1 /\ u + w = M * 1 + (u + w - M)
      BY <1>5, <2>2, MIsPositive DEF Byte
    <3> QED BY <1>5, <1>6, <1>7, <2>2, <3>1, Quotient
  <2> QED BY <2>1, <2>2
<1>11. h.cpu.a = (v + q + c) % M
  BY <1>3, <1>8, HighByte
<1>12. Plus16(n.cpu.dptr, off) = <<l.cpu.a, h.cpu.a>>
  BY <1>1, <1>2, <1>10, <1>11 DEF Plus16
<1> DEFINE x == MovDpl(h, l.cpu.a)
           y == MovDph(x, h.cpu.a)
<1>13. Good(x) /\ x.cpu.dptr = <<l.cpu.a, h.cpu.dptr[2]>> /\ x.cpu.b = h.cpu.b
  BY <1>4, <1>9, GoodParts, MovDplGood, MovDptrSets
<1> HIDE DEF x
<1>14. y.cpu.dptr = <<x.cpu.dptr[1], h.cpu.a>> /\ y.cpu.b = x.cpu.b
  BY <1>9, <1>13, GoodParts, MovDptrSets
<1>15. y.cpu.dptr = <<l.cpu.a, h.cpu.a>>
  BY <1>13, <1>14
<1> QED BY <1>6, <1>8, <1>12, <1>13, <1>14, <1>15 DEF AddDptr, x, l, h

LEMMA SetBasePoints ==
  ASSUME NEW n, Good(n), NEW lo \in Reg \cup Ram, NEW hi \in Reg \cup Ram
  PROVE  /\ SetBase(n, lo, hi).cpu.dptr = <<n.cpu.cell[lo], n.cpu.cell[hi]>>
         /\ SetBase(n, lo, hi).cpu.b = n.cpu.b
<1> DEFINE u == n.cpu.cell[lo]
           v == n.cpu.cell[hi]
           l == MovDpl(n, u)
           m == MovDph(l, v)
           f == <<"L", lo, hi>>
<1>1. u \in Byte /\ v \in Byte /\ Val(n.cpu, L(lo)) = u /\ Val(n.cpu, L(hi)) = v
      /\ Phys(lo) = lo /\ Phys(hi) = hi /\ Tracked(lo) /\ Tracked(hi)
  BY RegisterCell, GoodParts, CpuCells DEF Tracked, Memory
<1>2. Good(l) /\ l.cpu.dptr = <<u, n.cpu.dptr[2]>> /\ l.cpu.b = n.cpu.b
  BY <1>1, MovDplGood, MovDptrSets
<1> HIDE DEF l
<1>3. Good(m) /\ m.cpu.dptr = <<l.cpu.dptr[1], v>> /\ m.cpu.b = n.cpu.b
  BY <1>1, <1>2, MovDplGood, MovDptrSets
<1> HIDE DEF m
<1>4. m.cpu.dptr = <<u, v>>
  BY <1>2, <1>3
<1>5. CASE n.st.dptr = f
  <2>1. n.cpu.dptr = <<u, v>>
    BY <1>5, DptrKept
  <2>2. SetBase(n, lo, hi) = n
    BY <1>1, <1>5 DEF SetBase
  <2> QED BY <2>1, <2>2
<1>6. CASE n.st.dptr # f
  <2>1. SetBase(n, lo, hi) = [m EXCEPT !.st.dptr = f]
    BY <1>1, <1>6 DEF SetBase, m, l
  <2>2. [m EXCEPT !.st.dptr = f].cpu = m.cpu
    BY <1>3, GoodParts DEF Both
  <2> QED BY <1>3, <1>4, <2>1, <2>2
<1> QED BY <1>5, <1>6

LEMMA SetDptrMemPoints ==
  ASSUME NEW n, Good(n), NEW lo \in Reg \cup Ram, NEW hi \in Reg \cup Ram, NEW off \in Nat
  PROVE  /\ SetDptrMem(n, lo, hi, off).cpu.dptr = Plus16(<<n.cpu.cell[lo], n.cpu.cell[hi]>>, off)
         /\ SetDptrMem(n, lo, hi, off).cpu.b = n.cpu.b
<1> DEFINE m == SetBase(n, lo, hi)
<1>1. Good(m) /\ m.cpu.dptr = <<n.cpu.cell[lo], n.cpu.cell[hi]>> /\ m.cpu.b = n.cpu.b
  BY SetBaseGood, SetBasePoints
<1> HIDE DEF m
<1>2. CASE off \in 0 .. 3
  BY <1>1, <1>2, IncDptrByPoints DEF SetDptrMem, m
<1>3. CASE off \notin 0 .. 3
  BY <1>1, <1>3, AddDptrPoints DEF SetDptrMem, m
<1> QED BY <1>2, <1>3

\* gen_store to external RAM, up to the movx.
LEMMA GenStoreXPoints ==
  ASSUME NEW n, Good(n), NEW lo \in Reg \cup Ram, NEW hi \in Reg \cup Ram, NEW off \in Nat,
         NEW x \in Operand \cup FoldedTrees
  PROVE  LET m == GenStoreX(n, lo, hi, off, x).cpu
         IN /\ m.dptr = Plus16(<<n.cpu.cell[lo], n.cpu.cell[hi]>>, off)
            /\ m.a = Value(n.cpu, x) /\ m.cell = n.cpu.cell
<1> DEFINE a == LoadA(n, x)
           at == Plus16(<<n.cpu.cell[lo], n.cpu.cell[hi]>>, off)
           v == Value(n.cpu, x)
<1>1. x \in Source
  BY DEF Source, FoldedTrees
<1>2. Good(a) /\ a.cpu.a = v /\ a.cpu.cell = n.cpu.cell
  BY <1>1, LoadAGood, LoadAValue, LoadAKeeps DEF Keeps
<1> HIDE DEF a, at, v
<1>3. CASE ~IsTree(x)
  <2> DEFINE q == SetDptrMem(n, lo, hi, off)
  <2>1. Good(q) /\ q.cpu.cell = n.cpu.cell /\ q.cpu.dptr = at
    BY SetDptrMemGood, SetDptrMemPoints DEF at
  <2> HIDE DEF q
  <2>2. LoadA(q, x).cpu.a = v /\ Keeps(q, LoadA(q, x).cpu)
    BY <1>1, <2>1, LoadAValue, LoadAKeeps, ValueKept DEF v
  <2> QED BY <1>3, <2>1, <2>2 DEF GenStoreX, Keeps, q, at, v
<1>4. CASE IsTree(x) /\ DptrNeedsA(off)
  <2> DEFINE b == MovB(a, Acc)
             q == SetDptrMem(b, lo, hi, off)
  <2>1. Good(b) /\ b.cpu.b = v /\ b.cpu.cell = n.cpu.cell
    BY <1>2, MovBGood, GoodParts DEF MovB, Both, Cpu, Val
  <2> HIDE DEF b
  <2>2. Good(q) /\ q.cpu.cell = n.cpu.cell /\ q.cpu.dptr = at /\ q.cpu.b = v
    <3>1. Good(q) /\ q.cpu.cell = b.cpu.cell
      BY <2>1, SetDptrMemGood
    <3>2. q.cpu.dptr = Plus16(<<b.cpu.cell[lo], b.cpu.cell[hi]>>, off) /\ q.cpu.b = b.cpu.b
      BY <2>1, SetDptrMemPoints
    <3> QED BY <2>1, <3>1, <3>2 DEF at
  <2> HIDE DEF q
  <2>3. MovAB(q).cpu.a = v /\ MovAB(q).cpu.cell = n.cpu.cell /\ MovAB(q).cpu.dptr = at
    BY <2>2, GoodParts DEF MovAB, Both, Cpu
  <2> QED BY <1>4, <2>3 DEF GenStoreX, a, b, q, at, v
<1>5. CASE IsTree(x) /\ ~DptrNeedsA(off)
  <2> DEFINE q == SetDptrMem(a, lo, hi, off)
  <2>1. off \in 0 .. 3
    BY <1>5 DEF DptrNeedsA
  <2>2. Good(q) /\ q.cpu.cell = n.cpu.cell /\ q.cpu.dptr = at /\ q.cpu.a = v
    <3>1. Good(q) /\ q.cpu.cell = a.cpu.cell /\ q.cpu.a = a.cpu.a
      BY <1>2, <2>1, SetDptrMemGood
    <3>2. q.cpu.dptr = Plus16(<<a.cpu.cell[lo], a.cpu.cell[hi]>>, off)
      BY <1>2, SetDptrMemPoints
    <3> QED BY <1>2, <3>1, <3>2 DEF at
  <2> HIDE DEF q
  <2>3. [q EXCEPT !.st.a = a.st.a].cpu = q.cpu
    BY <2>2, GoodParts DEF Both
  <2> QED BY <1>5, <2>2, <2>3 DEF GenStoreX, a, q, at, v
<1> QED BY <1>3, <1>4, <1>5

\* gen_call_ty through a pointer.
LEMMA CallPtrPoints ==
  ASSUME NEW n, Good(n), NEW lo \in Reg \cup Ram, NEW hi \in Reg \cup Ram, NEW l \in Places,
         NEW x \in Operand
  PROVE  LET m == CallPtr(n, L(lo), L(hi), l, x).cpu
         IN /\ m.dptr = <<n.cpu.cell[lo], n.cpu.cell[hi]>>
            /\ m.cell = Changed(n.cpu, l, Value(n.cpu, x))
<1> DEFINE u == n.cpu.cell[lo]
           v == n.cpu.cell[hi]
           p == MovDpl(n, u)
           q == MovDph(p, v)
<1>1. u \in Byte /\ v \in Byte /\ Val(n.cpu, L(lo)) = u /\ Val(n.cpu, L(hi)) = v
  BY RegisterCell, GoodParts, CpuCells
<1>2. Good(p) /\ p.cpu.dptr = <<u, n.cpu.dptr[2]>> /\ p.cpu.cell = n.cpu.cell
  BY <1>1, MovDplGood, MovDptrSets
<1> HIDE DEF p
<1>3. Good(q) /\ q.cpu.dptr = <<p.cpu.dptr[1], v>> /\ q.cpu.cell = n.cpu.cell
  BY <1>1, <1>2, MovDplGood, MovDptrSets
<1> HIDE DEF q
<1>4. q.cpu.dptr = <<u, v>>
  BY <1>2, <1>3
<1>5. x \in Source
  BY DEF Source
<1>6. Puts(q, MoveByte(q, l, x).cpu, l, Value(n.cpu, x))
  BY <1>3, <1>5, MoveBytePuts, ValueKept
<1> QED BY <1>1, <1>3, <1>4, <1>6 DEF CallPtr, Puts, Changed, p, q

\* Setting a pointer register leaves B.
LEMMA IncByKeepsB ==
  ASSUME NEW n, Good(n), NEW r \in Reg, NEW k \in 0 .. 3
  PROVE  IncBy(n, r, k).cpu.b = n.cpu.b
<1>1. \A q : Good(q) => Good(IncReg(q, r)) /\ IncReg(q, r).cpu.b = q.cpu.b
  BY IncRegGood, GoodParts DEF IncReg, Both, Cpu
<1> DEFINE a == IncReg(n, r)
           b == IncReg(a, r)
           c == IncReg(b, r)
<1>2. Good(a) /\ a.cpu.b = n.cpu.b
  BY <1>1
<1> HIDE DEF a
<1>3. Good(b) /\ b.cpu.b = n.cpu.b
  BY <1>1, <1>2
<1> HIDE DEF b
<1>4. c.cpu.b = n.cpu.b
  BY <1>1, <1>3
<1> HIDE DEF c
<1>5. CASE k = 0
  BY <1>5 DEF IncBy
<1>6. CASE k = 1
  BY <1>2, <1>6 DEF IncBy, a
<1>7. CASE k = 2
  BY <1>3, <1>7 DEF IncBy, a, b
<1>8. CASE k = 3
  BY <1>4, <1>8 DEF IncBy, a, b, c
<1> QED BY <1>5, <1>6, <1>7, <1>8

LEMMA SetRptrKeepsB ==
  ASSUME NEW n, Good(n), NEW p \in Reg \cup Ram, NEW off \in Nat, NEW r \in Reg,
         p = r => off \in 0 .. 3
  PROVE  SetRptr(n, p, off, r).cpu.b = n.cpu.b
<1> DEFINE x == L(p)
<1>1. x \in Source /\ x \in Operand /\ r \in Places
  BY RegisterCell DEF Places
<1>2. CASE p = r
  BY <1>2, IncByKeepsB DEF SetRptr
<1>3. CASE p # r /\ off \in 0 .. 2
  <2> DEFINE q == MoveByte(n, r, x)
  <2>1. Good(q) /\ q.cpu.b = n.cpu.b
    BY <1>1, MoveByteGood, MoveBytePuts, RegisterCell DEF Puts
  <2> HIDE DEF q
  <2>2. IncBy(q, r, off).cpu.b = n.cpu.b
    BY <1>3, <2>1, IncByKeepsB
  <2> QED BY <1>3, <2>2 DEF SetRptr, q
<1>4. CASE p # r /\ off \notin 0 .. 2
  <2> DEFINE q == LoadA(n, x)
             w == Plus(q, K(off % M))
  <2>1. Good(q) /\ q.cpu.b = n.cpu.b
    BY <1>1, LoadAGood, LoadAKeeps DEF Keeps
  <2>2. K(off % M) \in Operand
    BY OffsetModulo, Division DEF Operand, Constant, Byte
  <2> HIDE DEF q
  <2>3. Good(w) /\ w.cpu.b = n.cpu.b
    BY <2>1, <2>2, PlusGood, PlusKeeps DEF Keeps
  <2> HIDE DEF w
  <2>4. Mov(w, r, Acc).cpu.b = n.cpu.b
    BY <2>3, MovPuts DEF Puts
  <2> QED BY <1>4, <2>4 DEF SetRptr, q, w
<1> QED BY <1>2, <1>3, <1>4

\* m is the machine n after v was written to the byte p points to, at an offset, with r
\* as the pointer register.
Written(n, m, p, off, r, v) ==
  \A d \in Cell \ {r} :
    m.cell[d] = IF d = At[(Val(n.cpu, L(p)) + off) % M] THEN v ELSE n.cpu.cell[d]

\* A byte of RAM is written through a pointer.
LEMMA StoreAtPuts ==
  ASSUME NEW n, NEW m, m.cpu \in Cpu, NEW p \in Reg \cup Ram, NEW off \in Nat, NEW r \in Reg,
         Points(n.cpu, p, off), Good(n), Aimed(n, m.cpu, p, off, r), NEW x
  PROVE  Written(n, StoreAt(m, r, x).cpu, p, off, r, Val(m.cpu, x))
<1> DEFINE a == (n.cpu.cell[p] + off) % M
           t == At[a]
<1>1. Val(n.cpu, L(p)) = n.cpu.cell[p] /\ r \in Cell /\ a \in DOMAIN At
  BY RegisterCell DEF Points
<1>2. t \in Ram /\ t \in Cell
  BY <1>1, CellAssumption DEF Cell, ByteCell
<1>3. m.cpu.cell = [n.cpu.cell EXCEPT ![r] = a]
  BY DEF Aimed
<1>4. n.cpu.cell \in [Cell -> Byte] /\ m.cpu.cell \in [Cell -> Byte]
  BY GoodParts DEF Cpu
<1> HIDE DEF a, t
<1>5. m.cpu.cell[r] = a /\ \A d \in Cell \ {r} : m.cpu.cell[d] = n.cpu.cell[d]
  BY <1>1, <1>3, <1>4
<1>6. StoreAt(m, r, x).cpu = [m.cpu EXCEPT !.cell[t] = Val(m.cpu, x)]
  BY <1>5 DEF StoreAt, Both, t
<1>7. StoreAt(m, r, x).cpu.cell = [m.cpu.cell EXCEPT ![t] = Val(m.cpu, x)]
  BY <1>6 DEF Cpu
<1> QED BY <1>1, <1>2, <1>4, <1>5, <1>7 DEF a, t, Written

LEMMA StoreTreePuts ==
  ASSUME NEW n, Good(n), NEW p \in Reg \cup Ram, NEW off \in Offsets, NEW r \in Reg,
         p = r => off \in 0 .. 3, Points(n.cpu, p, off), NEW t \in Stored
  PROVE  Written(n, StoreTree(n, p, off, r, Tree(t)).cpu, p, off, r, Value(n.cpu, Tree(t)))
<1>0. \A q : q.cpu \in Cpu /\ Aimed(n, q.cpu, p, off, r) =>
        Written(n, StoreAt(q, r, Acc).cpu, p, off, r, Val(q.cpu, Acc))
  <2> SUFFICES ASSUME NEW q, q.cpu \in Cpu, Aimed(n, q.cpu, p, off, r)
               PROVE  Written(n, StoreAt(q, r, Acc).cpu, p, off, r, Val(q.cpu, Acc))
    OBVIOUS
  <2>1. off \in Nat
    BY CodeAssumption
  <2> QED BY <2>1, StoreAtPuts
<1> DEFINE x == Tree(t)
           a == LoadA(n, x)
           v == Value(n.cpu, x)
<1>1. x \in Source /\ x \in FoldedTrees /\ off \in Nat /\ off # 3
  BY CodeAssumption, StoredAssumption DEF Source, FoldedTrees
<1>2. Good(a) /\ a.cpu.cell = n.cpu.cell /\ a.cpu.a = v
  BY <1>1, LoadAGood, LoadACells, LoadAValue
<1> HIDE DEF a
<1>3. CASE RptrNeedsA(off)
  <2> DEFINE b == MovB(a, Acc)
             q == SetRptr(b, p, off, r)
             w == MovAB(q)
  <2>1. Good(b) /\ b.cpu.cell = n.cpu.cell /\ b.cpu.b = v
    BY <1>2, MovBGood, GoodParts DEF MovB, Both, Cpu, Val
  <2> HIDE DEF b
  <2>2. Good(q) /\ Aimed(b, q.cpu, p, off, r) /\ q.cpu.b = v
    BY <1>1, <2>1, SetRptrSets, SetRptrKeepsB
  <2> HIDE DEF q
  <2>3. Good(w) /\ w.cpu.cell = q.cpu.cell /\ Val(w.cpu, Acc) = v
    BY <2>2, MovABGood, GoodParts DEF MovAB, Both, Cpu, Val
  <2>4. w.cpu \in Cpu /\ Aimed(n, w.cpu, p, off, r)
    BY <2>1, <2>2, <2>3, GoodParts DEF Aimed
  <2> HIDE DEF w, v
  <2>5. Written(n, StoreAt(w, r, Acc).cpu, p, off, r, Val(w.cpu, Acc))
    BY <1>0, <2>4
  <2> QED BY <1>3, <2>3, <2>5 DEF StoreTree, a, b, q, w, v
<1>4. CASE ~RptrNeedsA(off)
  <2> DEFINE q == SetRptr(a, p, off, r)
             w == [q EXCEPT !.st.a = a.st.a]
  <2>1. off \in 0 .. 2
    BY <1>1, <1>4 DEF RptrNeedsA
  <2>2. Good(q) /\ Aimed(a, q.cpu, p, off, r) /\ q.cpu.a = v
    BY <1>1, <1>2, <2>1, SetRptrSets
  <2> HIDE DEF q
  <2>3. w.cpu = q.cpu /\ Val(w.cpu, Acc) = v
    BY <2>2, GoodParts DEF Both, Val
  <2>4. w.cpu \in Cpu /\ Aimed(n, w.cpu, p, off, r)
    BY <1>2, <2>2, <2>3, GoodParts DEF Aimed
  <2> HIDE DEF w, v
  <2>5. Written(n, StoreAt(w, r, Acc).cpu, p, off, r, Val(w.cpu, Acc))
    BY <1>0, <2>4
  <2> QED BY <1>4, <2>3, <2>5 DEF StoreTree, a, q, w, v
<1> QED BY <1>3, <1>4

\* gen_store to internal RAM: the byte asked for goes to the byte pointed to.
LEMMA GenStorePuts ==
  ASSUME NEW n, Good(n), NEW p \in Reg \cup Ram, NEW off \in Offsets, NEW r \in Reg,
         NEW x \in Operand \cup {Tree(t) : t \in Stored},
         CanPoint(p, off, r, x), Points(n.cpu, p, off)
  PROVE  Written(n, GenStore(n, p, off, r, x).cpu, p, off, r, Value(n.cpu, x))
<1> DEFINE m == SetRptr(n, p, off, r)
           v == Value(n.cpu, x)
<1>1. off \in Nat /\ (p = r => off \in 0 .. 3)
  BY CodeAssumption DEF CanPoint
<1>2. Good(m) /\ Aimed(n, m.cpu, p, off, r)
  BY <1>1, SetRptrSets
<1> HIDE DEF m
<1>3. CASE IsTree(x)
  <2>1. PICK t \in Stored : x = Tree(t)
    BY <1>3, OperandIsPlain
  <2> QED BY <1>1, <1>3, <2>1, StoreTreePuts DEF GenStore
<1>4. CASE ~IsTree(x)
  <2>1. x \in Operand /\ x \in Source /\ x # Acc
    BY <1>4, OperandIsPlain DEF IsTree, Tree, Source
  <2>2. v = Val(n.cpu, x)
    BY <1>4 DEF Value
  <2>3. Val(m.cpu, x) = v
    <3>1. CASE x \in Constant
      BY <2>1, <2>2, <3>1 DEF Val, Constant, K, E
    <3>2. CASE \E l \in ByteCell \cup DOMAIN Window : x = L(l)
      <4>1. PICK l \in ByteCell \cup DOMAIN Window : x = L(l)
        BY <3>2
      <4>2. Phys(l) # r /\ Phys(l) \in Cell /\ r \in Cell
        BY <4>1, PhysByte, PhysIsCell, RegisterCell DEF CanPoint, L
      <4>3. m.cpu.cell[Phys(l)] = n.cpu.cell[Phys(l)]
        BY <1>2, <4>2, GoodParts DEF Aimed, Cpu
      <4> QED BY <2>2, <4>1, <4>3 DEF Val, L, Acc
    <3> QED BY <2>1, <3>1, <3>2 DEF Operand
  <2> HIDE DEF v
  <2>4. CASE x[1] = "L" /\ x[2] \in Reg
    <3> DEFINE q == LoadA(m, x)
    <3>1. Good(q) /\ q.cpu.cell = m.cpu.cell /\ q.cpu.a = v
      BY <1>2, <1>4, <2>1, <2>3, LoadAGood, LoadACells, LoadAValue DEF Value
    <3>2. q.cpu \in Cpu /\ Aimed(n, q.cpu, p, off, r) /\ Val(q.cpu, Acc) = v
      BY <1>2, <3>1, GoodParts DEF Aimed, Val
    <3> HIDE DEF q
    <3>3. Written(n, StoreAt(q, r, Acc).cpu, p, off, r, Val(q.cpu, Acc))
      BY <1>1, <3>2, StoreAtPuts
    <3> QED BY <1>4, <2>4, <3>2, <3>3 DEF GenStore, m, q, v
  <2>5. CASE ~(x[1] = "L" /\ x[2] \in Reg)
    <3>1. \A y : Val(m.cpu, y) = v =>
            Written(n, StoreAt(m, r, y).cpu, p, off, r, v)
      <4> SUFFICES ASSUME NEW y, Val(m.cpu, y) = v
                   PROVE  Written(n, StoreAt(m, r, y).cpu, p, off, r, v)
        OBVIOUS
      <4>1. m.cpu \in Cpu
        BY <1>2, GoodParts
      <4>2. Written(n, StoreAt(m, r, y).cpu, p, off, r, Val(m.cpu, y))
        BY <1>1, <1>2, <4>1, StoreAtPuts
      <4> QED BY <4>2
    <3>2. AHolds(m.st, x) => Val(m.cpu, Acc) = v
      <4> SUFFICES ASSUME AHolds(m.st, x) PROVE Val(m.cpu, Acc) = v
        OBVIOUS
      <4>1. m.st.a # None /\ m.st.a = ContentOf(m.st, x)
        BY <2>1 DEF AHolds
      <4>2. m.cpu.a = v
        BY <1>2, <2>1, <2>3, <4>1, ContentTrue, KnownEqual, GoodParts
      <4> QED BY <4>2 DEF Val
    <3>3. \/ GenStore(n, p, off, r, x) = StoreAt(m, r, Acc) /\ AHolds(m.st, x)
          \/ GenStore(n, p, off, r, x) = StoreAt(m, r, x)
      BY <1>4, <2>5 DEF GenStore, m
    <3> QED BY <2>3, <3>1, <3>2, <3>3 DEF v
  <2> QED BY <2>4, <2>5
<1> QED BY <1>3, <1>4

LEMMA GenLoadPuts ==
  ASSUME NEW n, Good(n), NEW p \in Reg \cup Ram, NEW off \in Nat, NEW r \in Reg,
         p = r => off \in 0 .. 3, Points(n.cpu, p, off), NEW l \in Places
  PROVE  LET m == GenLoad(n, l, p, off, r).cpu
         IN /\ m.cell[Phys(l)] = n.cpu.cell[At[(Val(n.cpu, L(p)) + off) % M]]
            /\ \A d \in Cell \ {r, Phys(l)} : m.cell[d] = n.cpu.cell[d]
<1> DEFINE m == SetRptr(n, p, off, r)
           a == (n.cpu.cell[p] + off) % M
           t == At[a]
           q == LoadAt(m, r)
           s == StoreA(q, l)
<1>1. Val(n.cpu, L(p)) = n.cpu.cell[p] /\ r \in Cell /\ a \in DOMAIN At /\ Phys(l) \in Cell
  BY RegisterCell, PlaceShapes, PhysIsCell DEF Points
<1>2. t \in Ram /\ t \in Cell /\ t # r
  BY <1>1, CellAssumption DEF Cell, ByteCell
<1>3. Good(m) /\ m.cpu.cell = [n.cpu.cell EXCEPT ![r] = a]
  <2>1. Good(m) /\ Aimed(n, m.cpu, p, off, r)
    BY SetRptrSets
  <2> HIDE DEF m
  <2> QED BY <2>1 DEF Aimed
<1>4. n.cpu.cell \in [Cell -> Byte]
  BY GoodParts DEF Cpu
<1> HIDE DEF a, t, m
<1>5. m.cpu.cell[r] = a /\ \A d \in Cell \ {r} : m.cpu.cell[d] = n.cpu.cell[d]
  BY <1>1, <1>3, <1>4
<1>6. Good(q)
  BY <1>1, <1>3, <1>5, LoadAtGood
<1>7. q.cpu.cell = m.cpu.cell /\ q.cpu.a = n.cpu.cell[t]
  BY <1>2, <1>3, <1>5, GoodParts DEF LoadAt, Both, Cpu, t
<1> HIDE DEF q
<1>8. s.cpu.cell = [q.cpu.cell EXCEPT ![Phys(l)] = q.cpu.a]
  BY <1>6, StoreAPuts DEF Puts, Changed
<1>9. q.cpu.cell \in [Cell -> Byte]
  BY <1>6, GoodParts DEF Cpu
<1> HIDE DEF s
<1>10. s.cpu.cell[Phys(l)] = n.cpu.cell[t]
  BY <1>1, <1>7, <1>8, <1>9
<1>11. \A d \in Cell \ {r, Phys(l)} : s.cpu.cell[d] = n.cpu.cell[d]
  BY <1>1, <1>5, <1>7, <1>8, <1>9
<1> QED BY <1>1, <1>10, <1>11 DEF GenLoad, m, q, s, a, t

\* A pointer register or DPTR points where it should whenever memory is accessed or a
\* function called, and the value that waits meanwhile is not disturbed
\* (select.rs:1779, 2882).
THEOREM PointersPoint == Spec => []Pointed
<1>1. Inv => Pointed
  <2> SUFFICES ASSUME Inv PROVE Pointed
    OBVIOUS
  <2>1. Good(Now) /\ Now.cpu = cpu
    BY DEF Inv, Now, Both
  <2>2. ASSUME NEW p \in Pointers, NEW off \in Offsets, NEW r \in PtrReg, Points(cpu, p, off),
               NEW x \in Plain \cup {Tree(t) : t \in Stored}, CanPoint(p, off, r, x)
        PROVE  Only(GenStore(Now, p, off, r, x).cpu, r, At[(Val(cpu, L(p)) + off) % M], Value(cpu, x))
    <3>1. p \in Reg \cup Ram /\ r \in Reg /\ x \in Operand \cup {Tree(t) : t \in Stored}
      BY InputShapes
    <3>2. Written(Now, GenStore(Now, p, off, r, x).cpu, p, off, r, Value(cpu, x))
      BY <2>1, <2>2, <3>1, GenStorePuts
    <3> QED BY <2>1, <3>2 DEF Written, Only
  <2>3. ASSUME NEW p \in Pointers, NEW off \in Offsets, NEW r \in PtrReg, Points(cpu, p, off),
               NEW l \in Places, CanPoint(p, off, r, None)
        PROVE  LET n == GenLoad(Now, l, p, off, r).cpu
               IN /\ n.cell[Phys(l)] = cpu.cell[At[(Val(cpu, L(p)) + off) % M]]
                  /\ \A d \in Cell \ {r, Phys(l)} : n.cell[d] = cpu.cell[d]
    <3>1. p \in Reg \cup Ram /\ r \in Reg /\ off \in Nat /\ (p = r => off \in 0 .. 3)
      BY <2>3, InputShapes DEF CanPoint
    <3> QED BY <2>1, <2>3, <3>1, GenLoadPuts
  <2>4. \A e \in Expr : SetDptr(Now, e).cpu = [cpu EXCEPT !.dptr = Where[e]]
    BY <2>1, SetDptrPoints
  <2>5. ASSUME NEW w \in Words
        PROVE  /\ w[1] \in Reg \cup Ram /\ w[2] \in Reg \cup Ram
               /\ <<Val(cpu, L(w[1])), Val(cpu, L(w[2]))>> = <<cpu.cell[w[1]], cpu.cell[w[2]]>>
    BY InputShapes, RegisterCell
  <2>6. ASSUME NEW w \in Words, NEW off \in Offsets, NEW x \in Sources
        PROVE  LET n == GenStoreX(Now, w[1], w[2], off, x).cpu
               IN /\ n.dptr = Plus16(<<Val(cpu, L(w[1])), Val(cpu, L(w[2]))>>, off)
                  /\ n.a = Value(cpu, x) /\ n.cell = cpu.cell
    <3>1. x \in Operand \cup FoldedTrees /\ off \in Nat
      BY InputShapes DEF FoldedTrees
    <3> QED BY <2>1, <2>5, <3>1, GenStoreXPoints
  <2>7. ASSUME NEW w \in Words, NEW l \in Reg, NEW x \in Plain
        PROVE  LET n == CallPtr(Now, L(w[1]), L(w[2]), l, x).cpu
               IN /\ n.dptr = <<Val(cpu, L(w[1])), Val(cpu, L(w[2]))>>
                  /\ n.cell = Changed(cpu, l, Value(cpu, x))
    <3>1. x \in Operand /\ l \in Places
      BY InputShapes DEF Places, ByteCell
    <3> QED BY <2>1, <2>5, <3>1, CallPtrPoints
  <2> QED BY <2>2, <2>3, <2>4, <2>6, <2>7 DEF Pointed
<1> QED BY <1>1, InvHolds, PTL
=============================================================================
