------------------------------ MODULE Tracking ------------------------------
(***************************************************************************)
(* What instruction selection knows of the machine (src/cg/select.rs).     *)
(*                                                                         *)
(* While it emits code, the selector keeps facts about A, B, C, DPTR and   *)
(* the bytes and bits of internal RAM, and leaves out every instruction    *)
(* whose effect the facts say is there already.  Each operation below      *)
(* emits its code, which changes the facts and, here at once, the machine  *)
(* that runs the code: a basic block is compiled and executed in step.     *)
(*                                                                         *)
(* A byte has the values 0 .. M - 1.                                       *)
(***************************************************************************)
EXTENDS Integers, FiniteSets

CONSTANTS
  M,         (* number of values of a byte, even                            *)
  Reg,       (* the registers of the bank; numbers                          *)
  Ram,       (* other bytes of internal RAM                                 *)
  Sfr,       (* special function registers: the hardware changes them       *)
  BitRam,    (* bits of internal RAM                                        *)
  SfrBit,    (* bits of special function registers                          *)
  At,        (* the byte of Ram at an address                               *)
  Window,    (* direct addresses that are registers of the bank             *)
  Symbols,   (* symbols of external RAM and code                            *)
  MaxOffset, (* offsets into a symbol                                       *)
  Where,     (* what the linker makes of symbol + offset                    *)
  Offsets,   (* offsets of accesses through pointers                        *)
  Trees,     (* expressions that fold.rs leaves to be computed into A       *)
  Stored,    (* those of them that are stored through pointers              *)
  Immediate, (* constants in the code                                       *)
  Pointers,  (* locations of pointers to internal RAM                       *)
  Words,     (* locations of pointers to external RAM or code: pairs        *)
  Outside,   (* bytes that hardware, external RAM, a product or a callee leaves *)
  Start,     (* machines a function may begin with                          *)
  MaxOps     (* bound on the operations of a basic block                    *)

VARIABLES
  st,        (* the facts: State                                            *)
  cpu,       (* the machine                                                 *)
  ops        (* operations so far                                           *)

vars == <<st, cpu, ops>>

Byte == 0 .. M - 1
Bit == {0, 1}
ByteCell == Reg \cup Ram \cup Sfr
BitCell == BitRam \cup SfrBit
Memory == Reg \cup Ram \cup BitRam
Cell == ByteCell \cup BitCell
Loc == Cell \cup DOMAIN Window
Addr == Byte \X Byte
Expr == Symbols \X (0 .. MaxOffset)

Next16(p) == IF p[1] < M - 1 THEN <<p[1] + 1, p[2]>>
             ELSE <<0, IF p[2] < M - 1 THEN p[2] + 1 ELSE 0>>

ASSUME SizeAssumption == M \in Nat /\ \E h \in 1 .. M : M = 2 * h
ASSUME CellAssumption ==
  /\ Reg \subseteq 0 .. 7 /\ Window \in [DOMAIN Window -> Reg] /\ DOMAIN Window \cap Cell = {}
  /\ ByteCell \cap BitCell = {}
  /\ Memory \cap (Sfr \cup SfrBit) = {} /\ Reg \cap Ram = {}
  /\ DOMAIN At \subseteq Byte /\ At \in [DOMAIN At -> Ram]
ASSUME LinkAssumption ==
  /\ MaxOffset \in Nat /\ Where \in [Expr -> Addr]
  /\ \A s \in Symbols : \A o \in 1 .. MaxOffset : Where[<<s, o>>] = Next16(Where[<<s, o - 1>>])

-----------------------------------------------------------------------------
(***************************************************************************)
(* Facts, and sources of moves: a constant, (the low byte of) an address,  *)
(* a location, and for sources also A itself or a folded expression.       *)
(***************************************************************************)
None == <<"none">>
K(k) == <<"K", k>>
E(e) == <<"E", e>>
L(c) == <<"L", c>>
Acc == <<"Acc">>
Tree(t) == <<"Tree", t>>

Constant == {K(k) : k \in Byte} \cup {E(e) : e \in Expr}
Fact == {None} \cup Constant \cup {L(c) : c \in Memory}
BitFact == {None} \cup {K(k) : k \in Bit} \cup {L(c) : c \in BitRam}
DptrFact == {None} \cup {E(e) : e \in Expr} \cup {<<"L", a, b>> : a, b \in Reg \cup Ram}

State == [a : Fact, b : Fact, c : BitFact, dptr : DptrFact, mem : [Memory -> Fact]]
Cpu == {m \in [a : Byte, b : Byte, c : Bit, dptr : Addr, cell : [Cell -> Byte]] :
          \A l \in BitCell : m.cell[l] \in Bit}

Operand == Constant \cup {L(l) : l \in ByteCell \cup DOMAIN Window}
BitOperand == {K(k) : k \in Bit} \cup {L(l) : l \in BitCell}

\* Expressions: a sum, without a zero term (combine.rs removes it), a complement,
\* the low byte of a word.
Folded ==
  {<<"add", x, y>> : x \in Operand, y \in Operand \ {K(0)}}
    \cup {<<f, x>> : f \in {"not", "low"}, x \in Operand}

ASSUME CodeAssumption ==
  /\ Trees \subseteq Folded /\ Stored \subseteq Trees /\ Offsets \subseteq Nat
  /\ Immediate \subseteq Constant /\ Pointers \subseteq Reg \cup Ram
  /\ Words \subseteq (Reg \cup Ram) \X (Reg \cup Ram)
  /\ Outside \subseteq Byte /\ Start \subseteq Cpu /\ MaxOps \in Nat

(***************************************************************************)
(* Two cases the code gets wrong are left out.  At offset 3 set_rptr goes  *)
(* through A, where rptr_setup_needs_a (select.rs:1869) says it does not.  *)
(* And the low byte of a word can be in the very register that is made the *)
(* pointer: what gen_store then restores of A (select.rs:1790) is about a  *)
(* byte that is gone.                                                      *)
(***************************************************************************)
ASSUME StoredAssumption ==
  Stored # {} => 3 \notin Offsets /\ \A t \in Stored : t[1] # "low"

Fresh == [a |-> None, b |-> None, c |-> None, dptr |-> None, mem |-> [c \in Memory |-> None]]

\* The cell a location is, and what of it can be known: nothing of an SFR.
Phys(l) == IF l \in DOMAIN Window THEN Window[l] ELSE l
Tracked(l) == Phys(l) \in Memory

\* What an operand holds, as far as it is known; every other location holds itself.
ContentOf(s, x) ==
  IF x = Acc THEN s.a
  ELSE IF x[1] \in {"K", "E"} THEN x
  ELSE IF ~Tracked(x[2]) THEN None
  ELSE IF s.mem[Phys(x[2])] # None THEN s.mem[Phys(x[2])] ELSE L(Phys(x[2]))

\* The value of an operand.
Val(m, x) ==
  IF x = Acc THEN m.a
  ELSE IF x[1] = "K" THEN x[2]
  ELSE IF x[1] = "E" THEN Where[x[2]][1]
  ELSE m.cell[Phys(x[2])]

Unless(f, k) == IF f = L(k) THEN None ELSE f

\* invalidate_refs: cell k changes; what was known to equal it is not any more.
Forget(s, k) ==
  [a |-> Unless(s.a, k), b |-> Unless(s.b, k), c |-> Unless(s.c, k),
   dptr |-> IF s.dptr[1] = "L" /\ (s.dptr[2] = k \/ s.dptr[3] = k) THEN None ELSE s.dptr,
   mem |-> [c \in Memory |-> Unless(s.mem[c], k)]]

\* write: the location l now holds f.
Write(s, l, f) ==
  IF ~Tracked(l) \/ f = L(Phys(l)) THEN s
  ELSE [Forget(s, Phys(l)) EXCEPT !.mem[Phys(l)] = f]

\* Fault for FactsTrue: the bytes of RAM are forgotten, not who was known to equal them.
ClobberKeys(s) == [s EXCEPT !.mem = [c \in Memory |-> IF c \in Reg THEN @[c] ELSE None]]

\* clobber_mem: some byte of RAM, not a register, was written through a pointer.
ClobberMem(s) ==
  LET kept(f) == IF f[1] = "L" /\ f[2] \notin Reg THEN None ELSE f
      ram(f) == IF f[1] = "L" /\ f[2] \in ByteCell \ Reg THEN None ELSE f
  IN [a |-> kept(s.a), b |-> kept(s.b), c |-> IF s.c[1] = "L" THEN None ELSE s.c,
      dptr |-> IF s.dptr[1] = "L" THEN None ELSE s.dptr,
      mem |-> [c \in Memory |-> IF c \in Reg THEN ram(s.mem[c]) ELSE None]]

-----------------------------------------------------------------------------
(***************************************************************************)
(* Instructions, on n = [st, cpu]: what transfer makes of the facts, and   *)
(* what the processor does.                                                *)
(***************************************************************************)
Both(s, m) == [st |-> s, cpu |-> m]

\* mov a, x
MovA(n, x) ==
  Both([n.st EXCEPT !.a = ContentOf(n.st, x)], [n.cpu EXCEPT !.a = Val(n.cpu, x)])

\* mov l, x
Mov(n, l, x) ==
  LET known == ContentOf(n.st, x)
      w == Write(n.st, l, known)
  IN Both(IF x = Acc /\ known = None
          THEN [w EXCEPT !.a = IF Tracked(l) THEN L(Phys(l)) ELSE None] ELSE w,
          [n.cpu EXCEPT !.cell[Phys(l)] = Val(n.cpu, x)])

\* Fold(f, v): the fact f if it is a constant, which the instruction turns into v.
Fold(f, v) == IF f[1] = "K" THEN K(v) ELSE None

IncV(v) == IF v < M - 1 THEN v + 1 ELSE 0
DecV(v) == IF v > 0 THEN v - 1 ELSE M - 1

ClrA(n) == Both([n.st EXCEPT !.a = K(0)], [n.cpu EXCEPT !.a = 0])
\* Fault for TypeOK: the complement of a known byte is taken in a wider type.
CplAWide(n) == Both([n.st EXCEPT !.a = Fold(n.st.a, M - n.st.a[2])],
                    [n.cpu EXCEPT !.a = M - 1 - n.cpu.a])
CplA(n) == Both([n.st EXCEPT !.a = Fold(n.st.a, M - 1 - n.st.a[2])],
                [n.cpu EXCEPT !.a = M - 1 - n.cpu.a])
IncA(n) == Both([n.st EXCEPT !.a = Fold(n.st.a, IncV(n.st.a[2]))],
                [n.cpu EXCEPT !.a = IncV(n.cpu.a)])
DecA(n) == Both([n.st EXCEPT !.a = Fold(n.st.a, DecV(n.st.a[2]))],
                [n.cpu EXCEPT !.a = DecV(n.cpu.a)])

\* add / addc a, #v or a location's value
Sum(n, v, carry) ==
  LET s == n.cpu.a + v + carry
  IN Both([n.st EXCEPT !.a = None, !.c = None],
          [n.cpu EXCEPT !.a = IF s < M THEN s ELSE s - M, !.c = IF s < M THEN 0 ELSE 1])

\* rlc a and rrc a
Rlc(n) ==
  LET d == 2 * n.cpu.a + n.cpu.c
  IN Both([n.st EXCEPT !.a = None, !.c = None],
          [n.cpu EXCEPT !.a = IF d < M THEN d ELSE d - M, !.c = IF d < M THEN 0 ELSE 1])
Rrc(n) ==
  Both([n.st EXCEPT !.a = None, !.c = None],
       [n.cpu EXCEPT !.a = (n.cpu.a \div 2) + n.cpu.c * (M \div 2), !.c = n.cpu.a % 2])

\* clr c, setb c
PutC(n, k) == Both([n.st EXCEPT !.c = K(k)], [n.cpu EXCEPT !.c = k])

\* mov c, bit
MovC(n, l) ==
  Both([n.st EXCEPT !.c = IF ~Tracked(l) THEN None
                          ELSE IF n.st.mem[l][1] = "K" THEN n.st.mem[l] ELSE L(l)],
       [n.cpu EXCEPT !.c = n.cpu.cell[l]])

\* mov bit, c
MovBit(n, l) ==
  LET w == Write(n.st, l, n.st.c)
  IN Both(IF n.st.c = None /\ Tracked(l) THEN [w EXCEPT !.c = L(l)] ELSE w,
          [n.cpu EXCEPT !.cell[l] = n.cpu.c])

\* clr bit, setb bit
PutBit(n, l, k) == Both(Write(n.st, l, K(k)), [n.cpu EXCEPT !.cell[l] = k])

\* mov b, x; mov a, b
MovB(n, x) ==
  Both([n.st EXCEPT !.b = ContentOf(n.st, x)], [n.cpu EXCEPT !.b = Val(n.cpu, x)])
MovAB(n) == Both([n.st EXCEPT !.a = None], [n.cpu EXCEPT !.a = n.cpu.b])

\* mov dptr, #e; inc dptr; mov dpl, v; mov dph, v
MovDptr(n, e) == Both([n.st EXCEPT !.dptr = E(e)], [n.cpu EXCEPT !.dptr = Where[e]])
IncDptr(n) ==
  Both([n.st EXCEPT !.dptr = IF @[1] = "E" /\ @[2][2] < MaxOffset
                             THEN E(<<@[2][1], @[2][2] + 1>>) ELSE None],
       [n.cpu EXCEPT !.dptr = Next16(@)])
MovDpl(n, v) == Both([n.st EXCEPT !.dptr = None], [n.cpu EXCEPT !.dptr[1] = v])
MovDph(n, v) == Both([n.st EXCEPT !.dptr = None], [n.cpu EXCEPT !.dptr[2] = v])

\* inc r
IncReg(n, r) ==
  LET f == ContentOf(n.st, L(r))
  IN Both(Write(n.st, r, Fold(f, IncV(f[2]))), [n.cpu EXCEPT !.cell[r] = IncV(@)])

\* mov @r, x; mov a, @r
StoreAt(n, r, x) ==
  Both(ClobberMem(n.st), [n.cpu EXCEPT !.cell[At[n.cpu.cell[r]]] = Val(n.cpu, x)])
LoadAt(n, r) ==
  Both([n.st EXCEPT !.a = None], [n.cpu EXCEPT !.a = n.cpu.cell[At[n.cpu.cell[r]]]])

-----------------------------------------------------------------------------
(***************************************************************************)
(* Moves and loads.                                                        *)
(***************************************************************************)
IsBit(l) == l \in BitCell
IsTree(x) == x[1] = "Tree"

\* Fault for Delivers: nothing known of A and nothing known of x is taken for equal.
AHoldsUnknown(s, x) == x = Acc \/ (~IsTree(x) /\ s.a = ContentOf(s, x))

\* a_holds
AHolds(s, x) == x = Acc \/ (~IsTree(x) /\ s.a # None /\ s.a = ContentOf(s, x))

FromC(n) == Rlc(ClrA(n))

\* load_a, for anything but an expression.
LoadPlain(n, x) ==
  IF AHolds(n.st, x) THEN n
  ELSE IF x[1] = "L" /\ IsBit(x[2]) THEN FromC(MovC(n, x[2]))
  ELSE IF ContentOf(n.st, x) = K(0) THEN ClrA(n)
  ELSE MovA(n, x)

\* alu, for addition
Plus(n, x) ==
  IF x = K(0) THEN n
  ELSE IF x = K(1) THEN IncA(n)
  ELSE IF x = K(M - 1) THEN DecA(n)
  ELSE Sum(n, Val(n.cpu, x), 0)

\* gen_tree: a sum, a complement, the low byte of a word.
GenTree(n, t) ==
  LET x == LoadPlain(n, t[2])
  IN CASE t[1] = "add" -> Plus(x, t[3])
       [] t[1] = "not" -> CplA(x)
       [] OTHER -> x

LoadA(n, x) == IF IsTree(x) THEN GenTree(n, x[2]) ELSE LoadPlain(n, x)

StoreA(n, l) ==
  IF IsBit(l) THEN MovBit(Rrc(n), l)
  ELSE IF n.st.a # None /\ n.st.a = ContentOf(n.st, L(l)) THEN n
  ELSE Mov(n, l, Acc)

\* load_c_src
LoadC(n, x) ==
  IF x[1] = "K" THEN IF n.st.c = K(x[2] % 2) THEN n ELSE PutC(n, x[2] % 2)
  ELSE IF x[1] = "L" /\ IsBit(x[2])
       THEN IF Tracked(x[2]) /\ n.st.c = L(x[2]) THEN n ELSE MovC(n, x[2])
  ELSE Rrc(LoadA(n, x))

\* Registers known to hold the constant k; the first is a cheap source.
Holding(s, k) == {r \in Reg : s.mem[r] = K(k)}
First(S) == CHOOSE r \in S : \A q \in S : r <= q

\* What move_byte finds in place already.
There(s, l, x) ==
  /\ ~IsTree(x) /\ ContentOf(s, x) # None
  /\ ContentOf(s, x) = ContentOf(s, L(l))

MoveByte(n, l, x) ==
  LET f == ContentOf(n.st, x)
  IN IF IsBit(l) THEN MovBit(LoadC(n, x), l)
     ELSE IF x = L(l) THEN n
     ELSE IF x[1] = "L" /\ IsBit(x[2]) THEN StoreA(FromC(LoadC(n, x)), l)
     ELSE IF There(n.st, l, x) THEN n
     ELSE IF IsTree(x) \/ AHolds(n.st, x) THEN StoreA(LoadA(n, x), l)
     ELSE IF l \notin Reg /\ f[1] = "K" /\ Holding(n.st, f[2]) # {}
          THEN Mov(n, l, L(First(Holding(n.st, f[2]))))
     ELSE Mov(n, l, x)

LoadB(n, x) ==
  IF n.st.b # None /\ n.st.b = ContentOf(n.st, x) THEN n
  ELSE IF AHolds(n.st, x) THEN MovB(n, Acc) ELSE MovB(n, x)

\* load_b_then_a: y into B and x into A; at most one is an expression.
LoadBThenA(n, y, x) ==
  IF IsTree(y) THEN LoadA(MovB(LoadA(n, y), Acc), x)
  ELSE IF IsTree(x) THEN LoadB(LoadA(n, x), y)
  ELSE LoadA(LoadB(n, y), x)

\* gen_store to a bit.
StoreBit(n, l, x) ==
  IF x[1] = "K"
  THEN IF Tracked(l) /\ n.st.mem[l] = K(x[2] % 2) THEN n ELSE PutBit(n, l, x[2] % 2)
  ELSE MovBit(LoadC(n, x), l)

-----------------------------------------------------------------------------
(***************************************************************************)
(* Memory behind pointers: DPTR for external RAM, R0 or R1 for internal.   *)
(***************************************************************************)
IncBy(n, r, k) ==
  CASE k = 0 -> n
    [] k = 1 -> IncReg(n, r)
    [] k = 2 -> IncReg(IncReg(n, r), r)
    [] k = 3 -> IncReg(IncReg(IncReg(n, r), r), r)

IncDptrBy(n, k) ==
  CASE k = 0 -> n
    [] k = 1 -> IncDptr(n)
    [] k = 2 -> IncDptr(IncDptr(n))
    [] k = 3 -> IncDptr(IncDptr(IncDptr(n)))

\* set_dptr_expr
SetDptr(n, e) ==
  LET cur == n.st.dptr
  IN IF cur = E(e) THEN n
     ELSE IF cur[1] = "E" /\ cur[2][1] = e[1] /\ e[2] - cur[2][2] \in 1 .. 2
          THEN IncDptrBy(n, e[2] - cur[2][2])
     ELSE MovDptr(n, e)

\* DPTR := the pointer in lo and hi.
SetBase(n, lo, hi) ==
  LET m == MovDph(MovDpl(n, Val(n.cpu, L(lo))), Val(n.cpu, L(hi)))
  IN IF ~(Tracked(lo) /\ Tracked(hi)) THEN m
     ELSE IF n.st.dptr = <<"L", Phys(lo), Phys(hi)>> THEN n
     ELSE [m EXCEPT !.st.dptr = <<"L", Phys(lo), Phys(hi)>>]

\* DPTR := DPTR + off, through A.
AddDptr(n, off) ==
  LET l == Sum([n EXCEPT !.cpu.a = n.cpu.dptr[1]], off % M, 0)
      h == Sum([l EXCEPT !.cpu.a = n.cpu.dptr[2]], (off \div M) % M, l.cpu.c)
  IN MovDph(MovDpl(h, l.cpu.a), h.cpu.a)

\* set_dptr_mem, for a pointer in two locations.
SetDptrMem(n, lo, hi, off) ==
  LET m == SetBase(n, lo, hi)
  IN IF off \in 0 .. 3 THEN IncDptrBy(m, off) ELSE AddDptr(m, off)

PtrReg == Reg \cap {0, 1}

\* set_rptr: r := the pointer in location p, plus off.  If p is r itself the
\* pointer is dead and moved in place.
SetRptr(n, p, off, r) ==
  IF p = r THEN IncBy(n, r, off)
  ELSE IF off \in 0 .. 2 THEN IncBy(MoveByte(n, r, L(p)), r, off)
  ELSE Mov(Plus(LoadA(n, L(p)), K(off % M)), r, Acc)

\* A pointer register that holds no operand, or the pointer itself.
CanPoint(p, off, r, x) ==
  /\ p = r => off \in 0 .. 3
  /\ x[1] = "L" => Phys(x[2]) # r

\* Fault for Pointed: A is thought to be free where adding to DPTR takes it.
DptrNeedsALate(off) == off > 7

\* rptr_setup_needs_a, dptr_setup_needs_a
RptrNeedsA(off) == off \notin 0 .. 3
DptrNeedsA(off) == off > 3

\* gen_store of a byte to internal RAM.  An expression is computed first and
\* waits in A, or in B where pointing takes A.
StoreTree(n, p, off, r, x) ==
  LET a == LoadA(n, x)
  IN IF RptrNeedsA(off)
     THEN StoreAt(MovAB(SetRptr(MovB(a, Acc), p, off, r)), r, Acc)
     ELSE StoreAt([SetRptr(a, p, off, r) EXCEPT !.st.a = a.st.a], r, Acc)

GenStore(n, p, off, r, x) ==
  LET m == SetRptr(n, p, off, r)
  IN IF IsTree(x) THEN StoreTree(n, p, off, r, x)
     ELSE IF x[1] = "L" /\ x[2] \in Reg THEN StoreAt(LoadA(m, x), r, Acc)
     ELSE IF x[1] # "L" /\ AHolds(m.st, x) THEN StoreAt(m, r, Acc)
     ELSE StoreAt(m, r, x)

\* load_mem_a and store_a: a byte of internal RAM to location l.
GenLoad(n, l, p, off, r) == StoreA(LoadAt(SetRptr(n, p, off, r), r), l)

\* gen_store of a byte to external RAM, up to the movx: the address is in DPTR
\* and the byte in A.
GenStoreX(n, lo, hi, off, x) ==
  LET a == LoadA(n, x)
  IN IF ~IsTree(x) THEN LoadA(SetDptrMem(n, lo, hi, off), x)
     ELSE IF DptrNeedsA(off) THEN MovAB(SetDptrMem(MovB(a, Acc), lo, hi, off))
     ELSE [SetDptrMem(a, lo, hi, off) EXCEPT !.st.a = a.st.a]

\* movx a, @dptr and store_a: byte v of external RAM to location l.
LoadX(n, l, v) == StoreA(Both([n.st EXCEPT !.a = None], [n.cpu EXCEPT !.a = v]), l)

\* Fault for Pointed: the target is fetched after the argument was moved.
CallPtrLate(n, lo, hi, l, x) ==
  LET m == MoveByte(n, l, x) IN MovDph(MovDpl(m, Val(m.cpu, lo)), Val(m.cpu, hi))

\* gen_call_ty through a pointer: the target goes to DPTR, then an argument to
\* its place.
CallPtr(n, lo, hi, l, x) ==
  MoveByte(MovDph(MovDpl(n, Val(n.cpu, lo)), Val(n.cpu, hi)), l, x)

\* What an operation was asked to deliver.
Value(m, x) ==
  IF ~IsTree(x) THEN Val(m, x)
  ELSE LET t == x[2]
       IN CASE t[1] = "add" -> (Val(m, t[2]) + Val(m, t[3])) % M
            [] t[1] = "not" -> M - 1 - Val(m, t[2])
            [] OTHER -> Val(m, t[2])

-----------------------------------------------------------------------------
(***************************************************************************)
(* A basic block: operations in any order.                                 *)
(***************************************************************************)
Now == Both(st, cpu)
Plain == Immediate \cup {L(l) : l \in ByteCell \cup DOMAIN Window}
Sources == Plain \cup {Tree(t) : t \in Trees}
Places == ByteCell \cup DOMAIN Window

Become(n) == ops < MaxOps /\ ops' = ops + 1 /\ st' = n.st /\ cpu' = n.cpu

Points(m, p, off) == (Val(m, L(p)) + off) % M \in DOMAIN At

Move == \E l \in Places, x \in Sources : Become(MoveByte(Now, l, x))
MoveBit ==
  \/ \E l \in BitCell, x \in BitOperand \cup Sources : Become(MoveByte(Now, l, x))
  \/ \E l \in Places, x \in BitOperand : Become(MoveByte(Now, l, x))
  \/ \E l \in BitCell, x \in BitOperand : Become(StoreBit(Now, l, x))

\* An operation on A and B that leaves v and w.
Multiply ==
  \E y \in Plain, x \in Sources, v, w \in Outside :
    LET n == LoadBThenA(Now, y, x)
    IN Become(Both([n.st EXCEPT !.a = None, !.b = None, !.c = K(0)],
                   [n.cpu EXCEPT !.a = v, !.b = w, !.c = 0]))

\* gen_load of a volatile byte.
LoadVolatile ==
  \E l \in Places, x \in {L(c) : c \in Ram \cup Sfr} :
    Become([MoveByte(Now, l, x) EXCEPT !.st.a = None])

Load ==
  \E l \in Places, p \in Pointers, off \in Offsets, r \in PtrReg :
    /\ Points(cpu, p, off) /\ CanPoint(p, off, r, None)
    /\ Become(GenLoad(Now, l, p, off, r))

Store ==
  \E x \in Plain \cup {Tree(t) : t \in Stored}, p \in Pointers, off \in Offsets, r \in PtrReg :
    /\ Points(cpu, p, off) /\ CanPoint(p, off, r, x)
    /\ Become(GenStore(Now, p, off, r, x))

LoadExternal ==
  \E l \in Places, v \in Outside :
    \/ \E e \in Expr : Become(LoadX(SetDptr(Now, e), l, v))
    \/ \E w \in Words, off \in Offsets : Become(LoadX(SetDptrMem(Now, w[1], w[2], off), l, v))

StoreExternal ==
  \E x \in Sources, w \in Words, off \in Offsets :
    Become(GenStoreX(Now, w[1], w[2], off, x))

\* A call ends with nothing known: the callee leaves anything anywhere.  The byte
\* in A is moved to its place.
Call ==
  \E l \in Places, v \in Outside :
    Become(StoreA(Both(Fresh, [a |-> v, b |-> v, c |-> 0, dptr |-> <<v, v>>,
                               cell |-> [c \in Cell |-> IF IsBit(c) THEN 0 ELSE v]]), l))

CallPointer ==
  \E w \in Words, l \in Reg, x \in Plain :
    LET n == CallPtr(Now, L(w[1]), L(w[2]), l, x) IN Become(Both(Fresh, n.cpu))

\* place_label: other code jumps here, or only the block before falls into it.
Label == Become(Both(Fresh, cpu))

\* CritEnter: C tells whether the flag was set, which is cleared.
CritEnter ==
  \E flag \in SfrBit, l \in BitRam :
    LET was == PutC(Now, cpu.cell[flag])
    IN Become(MovBit(Both([was.st EXCEPT !.c = None], [was.cpu EXCEPT !.cell[flag] = 0]), l))

Hardware ==
  /\ \/ \E c \in Sfr, v \in Outside : cpu' = [cpu EXCEPT !.cell[c] = v]
     \/ \E c \in SfrBit : cpu' = [cpu EXCEPT !.cell[c] = 1]
  /\ UNCHANGED <<st, ops>>

Init == st = Fresh /\ cpu \in Start /\ ops = 0

Next ==
  \/ Move \/ MoveBit \/ Multiply \/ LoadVolatile \/ Load \/ Store
  \/ LoadExternal \/ StoreExternal \/ Call \/ CallPointer \/ Label \/ CritEnter
  \/ Hardware

Spec == Init /\ [][Next]_vars

-----------------------------------------------------------------------------
TypeOK ==
  /\ st \in State /\ cpu \in Cpu /\ ops \in 0 .. MaxOps

\* Fact f says of a value that it is v.
True(m, f, v) == f = None \/ (f # None /\ v = Val(m, f))

Known(n) ==
  /\ True(n.cpu, n.st.a, n.cpu.a) /\ True(n.cpu, n.st.b, n.cpu.b)
  /\ True(n.cpu, n.st.c, n.cpu.c)
  /\ \A c \in Memory : True(n.cpu, n.st.mem[c], n.cpu.cell[c])
  /\ n.st.dptr[1] = "E" => n.cpu.dptr = Where[n.st.dptr[2]]
  /\ n.st.dptr[1] = "L" =>
       n.cpu.dptr = <<n.cpu.cell[n.st.dptr[2]], n.cpu.cell[n.st.dptr[3]]>>

\* Everything the selector believes of the machine is so, whatever came before: nothing
\* that was overwritten, directly, through a pointer, by a call or by the hardware,
\* is still believed (select.rs:160).
FactsTrue == Known(Now)

Changed(m, l, v) == [m.cell EXCEPT ![Phys(l)] = v]

\* Whatever instructions the selector leaves out, a move leaves in its destination what
\* its source held and touches no other location, and operands arrive in A and B
\* (select.rs:633, 1021).
Delivers ==
  /\ \A l \in Places, x \in Sources :
       MoveByte(Now, l, x).cpu.cell = Changed(cpu, l, Value(cpu, x))
  /\ \A l \in BitCell, x \in BitOperand \cup Sources :
       MoveByte(Now, l, x).cpu.cell = Changed(cpu, l, Value(cpu, x) % 2)
  /\ \A l \in Places, x \in BitOperand :
       MoveByte(Now, l, x).cpu.cell = Changed(cpu, l, Value(cpu, x))
  /\ \A l \in BitCell, x \in BitOperand :
       StoreBit(Now, l, x).cpu.cell = Changed(cpu, l, Value(cpu, x))
  /\ \A y \in Sources, x \in Sources : (IsTree(x) /\ IsTree(y)) \/
       LET n == LoadBThenA(Now, y, x)
       IN n.cpu.a = Value(cpu, x) /\ n.cpu.b = Value(cpu, y) /\ n.cpu.cell = cpu.cell

Plus16(p, off) ==
  LET low == p[1] + (off % M)
  IN <<low % M, (p[2] + (off \div M) + (low \div M)) % M>>

\* Cells of m are those of cpu, but for the scratch register r.
Only(m, r, c, v) == \A d \in Cell \ {r} : m.cell[d] = IF d = c THEN v ELSE cpu.cell[d]

\* A pointer register or DPTR points where it should when memory is accessed or a
\* function called, the byte stored is the one asked for, and no other byte changes:
\* setting the pointer disturbs neither a value that waits in A nor, in a call, the
\* moves of arguments a pointer that waits in DPTR (select.rs:1779, 2882).
Pointed ==
  /\ \A p \in Pointers, off \in Offsets, r \in PtrReg : Points(cpu, p, off) =>
       LET target == At[(Val(cpu, L(p)) + off) % M]
       IN /\ \A x \in Plain \cup {Tree(t) : t \in Stored} : CanPoint(p, off, r, x) =>
               Only(GenStore(Now, p, off, r, x).cpu, r, target, Value(cpu, x))
          /\ \A l \in Places : CanPoint(p, off, r, None) =>
               LET n == GenLoad(Now, l, p, off, r).cpu
               IN /\ n.cell[Phys(l)] = cpu.cell[target]
                  /\ \A d \in Cell \ {r, Phys(l)} : n.cell[d] = cpu.cell[d]
  /\ \A e \in Expr : SetDptr(Now, e).cpu = [cpu EXCEPT !.dptr = Where[e]]
  /\ \A w \in Words :
       LET base == <<Val(cpu, L(w[1])), Val(cpu, L(w[2]))>>
       IN /\ \A off \in Offsets, x \in Sources :
               LET n == GenStoreX(Now, w[1], w[2], off, x).cpu
               IN n.dptr = Plus16(base, off) /\ n.a = Value(cpu, x) /\ n.cell = cpu.cell
          /\ \A l \in Reg, x \in Plain :
               LET n == CallPtr(Now, L(w[1]), L(w[2]), l, x).cpu
               IN n.dptr = base /\ n.cell = Changed(cpu, l, Value(cpu, x))
=============================================================================
