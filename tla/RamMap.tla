------------------------------- MODULE RamMap -------------------------------
(***************************************************************************)
(* Where everything lies in internal RAM, and what it holds when main      *)
(* starts (src/cg/layout.rs, and the startup code of src/cg/program.rs).   *)
(*                                                                         *)
(* `layout` numbers the bits, cuts the directly addressed bytes that are   *)
(* left into pieces, places the indirectly addressed objects from the top  *)
(* of RAM down, and then globals and function frames from the bottom up,   *)
(* each object whole inside one piece.  If that does not fit, `compile`    *)
(* tries once more with arrays, records and the memory objects of frames   *)
(* moved to upper RAM.  The startup code then sets the stack pointer       *)
(* behind the last byte, clears RAM in one loop, and writes the bytes of   *)
(* the initializers that are not zero.                                     *)
(*                                                                         *)
(* The order of the functions and the marking of the interrupt context are *)
(* inputs here: module FrameOverlay has them.                              *)
(***************************************************************************)
EXTENDS Naturals, Sequences, FiniteSets

CONSTANTS
  BankBytes,   (* bytes of a register bank: 8                               *)
  BitLo,       (* first byte of the bit area: 32                            *)
  BitHi,       (* first byte behind the bit area: 48                        *)
  ByteBits,    (* bits of a byte: 8                                         *)
  Direct,      (* bytes that direct addressing reaches: 128                 *)
  ResetSP,     (* stack pointer after reset: 7                              *)
  MaxRam,      (* largest internal RAM: 256                                 *)
  Programs     (* the programs considered: see IsProgram                    *)

ASSUME SizesAssumption ==
  /\ BankBytes \in Nat \ {0} /\ ByteBits \in Nat \ {0}
  /\ BitLo \in Nat /\ BitHi \in Nat /\ Direct \in Nat /\ MaxRam \in Nat
  /\ BankBytes <= BitLo /\ BitLo < BitHi /\ BitHi <= Direct
  /\ Direct <= MaxRam /\ ResetSP \in Nat

Byte == {0, 1}          (* all that matters of a byte: is it zero?           *)
Junk == 2               (* what RAM holds after power-up                     *)

(***************************************************************************)
(* A program: its RAM size and register banks, the number of its global    *)
(* bits, its globals, the objects it put at addresses of its own, and the  *)
(* frames of its functions in layout order.  An object with an empty       *)
(* `init` has no initializer.  A global is `big` if it is an array or a    *)
(* record; an object of a frame is "data", "idata", or "param" (never      *)
(* moved).                                                                 *)
(***************************************************************************)
IsProgram(p) ==
  /\ p.iram \in BitHi .. MaxRam
  /\ p.banks \in 1 .. BitLo \div BankBytes
  /\ p.bits \in Nat
  /\ p.globals \in Seq([size : Nat \ {0}, idata : BOOLEAN, big : BOOLEAN,
                        init : Seq(Byte)])
  /\ p.fixed \in Seq([at : 0 .. MaxRam - 1, size : Nat \ {0}, init : Seq(Byte)])
  /\ p.frames \in Seq([callers : SUBSET Nat, isr : BOOLEAN, slots : Nat,
                       bits : Nat,
                       objects : Seq([size : Nat \ {0},
                                      kind : {"data", "idata", "param"}])])
  /\ \A g \in 1 .. Len(p.globals) :
       Len(p.globals[g].init) \in {0, p.globals[g].size}
  /\ \A x \in 1 .. Len(p.fixed) : Len(p.fixed[x].init) \in {0, p.fixed[x].size}
  /\ \A f \in 1 .. Len(p.frames) :
       /\ p.frames[f].callers \subseteq 1 .. f - 1
       /\ p.frames[f].isr \/ \A c \in p.frames[f].callers : ~p.frames[c].isr

ASSUME ProgramsAssumption == \A p \in Programs : IsProgram(p)

VARIABLES
  prog,       (* the program                                               *)
  moved,      (* upper_objects: this is the second attempt                 *)
  phase,
  ctx,        (* placing "globals", frames of "main", or of "isr"          *)
  fr,         (* frame being placed                                        *)
  todo,       (* how many items of it are placed                           *)
  cursor,     (* b, v, cur: first free offset                              *)
  endOf,      (* bit_end_of, uend, end_of: the end of every frame          *)
  top,        (* where the context begins                                  *)
  ctxEnd,     (* greatest end in the context                               *)
  placed,     (* syms: the items placed so far; a bit is at a bit number   *)
  bitTotal,   (* total_bits                                                *)
  upperTop,   (* upper_used                                                *)
  phys,       (* the free direct bytes, in order: address of each offset   *)
  globalsEnd, (* globals_end                                               *)
  mem,        (* what every byte of RAM holds                              *)
  r0,         (* register R0 in the clear loop                             *)
  sp          (* stack pointer                                             *)

cursors == <<ctx, fr, todo, cursor, endOf, top, ctxEnd>>
results == <<placed, bitTotal, upperTop, phys, globalsEnd>>
machine == <<mem, r0, sp>>
vars == <<prog, moved, phase, cursors, results, machine>>

Largest(S) == CHOOSE x \in S : \A y \in S : y <= x
Least(S) == CHOOSE x \in S : \A y \in S : x <= y

Frames == prog.frames
Frame == 1 .. Len(Frames)
RamTop == prog.iram
RegEnd == BankBytes * prog.banks
DirectTop == IF RamTop < Direct THEN RamTop ELSE Direct

BytesFrom(a, n) == a .. a + n - 1

\* `reserved`: the bytes of the objects at fixed addresses.
Reserved ==
  UNION {BytesFrom(prog.fixed[x].at, prog.fixed[x].size) : x \in 1 .. Len(prog.fixed)}

-----------------------------------------------------------------------------
(***************************************************************************)
(* The objects, and which of them are indirectly addressed in this attempt.*)
(***************************************************************************)
HasZero(init) == \E k \in 1 .. Len(init) : init[k] = 0
AllZero(init) == \A k \in 1 .. Len(init) : init[k] = 0

\* The member of S with i members of S below it; the members in rising order.
Nth(S, i) == CHOOSE x \in S : Cardinality({y \in S : y < x}) = i
Ascending(S) == [k \in 1 .. Cardinality(S) |-> Nth(S, k - 1)]

\* ram_globals: of the globals in S, initialized ones come first.
InOrder(S) ==
  LET live == {g \in S : ~AllZero(prog.globals[g].init)}
  IN Ascending(live) \o Ascending(S \ live)

UpperGlobal(g) ==
  moved /\ RamTop > Direct /\ (prog.globals[g].idata \/ prog.globals[g].big)

UpperObject(o) == o.kind = "idata" \/ (moved /\ o.kind = "data")

\* What is placed is a sequence of items: a name and a size.  The second
\* component of a name is the frame it belongs to, 0 for globals.
Singles(kind, f, n) == [k \in 1 .. n |-> [name |-> <<kind, f, k>>, size |-> 1]]

GlobalItems(upper) ==
  LET gs == InOrder({g \in 1 .. Len(prog.globals) : UpperGlobal(g) = upper})
  IN [k \in 1 .. Len(gs) |-> [name |-> <<"object", 0, gs[k]>>,
                              size |-> prog.globals[gs[k]].size]]

ObjectItems(f, upper) ==
  LET objs == Frames[f].objects
      ks == Ascending({k \in 1 .. Len(objs) : UpperObject(objs[k]) = upper})
  IN [k \in 1 .. Len(ks) |-> [name |-> <<"object", f, ks[k]>>,
                              size |-> objs[ks[k]].size]]

\* The items of the globals (f = 0) or of frame f in an area.  A slot is placed
\* at phys.addr(cur): as an object of one byte.
ItemsOf(area, f) ==
  CASE area = "bits" -> Singles("bit", f, IF f = 0 THEN prog.bits ELSE Frames[f].bits)
    [] area = "upper" -> IF f = 0 THEN GlobalItems(TRUE) ELSE ObjectItems(f, TRUE)
    [] area = "direct" -> IF f = 0 THEN GlobalItems(FALSE)
                          ELSE ObjectItems(f, FALSE) \o Singles("slot", f, Frames[f].slots)

Area == {"bits", "upper", "direct"}

-----------------------------------------------------------------------------
(***************************************************************************)
(* Offsets and addresses.                                                  *)
(***************************************************************************)
BitByte(b) == BitLo + b \div ByteBits

\* bit_nums: the bits of the bit area but for bytes taken by fixed objects.
FreeBits ==
  {b \in 0 .. (BitHi - BitLo) * ByteBits - 1 : BitByte(b) \notin Reserved}

BitBytes(total) ==
  IF total = 0 THEN 0 ELSE Nth(FreeBits, total - 1) \div ByteBits + 1

\* `segs`: the bytes left for direct addressing; a piece is a run of them.
Usable(bitBytes) ==
  {a \in RegEnd .. DirectTop - 1 :
     a \notin Reserved \cup BytesFrom(BitLo, bitBytes)}

Capacity == Len(phys)

\* Phys::addr and Phys::fit.
HasAddr(v) == v < Capacity
Addr(v) == phys[v + 1]

\* Fault for Apart: an object is placed across the end of a piece.
FitTorn(v, n) == v

Fit(v, n) ==
  LET whole == {w \in v .. Capacity :
                  w + n <= Capacity /\ Addr(w + n - 1) = Addr(w) + n - 1}
  IN IF whole = {} THEN Largest({v, Capacity}) ELSE Least(whole)

-----------------------------------------------------------------------------
(***************************************************************************)
(* The layout, one area after the other.                                   *)
(***************************************************************************)
Init ==
  /\ prog \in Programs
  /\ moved = FALSE /\ phase = "bits"
  /\ ctx = "globals" /\ fr = 0 /\ todo = 0 /\ cursor = 0
  /\ endOf = [f \in Frame |-> 0] /\ top = 0 /\ ctxEnd = 0
  /\ placed = {} /\ bitTotal = 0 /\ upperTop = 0 /\ phys = <<>> /\ globalsEnd = 0
  /\ mem = [a \in 0 .. RamTop - 1 |-> Junk] /\ r0 = 0 /\ sp = ResetSP

Items == ItemsOf(phase, fr)

Placing ==
  /\ phase \in Area
  /\ ctx = "globals" \/ (fr \in Frame /\ Frames[fr].isr = (ctx = "isr"))

\* The next item goes above what this frame has, the first one above the
\* frames of the callers in this context.
Start ==
  IF ctx = "globals" THEN 0
  ELSE Largest({top} \cup {endOf[c] : c \in {d \in Frames[fr].callers :
                                            Frames[d].isr = Frames[fr].isr}})

Cursor == IF todo = 0 THEN Start ELSE cursor

Offset(n) == IF phase = "direct" THEN Fit(Cursor, n) ELSE Cursor

\* Fault for Reachable: nothing stops the upper objects at direct addresses.
HasPlaceBelow(v, n) ==
  CASE phase = "bits" -> v + n <= Cardinality(FreeBits)
    [] phase = "upper" -> v + n <= RamTop
    [] phase = "direct" -> HasAddr(v)

\* The totals of bits and upper objects are checked at the end of their areas;
\* here at the item that exceeds them, which comes to the same.
HasPlace(v, n) ==
  CASE phase = "bits" -> v + n <= Cardinality(FreeBits)
    [] phase = "upper" -> v + n <= RamTop - DirectTop
    [] phase = "direct" -> HasAddr(v)

AddressAt(v, n) ==
  CASE phase = "bits" -> Nth(FreeBits, v)
    [] phase = "upper" -> RamTop - (v + n)
    [] phase = "direct" -> Addr(v)

PlaceItem ==
  /\ Placing /\ todo < Len(Items)
  /\ LET item == Items[todo + 1]
         v == Offset(item.size)
     IN /\ HasPlace(v, item.size)
        /\ placed' = placed \cup {[name |-> item.name, size |-> item.size,
                                   at |-> AddressAt(v, item.size)]}
        /\ cursor' = v + item.size
  /\ todo' = todo + 1
  /\ UNCHANGED <<prog, moved, phase, ctx, fr, endOf, top, ctxEnd, bitTotal,
                 upperTop, phys, globalsEnd, machine>>

\* "too many bit variables", "internal RAM exhausted".
NoPlace ==
  /\ Placing /\ todo < Len(Items)
  /\ LET n == Items[todo + 1].size IN ~HasPlace(Offset(n), n)
  /\ phase' = IF phase = "bits" THEN "failed" ELSE "exhausted"
  /\ UNCHANGED <<prog, moved, cursors, results, machine>>

EndGlobals ==
  /\ phase \in Area /\ ctx = "globals" /\ todo = Len(Items)
  /\ globalsEnd' = IF phase # "direct" THEN globalsEnd
                   ELSE IF Cursor = 0 THEN RegEnd
                   ELSE IF HasAddr(Cursor - 1) THEN Addr(Cursor - 1) + 1
                   ELSE DirectTop
  /\ top' = Cursor /\ ctxEnd' = Cursor
  /\ ctx' = "main" /\ fr' = 1 /\ todo' = 0
  /\ UNCHANGED <<prog, moved, phase, cursor, endOf, placed, bitTotal, upperTop,
                 phys, machine>>

EndFrame ==
  /\ Placing /\ ctx # "globals" /\ todo = Len(Items)
  /\ endOf' = [endOf EXCEPT ![fr] = Cursor]
  /\ ctxEnd' = Largest({ctxEnd, Cursor})
  /\ fr' = fr + 1 /\ todo' = 0
  /\ UNCHANGED <<prog, moved, phase, ctx, cursor, top, results, machine>>

SkipFrame ==
  /\ phase \in Area /\ fr \in Frame /\ ~Placing
  /\ fr' = fr + 1
  /\ UNCHANGED <<prog, moved, phase, ctx, todo, cursor, endOf, top, ctxEnd, results,
                 machine>>

EndMain ==
  /\ phase \in Area /\ ctx = "main" /\ fr = Len(Frames) + 1
  /\ ctx' = "isr" /\ top' = ctxEnd /\ fr' = 1
  /\ UNCHANGED <<prog, moved, phase, todo, cursor, endOf, ctxEnd, results, machine>>

EndArea ==
  /\ phase \in Area /\ ctx = "isr" /\ fr = Len(Frames) + 1
  /\ phase' = CASE phase = "bits" -> "upper"
                [] phase = "upper" -> "direct"
                [] phase = "direct" -> IF ctxEnd > Capacity THEN "exhausted" ELSE "boot"
  /\ bitTotal' = IF phase = "bits" THEN ctxEnd ELSE bitTotal
  /\ upperTop' = IF phase = "upper" THEN ctxEnd ELSE upperTop
  /\ phys' = IF phase # "bits" THEN phys
             ELSE Ascending(Usable(BitBytes(ctxEnd)))
  /\ ctx' = "globals" /\ fr' = 0 /\ top' = ctxEnd
  /\ UNCHANGED <<prog, moved, todo, cursor, endOf, ctxEnd, placed, globalsEnd, machine>>

\* Fault for Ends: the second attempt is retried like the first.
RetryAgain ==
  /\ phase = "exhausted" /\ RamTop > Direct
  /\ moved' = TRUE /\ phase' = "bits"
  /\ ctx' = "globals" /\ fr' = 0 /\ todo' = 0 /\ cursor' = 0
  /\ endOf' = [f \in Frame |-> 0] /\ top' = 0 /\ ctxEnd' = 0
  /\ placed' = {} /\ bitTotal' = 0 /\ upperTop' = 0 /\ phys' = <<>> /\ globalsEnd' = 0
  /\ UNCHANGED <<prog, machine>>

\* compile: once more, from the beginning, with objects in upper RAM if there
\* is any.
Retry ==
  /\ phase = "exhausted" /\ ~moved /\ RamTop > Direct
  /\ moved' = TRUE /\ phase' = "bits"
  /\ ctx' = "globals" /\ fr' = 0 /\ todo' = 0 /\ cursor' = 0
  /\ endOf' = [f \in Frame |-> 0] /\ top' = 0 /\ ctxEnd' = 0
  /\ placed' = {} /\ bitTotal' = 0 /\ upperTop' = 0 /\ phys' = <<>> /\ globalsEnd' = 0
  /\ UNCHANGED <<prog, machine>>

Fail ==
  /\ phase = "exhausted" /\ (moved \/ RamTop <= Direct)
  /\ phase' = "failed"
  /\ UNCHANGED <<prog, moved, cursors, results, machine>>

-----------------------------------------------------------------------------
(***************************************************************************)
(* The startup code.                                                       *)
(***************************************************************************)
UsedBits == BytesFrom(BitLo, BitBytes(bitTotal))

\* Fault for StackClear: the stack starts at the last byte of the data.
RamEndLast ==
  LET low == IF bitTotal > 0 THEN BitLo + BitBytes(bitTotal) ELSE RegEnd
  IN Largest({low} \cup (IF top = 0 THEN {} ELSE {Addr(top - 1)}))

\* ram_end, where the stack starts.
RamEnd ==
  LET low == IF bitTotal > 0 THEN BitLo + BitBytes(bitTotal) ELSE RegEnd
  IN Largest({low} \cup (IF top = 0 THEN {} ELSE {Addr(top - 1) + 1}))

UpperStart == RamTop - upperTop

NeedsClear ==
  \/ prog.bits > 0
  \/ \E g \in 1 .. Len(prog.globals) :
       prog.globals[g].init = <<>> \/ HasZero(prog.globals[g].init)

\* Upper RAM is cleared only for a global without an initializer.
ClearsUpper ==
  /\ UpperStart < RamTop
  /\ \E g \in 1 .. Len(prog.globals) : UpperGlobal(g) /\ prog.globals[g].init = <<>>

\* Fault for Initialized: the bit area is not part of what is cleared.
ClearEndBytes == IF ClearsUpper THEN RamTop ELSE globalsEnd

\* First byte that the clear loop leaves alone.
ClearEnd ==
  LET bytes == IF ClearsUpper THEN RamTop ELSE globalsEnd
      bits == BitLo + (prog.bits + ByteBits - 1) \div ByteBits
  IN IF prog.bits > 0 THEN Largest({bytes, bits}) ELSE bytes

\* Fault for TypeOK: the loop starts one byte behind the last one to clear.
BootBeyond ==
  /\ phase = "boot"
  /\ sp' = RamEnd - 1
  /\ r0' = IF NeedsClear /\ ClearEnd > 1 THEN ClearEnd ELSE 0
  /\ phase' = "clear"
  /\ UNCHANGED <<prog, moved, cursors, results, mem>>

\* __start: the stack pointer, and R0 for the clear loop.
Boot ==
  /\ phase = "boot"
  /\ sp' = RamEnd - 1
  /\ r0' = IF NeedsClear /\ ClearEnd > 1 THEN ClearEnd - 1 ELSE 0
  /\ phase' = "clear"
  /\ UNCHANGED <<prog, moved, cursors, results, mem>>

\* __clear_loop: mov @r0,a; djnz r0.
ClearByte ==
  /\ phase = "clear" /\ r0 > 0
  /\ mem' = [mem EXCEPT ![r0] = 0]
  /\ r0' = r0 - 1
  /\ UNCHANGED <<prog, moved, phase, cursors, results, sp>>

EndClear ==
  /\ phase = "clear" /\ r0 = 0
  /\ phase' = "init" /\ todo' = 0
  /\ UNCHANGED <<prog, moved, ctx, fr, cursor, endOf, top, ctxEnd, results, machine>>

AddressOf(name) == (CHOOSE o \in placed : o.name = name).at

\* The initializers in the order they are written: address and bytes.
Initializers ==
  LET gs == InOrder({g \in 1 .. Len(prog.globals) : prog.globals[g].init # <<>>})
      xs == Ascending({x \in 1 .. Len(prog.fixed) : prog.fixed[x].init # <<>>})
  IN [k \in 1 .. Len(gs) |-> [at |-> AddressOf(<<"object", 0, gs[k]>>),
                              init |-> prog.globals[gs[k]].init]]
     \o [k \in 1 .. Len(xs) |-> [at |-> prog.fixed[xs[k]].at,
                                 init |-> prog.fixed[xs[k]].init]]

\* Bytes that are zero are left to the clear loop.
WriteInit ==
  /\ phase = "init" /\ todo < Len(Initializers)
  /\ LET i == Initializers[todo + 1]
         written == {k \in 1 .. Len(i.init) : i.init[k] # 0}
     IN mem' = [a \in DOMAIN mem |->
                  IF \E k \in written : a = i.at + k - 1
                  THEN i.init[a - i.at + 1] ELSE mem[a]]
  /\ todo' = todo + 1
  /\ UNCHANGED <<prog, moved, phase, ctx, fr, cursor, endOf, top, ctxEnd, results,
                 r0, sp>>

StartMain ==
  /\ phase = "init" /\ todo = Len(Initializers)
  /\ phase' = "run"
  /\ UNCHANGED <<prog, moved, cursors, results, machine>>

Layout ==
  \/ PlaceItem \/ NoPlace
  \/ EndGlobals \/ EndFrame \/ SkipFrame \/ EndMain \/ EndArea
  \/ Retry \/ Fail

Startup == Boot \/ ClearByte \/ EndClear \/ WriteInit \/ StartMain

Next == Layout \/ Startup

Spec == Init /\ [][Next]_vars

\* The compiler and then the startup code run to their end: nothing else runs.
FairSpec == Spec /\ WF_vars(Next)

-----------------------------------------------------------------------------
(***************************************************************************)
(* Properties.                                                             *)
(***************************************************************************)
\* Every variable keeps the shape the code gives it.
TypeOK ==
  /\ IsProgram(prog)
  /\ moved \in BOOLEAN
  /\ phase \in Area \cup {"exhausted", "failed", "boot", "clear", "init", "run"}
  /\ ctx \in {"globals", "main", "isr"} /\ fr \in 0 .. Len(Frames) + 1
  /\ todo \in Nat /\ cursor \in Nat
  /\ endOf \in [Frame -> Nat] /\ top \in Nat /\ ctxEnd \in Nat
  /\ \A o \in placed : o.at \in Nat /\ o.size \in Nat \ {0}
  /\ bitTotal \in Nat /\ upperTop \in 0 .. RamTop - DirectTop
  /\ phys \in Seq(0 .. DirectTop - 1)
  /\ globalsEnd \in 0 .. DirectTop
  /\ mem \in [0 .. RamTop - 1 -> Byte \cup {Junk}]
  /\ r0 \in 0 .. RamTop - 1 /\ sp \in Nat

Bits == {o \in placed : o.name[1] = "bit"}
Objects == placed \ Bits
BytesOf(o) == BytesFrom(o.at, o.size)

\* The frame an item belongs to, 0 for a global.
Owner(o) == o.name[2]

Above ==
  LET above[f \in Frame] ==
        Frames[f].callers \cup UNION {above[c] : c \in Frames[f].callers}
  IN above

\* The frames f and g can be live at the same time: one function is below the
\* other in a chain of calls, or one belongs to the interrupt context.
LiveTogether(f, g) ==
  \/ f = 0 \/ g = 0 \/ f = g
  \/ f \in Above[g] \/ g \in Above[f]
  \/ Frames[f].isr # Frames[g].isr

\* Two objects that can hold a value at the same time share no byte and no
\* bit, whatever holes the register banks, the bits and the objects at fixed
\* addresses leave (layout.rs:53): none is torn by a hole, and none lies on
\* registers, on bits in use or on a reserved byte.
Apart ==
  /\ \A o \in Objects :
       BytesOf(o) \subseteq (RegEnd .. RamTop - 1) \ (Reserved \cup UsedBits)
  /\ \A b \in Bits : BitByte(b.at) \in (BitLo .. BitHi - 1) \ Reserved
  /\ \A S \in {Objects, Bits} : \A o, q \in S :
       o.name # q.name /\ LiveTogether(Owner(o), Owner(q)) =>
         BytesOf(o) \cap BytesOf(q) = {}

\* In a finished layout everything asked for has a place, code can address it
\* the way it does, and a bit in use lies in a byte kept free of data.
Reachable ==
  phase \in {"boot", "clear", "init", "run"} =>
    LET names(area) ==
          UNION {LET is == ItemsOf(area, f) IN {is[k].name : k \in 1 .. Len(is)} :
                   f \in Frame \cup {0}}
    IN /\ {o.name : o \in placed} = names("bits") \cup names("upper") \cup names("direct")
       /\ \A o \in Objects : IF o.name \in names("upper") THEN o.at >= Direct
                             ELSE o.at + o.size <= DirectTop
       /\ \A b \in Bits : BitByte(b.at) \in UsedBits

\* The stack starts behind every byte the layout gave to directly addressed
\* data and bits, and below the objects in upper RAM (layout.rs:43).
StackClear ==
  phase = "run" =>
    /\ \A o \in Objects : o.at + o.size <= sp + 1 \/ o.at >= UpperStart
    /\ \A b \in Bits : BitByte(b.at) <= sp
    /\ sp + 1 <= UpperStart

InitialByte(g, k) == IF prog.globals[g].init = <<>> THEN 0 ELSE prog.globals[g].init[k]

Globals == {o \in Objects : Owner(o) = 0}

\* When main starts every global in directly addressed RAM has its initial
\* value, so have those in upper RAM if one of them has no initializer, and
\* the global bits are zero if no object is fixed in their area: the clear
\* loop reaches everything the writes leave out, and no write hits another
\* object.  Written bytes of objects at fixed addresses are in place.
Initialized ==
  phase = "run" =>
    /\ \A o \in Globals : (UpperGlobal(o.name[3]) => ClearsUpper) =>
         \A k \in 1 .. o.size : mem[o.at + k - 1] = InitialByte(o.name[3], k)
    /\ Reserved \cap BitLo .. BitHi - 1 = {} =>
         \A b \in Bits : Owner(b) = 0 => mem[BitByte(b.at)] = 0
    /\ \A x \in 1 .. Len(prog.fixed) : \A k \in 1 .. Len(prog.fixed[x].init) :
         prog.fixed[x].init[k] # 0 =>
           mem[prog.fixed[x].at + k - 1] = prog.fixed[x].init[k]

\* A compilation is tried at most twice and the clear loop ends: main starts,
\* or the compiler reports an error.
Ends == <>(phase \in {"run", "failed"})
=============================================================================
