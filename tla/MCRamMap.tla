------------------------------ MODULE MCRamMap ------------------------------
(***************************************************************************)
(* Instances of RamMap for TLC: families of small programs.                *)
(***************************************************************************)
EXTENDS RamMap

Var(size, idata, big, init) == [size |-> size, idata |-> idata, big |-> big, init |-> init]

Count == Var(1, FALSE, FALSE, <<>>)
Mode == Var(1, FALSE, FALSE, <<1>>)
Table == Var(3, FALSE, TRUE, <<1, 0, 1>>)
Buffer == Var(2, FALSE, TRUE, <<>>)
Queue == Var(2, TRUE, FALSE, <<0, 0>>)

GlobalLists ==
  {<<>>, <<Count, Mode>>, <<Table>>, <<Table, Buffer, Mode>>,
   <<Queue, Mode>>, <<Queue, Buffer, Count>>}

\* Objects at fixed addresses: none, at the end of bank 1, in the bit area,
\* behind it (one hole, or two), or all over the low bytes.
At(a, init) == [at |-> a, size |-> 1, init |-> init]

FixedLists ==
  {<<>>, <<At(3, <<>>)>>, <<At(BitLo, <<1>>)>>, <<At(BitHi + 1, <<1>>)>>,
   <<At(Direct - 2, <<>>), At(BitHi, <<1>>)>>}

Fn(list, slots, bits, callers, isr) ==
  [callers |-> callers, isr |-> isr, slots |-> slots, bits |-> bits,
   objects |-> list]
Object(size, kind) == [size |-> size, kind |-> kind]

\* Main, a function it calls, and a handler; or a handler with a callee of its own
\* and two functions of main.
FrameLists ==
  {<<Fn(<<Object(2, "data")>>, s, b, {}, FALSE), Fn(c, 1, 1, {1}, FALSE), Fn(h, 1, b, {}, TRUE)>> :
     s \in {0, 2}, b \in {0, 1},
     c \in {<<Object(1, "param")>>, <<Object(2, "data"), Object(1, "idata")>>},
     h \in {<<>>, <<Object(2, "data")>>}}
  \cup
  {<<Fn(<<>>, 1, 0, {}, FALSE), Fn(<<Object(1, "data")>>, 1, 0, {}, TRUE),
     Fn(<<Object(2, "idata")>>, 1, b, {2}, TRUE),
     Fn(<<Object(3, "data")>>, 0, b, {1}, FALSE)>> : b \in {0, 1}}

SmallPrograms ==
  {[iram |-> i, banks |-> nb[1], bits |-> nb[2], globals |-> g, fixed |-> x,
    frames |-> f] :
     i \in {Direct, MaxRam}, nb \in {<<1, 0>>, <<1, 1>>, <<2, 1>>}, g \in GlobalLists,
     x \in FixedLists, f \in FrameLists}
=============================================================================
