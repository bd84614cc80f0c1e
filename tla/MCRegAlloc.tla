----------------------------- MODULE MCRegAlloc -----------------------------
(***************************************************************************)
(* Families of functions for RegAllocRun: the machine has R0, R1 and R2,   *)
(* values have one or two bytes, pointers one to three.                    *)
(***************************************************************************)
EXTENDS RegAllocRun

NoCallee == [params |-> <<>>, ret |-> <<>>, clobbers |-> {}, recursive |-> FALSE]

I(kind, def, uses) == [kind |-> kind, def |-> def, uses |-> uses, callee |-> NoCallee]
Calls(kind, def, uses, callee) == [I(kind, def, uses) EXCEPT !.callee = callee]

\* A block that ends the function by reading `uses`, and one that goes on.
Ends(insts, uses) == [insts |-> insts, uses |-> uses, succs |-> {}]
Goes(insts, uses, succs) == [insts |-> insts, uses |-> uses, succs |-> succs]

Fn(size, params, blocks) ==
  [size |-> size, params |-> params, fixed |-> <<>>, recursive |-> FALSE, blocks |-> blocks]

\* One instruction on parameters that may be needed later or not.
Straight(size, params, ins, others) ==
  {Fn(size, params, <<Ends(<<ins>>, later \cup {3})>>) : later \in SUBSET others}

Operations ==
  UNION {Straight(<<2, 2, 2>>, <<1, 2>>, I("same", 3, uses), {1, 2}) :
           uses \in {<<1, 2>>, <<2, 1>>, <<1, 0>>}}
  \cup UNION {Straight(<<2, 1, 2>>, <<1, 2>>, I(kind, 3, <<1>>), {1, 2}) :
                kind \in {"copy", "left", "right", "load", "same"}}
  \cup Straight(<<2, 1, 2>>, <<1, 2>>, I("shift", 3, <<1, 2>>), {1, 2})
  \cup Straight(<<2, 2, 1>>, <<1, 2>>, I("any", 3, <<1, 2>>), {1, 2})
  \cup UNION {Straight(<<2, 1, 1>>, <<1, 2>>, I(kind, 3, <<1>>), {1, 2}) :
                kind \in {"trunc", "genload"}}
  \cup UNION {Straight(<<1, 1, 2>>, <<1, 2>>, I(kind, 3, <<1>>), {1, 2}) :
                kind \in {"ext", "sext"}}

\* Copies, and values that are defined again while a copy of them lives.
Small == {I("copy", 3, <<1>>), I("copy", 1, <<2>>), I("any", 3, <<1, 2>>), I("any", 1, <<1>>),
          I("asm", 0, <<>>), I("use", 0, <<1>>)}
Wide == {I("copy", 3, <<1>>), I("same", 3, <<1, 2>>), I("right", 1, <<2>>), I("left", 2, <<3>>)}
TwoOf(is, size, laters) ==
  UNION {{Fn(size, <<1, 2>>, <<Ends(<<i, j>>, later)>>) :
            later \in {l \in laters : l \subseteq {1, 2, i.def, j.def}}} : i, j \in is}
Copies ==
  TwoOf(Small, <<1, 1, 1>>, {{1, 2}, {1, 3}, {2, 3}, {1, 2, 3}})
  \cup TwoOf(Wide, <<2, 2, 2>>, {{1, 3}, {1, 2, 3}})

\* Loops: what the end of the outer one needs lives through the inner one.
Loops ==
  {Fn(<<1, 1, 1>>, <<1, 2>>,
      <<Goes(<<i>>, {}, {2}), Goes(<<j>>, {3}, {2, 3}), Goes(<<>>, {}, {2, 4}),
        Ends(<<>>, later)>>) :
     i \in {I("copy", 3, <<1>>)}, j \in {I("any", 3, <<3>>), I("copy", 3, <<2>>), I("copy", 1, <<3>>)},
     later \in {{1}, {2}, {3}}}

\* Accesses through a pointer while other values live.
Pointers ==
  {Fn(<<1, 1, size>>, <<1, 2>>, <<Ends(<<I("ptrload", 3, <<p>>)>>, later \cup {3})>>) :
     size \in {1, 2}, p \in {0, 1}, later \in SUBSET {1, 2}}
  \cup {Fn(<<1, 1, size>>, <<1, 2, 3>>, <<Ends(<<I("ptrstore", 0, <<p, v>>)>>, later)>>) :
          size \in {1, 2}, p \in {0, 1}, v \in {0, 1, 3}, later \in {{}, {1}, {2}, {1, 2}}}

\* Calls with arguments in registers that may hold each other's values, a callee
\* that leaves its parameter alone, and results in A or a register.
Callees ==
  {[params |-> <<<<R(0)>>, <<R(1)>>>>, ret |-> ret, clobbers |-> clob, recursive |-> FALSE] :
     ret \in {<<A>>, <<R(1)>>}, clob \in {{}, {0}, {1}}}
CallsOfTwo ==
  {Fn(<<1, 1, 1>>, <<1, 2>>, <<Ends(<<Calls("call", 3, uses, callee)>>, later \cup {3})>>) :
     uses \in {<<1, 2>>, <<2, 1>>, <<1, 1>>, <<0, 1>>}, callee \in Callees, later \in SUBSET {1, 2}}

\* A runtime routine of two bytes by one; three values rotated through a call.
WideCalls ==
  Straight(<<2, 1, 2>>, <<1, 2>>,
           Calls("helper", 3, <<1, 2>>, [params |-> <<<<R(2), R(1)>>, <<R(0)>>>>,
                                        ret |-> <<R(2), R(1)>>, clobbers |-> {0, 1, 2}, recursive |-> FALSE]),
           {1, 2})
  \cup {Fn(<<1, 1, 1>>, <<1, 2, 3>>,
           <<Ends(<<Calls("call", 0, <<2, 3, 1>>,
                          [params |-> <<<<R(0)>>, <<R(1)>>, <<R(2)>>>>, ret |-> <<>>,
                           clobbers |-> {}, recursive |-> FALSE])>>, {})>>)}

\* Recursion: parameters at fixed places, copied at the entry.
Itself == [params |-> <<<<R(2)>>, <<Arg(0)>>>>, ret |-> <<A>>, clobbers |-> {0, 1, 2}, recursive |-> TRUE]
Recursive ==
  {[Fn(<<1, 1, 1, 1, 1>>, <<1, 2>>,
       <<Ends(<<I("copy", 3, <<1>>), I("copy", 4, <<2>>), Calls("call", 5, uses, Itself)>>, later)>>)
      EXCEPT !.fixed = Itself.params, !.recursive = TRUE] :
     uses \in {<<3, 4>>, <<4, 3>>}, later \in {{3, 5}, {4, 5}, {3, 4, 5}}}

\* Both bytes of a word live on across the call.
RecursiveWord ==
  LET wide == [Itself EXCEPT !.params = <<<<R(2), Arg(0)>>>>]
  IN {[Fn(<<2, 2, 1>>, <<1>>,
          <<Ends(<<I("copy", 2, <<1>>), Calls("call", 3, <<2>>, wide)>>, {2, 3})>>)
         EXCEPT !.fixed = wide.params, !.recursive = TRUE]}

\* One-bit values, in bits and in bytes.
Bits ==
  {[Fn(<<0, 0, 0>>, <<1, 2>>, <<Ends(<<I("any", 3, <<1, 2>>)>>, later)>>) EXCEPT !.recursive = rec] :
     later \in {{1, 3}, {2, 3}, {1, 2, 3}}, rec \in BOOLEAN}

Families ==
  Operations \cup Copies \cup Loops \cup Pointers \cup CallsOfTwo \cup WideCalls \cup Recursive
    \cup RecursiveWord \cup Bits

\* A load of two bytes through a generic pointer that is not needed any more.
GenericLoad == Straight(<<3, 1, 2>>, <<1, 2>>, I("genload", 3, <<1>>), {2})

\* The functions of the passing run are among those ReadsRight is proved of.
ASSUME FamiliesAreNarrow == Programs = Families => NarrowGeneric
=============================================================================
