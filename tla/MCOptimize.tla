----------------------------- MODULE MCOptimize -----------------------------
(* Small functions for the optimizer, in families that make its rewrites happen. *)
EXTENDS Optimize

MCSignatures == [get |-> [params |-> <<>>, ret |-> I16],
                 put |-> [params |-> <<I16>>, ret |-> NoType],
                 twice |-> [params |-> <<I16>>, ret |-> I16],
                 pick |-> [params |-> <<I8, I16>>, ret |-> I16],
                 muluint32 |-> [params |-> <<I16, I16>>, ret |-> I32],
                 mulsint32 |-> [params |-> <<I16, I16>>, ret |-> I32]]
None == [x \in {} |-> 0]

\* Inputs: every value of one parameter; pairs of values; a few.
Words == [n \in 1 .. 16 |-> <<n - 1, 3, 9, 6, 12>>]
ByteInputs == [n \in 1 .. 4 |-> <<n - 1, 3, 9, 6, 12>>]
Pairs == [n \in 1 .. 16 |-> <<(n - 1) % 4, (n - 1) \div 4, 5, 10>>]
Corners == [n \in 1 .. 9 |-> <<<<0, 7, 8>>[((n - 1) % 3) + 1], <<1, 6, 15>>[(n - 1) \div 3 + 1], 11>>]
Few == <<<<0, 1, 2, 3, 4>>, <<1, 0, 3, 9, 6>>, <<2, 9, 6, 13, 1>>, <<5, 12, 0, 7, 8>>>>

Source(g, inputs) == [f |-> g, fns |-> None, inputs |-> inputs]
Straight(vty, params, ret, insts, v) == Func(vty, params, ret, <<Block(insts, Ret(v))>>)
\* insts; if (test) return 1; else return 0;  The test goes to block 2 or 3.
Decide(vty, params, insts, test) ==
  Func(vty, params, I16, <<Block(insts, test), Block(<<>>, Ret(K(1))), Block(<<>>, Ret(K(0)))>>)

Ops == {"add", "sub", "mul", "divs", "divu", "mods", "modu", "and", "or", "xor", "shl", "shrs", "shru"}
Conds == {"eq", "ne", "lts", "les", "gts", "ges", "ltu", "leu", "gtu", "geu"}

\* x op k and k op x, for words and bytes.
Constants ==
  {Source(Straight(<<I16, I16>>, <<1>>, I16, <<Bin(op, 2, R(1), K(k))>>, R(2)), Words) :
     op \in Ops, k \in 0 .. 15}
  \cup {Source(Straight(<<I16, I16>>, <<1>>, I16, <<Bin(op, 2, K(k), R(1))>>, R(2)), Words) :
     op \in Ops, k \in {0, 1, 6, 8, 15}}
  \cup {Source(Straight(<<I8, I8>>, <<1>>, I8, <<Bin(op, 2, R(1), K(k))>>, R(2)), ByteInputs) :
     op \in Ops, k \in 0 .. 3}

\* Two operations with constants; the second also on the same value twice.
Chains ==
  {Source(Straight(<<I16, I16, I16>>, <<1>>, I16, <<Bin(o, 2, R(1), K(j)), Bin(p, 3, R(2), b)>>, R(3)),
          Words) :
     o \in {"add", "and", "shl", "shru", "shrs", "xor", "mul"},
     p \in Ops \ {"sub", "mul"}, j \in {1, 3, 14}, b \in {K(1), K(2), K(7), K(15), R(2)}}

\* A byte extended, an operation, and the low byte or the whole of it; a value redefined
\* between its extension and the use of that.
Extended ==
  {Source(Straight(<<I8, I16, I16, I8>>, <<1>>, I8,
                   <<Ext(2, R(1), s), Bin(op, 3, R(2), K(k)), Trunc(4, R(3))>>, R(4)), ByteInputs) :
     s \in BOOLEAN, op \in Ops, k \in {0, 1, 2, 3, 4, 6, 15}}
  \cup {Source(Straight(<<I8, I16, I16>>, <<1>>, I16,
                        <<Ext(2, R(1), s)>> \o r \o <<Bin(op, 3, R(2), K(k))>>, R(3)), ByteInputs) :
     s \in BOOLEAN, op \in Ops, k \in {1, 2, 3, 4, 6, 8, 15},
     r \in {<<>>, <<Bin("add", 1, R(1), K(1))>>}}

\* Compares of words, of extended bytes, with constants and with each other.
Compares ==
  {Source(Decide(<<I16>>, <<1>>, <<>>, CmpBr(c, R(1), K(k), I16, 2, 3)), Words) :
     c \in Conds, k \in {0, 1, 7, 8, 15}}
  \cup {Source(Decide(<<I8, I16, Bit>>, <<1>>,
                      <<Ext(2, R(1), s)>> \o r \o <<Cmp(c, 3, R(2), K(k), I16)>>, Br(R(3), 2, 3)),
               ByteInputs) :
     c \in Conds, s \in BOOLEAN, k \in {0, 1, 2, 3, 4, 13, 14, 15},
     r \in {<<>>, <<Bin("add", 1, R(1), K(1))>>}}
  \cup {Source(Decide(<<I8, I8, I16, I16>>, <<1, 2>>, <<Ext(3, R(1), s), Ext(4, R(2), u)>>,
                      CmpBr(c, R(3), R(4), I16, 2, 3)), Pairs) :
     c \in Conds, s \in BOOLEAN, u \in BOOLEAN}
  \cup {Source(Decide(<<I16, I16, Bit, I16, Bit>>, <<1, 2>>,
                      <<Cmp(c, 3, R(1), R(2), I16)>> \o r \o
                      <<Ext(4, R(3), FALSE), Cmp(d, 5, R(4), K(0), I16)>>, Br(R(5), 2, 3)), Corners) :
     c \in Conds, d \in {"eq", "ne"}, r \in {<<>>, <<Bin("add", 1, R(1), K(1))>>}}

\* Products of extended words and of constants.
Products ==
  {Source(Straight(<<I16, I16, I32, I32, I32>>, <<1, 2>>, I32,
                   <<Ext(3, R(1), s), Ext(4, R(2), u)>> \o r \o <<Bin("mul", 5, R(3), R(4))>>, R(5)),
          Corners) :
     s \in BOOLEAN, u \in BOOLEAN, r \in {<<>>, <<Bin("add", 1, R(1), K(1))>>}}
  \cup {Source(Straight(<<I16, I32, I32, I16>>, <<1>>, t,
                        <<Ext(2, R(1), s), Bin(op, 3, R(2), K(k)), Trunc(4, R(3))>>,
                        IF t = I32 THEN R(3) ELSE R(4)), Words) :
     op \in {"mul", "shl", "and", "or"}, s \in BOOLEAN, t \in {I16, I32},
     k \in {3, 5, 7, 8, 15, 16, 37, 248, 250, 255}}

\* A value decided on one side is tested again; a switch on a byte; dead code and blocks
\* that only jump.
Branches ==
  {Source(Func(<<I16, I8>>, <<1>>, I16,
       <<Block(<<Copy(2, K(a))>>, CmpBr("ltu", R(1), K(5), I16, 2, 3)),
         Block(<<Copy(2, K(b))>>, Jmp(3)),
         Block(<<>>, CmpBr(c, R(2), K(1), I8, 4, 5)),
         Block(<<>>, Jmp(6)), Block(<<>>, Jmp(7)),
         Block(<<Call(0, "put", <<K(1)>>)>>, Jmp(7)), Block(<<>>, Ret(R(1)))>>), Few) :
     a \in {0, 1}, b \in {0, 1, 2}, c \in {"eq", "ltu", "gts"}}
  \cup {Source(Func(<<I8, I16>>, <<1>>, I16,
       <<Block(<<Ext(2, R(1), s)>>,
               Switch(R(2), I16, <<<<0, 2>>, <<3, 3>>, <<k, 2>>, <<5, 4>>>>, d)),
         Block(<<>>, Ret(K(1))), Block(<<>>, Ret(K(2))), Block(<<>>, Jmp(5)),
         Block(<<>>, Ret(K(3)))>>), ByteInputs) :
     s \in BOOLEAN, k \in {1, 2, 4, 14}, d \in {2, 3, 4}}

\* Three blocks that only jump in a circle, each entered from outside.
Circles ==
  {Source(Func(<<I16>>, <<1>>, I16,
       <<Block(<<>>, Switch(R(1), I16, <<<<0, 2>>, <<1, 3>>, <<2, 5>>>>, 4)),
         Block(<<>>, Jmp(3)), Block(<<>>, Jmp(4)), Block(<<>>, Jmp(2)),
         Block(<<Call(1, "get", <<>>)>>, Br(R(1), 5, 6)), Block(<<>>, Ret(K(1)))>>), Words)}

\* A value computed before a branch and used on one side of it, in a loop or not.
Sinking ==
  {Source(Func(<<I16, I16, I16>>, <<1>>, I16,
       <<Block(<<Bin("mul", 2, R(1), K(3))>> \o r, CmpBr("ltu", R(1), K(7), I16, 2, 3)),
         Block(<<Bin("add", 3, R(2), K(1))>>, IF loop THEN CmpBr("eq", R(3), K(4), I16, 2, 4) ELSE Jmp(4)),
         Block(<<Copy(3, K(9))>>, Jmp(4)),
         Block(<<>>, Ret(R(3)))>>), Words) :
     r \in {<<>>, <<Bin("add", 1, R(1), K(1))>>, <<Call(0, "put", <<R(2)>>)>>, <<Call(1, "get", <<>>)>>},
     loop \in BOOLEAN}

\* do { v = *p++; put(v); } while (..): the load and the step, in this order or not; memory
\* of the space sp, stored to in between or not.
Pointers ==
  {Source(Func(<<I16, I16, I16, I16>>, <<1>>, I16,
       <<Block(<<Copy(4, K(0))>>, Jmp(2)),
         Block(<<Copy(2, R(1)), Bin("add", 1, R(1), K(1))>> \o st \o
               <<Load(3, sp, R(2)), Call(0, "put", <<u>>), Bin("add", 4, R(4), K(1))>>,
               CmpBr("ltu", R(4), K(2), I16, 2, 3)),
         Block(<<>>, Ret(R(1)))>>), Few) :
     sp \in {"code", "idata", "xdata"}, u \in {R(3), K(7)},
     st \in {<<>>, <<Store("ram", Nil, R(1), I16)>>, <<Store("idata", K(3), R(1), I16)>>,
             <<Call(3, "get", <<>>)>>}}
  \cup {Source(Straight(<<I16, I16, I8, I16>>, <<1>>, I16,
                   <<Load(2, sp, R(1)), Trunc(3, R(2)), Store("ram", Nil, K(5), I16),
                     Ext(4, R(3), s)>>, R(4)), Few) :
     sp \in {"ram", "sfr", "code", "idata", "xdata"}, s \in BOOLEAN}

\* Counters: from a constant to a bound, upwards, used with an offset, in a loop of
\* its own or in one that starts it anew.
Counting ==
  {Source(Func(<<I16, I16>>, <<>>, I16,
       <<Block(<<Copy(1, K(s))>>, Jmp(2)),
         Block((IF off = 0 THEN <<>> ELSE <<Bin("add", 2, R(1), K(off)), Call(0, "put", <<R(2)>>)>>)
                 \o <<Bin("add", 1, R(1), K(1))>>, CmpBr(c, R(1), K(k), I16, t, 5 - t)),
         Block(<<>>, Ret(IF off = 3 THEN R(1) ELSE K(0)))>>), <<<<1, 2>>>>) :
     s \in {0, 3, 7, 14}, k \in {3, 5, 8, 9}, c \in {"ltu", "lts", "geu", "ges", "ne"},
     t \in {2, 3}, off \in {0, 3, 14}}
  \cup {Source(Func(<<I16, I16, I16>>, <<>>, I16,
       <<Block(<<Copy(3, K(0))>>, Jmp(2)),
         Block(<<Copy(1, K(s))>>, Jmp(3)),
         Block(<<Bin("add", 2, R(1), K(2)), Call(0, "put", <<R(2)>>), Bin("add", 1, R(1), K(1))>>,
               CmpBr(c, R(1), K(k), I16, 3, 4)),
         Block(<<Bin("add", 3, R(3), K(1))>>, CmpBr("ltu", R(3), K(2), I16, 2, 5)),
         Block(<<>>, Ret(K(0)))>>), <<<<1, 2>>>>) :
     s \in {0, 3}, k \in {3, 5}, c \in {"ltu", "lts"}}

\* Critical sections, calls whose result nobody reads, calls of a defined function.
Sections ==
  {Source(Straight(<<Bit, I16, Bit, I16>>, <<2>>, I16,
                   <<CritEnter(1), Copy(3, R(1)), Store("ram", Nil, R(2), I16), Load(4, "ram", Nil)>>
                   \o mid \o <<CritExit(e)>>, R(v)), Few) :
     mid \in {<<>>, <<Call(2, "get", <<>>)>>, <<Call(0, "put", <<R(4)>>)>>}, e \in {1, 3}, v \in {2, 4}}

Twice == Straight(<<I16, I16>>, <<1>>, I16, <<Bin("add", 1, R(1), R(1)), Call(0, "put", <<R(1)>>)>>, R(1))
Pick == Func(<<I8, I16>>, <<1, 2>>, I16,
             <<Block(<<>>, CmpBr("eq", R(1), K(1), I8, 2, 3)),
               Block(<<Bin("mul", 2, R(2), K(3))>>, Ret(R(2))),
               Block(<<>>, Ret(K(4)))>>)
Calls ==
  {[f |-> Func(<<I16, I16, I8, I16>>, <<1>>, I16,
       <<Block(<<Copy(4, K(0))>>, Jmp(2)),
         Block(<<Call(2, "twice", <<a>>), Trunc(3, R(2)), Call(r, "pick", <<b, R(1)>>),
                 Bin("add", 4, R(4), K(1))>>, CmpBr("ltu", R(4), K(2), I16, 2, 3)),
         Block(<<>>, Ret(IF r = 0 THEN R(2) ELSE R(1)))>>),
    fns |-> [twice |-> Twice, pick |-> [Pick EXCEPT !.plain = p]], inputs |-> Few] :
     a \in {R(1), K(3)}, b \in {R(3), K(1), K(2)}, r \in {0, 1}, p \in BOOLEAN}

\* for (i = 0; ..;) { put(i); do i++; while (i < k); }: the inner loop is entered again with
\* the counter where the trip before left it.
Reentered ==
  {Source(Func(<<I16, I16>>, <<>>, I16,
       <<Block(<<Copy(1, K(0))>>, Jmp(2)),
         Block(<<Call(0, "put", <<R(1)>>)>>, Jmp(3)),
         Block(<<Bin("add", 1, R(1), K(1))>>, CmpBr(c, R(1), K(k), I16, 3, 4)),
         Block(<<Call(2, "get", <<>>)>>, Br(R(2), 5, 2)),
         Block(<<>>, Ret(R(1)))>>), Few) : c \in {"ltu", "lts"}, k \in 2 .. 6}

MCSources == Constants \cup Chains \cup Extended \cup Compares \cup Products \cup Branches \cup Circles
               \cup Sinking \cup Pointers \cup Counting \cup Sections \cup Calls
=============================================================================
