----------------------------- MODULE MCClobbers -----------------------------
(***************************************************************************)
(* Instances of Clobbers for TLC: families of small programs.              *)
(***************************************************************************)
EXTENDS Clobbers

None == [f \in Func |-> {}]
Low == [f \in Func |-> 0]
Zero == [f \in Func |-> 0]

Plain ==
  [main |-> 0, handlers |-> {}, prio |-> Low, calls |-> None, indirect |-> {},
   addrTaken |-> {}, opaque |-> {}, naked |-> {}, banked |-> {},
   using |-> Zero, writes |-> None, params |-> None, ret |-> None]

\* The function from f to rows[f + 1].
Row(rows) == [f \in Func |-> rows[f + 1]]

(***************************************************************************)
(* Main calls two functions, which call each other and themselves in every *)
(* way; function 2 is plain, naked, opaque, or has its address taken and   *)
(* is called through a pointer by function 1.  What an opaque function     *)
(* calls and writes makes no difference; a function that calls others      *)
(* returns a value.                                                        *)
(***************************************************************************)
Kinds ==
  {[naked |-> {}, opaque |-> {}, indirect |-> {}, addrTaken |-> {}],
   [naked |-> {2}, opaque |-> {}, indirect |-> {}, addrTaken |-> {}],
   [naked |-> {}, opaque |-> {2}, indirect |-> {}, addrTaken |-> {}],
   [naked |-> {}, opaque |-> {}, indirect |-> {1}, addrTaken |-> {2}]}

CallPrograms ==
  {p \in
    {[Plain EXCEPT !.calls = Row(<<{1, 2}, c1, c2, {}>>),
                   !.writes = Row(<<{}, w1, w2, {}>>),
                   !.params = Row(<<{}, {"R1"}, {"R0"}, {}>>),
                   !.ret = Row(<<{}, {}, r2, {}>>),
                   !.naked = k.naked, !.opaque = k.opaque,
                   !.indirect = k.indirect, !.addrTaken = k.addrTaken] :
       c1 \in SUBSET {1, 2}, c2 \in SUBSET {1, 2},
       w1 \in {{}, {"R0"}}, w2 \in {{}, {"R0"}, {"R1"}}, r2 \in {{}, {"R0"}},
       k \in Kinds} :
    /\ 2 \in p.opaque => /\ p.calls[2] = {} /\ p.ret[2] = {}
                         /\ p.writes[2] = {"R0"} /\ p.writes[1] = {}
    /\ p.ret[2] = {} => p.calls[2] = {}}

(***************************************************************************)
(* Main (0), a handler of low (1) and one of high priority (2), and a      *)
(* function (3) that any of them may call.  The high one may have a bank   *)
(* of its own, and then so may the low one.  A recursive handler is        *)
(* refused.  What an opaque function writes makes no difference.           *)
(***************************************************************************)
High2 == [f \in Func |-> IF f = 2 THEN 1 ELSE 0]

HandlerPrograms ==
  {p \in
    {[Plain EXCEPT !.handlers = {1, 2}, !.prio = High2,
                   !.calls = Row(<<c0, c1, c2, {}>>),
                   !.writes = Row(<<{"R0", "B"}, w1, w2, w3>>),
                   !.opaque = o,
                   !.banked = b, !.using = Row(<<0, 1, 2, u3>>)] :
       c0 \in {{}, {3}}, c1 \in {{}, {3}, {1}}, c2 \in {{}, {3}},
       w1 \in {{"R0"}, {"B"}}, w2 \in {{}, {"R0", "DPTR"}},
       w3 \in {{"B"}, {"R0"}}, o \in {{}, {3}},
       b \in {{}, {2}, {1, 2}, {2, 3}, {1, 2, 3}}, u3 \in {1, 2}} :
    3 \in p.opaque => /\ p.calls[2] = {3} /\ p.calls[1] = {}
                      /\ p.writes[3] = {"B"} /\ p.writes[1] = {"B"}}

\* Both families.
SmallPrograms == CallPrograms \cup HandlerPrograms
=============================================================================
