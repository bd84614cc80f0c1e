--------------------------- MODULE CriticalProofs ---------------------------
(***************************************************************************)
(* Proofs about Critical.                                                  *)
(***************************************************************************)
EXTENDS Critical, FiniteSetTheorems, SequenceTheorems, WellFoundedInduction, TLAPS

-----------------------------------------------------------------------------
(***************************************************************************)
(* Brackets, counted.                                                      *)
(***************************************************************************)
LEMMA ProgramParts ==
  ASSUME NEW p \in Programs
  PROVE  /\ p \in ProgramType /\ Boot \notin Func /\ N \in Nat /\ p.main \in Func
         /\ \A f \in Func : p.body[f] \in Seq(Token) /\ Len(p.body[f]) \in Nat
         /\ Handlers(p) \subseteq Func
  BY ProgramsAssumption DEF ProgramType, Boot, Func, Handlers

LEMMA TokenParts ==
  ASSUME NEW p \in Programs, NEW f \in Func, NEW i \in 1 .. Len(p.body[f])
  PROVE  p.body[f][i].kind \in Kind /\ p.body[f][i].arg \in Nat
<1>1. p.body[f][i] \in Token
  BY ProgramParts
<1> QED BY <1>1 DEF Token

Earlier(p, f, kind, i) == {k \in Positions(p, f, kind) : k < i}

LEMMA Counted ==
  ASSUME NEW p \in Programs, NEW f \in Func, NEW kind, NEW i \in Nat
  PROVE  /\ Cardinality(Earlier(p, f, kind, i)) \in Nat
         /\ i <= 1 => Cardinality(Earlier(p, f, kind, i)) = 0
         /\ Cardinality(Earlier(p, f, kind, i + 1))
              = Cardinality(Earlier(p, f, kind, i)) + (IF i \in Positions(p, f, kind) THEN 1 ELSE 0)
<1> DEFINE before == Earlier(p, f, kind, i)
           upto == Earlier(p, f, kind, i + 1)
<1>1. IsFiniteSet(before) /\ Cardinality(before) \in Nat
  <2>1. IsFiniteSet(1 .. Len(p.body[f]))
    <3>1. 1 \in Int /\ Len(p.body[f]) \in Int
      BY ProgramParts
    <3> QED BY <3>1, FS_Interval
  <2>2. before \in SUBSET (1 .. Len(p.body[f]))
    BY DEF Positions, Earlier
  <2> HIDE DEF before
  <2> QED BY <2>1, <2>2, FS_Subset, FS_CardinalityType
<1>2. i <= 1 => before = {}
  BY ProgramParts DEF Positions, Earlier
<1>3. i \in Positions(p, f, kind) => upto = before \cup {i}
  BY DEF Positions, Earlier
<1>8. i \notin before
  BY DEF Earlier
<1>4. i \notin Positions(p, f, kind) => upto = before
  BY DEF Positions, Earlier
<1> HIDE DEF upto, before
<1>5. Cardinality({}) = 0
  BY FS_EmptySet
<1>6. Cardinality(before \cup {i}) = IF i \in before THEN Cardinality(before) ELSE Cardinality(before) + 1
  BY <1>1, FS_AddElement
<1>7. Cardinality(upto) = Cardinality(before) + (IF i \in Positions(p, f, kind) THEN 1 ELSE 0)
  BY <1>1, <1>3, <1>4, <1>6, <1>8
<1> QED BY <1>1, <1>2, <1>5, <1>7 DEF upto, before

LEMMA NestingIs ==
  ASSUME NEW p \in Programs, NEW f \in Func, NEW open, NEW close, NEW i
  PROVE  Nesting(p, f, i, open, close)
           = Cardinality(Earlier(p, f, open, i)) - Cardinality(Earlier(p, f, close, i))
  BY DEF Nesting, Earlier

\* What token i changes in the number of open brackets.
Turn(p, f, i, open, close) ==
  IF p.body[f][i].kind = open THEN 1 ELSE IF p.body[f][i].kind = close THEN -1 ELSE 0

LEMMA NestingTurns ==
  ASSUME NEW p \in Programs, NEW f \in Func, NEW open, NEW close, open # close,
         NEW i \in 1 .. Len(p.body[f])
  PROVE  Nesting(p, f, i + 1, open, close)
           = Nesting(p, f, i, open, close) + Turn(p, f, i, open, close)
<1>1. i \in Nat /\ \A k : i \in Positions(p, f, k) <=> p.body[f][i].kind = k
  BY ProgramParts DEF Positions
<1>2. PICK kind : kind = p.body[f][i].kind
  OBVIOUS
<1>3. ASSUME NEW k
      PROVE  Cardinality(Earlier(p, f, k, i + 1))
               = Cardinality(Earlier(p, f, k, i)) + (IF kind = k THEN 1 ELSE 0)
  BY <1>1, <1>2, Counted
<1>4. \A k : Cardinality(Earlier(p, f, k, i)) \in Nat
  BY <1>1, Counted
<1>5. Nesting(p, f, i + 1, open, close)
        = Nesting(p, f, i, open, close)
            + (IF kind = open THEN 1 ELSE IF kind = close THEN -1 ELSE 0)
  BY <1>3, <1>4, NestingIs
<1> QED BY <1>2, <1>5 DEF Turn

LEMMA NestingStarts ==
  ASSUME NEW p \in Programs, NEW f \in Func, NEW open, NEW close
  PROVE  Nesting(p, f, 1, open, close) = 0
  BY Counted, NestingIs

LEMMA NestingType ==
  ASSUME NEW p \in Programs, NEW f \in Func, NEW open, NEW close, NEW i \in Nat
  PROVE  Nesting(p, f, i, open, close) \in Int
  BY Counted, NestingIs

\* What a token changes in the numbers of open brackets.
LEMMA NestingDifference ==
  ASSUME NEW p \in Programs, NEW f \in Func, NEW i \in 1 .. Len(p.body[f]), NEW k,
         p.body[f][i].kind = k
  PROVE  /\ Nesting(p, f, i + 1, "open", "close") - Nesting(p, f, i, "open", "close")
              = (IF k = "open" THEN 1 ELSE IF k = "close" THEN -1 ELSE 0)
         /\ Nesting(p, f, i + 1, "while", "end") - Nesting(p, f, i, "while", "end")
              = (IF k = "while" THEN 1 ELSE IF k = "end" THEN -1 ELSE 0)
<1>1. i \in Nat
  BY ProgramParts
<1>2. /\ Nesting(p, f, i, "open", "close") \in Int
      /\ Nesting(p, f, i + 1, "open", "close")
           = Nesting(p, f, i, "open", "close") + Turn(p, f, i, "open", "close")
  BY <1>1, NestingType, NestingTurns
<1>3. /\ Nesting(p, f, i, "while", "end") \in Int
      /\ Nesting(p, f, i + 1, "while", "end")
           = Nesting(p, f, i, "while", "end") + Turn(p, f, i, "while", "end")
  BY <1>1, NestingType, NestingTurns
<1>4. /\ Turn(p, f, i, "open", "close") = (IF k = "open" THEN 1 ELSE IF k = "close" THEN -1 ELSE 0)
      /\ Turn(p, f, i, "while", "end") = (IF k = "while" THEN 1 ELSE IF k = "end" THEN -1 ELSE 0)
  BY DEF Turn
<1> QED BY <1>2, <1>3, <1>4

\* The brackets still open are counted, so none is closed that was not opened.
LEMMA BracketsLeft ==
  ASSUME NEW p \in Programs, NEW f \in Func, NEW i \in 1 .. Len(p.body[f])
  PROVE  /\ Nesting(p, f, i, "open", "close") >= 0 /\ Nesting(p, f, i + 1, "open", "close") >= 0
         /\ Nesting(p, f, i, "while", "end") >= 0 /\ Nesting(p, f, i + 1, "while", "end") >= 0
         /\ p.body[f][i].kind \in {"break", "continue"} => Nesting(p, f, i, "while", "end") > 0
<1>1. i \in 1 .. Len(p.body[f]) + 1 /\ i + 1 \in 1 .. Len(p.body[f]) + 1
  BY ProgramParts
<1>2. \A j \in 1 .. Len(p.body[f]) + 1 :
        Nesting(p, f, j, "open", "close") >= 0 /\ Nesting(p, f, j, "while", "end") >= 0
  BY ProgramsAssumption, Zenon
<1>3. \A j \in Positions(p, f, "break") \cup Positions(p, f, "continue") :
        Nesting(p, f, j, "while", "end") > 0
  BY ProgramsAssumption, Zenon
<1>4. p.body[f][i].kind \in {"break", "continue"} =>
        i \in Positions(p, f, "break") \cup Positions(p, f, "continue")
  BY DEF Positions
<1> QED BY <1>1, <1>2, <1>3, <1>4

-----------------------------------------------------------------------------
(***************************************************************************)
(* What a piece of written code looks like: which instructions stand next  *)
(* to each other, and where they may jump.                                 *)
(***************************************************************************)
\* Nothing is executed behind these.
Leaves == {"ret", "reti", "jmp"}

\* Instructions that are reached only from the one before them, or, behind the
\* label of a section, from its jbc.
Mid == {"jbc_ea", "clr_c", "mov_bit_c", "mov_ea_c", "reti"}

Goto == {"jmp", "branch", "jbc_ea"}

Behind(s, i, op) == i > 1 /\ s[i - 1].op = op
Before(s, i, op) == i < Len(s) /\ s[i + 1].op = op

\* The labels of the sections of f.
Starts(p, f) ==
  IF f = Boot THEN {} ELSE {AfterEa(v) : v \in Positions(p, f, "open") \cup {0}}

Linked(p, f, s, i) ==
  /\ s[i].op = "setb_c" => Before(s, i, "jbc_ea")
  /\ s[i].op = "jbc_ea" => /\ Behind(s, i, "setb_c") /\ Before(s, i, "clr_c")
                           /\ s[i].arg \in Starts(p, f)
  /\ s[i].op = "clr_c" => /\ Behind(s, i, "jbc_ea") /\ Before(s, i, "label")
                          /\ s[i + 1].arg \in Starts(p, f)
  /\ (s[i].op = "label" /\ s[i].arg \in Starts(p, f)) =>
       Behind(s, i, "clr_c") /\ Before(s, i, "mov_bit_c")
  /\ s[i].op = "mov_bit_c" => /\ Behind(s, i, "label") /\ s[i - 1].arg \in Starts(p, f)
                              /\ f \in Func
  /\ s[i].op = "mov_c_bit" => Before(s, i, "mov_ea_c")
  /\ s[i].op = "mov_ea_c" => Behind(s, i, "mov_c_bit")
  /\ s[i].op = "push_psw" => i = 1 /\ f \in Handlers(p)
  /\ s[i].op = "pop_psw" => Before(s, i, "reti") /\ f \in Handlers(p)
  /\ s[i].op = "reti" => Behind(s, i, "pop_psw")
  /\ s[i].op = "ret" => f \in Func \ Handlers(p)
  /\ s[i].op \in {"jmp", "branch"} => s[i].arg \notin Starts(p, f)
  /\ s[i].op = "call" => s[i].arg \in Func \ Handlers(p) /\ (f # Boot => s[i].arg > f)

Shaped(p, f, s) == s \in Seq(Insn) /\ \A i \in 1 .. Len(s) : Linked(p, f, s, i)

Insns(s) == {s[i] : i \in 1 .. Len(s)}
Labels(s) == {x.arg : x \in {y \in Insns(s) : y.op = "label"}}
Jumps(s) == {x.arg : x \in {y \in Insns(s) : y.op \in Goto}}

\* The code of f is all there.
Complete(p, f, s) ==
  /\ Shaped(p, f, s)
  /\ Jumps(s) \subseteq Labels(s)
  /\ s # << >>
  /\ s[Len(s)].op \in Leaves
  /\ f \in Handlers(p) => s[1].op = "push_psw"

Pushless(s) == \A i \in 1 .. Len(s) : s[i].op # "push_psw"

LEMMA Concatenated ==
  ASSUME NEW S, NEW s \in Seq(S), NEW b \in Seq(S)
  PROVE  /\ s \o b \in Seq(S)
         /\ Len(s \o b) = Len(s) + Len(b) /\ Len(s) \in Nat /\ Len(b) \in Nat
         /\ \A i \in 1 .. Len(s) : (s \o b)[i] = s[i]
         /\ \A i \in 1 .. Len(b) : (s \o b)[i + Len(s)] = b[i]
<1>1. Len(s) \in Nat /\ Len(b) \in Nat
  BY LenProperties
<1>2. Len(s \o b) = Len(s) + Len(b) /\ s \o b \in Seq(S)
  BY ConcatProperties
<1>3. \A i \in 1 .. Len(s) + Len(b) :
        (s \o b)[i] = IF i <= Len(s) THEN s[i] ELSE b[i - Len(s)]
  BY ConcatProperties
<1>4. ASSUME NEW i \in 1 .. Len(b)
      PROVE  (s \o b)[i + Len(s)] = b[i]
  <2>1. i + Len(s) \in 1 .. Len(s) + Len(b) /\ ~(i + Len(s) <= Len(s)) /\ i + Len(s) - Len(s) = i
    BY <1>1
  <2> QED BY <1>3, <2>1
<1>5. ASSUME NEW i \in 1 .. Len(s)
      PROVE  (s \o b)[i] = s[i]
  <2>1. i \in 1 .. Len(s) + Len(b) /\ i <= Len(s)
    BY <1>1
  <2> QED BY <1>3, <2>1
<1> QED BY <1>1, <1>2, <1>4, <1>5

\* Two pieces keep their shape when they are joined: a piece is linked in itself.
LEMMA Joined ==
  ASSUME NEW p, NEW f, NEW s, NEW b, Shaped(p, f, s), Shaped(p, f, b),
         Len(s) = 0 \/ Pushless(b)
  PROVE  Shaped(p, f, s \o b)
<1> DEFINE t == s \o b
<1>1. s \in Seq(Insn) /\ b \in Seq(Insn)
  BY DEF Shaped
<1>2. /\ t \in Seq(Insn) /\ Len(t) = Len(s) + Len(b) /\ Len(s) \in Nat /\ Len(b) \in Nat
      /\ \A i \in 1 .. Len(s) : t[i] = s[i]
      /\ \A i \in 1 .. Len(b) : t[i + Len(s)] = b[i]
  BY <1>1, Concatenated
<1> HIDE DEF t
<1>3. ASSUME NEW i \in 1 .. Len(s)
      PROVE  Linked(p, f, t, i)
  <2>1. Linked(p, f, s, i) /\ i \in Nat /\ t[i] = s[i] /\ i <= Len(t)
    BY <1>2 DEF Shaped
  <2>2. \A op : Behind(s, i, op) => Behind(t, i, op) /\ t[i - 1] = s[i - 1]
    <3>1. i > 1 => i - 1 \in 1 .. Len(s)
      BY <1>2
    <3> QED BY <1>2, <3>1 DEF Behind
  <2>3. \A op : Before(s, i, op) => Before(t, i, op) /\ t[i + 1] = s[i + 1]
    <3>1. i < Len(s) => i + 1 \in 1 .. Len(s) /\ i < Len(t)
      BY <1>2
    <3> QED BY <1>2, <3>1 DEF Before
  <2> QED BY <2>1, <2>2, <2>3 DEF Linked
<1>4. ASSUME NEW i \in 1 .. Len(b)
      PROVE  Linked(p, f, t, i + Len(s))
  <2>1. Linked(p, f, b, i) /\ i \in Nat /\ t[i + Len(s)] = b[i]
    BY <1>2 DEF Shaped
  <2>2. \A op : Behind(b, i, op) => Behind(t, i + Len(s), op) /\ t[i + Len(s) - 1] = b[i - 1]
    <3>1. i > 1 => i - 1 \in 1 .. Len(b) /\ (i - 1) + Len(s) = i + Len(s) - 1 /\ i + Len(s) > 1
      BY <1>2
    <3> QED BY <1>2, <3>1 DEF Behind
  <2>3. \A op : Before(b, i, op) => Before(t, i + Len(s), op) /\ t[i + Len(s) + 1] = b[i + 1]
    <3>1. i < Len(b) => /\ i + 1 \in 1 .. Len(b) /\ (i + 1) + Len(s) = i + Len(s) + 1
                        /\ i + Len(s) < Len(t)
      BY <1>2
    <3> QED BY <1>2, <3>1 DEF Before
  <2>4. b[i].op = "push_psw" => i + Len(s) = i
    BY <1>2 DEF Pushless
  <2> QED BY <2>1, <2>2, <2>3, <2>4 DEF Linked
<1>5. ASSUME NEW i \in 1 .. Len(t)
      PROVE  Linked(p, f, t, i)
  <2>1. CASE i <= Len(s)
    BY <1>2, <1>3, <2>1
  <2>2. CASE ~(i <= Len(s))
    <3>1. i - Len(s) \in 1 .. Len(b) /\ (i - Len(s)) + Len(s) = i
      BY <1>2, <2>2
    <3> QED BY <1>4, <3>1
  <2> QED BY <2>1, <2>2
<1> QED BY <1>2, <1>5 DEF Shaped, t

LEMMA JoinedNames ==
  ASSUME NEW s \in Seq(Insn), NEW b \in Seq(Insn)
  PROVE  /\ Insns(s \o b) = Insns(s) \cup Insns(b)
         /\ Labels(s \o b) = Labels(s) \cup Labels(b)
         /\ Jumps(s \o b) = Jumps(s) \cup Jumps(b)
<1> DEFINE t == s \o b
<1>1. /\ Len(t) = Len(s) + Len(b) /\ Len(s) \in Nat /\ Len(b) \in Nat
      /\ \A i \in 1 .. Len(s) : t[i] = s[i]
      /\ \A i \in 1 .. Len(b) : t[i + Len(s)] = b[i]
  BY Concatenated
<1> HIDE DEF t
<1>2. ASSUME NEW x \in Insns(t)
      PROVE  x \in Insns(s) \cup Insns(b)
  <2>1. PICK i \in 1 .. Len(t) : x = t[i]
    BY DEF Insns
  <2>2. CASE i <= Len(s)
    BY <1>1, <2>1, <2>2 DEF Insns
  <2>3. CASE ~(i <= Len(s))
    <3>1. i - Len(s) \in 1 .. Len(b) /\ (i - Len(s)) + Len(s) = i
      BY <1>1, <2>3
    <3> QED BY <1>1, <2>1, <3>1 DEF Insns
  <2> QED BY <2>2, <2>3
<1>3. ASSUME NEW x \in Insns(s)
      PROVE  x \in Insns(t)
  <2>1. PICK i \in 1 .. Len(s) : x = s[i]
    BY DEF Insns
  <2>2. i \in 1 .. Len(t) /\ t[i] = x
    BY <1>1, <2>1
  <2> QED BY <2>2 DEF Insns
<1>4. ASSUME NEW x \in Insns(b)
      PROVE  x \in Insns(t)
  <2>1. PICK i \in 1 .. Len(b) : x = b[i]
    BY DEF Insns
  <2>2. i + Len(s) \in 1 .. Len(t) /\ t[i + Len(s)] = x
    BY <1>1, <2>1
  <2> QED BY <2>2 DEF Insns
<1>5. Insns(t) = Insns(s) \cup Insns(b)
  BY <1>2, <1>3, <1>4
<1> QED BY <1>5 DEF Labels, Jumps, t

-----------------------------------------------------------------------------
(***************************************************************************)
(* The pieces the compiler writes.                                         *)
(***************************************************************************)
LEMMA InsnType ==
  ASSUME NEW op \in Op, NEW arg \in Nat, NEW in \in BOOLEAN
  PROVE  /\ I(op, arg, in) \in Insn
         /\ I(op, arg, in).op = op /\ I(op, arg, in).arg = arg /\ I(op, arg, in).in = in
  BY DEF I, Insn

LEMMA OutsideInsn ==
  ASSUME NEW arg \in Nat,
         NEW op \in {"mov_c_bit", "mov_ea_c", "ret", "pop_psw", "reti", "push_psw"}
  PROVE  /\ I(op, arg, FALSE) \in Insn
         /\ I(op, arg, FALSE).op = op /\ I(op, arg, FALSE).arg = arg /\ ~I(op, arg, FALSE).in
<1>1. op \in Op
  BY DEF Op
<1> QED BY <1>1, InsnType

LEMMA Halved ==
  ASSUME NEW k \in Nat, k > 0
  PROVE  \E q \in Nat : q > 0 /\ (k = 2 * q - 1 \/ k = 2 * q)
<1>1. /\ (k + 1) \div 2 \in Nat /\ (k + 1) \div 2 > 0
      /\ k = 2 * ((k + 1) \div 2) - 1 \/ k = 2 * ((k + 1) \div 2)
  OBVIOUS
<1> QED BY <1>1

\* Instructions that may stand anywhere.
Alone == {"label", "jmp", "branch", "call", "ret", "setb_ea", "clr_ea", "mov_sbuf",
          "clr_flag", "other"}

Fits(p, f, x) ==
  /\ x \in Insn /\ x.op \in Alone
  /\ x.op \in {"label", "jmp", "branch"} => x.arg \notin Starts(p, f)
  /\ x.op = "ret" => f \in Func \ Handlers(p)
  /\ x.op = "call" => x.arg \in Func \ Handlers(p) /\ (f # Boot => x.arg > f)

LEMMA FitsShaped ==
  ASSUME NEW p, NEW f, NEW s \in Seq(Insn), \A i \in 1 .. Len(s) : Fits(p, f, s[i])
  PROVE  Shaped(p, f, s) /\ Pushless(s)
<1>1. ASSUME NEW i \in 1 .. Len(s)
      PROVE  Linked(p, f, s, i)
  BY DEF Linked, Fits, Alone
<1> QED BY <1>1 DEF Shaped, Pushless, Fits, Alone

LEMMA NothingWritten ==
  ASSUME NEW p, NEW f
  PROVE  /\ Shaped(p, f, << >>) /\ Pushless(<< >>) /\ Insns(<< >>) = {}
         /\ Labels(<< >>) = {} /\ Jumps(<< >>) = {}
<1>1. << >> \in Seq(Insn) /\ Len(<< >>) = 0
  BY EmptySeq
<1>2. Insns(<< >>) = {}
  BY <1>1 DEF Insns
<1> QED BY <1>1, <1>2 DEF Shaped, Pushless, Labels, Jumps

LEMMA OneInsn ==
  ASSUME NEW x \in Insn
  PROVE  /\ <<x>> \in Seq(Insn) /\ Len(<<x>>) = 1 /\ <<x>>[1] = x
         /\ Insns(<<x>>) = {x}
<1>1. Len(<<x>>) = 1 /\ <<x>>[1] = x /\ <<x>> \in Seq(Insn)
  OBVIOUS
<1>2. 1 .. 1 = {1}
  OBVIOUS
<1> QED BY <1>1, <1>2 DEF Insns

LEMMA TwoInsns ==
  ASSUME NEW x \in Insn, NEW y \in Insn
  PROVE  /\ <<x, y>> \in Seq(Insn) /\ Len(<<x, y>>) = 2 /\ <<x, y>>[1] = x /\ <<x, y>>[2] = y
         /\ Insns(<<x, y>>) = {x, y}
<1>1. Len(<<x, y>>) = 2 /\ <<x, y>>[1] = x /\ <<x, y>>[2] = y /\ <<x, y>> \in Seq(Insn)
  OBVIOUS
<1>2. 1 .. 2 = {1, 2}
  OBVIOUS
<1> QED BY <1>1, <1>2 DEF Insns

LEMMA OneFits ==
  ASSUME NEW p, NEW f, NEW x, Fits(p, f, x)
  PROVE  /\ Shaped(p, f, <<x>>) /\ Pushless(<<x>>) /\ <<x>> \in Seq(Insn)
         /\ Len(<<x>>) = 1 /\ <<x>>[1] = x
         /\ Labels(<<x>>) = (IF x.op = "label" THEN {x.arg} ELSE {})
         /\ Jumps(<<x>>) = (IF x.op \in Goto THEN {x.arg} ELSE {})
<1>1. x \in Insn
  BY DEF Fits
<1>2. PICK s : s = <<x>>
  OBVIOUS
<1>3. s \in Seq(Insn) /\ Len(s) = 1 /\ s[1] = x /\ Insns(s) = {x}
  BY <1>1, <1>2, OneInsn
<1>4. \A i \in 1 .. Len(s) : Fits(p, f, s[i])
  BY <1>3
<1>5. Shaped(p, f, s) /\ Pushless(s)
  BY <1>3, <1>4, FitsShaped
<1> QED BY <1>2, <1>3, <1>5 DEF Labels, Jumps

LEMMA TwoFit ==
  ASSUME NEW p, NEW f, NEW x, NEW y, Fits(p, f, x), Fits(p, f, y)
  PROVE  /\ Shaped(p, f, <<x, y>>) /\ Pushless(<<x, y>>) /\ <<x, y>> \in Seq(Insn)
         /\ Len(<<x, y>>) = 2 /\ <<x, y>>[1] = x /\ <<x, y>>[2] = y
         /\ Labels(<<x, y>>) = {z.arg : z \in {w \in {x, y} : w.op = "label"}}
         /\ Jumps(<<x, y>>) = {z.arg : z \in {w \in {x, y} : w.op \in Goto}}
<1>1. x \in Insn /\ y \in Insn
  BY DEF Fits
<1>2. PICK s : s = <<x, y>>
  OBVIOUS
<1>3. s \in Seq(Insn) /\ Len(s) = 2 /\ s[1] = x /\ s[2] = y /\ Insns(s) = {x, y}
  BY <1>1, <1>2, TwoInsns
<1>4. \A i \in 1 .. Len(s) : Fits(p, f, s[i])
  BY <1>3
<1>5. Shaped(p, f, s) /\ Pushless(s)
  BY <1>3, <1>4, FitsShaped
<1> QED BY <1>2, <1>3, <1>5 DEF Labels, Jumps

\* The five instructions that open section v.
Entering(s, v) ==
  /\ s \in Seq(Insn) /\ Len(s) = 5
  /\ s[1].op = "setb_c" /\ s[2].op = "jbc_ea" /\ s[3].op = "clr_c" /\ s[4].op = "label"
  /\ s[5].op = "mov_bit_c"
  /\ s[2].arg = AfterEa(v) /\ s[4].arg = AfterEa(v) /\ s[5].arg = v
  /\ \A i \in 1 .. 5 : ~s[i].in

LEMMA EnterInsns ==
  ASSUME NEW v \in Nat
  PROVE  Entering(CritEnter(v), v)
<1> DEFINE x1 == I("setb_c", 0, FALSE)
           x2 == I("jbc_ea", AfterEa(v), FALSE)
           x3 == I("clr_c", 0, FALSE)
           x4 == I("label", AfterEa(v), FALSE)
           x5 == I("mov_bit_c", v, FALSE)
<1>1. AfterEa(v) \in Nat
  BY DEF AfterEa
<1>2. /\ x1 \in Insn /\ x1.op = "setb_c" /\ ~x1.in
      /\ x2 \in Insn /\ x2.op = "jbc_ea" /\ ~x2.in /\ x2.arg = AfterEa(v)
      /\ x3 \in Insn /\ x3.op = "clr_c" /\ ~x3.in
      /\ x4 \in Insn /\ x4.op = "label" /\ ~x4.in /\ x4.arg = AfterEa(v)
      /\ x5 \in Insn /\ x5.op = "mov_bit_c" /\ ~x5.in /\ x5.arg = v
  <2>1. \A op \in Op : \A arg \in Nat :
          LET x == I(op, arg, FALSE)
          IN x \in Insn /\ x.op = op /\ ~x.in /\ x.arg = arg
    BY InsnType
  <2>2. {"setb_c", "jbc_ea", "clr_c", "label", "mov_bit_c"} \subseteq Op /\ 0 \in Nat
    BY DEF Op
  <2> QED BY <1>1, <2>1, <2>2
<1>3. CritEnter(v) = <<x1, x2, x3, x4, x5>>
  BY DEF CritEnter
<1> HIDE DEF x1, x2, x3, x4, x5
<1>4. PICK s : s = <<x1, x2, x3, x4, x5>>
  OBVIOUS
<1>5. /\ s \in Seq(Insn) /\ Len(s) = 5
      /\ s[1] = x1 /\ s[2] = x2 /\ s[3] = x3 /\ s[4] = x4 /\ s[5] = x5
  BY <1>2, <1>4
<1> QED BY <1>2, <1>3, <1>4, <1>5 DEF Entering

LEMMA EnterBlock ==
  ASSUME NEW p \in Programs, NEW f \in Func, NEW v \in Nat, NEW s,
         v \in Positions(p, f, "open") \cup {0}, Entering(s, v)
  PROVE  /\ Shaped(p, f, s) /\ Pushless(s) /\ s \in Seq(Insn) /\ Len(s) = 5
         /\ Labels(s) = {AfterEa(v)} /\ Jumps(s) = {AfterEa(v)}
<1>1. AfterEa(v) \in Starts(p, f) /\ f # Boot
  BY ProgramParts DEF Starts
<1>2. /\ 1 + 1 = 2 /\ 2 + 1 = 3 /\ 3 + 1 = 4 /\ 4 + 1 = 5 /\ 5 - 1 = 4 /\ 4 - 1 = 3 /\ 3 - 1 = 2
      /\ 2 - 1 = 1 /\ 1 < 5 /\ 2 < 5 /\ 3 < 5 /\ 4 < 5 /\ 2 > 1 /\ 3 > 1 /\ 4 > 1 /\ 5 > 1
  OBVIOUS
<1>3. Before(s, 1, "jbc_ea") /\ Before(s, 2, "clr_c") /\ Before(s, 3, "label") /\ Before(s, 4, "mov_bit_c")
  BY <1>2 DEF Entering, Before
<1>4. Behind(s, 2, "setb_c") /\ Behind(s, 3, "jbc_ea") /\ Behind(s, 4, "clr_c") /\ Behind(s, 5, "label")
  BY <1>2 DEF Entering, Behind
<1>5. Linked(p, f, s, 1)
  BY <1>3 DEF Linked, Entering
<1>6. Linked(p, f, s, 2)
  BY <1>1, <1>3, <1>4 DEF Linked, Entering
<1>7. Linked(p, f, s, 3)
  BY <1>1, <1>2, <1>3, <1>4 DEF Linked, Entering
<1>8. Linked(p, f, s, 4)
  BY <1>3, <1>4 DEF Linked, Entering
<1>9. Linked(p, f, s, 5)
  BY <1>1, <1>2, <1>4 DEF Linked, Entering
<1>10. 1 .. 5 = {1, 2, 3, 4, 5}
  OBVIOUS
<1>11. Shaped(p, f, s)
  BY <1>5, <1>6, <1>7, <1>8, <1>9, <1>10 DEF Shaped, Entering
<1>12. Insns(s) = {s[1], s[2], s[3], s[4], s[5]}
  BY <1>10 DEF Insns, Entering
<1>13. Pushless(s)
  BY <1>10 DEF Pushless, Entering
<1>14. Labels(s) = {AfterEa(v)}
  BY <1>12 DEF Labels, Entering
<1>15. Jumps(s) = {AfterEa(v)}
  BY <1>12 DEF Jumps, Entering, Goto
<1> QED BY <1>11, <1>13, <1>14, <1>15 DEF Entering

LEMMA ExitAllAt ==
  ASSUME NEW open \in Seq(Nat)
  PROVE  /\ ExitAll(open) \in Seq(Insn) /\ Len(ExitAll(open)) = 2 * Len(open) /\ Len(open) \in Nat
         /\ \A q \in 1 .. Len(open) :
              /\ ExitAll(open)[2 * q - 1] = I("mov_c_bit", open[Len(open) - q + 1], FALSE)
              /\ ExitAll(open)[2 * q] = I("mov_ea_c", 0, FALSE)
<1> DEFINE n == 2 * Len(open)
           At1(k) == CritExit(open[Len(open) - (k - 1) \div 2])[1 + ((k - 1) % 2)]
<1>1. Len(open) \in Nat /\ n \in Nat
  BY LenProperties
<1>2. \A v : CritExit(v)[1] = I("mov_c_bit", v, FALSE) /\ CritExit(v)[2] = I("mov_ea_c", 0, FALSE)
  BY DEF CritExit
<1>3. ASSUME NEW q \in 1 .. Len(open)
      PROVE  /\ At1(2 * q - 1) = I("mov_c_bit", open[Len(open) - q + 1], FALSE)
             /\ At1(2 * q) = I("mov_ea_c", 0, FALSE)
             /\ open[Len(open) - q + 1] \in Nat
  <2>1. PICK m \in Nat : m = q - 1
    BY <1>1
  <2>2. /\ (2 * q - 1) - 1 = 2 * m /\ (2 * q) - 1 = 2 * m + 1
        /\ (2 * m) \div 2 = m /\ (2 * m) % 2 = 0 /\ (2 * m + 1) \div 2 = m /\ (2 * m + 1) % 2 = 1
        /\ Len(open) - m = Len(open) - q + 1 /\ 1 + 0 = 1 /\ 1 + 1 = 2
        /\ Len(open) - q + 1 \in 1 .. Len(open)
    BY <1>1, <2>1
  <2>3. open[Len(open) - q + 1] \in Nat
    BY <2>2, ElementOfSeq
  <2> QED BY <1>2, <2>2, <2>3
<1>4. ExitAll(open) = [k \in 1 .. n |-> At1(k)]
  BY DEF ExitAll
<1>5. ASSUME NEW k \in 1 .. n
      PROVE  \E q \in 1 .. Len(open) : k = 2 * q - 1 \/ k = 2 * q
  <2>0. k \in Nat /\ k > 0
    BY <1>1
  <2>1. PICK q \in Nat : k = 2 * q - 1 \/ k = 2 * q
    BY <2>0, Halved
  <2>2. q \in 1 .. Len(open)
    BY <1>1, <2>1
  <2> QED BY <2>1, <2>2
<1> HIDE DEF At1
<1>6. ASSUME NEW k \in 1 .. n
      PROVE  At1(k) \in Insn
  <2>1. PICK q \in 1 .. Len(open) : k = 2 * q - 1 \/ k = 2 * q
    BY <1>5
  <2>2. \A v \in Nat : I("mov_c_bit", v, FALSE) \in Insn /\ I("mov_ea_c", 0, FALSE) \in Insn
    BY OutsideInsn
  <2> QED BY <1>3, <2>1, <2>2
<1>7. ExitAll(open) \in Seq(Insn) /\ Len(ExitAll(open)) = n
  <2>1. PICK s : s = [k \in 1 .. n |-> At1(k)]
    OBVIOUS
  <2>2. s \in [1 .. n -> Insn]
    BY <1>6, <2>1
  <2>3. s \in Seq(Insn)
    BY <1>1, <2>2, SeqDef
  <2>4. Len(s) = n
    BY <1>1, <2>1, <2>2
  <2> QED BY <1>4, <2>1, <2>3, <2>4
<1>8. ASSUME NEW k \in 1 .. n
      PROVE  ExitAll(open)[k] = At1(k)
  BY <1>4
<1>9. ASSUME NEW q \in 1 .. Len(open)
      PROVE  2 * q - 1 \in 1 .. n /\ 2 * q \in 1 .. n
  BY <1>1
<1> QED BY <1>1, <1>3, <1>7, <1>8, <1>9

LEMMA ExitBlock ==
  ASSUME NEW p \in Programs, NEW f \in Func, NEW open \in Seq(Nat)
  PROVE  /\ Shaped(p, f, ExitAll(open)) /\ Pushless(ExitAll(open))
         /\ Labels(ExitAll(open)) = {} /\ Jumps(ExitAll(open)) = {}
<1>1. PICK s : s = ExitAll(open)
  OBVIOUS
<1>2. PICK n : n = Len(open)
  OBVIOUS
<1>3. s \in Seq(Insn) /\ Len(s) = 2 * n /\ n \in Nat
  BY <1>1, <1>2, ExitAllAt
<1>4. ASSUME NEW q \in 1 .. n
      PROVE  s[2 * q - 1].op = "mov_c_bit" /\ s[2 * q].op = "mov_ea_c"
  <2>1. s[2 * q - 1] = I("mov_c_bit", open[n - q + 1], FALSE) /\ s[2 * q] = I("mov_ea_c", 0, FALSE)
    BY <1>1, <1>2, ExitAllAt
  <2> QED BY <2>1 DEF I
<1>5. ASSUME NEW k \in 1 .. Len(s)
      PROVE  s[k].op \in {"mov_c_bit", "mov_ea_c"} /\ Linked(p, f, s, k)
  <2>0. k \in Nat /\ k > 0
    BY <1>3
  <2>1. PICK q \in Nat : k = 2 * q - 1 \/ k = 2 * q
    BY <2>0, Halved
  <2>2. q \in 1 .. n
    BY <1>3, <2>1
  <2>3. s[2 * q - 1].op = "mov_c_bit" /\ s[2 * q].op = "mov_ea_c"
    BY <1>4, <2>2
  <2>4. CASE k = 2 * q - 1
    <3>1. k + 1 = 2 * q /\ k < Len(s)
      BY <1>3, <2>2, <2>4
    <3>2. Before(s, k, "mov_ea_c") /\ s[k].op = "mov_c_bit"
      BY <2>3, <2>4, <3>1 DEF Before
    <3> QED BY <3>2 DEF Linked
  <2>5. CASE k = 2 * q
    <3>1. k - 1 = 2 * q - 1 /\ k > 1
      BY <1>3, <2>2, <2>5
    <3>2. Behind(s, k, "mov_c_bit") /\ s[k].op = "mov_ea_c"
      BY <2>3, <2>5, <3>1 DEF Behind
    <3> QED BY <3>2 DEF Linked
  <2> QED BY <2>1, <2>4, <2>5
<1>6. Shaped(p, f, s) /\ Pushless(s)
  BY <1>3, <1>5 DEF Shaped, Pushless
<1>7. \A x \in Insns(s) : x.op \in {"mov_c_bit", "mov_ea_c"}
  BY <1>5 DEF Insns
<1>8. Labels(s) = {} /\ Jumps(s) = {}
  BY <1>7 DEF Labels, Jumps, Goto
<1> QED BY <1>1, <1>6, <1>8

LEMMA CloseBlock ==
  ASSUME NEW p \in Programs, NEW f \in Func, NEW v \in Nat
  PROVE  /\ Shaped(p, f, CritExit(v)) /\ Pushless(CritExit(v)) /\ CritExit(v) \in Seq(Insn)
         /\ Labels(CritExit(v)) = {} /\ Jumps(CritExit(v)) = {}
<1> DEFINE x == I("mov_c_bit", v, FALSE)
           y == I("mov_ea_c", 0, FALSE)
<1>1. x \in Insn /\ x.op = "mov_c_bit"
  BY OutsideInsn
<1>2. y \in Insn /\ y.op = "mov_ea_c"
  BY OutsideInsn
<1>3. PICK s : s = CritExit(v)
  OBVIOUS
<1>4. s = <<x, y>>
  BY <1>3 DEF CritExit
<1> HIDE DEF x, y
<1>5. s \in Seq(Insn) /\ Len(s) = 2 /\ s[1] = x /\ s[2] = y /\ Insns(s) = {x, y}
  BY <1>1, <1>2, <1>4, TwoInsns
<1>6. 1 + 1 = 2 /\ 2 - 1 = 1 /\ 1 < 2 /\ 2 > 1 /\ 1 .. 2 = {1, 2}
  OBVIOUS
<1>7. Before(s, 1, "mov_ea_c") /\ Behind(s, 2, "mov_c_bit")
  BY <1>1, <1>2, <1>5, <1>6 DEF Before, Behind
<1>8. Linked(p, f, s, 1)
  BY <1>1, <1>5, <1>7 DEF Linked
<1>9. Linked(p, f, s, 2)
  BY <1>2, <1>5, <1>7 DEF Linked
<1>10. Shaped(p, f, s) /\ Pushless(s)
  BY <1>1, <1>2, <1>5, <1>6, <1>8, <1>9 DEF Shaped, Pushless
<1>11. Labels(s) = {} /\ Jumps(s) = {}
  BY <1>1, <1>2, <1>5 DEF Labels, Jumps, Goto
<1> QED BY <1>3, <1>5, <1>10, <1>11

LEMMA EpilogueBlock ==
  ASSUME prog \in Programs, NEW f \in Func
  PROVE  LET s == Epilogue(f)
         IN /\ Shaped(prog, f, s) /\ Pushless(s) /\ s \in Seq(Insn) /\ Len(s) \in 1 .. 2
            /\ s[Len(s)].op \in Leaves
            /\ Labels(s) = {} /\ Jumps(s) = {}
<1>1. CASE f \notin Handlers(prog)
  <2> DEFINE x == I("ret", 0, FALSE)
  <2>1. x \in Insn /\ x.op = "ret"
    BY OutsideInsn
  <2>2. PICK s : s = Epilogue(f)
    OBVIOUS
  <2>3. s = <<x>>
    BY <1>1, <2>2 DEF Epilogue, IsHandler
  <2> HIDE DEF x
  <2>4. Fits(prog, f, x)
    BY <1>1, <2>1 DEF Fits, Alone
  <2>5. /\ Shaped(prog, f, s) /\ Pushless(s) /\ s \in Seq(Insn) /\ Len(s) = 1 /\ s[1] = x
        /\ Labels(s) = {} /\ Jumps(s) = {}
    BY <2>1, <2>3, <2>4, OneFits DEF Goto
  <2> QED BY <2>1, <2>2, <2>5 DEF Leaves
<1>2. CASE f \in Handlers(prog)
  <2> DEFINE x == I("pop_psw", 0, FALSE)
             y == I("reti", 0, FALSE)
  <2>1. x \in Insn /\ x.op = "pop_psw"
    BY OutsideInsn
  <2>2. y \in Insn /\ y.op = "reti"
    BY OutsideInsn
  <2>3. PICK s : s = Epilogue(f)
    OBVIOUS
  <2>4. s = <<x, y>>
    BY <1>2, <2>3 DEF Epilogue, IsHandler
  <2> HIDE DEF x, y
  <2>5. s \in Seq(Insn) /\ Len(s) = 2 /\ s[1] = x /\ s[2] = y /\ Insns(s) = {x, y}
    BY <2>1, <2>2, <2>4, TwoInsns
  <2>6. 1 + 1 = 2 /\ 2 - 1 = 1 /\ 1 < 2 /\ 2 > 1 /\ 1 .. 2 = {1, 2}
    OBVIOUS
  <2>7. Before(s, 1, "reti") /\ Behind(s, 2, "pop_psw")
    BY <2>1, <2>2, <2>5, <2>6 DEF Before, Behind
  <2>8. Linked(prog, f, s, 1)
    BY <1>2, <2>1, <2>5, <2>7 DEF Linked
  <2>9. Linked(prog, f, s, 2)
    BY <2>2, <2>5, <2>7 DEF Linked
  <2>10. Shaped(prog, f, s) /\ Pushless(s)
    BY <2>1, <2>2, <2>5, <2>6, <2>8, <2>9 DEF Shaped, Pushless
  <2>11. Labels(s) = {} /\ Jumps(s) = {}
    BY <2>1, <2>2, <2>5 DEF Labels, Jumps, Goto
  <2> QED BY <2>2, <2>3, <2>5, <2>10, <2>11 DEF Leaves
<1> QED BY <1>1, <1>2

\* The labels of a loop are not those of a section.
LEMMA LabelsApart ==
  ASSUME NEW p \in Programs, NEW f \in Func, NEW i \in Positions(p, f, "while")
  PROVE  /\ TestLabel(i) \in Nat \ Starts(p, f) /\ ExitLabel(i) \in Nat \ Starts(p, f)
         /\ i \in Nat
<1>1. i \in Nat /\ i > 0 /\ i \notin Positions(p, f, "open")
  BY ProgramParts DEF Positions
<1>2. \A v \in Positions(p, f, "open") \cup {0} : v \in Nat /\ v # i
  BY <1>1, ProgramParts DEF Positions
<1>3. \A v \in Nat : v # i => 2 * v # 2 * i /\ 2 * v # 2 * i + 1
  BY <1>1
<1>4. \A v \in Nat : 2 * v # 2 * i + 1
  BY <1>1
<1> QED BY <1>1, <1>2, <1>3, <1>4, ProgramParts DEF Starts, TestLabel, ExitLabel, AfterEa

-----------------------------------------------------------------------------
(***************************************************************************)
(* Which instruction is executed from a position on: the first behind the  *)
(* labels there.                                                           *)
(***************************************************************************)
LEMMA SmallestOne ==
  ASSUME NEW T \in SUBSET Nat, NEW n \in T
  PROVE  \E m \in T : \A k \in T : m <= k
<1>1. IsWellFoundedOn(OpToRel(<, Nat), Nat)
  BY NatLessThanWellFounded
<1>2. PICK m \in T : \A y \in Nat : <<y, m>> \in OpToRel(<, Nat) => ~(y \in T)
  BY <1>1, WFMin
<1>3. ASSUME NEW k \in T
      PROVE  m <= k
  <2>1. k \in Nat /\ m \in Nat
    OBVIOUS
  <2>2. k < m => <<k, m>> \in OpToRel(<, Nat)
    BY <2>1 DEF OpToRel
  <2>3. ~(k < m)
    BY <1>2, <2>1, <2>2, Zenon
  <2> QED BY <2>1, <2>3
<1> QED BY <1>3

Arrives(s, i, j) ==
  /\ j \in i .. Len(s)
  /\ s[j].op # "label"
  /\ \A k \in i .. j - 1 : s[k].op = "label"

LEMMA ArrivesSomewhere ==
  ASSUME NEW s \in Seq(Insn), NEW i \in 1 .. Len(s), s[Len(s)].op # "label"
  PROVE  \E j : Arrives(s, i, j)
<1> DEFINE T == {j \in i .. Len(s) : s[j].op # "label"}
<1>1. Len(s) \in Nat /\ i \in Nat
  BY LenProperties
<1>2. T \in SUBSET Nat /\ Len(s) \in T
  BY <1>1
<1>3. PICK j \in T : \A k \in T : j <= k
  BY <1>2, SmallestOne
<1>4. ASSUME NEW k \in i .. j - 1
      PROVE  s[k].op = "label"
  <2>1. k \in i .. Len(s) /\ ~(j <= k)
    BY <1>1, <1>3
  <2> QED BY <1>3, <2>1
<1> QED BY <1>3, <1>4 DEF Arrives

LEMMA ArrivesOnce ==
  ASSUME NEW s \in Seq(Insn), NEW i \in 1 .. Len(s), NEW j, NEW k,
         Arrives(s, i, j), Arrives(s, i, k)
  PROVE  j = k
<1>1. Len(s) \in Nat /\ i \in Nat
  BY LenProperties
<1>2. j \in Nat /\ k \in Nat /\ i <= j /\ i <= k
  BY <1>1 DEF Arrives
<1>3. ~(j < k)
  <2>1. j < k => j \in i .. k - 1
    BY <1>1, <1>2
  <2> QED BY <2>1 DEF Arrives
<1>4. ~(k < j)
  <2>1. k < j => k \in i .. j - 1
    BY <1>1, <1>2
  <2> QED BY <2>1 DEF Arrives
<1> QED BY <1>2, <1>3, <1>4

LEMMA AtArrives ==
  ASSUME NEW f, NEW i, code[f] \in Seq(Insn), i \in 1 .. Len(code[f]),
         code[f][Len(code[f])].op # "label"
  PROVE  Arrives(code[f], i, At(f, i))
<1>1. PICK j : Arrives(code[f], i, j)
  BY ArrivesSomewhere
<1>2. /\ j \in i .. Len(code[f]) /\ code[f][j].op # "label"
      /\ \A k \in i .. j - 1 : code[f][k].op = "label"
  BY <1>1 DEF Arrives
<1> QED BY <1>2 DEF At, Arrives

\* The inner instructions of an opening or closing sequence are reached from the
\* one before them only; mov bit,c also from its label.
ReachedAlone(p, f, s, i, j) ==
  \/ j = i
  \/ j = i + 1 /\ s[j].op = "mov_bit_c" /\ s[i].op = "label" /\ s[i].arg \in Starts(p, f)

LEMMA ArrivesMid ==
  ASSUME NEW p, NEW f, NEW s, NEW i, NEW j, Shaped(p, f, s), i \in 1 .. Len(s),
         Arrives(s, i, j), s[j].op \in Mid
  PROVE  ReachedAlone(p, f, s, i, j)
<1>1. Len(s) \in Nat /\ i \in Nat /\ j \in 1 .. Len(s) /\ j \in Nat /\ i <= j
  BY LenProperties DEF Shaped, Arrives
<1>2. Linked(p, f, s, j)
  BY <1>1 DEF Shaped
<1>3. CASE j > i
  <2>1. s[j - 1].op = "label" /\ j > 1
    <3>1. j - 1 \in i .. j - 1
      BY <1>1, <1>3
    <3> QED BY <1>1, <1>3, <3>1 DEF Arrives
  <2>2. s[j].op = "mov_bit_c" /\ s[j - 1].arg \in Starts(p, f)
    BY <1>2, <2>1 DEF Linked, Mid, Behind
  <2>3. Linked(p, f, s, j - 1)
    <3>1. j - 1 \in 1 .. Len(s)
      BY <1>1, <2>1
    <3> QED BY <3>1 DEF Shaped
  <2>4. Behind(s, j - 1, "clr_c")
    BY <2>1, <2>2, <2>3 DEF Linked
  <2>5. j - 2 \notin i .. j - 1
    <3>1. j - 1 - 1 = j - 2
      BY <1>1
    <3> QED BY <2>4, <3>1 DEF Behind, Arrives
  <2>6. j = i + 1
    BY <1>1, <1>3, <2>5
  <2>7. j - 1 = i
    BY <1>1, <2>6
  <2> QED BY <2>1, <2>2, <2>6, <2>7 DEF ReachedAlone
<1>4. CASE j = i
  BY <1>4 DEF ReachedAlone
<1> QED BY <1>1, <1>3, <1>4

\* The position of label l in f.
LabelAt(f, l) ==
  CHOOSE i \in 1 .. Len(code[f]) : code[f][i].op = "label" /\ code[f][i].arg = l

LEMMA LabelThere ==
  ASSUME NEW f, NEW l, l \in Labels(code[f])
  PROVE  /\ LabelAt(f, l) \in 1 .. Len(code[f])
         /\ code[f][LabelAt(f, l)].op = "label" /\ code[f][LabelAt(f, l)].arg = l
<1>1. PICK i \in 1 .. Len(code[f]) : code[f][i].op = "label" /\ code[f][i].arg = l
  BY DEF Labels, Insns
<1> QED BY <1>1 DEF LabelAt

-----------------------------------------------------------------------------
(***************************************************************************)
(* The compiler keeps the shape of what it writes, and when it is done     *)
(* every function is complete.                                             *)
(***************************************************************************)
Exits(open) == {ExitLabel(open[k]) : k \in 1 .. Len(open)}
Tests(open) == {TestLabel(open[k]) : k \in 1 .. Len(open)}

\* Code of f that is being written inside the loops `open`: only their exits are
\* still to come.
Written(p, f, s, open) ==
  /\ Shaped(p, f, s)
  /\ Jumps(s) \subseteq Labels(s) \cup Exits(open)
  /\ Tests(open) \subseteq Labels(s)
  /\ f \in Handlers(p) => s # << >> /\ s[1].op = "push_psw"

Walking(p, f, i) ==
  /\ i \in 1 .. Len(p.body[f]) + 1
  /\ Len(crit) = Nesting(p, f, i, "open", "close") + (IF f \in p.critical THEN 1 ELSE 0)
  /\ Len(loops) = Nesting(p, f, i, "while", "end")
  /\ \A k \in 1 .. Len(loops) : loops[k] \in Positions(p, f, "while")
  /\ Written(p, f, code[f], loops)

\* The CPU has not started.
Idle ==
  /\ pc = <<Boot, 1>> /\ c = FALSE /\ bits = {} /\ stack = << >> /\ ea = FALSE
  /\ flags = {} /\ inIsr = FALSE /\ delay = FALSE /\ halted = FALSE /\ want = FALSE

Booted ==
  code[Boot] = <<I("call", prog.main, FALSE), I("label", 0, FALSE), I("jmp", 0, FALSE)>>

Compiled ==
  /\ prog \in Programs /\ phase \in {"build", "run"} /\ fn \in 0 .. N /\ pos \in Nat
  /\ crit \in Seq(Nat) /\ loops \in Seq(Nat)
  /\ DOMAIN code = Func \cup {Boot} /\ code \in [Func \cup {Boot} -> Seq(Insn)]
  /\ \A f \in Func : f < fn => Complete(prog, f, code[f])
  /\ Complete(prog, Boot, code[Boot]) /\ Booted
  /\ \A f \in Func : f > fn => code[f] = << >>
  /\ phase = "run" => fn = N
  /\ phase = "build" => fn < N /\ Idle
  /\ (phase = "build" /\ pos = 0) => code[fn] = << >> /\ crit = << >>
  /\ (phase = "build" /\ pos > 0) => Walking(prog, fn, pos)

LEMMA Grown ==
  ASSUME NEW p, NEW f, NEW s, NEW b, NEW open, NEW open1,
         Written(p, f, s, open), Shaped(p, f, b), Pushless(b),
         Jumps(b) \subseteq Labels(s) \cup Labels(b) \cup Exits(open1),
         Exits(open) \subseteq Labels(b) \cup Exits(open1),
         Tests(open1) \subseteq Labels(s) \cup Labels(b)
  PROVE  Written(p, f, s \o b, open1)
<1>1. s \in Seq(Insn) /\ b \in Seq(Insn) /\ Shaped(p, f, s)
  BY DEF Written, Shaped
<1>2. Shaped(p, f, s \o b)
  BY <1>1, Joined
<1>3. Labels(s \o b) = Labels(s) \cup Labels(b) /\ Jumps(s \o b) = Jumps(s) \cup Jumps(b)
  BY <1>1, JoinedNames
<1>4. Jumps(s) \subseteq Labels(s) \cup Exits(open)
  BY DEF Written
<1>5. Jumps(s \o b) \subseteq Labels(s \o b) \cup Exits(open1)
  BY <1>3, <1>4
<1>6. ASSUME f \in Handlers(p)
      PROVE  s \o b # << >> /\ (s \o b)[1].op = "push_psw"
  <2>1. s # << >> /\ s[1].op = "push_psw"
    BY <1>6 DEF Written
  <2>2. 1 \in 1 .. Len(s) /\ Len(s) \in Nat /\ Len(s) # 0
    BY <1>1, <2>1, EmptySeq, LenProperties
  <2>3. (s \o b)[1] = s[1] /\ Len(s \o b) = Len(s) + Len(b) /\ Len(b) \in Nat
    BY <1>1, <2>2, Concatenated
  <2>4. Len(s \o b) # 0
    BY <2>2, <2>3
  <2> QED BY <2>1, <2>3, <2>4, EmptySeq
<1> QED BY <1>2, <1>3, <1>5, <1>6 DEF Written

LEMMA BootInsn ==
  ASSUME NEW arg \in Nat, NEW op \in {"call", "label", "jmp"}
  PROVE  I(op, arg, FALSE) \in Insn /\ I(op, arg, FALSE).op = op /\ I(op, arg, FALSE).arg = arg
<1>1. op \in Op
  BY DEF Op
<1> QED BY <1>1, InsnType

LEMMA ThreeInsns ==
  ASSUME NEW x \in Insn, NEW y \in Insn, NEW z \in Insn
  PROVE  /\ <<x, y, z>> \in Seq(Insn) /\ Len(<<x, y, z>>) = 3
         /\ <<x, y, z>>[1] = x /\ <<x, y, z>>[2] = y /\ <<x, y, z>>[3] = z
  OBVIOUS

LEMMA BootComplete ==
  ASSUME NEW p \in Programs, NEW s,
         s = <<I("call", p.main, FALSE), I("label", 0, FALSE), I("jmp", 0, FALSE)>>
  PROVE  Complete(p, Boot, s) /\ s \in Seq(Insn) /\ Len(s) = 3
<1> DEFINE x == I("call", p.main, FALSE)
           y == I("label", 0, FALSE)
           z == I("jmp", 0, FALSE)
<1>1. p.main \in Nat /\ p.main \in Func \ Handlers(p)
  <2>1. p.main \notin Handlers(p)
    BY ProgramsAssumption, Zenon
  <2> QED BY <2>1, ProgramParts DEF Func
<1>2. x \in Insn /\ x.op = "call" /\ x.arg = p.main
  BY <1>1, BootInsn
<1>3. y \in Insn /\ y.op = "label" /\ y.arg = 0
  BY BootInsn
<1>4. z \in Insn /\ z.op = "jmp" /\ z.arg = 0
  BY BootInsn
<1>5. s = <<x, y, z>>
  OBVIOUS
<1> HIDE DEF x, y, z
<1>6. s \in Seq(Insn) /\ Len(s) = 3 /\ s[1] = x /\ s[2] = y /\ s[3] = z
  <2>1. x \in Insn /\ y \in Insn /\ z \in Insn
    BY <1>2, <1>3, <1>4
  <2> HIDE DEF x, y, z
  <2>2. /\ <<x, y, z>> \in Seq(Insn) /\ Len(<<x, y, z>>) = 3
        /\ <<x, y, z>>[1] = x /\ <<x, y, z>>[2] = y /\ <<x, y, z>>[3] = z
    BY <2>1, ThreeInsns, Zenon
  <2> QED BY <1>5, <2>2, Zenon
<1>7. Starts(p, Boot) = {}
  BY DEF Starts
<1>8. Fits(p, Boot, x) /\ Fits(p, Boot, y) /\ Fits(p, Boot, z)
  BY <1>1, <1>2, <1>3, <1>4, <1>7 DEF Fits, Alone
<1>9. 1 .. 3 = {1, 2, 3}
  OBVIOUS
<1>10. Shaped(p, Boot, s)
  <2>1. \A i \in 1 .. Len(s) : Fits(p, Boot, s[i])
    BY <1>6, <1>8, <1>9
  <2> QED BY <1>6, <2>1, FitsShaped
<1>11. Insns(s) = {x, y, z}
  BY <1>6, <1>9 DEF Insns
<1>12. Labels(s) = {0} /\ Jumps(s) = {0}
  BY <1>2, <1>3, <1>4, <1>11 DEF Labels, Jumps, Goto
<1>13. Boot \notin Handlers(p)
  BY ProgramParts
<1> QED BY <1>4, <1>6, <1>10, <1>12, <1>13, EmptySeq DEF Complete, Leaves

LEMMA CompiledInit == ASSUME Init PROVE Compiled
<1>1. prog \in Programs
  BY DEF Init
<1>2. Boot \notin Func /\ N \in Nat /\ Func # {} /\ N > 0 /\ Boot = N
  BY <1>1, ProgramParts DEF Func, Boot
<1>3. code[Boot] = <<I("call", prog.main, FALSE), I("label", 0, FALSE), I("jmp", 0, FALSE)>>
  BY DEF Init
<1>4. \A f \in Func : code[f] = << >>
  BY <1>2 DEF Init
<1>5. Complete(prog, Boot, code[Boot]) /\ code[Boot] \in Seq(Insn)
  BY <1>1, <1>3, BootComplete
<1>6. << >> \in Seq(Insn) /\ << >> \in Seq(Nat)
  BY EmptySeq
<1>7. code \in [Func \cup {Boot} -> Seq(Insn)]
  <2>1. code = [f \in Func \cup {Boot} |-> code[f]]
    BY DEF Init
  <2> QED BY <1>4, <1>5, <1>6, <2>1
<1>8. Idle
  BY DEF Init, Idle
<1>9. 0 \in Func
  BY <1>2 DEF Func
<1>10. phase = "build" /\ fn = 0 /\ pos = 0 /\ crit = << >> /\ loops = << >>
  BY DEF Init
<1>11. \A f \in Func : ~(f < 0)
  BY <1>2 DEF Func
<1>12. DOMAIN code = Func \cup {Boot}
  BY <1>7
<1> QED BY <1>1, <1>2, <1>3, <1>4, <1>5, <1>6, <1>7, <1>8, <1>9, <1>10, <1>11, <1>12 DEF Compiled, Booted

\* The token that a step of the compiler reads.
LEMMA TokenAt ==
  ASSUME Compiled, NEW k, Takes(k)
  PROVE  /\ phase = "build" /\ fn \in Func /\ pos \in 1 .. Len(prog.body[fn])
         /\ prog.body[fn][pos].kind = k /\ prog.body[fn][pos].arg \in Nat /\ pos > 0 /\ pos \in Nat
         /\ pos' = pos + 1 /\ prog' = prog /\ phase' = phase /\ fn' = fn /\ cpuVars' = cpuVars
         /\ Walking(prog, fn, pos) /\ prog \in Programs /\ In \in BOOLEAN /\ Arg \in Nat
<1>1. /\ phase = "build" /\ fn \in Func /\ pos \in Positions(prog, fn, k)
      /\ pos' = pos + 1 /\ prog' = prog /\ phase' = phase /\ fn' = fn /\ cpuVars' = cpuVars
  BY DEF Takes
<1>2. prog \in Programs /\ pos \in Nat
  BY DEF Compiled
<1>3. pos \in 1 .. Len(prog.body[fn]) /\ prog.body[fn][pos].kind = k
  BY <1>1 DEF Positions
<1>4. prog.body[fn][pos].arg \in Nat
  BY <1>1, <1>2, <1>3, TokenParts
<1>5. pos > 0
  BY <1>2, <1>3, ProgramParts
<1>6. Walking(prog, fn, pos)
  BY <1>1, <1>5 DEF Compiled
<1>7. In \in BOOLEAN
  BY DEF In, Inside
<1> QED BY <1>1, <1>2, <1>3, <1>4, <1>5, <1>6, <1>7 DEF Arg

LEMMA IdleStays ==
  ASSUME Idle, cpuVars' = cpuVars
  PROVE  Idle'
  BY DEF Idle, cpuVars

LEMMA Emitted ==
  ASSUME Compiled, NEW b \in Seq(Insn), Emit(b), fn \in Func
  PROVE  /\ code' \in [Func \cup {Boot} -> Seq(Insn)] /\ DOMAIN code' = Func \cup {Boot}
         /\ code'[fn] = code[fn] \o b /\ code[fn] \in Seq(Insn)
         /\ \A f \in Func \cup {Boot} : f # fn => code'[f] = code[f]
         /\ code'[Boot] = code[Boot] /\ fn # Boot
<1>1. code \in [Func \cup {Boot} -> Seq(Insn)] /\ prog \in Programs
  BY DEF Compiled
<1>2. code' = [code EXCEPT ![fn] = code[fn] \o b]
  BY DEF Emit
<1>3. code[fn] \in Seq(Insn) /\ code[fn] \o b \in Seq(Insn)
  BY <1>1, Concatenated
<1>4. fn # Boot
  BY <1>1, ProgramParts
<1> HIDE DEF Compiled
<1> QED BY <1>1, <1>2, <1>3, <1>4

\* A step that compiles a token.
LEMMA TokenStep ==
  ASSUME Compiled, NEW k, Takes(k), NEW b \in Seq(Insn), Emit(b),
         crit' \in Seq(Nat), loops' \in Seq(Nat),
         Len(crit') - Len(crit) = (IF k = "open" THEN 1 ELSE IF k = "close" THEN -1 ELSE 0),
         Len(loops') - Len(loops) = (IF k = "while" THEN 1 ELSE IF k = "end" THEN -1 ELSE 0),
         \A j \in 1 .. Len(loops') : loops'[j] \in Positions(prog, fn, "while"),
         Written(prog, fn, code[fn] \o b, loops')
  PROVE  Compiled'
<1>1. /\ phase = "build" /\ fn \in Func /\ pos \in 1 .. Len(prog.body[fn])
      /\ prog.body[fn][pos].kind = k /\ pos \in Nat
      /\ pos' = pos + 1 /\ prog' = prog /\ phase' = phase /\ fn' = fn /\ cpuVars' = cpuVars
      /\ Walking(prog, fn, pos) /\ prog \in Programs
  BY TokenAt
<1>2. /\ code' \in [Func \cup {Boot} -> Seq(Insn)] /\ DOMAIN code' = Func \cup {Boot}
      /\ code'[fn] = code[fn] \o b
      /\ \A f \in Func \cup {Boot} : f # fn => code'[f] = code[f]
      /\ code'[Boot] = code[Boot]
  BY <1>1, Emitted
<1>3. \A f \in Func : f < fn => f # fn
  <2>1. fn \in Nat /\ Func \subseteq Nat
    BY <1>1, ProgramParts DEF Func
  <2> QED BY <2>1
<1>4. \A f \in Func : f > fn => f # fn
  <2>1. fn \in Nat /\ Func \subseteq Nat
    BY <1>1, ProgramParts DEF Func
  <2> QED BY <2>1
<1>5. Idle'
  BY <1>1, IdleStays DEF Compiled
<1>6. /\ Nesting(prog, fn, pos + 1, "open", "close") - Nesting(prog, fn, pos, "open", "close")
           = (IF k = "open" THEN 1 ELSE IF k = "close" THEN -1 ELSE 0)
      /\ Nesting(prog, fn, pos + 1, "while", "end") - Nesting(prog, fn, pos, "while", "end")
           = (IF k = "while" THEN 1 ELSE IF k = "end" THEN -1 ELSE 0)
      /\ Nesting(prog, fn, pos, "open", "close") \in Int
      /\ Nesting(prog, fn, pos + 1, "open", "close") \in Int
      /\ Nesting(prog, fn, pos, "while", "end") \in Int
      /\ Nesting(prog, fn, pos + 1, "while", "end") \in Int
    <2>1. pos \in Nat /\ pos + 1 \in Nat
      BY <1>1
    <2>2. /\ Nesting(prog, fn, pos, "open", "close") \in Int
          /\ Nesting(prog, fn, pos + 1, "open", "close") \in Int
          /\ Nesting(prog, fn, pos, "while", "end") \in Int
          /\ Nesting(prog, fn, pos + 1, "while", "end") \in Int
      BY <1>1, <2>1, NestingType
    <2>3. prog \in Programs /\ fn \in Func /\ pos \in 1 .. Len(prog.body[fn]) /\ prog.body[fn][pos].kind = k
      BY <1>1
    <2>4. /\ Nesting(prog, fn, pos + 1, "open", "close") - Nesting(prog, fn, pos, "open", "close")
               = (IF k = "open" THEN 1 ELSE IF k = "close" THEN -1 ELSE 0)
          /\ Nesting(prog, fn, pos + 1, "while", "end") - Nesting(prog, fn, pos, "while", "end")
               = (IF k = "while" THEN 1 ELSE IF k = "end" THEN -1 ELSE 0)
      BY <2>3, NestingDifference
    <2> QED BY <2>2, <2>4
<1>7. /\ Len(crit) = Nesting(prog, fn, pos, "open", "close") + (IF fn \in prog.critical THEN 1 ELSE 0)
      /\ Len(loops) = Nesting(prog, fn, pos, "while", "end")
  BY <1>1 DEF Walking
<1>8. Len(crit) \in Nat /\ Len(crit') \in Nat /\ Len(loops) \in Nat /\ Len(loops') \in Nat
  BY LenProperties DEF Compiled
<1>9. /\ Len(crit') = Nesting(prog, fn, pos + 1, "open", "close") + (IF fn \in prog.critical THEN 1 ELSE 0)
      /\ Len(loops') = Nesting(prog, fn, pos + 1, "while", "end")
  BY <1>6, <1>7, <1>8
<1>10. pos + 1 \in 1 .. Len(prog.body[fn]) + 1
  BY <1>1, ProgramParts
<1>11. Walking(prog, fn, pos)'
  BY <1>1, <1>2, <1>9, <1>10 DEF Walking
<1>12. /\ fn' \in 0 .. N /\ pos' \in Nat /\ fn' < N /\ pos' # 0 /\ phase' \in {"build", "run"}
  BY <1>1, ProgramParts DEF Func
<1>13. \A f \in Func : f < fn => Complete(prog, f, code'[f])
  BY <1>2, <1>3 DEF Compiled
<1>14. \A f \in Func : f > fn => code'[f] = << >>
  BY <1>2, <1>4 DEF Compiled
<1>15. Complete(prog, Boot, code'[Boot]) /\ Booted'
  BY <1>1, <1>2 DEF Compiled, Booted
<1>16. phase' = "build"
  BY <1>1
<1> QED BY <1>1, <1>2, <1>5, <1>11, <1>12, <1>13, <1>14, <1>15, <1>16 DEF Compiled

\* What is known when a token is compiled.
LEMMA TokenFacts ==
  ASSUME Compiled, NEW k, Takes(k)
  PROVE  /\ crit \in Seq(Nat) /\ loops \in Seq(Nat) /\ Len(crit) \in Nat /\ Len(loops) \in Nat
         /\ Written(prog, fn, code[fn], loops) /\ Shaped(prog, fn, code[fn]) /\ code[fn] \in Seq(Insn)
         /\ \A j \in 1 .. Len(loops) : loops[j] \in Positions(prog, fn, "while")
         /\ k = "close" => Len(crit) > 0
         /\ k \in {"end", "break", "continue"} => Len(loops) > 0
<1>1. /\ fn \in Func /\ pos \in 1 .. Len(prog.body[fn]) /\ prog.body[fn][pos].kind = k
      /\ pos \in Nat /\ Walking(prog, fn, pos) /\ prog \in Programs
  BY TokenAt
<1>2. crit \in Seq(Nat) /\ loops \in Seq(Nat) /\ Len(crit) \in Nat /\ Len(loops) \in Nat
  BY LenProperties DEF Compiled
<1>3. Written(prog, fn, code[fn], loops) /\ Shaped(prog, fn, code[fn]) /\ code[fn] \in Seq(Insn)
  BY <1>1 DEF Walking, Written, Shaped
<1>4. \A j \in 1 .. Len(loops) : loops[j] \in Positions(prog, fn, "while")
  BY <1>1 DEF Walking
<1>5. /\ Len(crit) = Nesting(prog, fn, pos, "open", "close") + (IF fn \in prog.critical THEN 1 ELSE 0)
      /\ Len(loops) = Nesting(prog, fn, pos, "while", "end")
  BY <1>1 DEF Walking
<1>6. /\ Nesting(prog, fn, pos + 1, "open", "close") >= 0
      /\ Nesting(prog, fn, pos + 1, "while", "end") >= 0
      /\ k \in {"break", "continue"} => Nesting(prog, fn, pos, "while", "end") > 0
  BY <1>1, BracketsLeft
<1>7. /\ Nesting(prog, fn, pos + 1, "open", "close") - Nesting(prog, fn, pos, "open", "close")
           = (IF k = "open" THEN 1 ELSE IF k = "close" THEN -1 ELSE 0)
      /\ Nesting(prog, fn, pos + 1, "while", "end") - Nesting(prog, fn, pos, "while", "end")
           = (IF k = "while" THEN 1 ELSE IF k = "end" THEN -1 ELSE 0)
  BY <1>1, NestingDifference
<1>8. /\ Nesting(prog, fn, pos, "open", "close") \in Int /\ Nesting(prog, fn, pos + 1, "open", "close") \in Int
      /\ Nesting(prog, fn, pos, "while", "end") \in Int /\ Nesting(prog, fn, pos + 1, "while", "end") \in Int
  <2>1. pos \in Nat /\ pos + 1 \in Nat
    BY <1>1
  <2> QED BY <1>1, <2>1, NestingType
<1>9. k = "close" => Len(crit) > 0
  BY <1>2, <1>5, <1>6, <1>7, <1>8
<1>10. k \in {"end", "break", "continue"} => Len(loops) > 0
  BY <1>2, <1>5, <1>6, <1>7, <1>8
<1> QED BY <1>2, <1>3, <1>4, <1>9, <1>10

\* A sequence without its last element.
LEMMA Shorter ==
  ASSUME NEW S, NEW s \in Seq(S), Len(s) > 0
  PROVE  LET t == SubSeq(s, 1, Len(s) - 1)
         IN t \in Seq(S) /\ Len(t) = Len(s) - 1 /\ \A j \in 1 .. Len(s) - 1 : t[j] = s[j]
<1>1. Len(s) \in Nat
  BY LenProperties
<1>2. PICK n : n = Len(s) - 1
  OBVIOUS
<1>3. n \in Nat /\ 1 \in Int /\ n \in Int
  BY <1>1, <1>2
<1>4. \A i \in 1 .. n : s[i] \in S
  <2>1. \A i \in 1 .. n : i \in 1 .. Len(s)
    BY <1>1, <1>2
  <2> QED BY <2>1, ElementOfSeq
<1>5. PICK t : t = SubSeq(s, 1, n)
  OBVIOUS
<1>6. t \in Seq(S) /\ Len(t) = (IF n < 1 THEN 0 ELSE n - 1 + 1) /\ \A i \in 1 .. n - 1 + 1 : t[i] = s[1 + i - 1]
  BY <1>3, <1>4, <1>5, SubSeqProperties
<1>7. Len(t) = n /\ \A i \in 1 .. n : t[i] = s[i]
  BY <1>3, <1>6
<1> QED BY <1>2, <1>5, <1>6, <1>7

LEMMA OpenStep == ASSUME Compiled, BuildOpen PROVE Compiled'
<1>1. Takes("open") /\ Emit(CritEnter(pos)) /\ crit' = Append(crit, pos) /\ loops' = loops
  BY DEF BuildOpen
<1>2. /\ fn \in Func /\ pos \in 1 .. Len(prog.body[fn]) /\ prog.body[fn][pos].kind = "open"
      /\ pos \in Nat /\ prog \in Programs
  BY <1>1, TokenAt
<1>3. /\ crit \in Seq(Nat) /\ loops \in Seq(Nat) /\ Len(crit) \in Nat /\ Len(loops) \in Nat
      /\ Written(prog, fn, code[fn], loops)
      /\ \A j \in 1 .. Len(loops) : loops[j] \in Positions(prog, fn, "while")
  BY <1>1, TokenFacts
<1>4. PICK b : b = CritEnter(pos)
  OBVIOUS
<1>5. Entering(b, pos)
  BY <1>2, <1>4, EnterInsns
<1>6. pos \in Positions(prog, fn, "open") \cup {0}
  BY <1>2 DEF Positions
<1>7. /\ Shaped(prog, fn, b) /\ Pushless(b) /\ b \in Seq(Insn)
      /\ Labels(b) = {AfterEa(pos)} /\ Jumps(b) = {AfterEa(pos)}
  BY <1>2, <1>5, <1>6, EnterBlock
<1>8. Tests(loops) \subseteq Labels(code[fn])
  BY <1>3 DEF Written
<1>9. Written(prog, fn, code[fn] \o b, loops)
  BY <1>3, <1>7, <1>8, Grown
<1>10. crit' \in Seq(Nat) /\ Len(crit') - Len(crit) = 1
  BY <1>1, <1>2, <1>3
<1>11. loops' \in Seq(Nat) /\ Len(loops') - Len(loops) = 0
  BY <1>1, <1>3
<1>12. /\ Len(crit') - Len(crit) = (IF "open" = "open" THEN 1 ELSE IF "open" = "close" THEN -1 ELSE 0)
       /\ Len(loops') - Len(loops) = (IF "open" = "while" THEN 1 ELSE IF "open" = "end" THEN -1 ELSE 0)
  BY <1>10, <1>11
<1> QED BY <1>1, <1>3, <1>4, <1>7, <1>9, <1>10, <1>11, <1>12, TokenStep

LEMMA CloseStep == ASSUME Compiled, BuildClose PROVE Compiled'
<1>1. /\ Takes("close") /\ Emit(CritExit(crit[Len(crit)])) /\ crit' = SubSeq(crit, 1, Len(crit) - 1)
      /\ loops' = loops
  BY DEF BuildClose
<1>2. fn \in Func /\ prog \in Programs
  BY <1>1, TokenAt
<1>3. /\ crit \in Seq(Nat) /\ loops \in Seq(Nat) /\ Len(crit) \in Nat /\ Len(loops) \in Nat
      /\ Written(prog, fn, code[fn], loops) /\ Len(crit) > 0
      /\ \A j \in 1 .. Len(loops) : loops[j] \in Positions(prog, fn, "while")
  BY <1>1, TokenFacts
<1>4. crit[Len(crit)] \in Nat
  BY <1>3, ElementOfSeq
<1>5. PICK b : b = CritExit(crit[Len(crit)])
  OBVIOUS
<1>6. /\ Shaped(prog, fn, b) /\ Pushless(b) /\ b \in Seq(Insn) /\ Labels(b) = {} /\ Jumps(b) = {}
  BY <1>2, <1>4, <1>5, CloseBlock
<1>7. Tests(loops) \subseteq Labels(code[fn])
  BY <1>3 DEF Written
<1>8. Written(prog, fn, code[fn] \o b, loops)
  BY <1>3, <1>6, <1>7, Grown
<1>9. crit' \in Seq(Nat) /\ Len(crit') - Len(crit) = -1
  <2>1. crit' \in Seq(Nat) /\ Len(crit') = Len(crit) - 1
    BY <1>1, <1>3, Shorter
  <2> QED BY <1>3, <2>1
<1>10. loops' \in Seq(Nat) /\ Len(loops') - Len(loops) = 0
  BY <1>1, <1>3
<1>11. /\ Len(crit') - Len(crit) = (IF "close" = "open" THEN 1 ELSE IF "close" = "close" THEN -1 ELSE 0)
       /\ Len(loops') - Len(loops) = (IF "close" = "while" THEN 1 ELSE IF "close" = "end" THEN -1 ELSE 0)
  BY <1>9, <1>10
<1> QED BY <1>1, <1>3, <1>5, <1>6, <1>8, <1>9, <1>10, <1>11, TokenStep

LEMMA WhileStep == ASSUME Compiled, BuildWhile PROVE Compiled'
<1> DEFINE x == I("label", TestLabel(pos), In)
           y == I("branch", ExitLabel(pos), In)
<1>1. Takes("while") /\ Emit(<<x, y>>) /\ loops' = Append(loops, pos) /\ crit' = crit
  BY DEF BuildWhile
<1>2. /\ fn \in Func /\ pos \in 1 .. Len(prog.body[fn]) /\ prog.body[fn][pos].kind = "while"
      /\ pos \in Nat /\ prog \in Programs /\ In \in BOOLEAN
  BY <1>1, TokenAt
<1>3. /\ crit \in Seq(Nat) /\ loops \in Seq(Nat) /\ Len(crit) \in Nat /\ Len(loops) \in Nat
      /\ Written(prog, fn, code[fn], loops)
      /\ \A j \in 1 .. Len(loops) : loops[j] \in Positions(prog, fn, "while")
  BY <1>1, TokenFacts
<1>4. pos \in Positions(prog, fn, "while")
  BY <1>2 DEF Positions
<1>5. TestLabel(pos) \in Nat \ Starts(prog, fn) /\ ExitLabel(pos) \in Nat \ Starts(prog, fn)
  BY <1>2, <1>4, LabelsApart
<1>6. {"label", "branch"} \subseteq Op
  BY DEF Op
<1>7. x \in Insn /\ x.op = "label" /\ x.arg = TestLabel(pos)
  BY <1>2, <1>5, <1>6, InsnType
<1>8. y \in Insn /\ y.op = "branch" /\ y.arg = ExitLabel(pos)
  BY <1>2, <1>5, <1>6, InsnType
<1> HIDE DEF x, y
<1>9. Fits(prog, fn, x) /\ Fits(prog, fn, y)
  BY <1>5, <1>7, <1>8 DEF Fits, Alone
<1>10. PICK b : b = <<x, y>>
  OBVIOUS
<1>11. /\ Shaped(prog, fn, b) /\ Pushless(b) /\ b \in Seq(Insn)
       /\ Labels(b) = {z.arg : z \in {w \in {x, y} : w.op = "label"}}
       /\ Jumps(b) = {z.arg : z \in {w \in {x, y} : w.op \in Goto}}
  BY <1>9, <1>10, TwoFit
<1>12. Labels(b) = {TestLabel(pos)} /\ Jumps(b) = {ExitLabel(pos)}
  BY <1>7, <1>8, <1>11 DEF Goto
<1>13. PICK open : open = Append(loops, pos)
  OBVIOUS
<1>14. /\ open \in Seq(Nat) /\ Len(open) = Len(loops) + 1 /\ open[Len(open)] = pos
       /\ \A j \in 1 .. Len(loops) : open[j] = loops[j]
  BY <1>2, <1>3, <1>13
<1>15. \A j \in 1 .. Len(open) : j \in 1 .. Len(loops) \/ j = Len(open)
  BY <1>3, <1>14
<1>16. 1 .. Len(loops) \subseteq 1 .. Len(open) /\ Len(open) \in 1 .. Len(open)
  BY <1>3, <1>14
<1>17. \A j \in 1 .. Len(open) : open[j] \in Positions(prog, fn, "while")
  BY <1>3, <1>4, <1>14, <1>15
<1>18. Exits(loops) \subseteq Exits(open) /\ ExitLabel(pos) \in Exits(open)
  BY <1>14, <1>16 DEF Exits
<1>19. Tests(open) \subseteq Tests(loops) \cup {TestLabel(pos)}
  BY <1>14, <1>15 DEF Tests
<1>20. Tests(loops) \subseteq Labels(code[fn])
  BY <1>3 DEF Written
<1>21. Written(prog, fn, code[fn] \o b, open)
  BY <1>3, <1>11, <1>12, <1>18, <1>19, <1>20, Grown
<1>22. loops' \in Seq(Nat) /\ Len(loops') - Len(loops) = 1 /\ loops' = open
  BY <1>1, <1>3, <1>13, <1>14
<1>23. crit' \in Seq(Nat) /\ Len(crit') - Len(crit) = 0
  BY <1>1, <1>3
<1>24. /\ Len(crit') - Len(crit) = (IF "while" = "open" THEN 1 ELSE IF "while" = "close" THEN -1 ELSE 0)
       /\ Len(loops') - Len(loops) = (IF "while" = "while" THEN 1 ELSE IF "while" = "end" THEN -1 ELSE 0)
  BY <1>22, <1>23
<1>25. /\ \A j \in 1 .. Len(loops') : loops'[j] \in Positions(prog, fn, "while")
       /\ Written(prog, fn, code[fn] \o b, loops')
  BY <1>17, <1>21, <1>22
<1>26. Emit(b)
  BY <1>1, <1>10
<1> QED BY <1>1, <1>11, <1>22, <1>23, <1>24, <1>25, <1>26, TokenStep

LEMMA EndStep == ASSUME Compiled, BuildEnd PROVE Compiled'
<1> DEFINE n == Len(loops)
           l == loops[n]
           x == I("jmp", TestLabel(l), In)
           y == I("label", ExitLabel(l), In)
<1>1. Takes("end") /\ Emit(<<x, y>>) /\ loops' = SubSeq(loops, 1, n - 1) /\ crit' = crit
  BY DEF BuildEnd
<1>2. fn \in Func /\ prog \in Programs /\ In \in BOOLEAN
  BY <1>1, TokenAt
<1>3. /\ crit \in Seq(Nat) /\ loops \in Seq(Nat) /\ Len(crit) \in Nat /\ n \in Nat
      /\ Written(prog, fn, code[fn], loops) /\ n > 0
      /\ \A j \in 1 .. n : loops[j] \in Positions(prog, fn, "while")
  BY <1>1, TokenFacts
<1>4. l \in Positions(prog, fn, "while")
  BY <1>3
<1> HIDE DEF l
<1>5. TestLabel(l) \in Nat \ Starts(prog, fn) /\ ExitLabel(l) \in Nat \ Starts(prog, fn)
  BY <1>2, <1>4, LabelsApart
<1>6. {"label", "jmp"} \subseteq Op
  BY DEF Op
<1>7. x \in Insn /\ x.op = "jmp" /\ x.arg = TestLabel(l)
  BY <1>2, <1>5, <1>6, InsnType
<1>8. y \in Insn /\ y.op = "label" /\ y.arg = ExitLabel(l)
  BY <1>2, <1>5, <1>6, InsnType
<1> HIDE DEF x, y
<1>9. Fits(prog, fn, x) /\ Fits(prog, fn, y)
  BY <1>5, <1>7, <1>8 DEF Fits, Alone
<1>10. PICK b : b = <<x, y>>
  OBVIOUS
<1>11. /\ Shaped(prog, fn, b) /\ Pushless(b) /\ b \in Seq(Insn)
       /\ Labels(b) = {z.arg : z \in {w \in {x, y} : w.op = "label"}}
       /\ Jumps(b) = {z.arg : z \in {w \in {x, y} : w.op \in Goto}}
  BY <1>9, <1>10, TwoFit
<1>12. Labels(b) = {ExitLabel(l)} /\ Jumps(b) = {TestLabel(l)}
  BY <1>7, <1>8, <1>11 DEF Goto
<1>13. PICK open : open = SubSeq(loops, 1, n - 1)
  OBVIOUS
<1>14. open \in Seq(Nat) /\ Len(open) = n - 1 /\ \A j \in 1 .. n - 1 : open[j] = loops[j]
  BY <1>3, <1>13, Shorter
<1>15. \A j \in 1 .. n : j \in 1 .. Len(open) \/ j = n
  BY <1>3, <1>14
<1>16. 1 .. Len(open) \subseteq 1 .. n /\ n \in 1 .. n
  BY <1>3, <1>14
<1>17. \A j \in 1 .. Len(open) : open[j] = loops[j] /\ open[j] \in Positions(prog, fn, "while")
  BY <1>3, <1>14, <1>16
<1>18. Exits(loops) \subseteq Exits(open) \cup {ExitLabel(l)}
  BY <1>15, <1>17 DEF Exits, l
<1>19. Tests(open) \subseteq Tests(loops) /\ TestLabel(l) \in Tests(loops)
  BY <1>16, <1>17 DEF Tests, l
<1>20. Tests(loops) \subseteq Labels(code[fn])
  BY <1>3 DEF Written
<1>21. Written(prog, fn, code[fn] \o b, open)
  BY <1>3, <1>11, <1>12, <1>18, <1>19, <1>20, Grown
<1>22. loops' \in Seq(Nat) /\ Len(loops') - Len(loops) = -1 /\ loops' = open
  BY <1>1, <1>3, <1>13, <1>14
<1>23. crit' \in Seq(Nat) /\ Len(crit') - Len(crit) = 0
  BY <1>1, <1>3
<1>24. /\ Len(crit') - Len(crit) = (IF "end" = "open" THEN 1 ELSE IF "end" = "close" THEN -1 ELSE 0)
       /\ Len(loops') - Len(loops) = (IF "end" = "while" THEN 1 ELSE IF "end" = "end" THEN -1 ELSE 0)
  BY <1>22, <1>23
<1>25. /\ \A j \in 1 .. Len(loops') : loops'[j] \in Positions(prog, fn, "while")
       /\ Written(prog, fn, code[fn] \o b, loops')
  BY <1>17, <1>21, <1>22
<1>26. Emit(b)
  BY <1>1, <1>10
<1> QED BY <1>1, <1>11, <1>22, <1>23, <1>24, <1>25, <1>26, TokenStep

\* A token that is no bracket.
LEMMA PlainStep ==
  ASSUME Compiled, NEW k, Takes(k), k \notin {"open", "close", "while", "end"},
         NEW b \in Seq(Insn), Emit(b), Shaped(prog, fn, b), Pushless(b),
         Jumps(b) \subseteq Labels(code[fn]) \cup Exits(loops), UNCHANGED <<crit, loops>>
  PROVE  Compiled'
<1>1. /\ crit \in Seq(Nat) /\ loops \in Seq(Nat) /\ Len(crit) \in Nat /\ Len(loops) \in Nat
      /\ Written(prog, fn, code[fn], loops)
      /\ \A j \in 1 .. Len(loops) : loops[j] \in Positions(prog, fn, "while")
  BY TokenFacts
<1>2. Tests(loops) \subseteq Labels(code[fn])
  BY <1>1 DEF Written
<1>3. Written(prog, fn, code[fn] \o b, loops)
  BY <1>1, <1>2, Grown
<1>4. crit' = crit /\ loops' = loops
  OBVIOUS
<1>5. Len(crit) - Len(crit) = 0 /\ Len(loops) - Len(loops) = 0
  BY <1>1
<1>6. /\ Len(crit') - Len(crit) = (IF k = "open" THEN 1 ELSE IF k = "close" THEN -1 ELSE 0)
      /\ Len(loops') - Len(loops) = (IF k = "while" THEN 1 ELSE IF k = "end" THEN -1 ELSE 0)
  BY <1>4, <1>5
<1>7. /\ crit' \in Seq(Nat) /\ loops' \in Seq(Nat) /\ Written(prog, fn, code[fn] \o b, loops')
      /\ \A j \in 1 .. Len(loops') : loops'[j] \in Positions(prog, fn, "while")
  BY <1>1, <1>3, <1>4
<1> QED BY <1>6, <1>7, TokenStep

LEMMA JumpStep == ASSUME Compiled, BuildJump PROVE Compiled'
<1> DEFINE l == loops[Len(loops)]
<1>1. PICK k, to : /\ k \in {"break", "continue"} /\ Takes(k) /\ Emit(<<I("jmp", to, In)>>)
                   /\ to = ExitLabel(l) \/ to = TestLabel(l)
                   /\ UNCHANGED <<crit, loops>>
  BY DEF BuildJump
<1>2. fn \in Func /\ prog \in Programs /\ In \in BOOLEAN
  BY <1>1, TokenAt
<1>3. /\ Len(loops) \in Nat /\ Len(loops) > 0 /\ Written(prog, fn, code[fn], loops)
      /\ \A j \in 1 .. Len(loops) : loops[j] \in Positions(prog, fn, "while")
  BY <1>1, TokenFacts
<1>4. Len(loops) \in 1 .. Len(loops) /\ l \in Positions(prog, fn, "while")
  BY <1>3
<1>5. TestLabel(l) \in Tests(loops) /\ ExitLabel(l) \in Exits(loops)
  BY <1>4 DEF Tests, Exits
<1> HIDE DEF l
<1>6. to \in Nat \ Starts(prog, fn)
  BY <1>1, <1>2, <1>4, LabelsApart
<1>7. to \in Labels(code[fn]) \cup Exits(loops)
  BY <1>1, <1>3, <1>5 DEF Written
<1>8. "jmp" \in Op
  BY DEF Op
<1>9. PICK x : x = I("jmp", to, In)
  OBVIOUS
<1>10. x \in Insn /\ x.op = "jmp" /\ x.arg = to
  BY <1>2, <1>6, <1>8, <1>9, InsnType
<1>11. Fits(prog, fn, x)
  BY <1>6, <1>10 DEF Fits, Alone
<1>12. PICK b : b = <<x>>
  OBVIOUS
<1>13. /\ Shaped(prog, fn, b) /\ Pushless(b) /\ b \in Seq(Insn)
       /\ Jumps(b) = (IF x.op \in Goto THEN {x.arg} ELSE {})
  BY <1>11, <1>12, OneFits
<1>14. Jumps(b) \subseteq Labels(code[fn]) \cup Exits(loops)
  BY <1>7, <1>10, <1>13
<1>15. Emit(b) /\ k \notin {"open", "close", "while", "end"}
  BY <1>1, <1>9, <1>12
<1> QED BY <1>1, <1>13, <1>14, <1>15, PlainStep

LEMMA StatementStep == ASSUME Compiled, BuildStatement PROVE Compiled'
<1>1. PICK k \in {"call", "on", "off", "send", "ack", "work"} :
        Takes(k) /\ Emit(<<I(StatementOp(k), Arg, In)>>) /\ UNCHANGED <<crit, loops>>
  BY DEF BuildStatement
<1>2. /\ fn \in Func /\ prog \in Programs /\ In \in BOOLEAN /\ Arg \in Nat
      /\ pos \in 1 .. Len(prog.body[fn]) /\ prog.body[fn][pos].kind = k
  BY <1>1, TokenAt
<1>3. /\ StatementOp(k) \in Op /\ StatementOp(k) \in Alone
      /\ StatementOp(k) \notin {"label", "jmp", "branch", "ret"} /\ StatementOp(k) \notin Goto
      /\ StatementOp(k) = "call" => k = "call"
  BY DEF StatementOp, Op, Alone, Goto
<1>4. k = "call" => Arg \in Func \ Handlers(prog) /\ Arg > fn
  <2>1. k = "call" => pos \in Positions(prog, fn, "call")
    BY <1>2 DEF Positions
  <2>2. \A i \in Positions(prog, fn, "call") :
          LET g == prog.body[fn][i].arg
          IN g \in Func /\ g > fn /\ g # prog.main /\ g \notin Handlers(prog)
    BY <1>2, ProgramsAssumption, Zenon
  <2> QED BY <2>1, <2>2 DEF Arg
<1>5. PICK x : x = I(StatementOp(k), Arg, In)
  OBVIOUS
<1>6. x \in Insn /\ x.op = StatementOp(k) /\ x.arg = Arg
  BY <1>2, <1>3, <1>5, InsnType
<1>7. Fits(prog, fn, x)
  BY <1>3, <1>4, <1>6 DEF Fits
<1>8. PICK b : b = <<x>>
  OBVIOUS
<1>9. /\ Shaped(prog, fn, b) /\ Pushless(b) /\ b \in Seq(Insn)
      /\ Jumps(b) = (IF x.op \in Goto THEN {x.arg} ELSE {})
  BY <1>7, <1>8, OneFits
<1>10. Jumps(b) \subseteq Labels(code[fn]) \cup Exits(loops)
  BY <1>3, <1>6, <1>9
<1>11. Emit(b) /\ k \notin {"open", "close", "while", "end"}
  BY <1>1, <1>5, <1>8
<1> QED BY <1>1, <1>9, <1>10, <1>11, PlainStep

\* What a function ends with.
LEMMA WayOut ==
  ASSUME prog \in Programs, fn \in Func, crit \in Seq(Nat), NEW b, b = ExitAll(crit) \o Epilogue(fn)
  PROVE  /\ b \in Seq(Insn) /\ Shaped(prog, fn, b) /\ Pushless(b) /\ Labels(b) = {} /\ Jumps(b) = {}
         /\ Len(b) \in Nat /\ Len(b) > 0 /\ b[Len(b)].op \in Leaves
<1>1. PICK s : s = ExitAll(crit)
  OBVIOUS
<1>2. PICK e : e = Epilogue(fn)
  OBVIOUS
<1>3. s \in Seq(Insn)
  BY <1>1, ExitAllAt
<1>4. Shaped(prog, fn, s) /\ Pushless(s) /\ Labels(s) = {} /\ Jumps(s) = {}
  BY <1>1, ExitBlock
<1>5. /\ Shaped(prog, fn, e) /\ Pushless(e) /\ e \in Seq(Insn) /\ Len(e) \in 1 .. 2
      /\ e[Len(e)].op \in Leaves /\ Labels(e) = {} /\ Jumps(e) = {}
  BY <1>2, EpilogueBlock
<1>6. b = s \o e
  BY <1>1, <1>2
<1>7. Shaped(prog, fn, s \o e)
  BY <1>4, <1>5, Joined
<1>8. Labels(s \o e) = {} /\ Jumps(s \o e) = {}
  BY <1>3, <1>4, <1>5, JoinedNames
<1>9. /\ s \o e \in Seq(Insn) /\ Len(s \o e) = Len(s) + Len(e) /\ Len(s) \in Nat /\ Len(e) \in Nat
      /\ \A i \in 1 .. Len(s) : (s \o e)[i] = s[i]
      /\ \A i \in 1 .. Len(e) : (s \o e)[i + Len(s)] = e[i]
  BY <1>3, <1>5, Concatenated
<1>10. Len(b) \in Nat /\ Len(b) > 0 /\ Len(e) \in 1 .. Len(e) /\ Len(e) + Len(s) = Len(b)
  <2>1. Len(b) = Len(s) + Len(e)
    BY <1>6, <1>9
  <2>2. Len(s) \in Nat /\ Len(e) \in 1 .. 2
    BY <1>5, <1>9
  <2>3. \A n \in Nat : \A m \in 1 .. 2 :
          n + m \in Nat /\ n + m > 0 /\ m \in 1 .. m /\ m + n = n + m
    OBVIOUS
  <2>4. /\ Len(s) + Len(e) \in Nat /\ Len(s) + Len(e) > 0 /\ Len(e) \in 1 .. Len(e)
        /\ Len(e) + Len(s) = Len(s) + Len(e)
    BY <2>2, <2>3, Zenon
  <2> QED BY <2>1, <2>4, Zenon
<1>11. b[Len(b)].op \in Leaves
  BY <1>5, <1>6, <1>9, <1>10
<1>12. Pushless(b)
  <2>1. ASSUME NEW i \in 1 .. Len(b)
        PROVE  b[i].op # "push_psw"
    <3>1. CASE i <= Len(s)
      BY <1>4, <1>6, <1>9, <1>10, <3>1 DEF Pushless
    <3>2. CASE ~(i <= Len(s))
      <4>1. i - Len(s) \in 1 .. Len(e) /\ (i - Len(s)) + Len(s) = i
        BY <1>9, <1>10, <3>2
      <4> QED BY <1>5, <1>6, <1>9, <4>1 DEF Pushless
    <3> QED BY <3>1, <3>2
  <2> QED BY <2>1 DEF Pushless
<1> QED BY <1>6, <1>7, <1>8, <1>9, <1>10, <1>11, <1>12

LEMMA ReturnStep == ASSUME Compiled, BuildReturn PROVE Compiled'
<1>1. Takes("return") /\ Emit(ExitAll(crit) \o Epilogue(fn)) /\ UNCHANGED <<crit, loops>>
  BY DEF BuildReturn
<1>2. fn \in Func /\ prog \in Programs
  BY <1>1, TokenAt
<1>3. crit \in Seq(Nat)
  BY DEF Compiled
<1>4. PICK b : b = ExitAll(crit) \o Epilogue(fn)
  OBVIOUS
<1>5. b \in Seq(Insn) /\ Shaped(prog, fn, b) /\ Pushless(b) /\ Jumps(b) = {}
  BY <1>2, <1>3, <1>4, WayOut
<1>6. Emit(b) /\ "return" \notin {"open", "close", "while", "end"}
  BY <1>1, <1>4
<1>7. Jumps(b) \subseteq Labels(code[fn]) \cup Exits(loops)
  BY <1>5
<1> QED BY <1>1, <1>5, <1>6, <1>7, PlainStep

LEMMA EntryStep == ASSUME Compiled, BuildEntry PROVE Compiled'
<1> DEFINE x == I("push_psw", 0, FALSE)
           h == IF IsHandler(fn) THEN <<x>> ELSE << >>
           e == IF fn \in prog.critical THEN CritEnter(0) ELSE << >>
           open == IF fn \in prog.critical THEN <<0>> ELSE << >>
<1>1. /\ phase = "build" /\ fn \in Func /\ pos = 0 /\ Emit(h \o e) /\ crit' = open
      /\ loops' = << >> /\ pos' = 1
      /\ prog' = prog /\ phase' = phase /\ fn' = fn /\ cpuVars' = cpuVars
  BY DEF BuildEntry
<1>2. prog \in Programs /\ code[fn] = << >> /\ Idle
  BY <1>1 DEF Compiled
<1>3. /\ Shaped(prog, fn, e) /\ Pushless(e) /\ e \in Seq(Insn) /\ Jumps(e) \subseteq Labels(e)
  <2>1. CASE fn \in prog.critical
    <3>1. 0 \in Nat /\ 0 \in Positions(prog, fn, "open") \cup {0}
      OBVIOUS
    <3>2. PICK b : b = CritEnter(0)
      OBVIOUS
    <3>3. Entering(b, 0)
      BY <3>1, <3>2, EnterInsns
    <3>4. /\ Shaped(prog, fn, b) /\ Pushless(b) /\ b \in Seq(Insn)
          /\ Labels(b) = {AfterEa(0)} /\ Jumps(b) = {AfterEa(0)}
      BY <1>1, <1>2, <3>1, <3>3, EnterBlock
    <3> QED BY <2>1, <3>2, <3>4
  <2>2. CASE fn \notin prog.critical
    <3>1. << >> \in Seq(Insn)
      BY EmptySeq
    <3> QED BY <2>2, <3>1, NothingWritten
  <2> QED BY <2>1, <2>2
<1>4. x \in Insn /\ x.op = "push_psw"
  BY OutsideInsn
<1> HIDE DEF x, e
<1>5. /\ Shaped(prog, fn, h) /\ h \in Seq(Insn) /\ Jumps(h) = {}
      /\ fn \in Handlers(prog) => Len(h) = 1 /\ h[1].op = "push_psw"
  <2>1. CASE fn \in Handlers(prog)
    <3>1. PICK s : s = <<x>>
      OBVIOUS
    <3>2. s \in Seq(Insn) /\ Len(s) = 1 /\ s[1] = x /\ Insns(s) = {x}
      BY <1>4, <3>1, OneInsn
    <3>3. Linked(prog, fn, s, 1)
      BY <1>4, <2>1, <3>2 DEF Linked
    <3>4. 1 .. 1 = {1}
      OBVIOUS
    <3>5. Shaped(prog, fn, s)
      BY <3>2, <3>3, <3>4 DEF Shaped
    <3>6. Jumps(s) = {}
      BY <1>4, <3>2 DEF Jumps, Goto
    <3>7. h = s
      BY <2>1, <3>1 DEF IsHandler
    <3> HIDE DEF h
    <3> QED BY <1>4, <3>2, <3>5, <3>6, <3>7
  <2>2. CASE fn \notin Handlers(prog)
    <3>1. << >> \in Seq(Insn)
      BY EmptySeq
    <3> QED BY <2>2, <3>1, NothingWritten DEF IsHandler
  <2> QED BY <2>1, <2>2
<1> HIDE DEF h
<1>6. PICK b : b = h \o e
  OBVIOUS
<1>7. /\ b \in Seq(Insn) /\ Len(b) = Len(h) + Len(e) /\ Len(h) \in Nat /\ Len(e) \in Nat
      /\ \A i \in 1 .. Len(h) : b[i] = h[i]
  BY <1>3, <1>5, <1>6, Concatenated
<1>8. Shaped(prog, fn, b)
  BY <1>3, <1>5, <1>6, Joined
<1>9. Jumps(b) \subseteq Labels(b)
  <2>1. Labels(h \o e) = Labels(h) \cup Labels(e) /\ Jumps(h \o e) = Jumps(h) \cup Jumps(e)
    BY <1>3, <1>5, JoinedNames
  <2> QED BY <1>3, <1>5, <1>6, <2>1
<1>10. fn \in Handlers(prog) => b # << >> /\ b[1].op = "push_psw"
  <2>1. fn \in Handlers(prog) => Len(b) # 0 /\ 1 \in 1 .. Len(h)
    <3>1. \A n \in Nat : 1 + n # 0 /\ 1 \in 1 .. 1
      OBVIOUS
    <3>2. fn \in Handlers(prog) => Len(b) = 1 + Len(e) /\ Len(h) = 1
      BY <1>5, <1>7, Zenon
    <3> QED BY <1>7, <3>1, <3>2, Zenon
  <2> QED BY <1>5, <1>7, <2>1, EmptySeq
<1>11. Exits(<< >>) = {} /\ Tests(<< >>) = {}
  <2>1. 1 .. Len(<< >>) = {}
    OBVIOUS
  <2> QED BY <2>1 DEF Exits, Tests
<1>12. Written(prog, fn, b, << >>)
  BY <1>8, <1>9, <1>10, <1>11 DEF Written
<1>13. /\ code' \in [Func \cup {Boot} -> Seq(Insn)] /\ DOMAIN code' = Func \cup {Boot}
       /\ code'[fn] = code[fn] \o b
       /\ \A f \in Func \cup {Boot} : f # fn => code'[f] = code[f]
       /\ code'[Boot] = code[Boot]
  BY <1>1, <1>6, <1>7, Emitted
<1>14. code'[fn] = b
  BY <1>2, <1>7, <1>13, ConcatEmptySeq
<1>15. open \in Seq(Nat) /\ Len(open) = (IF fn \in prog.critical THEN 1 ELSE 0)
  OBVIOUS
<1>16. Nesting(prog, fn, 1, "open", "close") = 0 /\ Nesting(prog, fn, 1, "while", "end") = 0
  BY <1>1, <1>2, NestingStarts
<1>17. 1 \in 1 .. Len(prog.body[fn]) + 1
  BY <1>1, <1>2, ProgramParts
<1> HIDE DEF open
<1>18. << >> \in Seq(Nat) /\ Len(<< >>) = 0
  BY EmptySeq
<1>19. Walking(prog, fn, pos)'
  <2>1. Len(open) = Nesting(prog, fn, 1, "open", "close") + (IF fn \in prog.critical THEN 1 ELSE 0)
    BY <1>15, <1>16
  <2>2. Len(<< >>) = Nesting(prog, fn, 1, "while", "end")
    BY <1>16, <1>18
  <2>3. \A k \in 1 .. Len(<< >>) : << >>[k] \in Positions(prog, fn, "while")
    BY <1>18
  <2> QED BY <1>1, <1>12, <1>14, <1>17, <2>1, <2>2, <2>3 DEF Walking
<1>20. fn \in Nat /\ Func \subseteq Nat /\ fn \in 0 .. N /\ fn < N
  BY <1>1, <1>2, ProgramParts DEF Func
<1>21. \A f \in Func : f < fn => Complete(prog, f, code'[f])
  BY <1>13, <1>20 DEF Compiled
<1>22. \A f \in Func : f > fn => code'[f] = << >>
  BY <1>13, <1>20 DEF Compiled
<1>23. Complete(prog, Boot, code'[Boot]) /\ Booted'
  BY <1>1, <1>13 DEF Compiled, Booted
<1>24. Idle'
  BY <1>1, <1>2, IdleStays
<1>25. phase' = "build" /\ pos' \in Nat /\ pos' # 0 /\ crit' \in Seq(Nat) /\ loops' \in Seq(Nat)
  BY <1>1, <1>15, <1>18
<1> QED BY <1>1, <1>2, <1>13, <1>19, <1>20, <1>21, <1>22, <1>23, <1>24, <1>25 DEF Compiled

LEMMA ExitStep == ASSUME Compiled, BuildExit PROVE Compiled'
<1>1. /\ phase = "build" /\ fn \in Func /\ pos = Len(prog.body[fn]) + 1
      /\ Emit(ExitAll(crit) \o Epilogue(fn)) /\ fn' = fn + 1 /\ pos' = 0 /\ crit' = << >>
      /\ phase' = (IF fn + 1 = N THEN "run" ELSE "build")
      /\ prog' = prog /\ loops' = loops /\ cpuVars' = cpuVars
  BY DEF BuildExit
<1>2. prog \in Programs /\ Idle /\ crit \in Seq(Nat) /\ loops \in Seq(Nat)
  BY <1>1 DEF Compiled
<1>3. pos > 0
  BY <1>1, <1>2, ProgramParts
<1>4. Written(prog, fn, code[fn], loops) /\ Len(loops) = Nesting(prog, fn, pos, "while", "end")
  BY <1>1, <1>3 DEF Compiled, Walking
<1>5. Nesting(prog, fn, pos, "while", "end") = 0
  <2>1. Nesting(prog, fn, Len(prog.body[fn]) + 1, "while", "end") = 0
    BY <1>1, <1>2, ProgramsAssumption, Zenon
  <2> QED BY <1>1, <2>1
<1>6. Exits(loops) = {}
  <2>1. 1 .. Len(loops) = {}
    BY <1>4, <1>5
  <2> QED BY <2>1 DEF Exits
<1>7. PICK b : b = ExitAll(crit) \o Epilogue(fn)
  OBVIOUS
<1>8. /\ b \in Seq(Insn) /\ Shaped(prog, fn, b) /\ Pushless(b) /\ Labels(b) = {} /\ Jumps(b) = {}
      /\ Len(b) \in Nat /\ Len(b) > 0 /\ b[Len(b)].op \in Leaves
  BY <1>1, <1>2, <1>7, WayOut
<1>9. /\ code' \in [Func \cup {Boot} -> Seq(Insn)] /\ DOMAIN code' = Func \cup {Boot}
      /\ code'[fn] = code[fn] \o b /\ code[fn] \in Seq(Insn)
      /\ \A f \in Func \cup {Boot} : f # fn => code'[f] = code[f]
      /\ code'[Boot] = code[Boot]
  BY <1>1, <1>7, <1>8, Emitted
<1>10. PICK s : s = code'[fn]
  OBVIOUS
<1>11. Written(prog, fn, s, << >>)
  <2>1. Tests(<< >>) = {} /\ Exits(<< >>) = {}
    <3>1. 1 .. Len(<< >>) = {}
      OBVIOUS
    <3> QED BY <3>1 DEF Exits, Tests
  <2> QED BY <1>4, <1>6, <1>8, <1>9, <1>10, <2>1, Grown
<1>12. s # << >> /\ s[Len(s)].op \in Leaves
  <2>1. /\ Len(s) = Len(code[fn]) + Len(b) /\ Len(code[fn]) \in Nat
        /\ \A i \in 1 .. Len(b) : s[i + Len(code[fn])] = b[i]
    BY <1>8, <1>9, <1>10, Concatenated
  <2>2. Len(b) \in 1 .. Len(b) /\ Len(b) + Len(code[fn]) = Len(s) /\ Len(s) # 0
    BY <1>8, <2>1
  <2>3. s[Len(s)] = b[Len(b)]
    BY <2>1, <2>2
  <2> QED BY <1>8, <2>2, <2>3, EmptySeq
<1>13. Complete(prog, fn, s)
  <2>1. Exits(<< >>) = {}
    <3>1. 1 .. Len(<< >>) = {}
      OBVIOUS
    <3> QED BY <3>1 DEF Exits
  <2> QED BY <1>11, <1>12, <2>1 DEF Complete, Written
<1>14. fn \in Nat /\ Func \subseteq Nat /\ N \in Nat /\ fn < N /\ Func = 0 .. N - 1
  BY <1>1, <1>2, ProgramParts DEF Func
<1>15. ASSUME NEW f \in Func, f < fn + 1
       PROVE  Complete(prog, f, code'[f])
  <2>1. CASE f = fn
    BY <1>10, <1>13, <2>1
  <2>2. CASE f # fn
    <3>1. f < fn
      BY <1>14, <1>15, <2>2
    <3> QED BY <1>9, <2>2, <3>1 DEF Compiled
  <2> QED BY <2>1, <2>2
<1>16. ASSUME NEW f \in Func, f > fn
       PROVE  code'[f] = << >>
  <2>1. f # fn
    BY <1>14, <1>16
  <2> QED BY <1>9, <1>16, <2>1 DEF Compiled
<1>17. Complete(prog, Boot, code'[Boot]) /\ Booted'
  BY <1>1, <1>9 DEF Compiled, Booted
<1>18. Idle'
  BY <1>1, <1>2, IdleStays
<1>19. /\ fn + 1 \in 0 .. N /\ fn + 1 \in Nat /\ \A f \in Func : f > fn + 1 => f > fn
       /\ fn + 1 # N => fn + 1 \in Func /\ fn + 1 > fn /\ fn + 1 < N
  BY <1>14
<1>20. phase' = "build" => code'[fn + 1] = << >> /\ fn + 1 < N
  BY <1>1, <1>16, <1>19
<1>21. phase' = "run" => fn + 1 = N
  BY <1>1
<1>22. << >> \in Seq(Nat) /\ 0 \in Nat /\ ~(0 > 0) /\ phase' \in {"build", "run"}
  BY <1>1, EmptySeq
<1> QED BY <1>1, <1>2, <1>9, <1>15, <1>16, <1>17, <1>18, <1>19, <1>20, <1>21, <1>22 DEF Compiled

LEMMA BuildCompiles == ASSUME Compiled, Build PROVE Compiled'
  BY EntryStep, OpenStep, CloseStep, WhileStep, EndStep, JumpStep, ReturnStep, StatementStep,
     ExitStep DEF Build

-----------------------------------------------------------------------------
(***************************************************************************)
(* Where the running code is, and what it finds on the stack.              *)
(***************************************************************************)
\* Address a is an instruction.
Place(a) ==
  /\ a \in (Func \cup {Boot}) \X Nat
  /\ a[2] \in 1 .. Len(code[a[1]])
  /\ code[a[1]][a[2]].op # "label"

OpAt(a) == code[a[1]][a[2]].op

\* The instructions of a handler that are executed without the PSW it saves.
Bare == {"push_psw", "reti"}

\* What lies below the code at address a, with n entries of stack st: nothing for
\* the startup code, a call for a function, and for a handler the interrupt and
\* then PSW.
Based(a, st, n) ==
  IF a[1] = Boot THEN n = 0
  ELSE IF a[1] \notin Handlers(prog) THEN n > 0 /\ st[n].kind = "call"
  ELSE IF OpAt(a) \in Bare THEN n > 0 /\ st[n].kind = "irq"
  ELSE n > 1 /\ st[n].kind = "psw" /\ st[n].at[1] = a[1] /\ st[n - 1].kind = "irq"

\* Entry m of the stack leads back to code that finds its own entry below.
Grounded(st, m) ==
  /\ Place(st[m].at)
  /\ st[m].kind = "psw" =>
       /\ m > 1 /\ st[m - 1].kind = "irq"
       /\ st[m].at[1] \in Handlers(prog) /\ OpAt(st[m].at) = "push_psw"
  /\ st[m].kind # "psw" => Based(st[m].at, st, m - 1)

Stacked(st) == st \in Seq(Entries) /\ \A m \in 1 .. Len(st) : Grounded(st, m)

Framed(a, st) == Place(a) /\ Based(a, st, Len(st)) /\ Stacked(st)

RunsComplete ==
  /\ prog \in Programs
  /\ code \in [Func \cup {Boot} -> Seq(Insn)]
  /\ \A f \in Func \cup {Boot} : Complete(prog, f, code[f])

LEMMA PlaceParts ==
  ASSUME RunsComplete, NEW a, Place(a)
  PROVE  /\ a[1] \in Func \cup {Boot} /\ a = <<a[1], a[2]>> /\ a[2] \in Nat
         /\ a[2] \in 1 .. Len(code[a[1]]) /\ code[a[1]] \in Seq(Insn) /\ Len(code[a[1]]) \in Nat
         /\ Linked(prog, a[1], code[a[1]], a[2]) /\ code[a[1]][a[2]] \in Insn
         /\ Complete(prog, a[1], code[a[1]]) /\ Shaped(prog, a[1], code[a[1]])
<1>1. /\ a[1] \in Func \cup {Boot} /\ a = <<a[1], a[2]>> /\ a[2] \in Nat
      /\ a[2] \in 1 .. Len(code[a[1]])
  BY DEF Place
<1>2. Complete(prog, a[1], code[a[1]])
  BY <1>1 DEF RunsComplete
<1>3. Shaped(prog, a[1], code[a[1]])
  BY <1>2 DEF Complete
<1>4. code[a[1]] \in Seq(Insn) /\ Linked(prog, a[1], code[a[1]], a[2])
  BY <1>1, <1>3 DEF Shaped
<1>5. code[a[1]][a[2]] \in Insn /\ Len(code[a[1]]) \in Nat
  BY <1>1, <1>4, ElementOfSeq, LenProperties
<1> QED BY <1>1, <1>2, <1>3, <1>4, <1>5

\* Where the CPU arrives from position i of f on.
LEMMA ArrivesPlace ==
  ASSUME RunsComplete, NEW f \in Func \cup {Boot}, NEW i \in 1 .. Len(code[f])
  PROVE  /\ Place(<<f, At(f, i)>>) /\ Arrives(code[f], i, At(f, i)) /\ At(f, i) \in Nat /\ At(f, i) >= i
         /\ At(f, i) > 1 => OpAt(<<f, At(f, i)>>) # "push_psw"
<1>1. Complete(prog, f, code[f])
  BY DEF RunsComplete
<1>2. Shaped(prog, f, code[f]) /\ code[f][Len(code[f])].op \in Leaves
  BY <1>1 DEF Complete
<1>3. code[f] \in Seq(Insn) /\ code[f][Len(code[f])].op # "label"
  BY <1>2 DEF Shaped, Leaves
<1>4. Arrives(code[f], i, At(f, i))
  BY <1>3, AtArrives
<1>5. Len(code[f]) \in Nat /\ i \in Nat
  BY <1>3, LenProperties
<1>6. /\ At(f, i) \in i .. Len(code[f]) /\ code[f][At(f, i)].op # "label"
  BY <1>4 DEF Arrives
<1>7. At(f, i) \in Nat /\ At(f, i) \in 1 .. Len(code[f]) /\ At(f, i) >= i
  BY <1>5, <1>6
<1>8. Place(<<f, At(f, i)>>)
  BY <1>6, <1>7 DEF Place
<1>9. Linked(prog, f, code[f], At(f, i))
  BY <1>2, <1>7 DEF Shaped
<1>10. At(f, i) > 1 => OpAt(<<f, At(f, i)>>) # "push_psw"
  BY <1>7, <1>9 DEF Linked, OpAt
<1> QED BY <1>4, <1>7, <1>8, <1>10

LEMMA FollowingPlace ==
  ASSUME RunsComplete, NEW a, Place(a), OpAt(a) \notin Leaves
  PROVE  LET b == <<a[1], At(a[1], a[2] + 1)>>
         IN /\ Place(b) /\ b[1] = a[1] /\ OpAt(b) # "push_psw"
            /\ OpAt(b) = "reti" <=> OpAt(a) = "pop_psw"
            /\ Arrives(code[a[1]], a[2] + 1, b[2])
<1> DEFINE f == a[1]
           i == a[2] + 1
           j == At(f, i)
           b == <<f, j>>
<1>1. /\ f \in Func \cup {Boot} /\ a[2] \in Nat /\ a[2] \in 1 .. Len(code[f])
      /\ code[f] \in Seq(Insn) /\ Len(code[f]) \in Nat
      /\ Linked(prog, f, code[f], a[2]) /\ Complete(prog, f, code[f]) /\ Shaped(prog, f, code[f])
  BY PlaceParts
<1>2. a[2] # Len(code[f])
  BY <1>1 DEF Complete, OpAt
<1>3. i \in 1 .. Len(code[f]) /\ i > 1 /\ i \in Nat /\ i - 1 = a[2] /\ a[2] < Len(code[f])
  BY <1>1, <1>2
<1> HIDE DEF i, f
<1>4. Place(b) /\ Arrives(code[f], i, j) /\ j \in Nat /\ j >= i /\ (j > 1 => OpAt(b) # "push_psw")
  BY <1>1, <1>3, ArrivesPlace
<1> HIDE DEF j
<1>5. OpAt(b) # "push_psw"
  BY <1>3, <1>4
<1>6. j \in 1 .. Len(code[f])
  BY <1>4 DEF Place
<1>7. OpAt(b) = code[f][j].op /\ OpAt(a) = code[f][a[2]].op
  BY DEF OpAt, f
<1>8. ASSUME OpAt(b) = "reti"
      PROVE  OpAt(a) = "pop_psw"
  <2>1. code[f][j].op \in Mid /\ code[f][j].op # "mov_bit_c"
    BY <1>7, <1>8 DEF Mid
  <2>2. j = i
    <3>1. ReachedAlone(prog, f, code[f], i, j)
      BY <1>1, <1>3, <1>4, <2>1, ArrivesMid, Zenon
    <3> QED BY <2>1, <3>1 DEF ReachedAlone
  <2>3. Linked(prog, f, code[f], j)
    BY <1>1, <1>6 DEF Shaped
  <2>4. Behind(code[f], j, "pop_psw")
    BY <1>7, <1>8, <2>3 DEF Linked
  <2> QED BY <1>3, <1>7, <2>2, <2>4 DEF Behind
<1>9. ASSUME OpAt(a) = "pop_psw"
      PROVE  OpAt(b) = "reti"
  <2>1. Before(code[f], a[2], "reti")
    BY <1>1, <1>7, <1>9 DEF Linked
  <2>2. code[f][i].op = "reti"
    BY <2>1 DEF Before, i
  <2>3. j = i
    <3>1. j # i => i \in i .. j - 1
      BY <1>3, <1>4
    <3>2. j # i => code[f][i].op = "label"
      BY <1>4, <3>1 DEF Arrives
    <3> QED BY <2>2, <3>2
  <2> QED BY <1>7, <2>2, <2>3
<1> QED BY <1>4, <1>5, <1>8, <1>9 DEF i, j, f

LEMMA TargetPlace ==
  ASSUME RunsComplete, NEW a, Place(a), OpAt(a) \in Goto
  PROVE  LET b == <<a[1], Labelled(a[1], code[a[1]][a[2]].arg)>>
         IN Place(b) /\ b[1] = a[1] /\ OpAt(b) \notin Bare
<1> DEFINE f == a[1]
           l == code[f][a[2]].arg
           m == LabelAt(f, l)
           j == At(f, m)
           b == <<f, j>>
<1>1. /\ f \in Func \cup {Boot} /\ a[2] \in Nat /\ a[2] \in 1 .. Len(code[f])
      /\ code[f] \in Seq(Insn) /\ Len(code[f]) \in Nat
      /\ Complete(prog, f, code[f]) /\ Shaped(prog, f, code[f])
  BY PlaceParts
<1>2. OpAt(a) = code[f][a[2]].op
  BY DEF OpAt
<1> HIDE DEF f
<1>3. l \in Jumps(code[f])
  BY <1>1, <1>2 DEF Jumps, Insns
<1>4. l \in Labels(code[f])
  BY <1>1, <1>3 DEF Complete
<1> HIDE DEF l
<1>5. m \in 1 .. Len(code[f]) /\ code[f][m].op = "label"
  BY <1>1, <1>4, LabelThere
<1>9. Labelled(f, l) = j
  BY DEF Labelled, LabelAt
<1> HIDE DEF m
<1>6. /\ Place(b) /\ Arrives(code[f], m, j) /\ j \in Nat /\ j >= m /\ (j > 1 => OpAt(b) # "push_psw")
  BY <1>1, <1>5, ArrivesPlace
<1>7. j # m /\ j > 1
  BY <1>1, <1>5, <1>6 DEF Arrives
<1>8. OpAt(b) # "reti"
  <2>1. OpAt(b) = code[f][j].op
    BY DEF OpAt
  <2>2. ASSUME code[f][j].op = "reti"
        PROVE  FALSE
    <3>1. code[f][j].op \in Mid /\ code[f][j].op # "mov_bit_c"
      BY <2>2 DEF Mid
    <3>2. ReachedAlone(prog, f, code[f], m, j)
      BY <1>1, <1>5, <1>6, <3>1, ArrivesMid, Zenon
    <3> QED BY <1>7, <3>1, <3>2 DEF ReachedAlone
  <2> QED BY <2>1, <2>2
<1> HIDE DEF j
<1>10. Place(b) /\ b[1] = f /\ OpAt(b) \notin Bare
  BY <1>6, <1>7, <1>8 DEF Bare
<1> QED BY <1>9, <1>10 DEF f, l

LEMMA EntryPlace ==
  ASSUME RunsComplete, NEW f \in Func \cup {Boot}
  PROVE  /\ Place(Entry(f)) /\ Entry(f)[1] = f
         /\ f \in Handlers(prog) => OpAt(Entry(f)) = "push_psw"
<1>1. Complete(prog, f, code[f]) /\ code[f] \in Seq(Insn)
  BY DEF RunsComplete
<1>2. Len(code[f]) \in Nat /\ code[f] # << >>
  BY <1>1, LenProperties DEF Complete
<1>3. 1 \in 1 .. Len(code[f])
  BY <1>1, <1>2, EmptySeq
<1>4. Place(<<f, At(f, 1)>>) /\ Arrives(code[f], 1, At(f, 1)) /\ At(f, 1) \in Nat
  BY <1>3, ArrivesPlace
<1>5. Entry(f) = <<f, At(f, 1)>>
  BY DEF Entry
<1>6. ASSUME f \in Handlers(prog)
      PROVE  At(f, 1) = 1 /\ OpAt(Entry(f)) = "push_psw"
  <2>1. code[f][1].op = "push_psw"
    BY <1>1, <1>6 DEF Complete
  <2>2. Arrives(code[f], 1, 1)
    <3>1. 1 .. 1 - 1 = {} /\ 1 \in 1 .. Len(code[f])
      BY <1>3
    <3> QED BY <2>1, <3>1 DEF Arrives
  <2>3. At(f, 1) = 1
    BY <1>1, <1>3, <1>4, <2>2, ArrivesOnce
  <2> QED BY <1>5, <2>1, <2>3 DEF OpAt
<1> QED BY <1>4, <1>5, <1>6

\* What a step needs to know of the stack is what lies below it.
LEMMA BasedElsewhere ==
  ASSUME NEW a, NEW st, NEW st1, NEW n \in Nat, Based(a, st, n),
         \A m \in 1 .. n : st1[m] = st[m]
  PROVE  Based(a, st1, n)
<1>1. n > 0 => n \in 1 .. n
  OBVIOUS
<1>2. n > 1 => n - 1 \in 1 .. n
  OBVIOUS
<1>3. n > 1 => n > 0
  OBVIOUS
<1> QED BY <1>1, <1>2, <1>3 DEF Based

Recorded(e, kind, at, in, carry) ==
  e \in Entries /\ e.kind = kind /\ e.at = at /\ e.in = in /\ e.c = carry

LEMMA EntryType ==
  ASSUME NEW at \in Address, NEW in \in BOOLEAN, NEW carry \in BOOLEAN
  PROVE  /\ Recorded(Pushed("call", at, in, carry), "call", at, in, carry)
         /\ Recorded(Pushed("irq", at, in, carry), "irq", at, in, carry)
         /\ Recorded(Pushed("psw", at, in, carry), "psw", at, in, carry)
  BY DEF Pushed, Entries, Recorded

\* An element added at the end.
LEMMA Longer ==
  ASSUME NEW S, NEW s \in Seq(S), NEW x \in S
  PROVE  /\ Append(s, x) \in Seq(S) /\ Len(Append(s, x)) = Len(s) + 1 /\ Len(s) \in Nat
         /\ Append(s, x)[Len(s) + 1] = x
         /\ \A m \in 1 .. Len(s) : Append(s, x)[m] = s[m]
<1>1. Len(s) \in Nat
  BY LenProperties
<1> QED BY <1>1

LEMMA GroundedElsewhere ==
  ASSUME NEW st, NEW st1, NEW n \in Nat, \A k \in 1 .. n : st1[k] = st[k],
         NEW m \in 1 .. n, Grounded(st, m)
  PROVE  Grounded(st1, m)
<1>1. st1[m] = st[m]
  OBVIOUS
<1>2. m > 1 => st1[m - 1] = st[m - 1]
  <2>1. m > 1 => m - 1 \in 1 .. n
    OBVIOUS
  <2> QED BY <2>1
<1>3. m - 1 \in Nat /\ \A k \in 1 .. m - 1 : st1[k] = st[k]
  <2>1. m - 1 \in Nat /\ \A k \in 1 .. m - 1 : k \in 1 .. n
    OBVIOUS
  <2> QED BY <2>1
<1>4. Based(st[m].at, st, m - 1) => Based(st[m].at, st1, m - 1)
  BY <1>3, BasedElsewhere
<1> QED BY <1>1, <1>2, <1>4 DEF Grounded

LEMMA PushStacked ==
  ASSUME NEW st, NEW e \in Entries, Stacked(st), Place(e.at),
         e.kind = "psw" => /\ Len(st) > 0 /\ st[Len(st)].kind = "irq"
                           /\ e.at[1] \in Handlers(prog) /\ OpAt(e.at) = "push_psw",
         e.kind # "psw" => Based(e.at, st, Len(st))
  PROVE  Stacked(Append(st, e))
<1>1. PICK n, t : n = Len(st) /\ t = Append(st, e)
  OBVIOUS
<1>2. st \in Seq(Entries) /\ \A m \in 1 .. n : Grounded(st, m)
  BY <1>1 DEF Stacked
<1>3. /\ t \in Seq(Entries) /\ Len(t) = n + 1 /\ n \in Nat /\ t[n + 1] = e
      /\ \A m \in 1 .. n : t[m] = st[m]
  BY <1>1, <1>2, Longer
<1>4. \A m \in 1 .. n : Grounded(t, m)
  BY <1>2, <1>3, GroundedElsewhere
<1>5. Grounded(t, n + 1)
  <2>1. n + 1 - 1 = n
    BY <1>3
  <2>2. n > 0 => n \in 1 .. n /\ n + 1 > 1
    BY <1>3
  <2>3. Based(e.at, st, n) => Based(e.at, t, n)
    BY <1>3, BasedElsewhere
  <2> QED BY <1>1, <1>3, <2>1, <2>2, <2>3 DEF Grounded
<1>6. \A m \in 1 .. Len(t) : m \in 1 .. n \/ m = n + 1
  BY <1>3
<1>7. \A m \in 1 .. Len(t) : Grounded(t, m)
  BY <1>4, <1>5, <1>6
<1> QED BY <1>1, <1>3, <1>7 DEF Stacked

LEMMA PopStacked ==
  ASSUME NEW st, Stacked(st), Len(st) > 0
  PROVE  LET t == SubSeq(st, 1, Len(st) - 1)
         IN /\ Stacked(t) /\ Len(t) = Len(st) - 1 /\ Len(st) \in Nat
            /\ \A m \in 1 .. Len(st) - 1 : t[m] = st[m]
<1>1. PICK n, t : n = Len(st) - 1 /\ t = SubSeq(st, 1, Len(st) - 1)
  OBVIOUS
<1>2. st \in Seq(Entries) /\ \A m \in 1 .. Len(st) : Grounded(st, m)
  BY DEF Stacked
<1>3. Len(st) \in Nat /\ t \in Seq(Entries) /\ Len(t) = Len(st) - 1 /\ \A m \in 1 .. Len(st) - 1 : t[m] = st[m]
  BY <1>1, <1>2, Shorter, LenProperties
<1>4. n \in Nat /\ Len(t) = n /\ 1 .. n \subseteq 1 .. Len(st) /\ \A m \in 1 .. n : t[m] = st[m]
  BY <1>1, <1>3
<1>5. \A m \in 1 .. n : Grounded(st, m)
  BY <1>2, <1>4
<1>6. \A m \in 1 .. n : Grounded(t, m)
  BY <1>4, <1>5, GroundedElsewhere
<1>7. Stacked(t)
  BY <1>3, <1>4, <1>6 DEF Stacked
<1> QED BY <1>1, <1>3, <1>7

\* Going on inside a function changes nothing below it.
LEMMA SameFrame ==
  ASSUME NEW a, NEW b, NEW st, Framed(a, st), Place(b), b[1] = a[1],
         a[1] \in Handlers(prog) => OpAt(a) \notin Bare /\ OpAt(b) \notin Bare
  PROVE  Framed(b, st)
  BY DEF Framed, Based

-----------------------------------------------------------------------------
(***************************************************************************)
(* The end of a step.                                                      *)
(***************************************************************************)
CpuTypes ==
  /\ c \in BOOLEAN /\ bits \subseteq Func \X Nat /\ flags \subseteq Source
  /\ ea \in BOOLEAN /\ inIsr \in BOOLEAN /\ delay \in BOOLEAN /\ halted \in BOOLEAN
  /\ want \in BOOLEAN

\* The code at pc1 was interrupted.
Interrupted(pc1, stack1) ==
  \E h \in Handlers(prog) :
    /\ pc' = Entry(h)
    /\ stack' = Append(stack1, Pushed("irq", pc1, code[pc1[1]][pc1[2]].in, FALSE))

\* A step ends at pc1 with stack1, or with an interrupt there.
Ends(pc1, stack1, ea1, inIsr1) ==
  \/ pc' = pc1 /\ stack' = stack1 /\ inIsr' = inIsr1
  \/ ea1 /\ ~inIsr1 /\ inIsr' = TRUE /\ Interrupted(pc1, stack1)

LEMMA FirstPending ==
  ASSUME NEW T \in SUBSET Source, T # {}
  PROVE  First(T) \in T
<1>1. PICK t \in T : TRUE
  OBVIOUS
<1>2. T \in SUBSET Nat
  BY DEF Source
<1>3. \E m \in T : \A k \in T : m <= k
  BY <1>1, <1>2, SmallestOne
<1> QED BY <1>3 DEF First

LEMMA FinishCases ==
  ASSUME RunsComplete, NEW pc1, NEW stack1, NEW ea1 \in BOOLEAN, NEW flags1 \in SUBSET Source,
         NEW inIsr1 \in BOOLEAN, NEW delay1 \in BOOLEAN,
         Finish(pc1, stack1, ea1, flags1, inIsr1, delay1)
  PROVE  /\ ea' = ea1 /\ delay' \in BOOLEAN /\ flags' \in SUBSET Source /\ inIsr' \in BOOLEAN
         /\ prog' = prog /\ phase' = phase /\ fn' = fn /\ pos' = pos /\ crit' = crit
         /\ loops' = loops /\ code' = code
         /\ Ends(pc1, stack1, ea1, inIsr1)
<1>1. /\ ea' = ea1 /\ delay' = (delay1 /\ ~(ea1 /\ ~inIsr1))
      /\ prog' = prog /\ phase' = phase /\ fn' = fn /\ pos' = pos /\ crit' = crit
      /\ loops' = loops /\ code' = code
  BY DEF Finish, buildVars
<1>2. PICK overflows \in SUBSET prog.running :
        LET raised == flags1 \cup overflows
            s == First(Pending(raised))
        IN IF Accepts(raised, ea1, inIsr1, delay1)
           THEN /\ pc' = Entry(prog.handler[s])
                /\ stack' = Append(stack1, Pushed("irq", pc1, code[pc1[1]][pc1[2]].in, FALSE))
                /\ flags' = raised \ ({s} \cap ClearedOnEntry)
                /\ inIsr' = TRUE
           ELSE /\ pc' = pc1
                /\ stack' = stack1
                /\ flags' = raised
                /\ inIsr' = inIsr1
  BY DEF Finish
<1>3. PICK raised : raised = flags1 \cup overflows
  OBVIOUS
<1>4. prog.running \subseteq Source /\ prog.vectors \subseteq Source
  BY ProgramParts DEF RunsComplete, ProgramType, Timer
<1>5. raised \in SUBSET Source
  BY <1>3, <1>4
<1>6. PICK s : s = First(Pending(raised))
  OBVIOUS
<1>7. CASE Accepts(raised, ea1, inIsr1, delay1)
  <2>1. /\ pc' = Entry(prog.handler[s])
        /\ stack' = Append(stack1, Pushed("irq", pc1, code[pc1[1]][pc1[2]].in, FALSE))
        /\ flags' = raised \ ({s} \cap ClearedOnEntry) /\ inIsr' = TRUE
    BY <1>2, <1>3, <1>6, <1>7
  <2>2. ea1 /\ ~inIsr1 /\ Pending(raised) # {}
    BY <1>7 DEF Accepts
  <2>3. Pending(raised) \in SUBSET Source /\ Pending(raised) \subseteq prog.vectors
    BY <1>5 DEF Pending
  <2>4. s \in prog.vectors
    BY <1>6, <2>2, <2>3, FirstPending
  <2>5. prog.handler[s] \in Handlers(prog)
    BY <2>4 DEF Handlers
  <2>6. Interrupted(pc1, stack1)
    BY <2>1, <2>5 DEF Interrupted
  <2>7. flags' \in SUBSET Source
    BY <1>5, <2>1
  <2> QED BY <1>1, <2>1, <2>2, <2>6, <2>7 DEF Ends
<1>8. CASE ~Accepts(raised, ea1, inIsr1, delay1)
  <2>1. pc' = pc1 /\ stack' = stack1 /\ flags' = raised /\ inIsr' = inIsr1
    BY <1>2, <1>3, <1>8
  <2> QED BY <1>1, <1>5, <2>1 DEF Ends
<1> QED BY <1>7, <1>8

\* An interrupt leaves a frame for its handler.
LEMMA InterruptFramed ==
  ASSUME RunsComplete, NEW a, NEW st, Framed(a, st), NEW h \in Handlers(prog)
  PROVE  Framed(Entry(h), Append(st, Pushed("irq", a, code[a[1]][a[2]].in, FALSE)))
<1>1. prog \in Programs /\ Place(a) /\ Stacked(st) /\ Based(a, st, Len(st)) /\ st \in Seq(Entries)
  BY DEF RunsComplete, Framed, Stacked
<1>2. code[a[1]][a[2]].in \in BOOLEAN /\ a \in Address
  BY <1>1, PlaceParts DEF Insn, Address, Place
<1>3. PICK e : e = Pushed("irq", a, code[a[1]][a[2]].in, FALSE)
  OBVIOUS
<1>4. e \in Entries /\ e.kind = "irq" /\ e.at = a
  <2>1. Recorded(e, "irq", a, code[a[1]][a[2]].in, FALSE)
    BY <1>2, <1>3, EntryType
  <2> QED BY <2>1 DEF Recorded
<1>5. Stacked(Append(st, e))
  BY <1>1, <1>4, PushStacked
<1>6. /\ Len(Append(st, e)) = Len(st) + 1 /\ Len(st) \in Nat /\ Append(st, e)[Len(st) + 1] = e
  BY <1>1, <1>4, Longer
<1>7. h \in Func /\ h # Boot
  BY <1>1, ProgramParts
<1>8. Place(Entry(h)) /\ Entry(h)[1] = h /\ OpAt(Entry(h)) = "push_psw"
  BY <1>7, EntryPlace
<1>9. Len(st) + 1 > 0
  BY <1>6
<1>10. Based(Entry(h), Append(st, e), Len(st) + 1)
  BY <1>4, <1>6, <1>7, <1>8, <1>9 DEF Based, Bare
<1> QED BY <1>3, <1>5, <1>6, <1>8, <1>10 DEF Framed

LEMMA EndsFramed ==
  ASSUME RunsComplete, NEW pc1, NEW stack1, NEW ea1, NEW inIsr1, Framed(pc1, stack1),
         Ends(pc1, stack1, ea1, inIsr1)
  PROVE  Framed(pc', stack')
<1>1. CASE pc' = pc1 /\ stack' = stack1
  BY <1>1
<1>2. CASE Interrupted(pc1, stack1)
  BY <1>2, InterruptFramed DEF Interrupted
<1> QED BY <1>1, <1>2 DEF Ends

-----------------------------------------------------------------------------
(***************************************************************************)
(* The instructions.                                                       *)
(***************************************************************************)
TypeInv ==
  /\ Compiled /\ CpuTypes
  /\ phase = "run" => Framed(pc, stack)

LEMMA Running ==
  ASSUME TypeInv, phase = "run"
  PROVE  /\ RunsComplete /\ Framed(pc, stack) /\ Place(pc) /\ prog \in Programs
         /\ Stacked(stack) /\ Based(pc, stack, Len(stack)) /\ stack \in Seq(Entries)
         /\ Len(stack) \in Nat
         /\ pc[1] \in Func \cup {Boot} /\ pc[2] \in 1 .. Len(code[pc[1]])
         /\ Linked(prog, pc[1], code[pc[1]], pc[2]) /\ Current \in Insn
         /\ Current = code[pc[1]][pc[2]] /\ OpAt(pc) = Current.op
<1>1. prog \in Programs /\ fn = N /\ code \in [Func \cup {Boot} -> Seq(Insn)]
  BY DEF TypeInv, Compiled
<1>2. \A f \in Func : f < N
  BY <1>1, ProgramParts DEF Func
<1>3. \A f \in Func \cup {Boot} : Complete(prog, f, code[f])
  BY <1>1, <1>2 DEF TypeInv, Compiled
<1>4. RunsComplete
  BY <1>1, <1>3 DEF RunsComplete
<1>5. Framed(pc, stack) /\ Place(pc) /\ Stacked(stack) /\ Based(pc, stack, Len(stack))
  BY DEF TypeInv, Framed
<1>6. stack \in Seq(Entries) /\ Len(stack) \in Nat
  BY <1>5, LenProperties DEF Stacked
<1>7. /\ pc[1] \in Func \cup {Boot} /\ pc[2] \in 1 .. Len(code[pc[1]])
      /\ Linked(prog, pc[1], code[pc[1]], pc[2]) /\ code[pc[1]][pc[2]] \in Insn
  BY <1>4, <1>5, PlaceParts
<1> QED BY <1>1, <1>4, <1>5, <1>6, <1>7 DEF Current, OpAt

LEMMA FollowingFramed ==
  ASSUME TypeInv, NEW op, phase = "run", Current.op = op, op \notin Leaves, op \notin {"push_psw", "pop_psw"}
  PROVE  Framed(Following, stack)
<1>1. /\ RunsComplete /\ Framed(pc, stack) /\ Place(pc) /\ OpAt(pc) = op
  BY Running
<1>2. /\ Place(Following) /\ Following[1] = pc[1] /\ OpAt(Following) # "push_psw"
      /\ OpAt(Following) = "reti" <=> OpAt(pc) = "pop_psw"
  BY <1>1, FollowingPlace DEF Following
<1>3. OpAt(pc) \notin Bare /\ OpAt(Following) \notin Bare
  BY <1>1, <1>2 DEF Bare, Leaves
<1> QED BY <1>1, <1>2, <1>3, SameFrame

LEMMA TargetFramed ==
  ASSUME TypeInv, NEW op, phase = "run", Current.op = op, op \in Goto
  PROVE  Framed(Target(Current.arg), stack)
<1>1. /\ RunsComplete /\ Framed(pc, stack) /\ Place(pc) /\ OpAt(pc) = op
      /\ Current = code[pc[1]][pc[2]]
  BY Running
<1>2. /\ Place(Target(Current.arg)) /\ Target(Current.arg)[1] = pc[1]
      /\ OpAt(Target(Current.arg)) \notin Bare
  BY <1>1, TargetPlace DEF Target
<1>3. OpAt(pc) \notin Bare
  BY <1>1 DEF Bare, Goto
<1> QED BY <1>1, <1>2, <1>3, SameFrame

LEMMA CallFramed ==
  ASSUME TypeInv, phase = "run", Current.op = "call"
  PROVE  Framed(Entry(Current.arg), Append(stack, Pushed("call", Following, Current.in, FALSE)))
<1>1. /\ RunsComplete /\ Framed(pc, stack) /\ OpAt(pc) = "call" /\ prog \in Programs
      /\ Stacked(stack) /\ stack \in Seq(Entries) /\ Len(stack) \in Nat
      /\ Linked(prog, pc[1], code[pc[1]], pc[2]) /\ Current \in Insn
      /\ Current = code[pc[1]][pc[2]] /\ Current.op = "call"
  BY Running
<1>2. Framed(Following, stack)
  BY FollowingFramed DEF Leaves
<1>3. Current.arg \in Func \ Handlers(prog) /\ Current.arg # Boot
  BY <1>1, ProgramParts DEF Linked
<1>4. Place(Following) /\ Based(Following, stack, Len(stack)) /\ Following \in Address
  BY <1>2 DEF Framed, Place, Address
<1>5. PICK e : e = Pushed("call", Following, Current.in, FALSE)
  OBVIOUS
<1>6. Current.in \in BOOLEAN
  BY <1>1 DEF Insn
<1>7. e \in Entries /\ e.kind = "call" /\ e.at = Following
  <2>1. Recorded(e, "call", Following, Current.in, FALSE)
    BY <1>4, <1>5, <1>6, EntryType
  <2> QED BY <2>1 DEF Recorded
<1>8. Stacked(Append(stack, e))
  BY <1>1, <1>4, <1>7, PushStacked
<1>9. Len(Append(stack, e)) = Len(stack) + 1 /\ Append(stack, e)[Len(stack) + 1] = e
  BY <1>1, <1>7, Longer
<1>10. Place(Entry(Current.arg)) /\ Entry(Current.arg)[1] = Current.arg
  BY <1>1, <1>3, EntryPlace
<1>11. Len(stack) + 1 > 0
  BY <1>1
<1>12. Based(Entry(Current.arg), Append(stack, e), Len(stack) + 1)
  BY <1>3, <1>7, <1>9, <1>10, <1>11 DEF Based
<1> QED BY <1>5, <1>8, <1>9, <1>10, <1>12 DEF Framed

\* A function finds its call on top, a handler its interrupt.
LEMMA LeavingTop ==
  ASSUME TypeInv, NEW op \in {"ret", "reti"}, phase = "run", Current.op = op
  PROVE  /\ Len(stack) > 0 /\ Top.kind = (IF op = "ret" THEN "call" ELSE "irq")
         /\ Framed(Top.at, Popped)
<1>1. /\ RunsComplete /\ OpAt(pc) = op /\ prog \in Programs /\ Current.op = op
      /\ Stacked(stack) /\ stack \in Seq(Entries) /\ Len(stack) \in Nat
      /\ Based(pc, stack, Len(stack)) /\ Place(pc)
      /\ Linked(prog, pc[1], code[pc[1]], pc[2]) /\ Current = code[pc[1]][pc[2]]
  BY Running
<1>2. /\ op = "ret" => pc[1] \in Func \ Handlers(prog) /\ pc[1] # Boot
      /\ op = "reti" => pc[1] \in Handlers(prog) /\ pc[1] # Boot
  <2>1. op = "ret" => pc[1] \in Func \ Handlers(prog)
    BY <1>1 DEF Linked
  <2>2. ASSUME op = "reti"
        PROVE  pc[1] \in Handlers(prog)
    <3>1. /\ pc[2] \in Nat /\ pc[2] \in 1 .. Len(code[pc[1]]) /\ Len(code[pc[1]]) \in Nat
          /\ Shaped(prog, pc[1], code[pc[1]])
      BY <1>1, PlaceParts
    <3>2. pc[2] > 1 /\ code[pc[1]][pc[2] - 1].op = "pop_psw"
      BY <1>1, <2>2 DEF Linked, Behind
    <3>3. pc[2] - 1 \in 1 .. Len(code[pc[1]])
      BY <3>1, <3>2
    <3>4. Linked(prog, pc[1], code[pc[1]], pc[2] - 1)
      BY <3>1, <3>3 DEF Shaped
    <3> QED BY <3>2, <3>4 DEF Linked
  <2> QED BY <1>1, <2>1, <2>2, ProgramParts
<1>3. Len(stack) > 0 /\ stack[Len(stack)].kind = (IF op = "ret" THEN "call" ELSE "irq")
  BY <1>1, <1>2 DEF Based, Bare
<1>4. Grounded(stack, Len(stack))
  <2>1. Len(stack) \in 1 .. Len(stack)
    BY <1>1, <1>3
  <2> QED BY <1>1, <2>1 DEF Stacked
<1>5. Place(Top.at) /\ Based(Top.at, stack, Len(stack) - 1)
  BY <1>3, <1>4 DEF Grounded, Top
<1>6. Stacked(Popped) /\ Len(Popped) = Len(stack) - 1 /\ \A m \in 1 .. Len(stack) - 1 : Popped[m] = stack[m]
  BY <1>1, <1>3, PopStacked DEF Popped
<1>7. Len(stack) - 1 \in Nat
  BY <1>1, <1>3
<1>8. Based(Top.at, Popped, Len(stack) - 1)
  BY <1>5, <1>6, <1>7, BasedElsewhere
<1> QED BY <1>3, <1>5, <1>6, <1>8 DEF Framed, Top

LEMMA PushFramed ==
  ASSUME TypeInv, phase = "run", Current.op = "push_psw"
  PROVE  Framed(Following, Append(stack, Pushed("psw", pc, FALSE, c)))
<1>1. /\ RunsComplete /\ OpAt(pc) = "push_psw" /\ prog \in Programs /\ Place(pc)
      /\ Stacked(stack) /\ stack \in Seq(Entries) /\ Len(stack) \in Nat
      /\ Based(pc, stack, Len(stack))
      /\ Linked(prog, pc[1], code[pc[1]], pc[2]) /\ Current = code[pc[1]][pc[2]]
      /\ Current.op = "push_psw"
  BY Running
<1>2. pc[1] \in Handlers(prog) /\ pc[1] # Boot
  BY <1>1, ProgramParts DEF Linked
<1>3. Len(stack) > 0 /\ stack[Len(stack)].kind = "irq"
  BY <1>1, <1>2 DEF Based, Bare
<1>4. /\ Place(Following) /\ Following[1] = pc[1] /\ OpAt(Following) # "push_psw"
      /\ OpAt(Following) # "reti"
  BY <1>1, FollowingPlace DEF Following, Leaves
<1>5. PICK e : e = Pushed("psw", pc, FALSE, c)
  OBVIOUS
<1>6. pc \in Address /\ c \in BOOLEAN
  BY <1>1 DEF TypeInv, CpuTypes, Place, Address
<1>7. e \in Entries /\ e.kind = "psw" /\ e.at = pc
  <2>1. Recorded(e, "psw", pc, FALSE, c)
    BY <1>5, <1>6, EntryType
  <2> QED BY <2>1 DEF Recorded
<1>8. Stacked(Append(stack, e))
  BY <1>1, <1>2, <1>3, <1>7, PushStacked
<1>9. /\ Len(Append(stack, e)) = Len(stack) + 1 /\ Append(stack, e)[Len(stack) + 1] = e
      /\ \A m \in 1 .. Len(stack) : Append(stack, e)[m] = stack[m]
  BY <1>1, <1>7, Longer
<1>10. Len(stack) + 1 > 1 /\ Len(stack) + 1 - 1 = Len(stack) /\ Len(stack) \in 1 .. Len(stack)
  BY <1>1, <1>3
<1>11. Based(Following, Append(stack, e), Len(stack) + 1)
  <2>1. Append(stack, e)[Len(stack)].kind = "irq"
    BY <1>3, <1>9, <1>10
  <2> QED BY <1>2, <1>4, <1>7, <1>9, <1>10, <2>1 DEF Based, Bare
<1> QED BY <1>4, <1>5, <1>8, <1>9, <1>11 DEF Framed

LEMMA PopFramed ==
  ASSUME TypeInv, phase = "run", Current.op = "pop_psw"
  PROVE  /\ Len(stack) > 0 /\ Top.kind = "psw" /\ Top \in Entries
         /\ Framed(Following, Popped)
<1>1. /\ RunsComplete /\ OpAt(pc) = "pop_psw" /\ prog \in Programs /\ Place(pc)
      /\ Stacked(stack) /\ stack \in Seq(Entries) /\ Len(stack) \in Nat
      /\ Based(pc, stack, Len(stack))
      /\ Linked(prog, pc[1], code[pc[1]], pc[2]) /\ Current = code[pc[1]][pc[2]]
      /\ Current.op = "pop_psw"
  BY Running
<1>2. pc[1] \in Handlers(prog) /\ pc[1] # Boot
  BY <1>1, ProgramParts DEF Linked
<1>3. Len(stack) > 1 /\ stack[Len(stack)].kind = "psw" /\ stack[Len(stack) - 1].kind = "irq"
  BY <1>1, <1>2 DEF Based, Bare
<1>4. Place(Following) /\ Following[1] = pc[1] /\ OpAt(Following) = "reti"
  BY <1>1, FollowingPlace DEF Following, Leaves
<1>5. Len(stack) > 0 /\ Len(stack) - 1 > 0 /\ Len(stack) \in 1 .. Len(stack) /\ Len(stack) - 1 \in 1 .. Len(stack) - 1
  BY <1>1, <1>3
<1>6. Stacked(Popped) /\ Len(Popped) = Len(stack) - 1 /\ \A m \in 1 .. Len(stack) - 1 : Popped[m] = stack[m]
  BY <1>1, <1>5, PopStacked DEF Popped
<1>7. Popped[Len(stack) - 1].kind = "irq"
  BY <1>3, <1>5, <1>6
<1>8. Based(Following, Popped, Len(stack) - 1)
  BY <1>2, <1>4, <1>5, <1>7 DEF Based, Bare
<1>9. Top \in Entries
  BY <1>1, <1>5, ElementOfSeq DEF Top
<1> QED BY <1>3, <1>4, <1>5, <1>6, <1>8, <1>9 DEF Framed, Top

\* Framed is about the code, which does not change.
LEMMA FramedStays ==
  ASSUME prog' = prog, code' = code, Framed(pc', stack')
  PROVE  Framed(pc, stack)'
<1>1. Place(pc')
  BY DEF Framed
<1>2. Place(pc)'
  BY <1>1 DEF Place
<1>3. Based(pc', stack', Len(stack'))
  BY DEF Framed
<1>4. Based(pc, stack, Len(stack))'
  BY <1>3 DEF Based, OpAt, Handlers
<1>5. stack' \in Seq(Entries) /\ \A m \in 1 .. Len(stack') : Grounded(stack', m)
  BY DEF Framed, Stacked
<1>6. ASSUME NEW m \in 1 .. Len(stack')
      PROVE  Grounded(stack, m)'
  <2>1. Grounded(stack', m)
    BY <1>5
  <2> QED BY <2>1 DEF Grounded, Place, Based, OpAt, Handlers
<1>7. Stacked(stack)'
  BY <1>5, <1>6 DEF Stacked
<1> QED BY <1>2, <1>4, <1>7 DEF Framed

\* What a step that ends well leaves.
LEMMA Stepped ==
  ASSUME TypeInv, phase = "run", NEW pc1, NEW stack1, NEW ea1 \in BOOLEAN,
         NEW flags1 \in SUBSET Source, NEW inIsr1 \in BOOLEAN, NEW delay1 \in BOOLEAN,
         Finish(pc1, stack1, ea1, flags1, inIsr1, delay1), Framed(pc1, stack1),
         c' \in BOOLEAN, bits' \subseteq Func \X Nat, halted' \in BOOLEAN, want' \in BOOLEAN
  PROVE  TypeInv'
<1>1. RunsComplete
  BY Running
<1>2. /\ ea' = ea1 /\ delay' \in BOOLEAN /\ flags' \in SUBSET Source /\ inIsr' \in BOOLEAN
      /\ prog' = prog /\ phase' = phase /\ fn' = fn /\ pos' = pos /\ crit' = crit
      /\ loops' = loops /\ code' = code
      /\ Ends(pc1, stack1, ea1, inIsr1)
  BY <1>1, FinishCases
<1>3. Framed(pc', stack')
  BY <1>1, <1>2, EndsFramed
<1>4. Framed(pc, stack)'
  BY <1>2, <1>3, FramedStays
<1>5. Compiled'
  BY <1>2 DEF TypeInv, Compiled, Booted
<1>6. CpuTypes'
  BY <1>2 DEF CpuTypes
<1> QED BY <1>4, <1>5, <1>6 DEF TypeInv

LEMMA RunKeepsTypes == ASSUME TypeInv, Step PROVE TypeInv'
<1>1. /\ c \in BOOLEAN /\ bits \subseteq Func \X Nat /\ flags \in SUBSET Source
      /\ ea \in BOOLEAN /\ inIsr \in BOOLEAN /\ delay \in BOOLEAN /\ halted \in BOOLEAN
      /\ want \in BOOLEAN /\ TRUE \in BOOLEAN /\ FALSE \in BOOLEAN
  BY DEF TypeInv, CpuTypes
<1>2. \A op : Executes(op) => phase = "run" /\ Current.op = op
  BY DEF Executes
<1>3. CASE CarryAndBits
  <2>1. PICK op \in {"setb_c", "clr_c", "mov_bit_c", "mov_c_bit"} : Executes(op)
    BY <1>3 DEF CarryAndBits
  <2>2. phase = "run" /\ Framed(Following, stack)
    BY <1>2, <2>1, FollowingFramed DEF Leaves
  <2>3. c' \in BOOLEAN
    <3>1. c' = TRUE \/ c' = FALSE \/ c' = c \/ c' = (<<pc[1], Current.arg>> \in bits)
      BY <1>3 DEF CarryAndBits
    <3>2. (<<pc[1], Current.arg>> \in bits) \in BOOLEAN
      OBVIOUS
    <3> QED BY <1>1, <3>1, <3>2
  <2>4. bits' \subseteq Func \X Nat
    <3>1. CASE Executes("mov_bit_c")
      <4>1. /\ Linked(prog, pc[1], code[pc[1]], pc[2]) /\ Current = code[pc[1]][pc[2]]
            /\ Current \in Insn /\ Current.op = "mov_bit_c"
        BY <1>2, <3>1, Running
      <4>2. <<pc[1], Current.arg>> \in Func \X Nat
        BY <4>1 DEF Linked, Insn
      <4>3. \/ bits' = bits \cup {<<pc[1], Current.arg>>}
            \/ bits' = bits \ {<<pc[1], Current.arg>>}
            \/ bits' = bits
        BY <1>3 DEF CarryAndBits
      <4> QED BY <1>1, <4>2, <4>3
    <3>2. CASE ~Executes("mov_bit_c")
      <4>1. bits' = bits
        BY <1>3, <3>2 DEF CarryAndBits
      <4> QED BY <1>1, <4>1
    <3> QED BY <3>1, <3>2
  <2>5. Finish(Following, stack, ea, flags, inIsr, delay) /\ halted' = halted /\ want' = want
    BY <1>3 DEF CarryAndBits, GoOn
  <2> QED BY <1>1, <2>2, <2>3, <2>4, <2>5, Stepped
<1>4. CASE TestAndClearEa
  <2>1. phase = "run" /\ Framed(Following, stack) /\ Framed(Target(Current.arg), stack)
    BY <1>2, <1>4, FollowingFramed, TargetFramed DEF TestAndClearEa, Leaves, Goto
  <2>2. PICK to : to = IF ea THEN Target(Current.arg) ELSE Following
    OBVIOUS
  <2>3. Finish(to, stack, FALSE, flags, inIsr, delay) /\ UNCHANGED <<c, bits, halted, want>>
    BY <1>4, <2>2 DEF TestAndClearEa
  <2>4. Framed(to, stack)
    BY <2>1, <2>2
  <2> QED BY <1>1, <2>1, <2>3, <2>4, Stepped
<1>5. CASE RestoreEa
  <2>1. phase = "run" /\ Framed(Following, stack)
    BY <1>2, <1>5, FollowingFramed DEF RestoreEa, Leaves
  <2>2. Finish(Following, stack, c, flags, inIsr, delay) /\ UNCHANGED <<c, bits, halted, want>>
    BY <1>5 DEF RestoreEa
  <2> QED BY <1>1, <2>1, <2>2, Stepped
<1>6. CASE AssignEa
  <2>1. PICK on \in BOOLEAN : /\ Executes(IF on THEN "setb_ea" ELSE "clr_ea")
                              /\ Finish(Following, stack, on, flags, inIsr, delay) /\ want' = on
    BY <1>6 DEF AssignEa
  <2>2. PICK op \in {"setb_ea", "clr_ea"} : Executes(op)
    BY <2>1
  <2>3. phase = "run" /\ Framed(Following, stack)
    BY <1>2, <2>2, FollowingFramed DEF Leaves
  <2>4. UNCHANGED <<c, bits, halted>>
    BY <1>6 DEF AssignEa
  <2> QED BY <1>1, <2>1, <2>3, <2>4, Stepped
<1>7. CASE AssignFlags
  <2>1. PICK flags1 \in SUBSET Source : Finish(Following, stack, ea, flags1, inIsr, delay)
    BY <1>7 DEF AssignFlags
  <2>2. PICK op \in {"mov_sbuf", "clr_flag"} : Executes(op)
    BY <1>7 DEF AssignFlags
  <2>3. phase = "run" /\ Framed(Following, stack)
    BY <1>2, <2>2, FollowingFramed DEF Leaves
  <2>4. UNCHANGED <<c, bits, halted, want>>
    BY <1>7 DEF AssignFlags
  <2> QED BY <1>1, <2>1, <2>3, <2>4, Stepped
<1>8. CASE Other
  <2>1. phase = "run" /\ Framed(Following, stack)
    BY <1>2, <1>8, FollowingFramed DEF Other, Leaves
  <2>2. /\ Finish(Following, stack, ea, flags, inIsr, delay) /\ c' \in BOOLEAN
        /\ UNCHANGED <<bits, halted, want>>
    BY <1>8 DEF Other, GoOn
  <2> QED BY <1>1, <2>1, <2>2, Stepped
<1>9. CASE Jump
  <2>1. phase = "run" /\ Framed(Target(Current.arg), stack)
    BY <1>2, <1>9, TargetFramed DEF Jump, Goto
  <2>2. /\ Finish(Target(Current.arg), stack, ea, flags, inIsr, delay) /\ halted' \in BOOLEAN
        /\ UNCHANGED <<c, bits, want>>
    BY <1>9 DEF Jump
  <2> QED BY <1>1, <2>1, <2>2, Stepped
<1>10. CASE Branch
  <2>1. phase = "run" /\ Framed(Following, stack) /\ Framed(Target(Current.arg), stack)
    BY <1>2, <1>10, FollowingFramed, TargetFramed DEF Branch, Leaves, Goto
  <2>2. PICK to \in {Following, Target(Current.arg)} : Finish(to, stack, ea, flags, inIsr, delay)
    BY <1>10 DEF Branch
  <2>3. c' \in BOOLEAN /\ UNCHANGED <<bits, halted, want>>
    BY <1>10 DEF Branch
  <2>4. Framed(to, stack)
    BY <2>1, <2>2
  <2> QED BY <1>1, <2>1, <2>2, <2>3, <2>4, Stepped
<1>11. CASE Call
  <2>1. phase = "run" /\ Current.op = "call"
    BY <1>2, <1>11 DEF Call
  <2>2. PICK st : st = Append(stack, Pushed("call", Following, Current.in, FALSE))
    OBVIOUS
  <2>3. Framed(Entry(Current.arg), st)
    BY <2>1, <2>2, CallFramed
  <2>4. Finish(Entry(Current.arg), st, ea, flags, inIsr, delay) /\ UNCHANGED <<c, bits, halted, want>>
    BY <1>11, <2>2 DEF Call
  <2> QED BY <1>1, <2>1, <2>3, <2>4, Stepped
<1>12. CASE Return
  <2>1. phase = "run" /\ Framed(Top.at, Popped)
    BY <1>2, <1>12, LeavingTop DEF Return
  <2>2. Finish(Top.at, Popped, ea, flags, inIsr, delay) /\ UNCHANGED <<c, bits, halted, want>>
    BY <1>12 DEF Return
  <2> QED BY <1>1, <2>1, <2>2, Stepped
<1>13. CASE PushPsw
  <2>1. phase = "run" /\ Current.op = "push_psw"
    BY <1>2, <1>13 DEF PushPsw
  <2>2. PICK st : st = Append(stack, Pushed("psw", pc, FALSE, c))
    OBVIOUS
  <2>3. Framed(Following, st)
    BY <2>1, <2>2, PushFramed
  <2>4. Finish(Following, st, ea, flags, inIsr, delay) /\ UNCHANGED <<c, bits, halted, want>>
    BY <1>13, <2>2 DEF PushPsw
  <2> QED BY <1>1, <2>1, <2>3, <2>4, Stepped
<1>14. CASE PopPsw
  <2>1. phase = "run" /\ Framed(Following, Popped) /\ Top \in Entries
    BY <1>2, <1>14, PopFramed DEF PopPsw
  <2>2. /\ Finish(Following, Popped, ea, flags, inIsr, delay) /\ c' = Top.c
        /\ UNCHANGED <<bits, halted, want>>
    BY <1>14 DEF PopPsw
  <2>3. c' \in BOOLEAN
    BY <2>1, <2>2 DEF Entries
  <2> QED BY <1>1, <2>1, <2>2, <2>3, Stepped
<1>15. CASE ReturnFromInterrupt
  <2>1. phase = "run" /\ Framed(Top.at, Popped)
    BY <1>2, <1>15, LeavingTop DEF ReturnFromInterrupt
  <2>2. Finish(Top.at, Popped, ea, flags, FALSE, TRUE) /\ UNCHANGED <<c, bits, halted, want>>
    BY <1>15 DEF ReturnFromInterrupt
  <2> QED BY <1>1, <2>1, <2>2, Stepped
<1> QED BY <1>3, <1>4, <1>5, <1>6, <1>7, <1>8, <1>9, <1>10, <1>11, <1>12, <1>13, <1>14, <1>15 DEF Step

LEMMA BuildKeepsTypes == ASSUME TypeInv, Build PROVE TypeInv'
<1>1. Compiled'
  BY BuildCompiles DEF TypeInv
<1>2. phase = "build" /\ cpuVars' = cpuVars
  BY DEF Build, BuildEntry, BuildOpen, BuildClose, BuildWhile, BuildEnd, BuildJump, BuildReturn,
         BuildStatement, BuildExit, Takes
<1>3. Idle'
  <2>1. Idle
    BY <1>2 DEF TypeInv, Compiled
  <2> QED BY <1>2, <2>1, IdleStays
<1>4. CpuTypes'
  BY <1>3 DEF Idle, CpuTypes
<1>5. Framed(pc, stack)'
  <2>1. /\ pc' = <<Boot, 1>> /\ stack' = << >> /\ prog' \in Programs
        /\ code'[Boot] = <<I("call", (prog.main)', FALSE), I("label", 0, FALSE), I("jmp", 0, FALSE)>>
    BY <1>1, <1>3 DEF Idle, Compiled, Booted
  <2>2. Boot \in Func \cup {Boot} /\ Boot \in Nat
    BY <2>1, ProgramParts DEF Boot
  <2>3. Len(code'[Boot]) = 3 /\ code'[Boot][1].op = "call" /\ 1 \in 1 .. 3
    BY <2>1 DEF I
  <2>4. << >> \in Seq(Entries) /\ Len(<< >>) = 0
    BY EmptySeq
  <2>5. Place(pc)'
    BY <2>1, <2>2, <2>3 DEF Place
  <2>6. Based(pc, stack, Len(stack))'
    BY <2>1, <2>4 DEF Based
  <2>7. Stacked(stack)'
    BY <2>1, <2>4 DEF Stacked
  <2> QED BY <2>5, <2>6, <2>7 DEF Framed
<1> QED BY <1>1, <1>4, <1>5 DEF TypeInv

LEMMA TypeInvInit == ASSUME Init PROVE TypeInv
<1>1. Compiled
  BY CompiledInit
<1>2. Idle /\ phase = "build"
  BY DEF Init, Idle
<1>3. CpuTypes
  BY <1>2 DEF Idle, CpuTypes
<1> QED BY <1>1, <1>2, <1>3 DEF TypeInv

LEMMA TypeInvStep == ASSUME TypeInv, [Next]_vars PROVE TypeInv'
<1>1. CASE Build
  BY <1>1, BuildKeepsTypes
<1>2. CASE Step
  BY <1>2, RunKeepsTypes
<1>3. CASE UNCHANGED vars
  <2>1. /\ prog' = prog /\ phase' = phase /\ fn' = fn /\ pos' = pos /\ crit' = crit
        /\ loops' = loops /\ code' = code /\ cpuVars' = cpuVars
    BY <1>3 DEF vars, buildVars
  <2>2. /\ pc' = pc /\ c' = c /\ bits' = bits /\ stack' = stack /\ ea' = ea /\ flags' = flags
        /\ inIsr' = inIsr /\ delay' = delay /\ halted' = halted /\ want' = want
    BY <2>1 DEF cpuVars
  <2>3. Compiled'
    BY <2>1, <2>2 DEF TypeInv, Compiled, Booted, Idle, Walking
  <2>4. CpuTypes'
    BY <2>2 DEF TypeInv, CpuTypes
  <2>5. Framed(pc, stack) => Framed(pc, stack)'
    BY <2>1, <2>2, FramedStays
  <2> QED BY <2>1, <2>3, <2>4, <2>5 DEF TypeInv
<1> QED BY <1>1, <1>2, <1>3 DEF Next

LEMMA TypeInvImplies == ASSUME TypeInv PROVE TypeOK
<1>1. /\ prog \in ProgramType /\ phase \in {"build", "run"} /\ fn \in 0 .. N /\ pos \in Nat
      /\ crit \in Seq(Nat) /\ loops \in Seq(Nat) /\ code \in [Func \cup {Boot} -> Seq(Insn)]
  BY ProgramParts DEF TypeInv, Compiled
<1>2. /\ c \in BOOLEAN /\ bits \subseteq Func \X Nat /\ flags \subseteq Source
      /\ {ea, inIsr, delay, halted, want} \subseteq BOOLEAN
  BY DEF TypeInv, CpuTypes
<1>3. pc \in (Func \cup {Boot}) \X Nat /\ stack \in Seq(Entries)
  <2>1. CASE phase = "run"
    BY <2>1, Running DEF Place
  <2>2. CASE phase = "build"
    <3>1. pc = <<Boot, 1>> /\ stack = << >> /\ << >> \in Seq(Entries)
      BY <2>2, EmptySeq DEF TypeInv, Compiled, Idle
    <3> QED BY <3>1
  <2> QED BY <1>1, <2>1, <2>2
<1>4. ASSUME phase = "run"
      PROVE  Matched
  <2>1. Len(stack) > 0 => stack # << >>
    BY EmptySeq
  <2>2. ASSUME NEW op \in {"ret", "reti"}, Current.op = op
        PROVE  stack # << >> /\ Top.kind = (IF op = "ret" THEN "call" ELSE "irq")
    BY <1>4, <2>1, <2>2, LeavingTop
  <2>3. ASSUME Current.op = "pop_psw"
        PROVE  stack # << >> /\ Top.kind = "psw"
    BY <1>4, <2>1, <2>3, PopFramed
  <2> QED BY <2>2, <2>3 DEF Matched
<1> QED BY <1>1, <1>2, <1>3, <1>4 DEF TypeOK

\* Every variable has its shape, and a return, a RETI or a POP PSW finds on the
\* stack what its counterpart pushed, in every program.
THEOREM TypeCorrect == Spec => []TypeOK
<1>1. Init => TypeInv
  BY TypeInvInit
<1>2. TypeInv /\ [Next]_vars => TypeInv'
  BY TypeInvStep
<1>3. TypeInv => TypeOK
  BY TypeInvImplies
<1> QED BY <1>1, <1>2, <1>3, PTL DEF Spec

-----------------------------------------------------------------------------
(***************************************************************************)
(* The lists of open sections and loops that the compiler keeps hold the   *)
(* brackets still open, from the outermost to the innermost.               *)
(***************************************************************************)
LEMMA StillOpenNext ==
  ASSUME NEW p \in Programs, NEW f \in Func, NEW i \in 1 .. Len(p.body[f]), NEW open, NEW close,
         NEW k
  PROVE  k \in StillOpen(p, f, i + 1, open, close) <=>
           /\ k \in StillOpen(p, f, i, open, close) \/ (k = i /\ p.body[f][i].kind = open)
           /\ Nesting(p, f, i + 1, open, close) > Nesting(p, f, k, open, close)
<1> DEFINE d(m) == Nesting(p, f, m, open, close)
<1>1. i \in Nat /\ Len(p.body[f]) \in Nat /\ Positions(p, f, open) \subseteq Nat
  BY ProgramParts DEF Positions
<1>2. i \in Positions(p, f, open) <=> p.body[f][i].kind = open
  BY DEF Positions
<1>3. \A j : j \in StillOpen(p, f, j, open, close) => FALSE
  BY <1>1 DEF StillOpen
<1> HIDE DEF d
<1>4. /\ \A j : j \in StillOpen(p, f, i, open, close) <=>
                  j \in Positions(p, f, open) /\ j < i /\ \A m \in j + 1 .. i : d(m) > d(j)
      /\ \A j : j \in StillOpen(p, f, i + 1, open, close) <=>
                  j \in Positions(p, f, open) /\ j < i + 1 /\ \A m \in j + 1 .. i + 1 : d(m) > d(j)
  BY DEF StillOpen, d
<1>5. ASSUME k \in Nat, k < i
      PROVE  k + 1 .. i + 1 = (k + 1 .. i) \cup {i + 1}
  BY <1>1, <1>5
<1>6. i + 1 .. i + 1 = {i + 1}
  BY <1>1
<1>7. ASSUME k \in Positions(p, f, open)
      PROVE  k \in Nat /\ (k < i + 1 <=> k < i \/ k = i) /\ ~(i < i)
  BY <1>1, <1>7
<1>8. CASE k \in Positions(p, f, open)
  <2>1. CASE k = i
    BY <1>2, <1>4, <1>6, <1>7, <1>8, <2>1 DEF d
  <2>2. CASE k # i
    <3>1. CASE k < i
      BY <1>4, <1>5, <1>7, <1>8, <2>2, <3>1 DEF d
    <3>2. CASE ~(k < i)
      BY <1>4, <1>7, <1>8, <2>2, <3>2 DEF d
    <3> QED BY <3>1, <3>2
  <2> QED BY <2>1, <2>2
<1>9. CASE k \notin Positions(p, f, open)
  BY <1>2, <1>4, <1>9 DEF d
<1> QED BY <1>8, <1>9

\* `list` holds the brackets open before token i, behind d entries 0 for the
\* function itself.
Lists(p, f, i, list, d, open, close) ==
  /\ list \in Seq(Nat) /\ Len(list) = Nesting(p, f, i, open, close) + d
  /\ \A j \in 1 .. Len(list) : j > d =>
       /\ list[j] \in StillOpen(p, f, i, open, close)
       /\ Nesting(p, f, list[j], open, close) = j - 1 - d
  /\ \A k \in StillOpen(p, f, i, open, close) : \E j \in 1 .. Len(list) : j > d /\ list[j] = k
  /\ \A j \in 1 .. Len(list) : j <= d => list[j] = 0
  /\ \A j, k \in 1 .. Len(list) : j < k => list[j] < list[k]

\* What is known of token i and of the list there.
Counting(p, f, i, list, d, open, close) ==
  /\ Nesting(p, f, i, open, close) \in Nat /\ Nesting(p, f, i + 1, open, close) \in Nat
  /\ Nesting(p, f, i + 1, open, close)
       = Nesting(p, f, i, open, close) + Turn(p, f, i, open, close)
  /\ Len(list) \in Nat /\ i \in Nat /\ i > 0
  /\ \A k \in StillOpen(p, f, i, open, close) : k \in Nat /\ k < i

LEMMA CountingAt ==
  ASSUME NEW p \in Programs, NEW f \in Func, NEW i \in 1 .. Len(p.body[f]), NEW list \in Seq(Nat),
         NEW d, NEW open, NEW close,
         <<open, close>> = <<"open", "close">> \/ <<open, close>> = <<"while", "end">>
  PROVE  Counting(p, f, i, list, d, open, close)
<1>1. i \in Nat /\ i > 0 /\ Positions(p, f, open) \subseteq Nat /\ Len(list) \in Nat /\ i + 1 \in Nat
  BY ProgramParts, LenProperties DEF Positions
<1>2. open # close
  OBVIOUS
<1>3. Nesting(p, f, i + 1, open, close) = Nesting(p, f, i, open, close) + Turn(p, f, i, open, close)
  BY <1>2, NestingTurns
<1>4. Nesting(p, f, i, open, close) \in Int /\ Nesting(p, f, i + 1, open, close) \in Int
  BY <1>1, NestingType
<1>5. Nesting(p, f, i, open, close) >= 0 /\ Nesting(p, f, i + 1, open, close) >= 0
  <2>1. CASE open = "open" /\ close = "close"
    BY <2>1, BracketsLeft
  <2>2. CASE open = "while" /\ close = "end"
    BY <2>2, BracketsLeft
  <2> QED BY <2>1, <2>2
<1>6. \A k \in StillOpen(p, f, i, open, close) : k \in Nat /\ k < i
  BY <1>1 DEF StillOpen
<1> QED BY <1>1, <1>3, <1>4, <1>5, <1>6 DEF Counting

LEMMA ListsOpen ==
  ASSUME NEW p \in Programs, NEW f \in Func, NEW i \in 1 .. Len(p.body[f]), NEW list,
         NEW d \in {0, 1}, NEW open, NEW close,
         Lists(p, f, i, list, d, open, close), Counting(p, f, i, list, d, open, close),
         p.body[f][i].kind = open
  PROVE  Lists(p, f, i + 1, Append(list, i), d, open, close)
<1> DEFINE D(m) == Nesting(p, f, m, open, close)
           t == Append(list, i)
           n == Len(list)
<1>1. Turn(p, f, i, open, close) = 1
  BY DEF Turn
<1>2. D(i) \in Nat /\ D(i + 1) = D(i) + 1 /\ n \in Nat /\ i \in Nat /\ i > 0 /\ n = D(i) + d
  BY <1>1 DEF Counting, Lists
<1>3. /\ t \in Seq(Nat) /\ Len(t) = n + 1 /\ t[n + 1] = i
      /\ \A m \in 1 .. n : t[m] = list[m]
  BY <1>2, Longer DEF Lists
<1>4. \A k : k \in StillOpen(p, f, i + 1, open, close) <=>
               (k \in StillOpen(p, f, i, open, close) \/ k = i) /\ D(i + 1) > D(k)
  BY StillOpenNext
<1>5. /\ \A j \in 1 .. n : j > d => list[j] \in StillOpen(p, f, i, open, close) /\ D(list[j]) = j - 1 - d
      /\ \A k \in StillOpen(p, f, i, open, close) : \E j \in 1 .. n : j > d /\ list[j] = k
      /\ \A j \in 1 .. n : j <= d => list[j] = 0
      /\ \A j, k \in 1 .. n : j < k => list[j] < list[k]
  BY DEF Lists
<1>6. \A k \in StillOpen(p, f, i, open, close) : k \in Nat /\ k < i
  BY DEF Counting
<1> HIDE DEF D, t, n
<1>7. \A j \in 1 .. n + 1 : j \in 1 .. n \/ j = n + 1
  BY <1>2
<1>8. n + 1 \in 1 .. n + 1 /\ n + 1 > d /\ D(i) = n + 1 - 1 - d /\ D(i + 1) > D(i) /\ d <= n
      /\ 1 .. n \subseteq 1 .. n + 1
  BY <1>2
<1>9. ASSUME NEW j \in 1 .. n + 1, j > d
      PROVE  t[j] \in StillOpen(p, f, i + 1, open, close) /\ D(t[j]) = j - 1 - d
  <2>1. CASE j \in 1 .. n
    <3>1. list[j] \in StillOpen(p, f, i, open, close) /\ D(list[j]) = j - 1 - d /\ t[j] = list[j]
      BY <1>3, <1>5, <1>9, <2>1
    <3>2. D(i + 1) > j - 1 - d
      BY <1>2, <2>1
    <3> QED BY <1>4, <3>1, <3>2
  <2>2. CASE j = n + 1
    <3>1. t[j] = i
      BY <1>3, <2>2, Zenon
    <3>3. j - 1 - d = n + 1 - 1 - d
      BY <1>2, <2>2, SMT
    <3>2. i \in StillOpen(p, f, i + 1, open, close)
      BY <1>4, <1>8
    <3> QED BY <1>8, <3>1, <3>2, <3>3
  <2> QED BY <1>7, <2>1, <2>2
<1>10. ASSUME NEW k \in StillOpen(p, f, i + 1, open, close)
       PROVE  \E j \in 1 .. n + 1 : j > d /\ t[j] = k
  <2>1. CASE k = i
    BY <1>3, <1>8, <2>1
  <2>2. CASE k # i
    BY <1>3, <1>4, <1>5, <1>8, <2>2
  <2> QED BY <2>1, <2>2
<1>11. ASSUME NEW j \in 1 .. n + 1, j <= d
       PROVE  t[j] = 0
  <2>1. j \in 1 .. n
    BY <1>2, <1>8, <1>11
  <2> QED BY <1>3, <1>5, <1>11, <2>1
<1>12. ASSUME NEW j \in 1 .. n + 1, NEW k \in 1 .. n + 1, j < k
       PROVE  t[j] < t[k]
  <2>1. j \in 1 .. n
    BY <1>2, <1>12
  <2>2. CASE k \in 1 .. n
    BY <1>3, <1>5, <1>12, <2>1, <2>2
  <2>3. CASE k = n + 1
    <3>1. list[j] < i
      <4>1. CASE j > d
        BY <1>5, <1>6, <2>1, <4>1
      <4>2. CASE ~(j > d)
        <5>1. j <= d
          BY <1>2, <2>1, <4>2
        <5> QED BY <1>2, <1>5, <2>1, <5>1
      <4> QED BY <4>1, <4>2
    <3> QED BY <1>3, <2>1, <2>3, <3>1
  <2> QED BY <1>7, <2>2, <2>3
<1>13. Len(t) = D(i + 1) + d
  BY <1>2, <1>3
<1> QED BY <1>3, <1>9, <1>10, <1>11, <1>12, <1>13 DEF Lists, D, t

LEMMA ListsClose ==
  ASSUME NEW p \in Programs, NEW f \in Func, NEW i \in 1 .. Len(p.body[f]), NEW list,
         NEW d \in {0, 1}, NEW open, NEW close, open # close,
         Lists(p, f, i, list, d, open, close), Counting(p, f, i, list, d, open, close),
         p.body[f][i].kind = close
  PROVE  /\ Lists(p, f, i + 1, SubSeq(list, 1, Len(list) - 1), d, open, close)
         /\ Len(list) > d
<1> DEFINE D(m) == Nesting(p, f, m, open, close)
           t == SubSeq(list, 1, Len(list) - 1)
           n == Len(list)
<1>1. Turn(p, f, i, open, close) = -1
  BY DEF Turn
<1>2. /\ D(i) \in Nat /\ D(i + 1) \in Nat /\ D(i + 1) = D(i) - 1 /\ n \in Nat /\ i \in Nat
      /\ n = D(i) + d /\ n > d
  BY <1>1 DEF Counting, Lists
<1>3. t \in Seq(Nat) /\ Len(t) = n - 1 /\ \A m \in 1 .. n - 1 : t[m] = list[m]
  BY <1>2, Shorter DEF Lists
<1>4. \A k : k \in StillOpen(p, f, i + 1, open, close) <=>
               k \in StillOpen(p, f, i, open, close) /\ D(i + 1) > D(k)
  <2>1. p.body[f][i].kind # open
    OBVIOUS
  <2> QED BY <2>1, StillOpenNext
<1>5. /\ \A j \in 1 .. n : j > d => list[j] \in StillOpen(p, f, i, open, close) /\ D(list[j]) = j - 1 - d
      /\ \A k \in StillOpen(p, f, i, open, close) : \E j \in 1 .. n : j > d /\ list[j] = k
      /\ \A j \in 1 .. n : j <= d => list[j] = 0
      /\ \A j, k \in 1 .. n : j < k => list[j] < list[k]
  BY DEF Lists
<1> HIDE DEF D, t, n
<1>6. 1 .. n - 1 \subseteq 1 .. n
  BY <1>2
<1>7. ASSUME NEW j \in 1 .. n - 1, j > d
      PROVE  t[j] \in StillOpen(p, f, i + 1, open, close) /\ D(t[j]) = j - 1 - d
  <2>1. list[j] \in StillOpen(p, f, i, open, close) /\ D(list[j]) = j - 1 - d /\ t[j] = list[j]
    BY <1>3, <1>5, <1>6, <1>7
  <2>2. D(i + 1) > j - 1 - d
    BY <1>2
  <2> QED BY <1>4, <2>1, <2>2
<1>8. ASSUME NEW k \in StillOpen(p, f, i + 1, open, close)
      PROVE  \E j \in 1 .. n - 1 : j > d /\ t[j] = k
  <2>1. k \in StillOpen(p, f, i, open, close) /\ D(i + 1) > D(k)
    BY <1>4
  <2>2. PICK j \in 1 .. n : j > d /\ list[j] = k
    BY <1>5, <2>1
  <2>3. D(k) = j - 1 - d
    BY <1>5, <2>2
  <2>4. j \in 1 .. n - 1
    BY <1>2, <2>1, <2>3
  <2> QED BY <1>3, <2>2, <2>4
<1>9. Len(t) = D(i + 1) + d
  BY <1>2, <1>3
<1>10. /\ \A j \in 1 .. n - 1 : j <= d => t[j] = 0
       /\ \A j, k \in 1 .. n - 1 : j < k => t[j] < t[k]
  BY <1>3, <1>5, <1>6
<1>11. Lists(p, f, i + 1, t, d, open, close)
  BY <1>3, <1>7, <1>8, <1>9, <1>10 DEF Lists, D
<1> QED BY <1>2, <1>11 DEF t, n

LEMMA ListsStay ==
  ASSUME NEW p \in Programs, NEW f \in Func, NEW i \in 1 .. Len(p.body[f]), NEW list,
         NEW d \in {0, 1}, NEW open, NEW close,
         Lists(p, f, i, list, d, open, close), Counting(p, f, i, list, d, open, close),
         p.body[f][i].kind \notin {open, close}
  PROVE  Lists(p, f, i + 1, list, d, open, close)
<1> DEFINE D(m) == Nesting(p, f, m, open, close)
           n == Len(list)
<1>1. Turn(p, f, i, open, close) = 0
  BY DEF Turn
<1>2. D(i) \in Nat /\ D(i + 1) = D(i) /\ n \in Nat /\ n = D(i) + d
  BY <1>1 DEF Counting, Lists
<1>4. \A k : k \in StillOpen(p, f, i + 1, open, close) <=>
               k \in StillOpen(p, f, i, open, close) /\ D(i + 1) > D(k)
  BY StillOpenNext
<1>5. /\ \A j \in 1 .. n : j > d => list[j] \in StillOpen(p, f, i, open, close) /\ D(list[j]) = j - 1 - d
      /\ \A k \in StillOpen(p, f, i, open, close) : \E j \in 1 .. n : j > d /\ list[j] = k
  BY DEF Lists
<1> HIDE DEF D
<1>6. ASSUME NEW j \in 1 .. n, j > d
      PROVE  list[j] \in StillOpen(p, f, i + 1, open, close)
  <2>1. list[j] \in StillOpen(p, f, i, open, close) /\ D(list[j]) = j - 1 - d
    BY <1>5, <1>6
  <2>2. D(i + 1) > j - 1 - d
    BY <1>2
  <2> QED BY <1>4, <2>1, <2>2
<1>7. \A k \in StillOpen(p, f, i + 1, open, close) : \E j \in 1 .. n : j > d /\ list[j] = k
  BY <1>4, <1>5
<1> QED BY <1>2, <1>6, <1>7 DEF Lists, D

\* What is open at the first token: the function itself, if d is 1.
AtFirst(d) == IF d = 1 THEN <<0>> ELSE << >>

LEMMA ListsStart ==
  ASSUME NEW p \in Programs, NEW f \in Func, NEW d \in {0, 1}, NEW list, NEW open, NEW close,
         list = AtFirst(d)
  PROVE  Lists(p, f, 1, list, d, open, close)
<1>1. list \in Seq(Nat) /\ Len(list) = d /\ \A j \in 1 .. d : list[j] = 0
  <2>1. CASE d = 1
    BY <2>1 DEF AtFirst
  <2>2. CASE d = 0
    BY <2>2 DEF AtFirst
  <2> QED BY <2>1, <2>2
<1>2. Nesting(p, f, 1, open, close) = 0
  BY NestingStarts
<1>3. StillOpen(p, f, 1, open, close) = {}
  BY ProgramParts DEF StillOpen, Positions
<1>4. \A j, k \in 1 .. d : ~(j < k) /\ ~(j > d)
  OBVIOUS
<1> QED BY <1>1, <1>2, <1>3, <1>4 DEF Lists

-----------------------------------------------------------------------------
(***************************************************************************)
(* Which sections are open at every instruction: a set of sections before  *)
(* each instruction and one behind the last, that the instructions change  *)
(* the way they open and close sections.                                   *)
(***************************************************************************)
\* Functions that sections may call.
Hushed(p) == CHOOSE Q \in SUBSET Func : QuietIn(p, Q)

Elements(list) == {list[j] : j \in 1 .. Len(list)}

\* The sections open before token i of f.
SetBefore(p, f, i) ==
  IF f = Boot THEN {}
  ELSE Sections(p, f, i) \cup (IF f \in p.critical /\ i > 0 THEN {0} ELSE {})

Innermost(L, v) == v \in L /\ \A y \in L : y <= v
Outermost(L, v) == v \in L /\ \A y \in L : v <= y

\* Instruction x of f stands where the sections L are open, and M are open
\* behind it.
Within(p, f, x, L, M) ==
  /\ x.op \notin Leaves \cup {"mov_bit_c", "mov_ea_c"} => M = L
  /\ x.op \notin Bracket \cup {"label"} => (x.in <=> L # {})
  /\ x.op \in Bracket => ~x.in
  /\ x.op = "mov_bit_c" => x.arg \notin L /\ M = L \cup {x.arg} /\ \A y \in L : y < x.arg
  /\ x.op = "mov_c_bit" => Innermost(L, x.arg)
  /\ x.op = "mov_ea_c" => \E v : Innermost(L, v) /\ M = L \ {v}
  /\ x.op \in {"ret", "reti", "push_psw", "pop_psw"} => L = {}
  /\ x.op \in {"setb_ea", "clr_ea"} => L = {} /\ f \notin Hushed(p)
  /\ x.op = "call" => (L # {} \/ f \in Hushed(p) => x.arg \in Hushed(p))
  /\ x.op \in Goto \cup {"label"} => L = SetBefore(p, f, x.arg \div 2)

Track(p, f, s, u) ==
  /\ u \in [1 .. Len(s) + 1 -> SUBSET Nat]
  /\ \A i \in 1 .. Len(s) : Within(p, f, s[i], u[i], u[i + 1])

Between(p, f, s, L, M) == \E u : Track(p, f, s, u) /\ u[1] = L /\ u[Len(s) + 1] = M

LEMMA BetweenJoined ==
  ASSUME NEW p, NEW f, NEW s \in Seq(Insn), NEW b \in Seq(Insn), NEW L, NEW K, NEW M,
         Between(p, f, s, L, K), Between(p, f, b, K, M)
  PROVE  Between(p, f, s \o b, L, M)
<1>1. PICK u : Track(p, f, s, u) /\ u[1] = L /\ u[Len(s) + 1] = K
  BY DEF Between
<1>2. PICK w : Track(p, f, b, w) /\ w[1] = K /\ w[Len(b) + 1] = M
  BY DEF Between
<1>3. PICK t, n, m : t = s \o b /\ n = Len(s) /\ m = Len(b)
  OBVIOUS
<1>4. /\ t \in Seq(Insn) /\ Len(t) = n + m /\ n \in Nat /\ m \in Nat
      /\ \A i \in 1 .. n : t[i] = s[i]
      /\ \A i \in 1 .. m : t[i + n] = b[i]
  BY <1>3, Concatenated
<1>5. /\ u \in [1 .. n + 1 -> SUBSET Nat] /\ \A i \in 1 .. n : Within(p, f, s[i], u[i], u[i + 1])
      /\ w \in [1 .. m + 1 -> SUBSET Nat] /\ \A i \in 1 .. m : Within(p, f, b[i], w[i], w[i + 1])
      /\ u[n + 1] = w[1]
  BY <1>1, <1>2, <1>3 DEF Track
<1> DEFINE z == [i \in 1 .. n + m + 1 |-> IF i <= n THEN u[i] ELSE w[i - n]]
<1>6. z \in [1 .. n + m + 1 -> SUBSET Nat]
  <2>1. ASSUME NEW i \in 1 .. n + m + 1
        PROVE  (IF i <= n THEN u[i] ELSE w[i - n]) \in SUBSET Nat
    <3>1. i <= n => i \in 1 .. n + 1
      BY <1>4
    <3>2. ~(i <= n) => i - n \in 1 .. m + 1
      BY <1>4
    <3> QED BY <1>5, <3>1, <3>2
  <2> QED BY <2>1
<1>7. /\ \A i \in 1 .. n + 1 : z[i] = u[i]
      /\ \A i \in 1 .. m + 1 : z[i + n] = w[i]
  <2>1. ASSUME NEW i \in 1 .. n + 1
        PROVE  z[i] = u[i]
    <3>1. i \in 1 .. n + m + 1
      BY <1>4
    <3>2. i <= n \/ i = n + 1
      BY <1>4
    <3>3. n + 1 - n = 1 /\ ~(n + 1 <= n)
      BY <1>4
    <3>4. z[i] = IF i <= n THEN u[i] ELSE w[i - n]
      BY <3>1
    <3> HIDE DEF z
    <3>5. CASE i <= n
      BY <3>4, <3>5
    <3>6. CASE i = n + 1
      <4>1. z[i] = w[1]
        <5>1. ~(i <= n) /\ i - n = 1
          BY <1>4, <3>6
        <5> QED BY <3>4, <5>1
      <4> QED BY <1>5, <3>6, <4>1
    <3> QED BY <3>2, <3>5, <3>6
  <2>2. ASSUME NEW i \in 1 .. m + 1
        PROVE  z[i + n] = w[i]
    <3>1. i + n \in 1 .. n + m + 1 /\ ~(i + n <= n) /\ i + n - n = i
      BY <1>4
    <3>2. PICK k : k = i + n
      OBVIOUS
    <3>3. k \in 1 .. n + m + 1 /\ ~(k <= n) /\ k - n = i
      BY <1>4, <3>2
    <3>4. z[k] = IF k <= n THEN u[k] ELSE w[k - n]
      BY <3>3
    <3> HIDE DEF z
    <3> QED BY <3>2, <3>3, <3>4
  <2> QED BY <2>1, <2>2
<1> HIDE DEF z
<1>8. ASSUME NEW i \in 1 .. Len(t)
      PROVE  Within(p, f, t[i], z[i], z[i + 1])
  <2>1. CASE i <= n
    <3>1. i \in 1 .. n /\ i \in 1 .. n + 1 /\ i + 1 \in 1 .. n + 1
      BY <1>4, <2>1
    <3> QED BY <1>4, <1>5, <1>7, <3>1
  <2>2. CASE ~(i <= n)
    <3>1. PICK k : k = i - n
      OBVIOUS
    <3>2. k \in 1 .. m /\ k + n = i /\ k \in 1 .. m + 1 /\ k + 1 \in 1 .. m + 1 /\ (k + 1) + n = i + 1
      BY <1>4, <2>2, <3>1
    <3>3. t[i] = b[k] /\ z[i] = w[k] /\ z[i + 1] = w[k + 1]
      <4>1. t[k + n] = b[k] /\ z[k + n] = w[k]
        BY <1>4, <1>7, <3>2
      <4>2. z[(k + 1) + n] = w[k + 1]
        BY <1>7, <3>2
      <4> QED BY <3>2, <4>1, <4>2
    <3>4. Within(p, f, b[k], w[k], w[k + 1])
      BY <1>5, <3>2
    <3> QED BY <3>3, <3>4
  <2> QED BY <2>1, <2>2
<1>9. z[1] = L /\ z[Len(t) + 1] = M
  <2>1. 1 \in 1 .. n + 1 /\ m + 1 \in 1 .. m + 1 /\ (m + 1) + n = Len(t) + 1
    BY <1>4
  <2> QED BY <1>1, <1>2, <1>3, <1>7, <2>1
<1>10. Track(p, f, t, z)
  BY <1>4, <1>6, <1>8 DEF Track
<1> QED BY <1>3, <1>9, <1>10 DEF Between

LEMMA BetweenNothing ==
  ASSUME NEW p, NEW f, NEW L \in SUBSET Nat
  PROVE  Between(p, f, << >>, L, L)
<1> DEFINE u == [i \in 1 .. 1 |-> L]
<1>1. Len(<< >>) = 0 /\ 0 + 1 = 1 /\ 1 .. 0 = {}
  OBVIOUS
<1>2. u[1] = L /\ u \in [1 .. 1 -> SUBSET Nat]
  <2>1. 1 \in 1 .. 1
    OBVIOUS
  <2> QED BY <2>1
<1> HIDE DEF u
<1>3. PICK s : s = << >>
  OBVIOUS
<1>4. Len(s) = 0
  BY <1>1, <1>3
<1>5. Track(p, f, s, u)
  BY <1>1, <1>2, <1>4 DEF Track
<1> QED BY <1>1, <1>2, <1>3, <1>4, <1>5 DEF Between

LEMMA BetweenOne ==
  ASSUME NEW p, NEW f, NEW x \in Insn, NEW L \in SUBSET Nat, NEW M \in SUBSET Nat,
         Within(p, f, x, L, M)
  PROVE  Between(p, f, <<x>>, L, M)
<1> DEFINE u == [i \in 1 .. 2 |-> IF i = 1 THEN L ELSE M]
<1>1. PICK s : s = <<x>>
  OBVIOUS
<1>2. Len(s) = 1 /\ s[1] = x
  BY <1>1, OneInsn
<1>3. 1 + 1 = 2 /\ 1 .. 1 = {1} /\ 1 \in 1 .. 2 /\ 2 \in 1 .. 2
  OBVIOUS
<1>4. u[1] = L /\ u[2] = M /\ u \in [1 .. 2 -> SUBSET Nat]
  <2>1. \A i \in 1 .. 2 : (IF i = 1 THEN L ELSE M) \in SUBSET Nat
    OBVIOUS
  <2>2. u[1] = L /\ u[2] = M
    BY <1>3
  <2> QED BY <2>1, <2>2
<1> HIDE DEF u
<1>5. Track(p, f, s, u)
  BY <1>2, <1>3, <1>4 DEF Track
<1> QED BY <1>1, <1>2, <1>3, <1>4, <1>5 DEF Between

LEMMA BetweenTwo ==
  ASSUME NEW p, NEW f, NEW x \in Insn, NEW y \in Insn,
         NEW L \in SUBSET Nat, NEW K \in SUBSET Nat, NEW M \in SUBSET Nat,
         Within(p, f, x, L, K), Within(p, f, y, K, M)
  PROVE  Between(p, f, <<x, y>>, L, M)
<1>1. Between(p, f, <<x>>, L, K) /\ Between(p, f, <<y>>, K, M)
  BY BetweenOne
<1>2. <<x>> \in Seq(Insn) /\ <<y>> \in Seq(Insn)
  BY OneInsn
<1>3. Between(p, f, <<x>> \o <<y>>, L, M)
  BY <1>1, <1>2, BetweenJoined
<1>4. <<x>> \o <<y>> = <<x, y>>
  <2>1. PICK s, b, t : s = <<x>> /\ b = <<y>> /\ t = <<x, y>>
    OBVIOUS
  <2>2. /\ s \in Seq(Insn) /\ Len(s) = 1 /\ s[1] = x
        /\ b \in Seq(Insn) /\ Len(b) = 1 /\ b[1] = y
        /\ t \in Seq(Insn) /\ Len(t) = 2 /\ t[1] = x /\ t[2] = y
    BY <2>1, OneInsn, TwoInsns
  <2>3. 1 \in 1 .. 1 /\ 1 + 1 = 2 /\ 1 .. 2 = {1, 2}
    OBVIOUS
  <2>4. s \o b \in Seq(Insn) /\ Len(s \o b) = 2 /\ (s \o b)[1] = x /\ (s \o b)[2] = y
    <3>1. /\ s \o b \in Seq(Insn) /\ Len(s \o b) = Len(s) + Len(b)
          /\ \A i \in 1 .. Len(s) : (s \o b)[i] = s[i]
          /\ \A i \in 1 .. Len(b) : (s \o b)[i + Len(s)] = b[i]
      <4>1. s \in Seq(Insn) /\ b \in Seq(Insn)
        BY <2>2
      <4> QED BY <4>1, Concatenated
    <3> QED BY <2>2, <2>3, <3>1
  <2>5. s \o b = t
    BY <2>2, <2>3, <2>4, SeqEqual
  <2> QED BY <2>1, <2>5
<1> QED BY <1>3, <1>4

\* The pieces the compiler writes.
LEMMA EnterBetween ==
  ASSUME NEW p \in Programs, NEW f \in Func, NEW v \in Nat, NEW L \in SUBSET Nat,
         L = SetBefore(p, f, v), v \notin L, \A y \in L : y < v
  PROVE  Between(p, f, CritEnter(v), L, L \cup {v})
<1>1. PICK s : s = CritEnter(v)
  OBVIOUS
<1>2. Entering(s, v)
  BY <1>1, EnterInsns
<1>3. AfterEa(v) \div 2 = v
  <2>1. (2 * v) \div 2 = v
    OBVIOUS
  <2> QED BY <2>1 DEF AfterEa
<1> DEFINE u == [i \in 1 .. 6 |-> IF i = 6 THEN L \cup {v} ELSE L]
<1>4. /\ u[1] = L /\ u[2] = L /\ u[3] = L /\ u[4] = L /\ u[5] = L /\ u[6] = L \cup {v}
      /\ u \in [1 .. 6 -> SUBSET Nat]
  <2>1. PICK M : M = L \cup {v}
    OBVIOUS
  <2>2. M \in SUBSET Nat
    BY <2>1
  <2>3. \A i \in 1 .. 6 : (IF i = 6 THEN M ELSE L) \in SUBSET Nat
    BY <2>2
  <2>4. u = [i \in 1 .. 6 |-> IF i = 6 THEN M ELSE L]
    BY <2>1
  <2>5. 1 \in 1 .. 6 /\ 2 \in 1 .. 6 /\ 3 \in 1 .. 6 /\ 4 \in 1 .. 6 /\ 5 \in 1 .. 6 /\ 6 \in 1 .. 6
    OBVIOUS
  <2> HIDE DEF u
  <2> QED BY <2>1, <2>3, <2>4, <2>5
<1> HIDE DEF u
<1>5. Within(p, f, s[1], L, L)
  BY <1>2 DEF Within, Entering, Leaves, Bracket, Goto
<1>6. Within(p, f, s[2], L, L)
  BY <1>2, <1>3 DEF Within, Entering, Leaves, Bracket, Goto
<1>7. Within(p, f, s[3], L, L)
  BY <1>2 DEF Within, Entering, Leaves, Bracket, Goto
<1>8. Within(p, f, s[4], L, L)
  BY <1>2, <1>3 DEF Within, Entering, Leaves, Bracket, Goto
<1>9. Within(p, f, s[5], L, L \cup {v})
  BY <1>2 DEF Within, Entering, Leaves, Bracket, Goto
<1>10. 1 .. 5 = {1, 2, 3, 4, 5} /\ 1 + 1 = 2 /\ 2 + 1 = 3 /\ 3 + 1 = 4 /\ 4 + 1 = 5 /\ 5 + 1 = 6
  OBVIOUS
<1>11. Len(s) = 5
  BY <1>2 DEF Entering
<1>12. \A i \in 1 .. 5 : Within(p, f, s[i], u[i], u[i + 1])
  BY <1>4, <1>5, <1>6, <1>7, <1>8, <1>9, <1>10
<1>13. Track(p, f, s, u)
  BY <1>4, <1>10, <1>11, <1>12 DEF Track
<1> QED BY <1>1, <1>4, <1>10, <1>11, <1>13 DEF Between

LEMMA ExitWithin ==
  ASSUME NEW p, NEW f, NEW v \in Nat, NEW L \in SUBSET Nat, NEW M, Innermost(L, v), M = L \ {v}
  PROVE  /\ Within(p, f, I("mov_c_bit", v, FALSE), L, L)
         /\ Within(p, f, I("mov_ea_c", 0, FALSE), L, M)
<1>1. /\ I("mov_c_bit", v, FALSE).op = "mov_c_bit" /\ I("mov_c_bit", v, FALSE).arg = v
      /\ ~I("mov_c_bit", v, FALSE).in
  BY DEF I
<1>2. I("mov_ea_c", 0, FALSE).op = "mov_ea_c" /\ ~I("mov_ea_c", 0, FALSE).in
  BY DEF I
<1>3. Within(p, f, I("mov_c_bit", v, FALSE), L, L)
  BY <1>1 DEF Within, Leaves, Bracket, Goto
<1>4. Within(p, f, I("mov_ea_c", 0, FALSE), L, M)
  BY <1>2 DEF Within, Leaves, Bracket, Goto
<1> QED BY <1>3, <1>4

LEMMA CloseBetween ==
  ASSUME NEW p, NEW f, NEW v \in Nat, NEW L \in SUBSET Nat, Innermost(L, v)
  PROVE  Between(p, f, CritExit(v), L, L \ {v})
<1> DEFINE x == I("mov_c_bit", v, FALSE)
           y == I("mov_ea_c", 0, FALSE)
<1>1. x \in Insn /\ y \in Insn
  BY OutsideInsn
<1>2. Within(p, f, x, L, L) /\ Within(p, f, y, L, L \ {v})
  BY ExitWithin
<1>3. CritExit(v) = <<x, y>> /\ L \ {v} \in SUBSET Nat
  BY DEF CritExit
<1> HIDE DEF x, y
<1> QED BY <1>1, <1>2, <1>3, BetweenTwo

LEMMA ExitAllBetween ==
  ASSUME NEW p, NEW f, NEW list \in Seq(Nat),
         \A j, k \in 1 .. Len(list) : j < k => list[j] < list[k]
  PROVE  Between(p, f, ExitAll(list), Elements(list), {})
<1>1. PICK s, n : s = ExitAll(list) /\ n = Len(list)
  OBVIOUS
<1>2. /\ s \in Seq(Insn) /\ Len(s) = 2 * n /\ n \in Nat
      /\ \A q \in 1 .. n : /\ s[2 * q - 1] = I("mov_c_bit", list[n - q + 1], FALSE)
                           /\ s[2 * q] = I("mov_ea_c", 0, FALSE)
  BY <1>1, ExitAllAt
<1>3. \A j \in 1 .. n : list[j] \in Nat
  BY <1>1, ElementOfSeq
<1> DEFINE Part(m) == {list[j] : j \in 1 .. m}
           u == [k \in 1 .. 2 * n + 1 |-> Part(n - (k - 1) \div 2)]
<1>4. \A m \in Int : m <= n => Part(m) \in SUBSET Nat
  <2>1. \A m \in Int : m <= n => 1 .. m \subseteq 1 .. n
    BY <1>2
  <2> QED BY <1>3, <2>1
<1>5. u \in [1 .. 2 * n + 1 -> SUBSET Nat]
  <2>1. \A k \in 1 .. 2 * n + 1 : n - (k - 1) \div 2 \in Int /\ n - (k - 1) \div 2 <= n
    BY <1>2
  <2> HIDE DEF Part
  <2> QED BY <1>4, <2>1
<1>6. ASSUME NEW q \in 1 .. n
      PROVE  /\ u[2 * q - 1] = Part(n - q + 1) /\ u[2 * q] = Part(n - q + 1)
             /\ u[2 * q + 1] = Part(n - q) /\ n - q + 1 \in 1 .. n
             /\ 2 * q - 1 + 1 = 2 * q
  <2>1. PICK m \in Nat : m = q - 1
    BY <1>2
  <2>2. /\ 2 * q - 1 \in 1 .. 2 * n + 1 /\ 2 * q \in 1 .. 2 * n + 1 /\ 2 * q + 1 \in 1 .. 2 * n + 1
        /\ (2 * q - 1) - 1 = 2 * m /\ (2 * q) - 1 = 2 * m + 1 /\ (2 * q + 1) - 1 = 2 * q
        /\ (2 * m) \div 2 = m /\ (2 * m + 1) \div 2 = m /\ (2 * q) \div 2 = q
        /\ n - m = n - q + 1 /\ n - q + 1 \in 1 .. n /\ 2 * q - 1 + 1 = 2 * q
    BY <1>2, <2>1
  <2> HIDE DEF Part
  <2> QED BY <2>2
<1> HIDE DEF u
<1>7. ASSUME NEW q \in 1 .. n
      PROVE  /\ Within(p, f, s[2 * q - 1], u[2 * q - 1], u[2 * q])
             /\ Within(p, f, s[2 * q], u[2 * q], u[2 * q + 1])
  <2>1. PICK m : m = n - q + 1
    OBVIOUS
  <2>2. /\ m \in 1 .. n /\ n - q = m - 1 /\ m \in Int /\ m <= n /\ m - 1 \in Int /\ m - 1 <= n
        /\ 1 .. m - 1 \subseteq 1 .. n /\ 1 .. m \subseteq 1 .. n
        /\ \A j \in 1 .. m : j = m \/ (j \in 1 .. m - 1 /\ j < m)
        /\ \A j \in 1 .. m - 1 : j \in 1 .. m /\ j < m
    BY <1>2, <2>1
  <2>3. PICK v : v = list[m]
    OBVIOUS
  <2>4. v \in Nat /\ \A j \in 1 .. m - 1 : list[j] < v /\ list[j] \in Nat
    BY <1>1, <1>3, <2>2, <2>3
  <2>5. Innermost(Part(m), v)
    <3>1. v \in Part(m)
      BY <2>2, <2>3
    <3>2. ASSUME NEW j \in 1 .. m
          PROVE  list[j] <= v
      <4>1. CASE j = m
        BY <2>3, <2>4, <4>1
      <4>2. CASE j \in 1 .. m - 1
        BY <2>4, <4>2
      <4> QED BY <2>2, <4>1, <4>2
    <3> QED BY <3>1, <3>2 DEF Innermost
  <2>6. Part(m - 1) = Part(m) \ {v}
    <3>1. \A y \in Part(m - 1) : y \in Part(m) /\ y # v
      BY <2>2, <2>4
    <3>2. \A y \in Part(m) : y # v => y \in Part(m - 1)
      BY <2>2, <2>3
    <3>3. v \notin Part(m - 1)
      BY <3>1
    <3> HIDE DEF Part
    <3> QED BY <3>1, <3>2, <3>3
  <2>7. Part(m) \in SUBSET Nat
    BY <1>4, <2>2
  <2> HIDE DEF Part
  <2>8. /\ Within(p, f, I("mov_c_bit", v, FALSE), Part(m), Part(m))
        /\ Within(p, f, I("mov_ea_c", 0, FALSE), Part(m), Part(m - 1))
    BY <2>4, <2>5, <2>6, <2>7, ExitWithin
  <2> QED BY <1>2, <1>6, <2>1, <2>2, <2>3, <2>8
<1>8. ASSUME NEW k \in 1 .. Len(s)
      PROVE  Within(p, f, s[k], u[k], u[k + 1])
  <2>0. k \in Nat /\ k > 0
    BY <1>2
  <2>1. PICK q \in Nat : q > 0 /\ (k = 2 * q - 1 \/ k = 2 * q)
    BY <2>0, Halved
  <2>2. q \in 1 .. n /\ 2 * q - 1 + 1 = 2 * q
    BY <1>2, <2>1
  <2> QED BY <1>7, <2>1, <2>2
<1>9. u[1] = Elements(list) /\ u[Len(s) + 1] = {}
  <2>1. /\ 1 \in 1 .. 2 * n + 1 /\ (1 - 1) \div 2 = 0 /\ n - 0 = n
        /\ 2 * n + 1 \in 1 .. 2 * n + 1 /\ (2 * n + 1 - 1) \div 2 = n /\ n - n = 0 /\ 1 .. 0 = {}
    BY <1>2
  <2>2. u[1] = Part(n) /\ u[2 * n + 1] = Part(0)
    <3> HIDE DEF Part
    <3>1. \A k \in 1 .. 2 * n + 1 : u[k] = Part(n - (k - 1) \div 2)
      BY DEF u
    <3>2. u[1] = Part(n - (1 - 1) \div 2)
      BY <2>1, <3>1, Zenon
    <3>3. PICK k : k = 2 * n + 1
      OBVIOUS
    <3>4. k \in 1 .. 2 * n + 1 /\ n - (k - 1) \div 2 = 0
      BY <1>2, <3>3
    <3>5. u[k] = Part(n - (k - 1) \div 2)
      BY <3>1, <3>4
    <3> QED BY <2>1, <3>2, <3>3, <3>4, <3>5
  <2>3. Part(n) = Elements(list) /\ Part(0) = {}
    BY <1>1, <2>1 DEF Elements
  <2> QED BY <1>2, <2>2, <2>3
<1>10. Track(p, f, s, u)
  BY <1>2, <1>5, <1>8 DEF Track
<1> QED BY <1>1, <1>9, <1>10 DEF Between

LEMMA EpilogueBetween ==
  ASSUME prog \in Programs, NEW f \in Func, NEW M \in SUBSET Nat
  PROVE  Between(prog, f, Epilogue(f), {}, M) /\ Epilogue(f) \in Seq(Insn)
<1>0. {} \in SUBSET Nat
  OBVIOUS
<1>1. CASE f \notin Handlers(prog)
  <2> DEFINE x == I("ret", 0, FALSE)
  <2>1. x \in Insn /\ x.op = "ret" /\ ~x.in
    BY OutsideInsn
  <2>2. Epilogue(f) = <<x>>
    BY <1>1 DEF Epilogue, IsHandler
  <2> HIDE DEF x
  <2>3. Within(prog, f, x, {}, M)
    BY <2>1 DEF Within, Leaves, Bracket, Goto
  <2>4. Between(prog, f, <<x>>, {}, M) /\ <<x>> \in Seq(Insn)
    BY <1>0, <2>1, <2>3, BetweenOne, OneInsn
  <2> QED BY <2>2, <2>4
<1>2. CASE f \in Handlers(prog)
  <2> DEFINE x == I("pop_psw", 0, FALSE)
             y == I("reti", 0, FALSE)
  <2>1. x \in Insn /\ x.op = "pop_psw" /\ ~x.in
    BY OutsideInsn
  <2>2. y \in Insn /\ y.op = "reti" /\ ~y.in
    BY OutsideInsn
  <2>3. Epilogue(f) = <<x, y>>
    BY <1>2 DEF Epilogue, IsHandler
  <2> HIDE DEF x, y
  <2>4. Within(prog, f, x, {}, {})
    BY <2>1 DEF Within, Leaves, Bracket, Goto
  <2>5. Within(prog, f, y, {}, M)
    BY <2>2 DEF Within, Leaves, Bracket, Goto
  <2>6. Between(prog, f, <<x, y>>, {}, M) /\ <<x, y>> \in Seq(Insn)
    BY <1>0, <2>1, <2>2, <2>4, <2>5, BetweenTwo, TwoInsns
  <2> QED BY <2>3, <2>6
<1> QED BY <1>1, <1>2

-----------------------------------------------------------------------------
(***************************************************************************)
(* The compiler writes code whose sections are known everywhere.           *)
(***************************************************************************)
\* How many entries 0 the list of open sections starts with.
Whole(p, f) == IF f \in p.critical THEN 1 ELSE 0

\* At token i of f the sections in cr and the loops in lo are open.
Opened(p, f, i, cr, lo) ==
  /\ Lists(p, f, i, cr, Whole(p, f), "open", "close")
  /\ Lists(p, f, i, lo, 0, "while", "end")

Sectioned ==
  /\ Between(prog, Boot, code[Boot], {}, {})
  /\ \A f \in Func : f < fn => \E M : Between(prog, f, code[f], {}, M)
  /\ (phase = "build" /\ pos > 0) =>
       Opened(prog, fn, pos, crit, loops) /\ Between(prog, fn, code[fn], {}, Elements(crit))

LEMMA ElementsType ==
  ASSUME NEW list \in Seq(Nat)
  PROVE  Elements(list) \in SUBSET Nat
  BY ElementOfSeq DEF Elements

\* The list of open sections is the set of sections before the token.
LEMMA ListsSet ==
  ASSUME NEW p \in Programs, NEW f \in Func, NEW i \in 1 .. Len(p.body[f]) + 1, NEW list,
         Lists(p, f, i, list, Whole(p, f), "open", "close")
  PROVE  /\ Elements(list) = SetBefore(p, f, i) /\ Elements(list) \in SUBSET Nat
         /\ Inside(p, f, i) <=> Elements(list) # {}
         /\ list \in Seq(Nat) /\ Len(list) \in Nat
         /\ \A j, k \in 1 .. Len(list) : j < k => list[j] < list[k]
<1> DEFINE d == Whole(p, f)
           n == Len(list)
           D == Nesting(p, f, i, "open", "close")
<1>1. /\ list \in Seq(Nat) /\ n = D + d
      /\ \A j \in 1 .. n : j > d => list[j] \in Sections(p, f, i)
      /\ \A k \in Sections(p, f, i) : \E j \in 1 .. n : j > d /\ list[j] = k
      /\ \A j \in 1 .. n : j <= d => list[j] = 0
      /\ \A j, k \in 1 .. n : j < k => list[j] < list[k]
  BY DEF Lists, Sections
<1>2. i \in Nat /\ i > 0 /\ f # Boot
  BY ProgramParts
<1>3. D \in Int /\ D >= 0
  <2>1. D >= 0
    BY ProgramsAssumption, Zenon
  <2> QED BY <1>2, <2>1, NestingType
<1>4. /\ d = (IF f \in p.critical THEN 1 ELSE 0)
      /\ Inside(p, f, i) <=> f \in p.critical \/ D > 0
      /\ SetBefore(p, f, i) = Sections(p, f, i) \cup (IF f \in p.critical THEN {0} ELSE {})
  BY <1>2 DEF Whole, Inside, SetBefore
<1>5. Elements(list) = {list[j] : j \in 1 .. n}
  BY DEF Elements
<1> HIDE DEF d, n, D
<1>6. n \in Nat /\ d \in {0, 1} /\ (f \in p.critical <=> d = 1)
  BY <1>1, <1>3, <1>4
<1>7. \A j \in 1 .. n : j > d \/ j <= d
  BY <1>6
<1>8. d = 1 => 1 \in 1 .. n /\ 1 <= d
  BY <1>1, <1>3, <1>6
<1>9. d = 0 => \A j \in 1 .. n : ~(j <= d)
  BY <1>6
<1>10. Elements(list) = SetBefore(p, f, i)
  <2>1. CASE d = 1
    <3>1. SetBefore(p, f, i) = Sections(p, f, i) \cup {0}
      BY <1>4, <1>6, <2>1
    <3>2. 0 \in Elements(list)
      BY <1>1, <1>5, <1>8, <2>1
    <3> QED BY <1>1, <1>5, <1>7, <3>1, <3>2
  <2>2. CASE d = 0
    <3>1. SetBefore(p, f, i) = Sections(p, f, i)
      BY <1>4, <1>6, <2>2
    <3> QED BY <1>1, <1>5, <1>7, <1>9, <2>2, <3>1
  <2> QED BY <1>6, <2>1, <2>2
<1>11. Inside(p, f, i) <=> n > 0
  BY <1>1, <1>3, <1>4, <1>6
<1>12. n > 0 <=> Elements(list) # {}
  <2>1. n > 0 => 1 \in 1 .. n
    BY <1>6
  <2>2. ~(n > 0) => 1 .. n = {}
    BY <1>6
  <2> QED BY <1>5, <2>1, <2>2
<1>13. Elements(list) \in SUBSET Nat
  BY <1>1, ElementsType
<1>14. Len(list) = n
  BY DEF n
<1> QED BY <1>1, <1>6, <1>10, <1>11, <1>12, <1>13, <1>14

\* The innermost section is the last of the list.
LEMMA ListsLast ==
  ASSUME NEW list \in Seq(Nat), Len(list) \in Nat, Len(list) > 0,
         \A j, k \in 1 .. Len(list) : j < k => list[j] < list[k]
  PROVE  LET v == list[Len(list)]
         IN /\ v \in Nat /\ Innermost(Elements(list), v)
            /\ Elements(SubSeq(list, 1, Len(list) - 1)) = Elements(list) \ {v}
<1>1. PICK n, t, v : n = Len(list) /\ t = SubSeq(list, 1, n - 1) /\ v = list[n]
  OBVIOUS
<1>2. t \in Seq(Nat) /\ Len(t) = n - 1 /\ \A j \in 1 .. n - 1 : t[j] = list[j]
  BY <1>1, Shorter
<1>3. \A j \in 1 .. n : list[j] \in Nat
  BY <1>1, ElementOfSeq
<1>4. /\ n \in 1 .. n /\ \A j \in 1 .. n : j = n \/ (j \in 1 .. n - 1 /\ j < n)
      /\ \A j \in 1 .. n - 1 : j \in 1 .. n /\ j < n
  BY <1>1
<1>5. v \in Nat /\ \A j \in 1 .. n - 1 : list[j] < v
  BY <1>1, <1>3, <1>4
<1>6. Elements(list) = {list[j] : j \in 1 .. n}
  BY <1>1 DEF Elements
<1>7. Elements(t) = {list[j] : j \in 1 .. n - 1}
  BY <1>2 DEF Elements
<1>8. ASSUME NEW j \in 1 .. n
      PROVE  list[j] <= v
  <2>1. CASE j = n
    BY <1>1, <1>5, <2>1
  <2>2. CASE j \in 1 .. n - 1
    BY <1>3, <1>5, <2>2, <1>4
  <2> QED BY <1>4, <2>1, <2>2
<1>9. Innermost(Elements(list), v)
  BY <1>1, <1>4, <1>6, <1>8 DEF Innermost
<1>10. \A j \in 1 .. n - 1 : list[j] # v
  BY <1>3, <1>4, <1>5
<1>11. Elements(t) = Elements(list) \ {v}
  BY <1>1, <1>4, <1>6, <1>7, <1>10
<1> QED BY <1>1, <1>5, <1>9, <1>11

\* The loop that a break or continue leaves, and the one that ends, have the
\* sections of that place.
LEMMA LoopSections ==
  ASSUME NEW p \in Programs, Disciplined(p), NEW f \in Func, NEW i \in 1 .. Len(p.body[f]),
         p.body[f][i].kind \in {"end", "break", "continue"},
         NEW list, Lists(p, f, i, list, 0, "while", "end"), Len(list) > 0
  PROVE  LET l == list[Len(list)]
         IN l \in Nat /\ SetBefore(p, f, l) = SetBefore(p, f, i)
<1>1. PICK n, l : n = Len(list) /\ l = list[n]
  OBVIOUS
<1>2. /\ list \in Seq(Nat)
      /\ \A j \in 1 .. n : j > 0 => list[j] \in LoopsAround(p, f, i)
      /\ \A k \in LoopsAround(p, f, i) : \E j \in 1 .. n : j > 0 /\ list[j] = k
      /\ \A j, k \in 1 .. n : j < k => list[j] < list[k]
  BY <1>1 DEF Lists, LoopsAround
<1>3. n \in Nat /\ n > 0 /\ n \in 1 .. n /\ l \in Nat
  BY <1>1, <1>2, LenProperties, ElementOfSeq
<1>4. l \in LoopsAround(p, f, i)
  BY <1>1, <1>2, <1>3
<1>5. ASSUME NEW y \in LoopsAround(p, f, i)
      PROVE  y <= l
  <2>1. PICK j \in 1 .. n : list[j] = y
    BY <1>2
  <2>2. j = n \/ j < n
    BY <1>3
  <2>3. y \in Nat
    BY <1>1, <1>2, <2>1, ElementOfSeq
  <2> QED BY <1>1, <1>2, <1>3, <2>1, <2>2, <2>3
<1>6. i \in Positions(p, f, "end") \cup Positions(p, f, "break") \cup Positions(p, f, "continue")
  BY DEF Positions
<1>7. Sections(p, f, i) = Sections(p, f, l)
  BY <1>4, <1>5, <1>6 DEF Disciplined, JumpsStay
<1>8. l > 0
  <2>1. l \in 1 .. Len(p.body[f])
    BY <1>4 DEF LoopsAround, StillOpen, Positions
  <2> QED BY <2>1, ProgramParts
<1>9. i > 0 /\ f # Boot
  BY ProgramParts
<1> QED BY <1>1, <1>3, <1>7, <1>8, <1>9 DEF SetBefore

\* What holds where a token is compiled.
LEMMA SectionFacts ==
  ASSUME Compiled, Sectioned, NEW k, Takes(k)
  PROVE  /\ Opened(prog, fn, pos, crit, loops)
         /\ Between(prog, fn, code[fn], {}, Elements(crit))
         /\ Counting(prog, fn, pos, crit, Whole(prog, fn), "open", "close")
         /\ Counting(prog, fn, pos, loops, 0, "while", "end")
         /\ Elements(crit) = SetBefore(prog, fn, pos) /\ Elements(crit) \in SUBSET Nat
         /\ In <=> Elements(crit) # {}
         /\ \A i, j \in 1 .. Len(crit) : i < j => crit[i] < crit[j]
         /\ Whole(prog, fn) \in {0, 1}
<1>1. /\ phase = "build" /\ fn \in Func /\ pos \in 1 .. Len(prog.body[fn])
      /\ pos > 0 /\ prog \in Programs
  BY TokenAt
<1>2. Opened(prog, fn, pos, crit, loops) /\ Between(prog, fn, code[fn], {}, Elements(crit))
  BY <1>1 DEF Sectioned
<1>3. crit \in Seq(Nat) /\ loops \in Seq(Nat)
  BY DEF Compiled
<1>4. /\ Counting(prog, fn, pos, crit, Whole(prog, fn), "open", "close")
      /\ Counting(prog, fn, pos, loops, 0, "while", "end")
  BY <1>1, <1>3, CountingAt
<1>5. pos \in 1 .. Len(prog.body[fn]) + 1
  BY <1>1, ProgramParts
<1>6. /\ Elements(crit) = SetBefore(prog, fn, pos) /\ Elements(crit) \in SUBSET Nat
      /\ Inside(prog, fn, pos) <=> Elements(crit) # {}
      /\ \A i, j \in 1 .. Len(crit) : i < j => crit[i] < crit[j]
  BY <1>1, <1>2, <1>5, ListsSet DEF Opened
<1> QED BY <1>2, <1>4, <1>6 DEF Whole, In

\* A step that compiles a token.
LEMMA SectionStep ==
  ASSUME Compiled, Sectioned, NEW k, Takes(k), NEW b \in Seq(Insn), Emit(b),
         Between(prog, fn, b, Elements(crit), Elements(crit')),
         Opened(prog, fn, pos + 1, crit', loops')
  PROVE  Sectioned'
<1>1. /\ phase = "build" /\ fn \in Func /\ pos \in Nat /\ prog \in Programs
      /\ pos' = pos + 1 /\ prog' = prog /\ phase' = phase /\ fn' = fn
  BY TokenAt
<1>2. /\ code'[fn] = code[fn] \o b /\ code[fn] \in Seq(Insn)
      /\ \A f \in Func \cup {Boot} : f # fn => code'[f] = code[f]
      /\ code'[Boot] = code[Boot]
  BY <1>1, Emitted
<1>3. Between(prog, fn, code[fn], {}, Elements(crit))
  BY SectionFacts
<1>4. Between(prog, fn, code'[fn], {}, Elements(crit'))
  BY <1>2, <1>3, BetweenJoined
<1>5. ASSUME NEW f \in Func, f < fn
      PROVE  \E M : Between(prog, f, code'[f], {}, M)
  <2>1. f # fn
    BY <1>1, <1>5, ProgramParts DEF Func
  <2> QED BY <1>2, <1>5, <2>1 DEF Sectioned
<1>6. Between(prog, Boot, code'[Boot], {}, {})
  BY <1>2 DEF Sectioned
<1> QED BY <1>1, <1>4, <1>5, <1>6 DEF Sectioned

\* A token that is no bracket.
LEMMA PlainSections ==
  ASSUME Compiled, Sectioned, NEW k, Takes(k), k \notin {"open", "close", "while", "end"},
         UNCHANGED <<crit, loops>>
  PROVE  Opened(prog, fn, pos + 1, crit', loops')
<1>1. /\ fn \in Func /\ pos \in 1 .. Len(prog.body[fn]) /\ prog \in Programs
      /\ prog.body[fn][pos].kind = k
  BY TokenAt
<1>2. /\ Opened(prog, fn, pos, crit, loops)
      /\ Counting(prog, fn, pos, crit, Whole(prog, fn), "open", "close")
      /\ Counting(prog, fn, pos, loops, 0, "while", "end") /\ Whole(prog, fn) \in {0, 1}
  BY SectionFacts
<1>3. Lists(prog, fn, pos + 1, crit, Whole(prog, fn), "open", "close")
  BY <1>1, <1>2, ListsStay DEF Opened
<1>4. Lists(prog, fn, pos + 1, loops, 0, "while", "end")
  BY <1>1, <1>2, ListsStay DEF Opened
<1> QED BY <1>3, <1>4 DEF Opened

LEMMA OpenSections == ASSUME Compiled, Sectioned, BuildOpen PROVE Sectioned'
<1>1. Takes("open") /\ Emit(CritEnter(pos)) /\ crit' = Append(crit, pos) /\ loops' = loops
  BY DEF BuildOpen
<1>2. /\ fn \in Func /\ pos \in 1 .. Len(prog.body[fn]) /\ prog \in Programs /\ pos \in Nat /\ pos > 0
      /\ prog.body[fn][pos].kind = "open"
  BY <1>1, TokenAt
<1>3. /\ Opened(prog, fn, pos, crit, loops)
      /\ Counting(prog, fn, pos, crit, Whole(prog, fn), "open", "close")
      /\ Counting(prog, fn, pos, loops, 0, "while", "end") /\ Whole(prog, fn) \in {0, 1}
      /\ Elements(crit) = SetBefore(prog, fn, pos) /\ Elements(crit) \in SUBSET Nat
  BY <1>1, SectionFacts
<1>4. Lists(prog, fn, pos + 1, crit', Whole(prog, fn), "open", "close")
  BY <1>1, <1>2, <1>3, ListsOpen DEF Opened
<1>5. Lists(prog, fn, pos + 1, loops', 0, "while", "end")
  BY <1>1, <1>2, <1>3, ListsStay DEF Opened
<1>6. \A y \in Elements(crit) : y < pos
  <2>1. \A y \in Sections(prog, fn, pos) : y < pos
    BY DEF Sections, StillOpen
  <2> QED BY <1>2, <1>3, <2>1 DEF SetBefore
<1>7. pos \notin Elements(crit)
  BY <1>2, <1>6
<1>8. Elements(crit') = Elements(crit) \cup {pos}
  <2>1. crit \in Seq(Nat)
    BY DEF Compiled
  <2>2. /\ Len(crit') = Len(crit) + 1 /\ Len(crit) \in Nat /\ crit'[Len(crit) + 1] = pos
        /\ \A m \in 1 .. Len(crit) : crit'[m] = crit[m]
    BY <1>1, <1>2, <2>1, Longer
  <2>3. 1 .. Len(crit) + 1 = (1 .. Len(crit)) \cup {Len(crit) + 1}
    BY <2>2
  <2> QED BY <2>2, <2>3 DEF Elements
<1>9. PICK b : b = CritEnter(pos)
  OBVIOUS
<1>10. b \in Seq(Insn)
  BY <1>2, <1>9, EnterInsns DEF Entering
<1>11. Between(prog, fn, b, Elements(crit), Elements(crit'))
  BY <1>2, <1>3, <1>6, <1>7, <1>8, <1>9, EnterBetween
<1> QED BY <1>1, <1>4, <1>5, <1>9, <1>10, <1>11, SectionStep DEF Opened

LEMMA CloseSections == ASSUME Compiled, Sectioned, BuildClose PROVE Sectioned'
<1>1. /\ Takes("close") /\ Emit(CritExit(crit[Len(crit)])) /\ crit' = SubSeq(crit, 1, Len(crit) - 1)
      /\ loops' = loops
  BY DEF BuildClose
<1>2. /\ fn \in Func /\ pos \in 1 .. Len(prog.body[fn]) /\ prog \in Programs
      /\ prog.body[fn][pos].kind = "close"
  BY <1>1, TokenAt
<1>3. /\ Opened(prog, fn, pos, crit, loops)
      /\ Counting(prog, fn, pos, crit, Whole(prog, fn), "open", "close")
      /\ Counting(prog, fn, pos, loops, 0, "while", "end") /\ Whole(prog, fn) \in {0, 1}
      /\ \A i, j \in 1 .. Len(crit) : i < j => crit[i] < crit[j]
      /\ Elements(crit) \in SUBSET Nat
  BY <1>1, SectionFacts
<1>4. Lists(prog, fn, pos + 1, crit', Whole(prog, fn), "open", "close")
  BY <1>1, <1>2, <1>3, ListsClose DEF Opened
<1>5. Lists(prog, fn, pos + 1, loops', 0, "while", "end")
  BY <1>1, <1>2, <1>3, ListsStay DEF Opened
<1>6. crit \in Seq(Nat) /\ Len(crit) \in Nat /\ Len(crit) > 0
  BY <1>1, TokenFacts
<1>7. PICK v : v = crit[Len(crit)]
  OBVIOUS
<1>8. v \in Nat /\ Innermost(Elements(crit), v) /\ Elements(crit') = Elements(crit) \ {v}
  BY <1>1, <1>3, <1>6, <1>7, ListsLast
<1>9. PICK b : b = CritExit(v)
  OBVIOUS
<1>10. b \in Seq(Insn)
  BY <1>2, <1>8, <1>9, CloseBlock
<1>11. Between(prog, fn, b, Elements(crit), Elements(crit'))
  BY <1>3, <1>8, <1>9, CloseBetween
<1> QED BY <1>1, <1>4, <1>5, <1>7, <1>9, <1>10, <1>11, SectionStep DEF Opened

\* An instruction that opens and closes nothing.
LEMMA SteadyWithin ==
  ASSUME NEW p, NEW f, NEW x, NEW L, x.op \notin Bracket, x.op \notin {"ret", "reti", "push_psw", "pop_psw"},
         x.op # "label" => (x.in <=> L # {}),
         x.op \in {"setb_ea", "clr_ea"} => L = {} /\ f \notin Hushed(p),
         x.op = "call" => (L # {} \/ f \in Hushed(p) => x.arg \in Hushed(p)),
         x.op \in Goto \cup {"label"} => L = SetBefore(p, f, x.arg \div 2)
  PROVE  Within(p, f, x, L, L)
<1>1. /\ x.op \notin {"mov_bit_c", "mov_c_bit", "mov_ea_c"}
      /\ x.op \notin Bracket \cup {"label"} => (x.in <=> L # {})
  BY DEF Bracket
<1> QED BY <1>1 DEF Within

LEMMA HalfLabel ==
  ASSUME NEW i \in Nat
  PROVE  /\ TestLabel(i) \div 2 = i /\ ExitLabel(i) \div 2 = i
         /\ TestLabel(i) \in Nat /\ ExitLabel(i) \in Nat
<1>1. (2 * i) \div 2 = i /\ (2 * i + 1) \div 2 = i
  OBVIOUS
<1> QED BY <1>1 DEF TestLabel, ExitLabel

LEMMA WhileSections == ASSUME Compiled, Sectioned, BuildWhile PROVE Sectioned'
<1> DEFINE x == I("label", TestLabel(pos), In)
           y == I("branch", ExitLabel(pos), In)
<1>1. Takes("while") /\ Emit(<<x, y>>) /\ loops' = Append(loops, pos) /\ crit' = crit
  BY DEF BuildWhile
<1>2. /\ fn \in Func /\ pos \in 1 .. Len(prog.body[fn]) /\ prog \in Programs /\ pos \in Nat
      /\ prog.body[fn][pos].kind = "while" /\ In \in BOOLEAN
  BY <1>1, TokenAt
<1>3. /\ Opened(prog, fn, pos, crit, loops)
      /\ Counting(prog, fn, pos, crit, Whole(prog, fn), "open", "close")
      /\ Counting(prog, fn, pos, loops, 0, "while", "end") /\ Whole(prog, fn) \in {0, 1}
      /\ Elements(crit) = SetBefore(prog, fn, pos) /\ Elements(crit) \in SUBSET Nat
      /\ In <=> Elements(crit) # {}
  BY <1>1, SectionFacts
<1>4. Lists(prog, fn, pos + 1, crit', Whole(prog, fn), "open", "close")
  BY <1>1, <1>2, <1>3, ListsStay DEF Opened
<1>5. Lists(prog, fn, pos + 1, loops', 0, "while", "end")
  BY <1>1, <1>2, <1>3, ListsOpen DEF Opened
<1>6. /\ TestLabel(pos) \div 2 = pos /\ ExitLabel(pos) \div 2 = pos
      /\ TestLabel(pos) \in Nat /\ ExitLabel(pos) \in Nat
  BY <1>2, HalfLabel
<1>7. {"label", "branch"} \subseteq Op
  BY DEF Op
<1>8. x \in Insn /\ x.op = "label" /\ x.arg = TestLabel(pos) /\ x.in = In
  BY <1>2, <1>6, <1>7, InsnType
<1>9. y \in Insn /\ y.op = "branch" /\ y.arg = ExitLabel(pos) /\ y.in = In
  BY <1>2, <1>6, <1>7, InsnType
<1> HIDE DEF x, y
<1>10. Within(prog, fn, x, Elements(crit), Elements(crit))
  BY <1>3, <1>6, <1>8, SteadyWithin DEF Bracket
<1>11. Within(prog, fn, y, Elements(crit), Elements(crit))
  BY <1>3, <1>6, <1>9, SteadyWithin DEF Bracket
<1>12. PICK b : b = <<x, y>>
  OBVIOUS
<1>13. b \in Seq(Insn)
  BY <1>8, <1>9, <1>12, TwoInsns
<1>14. Between(prog, fn, b, Elements(crit), Elements(crit'))
  BY <1>1, <1>3, <1>8, <1>9, <1>10, <1>11, <1>12, BetweenTwo
<1> QED BY <1>1, <1>4, <1>5, <1>12, <1>13, <1>14, SectionStep DEF Opened

LEMMA EndSections == ASSUME Compiled, Sectioned, Disciplined(prog), BuildEnd PROVE Sectioned'
<1> DEFINE l == loops[Len(loops)]
           x == I("jmp", TestLabel(l), In)
           y == I("label", ExitLabel(l), In)
<1>1. /\ Takes("end") /\ Emit(<<x, y>>) /\ loops' = SubSeq(loops, 1, Len(loops) - 1)
      /\ crit' = crit
  BY DEF BuildEnd
<1>2. /\ fn \in Func /\ pos \in 1 .. Len(prog.body[fn]) /\ prog \in Programs
      /\ prog.body[fn][pos].kind = "end" /\ In \in BOOLEAN
  BY <1>1, TokenAt
<1>3. /\ Opened(prog, fn, pos, crit, loops)
      /\ Counting(prog, fn, pos, crit, Whole(prog, fn), "open", "close")
      /\ Counting(prog, fn, pos, loops, 0, "while", "end") /\ Whole(prog, fn) \in {0, 1}
      /\ Elements(crit) = SetBefore(prog, fn, pos) /\ Elements(crit) \in SUBSET Nat
      /\ In <=> Elements(crit) # {}
  BY <1>1, SectionFacts
<1>4. Lists(prog, fn, pos + 1, crit', Whole(prog, fn), "open", "close")
  BY <1>1, <1>2, <1>3, ListsStay DEF Opened
<1>5. Lists(prog, fn, pos + 1, loops', 0, "while", "end")
  BY <1>1, <1>2, <1>3, ListsClose DEF Opened
<1>6. Len(loops) > 0
  BY <1>1, TokenFacts
<1>7. l \in Nat /\ SetBefore(prog, fn, l) = SetBefore(prog, fn, pos)
  BY <1>2, <1>3, <1>6, LoopSections DEF Opened
<1> HIDE DEF l
<1>8. /\ TestLabel(l) \div 2 = l /\ ExitLabel(l) \div 2 = l
      /\ TestLabel(l) \in Nat /\ ExitLabel(l) \in Nat
  BY <1>7, HalfLabel
<1>9. {"label", "jmp"} \subseteq Op
  BY DEF Op
<1>10. x \in Insn /\ x.op = "jmp" /\ x.arg = TestLabel(l) /\ x.in = In
  BY <1>2, <1>8, <1>9, InsnType
<1>11. y \in Insn /\ y.op = "label" /\ y.arg = ExitLabel(l) /\ y.in = In
  BY <1>2, <1>8, <1>9, InsnType
<1> HIDE DEF x, y
<1>12. Within(prog, fn, x, Elements(crit), Elements(crit))
  BY <1>3, <1>7, <1>8, <1>10, SteadyWithin DEF Bracket
<1>13. Within(prog, fn, y, Elements(crit), Elements(crit))
  BY <1>3, <1>7, <1>8, <1>11, SteadyWithin DEF Bracket
<1>14. PICK b : b = <<x, y>>
  OBVIOUS
<1>15. b \in Seq(Insn)
  BY <1>10, <1>11, <1>14, TwoInsns
<1>16. Between(prog, fn, b, Elements(crit), Elements(crit'))
  BY <1>1, <1>3, <1>10, <1>11, <1>12, <1>13, <1>14, BetweenTwo
<1> QED BY <1>1, <1>4, <1>5, <1>14, <1>15, <1>16, SectionStep DEF Opened

LEMMA JumpSections == ASSUME Compiled, Sectioned, Disciplined(prog), BuildJump PROVE Sectioned'
<1> DEFINE l == loops[Len(loops)]
<1>1. PICK k, to : /\ k \in {"break", "continue"} /\ Takes(k) /\ Emit(<<I("jmp", to, In)>>)
                   /\ to = ExitLabel(l) \/ to = TestLabel(l)
                   /\ UNCHANGED <<crit, loops>>
  BY DEF BuildJump
<1>2. /\ fn \in Func /\ pos \in 1 .. Len(prog.body[fn]) /\ prog \in Programs
      /\ prog.body[fn][pos].kind = k /\ In \in BOOLEAN
  BY <1>1, TokenAt
<1>3. /\ Opened(prog, fn, pos, crit, loops)
      /\ Elements(crit) = SetBefore(prog, fn, pos) /\ Elements(crit) \in SUBSET Nat
      /\ In <=> Elements(crit) # {}
  BY <1>1, SectionFacts
<1>4. Opened(prog, fn, pos + 1, crit', loops')
  BY <1>1, PlainSections
<1>5. Len(loops) > 0
  BY <1>1, TokenFacts
<1>6. prog.body[fn][pos].kind \in {"end", "break", "continue"}
  BY <1>1, <1>2
<1>7. l \in Nat /\ SetBefore(prog, fn, l) = SetBefore(prog, fn, pos)
  BY <1>2, <1>3, <1>5, <1>6, LoopSections DEF Opened
<1> HIDE DEF l
<1>8. to \div 2 = l /\ to \in Nat
  BY <1>1, <1>7, HalfLabel
<1>9. "jmp" \in Op
  BY DEF Op
<1>10. PICK x : x = I("jmp", to, In)
  OBVIOUS
<1>11. x \in Insn /\ x.op = "jmp" /\ x.arg = to /\ x.in = In
  BY <1>2, <1>8, <1>9, <1>10, InsnType
<1>12. Within(prog, fn, x, Elements(crit), Elements(crit))
  BY <1>3, <1>7, <1>8, <1>11, SteadyWithin DEF Bracket
<1>13. PICK b : b = <<x>>
  OBVIOUS
<1>14. b \in Seq(Insn)
  BY <1>11, <1>13, OneInsn
<1>15. Between(prog, fn, b, Elements(crit), Elements(crit'))
  BY <1>1, <1>3, <1>11, <1>12, <1>13, BetweenOne
<1>16. Emit(b)
  BY <1>1, <1>10, <1>13
<1> QED BY <1>1, <1>4, <1>14, <1>15, <1>16, SectionStep

LEMMA HushedQuiet ==
  ASSUME NEW p \in Programs, Disciplined(p)
  PROVE  Hushed(p) \in SUBSET Func /\ QuietIn(p, Hushed(p)) /\ Boot \notin Hushed(p)
<1>1. \E Q \in SUBSET Func : QuietIn(p, Q)
  BY DEF Disciplined
<1>2. Hushed(p) \in SUBSET Func /\ QuietIn(p, Hushed(p))
  BY <1>1 DEF Hushed
<1> QED BY <1>2, ProgramParts

LEMMA StatementSections == ASSUME Compiled, Sectioned, Disciplined(prog), BuildStatement PROVE Sectioned'
<1>1. PICK k \in {"call", "on", "off", "send", "ack", "work"} :
        Takes(k) /\ Emit(<<I(StatementOp(k), Arg, In)>>) /\ UNCHANGED <<crit, loops>>
  BY DEF BuildStatement
<1>2. /\ fn \in Func /\ prog \in Programs /\ In \in BOOLEAN /\ Arg \in Nat
      /\ pos \in 1 .. Len(prog.body[fn]) /\ prog.body[fn][pos].kind = k
  BY <1>1, TokenAt
<1>3. /\ Elements(crit) \in SUBSET Nat /\ In <=> Elements(crit) # {}
  BY <1>1, SectionFacts
<1>4. /\ StatementOp(k) \in Op /\ StatementOp(k) \notin Bracket
      /\ StatementOp(k) \notin {"ret", "reti", "push_psw", "pop_psw"}
      /\ StatementOp(k) \notin Goto \cup {"label"}
      /\ StatementOp(k) = "call" => k = "call"
      /\ StatementOp(k) \in {"setb_ea", "clr_ea"} => k \in {"on", "off"}
  BY DEF StatementOp, Op, Bracket, Goto
<1>5. QuietIn(prog, Hushed(prog))
  BY <1>2, HushedQuiet
<1>6. k \in {"on", "off"} => Elements(crit) = {} /\ fn \notin Hushed(prog)
  <2>1. k \in {"on", "off"} => pos \in Positions(prog, fn, "on") \cup Positions(prog, fn, "off")
    BY <1>2 DEF Positions
  <2>2. \A i \in Positions(prog, fn, "on") \cup Positions(prog, fn, "off") : ~Inside(prog, fn, i)
    BY <1>2, ProgramsAssumption, Zenon
  <2>3. fn \in Hushed(prog) => Positions(prog, fn, "on") \cup Positions(prog, fn, "off") = {}
    BY <1>2, <1>5 DEF QuietIn
  <2> QED BY <1>3, <2>1, <2>2, <2>3 DEF In
<1>7. k = "call" => (Elements(crit) # {} \/ fn \in Hushed(prog) => Arg \in Hushed(prog))
  <2>1. k = "call" => pos \in Positions(prog, fn, "call")
    BY <1>2 DEF Positions
  <2>2. \A i \in Positions(prog, fn, "call") :
          fn \in Hushed(prog) \/ Inside(prog, fn, i) => prog.body[fn][i].arg \in Hushed(prog)
    BY <1>2, <1>5 DEF QuietIn
  <2> QED BY <1>3, <2>1, <2>2 DEF In, Arg
<1>8. PICK x : x = I(StatementOp(k), Arg, In)
  OBVIOUS
<1>9. x \in Insn /\ x.op = StatementOp(k) /\ x.arg = Arg /\ x.in = In
  BY <1>2, <1>4, <1>8, InsnType
<1>10. Within(prog, fn, x, Elements(crit), Elements(crit))
  BY <1>3, <1>4, <1>6, <1>7, <1>9, SteadyWithin
<1>11. PICK b : b = <<x>>
  OBVIOUS
<1>12. b \in Seq(Insn)
  BY <1>9, <1>11, OneInsn
<1>13. Between(prog, fn, b, Elements(crit), Elements(crit'))
  BY <1>1, <1>3, <1>9, <1>10, <1>11, BetweenOne
<1>14. Emit(b) /\ k \notin {"open", "close", "while", "end"}
  BY <1>1, <1>8, <1>11
<1>15. Opened(prog, fn, pos + 1, crit', loops')
  BY <1>1, <1>14, PlainSections
<1> QED BY <1>1, <1>12, <1>13, <1>14, <1>15, SectionStep

\* The way out of a function closes what is open.
LEMMA WayOutBetween ==
  ASSUME prog \in Programs, fn \in Func, crit \in Seq(Nat), NEW M \in SUBSET Nat,
         \A j, k \in 1 .. Len(crit) : j < k => crit[j] < crit[k],
         NEW b, b = ExitAll(crit) \o Epilogue(fn)
  PROVE  Between(prog, fn, b, Elements(crit), M)
<1>1. PICK s, e : s = ExitAll(crit) /\ e = Epilogue(fn)
  OBVIOUS
<1>2. s \in Seq(Insn)
  BY <1>1, ExitAllAt
<1>3. Between(prog, fn, s, Elements(crit), {})
  BY <1>1, ExitAllBetween
<1>4. Between(prog, fn, e, {}, M) /\ e \in Seq(Insn)
  BY <1>1, EpilogueBetween
<1> QED BY <1>1, <1>2, <1>3, <1>4, BetweenJoined

LEMMA ReturnSections == ASSUME Compiled, Sectioned, BuildReturn PROVE Sectioned'
<1>1. Takes("return") /\ Emit(ExitAll(crit) \o Epilogue(fn)) /\ UNCHANGED <<crit, loops>>
  BY DEF BuildReturn
<1>2. fn \in Func /\ prog \in Programs
  BY <1>1, TokenAt
<1>3. crit \in Seq(Nat)
  BY DEF Compiled
<1>4. PICK b : b = ExitAll(crit) \o Epilogue(fn)
  OBVIOUS
<1>5. b \in Seq(Insn)
  BY <1>2, <1>3, <1>4, WayOut
<1>6. /\ Elements(crit) \in SUBSET Nat
      /\ \A i, j \in 1 .. Len(crit) : i < j => crit[i] < crit[j]
  BY <1>1, SectionFacts
<1>7. Between(prog, fn, b, Elements(crit), Elements(crit'))
  BY <1>1, <1>2, <1>3, <1>4, <1>6, WayOutBetween
<1>8. Opened(prog, fn, pos + 1, crit', loops')
  BY <1>1, PlainSections
<1> QED BY <1>1, <1>4, <1>5, <1>7, <1>8, SectionStep

LEMMA ExitSections == ASSUME Compiled, Sectioned, BuildExit PROVE Sectioned'
<1>1. /\ phase = "build" /\ fn \in Func /\ pos = Len(prog.body[fn]) + 1
      /\ Emit(ExitAll(crit) \o Epilogue(fn)) /\ fn' = fn + 1 /\ pos' = 0 /\ prog' = prog
  BY DEF BuildExit
<1>2. prog \in Programs /\ crit \in Seq(Nat)
  BY DEF Compiled
<1>3. pos > 0 /\ pos \in 1 .. Len(prog.body[fn]) + 1
  BY <1>1, <1>2, ProgramParts
<1>4. Opened(prog, fn, pos, crit, loops) /\ Between(prog, fn, code[fn], {}, Elements(crit))
  BY <1>1, <1>3 DEF Sectioned
<1>5. \A i, j \in 1 .. Len(crit) : i < j => crit[i] < crit[j]
  BY <1>1, <1>2, <1>3, <1>4, ListsSet DEF Opened
<1>6. PICK b : b = ExitAll(crit) \o Epilogue(fn)
  OBVIOUS
<1>7. b \in Seq(Insn)
  BY <1>1, <1>2, <1>6, WayOut
<1>8. Between(prog, fn, b, Elements(crit), {})
  <2>1. {} \in SUBSET Nat
    OBVIOUS
  <2> QED BY <1>1, <1>2, <1>5, <1>6, <2>1, WayOutBetween
<1>9. /\ code'[fn] = code[fn] \o b /\ code[fn] \in Seq(Insn)
      /\ \A f \in Func \cup {Boot} : f # fn => code'[f] = code[f]
      /\ code'[Boot] = code[Boot]
  BY <1>1, <1>6, <1>7, Emitted
<1>10. Between(prog, fn, code'[fn], {}, {})
  BY <1>4, <1>7, <1>8, <1>9, BetweenJoined
<1>11. ASSUME NEW f \in Func, f < fn + 1
       PROVE  \E M : Between(prog, f, code'[f], {}, M)
  <2>1. CASE f = fn
    BY <1>10, <2>1
  <2>2. CASE f # fn
    <3>1. f < fn
      BY <1>1, <1>2, <1>11, <2>2, ProgramParts DEF Func
    <3> QED BY <1>9, <2>2, <3>1 DEF Sectioned
  <2> QED BY <2>1, <2>2
<1>12. Between(prog, Boot, code'[Boot], {}, {})
  BY <1>9 DEF Sectioned
<1>13. ~(pos' > 0)
  BY <1>1
<1> QED BY <1>1, <1>11, <1>12, <1>13 DEF Sectioned

LEMMA EntrySections == ASSUME Compiled, Sectioned, BuildEntry PROVE Sectioned'
<1> DEFINE x == I("push_psw", 0, FALSE)
           h == IF IsHandler(fn) THEN <<x>> ELSE << >>
           e == IF fn \in prog.critical THEN CritEnter(0) ELSE << >>
           open == IF fn \in prog.critical THEN <<0>> ELSE << >>
<1>1. /\ phase = "build" /\ fn \in Func /\ pos = 0 /\ Emit(h \o e) /\ crit' = open
      /\ loops' = << >> /\ pos' = 1 /\ prog' = prog /\ phase' = phase /\ fn' = fn
  BY DEF BuildEntry
<1>2. prog \in Programs /\ code[fn] = << >> /\ fn # Boot
  BY <1>1, ProgramParts DEF Compiled
<1>3. {} \in SUBSET Nat /\ << >> \in Seq(Insn)
  BY EmptySeq
<1>4. x \in Insn /\ x.op = "push_psw" /\ ~x.in
  BY OutsideInsn
<1> HIDE DEF x
<1>5. h \in Seq(Insn) /\ Between(prog, fn, h, {}, {})
  <2>1. Within(prog, fn, x, {}, {})
    BY <1>4 DEF Within, Leaves, Bracket, Goto
  <2>2. Between(prog, fn, <<x>>, {}, {}) /\ <<x>> \in Seq(Insn)
    BY <1>3, <1>4, <2>1, BetweenOne, OneInsn
  <2>3. Between(prog, fn, << >>, {}, {})
    BY <1>3, BetweenNothing
  <2> QED BY <1>3, <2>2, <2>3
<1>6. Elements(open) = IF fn \in prog.critical THEN {0} ELSE {}
  <2>1. Elements(<<0>>) = {0}
    <3>1. 1 .. Len(<<0>>) = {1} /\ <<0>>[1] = 0
      OBVIOUS
    <3> QED BY <3>1 DEF Elements
  <2>2. Elements(<< >>) = {}
    <3>1. 1 .. Len(<< >>) = {}
      OBVIOUS
    <3> QED BY <3>1 DEF Elements
  <2> QED BY <2>1, <2>2
<1>7. e \in Seq(Insn) /\ Between(prog, fn, e, {}, Elements(open))
  <2>1. CASE fn \in prog.critical
    <3>1. SetBefore(prog, fn, 0) = {}
      <4>1. Sections(prog, fn, 0) = {}
        BY <1>1, <1>2, ProgramParts DEF Sections, StillOpen, Positions
      <4> QED BY <1>2, <4>1 DEF SetBefore
    <3>2. Between(prog, fn, CritEnter(0), {}, {} \cup {0})
      BY <1>1, <1>2, <1>3, <3>1, EnterBetween
    <3>3. CritEnter(0) \in Seq(Insn)
      BY EnterInsns DEF Entering
    <3> QED BY <1>6, <2>1, <3>2, <3>3
  <2>2. CASE fn \notin prog.critical
    BY <1>3, <1>6, <2>2, BetweenNothing
  <2> QED BY <2>1, <2>2
<1> HIDE DEF h, e
<1>8. PICK b : b = h \o e
  OBVIOUS
<1>9. b \in Seq(Insn) /\ Between(prog, fn, b, {}, Elements(open))
  BY <1>5, <1>7, <1>8, BetweenJoined, Concatenated
<1>10. /\ code'[fn] = code[fn] \o b /\ code[fn] \in Seq(Insn)
       /\ \A f \in Func \cup {Boot} : f # fn => code'[f] = code[f]
       /\ code'[Boot] = code[Boot]
  BY <1>1, <1>8, <1>9, Emitted
<1>11. Between(prog, fn, code'[fn], {}, Elements(open))
  <2>1. Between(prog, fn, code[fn], {}, {})
    BY <1>2, <1>3, BetweenNothing
  <2> QED BY <1>9, <1>10, <2>1, BetweenJoined
<1>12. Opened(prog, fn, 1, open, << >>)
  <2>1. Lists(prog, fn, 1, open, Whole(prog, fn), "open", "close")
    <3>1. open = AtFirst(Whole(prog, fn)) /\ Whole(prog, fn) \in {0, 1}
      BY <1>2 DEF AtFirst, Whole
    <3> QED BY <1>1, <1>2, <3>1, ListsStart
  <2>2. Lists(prog, fn, 1, << >>, 0, "while", "end")
    <3>1. << >> = AtFirst(0)
      BY DEF AtFirst
    <3> QED BY <1>1, <1>2, <3>1, ListsStart
  <2> QED BY <2>1, <2>2 DEF Opened
<1>13. ASSUME NEW f \in Func, f < fn
       PROVE  \E M : Between(prog, f, code'[f], {}, M)
  <2>1. f # fn
    BY <1>1, <1>2, <1>13, ProgramParts DEF Func
  <2> QED BY <1>10, <1>13, <2>1 DEF Sectioned
<1>14. Between(prog, Boot, code'[Boot], {}, {})
  BY <1>10 DEF Sectioned
<1> QED BY <1>1, <1>11, <1>12, <1>13, <1>14 DEF Sectioned

LEMMA BuildSections == ASSUME Compiled, Sectioned, Disciplined(prog), Build PROVE Sectioned'
  BY EntrySections, OpenSections, CloseSections, WhileSections, EndSections, JumpSections,
     ReturnSections, StatementSections, ExitSections DEF Build

LEMMA SectionedInit == ASSUME Init, Disciplined(prog) PROVE Sectioned
<1>1. prog \in Programs /\ fn = 0 /\ pos = 0 /\ Compiled
  BY CompiledInit DEF Init
<1>2. PICK s, u : s = code[Boot] /\ u = [i \in 1 .. 4 |-> {}]
  OBVIOUS
<1>3. s = <<I("call", prog.main, FALSE), I("label", 0, FALSE), I("jmp", 0, FALSE)>>
  BY <1>1, <1>2 DEF Compiled, Booted
<1>4. prog.main \in Nat /\ Boot \notin Hushed(prog)
  BY <1>1, ProgramParts, HushedQuiet DEF Func
<1>5. /\ Len(s) = 3 /\ s[1].op = "call" /\ s[2].op = "label" /\ s[3].op = "jmp"
      /\ ~s[1].in /\ ~s[2].in /\ ~s[3].in
  BY <1>3 DEF I
<1>6. /\ Within(prog, Boot, s[1], {}, {}) /\ Within(prog, Boot, s[2], {}, {})
      /\ Within(prog, Boot, s[3], {}, {})
  BY <1>4, <1>5 DEF Within, Leaves, Bracket, Goto, SetBefore
<1>7. /\ 1 .. 3 = {1, 2, 3} /\ 1 + 1 = 2 /\ 2 + 1 = 3 /\ 3 + 1 = 4
      /\ 1 \in 1 .. 4 /\ 2 \in 1 .. 4 /\ 3 \in 1 .. 4 /\ 4 \in 1 .. 4
  OBVIOUS
<1>8. u[1] = {} /\ u[2] = {} /\ u[3] = {} /\ u[4] = {} /\ u \in [1 .. 4 -> SUBSET Nat]
  <2>1. u = [i \in 1 .. 4 |-> {}]
    BY <1>2
  <2> QED BY <1>7, <2>1
<1>9. Track(prog, Boot, s, u)
  BY <1>5, <1>6, <1>7, <1>8 DEF Track
<1>10. Between(prog, Boot, s, {}, {})
  BY <1>5, <1>7, <1>8, <1>9 DEF Between
<1>11. \A f \in Func : ~(f < 0)
  BY <1>1, ProgramParts DEF Func
<1> QED BY <1>1, <1>2, <1>10, <1>11 DEF Sectioned

-----------------------------------------------------------------------------
(***************************************************************************)
(* The sections that are open where the CPU is, and where it goes next.    *)
(***************************************************************************)
SectionsOf(p, f, s) == CHOOSE u : Track(p, f, s, u) /\ u[1] = {}

\* The sections open at address a.
SetAt(a) == SectionsOf(prog, a[1], code[a[1]])[a[2]]

RunsSectioned ==
  /\ RunsComplete /\ Disciplined(prog)
  /\ \A f \in Func \cup {Boot} : \E M : Between(prog, f, code[f], {}, M)

LEMMA SetsTrack ==
  ASSUME RunsSectioned, NEW f \in Func \cup {Boot}
  PROVE  /\ Track(prog, f, code[f], SectionsOf(prog, f, code[f]))
         /\ SectionsOf(prog, f, code[f])[1] = {}
         /\ \A i : SetAt(<<f, i>>) = SectionsOf(prog, f, code[f])[i]
<1>1. \E u : Track(prog, f, code[f], u) /\ u[1] = {}
  BY DEF RunsSectioned, Between
<1>2. /\ Track(prog, f, code[f], SectionsOf(prog, f, code[f]))
      /\ SectionsOf(prog, f, code[f])[1] = {}
  BY <1>1 DEF SectionsOf
<1>3. \A i : SetAt(<<f, i>>) = SectionsOf(prog, f, code[f])[i]
  BY DEF SetAt
<1> QED BY <1>2, <1>3

LEMMA SetsWithin ==
  ASSUME RunsSectioned, NEW f \in Func \cup {Boot}, NEW i \in 1 .. Len(code[f])
  PROVE  /\ Within(prog, f, code[f][i], SetAt(<<f, i>>), SetAt(<<f, i + 1>>))
         /\ SetAt(<<f, i>>) \in SUBSET Nat
<1>1. PICK u : u = SectionsOf(prog, f, code[f])
  OBVIOUS
<1>2. Track(prog, f, code[f], u) /\ \A k : SetAt(<<f, k>>) = u[k]
  BY <1>1, SetsTrack
<1>3. Within(prog, f, code[f][i], u[i], u[i + 1])
  BY <1>2 DEF Track
<1>4. u[i] \in SUBSET Nat
  <2>1. Len(code[f]) \in Nat
    BY LenProperties DEF RunsSectioned, RunsComplete
  <2>2. i \in 1 .. Len(code[f]) + 1
    BY <2>1
  <2> QED BY <1>2, <2>2 DEF Track
<1> QED BY <1>2, <1>3, <1>4

LEMMA SetsArrive ==
  ASSUME RunsSectioned, NEW f \in Func \cup {Boot}, NEW i \in 1 .. Len(code[f]), NEW j,
         Arrives(code[f], i, j)
  PROVE  SetAt(<<f, j>>) = SetAt(<<f, i>>)
<1>1. Len(code[f]) \in Nat /\ i \in Nat /\ j \in Nat /\ j \in i .. Len(code[f])
  <2>1. Len(code[f]) \in Nat
    BY LenProperties DEF RunsSectioned, RunsComplete
  <2> QED BY <2>1 DEF Arrives
<1> DEFINE T == {k \in i .. j : SetAt(<<f, k>>) # SetAt(<<f, i>>)}
<1>2. SUFFICES ASSUME j \in T
               PROVE  FALSE
  BY <1>1
<1>3. T \in SUBSET Nat
  BY <1>1
<1>4. PICK m \in T : \A k \in T : m <= k
  BY <1>2, <1>3, SmallestOne
<1>5. m \in i .. j /\ SetAt(<<f, m>>) # SetAt(<<f, i>>)
  BY <1>4
<1>6. m # i
  BY <1>5
<1>7. PICK k : k = m - 1
  OBVIOUS
<1>8. k \in i .. j - 1 /\ k \in i .. j /\ k \in 1 .. Len(code[f]) /\ k + 1 = m /\ ~(m <= k)
  BY <1>1, <1>5, <1>6, <1>7
<1>9. SetAt(<<f, k>>) = SetAt(<<f, i>>)
  BY <1>4, <1>8
<1>10. code[f][k].op = "label"
  BY <1>8 DEF Arrives
<1>11. Within(prog, f, code[f][k], SetAt(<<f, k>>), SetAt(<<f, k + 1>>))
  BY <1>8, SetsWithin
<1>12. SetAt(<<f, k + 1>>) = SetAt(<<f, k>>)
  BY <1>10, <1>11 DEF Within, Leaves
<1> QED BY <1>5, <1>8, <1>9, <1>12

LEMMA FollowingSets ==
  ASSUME RunsSectioned, NEW a, Place(a), OpAt(a) \notin Leaves
  PROVE  LET b == <<a[1], At(a[1], a[2] + 1)>>
         IN /\ Within(prog, a[1], code[a[1]][a[2]], SetAt(a), SetAt(b))
            /\ SetAt(a) \in SUBSET Nat /\ SetAt(b) \in SUBSET Nat
<1>0. RunsComplete
  BY DEF RunsSectioned
<1>1. PICK f, i, b : f = a[1] /\ i = a[2] /\ b = <<f, At(f, i + 1)>>
  OBVIOUS
<1>2. f \in Func \cup {Boot} /\ i \in 1 .. Len(code[f]) /\ a = <<f, i>> /\ Len(code[f]) \in Nat /\ i \in Nat
  BY <1>0, <1>1, PlaceParts
<1>3. Place(b) /\ Arrives(code[f], i + 1, b[2]) /\ b[1] = f
  BY <1>0, <1>1, FollowingPlace
<1>4. i + 1 \in 1 .. Len(code[f])
  <2>1. b[2] \in i + 1 .. Len(code[f])
    BY <1>3 DEF Arrives
  <2> QED BY <1>2, <2>1
<1>5. b = <<f, b[2]>> /\ b[2] \in 1 .. Len(code[f])
  BY <1>0, <1>1, <1>3, PlaceParts
<1>6. SetAt(<<f, b[2]>>) = SetAt(<<f, i + 1>>)
  BY <1>2, <1>3, <1>4, SetsArrive
<1>7. /\ Within(prog, f, code[f][i], SetAt(<<f, i>>), SetAt(<<f, i + 1>>))
      /\ SetAt(<<f, i>>) \in SUBSET Nat
  BY <1>2, SetsWithin
<1>8. SetAt(<<f, b[2]>>) \in SUBSET Nat
  BY <1>2, <1>5, SetsWithin
<1> QED BY <1>1, <1>2, <1>5, <1>6, <1>7, <1>8

LEMMA TargetSets ==
  ASSUME RunsSectioned, NEW a, Place(a), OpAt(a) \in Goto
  PROVE  SetAt(<<a[1], Labelled(a[1], code[a[1]][a[2]].arg)>>) = SetAt(a)
<1>0. RunsComplete
  BY DEF RunsSectioned
<1>1. PICK f, i, l : f = a[1] /\ i = a[2] /\ l = code[f][i].arg
  OBVIOUS
<1>2. /\ f \in Func \cup {Boot} /\ i \in 1 .. Len(code[f]) /\ a = <<f, i>>
      /\ Complete(prog, f, code[f])
  BY <1>0, <1>1, PlaceParts
<1>3. code[f][i].op \in Goto
  BY <1>1 DEF OpAt
<1>4. l \in Labels(code[f])
  <2>1. l \in Jumps(code[f])
    BY <1>1, <1>2, <1>3 DEF Jumps, Insns
  <2> QED BY <1>2, <2>1 DEF Complete
<1>5. PICK m : m = LabelAt(f, l)
  OBVIOUS
<1>6. m \in 1 .. Len(code[f]) /\ code[f][m].op = "label" /\ code[f][m].arg = l
  BY <1>4, <1>5, LabelThere
<1>7. Labelled(f, l) = At(f, m)
  BY <1>5 DEF Labelled, LabelAt
<1>8. Arrives(code[f], m, At(f, m))
  BY <1>0, <1>2, <1>6, ArrivesPlace
<1>9. SetAt(<<f, At(f, m)>>) = SetAt(<<f, m>>)
  BY <1>2, <1>6, <1>8, SetsArrive
<1>10. SetAt(<<f, m>>) = SetBefore(prog, f, l \div 2)
  <2>1. Within(prog, f, code[f][m], SetAt(<<f, m>>), SetAt(<<f, m + 1>>))
    BY <1>2, <1>6, SetsWithin
  <2> QED BY <1>6, <2>1 DEF Within
<1>11. SetAt(<<f, i>>) = SetBefore(prog, f, l \div 2)
  <2>1. Within(prog, f, code[f][i], SetAt(<<f, i>>), SetAt(<<f, i + 1>>))
    BY <1>2, SetsWithin
  <2> QED BY <1>1, <1>3, <2>1 DEF Within
<1> QED BY <1>1, <1>2, <1>7, <1>9, <1>10, <1>11

LEMMA EntrySets ==
  ASSUME RunsSectioned, NEW f \in Func \cup {Boot}
  PROVE  SetAt(Entry(f)) = {} /\ OpAt(Entry(f)) \notin Mid
<1>0. RunsComplete
  BY DEF RunsSectioned
<1>1. Complete(prog, f, code[f]) /\ code[f] \in Seq(Insn) /\ Len(code[f]) \in Nat
  BY <1>0, LenProperties DEF RunsComplete
<1>2. 1 \in 1 .. Len(code[f])
  BY <1>1, EmptySeq DEF Complete
<1>3. Arrives(code[f], 1, At(f, 1)) /\ Place(<<f, At(f, 1)>>)
  BY <1>0, <1>2, ArrivesPlace
<1>4. SetAt(<<f, At(f, 1)>>) = SetAt(<<f, 1>>)
  BY <1>2, <1>3, SetsArrive
<1>5. SetAt(<<f, 1>>) = {}
  BY SetsTrack
<1>6. PICK j : j = At(f, 1)
  OBVIOUS
<1>7. Shaped(prog, f, code[f])
  BY <1>1 DEF Complete
<1>8. ASSUME code[f][j].op \in Mid
      PROVE  FALSE
  <2>1. ReachedAlone(prog, f, code[f], 1, j)
    BY <1>2, <1>3, <1>6, <1>7, <1>8, ArrivesMid
  <2>2. j \in 1 .. Len(code[f])
    BY <1>3, <1>6 DEF Place
  <2>3. Linked(prog, f, code[f], j)
    BY <1>7, <2>2 DEF Shaped
  <2>4. j > 1
    BY <1>8, <2>3 DEF Linked, Mid, Behind
  <2>5. j = 2 /\ code[f][1].op = "label" /\ code[f][1].arg \in Starts(prog, f)
    BY <2>1, <2>4 DEF ReachedAlone
  <2>6. Linked(prog, f, code[f], 1)
    BY <1>2, <1>7 DEF Shaped
  <2> QED BY <2>5, <2>6 DEF Linked, Behind
<1> QED BY <1>4, <1>5, <1>6, <1>8 DEF Entry, OpAt

\* Which instruction follows which inside an opening or a closing sequence, and
\* that nothing else leads there.
LEMMA FollowingOps ==
  ASSUME RunsComplete, NEW a, Place(a), OpAt(a) \notin Leaves
  PROVE  LET op == OpAt(<<a[1], At(a[1], a[2] + 1)>>)
         IN /\ OpAt(a) = "setb_c" => op = "jbc_ea"
            /\ OpAt(a) = "jbc_ea" => op = "clr_c"
            /\ OpAt(a) = "clr_c" => op = "mov_bit_c"
            /\ OpAt(a) = "mov_c_bit" => op = "mov_ea_c"
            /\ OpAt(a) \notin {"setb_c", "jbc_ea", "clr_c", "mov_c_bit"} =>
                 op \notin {"jbc_ea", "clr_c", "mov_bit_c", "mov_ea_c"}
<1>1. PICK f, n, i, s, j : f = a[1] /\ n = a[2] /\ i = n + 1 /\ s = code[f] /\ j = At(f, i)
  OBVIOUS
<1>2. /\ n \in Nat /\ n \in 1 .. Len(s) /\ s \in Seq(Insn) /\ Len(s) \in Nat
      /\ Shaped(prog, f, s) /\ Linked(prog, f, s, n)
  BY <1>1, PlaceParts
<1>3. Arrives(s, i, j) /\ j \in 1 .. Len(s)
  <2>1. Place(<<f, j>>) /\ Arrives(s, i, j)
    BY <1>1, FollowingPlace
  <2> QED BY <1>1, <2>1 DEF Place
<1>4. i \in 1 .. Len(s) /\ i \in Nat /\ i - 1 = n /\ i > 1 /\ n < Len(s) /\ j \in Nat
  <2>1. j \in i .. Len(s)
    BY <1>3 DEF Arrives
  <2> QED BY <1>1, <1>2, <1>3, <2>1
<1>5. s[n].op = OpAt(a) /\ s[n].op # "label" /\ OpAt(<<f, j>>) = s[j].op
  BY <1>1 DEF OpAt, Place
<1>6. ASSUME s[i].op # "label"
      PROVE  j = i
  <2>1. i .. i - 1 = {} /\ i \in i .. Len(s)
    BY <1>4
  <2>2. Arrives(s, i, i)
    BY <1>6, <2>1 DEF Arrives
  <2> QED BY <1>2, <1>3, <1>4, <2>2, ArrivesOnce
<1>7. /\ s[n].op = "setb_c" => s[j].op = "jbc_ea"
      /\ s[n].op = "jbc_ea" => s[j].op = "clr_c"
      /\ s[n].op = "mov_c_bit" => s[j].op = "mov_ea_c"
  BY <1>1, <1>2, <1>6 DEF Linked, Before
<1>8. ASSUME s[n].op = "clr_c"
      PROVE  s[j].op = "mov_bit_c"
  <2>1. s[i].op = "label" /\ s[i].arg \in Starts(prog, f)
    BY <1>1, <1>2, <1>8 DEF Linked, Before
  <2>2. Linked(prog, f, s, i)
    BY <1>2, <1>4 DEF Shaped
  <2>3. i < Len(s) /\ s[i + 1].op = "mov_bit_c"
    BY <2>1, <2>2 DEF Linked, Before
  <2>4. PICK l : l = i + 1
    OBVIOUS
  <2>5. l \in i .. Len(s) /\ s[l].op # "label" /\ \A k \in i .. l - 1 : k = i
    BY <1>2, <1>4, <2>3, <2>4
  <2>6. \A k \in i .. l - 1 : s[k].op = "label"
    BY <2>1, <2>5
  <2>7. Arrives(s, i, i + 1)
    BY <2>4, <2>5, <2>6 DEF Arrives
  <2>8. j = i + 1
    BY <1>2, <1>3, <1>4, <2>7, ArrivesOnce
  <2> QED BY <2>3, <2>8
<1>9. ASSUME s[j].op \in {"jbc_ea", "clr_c", "mov_bit_c", "mov_ea_c"}
      PROVE  s[n].op \in {"setb_c", "jbc_ea", "clr_c", "mov_c_bit"}
  <2>1. s[j].op \in Mid
    BY <1>9 DEF Mid
  <2>2. ReachedAlone(prog, f, s, i, j)
    BY <1>2, <1>3, <1>4, <2>1, ArrivesMid
  <2>3. CASE j = i
    <3>1. Linked(prog, f, s, j)
      BY <1>2, <1>3 DEF Shaped
    <3>2. /\ s[j].op = "jbc_ea" => s[n].op = "setb_c"
          /\ s[j].op = "clr_c" => s[n].op = "jbc_ea"
          /\ s[j].op = "mov_bit_c" => s[n].op = "label"
          /\ s[j].op = "mov_ea_c" => s[n].op = "mov_c_bit"
      BY <1>4, <2>3, <3>1 DEF Linked, Behind
    <3> QED BY <1>5, <1>9, <3>2
  <2>4. CASE s[i].op = "label" /\ s[i].arg \in Starts(prog, f)
    <3>1. Linked(prog, f, s, i)
      BY <1>2, <1>4 DEF Shaped
    <3>2. s[n].op = "clr_c"
      BY <1>4, <2>4, <3>1 DEF Linked, Behind
    <3> QED BY <3>2
  <2> QED BY <2>2, <2>3, <2>4 DEF ReachedAlone
<1> QED BY <1>1, <1>5, <1>7, <1>8, <1>9

LEMMA TargetOps ==
  ASSUME RunsComplete, NEW a, Place(a), OpAt(a) \in Goto
  PROVE  LET op == OpAt(<<a[1], Labelled(a[1], code[a[1]][a[2]].arg)>>)
         IN /\ OpAt(a) = "jbc_ea" => op = "mov_bit_c"
            /\ OpAt(a) # "jbc_ea" => op \notin Mid
<1>1. PICK f, n, l, s : f = a[1] /\ n = a[2] /\ s = code[f] /\ l = s[n].arg
  OBVIOUS
<1>2. /\ n \in 1 .. Len(s) /\ s \in Seq(Insn) /\ Len(s) \in Nat /\ f \in Func \cup {Boot}
      /\ Shaped(prog, f, s) /\ Linked(prog, f, s, n) /\ Complete(prog, f, s)
  BY <1>1, PlaceParts
<1>3. s[n].op = OpAt(a)
  BY <1>1 DEF OpAt
<1>4. l \in Labels(s)
  <2>1. l \in Jumps(s)
    BY <1>1, <1>2, <1>3 DEF Jumps, Insns
  <2> QED BY <1>2, <2>1 DEF Complete
<1>5. PICK m, j : m = LabelAt(f, l) /\ j = At(f, m)
  OBVIOUS
<1>6. m \in 1 .. Len(s) /\ s[m].op = "label" /\ s[m].arg = l
  BY <1>1, <1>4, <1>5, LabelThere
<1>7. Labelled(f, l) = j
  BY <1>5 DEF Labelled, LabelAt
<1>8. Arrives(s, m, j)
  BY <1>1, <1>2, <1>5, <1>6, ArrivesPlace
<1>9. OpAt(<<f, j>>) = s[j].op
  BY <1>1 DEF OpAt
<1>10. ASSUME OpAt(a) = "jbc_ea"
       PROVE  s[j].op = "mov_bit_c"
  <2>1. l \in Starts(prog, f)
    BY <1>1, <1>2, <1>3, <1>10 DEF Linked
  <2>2. Linked(prog, f, s, m)
    BY <1>2, <1>6 DEF Shaped
  <2>3. m < Len(s) /\ s[m + 1].op = "mov_bit_c"
    BY <1>6, <2>1, <2>2 DEF Linked, Before
  <2>4. m + 1 \in m .. Len(s) /\ \A k \in m .. m + 1 - 1 : k = m
    BY <1>2, <1>6, <2>3
  <2>5. Arrives(s, m, m + 1)
    BY <1>6, <2>3, <2>4 DEF Arrives
  <2>6. j = m + 1
    BY <1>2, <1>6, <1>8, <2>5, ArrivesOnce
  <2> QED BY <2>3, <2>6
<1>11. ASSUME OpAt(a) # "jbc_ea", s[j].op \in Mid
       PROVE  FALSE
  <2>1. l \notin Starts(prog, f)
    BY <1>1, <1>2, <1>3, <1>11 DEF Linked, Goto
  <2>2. ReachedAlone(prog, f, s, m, j)
    BY <1>2, <1>6, <1>8, <1>11, ArrivesMid
  <2>3. j # m
    BY <1>6, <1>11 DEF Mid
  <2> QED BY <1>6, <2>1, <2>2, <2>3 DEF ReachedAlone
<1> QED BY <1>1, <1>7, <1>9, <1>10, <1>11

-----------------------------------------------------------------------------
(***************************************************************************)
(* What EA, the carry and the saved bits are worth in and around sections. *)
(***************************************************************************)
\* No code that the first n entries of stack st lead back to is in a section.
Free(st, n) == \A m \in 1 .. n : ~st[m].in

\* Outside of its own sections, code with these entries below it has EA on.
Live(st, n, want1) == want1 /\ Free(st, n)

\* EA has been cleared and not restored yet.
Shut == {"clr_c", "mov_bit_c", "mov_ea_c"}

\* EA and the carry before the instruction at a.
Here(a, st, ea1, c1, want1) ==
  /\ OpAt(a) \notin Shut => (ea1 <=> Live(st, Len(st), want1) /\ SetAt(a) = {})
  /\ OpAt(a) \in Shut => ~ea1
  /\ OpAt(a) = "jbc_ea" => c1
  /\ OpAt(a) = "clr_c" => ~(Live(st, Len(st), want1) /\ SetAt(a) = {})
  /\ OpAt(a) = "mov_bit_c" => (c1 <=> Live(st, Len(st), want1) /\ SetAt(a) = {})
  /\ OpAt(a) = "mov_ea_c" => (c1 <=> Live(st, Len(st), want1) /\ \E v : SetAt(a) = {v})

\* Of the bits of the sections open at a, that of the outermost says what EA was.
Kept(a, bits1, st, n, want1) ==
  \A v \in SetAt(a) :
    <<a[1], v>> \in bits1 <=> Live(st, n, want1) /\ Outermost(SetAt(a), v)

\* The code that entry m leads back to can go on from there.
Waiting(st, m, bits1, want1) ==
  /\ OpAt(st[m].at) \notin Shut
  /\ st[m].kind = "call" => OpAt(st[m].at) # "jbc_ea"
  /\ st[m].in <=> SetAt(st[m].at) # {}
  /\ Kept(st[m].at, bits1, st, m - 1, want1)

\* A section of f may wait for g.
Under(f, g) == g > f /\ g \in Hushed(prog)

\* Whatever runs while a section waits is a function that sections may call.
Sheltered(a, st) ==
  \A m \in 1 .. Len(st) : st[m].in =>
    /\ Under(st[m].at[1], a[1])
    /\ \A k \in m + 1 .. Len(st) : Under(st[m].at[1], st[k].at[1])

\* At most one interrupt is in service, none below it is in a section, and the
\* carry of an interrupted jbc is saved.
Served(st, c1, isr1) ==
  \A m \in 1 .. Len(st) : st[m].kind = "irq" =>
    /\ isr1 /\ Free(st, m)
    /\ \A k \in 1 .. Len(st) : st[k].kind = "irq" => k = m
    /\ m < Len(st) => st[m + 1].kind = "psw"
    /\ OpAt(st[m].at) = "jbc_ea" => (m = Len(st) => c1) /\ (m < Len(st) => st[m + 1].c)

Sound(a, st, ea1, c1, bits1, want1, isr1) ==
  /\ Here(a, st, ea1, c1, want1)
  /\ Kept(a, bits1, st, Len(st), want1)
  /\ \A m \in 1 .. Len(st) : Waiting(st, m, bits1, want1)
  /\ Sheltered(a, st)
  /\ Served(st, c1, isr1)

LEMMA FreeElsewhere ==
  ASSUME NEW st, NEW st1, NEW n \in Nat, \A k \in 1 .. n : st1[k] = st[k], NEW m \in 0 .. n
  PROVE  /\ Free(st1, m) <=> Free(st, m)
         /\ \A want1 : Live(st1, m, want1) <=> Live(st, m, want1)
<1>1. \A k \in 1 .. m : k \in 1 .. n
  OBVIOUS
<1>2. Free(st1, m) <=> Free(st, m)
  BY <1>1 DEF Free
<1> QED BY <1>2 DEF Live

LEMMA WaitingElsewhere ==
  ASSUME NEW st, NEW st1, NEW n \in Nat, \A k \in 1 .. n : st1[k] = st[k], NEW m \in 1 .. n,
         NEW bits1, NEW want1, Waiting(st, m, bits1, want1)
  PROVE  Waiting(st1, m, bits1, want1)
<1>1. st1[m] = st[m] /\ m - 1 \in 0 .. n
  OBVIOUS
<1>2. Live(st1, m - 1, want1) <=> Live(st, m - 1, want1)
  BY <1>1, FreeElsewhere
<1> QED BY <1>1, <1>2 DEF Waiting, Kept

\* An entry on top.
LEMMA WaitingPush ==
  ASSUME NEW st \in Seq(Entries), NEW e \in Entries, NEW bits1, NEW want1,
         \A m \in 1 .. Len(st) : Waiting(st, m, bits1, want1),
         OpAt(e.at) \notin Shut, e.kind = "call" => OpAt(e.at) # "jbc_ea",
         e.in <=> SetAt(e.at) # {}, Kept(e.at, bits1, st, Len(st), want1)
  PROVE  \A m \in 1 .. Len(Append(st, e)) : Waiting(Append(st, e), m, bits1, want1)
<1>1. PICK n, t : n = Len(st) /\ t = Append(st, e)
  OBVIOUS
<1>2. /\ t \in Seq(Entries) /\ Len(t) = n + 1 /\ n \in Nat /\ t[n + 1] = e
      /\ \A m \in 1 .. n : t[m] = st[m]
  BY <1>1, Longer
<1>3. ASSUME NEW m \in 1 .. n
      PROVE  Waiting(t, m, bits1, want1)
  BY <1>1, <1>2, <1>3, WaitingElsewhere
<1>4. Waiting(t, n + 1, bits1, want1)
  <2>1. n \in 0 .. n /\ n + 1 - 1 = n
    BY <1>2
  <2>2. Live(t, n, want1) <=> Live(st, n, want1)
    BY <1>2, <2>1, FreeElsewhere
  <2>3. Kept(e.at, bits1, t, n, want1)
    BY <1>1, <2>2 DEF Kept
  <2>4. PICK k : k = n + 1
    OBVIOUS
  <2>5. k - 1 = n /\ t[k] = e
    BY <1>2, <2>1, <2>4
  <2>6. Waiting(t, k, bits1, want1)
    BY <2>3, <2>5 DEF Waiting
  <2> QED BY <2>4, <2>6
<1>5. \A m \in 1 .. Len(t) : m \in 1 .. n \/ m = n + 1
  BY <1>2
<1> QED BY <1>1, <1>3, <1>4, <1>5

LEMMA FreePush ==
  ASSUME NEW st \in Seq(Entries), NEW e \in Entries
  PROVE  LET t == Append(st, e)
         IN /\ Free(t, Len(t)) <=> Free(st, Len(st)) /\ ~e.in
            /\ \A want1 : Live(t, Len(t), want1) <=> Live(st, Len(st), want1) /\ ~e.in
            /\ \A m \in 0 .. Len(st) : Free(t, m) <=> Free(st, m)
<1>1. PICK n, t : n = Len(st) /\ t = Append(st, e)
  OBVIOUS
<1>2. /\ Len(t) = n + 1 /\ n \in Nat /\ t[n + 1] = e /\ \A m \in 1 .. n : t[m] = st[m]
  BY <1>1, Longer
<1>3. 1 .. n + 1 = (1 .. n) \cup {n + 1}
  BY <1>2
<1>4. Free(t, n + 1) <=> Free(st, n) /\ ~e.in
  BY <1>2, <1>3 DEF Free
<1>5. \A m \in 0 .. n : Free(t, m) <=> Free(st, m)
  BY <1>2, FreeElsewhere
<1> QED BY <1>1, <1>2, <1>4, <1>5 DEF Live

LEMMA ShelteredPush ==
  ASSUME NEW st \in Seq(Entries), NEW e \in Entries, NEW a, NEW b, Sheltered(a, st),
         e.at[1] = a[1], e.in => Under(e.at[1], b[1]),
         \A m \in 1 .. Len(st) : st[m].in => Under(st[m].at[1], b[1])
  PROVE  Sheltered(b, Append(st, e))
<1>1. PICK n, t : n = Len(st) /\ t = Append(st, e)
  OBVIOUS
<1>2. /\ Len(t) = n + 1 /\ n \in Nat /\ t[n + 1] = e /\ \A m \in 1 .. n : t[m] = st[m]
  BY <1>1, Longer
<1>3. ASSUME NEW m \in 1 .. n + 1, t[m].in
      PROVE  /\ Under(t[m].at[1], b[1])
             /\ \A k \in m + 1 .. n + 1 : Under(t[m].at[1], t[k].at[1])
  <2>1. CASE m = n + 1
    <3>1. m + 1 .. n + 1 = {}
      BY <1>2, <2>1
    <3>2. t[m] = e
      BY <1>2, <2>1
    <3> QED BY <1>3, <3>1, <3>2
  <2>2. CASE m \in 1 .. n
    <3>1. t[m] = st[m] /\ st[m].in
      BY <1>2, <1>3, <2>2
    <3>2. /\ Under(st[m].at[1], a[1])
          /\ \A k \in m + 1 .. n : Under(st[m].at[1], st[k].at[1])
      BY <1>1, <2>2, <3>1 DEF Sheltered
    <3>3. \A k \in m + 1 .. n + 1 : k = n + 1 \/ (k \in m + 1 .. n /\ k \in 1 .. n)
      BY <1>2, <2>2
    <3> QED BY <1>1, <1>2, <2>2, <3>1, <3>2, <3>3
  <2> QED BY <1>2, <2>1, <2>2
<1> QED BY <1>1, <1>2, <1>3 DEF Sheltered

\* What is left when the top entry is taken.
LEMMA PopSound ==
  ASSUME NEW st \in Seq(Entries), Len(st) > 0, NEW a, NEW b, NEW c1, NEW c2, NEW bits1, NEW want1,
         NEW isr1, NEW isr2,
         \A m \in 1 .. Len(st) : Waiting(st, m, bits1, want1), Sheltered(a, st),
         Served(st, c1, isr1), b[1] = a[1] \/ b[1] = st[Len(st)].at[1],
         \/ st[Len(st)].kind = "call" /\ isr2 = isr1
         \/ st[Len(st)].kind = "psw" /\ isr2 = isr1 /\ c2 = st[Len(st)].c
         \/ st[Len(st)].kind = "irq"
  PROVE  LET t == SubSeq(st, 1, Len(st) - 1)
         IN /\ \A m \in 1 .. Len(t) : Waiting(t, m, bits1, want1)
            /\ Sheltered(b, t) /\ Served(t, c2, isr2)
            /\ Len(t) = Len(st) - 1 /\ t \in Seq(Entries)
            /\ Free(st, Len(st)) <=> Free(t, Len(t)) /\ ~st[Len(st)].in
            /\ \A w : Live(t, Len(t), w) <=> Live(st, Len(st) - 1, w)
<1>1. PICK n, t, e : n = Len(st) /\ t = SubSeq(st, 1, n - 1) /\ e = st[n]
  OBVIOUS
<1>2. /\ t \in Seq(Entries) /\ Len(t) = n - 1 /\ n \in Nat /\ n > 0
      /\ \A m \in 1 .. n - 1 : t[m] = st[m]
  BY <1>1, Shorter, LenProperties
<1>3. /\ \A m \in 1 .. n - 1 : m \in 1 .. n /\ m # n /\ m < n
      /\ \A m \in 1 .. n - 1 : m < n - 1 => m + 1 \in 1 .. n - 1
      /\ n - 1 \in Nat /\ n \in 1 .. n /\ n - 1 \in 0 .. n - 1
  BY <1>2
<1>4. ASSUME NEW m \in 1 .. n - 1
      PROVE  Waiting(t, m, bits1, want1)
  <2>1. Waiting(st, m, bits1, want1)
    BY <1>1, <1>3
  <2>2. PICK k : k = n - 1
    OBVIOUS
  <2>3. k \in Nat /\ m \in 1 .. k /\ \A j \in 1 .. k : t[j] = st[j]
    BY <1>2, <1>3, <2>2
  <2> QED BY <2>1, <2>3, WaitingElsewhere
<1>5. ASSUME NEW m \in 1 .. n - 1, t[m].in
      PROVE  /\ Under(t[m].at[1], b[1])
             /\ \A k \in m + 1 .. n - 1 : Under(t[m].at[1], t[k].at[1])
  <2>1. /\ Under(st[m].at[1], a[1])
        /\ \A k \in m + 1 .. n : Under(st[m].at[1], st[k].at[1])
    BY <1>1, <1>2, <1>3, <1>5 DEF Sheltered
  <2>2. n \in m + 1 .. n /\ \A k \in m + 1 .. n - 1 : k \in m + 1 .. n /\ k \in 1 .. n - 1
    BY <1>2, <1>3
  <2> QED BY <1>1, <1>2, <2>1, <2>2
<1>6. Sheltered(b, t)
  BY <1>2, <1>5 DEF Sheltered
<1>7. \A m \in 0 .. n - 1 : Free(t, m) <=> Free(st, m)
  BY <1>2, <1>3, FreeElsewhere
<1>8. \A w : Live(t, n - 1, w) <=> Live(st, n - 1, w)
  BY <1>2, <1>3, FreeElsewhere
<1>9. Free(st, n) <=> Free(t, n - 1) /\ ~e.in
  <2>1. 1 .. n = (1 .. n - 1) \cup {n}
    BY <1>2
  <2> QED BY <1>1, <1>2, <2>1 DEF Free
<1>10. ASSUME NEW m \in 1 .. n - 1, t[m].kind = "irq"
       PROVE  /\ isr2 /\ Free(t, m)
              /\ \A k \in 1 .. n - 1 : t[k].kind = "irq" => k = m
              /\ m < n - 1 => t[m + 1].kind = "psw"
              /\ OpAt(t[m].at) = "jbc_ea" => (m = n - 1 => c2) /\ (m < n - 1 => t[m + 1].c)
  <2>1. /\ st[m].kind = "irq" /\ t[m] = st[m] /\ m \in 1 .. n /\ m < n /\ m # n /\ m \in 0 .. n - 1
    BY <1>2, <1>3, <1>10
  <2>2. /\ isr1 /\ Free(st, m)
        /\ \A k \in 1 .. n : st[k].kind = "irq" => k = m
        /\ st[m + 1].kind = "psw"
        /\ OpAt(st[m].at) = "jbc_ea" => st[m + 1].c
    BY <1>1, <2>1 DEF Served
  <2>3. e.kind # "irq"
    BY <1>1, <1>3, <2>1, <2>2
  <2>4. m = n - 1 => st[m + 1] = e
    BY <1>1, <1>2
  <2>5. m = n - 1 => e.kind = "psw" /\ c2 = e.c
    BY <1>1, <2>2, <2>3, <2>4
  <2>6. isr2
    BY <1>1, <2>2, <2>3
  <2>7. m < n - 1 => t[m + 1] = st[m + 1]
    BY <1>2, <1>3
  <2>8. \A k \in 1 .. n - 1 : t[k].kind = "irq" => k = m
    BY <1>2, <1>3, <2>2
  <2> QED BY <1>7, <2>1, <2>2, <2>4, <2>5, <2>6, <2>7, <2>8
<1>11. Served(t, c2, isr2)
  BY <1>2, <1>10 DEF Served
<1> QED BY <1>1, <1>2, <1>4, <1>6, <1>8, <1>9, <1>11

\* Going on inside a function, with nothing new on the stack.
LEMMA MoveSound ==
  ASSUME NEW st \in Seq(Entries), NEW a, NEW b, NEW ea1, NEW ea2, NEW c1, NEW c2, NEW bits1,
         NEW want1, NEW isr1, Sound(a, st, ea1, c1, bits1, want1, isr1), b[1] = a[1],
         c2 = c1 \/ (Len(st) > 0 => st[Len(st)].kind # "irq"),
         Here(b, st, ea2, c2, want1), Kept(b, bits1, st, Len(st), want1)
  PROVE  Sound(b, st, ea2, c2, bits1, want1, isr1)
<1>1. Sheltered(b, st)
  BY DEF Sound, Sheltered
<1>2. Len(st) \in Nat
  BY LenProperties
<1>3. \A m \in 1 .. Len(st) : m = Len(st) => Len(st) > 0
  BY <1>2
<1>4. Served(st, c1, isr1)
  BY DEF Sound
<1>5. Served(st, c2, isr1)
  BY <1>3, <1>4 DEF Served
<1> QED BY <1>1, <1>5 DEF Sound

Admits(ea1, isr1) == ea1 /\ ~isr1

\* An interrupt is accepted outside of sections only.
LEMMA InterruptSound ==
  ASSUME RunsSectioned, NEW a, Place(a), NEW st \in Seq(Entries), NEW ea1, NEW c1, NEW bits1,
         NEW want1, NEW isr1, Sound(a, st, ea1, c1, bits1, want1, isr1), Admits(ea1, isr1),
         NEW h \in Handlers(prog)
  PROVE  Sound(Entry(h), Append(st, Pushed("irq", a, code[a[1]][a[2]].in, FALSE)), ea1, c1, bits1,
               want1, TRUE)
<1>0. RunsComplete /\ ea1 /\ ~isr1
  BY DEF RunsSectioned, Admits
<1>1. PICK e, n, t, x : /\ x = code[a[1]][a[2]] /\ e = Pushed("irq", a, x.in, FALSE)
                        /\ n = Len(st) /\ t = Append(st, e)
  OBVIOUS
<1>2. /\ a[1] \in Func \cup {Boot} /\ a = <<a[1], a[2]>> /\ a[2] \in 1 .. Len(code[a[1]])
      /\ x \in Insn /\ a \in Address /\ x.op # "label" /\ OpAt(a) = x.op
  BY <1>0, <1>1, PlaceParts DEF Place, Address, OpAt
<1>3. /\ OpAt(a) \notin Shut /\ Live(st, n, want1) /\ SetAt(a) = {}
      /\ OpAt(a) = "jbc_ea" => c1
  BY <1>0, <1>1 DEF Sound, Here
<1>4. Within(prog, a[1], x, SetAt(a), SetAt(<<a[1], a[2] + 1>>))
  BY <1>1, <1>2, SetsWithin
<1>5. ~x.in
  BY <1>2, <1>3, <1>4 DEF Within
<1>6. e \in Entries /\ e.kind = "irq" /\ e.at = a /\ ~e.in
  <2>1. x.in \in BOOLEAN
    BY <1>2 DEF Insn
  <2>2. Recorded(e, "irq", a, x.in, FALSE)
    BY <1>1, <1>2, <2>1, EntryType
  <2> QED BY <1>5, <2>2 DEF Recorded
<1>7. /\ Len(t) = n + 1 /\ n \in Nat /\ t[n + 1] = e /\ \A m \in 1 .. n : t[m] = st[m]
  <2>1. /\ Len(Append(st, e)) = Len(st) + 1 /\ Len(st) \in Nat /\ Append(st, e)[Len(st) + 1] = e
        /\ \A m \in 1 .. Len(st) : Append(st, e)[m] = st[m]
    BY <1>6, Longer
  <2> QED BY <1>1, <2>1
<1>8. /\ \A m \in 1 .. n : Waiting(st, m, bits1, want1)
      /\ Sheltered(a, st) /\ Served(st, c1, isr1)
  BY <1>1 DEF Sound
<1>9. \A m \in 1 .. Len(t) : Waiting(t, m, bits1, want1)
  <2>1. Kept(e.at, bits1, st, n, want1)
    BY <1>3, <1>6 DEF Kept
  <2> QED BY <1>1, <1>3, <1>6, <1>8, <2>1, WaitingPush
<1>10. Free(st, n)
  BY <1>3 DEF Live
<1>11. Sheltered(Entry(h), t)
  <2>1. \A m \in 1 .. n : ~st[m].in
    BY <1>10 DEF Free
  <2> QED BY <1>1, <1>6, <1>8, <2>1, ShelteredPush
<1>12. Live(t, Len(t), want1) /\ Free(t, n + 1)
  <2>1. /\ Free(Append(st, e), Len(Append(st, e))) <=> Free(st, Len(st)) /\ ~e.in
        /\ Live(Append(st, e), Len(Append(st, e)), want1) <=> Live(st, Len(st), want1) /\ ~e.in
    BY <1>6, FreePush
  <2> QED BY <1>1, <1>3, <1>6, <1>7, <1>10, <2>1
<1>13. \A m \in 1 .. n : st[m].kind # "irq"
  BY <1>0, <1>1, <1>8 DEF Served
<1>14. ASSUME NEW m \in 1 .. Len(t), t[m].kind = "irq"
       PROVE  m = n + 1
  BY <1>7, <1>13, <1>14
<1>15. Served(t, c1, TRUE)
  <2>1. ~(n + 1 < Len(t))
    BY <1>7
  <2> QED BY <1>3, <1>6, <1>7, <1>12, <1>14, <2>1 DEF Served
<1>16. h \in Func \cup {Boot}
  BY <1>0, ProgramParts DEF RunsComplete
<1>17. SetAt(Entry(h)) = {} /\ OpAt(Entry(h)) \notin Mid
  BY <1>16, EntrySets
<1>18. Here(Entry(h), t, ea1, c1, want1)
  BY <1>0, <1>12, <1>17 DEF Here, Mid, Shut
<1>19. Kept(Entry(h), bits1, t, Len(t), want1)
  BY <1>17 DEF Kept
<1> QED BY <1>1, <1>9, <1>11, <1>15, <1>18, <1>19 DEF Sound

LEMMA EndsSound ==
  ASSUME RunsSectioned, NEW pc1, Place(pc1), NEW stack1 \in Seq(Entries), NEW ea1, NEW c1, NEW bits1,
         NEW want1, NEW isr1, Sound(pc1, stack1, ea1, c1, bits1, want1, isr1),
         Ends(pc1, stack1, ea1, isr1)
  PROVE  Sound(pc', stack', ea1, c1, bits1, want1, inIsr')
<1>1. CASE pc' = pc1 /\ stack' = stack1 /\ inIsr' = isr1
  BY <1>1
<1>2. CASE ea1 /\ ~isr1 /\ inIsr' = TRUE /\ Interrupted(pc1, stack1)
  <2>1. PICK h \in Handlers(prog) :
          /\ pc' = Entry(h)
          /\ stack' = Append(stack1, Pushed("irq", pc1, code[pc1[1]][pc1[2]].in, FALSE))
    BY <1>2 DEF Interrupted
  <2>2. Admits(ea1, isr1)
    BY <1>2 DEF Admits
  <2>3. Sound(Entry(h), Append(stack1, Pushed("irq", pc1, code[pc1[1]][pc1[2]].in, FALSE)), ea1, c1,
              bits1, want1, TRUE)
    BY <2>1, <2>2, InterruptSound, Zenon
  <2>4. inIsr' = TRUE
    BY <1>2
  <2> QED BY <2>1, <2>3, <2>4, Zenon
<1> QED BY <1>1, <1>2 DEF Ends

-----------------------------------------------------------------------------
(***************************************************************************)
(* That every instruction keeps it so.                                     *)
(***************************************************************************)
Sounds == Sound(pc, stack, ea, c, bits, want, inIsr)

LEMMA Sounding ==
  ASSUME TypeInv, Sectioned, Disciplined(prog), phase = "run"
  PROVE  RunsSectioned
<1>1. RunsComplete /\ prog \in Programs
  BY Running
<1>2. fn = N
  BY DEF TypeInv, Compiled
<1>3. \A f \in Func : f < fn
  BY <1>1, <1>2, ProgramParts DEF Func
<1>4. \A f \in Func \cup {Boot} : \E M : Between(prog, f, code[f], {}, M)
  BY <1>3 DEF Sectioned
<1> QED BY <1>1, <1>4 DEF RunsSectioned

\* What Sounds says of the state, and of the instruction that is executed.
LEMMA Standing ==
  ASSUME TypeInv, RunsSectioned, phase = "run", Sounds
  PROVE  /\ RunsComplete /\ Place(pc) /\ stack \in Seq(Entries) /\ Len(stack) \in Nat
         /\ prog \in Programs /\ c \in BOOLEAN /\ ea \in BOOLEAN /\ want \in BOOLEAN
         /\ pc[1] \in Func \cup {Boot} /\ pc[1] \in Nat
         /\ OpAt(pc) = Current.op /\ Current = code[pc[1]][pc[2]] /\ Current \in Insn
         /\ SetAt(pc) \in SUBSET Nat
         /\ Here(pc, stack, ea, c, want) /\ Kept(pc, bits, stack, Len(stack), want)
         /\ \A m \in 1 .. Len(stack) : Waiting(stack, m, bits, want)
         /\ Sheltered(pc, stack) /\ Served(stack, c, inIsr)
<1>1. /\ RunsComplete /\ Place(pc) /\ stack \in Seq(Entries) /\ Len(stack) \in Nat
      /\ prog \in Programs /\ pc[1] \in Func \cup {Boot} /\ pc[2] \in 1 .. Len(code[pc[1]])
      /\ OpAt(pc) = Current.op /\ Current = code[pc[1]][pc[2]] /\ Current \in Insn
  BY Running
<1>2. c \in BOOLEAN /\ ea \in BOOLEAN /\ want \in BOOLEAN
  BY DEF TypeInv, CpuTypes
<1>3. pc[1] \in Nat
  BY <1>1, ProgramParts DEF Func, Boot
<1>4. SetAt(pc) \in SUBSET Nat
  <2>1. pc = <<pc[1], pc[2]>>
    BY <1>1, PlaceParts
  <2>2. SetAt(<<pc[1], pc[2]>>) \in SUBSET Nat
    BY <1>1, SetsWithin
  <2> QED BY <2>1, <2>2
<1>5. /\ Here(pc, stack, ea, c, want) /\ Kept(pc, bits, stack, Len(stack), want)
      /\ \A m \in 1 .. Len(stack) : Waiting(stack, m, bits, want)
      /\ Sheltered(pc, stack) /\ Served(stack, c, inIsr)
  BY DEF Sounds, Sound
<1> QED BY <1>1, <1>2, <1>3, <1>4, <1>5

\* A handler has saved PSW wherever it does more than that.
LEMMA Covered ==
  ASSUME TypeInv, phase = "run", OpAt(pc) \notin Bare
  PROVE  Len(stack) > 0 => stack[Len(stack)].kind # "irq"
<1>1. Based(pc, stack, Len(stack)) /\ Len(stack) \in Nat
  BY Running
<1> QED BY <1>1 DEF Based

LEMMA Onward ==
  ASSUME TypeInv, RunsSectioned, phase = "run", OpAt(pc) \notin Leaves
  PROVE  /\ Following[1] = pc[1]
         /\ Within(prog, pc[1], Current, SetAt(pc), SetAt(Following))
         /\ SetAt(pc) \in SUBSET Nat /\ SetAt(Following) \in SUBSET Nat
         /\ OpAt(pc) = "setb_c" => OpAt(Following) = "jbc_ea"
         /\ OpAt(pc) = "jbc_ea" => OpAt(Following) = "clr_c"
         /\ OpAt(pc) = "clr_c" => OpAt(Following) = "mov_bit_c"
         /\ OpAt(pc) = "mov_c_bit" => OpAt(Following) = "mov_ea_c"
         /\ OpAt(pc) \notin {"setb_c", "jbc_ea", "clr_c", "mov_c_bit"} =>
              OpAt(Following) \notin {"jbc_ea", "clr_c", "mov_bit_c", "mov_ea_c"}
<1>1. RunsComplete /\ Place(pc) /\ Current = code[pc[1]][pc[2]]
  BY Running
<1>2. PICK a : a = pc
  OBVIOUS
<1>3. Following = <<a[1], At(a[1], a[2] + 1)>>
  BY <1>2 DEF Following
<1>4. Following[1] = pc[1]
  BY <1>2, <1>3
<1>5. /\ Within(prog, a[1], code[a[1]][a[2]], SetAt(a), SetAt(Following))
      /\ SetAt(a) \in SUBSET Nat /\ SetAt(Following) \in SUBSET Nat
  BY <1>1, <1>2, <1>3, FollowingSets
<1>6. /\ OpAt(a) = "setb_c" => OpAt(Following) = "jbc_ea"
      /\ OpAt(a) = "jbc_ea" => OpAt(Following) = "clr_c"
      /\ OpAt(a) = "clr_c" => OpAt(Following) = "mov_bit_c"
      /\ OpAt(a) = "mov_c_bit" => OpAt(Following) = "mov_ea_c"
      /\ OpAt(a) \notin {"setb_c", "jbc_ea", "clr_c", "mov_c_bit"} =>
           OpAt(Following) \notin {"jbc_ea", "clr_c", "mov_bit_c", "mov_ea_c"}
  BY <1>1, <1>2, <1>3, FollowingOps
<1> QED BY <1>1, <1>2, <1>4, <1>5, <1>6

\* With the same sections open, the same bits are kept for them.
LEMMA KeptAlong ==
  ASSUME NEW a, NEW b, NEW bits1, NEW st, NEW n, NEW want1, b[1] = a[1], SetAt(b) = SetAt(a),
         Kept(a, bits1, st, n, want1)
  PROVE  Kept(b, bits1, st, n, want1)
  BY DEF Kept

\* Going on to an instruction with the same sections.
LEMMA AlongSound ==
  ASSUME TypeInv, RunsSectioned, phase = "run", Sounds, NEW b, b[1] = pc[1], SetAt(b) = SetAt(pc),
         OpAt(pc) \notin Bare, NEW ea2, NEW c2, Here(b, stack, ea2, c2, want)
  PROVE  Sound(b, stack, ea2, c2, bits, want, inIsr)
<1>1. stack \in Seq(Entries) /\ Kept(pc, bits, stack, Len(stack), want)
  BY Standing
<1>2. Kept(b, bits, stack, Len(stack), want)
  BY <1>1, KeptAlong
<1>3. Len(stack) > 0 => stack[Len(stack)].kind # "irq"
  BY Covered
<1>4. Sound(pc, stack, ea, c, bits, want, inIsr)
  BY DEF Sounds
<1> QED BY <1>1, <1>2, <1>3, <1>4, MoveSound

\* Instructions that have nothing to do with sections.
LEMMA PlainSound ==
  ASSUME TypeInv, RunsSectioned, phase = "run", Sounds, NEW c2,
         Current.op \in {"mov_sbuf", "clr_flag", "other", "branch"}
  PROVE  Sound(Following, stack, ea, c2, bits, want, inIsr)
<1>1. OpAt(pc) = Current.op /\ Here(pc, stack, ea, c, want)
  BY Standing
<1>2. OpAt(pc) \notin Leaves \cup Bare
  BY <1>1 DEF Leaves, Bare
<1>3. /\ Following[1] = pc[1] /\ Within(prog, pc[1], Current, SetAt(pc), SetAt(Following))
      /\ OpAt(Following) \notin {"jbc_ea", "clr_c", "mov_bit_c", "mov_ea_c"}
  BY <1>1, <1>2, Onward
<1>4. SetAt(Following) = SetAt(pc)
  BY <1>1, <1>2, <1>3 DEF Within
<1>5. Here(Following, stack, ea, c2, want)
  BY <1>1, <1>3, <1>4 DEF Here, Shut
<1> QED BY <1>2, <1>3, <1>4, <1>5, AlongSound

LEMMA TargetSound ==
  ASSUME TypeInv, RunsSectioned, phase = "run", Sounds, NEW c2, Current.op \in {"jmp", "branch"}
  PROVE  Sound(Target(Current.arg), stack, ea, c2, bits, want, inIsr)
<1>1. /\ OpAt(pc) = Current.op /\ Here(pc, stack, ea, c, want) /\ Place(pc) /\ RunsComplete
      /\ Current = code[pc[1]][pc[2]]
  BY Standing
<1>2. PICK a, b : a = pc /\ b = Target(Current.arg)
  OBVIOUS
<1>3. b = <<a[1], Labelled(a[1], code[a[1]][a[2]].arg)>>
  BY <1>1, <1>2 DEF Target
<1>4. OpAt(a) \in Goto /\ OpAt(pc) \notin Bare /\ OpAt(a) # "jbc_ea"
  BY <1>1, <1>2 DEF Goto, Bare
<1>5. SetAt(b) = SetAt(a)
  BY <1>1, <1>2, <1>3, <1>4, TargetSets
<1>6. OpAt(b) \notin Mid
  BY <1>1, <1>2, <1>3, <1>4, TargetOps
<1>7. Here(b, stack, ea, c2, want)
  BY <1>1, <1>2, <1>4, <1>5, <1>6 DEF Here, Shut, Mid
<1>8. b[1] = pc[1]
  BY <1>2, <1>3
<1> QED BY <1>2, <1>4, <1>5, <1>7, <1>8, AlongSound

\* setb c and clr c.
LEMMA CarrySound ==
  ASSUME TypeInv, RunsSectioned, phase = "run", Sounds, NEW c2,
         \/ Current.op = "setb_c" /\ c2 = TRUE
         \/ Current.op = "clr_c" /\ c2 = FALSE
  PROVE  Sound(Following, stack, ea, c2, bits, want, inIsr)
<1>1. OpAt(pc) = Current.op /\ Here(pc, stack, ea, c, want)
  BY Standing
<1>2. OpAt(pc) \notin Leaves \cup Bare
  BY <1>1 DEF Leaves, Bare
<1>3. /\ Following[1] = pc[1] /\ Within(prog, pc[1], Current, SetAt(pc), SetAt(Following))
      /\ OpAt(pc) = "setb_c" => OpAt(Following) = "jbc_ea"
      /\ OpAt(pc) = "clr_c" => OpAt(Following) = "mov_bit_c"
  BY <1>1, <1>2, Onward
<1>4. SetAt(Following) = SetAt(pc)
  BY <1>1, <1>2, <1>3 DEF Within
<1>5. Here(Following, stack, ea, c2, want)
  BY <1>1, <1>3, <1>4 DEF Here, Shut
<1> QED BY <1>2, <1>3, <1>4, <1>5, AlongSound

\* jbc ea: with EA on it goes on behind clr c, which it would otherwise execute.
LEMMA ClearSound ==
  ASSUME TypeInv, RunsSectioned, phase = "run", Sounds, Current.op = "jbc_ea"
  PROVE  /\ ea => Sound(Target(Current.arg), stack, FALSE, c, bits, want, inIsr)
         /\ ~ea => Sound(Following, stack, FALSE, c, bits, want, inIsr)
<1>1. /\ OpAt(pc) = Current.op /\ Here(pc, stack, ea, c, want) /\ Place(pc) /\ RunsComplete
      /\ Current = code[pc[1]][pc[2]] /\ ea \in BOOLEAN
  BY Standing
<1>2. OpAt(pc) \notin Leaves \cup Bare
  BY <1>1 DEF Leaves, Bare
<1>3. ASSUME ea
      PROVE  Sound(Target(Current.arg), stack, FALSE, c, bits, want, inIsr)
  <2>1. PICK a, b : a = pc /\ b = Target(Current.arg)
    OBVIOUS
  <2>2. b = <<a[1], Labelled(a[1], code[a[1]][a[2]].arg)>>
    BY <1>1, <2>1 DEF Target
  <2>3. OpAt(a) \in Goto /\ OpAt(a) = "jbc_ea"
    BY <1>1, <2>1 DEF Goto
  <2>4. SetAt(b) = SetAt(a)
    BY <1>1, <2>1, <2>2, <2>3, TargetSets
  <2>5. OpAt(b) = "mov_bit_c"
    BY <1>1, <2>1, <2>2, <2>3, TargetOps
  <2>6. Here(b, stack, FALSE, c, want)
    BY <1>1, <1>3, <2>1, <2>4, <2>5 DEF Here, Shut
  <2>7. b[1] = pc[1]
    BY <2>1, <2>2
  <2> QED BY <1>2, <2>1, <2>4, <2>6, <2>7, AlongSound
<1>4. ASSUME ~ea
      PROVE  Sound(Following, stack, FALSE, c, bits, want, inIsr)
  <2>1. /\ Following[1] = pc[1] /\ Within(prog, pc[1], Current, SetAt(pc), SetAt(Following))
        /\ OpAt(Following) = "clr_c"
    BY <1>1, <1>2, Onward
  <2>2. SetAt(Following) = SetAt(pc)
    BY <1>1, <1>2, <2>1 DEF Within
  <2>3. Here(Following, stack, FALSE, c, want)
    BY <1>1, <1>4, <2>1, <2>2 DEF Here, Shut
  <2> QED BY <1>2, <2>1, <2>2, <2>3, AlongSound
<1> QED BY <1>3, <1>4

\* mov c,bit: the bit of the innermost section.
LEMMA RecallSound ==
  ASSUME TypeInv, RunsSectioned, phase = "run", Sounds, Current.op = "mov_c_bit", NEW c2,
         c2 <=> <<pc[1], Current.arg>> \in bits
  PROVE  Sound(Following, stack, ea, c2, bits, want, inIsr)
<1>1. /\ OpAt(pc) = Current.op /\ Here(pc, stack, ea, c, want)
      /\ Kept(pc, bits, stack, Len(stack), want)
  BY Standing
<1>2. OpAt(pc) \notin Leaves \cup Bare
  BY <1>1 DEF Leaves, Bare
<1>3. /\ Following[1] = pc[1] /\ Within(prog, pc[1], Current, SetAt(pc), SetAt(Following))
      /\ SetAt(pc) \in SUBSET Nat /\ OpAt(Following) = "mov_ea_c"
  BY <1>1, <1>2, Onward
<1>4. SetAt(Following) = SetAt(pc) /\ Innermost(SetAt(pc), Current.arg)
  BY <1>1, <1>2, <1>3 DEF Within
<1>5. PICK L, v : L = SetAt(pc) /\ v = Current.arg
  OBVIOUS
<1>6. v \in L /\ L \in SUBSET Nat /\ \A y \in L : y <= v
  BY <1>3, <1>4, <1>5 DEF Innermost
<1>7. Outermost(L, v) <=> \E w : L = {w}
  <2>1. ASSUME Outermost(L, v)
        PROVE  L = {v}
    <3>1. \A y \in L : y <= v /\ v <= y /\ y \in Nat /\ v \in Nat
      BY <1>6, <2>1 DEF Outermost
    <3>2. \A y \in L : y = v
      BY <3>1
    <3> QED BY <1>6, <3>2
  <2>2. ASSUME NEW w, L = {w}
        PROVE  Outermost(L, v)
    <3>1. \A y \in L : y = v
      BY <1>6, <2>2
    <3>2. v <= v
      BY <1>6
    <3> QED BY <1>6, <3>1, <3>2 DEF Outermost
  <2> QED BY <2>1, <2>2
<1>8. c2 <=> Live(stack, Len(stack), want) /\ Outermost(L, v)
  BY <1>1, <1>5, <1>6 DEF Kept
<1>9. Here(Following, stack, ea, c2, want)
  BY <1>1, <1>3, <1>4, <1>5, <1>6, <1>7, <1>8 DEF Here, Shut
<1> QED BY <1>2, <1>3, <1>4, <1>9, AlongSound

\* mov ea,c: the innermost section ends.
LEMMA RestoreSound ==
  ASSUME TypeInv, RunsSectioned, phase = "run", Sounds, Current.op = "mov_ea_c"
  PROVE  Sound(Following, stack, c, c, bits, want, inIsr)
<1>1. /\ OpAt(pc) = Current.op /\ Here(pc, stack, ea, c, want) /\ stack \in Seq(Entries)
      /\ Kept(pc, bits, stack, Len(stack), want) /\ c \in BOOLEAN
  BY Standing
<1>2. OpAt(pc) \notin Leaves \cup Bare
  BY <1>1 DEF Leaves, Bare
<1>3. /\ Following[1] = pc[1] /\ Within(prog, pc[1], Current, SetAt(pc), SetAt(Following))
      /\ SetAt(pc) \in SUBSET Nat
      /\ OpAt(Following) \notin {"jbc_ea", "clr_c", "mov_bit_c", "mov_ea_c"}
  BY <1>1, <1>2, Onward
<1>4. PICK v : Innermost(SetAt(pc), v) /\ SetAt(Following) = SetAt(pc) \ {v}
  BY <1>1, <1>3 DEF Within
<1>5. PICK L, M : L = SetAt(pc) /\ M = SetAt(Following)
  OBVIOUS
<1>6. M = L \ {v} /\ v \in L /\ L \in SUBSET Nat /\ \A y \in L : y <= v
  BY <1>3, <1>4, <1>5 DEF Innermost
<1>7. (\E w : L = {w}) <=> M = {}
  BY <1>6
<1>8. c <=> Live(stack, Len(stack), want) /\ M = {}
  BY <1>1, <1>5, <1>7 DEF Here
<1>9. Here(Following, stack, c, c, want)
  BY <1>3, <1>5, <1>8 DEF Here, Shut
<1>10. ASSUME NEW w \in M
       PROVE  <<pc[1], w>> \in bits <=> Live(stack, Len(stack), want) /\ Outermost(M, w)
  <2>1. w \in L /\ w \in Nat /\ v \in Nat /\ w <= v
    BY <1>6, <1>10
  <2>2. Outermost(M, w) <=> Outermost(L, w)
    BY <1>6, <1>10, <2>1 DEF Outermost
  <2> QED BY <1>1, <1>5, <2>1, <2>2 DEF Kept
<1>11. Kept(Following, bits, stack, Len(stack), want)
  BY <1>3, <1>5, <1>10 DEF Kept
<1> QED BY <1>1, <1>3, <1>9, <1>11, MoveSound DEF Sounds

\* mov bit,c: the section is entered, and what EA was is in its bit.
LEMMA RememberSound ==
  ASSUME TypeInv, RunsSectioned, phase = "run", Sounds, Current.op = "mov_bit_c", NEW bits1,
         bits1 = IF c THEN bits \cup {<<pc[1], Current.arg>>} ELSE bits \ {<<pc[1], Current.arg>>}
  PROVE  Sound(Following, stack, ea, c, bits1, want, inIsr)
<1>1. /\ OpAt(pc) = Current.op /\ Here(pc, stack, ea, c, want) /\ stack \in Seq(Entries)
      /\ Kept(pc, bits, stack, Len(stack), want) /\ c \in BOOLEAN /\ ea \in BOOLEAN
      /\ \A m \in 1 .. Len(stack) : Waiting(stack, m, bits, want)
      /\ Sheltered(pc, stack) /\ Served(stack, c, inIsr) /\ pc[1] \in Nat
  BY Standing
<1>2. OpAt(pc) \notin Leaves \cup Bare
  BY <1>1 DEF Leaves, Bare
<1>3. /\ Following[1] = pc[1] /\ Within(prog, pc[1], Current, SetAt(pc), SetAt(Following))
      /\ SetAt(pc) \in SUBSET Nat /\ SetAt(Following) \in SUBSET Nat
      /\ OpAt(Following) \notin {"jbc_ea", "clr_c", "mov_bit_c", "mov_ea_c"}
  BY <1>1, <1>2, Onward
<1>4. PICK f, L, M, v, live :
        f = pc[1] /\ L = SetAt(pc) /\ M = SetAt(Following) /\ v = Current.arg
        /\ live = Live(stack, Len(stack), want)
  OBVIOUS
<1>5. /\ v \notin L /\ M = L \cup {v} /\ (\A y \in L : y < v)
      /\ L \in SUBSET Nat /\ M \in SUBSET Nat /\ v \in Nat
  <2>1. v \notin L /\ M = L \cup {v} /\ \A y \in L : y < v
    BY <1>1, <1>3, <1>4 DEF Within
  <2> QED BY <1>3, <1>4, <2>1
<1>6. /\ <<f, v>> \in bits1 <=> c
      /\ \A x : x # <<f, v>> => (x \in bits1 <=> x \in bits)
  BY <1>1, <1>4
<1>7. ~ea /\ (c <=> live /\ L = {})
  BY <1>1, <1>4 DEF Here, Shut
<1>8. Here(Following, stack, ea, c, want)
  BY <1>3, <1>4, <1>5, <1>7 DEF Here, Shut
<1>9. ASSUME NEW w \in M
      PROVE  <<f, w>> \in bits1 <=> live /\ Outermost(M, w)
  <2>1. CASE w = v
    <3>1. Outermost(M, v) <=> L = {}
      BY <1>5 DEF Outermost
    <3> QED BY <1>6, <1>7, <2>1, <3>1
  <2>2. CASE w \in L
    <3>1. w # v /\ w \in Nat /\ w < v
      BY <1>5, <2>2
    <3>2. Outermost(M, w) <=> Outermost(L, w)
      BY <1>5, <2>2, <3>1 DEF Outermost
    <3>3. <<f, w>> \in bits <=> live /\ Outermost(L, w)
      BY <1>1, <1>4, <2>2 DEF Kept
    <3>4. <<f, w>> # <<f, v>>
      BY <3>1
    <3> QED BY <1>6, <3>2, <3>3, <3>4
  <2> QED BY <1>5, <2>1, <2>2
<1>10. Kept(Following, bits1, stack, Len(stack), want)
  BY <1>3, <1>4, <1>9 DEF Kept
<1>11. ASSUME NEW m \in 1 .. Len(stack)
       PROVE  Waiting(stack, m, bits1, want)
  <2>1. Waiting(stack, m, bits, want)
    BY <1>1
  <2>2. PICK a : a = stack[m].at
    OBVIOUS
  <2>3. Kept(a, bits, stack, m - 1, want) /\ (stack[m].in <=> SetAt(a) # {})
    BY <2>1, <2>2 DEF Waiting
  <2>4. a[1] \in Nat
    <3>1. stack[m] \in Entries
      BY <1>1, ElementOfSeq
    <3>2. a \in Address
      BY <2>2, <3>1 DEF Entries
    <3>3. Boot \in Nat /\ Func \subseteq Nat
      BY Standing, ProgramParts DEF Func, Boot
    <3> QED BY <3>2, <3>3 DEF Address
  <2>5. ASSUME NEW y \in SetAt(a)
        PROVE  <<a[1], y>> \in bits1 <=> <<a[1], y>> \in bits
    <3>1. Under(a[1], f)
      BY <1>1, <1>4, <2>2, <2>3, <2>5 DEF Sheltered
    <3>2. a[1] # f
      BY <1>1, <1>4, <2>4, <3>1 DEF Under
    <3>3. <<a[1], y>> # <<f, v>>
      BY <3>2
    <3> QED BY <1>6, <3>3
  <2>6. Kept(a, bits1, stack, m - 1, want)
    BY <2>3, <2>5 DEF Kept
  <2> QED BY <2>1, <2>2, <2>6 DEF Waiting
<1>12. Sheltered(Following, stack)
  BY <1>1, <1>3 DEF Sheltered
<1> QED BY <1>1, <1>8, <1>10, <1>11, <1>12 DEF Sound

\* The program assigns EA outside of sections only.
LEMMA AssignSound ==
  ASSUME TypeInv, RunsSectioned, phase = "run", Sounds, Current.op \in {"setb_ea", "clr_ea"},
         NEW on \in BOOLEAN
  PROVE  Sound(Following, stack, on, c, bits, on, inIsr)
<1>1. /\ OpAt(pc) = Current.op /\ stack \in Seq(Entries)
      /\ \A m \in 1 .. Len(stack) : Waiting(stack, m, bits, want)
      /\ Sheltered(pc, stack) /\ Served(stack, c, inIsr)
  BY Standing
<1>2. OpAt(pc) \notin Leaves \cup Bare
  BY <1>1 DEF Leaves, Bare
<1>3. /\ Following[1] = pc[1] /\ Within(prog, pc[1], Current, SetAt(pc), SetAt(Following))
      /\ OpAt(Following) \notin {"jbc_ea", "clr_c", "mov_bit_c", "mov_ea_c"}
  BY <1>1, <1>2, Onward
<1>4. SetAt(Following) = {} /\ pc[1] \notin Hushed(prog)
  BY <1>1, <1>2, <1>3 DEF Within
<1>5. \A m \in 1 .. Len(stack) : ~stack[m].in
  BY <1>1, <1>4 DEF Sheltered, Under
<1>6. Live(stack, Len(stack), on) <=> on
  BY <1>5 DEF Live, Free
<1>7. Here(Following, stack, on, c, on)
  BY <1>3, <1>4, <1>6 DEF Here, Shut
<1>8. Kept(Following, bits, stack, Len(stack), on)
  BY <1>4 DEF Kept
<1>9. \A m \in 1 .. Len(stack) : Waiting(stack, m, bits, on)
  BY <1>1, <1>5 DEF Waiting, Kept
<1>10. Sheltered(Following, stack)
  BY <1>1, <1>3 DEF Sheltered
<1> QED BY <1>1, <1>7, <1>8, <1>9, <1>10 DEF Sound

\* An entry of a call, or the PSW that a handler saves.
LEMMA ServedPush ==
  ASSUME NEW st \in Seq(Entries), NEW e \in Entries, NEW c1, NEW isr1, Served(st, c1, isr1),
         e.kind # "irq",
         (Len(st) > 0 /\ st[Len(st)].kind = "irq") => e.kind = "psw" /\ e.c = c1
  PROVE  Served(Append(st, e), c1, isr1)
<1>1. PICK n, t : n = Len(st) /\ t = Append(st, e)
  OBVIOUS
<1>2. /\ Len(t) = n + 1 /\ n \in Nat /\ t[n + 1] = e /\ \A m \in 1 .. n : t[m] = st[m]
  BY <1>1, Longer
<1>3. \A m \in 0 .. n : Free(t, m) <=> Free(st, m)
  BY <1>1, FreePush
<1>4. \A k \in 1 .. n + 1 : t[k].kind = "irq" => k \in 1 .. n /\ st[k].kind = "irq"
  <2>1. \A k \in 1 .. n + 1 : k = n + 1 \/ k \in 1 .. n
    BY <1>2
  <2> QED BY <1>2, <2>1
<1>5. ASSUME NEW m \in 1 .. n + 1, t[m].kind = "irq"
      PROVE  /\ isr1 /\ Free(t, m)
             /\ \A k \in 1 .. n + 1 : t[k].kind = "irq" => k = m
             /\ m < n + 1 => t[m + 1].kind = "psw"
             /\ OpAt(t[m].at) = "jbc_ea" => (m = n + 1 => c1) /\ (m < n + 1 => t[m + 1].c)
  <2>1. m \in 1 .. n /\ st[m].kind = "irq" /\ t[m] = st[m] /\ m \in 0 .. n /\ m # n + 1
    BY <1>2, <1>4, <1>5
  <2>2. /\ isr1 /\ Free(st, m)
        /\ \A k \in 1 .. n : st[k].kind = "irq" => k = m
        /\ m < n => st[m + 1].kind = "psw"
        /\ OpAt(st[m].at) = "jbc_ea" => (m = n => c1) /\ (m < n => st[m + 1].c)
    BY <1>1, <2>1 DEF Served
  <2>3. \A k \in 1 .. n + 1 : t[k].kind = "irq" => k = m
    BY <1>4, <2>2
  <2>4. CASE m = n
    <3>1. t[m + 1] = e /\ n > 0
      BY <1>2, <2>1, <2>4
    <3>2. e.kind = "psw" /\ e.c = c1
      BY <1>1, <2>1, <2>4, <3>1
    <3> QED BY <1>3, <2>1, <2>2, <2>3, <2>4, <3>1, <3>2
  <2>5. CASE m < n
    <3>1. m + 1 \in 1 .. n
      BY <1>2, <2>1, <2>5
    <3>2. t[m + 1] = st[m + 1]
      BY <1>2, <3>1
    <3> QED BY <1>3, <2>1, <2>2, <2>3, <2>5, <3>2
  <2>6. m = n \/ m < n
    BY <1>2, <2>1
  <2> QED BY <2>4, <2>5, <2>6
<1> QED BY <1>1, <1>2, <1>5 DEF Served

LEMMA AddressType ==
  ASSUME RunsComplete, NEW st \in Seq(Entries), NEW m \in 1 .. Len(st)
  PROVE  st[m].at[1] \in Nat /\ st[m] \in Entries
<1>1. st[m] \in Entries
  BY ElementOfSeq
<1>2. st[m].at \in Address
  BY <1>1 DEF Entries
<1>3. Boot \in Nat /\ Func \subseteq Nat
  BY ProgramParts DEF RunsComplete, Func, Boot
<1> QED BY <1>1, <1>2, <1>3 DEF Address

\* The startup code is not in a section.
LEMMA BootOutside ==
  ASSUME TypeInv, phase = "run", pc[1] = Boot
  PROVE  ~Current.in
<1>1. Current = code[Boot][pc[2]] /\ pc[2] \in 1 .. Len(code[Boot])
  BY Running
<1>2. code[Boot] = <<I("call", prog.main, FALSE), I("label", 0, FALSE), I("jmp", 0, FALSE)>>
  BY DEF TypeInv, Compiled, Booted
<1>3. pc[2] \in {1, 2, 3}
  BY <1>1, <1>2
<1> QED BY <1>1, <1>2, <1>3 DEF I

LEMMA CallSound ==
  ASSUME TypeInv, RunsSectioned, phase = "run", Sounds, Current.op = "call"
  PROVE  Sound(Entry(Current.arg), Append(stack, Pushed("call", Following, Current.in, FALSE)),
               ea, c, bits, want, inIsr)
<1>1. /\ OpAt(pc) = Current.op /\ Here(pc, stack, ea, c, want) /\ stack \in Seq(Entries)
      /\ Len(stack) \in Nat /\ RunsComplete /\ prog \in Programs
      /\ Current = code[pc[1]][pc[2]] /\ Current \in Insn
      /\ Kept(pc, bits, stack, Len(stack), want) /\ c \in BOOLEAN /\ ea \in BOOLEAN
      /\ \A m \in 1 .. Len(stack) : Waiting(stack, m, bits, want)
      /\ Sheltered(pc, stack) /\ Served(stack, c, inIsr) /\ pc[1] \in Nat
      /\ pc[1] \in Func \cup {Boot}
  BY Standing
<1>2. OpAt(pc) \notin Leaves \cup Bare
  BY <1>1 DEF Leaves, Bare
<1>3. /\ Following[1] = pc[1] /\ Within(prog, pc[1], Current, SetAt(pc), SetAt(Following))
      /\ OpAt(Following) \notin {"jbc_ea", "clr_c", "mov_bit_c", "mov_ea_c"}
  BY <1>1, <1>2, Onward
<1>4. PICK f, g, e, n, t : /\ f = pc[1] /\ g = Current.arg
                           /\ e = Pushed("call", Following, Current.in, FALSE)
                           /\ n = Len(stack) /\ t = Append(stack, e)
  OBVIOUS
<1>5. /\ SetAt(Following) = SetAt(pc) /\ (Current.in <=> SetAt(pc) # {})
      /\ (SetAt(pc) # {} \/ f \in Hushed(prog)) => g \in Hushed(prog)
  BY <1>1, <1>2, <1>3, <1>4 DEF Within, Bracket
<1>6. g \in Func \cup {Boot} /\ g \in Nat /\ (f # Boot => g > f)
  <2>1. Linked(prog, pc[1], code[pc[1]], pc[2])
    BY Running
  <2>2. g \in Func /\ (f # Boot => g > f)
    BY <1>1, <1>4, <2>1 DEF Linked
  <2> QED BY <1>1, <2>2, ProgramParts DEF Func
<1>7. e \in Entries /\ e.kind = "call" /\ e.at = Following /\ e.in = Current.in
  <2>1. Framed(Following, stack)
    BY FollowingFramed DEF Leaves
  <2>2. Following \in Address /\ Current.in \in BOOLEAN
    BY <1>1, <2>1 DEF Framed, Place, Address, Insn
  <2>3. Recorded(e, "call", Following, Current.in, FALSE)
    BY <1>4, <2>2, EntryType
  <2> QED BY <2>3 DEF Recorded
<1>8. \A m \in 1 .. Len(t) : Waiting(t, m, bits, want)
  <2>1. Kept(Following, bits, stack, Len(stack), want)
    BY <1>1, <1>3, <1>5, KeptAlong
  <2>2. OpAt(Following) \notin Shut
    BY <1>3 DEF Shut
  <2> QED BY <1>1, <1>3, <1>4, <1>5, <1>7, <2>1, <2>2, WaitingPush
<1>9. Entry(g)[1] = g
  BY DEF Entry
<1>10. Boot \notin Hushed(prog)
  BY <1>1, HushedQuiet DEF RunsSectioned
<1>11. ASSUME NEW m \in 1 .. n, stack[m].in
       PROVE  Under(stack[m].at[1], g)
  <2>1. Under(stack[m].at[1], f)
    BY <1>1, <1>4, <1>11 DEF Sheltered
  <2>2. stack[m].at[1] \in Nat
    BY <1>1, <1>4, AddressType
  <2>3. f > stack[m].at[1] /\ f \in Hushed(prog)
    BY <2>1 DEF Under
  <2>4. g > f /\ g \in Hushed(prog)
    BY <1>5, <1>6, <1>10, <2>3
  <2>5. g > stack[m].at[1]
    BY <1>1, <1>4, <1>6, <2>2, <2>3, <2>4
  <2> QED BY <2>4, <2>5 DEF Under
<1>12. ASSUME e.in
       PROVE  Under(f, g)
  <2>1. SetAt(pc) # {}
    BY <1>5, <1>7, <1>12
  <2>2. f # Boot
    BY <1>1, <1>4, <1>7, <1>12, BootOutside
  <2> QED BY <1>5, <1>6, <2>1, <2>2 DEF Under
<1>13. Sheltered(Entry(g), t)
  BY <1>1, <1>3, <1>4, <1>7, <1>9, <1>11, <1>12, ShelteredPush
<1>14. Served(t, c, inIsr)
  <2>1. n > 0 => stack[n].kind # "irq"
    BY <1>2, <1>4, Covered
  <2> QED BY <1>1, <1>4, <1>7, <2>1, ServedPush
<1>15. Live(t, Len(t), want) <=> Live(stack, n, want) /\ ~e.in
  <2>1. Live(Append(stack, e), Len(Append(stack, e)), want) <=> Live(stack, Len(stack), want) /\ ~e.in
    BY <1>1, <1>7, FreePush
  <2> QED BY <1>4, <2>1
<1>16. SetAt(Entry(g)) = {} /\ OpAt(Entry(g)) \notin Mid
  BY <1>6, EntrySets
<1>17. ea <=> Live(stack, n, want) /\ SetAt(pc) = {}
  BY <1>1, <1>4 DEF Here, Shut
<1>18. Here(Entry(g), t, ea, c, want)
  BY <1>5, <1>7, <1>15, <1>16, <1>17 DEF Here, Shut, Mid
<1>19. Kept(Entry(g), bits, t, Len(t), want)
  BY <1>16 DEF Kept
<1> QED BY <1>4, <1>8, <1>13, <1>14, <1>18, <1>19 DEF Sound

LEMMA PushSound ==
  ASSUME TypeInv, RunsSectioned, phase = "run", Sounds, Current.op = "push_psw"
  PROVE  Sound(Following, Append(stack, Pushed("psw", pc, FALSE, c)), ea, c, bits, want, inIsr)
<1>1. /\ OpAt(pc) = Current.op /\ Here(pc, stack, ea, c, want) /\ stack \in Seq(Entries)
      /\ Len(stack) \in Nat /\ Place(pc)
      /\ Kept(pc, bits, stack, Len(stack), want) /\ c \in BOOLEAN /\ ea \in BOOLEAN
      /\ \A m \in 1 .. Len(stack) : Waiting(stack, m, bits, want)
      /\ Sheltered(pc, stack) /\ Served(stack, c, inIsr)
  BY Standing
<1>2. OpAt(pc) \notin Leaves
  BY <1>1 DEF Leaves
<1>3. /\ Following[1] = pc[1] /\ Within(prog, pc[1], Current, SetAt(pc), SetAt(Following))
      /\ OpAt(Following) \notin {"jbc_ea", "clr_c", "mov_bit_c", "mov_ea_c"}
  BY <1>1, <1>2, Onward
<1>4. PICK e, n, t : e = Pushed("psw", pc, FALSE, c) /\ n = Len(stack) /\ t = Append(stack, e)
  OBVIOUS
<1>5. SetAt(Following) = {} /\ SetAt(pc) = {}
  BY <1>1, <1>2, <1>3 DEF Within
<1>6. e \in Entries /\ e.kind = "psw" /\ e.at = pc /\ ~e.in /\ e.c = c
  <2>1. pc \in Address
    BY <1>1 DEF Place, Address
  <2>2. Recorded(e, "psw", pc, FALSE, c)
    BY <1>1, <1>4, <2>1, EntryType
  <2> QED BY <2>2 DEF Recorded
<1>7. \A m \in 1 .. Len(t) : Waiting(t, m, bits, want)
  <2>1. OpAt(pc) \notin Shut
    BY <1>1 DEF Shut
  <2> QED BY <1>1, <1>4, <1>5, <1>6, <2>1, WaitingPush
<1>8. \A m \in 1 .. n : stack[m].in => Under(stack[m].at[1], Following[1])
  BY <1>1, <1>3, <1>4 DEF Sheltered
<1>9. Sheltered(Following, t)
  BY <1>1, <1>4, <1>6, <1>8, ShelteredPush
<1>10. Served(t, c, inIsr)
  BY <1>1, <1>4, <1>6, ServedPush
<1>11. Live(t, Len(t), want) <=> Live(stack, n, want) /\ ~e.in
  <2>1. Live(Append(stack, e), Len(Append(stack, e)), want) <=> Live(stack, Len(stack), want) /\ ~e.in
    BY <1>1, <1>6, FreePush
  <2> QED BY <1>4, <2>1
<1>12. ea <=> Live(stack, n, want)
  BY <1>1, <1>4, <1>5 DEF Here, Shut
<1>13. Here(Following, t, ea, c, want)
  BY <1>3, <1>5, <1>6, <1>11, <1>12 DEF Here, Shut
<1>14. Kept(Following, bits, t, Len(t), want)
  BY <1>5 DEF Kept
<1> QED BY <1>4, <1>7, <1>9, <1>10, <1>13, <1>14 DEF Sound

\* ret and reti: the code that waited goes on.
LEMMA BackSound ==
  ASSUME TypeInv, RunsSectioned, phase = "run", Sounds, NEW op \in {"ret", "reti"}, Current.op = op
  PROVE  Sound(Top.at, Popped, ea, c, bits, want, IF op = "ret" THEN inIsr ELSE FALSE)
<1>1. /\ OpAt(pc) = op /\ Here(pc, stack, ea, c, want) /\ stack \in Seq(Entries)
      /\ Len(stack) \in Nat /\ Current = code[pc[1]][pc[2]] /\ RunsComplete /\ Place(pc)
      /\ c \in BOOLEAN /\ ea \in BOOLEAN
      /\ \A m \in 1 .. Len(stack) : Waiting(stack, m, bits, want)
      /\ Sheltered(pc, stack) /\ Served(stack, c, inIsr)
  BY Standing
<1>2. Len(stack) > 0 /\ Top.kind = (IF op = "ret" THEN "call" ELSE "irq")
  BY LeavingTop
<1>3. PICK n, e, a, isr2 : /\ n = Len(stack) /\ e = stack[n] /\ a = e.at
                           /\ isr2 = IF op = "ret" THEN inIsr ELSE FALSE
  OBVIOUS
<1>4. e = Top /\ n \in 1 .. n /\ Popped = SubSeq(stack, 1, n - 1)
  BY <1>1, <1>2, <1>3 DEF Top, Popped
<1>5. PICK t : t = Popped
  OBVIOUS
<1>6. /\ \A m \in 1 .. Len(t) : Waiting(t, m, bits, want)
      /\ Sheltered(a, t) /\ Served(t, c, isr2)
      /\ Len(t) = n - 1
      /\ Free(stack, n) <=> Free(t, Len(t)) /\ ~e.in
      /\ \A w : Live(t, Len(t), w) <=> Live(stack, n - 1, w)
  <2>1. (e.kind = "call" /\ isr2 = inIsr) \/ e.kind = "irq"
    BY <1>2, <1>3, <1>4
  <2>2. a[1] = pc[1] \/ a[1] = stack[n].at[1]
    BY <1>3
  <2> QED BY <1>1, <1>2, <1>3, <1>4, <1>5, <2>1, <2>2, PopSound
<1>7. SetAt(pc) = {}
  <2>1. pc[1] \in Func \cup {Boot} /\ pc = <<pc[1], pc[2]>> /\ pc[2] \in 1 .. Len(code[pc[1]])
    BY <1>1, PlaceParts
  <2>2. Within(prog, pc[1], Current, SetAt(<<pc[1], pc[2]>>), SetAt(<<pc[1], pc[2] + 1>>))
    BY <1>1, <2>1, SetsWithin
  <2>3. Current.op \in {"ret", "reti"}
    OBVIOUS
  <2> QED BY <2>1, <2>2, <2>3 DEF Within
<1>8. ea <=> Live(stack, n, want)
  BY <1>1, <1>3, <1>7 DEF Here, Shut
<1>9. /\ OpAt(a) \notin Shut /\ (e.kind = "call" => OpAt(a) # "jbc_ea")
      /\ (e.in <=> SetAt(a) # {}) /\ Kept(a, bits, stack, n - 1, want)
  BY <1>1, <1>3, <1>4 DEF Waiting
<1>10. ea <=> Live(t, Len(t), want) /\ SetAt(a) = {}
  BY <1>6, <1>8, <1>9 DEF Live
<1>11. OpAt(a) = "jbc_ea" => c
  BY <1>1, <1>2, <1>3, <1>4, <1>9 DEF Served
<1>12. Here(a, t, ea, c, want)
  BY <1>9, <1>10, <1>11 DEF Here, Shut
<1>13. Kept(a, bits, t, Len(t), want)
  BY <1>6, <1>9 DEF Kept
<1>14. Sound(a, t, ea, c, bits, want, isr2)
  BY <1>6, <1>12, <1>13 DEF Sound
<1> QED BY <1>3, <1>4, <1>5, <1>14

LEMMA PopPswSound ==
  ASSUME TypeInv, RunsSectioned, phase = "run", Sounds, Current.op = "pop_psw"
  PROVE  Sound(Following, Popped, ea, Top.c, bits, want, inIsr)
<1>1. /\ OpAt(pc) = Current.op /\ Here(pc, stack, ea, c, want) /\ stack \in Seq(Entries)
      /\ Len(stack) \in Nat /\ RunsComplete
      /\ c \in BOOLEAN /\ ea \in BOOLEAN
      /\ \A m \in 1 .. Len(stack) : Waiting(stack, m, bits, want)
      /\ Sheltered(pc, stack) /\ Served(stack, c, inIsr)
  BY Standing
<1>2. OpAt(pc) \notin Leaves
  BY <1>1 DEF Leaves
<1>3. /\ Following[1] = pc[1] /\ Within(prog, pc[1], Current, SetAt(pc), SetAt(Following))
      /\ OpAt(Following) \notin {"jbc_ea", "clr_c", "mov_bit_c", "mov_ea_c"}
  BY <1>1, <1>2, Onward
<1>4. SetAt(Following) = {} /\ SetAt(pc) = {}
  BY <1>1, <1>2, <1>3 DEF Within
<1>5. Len(stack) > 0 /\ Top.kind = "psw"
  BY PopFramed
<1>6. PICK n, e, t, c2 : n = Len(stack) /\ e = stack[n] /\ t = Popped /\ c2 = Top.c
  OBVIOUS
<1>7. e = Top /\ n \in 1 .. n /\ t = SubSeq(stack, 1, n - 1) /\ c2 = e.c /\ e.kind = "psw"
  BY <1>1, <1>5, <1>6 DEF Top, Popped
<1>8. /\ \A m \in 1 .. Len(t) : Waiting(t, m, bits, want)
      /\ Sheltered(Following, t) /\ Served(t, c2, inIsr)
      /\ Free(stack, n) <=> Free(t, Len(t)) /\ ~e.in
  <2>1. stack[Len(stack)].kind = "psw" /\ c2 = stack[Len(stack)].c
    BY <1>6, <1>7
  <2>2. PICK u : u = SubSeq(stack, 1, Len(stack) - 1)
    OBVIOUS
  <2>3. /\ \A m \in 1 .. Len(u) : Waiting(u, m, bits, want)
        /\ Sheltered(Following, u) /\ Served(u, c2, inIsr)
        /\ Free(stack, Len(stack)) <=> Free(u, Len(u)) /\ ~stack[Len(stack)].in
    BY <1>1, <1>3, <1>5, <2>1, <2>2, PopSound
  <2> QED BY <1>6, <1>7, <2>2, <2>3
<1>9. ~e.in
  <2>1. Grounded(stack, n)
    BY <1>6, <1>7, Running DEF Stacked
  <2>2. PICK a : a = e.at
    OBVIOUS
  <2>3. Place(a) /\ OpAt(a) = "push_psw"
    BY <1>6, <1>7, <2>1, <2>2 DEF Grounded
  <2>4. a[1] \in Func \cup {Boot} /\ a = <<a[1], a[2]>> /\ a[2] \in 1 .. Len(code[a[1]])
    BY <1>1, <2>3, PlaceParts
  <2>5. Within(prog, a[1], code[a[1]][a[2]], SetAt(<<a[1], a[2]>>), SetAt(<<a[1], a[2] + 1>>))
    BY <2>4, SetsWithin
  <2>6. SetAt(a) = {}
    BY <2>3, <2>4, <2>5 DEF Within, OpAt
  <2>7. Waiting(stack, n, bits, want)
    BY <1>1, <1>6, <1>7
  <2> QED BY <1>6, <2>2, <2>6, <2>7 DEF Waiting
<1>10. ea <=> Live(stack, n, want)
  BY <1>1, <1>4, <1>6 DEF Here, Shut
<1>11. ea <=> Live(t, Len(t), want)
  BY <1>8, <1>9, <1>10 DEF Live
<1>12. Here(Following, t, ea, c2, want)
  BY <1>3, <1>4, <1>11 DEF Here, Shut
<1>13. Kept(Following, bits, t, Len(t), want)
  BY <1>4 DEF Kept
<1> QED BY <1>6, <1>8, <1>12, <1>13 DEF Sound

\* The code does not change.
LEMMA SoundStays ==
  ASSUME prog' = prog, code' = code, Sound(pc', stack', ea', c', bits', want', inIsr')
  PROVE  Sounds'
  BY DEF Sounds, Sound, Here, Kept, Waiting, Sheltered, Under, Served, Live, Free, SetAt, OpAt

\* A step that ends well is sound.
LEMMA Resounds ==
  ASSUME TypeInv, RunsSectioned, phase = "run", NEW pc1, NEW stack1, NEW ea1 \in BOOLEAN,
         NEW flags1 \in SUBSET Source, NEW inIsr1 \in BOOLEAN, NEW delay1 \in BOOLEAN,
         Finish(pc1, stack1, ea1, flags1, inIsr1, delay1), Framed(pc1, stack1),
         NEW c1, NEW bits1, NEW want1, c' = c1, bits' = bits1, want' = want1,
         Sound(pc1, stack1, ea1, c1, bits1, want1, inIsr1)
  PROVE  Sounds'
<1>1. RunsComplete
  BY Running
<1>2. ea' = ea1 /\ prog' = prog /\ code' = code /\ Ends(pc1, stack1, ea1, inIsr1)
  BY <1>1, FinishCases
<1>3. Place(pc1) /\ stack1 \in Seq(Entries)
  BY DEF Framed, Stacked
<1>4. Sound(pc', stack', ea1, c1, bits1, want1, inIsr')
  BY <1>2, <1>3, EndsSound
<1>5. Sound(pc', stack', ea', c', bits', want', inIsr')
  BY <1>2, <1>4
<1> QED BY <1>2, <1>5, SoundStays

LEMMA StepSounds ==
  ASSUME TypeInv, RunsSectioned, phase = "run", Sounds, Step
  PROVE  Sounds'
<1>1. /\ c \in BOOLEAN /\ bits \subseteq Func \X Nat /\ flags \in SUBSET Source
      /\ ea \in BOOLEAN /\ inIsr \in BOOLEAN /\ delay \in BOOLEAN /\ want \in BOOLEAN
      /\ TRUE \in BOOLEAN /\ FALSE \in BOOLEAN
  BY DEF TypeInv, CpuTypes
<1>2. \A op : Executes(op) => Current.op = op
  BY DEF Executes
<1>3. CASE CarryAndBits
  <2>1. PICK op \in {"setb_c", "clr_c", "mov_bit_c", "mov_c_bit"} : Executes(op)
    BY <1>3 DEF CarryAndBits
  <2>2. Current.op = op /\ Framed(Following, stack)
    BY <1>2, <2>1, FollowingFramed DEF Leaves
  <2>3. Finish(Following, stack, ea, flags, inIsr, delay) /\ want' = want
    BY <1>3 DEF CarryAndBits, GoOn
  <2>4. PICK c2, b2 : c2 = c' /\ b2 = bits'
    OBVIOUS
  <2>5. Sound(Following, stack, ea, c2, b2, want, inIsr)
    <3>1. CASE op = "setb_c" \/ op = "clr_c"
      <4>1. b2 = bits /\ (op = "setb_c" => c2 = TRUE) /\ (op = "clr_c" => c2 = FALSE)
        BY <1>2, <1>3, <2>2, <2>4, <3>1 DEF CarryAndBits
      <4> QED BY <2>2, <3>1, <4>1, CarrySound
    <3>2. CASE op = "mov_bit_c"
      <4>1. /\ c2 = c
            /\ b2 = IF c THEN bits \cup {<<pc[1], Current.arg>>} ELSE bits \ {<<pc[1], Current.arg>>}
        BY <1>2, <1>3, <2>2, <2>4, <3>2 DEF CarryAndBits
      <4> QED BY <2>2, <3>2, <4>1, RememberSound
    <3>3. CASE op = "mov_c_bit"
      <4>1. b2 = bits /\ c2 = (<<pc[1], Current.arg>> \in bits)
        BY <1>2, <1>3, <2>2, <2>4, <3>3 DEF CarryAndBits
      <4>2. c2 <=> <<pc[1], Current.arg>> \in bits
        BY <4>1
      <4> QED BY <2>2, <3>3, <4>1, <4>2, RecallSound
    <3> QED BY <3>1, <3>2, <3>3
  <2> QED BY <1>1, <2>2, <2>3, <2>4, <2>5, Resounds
<1>4. CASE TestAndClearEa
  <2>1. /\ Current.op = "jbc_ea" /\ Framed(Following, stack) /\ Framed(Target(Current.arg), stack)
        /\ c' = c /\ bits' = bits /\ want' = want
    BY <1>2, <1>4, FollowingFramed, TargetFramed DEF TestAndClearEa, Leaves, Goto
  <2>2. PICK to : to = IF ea THEN Target(Current.arg) ELSE Following
    OBVIOUS
  <2>3. Finish(to, stack, FALSE, flags, inIsr, delay) /\ Framed(to, stack)
    BY <1>4, <2>1, <2>2 DEF TestAndClearEa
  <2>4. Sound(to, stack, FALSE, c, bits, want, inIsr)
    BY <2>1, <2>2, ClearSound
  <2> QED BY <1>1, <2>1, <2>3, <2>4, Resounds
<1>5. CASE RestoreEa
  <2>1. /\ Current.op = "mov_ea_c" /\ Framed(Following, stack)
        /\ c' = c /\ bits' = bits /\ want' = want
    BY <1>2, <1>5, FollowingFramed DEF RestoreEa, Leaves
  <2>2. Finish(Following, stack, c, flags, inIsr, delay)
    BY <1>5 DEF RestoreEa
  <2>3. Sound(Following, stack, c, c, bits, want, inIsr)
    BY <2>1, RestoreSound
  <2> QED BY <1>1, <2>1, <2>2, <2>3, Resounds
<1>6. CASE AssignEa
  <2>1. PICK on \in BOOLEAN : /\ Executes(IF on THEN "setb_ea" ELSE "clr_ea")
                              /\ Finish(Following, stack, on, flags, inIsr, delay) /\ want' = on
    BY <1>6 DEF AssignEa
  <2>2. PICK op \in {"setb_ea", "clr_ea"} : Executes(op)
    BY <2>1
  <2>3. Current.op = op /\ Framed(Following, stack) /\ c' = c /\ bits' = bits
    BY <1>2, <1>6, <2>2, FollowingFramed DEF AssignEa, Leaves
  <2>4. Sound(Following, stack, on, c, bits, on, inIsr)
    BY <2>3, AssignSound
  <2> QED BY <1>1, <2>1, <2>3, <2>4, Resounds
<1>7. CASE AssignFlags
  <2>1. PICK flags1 \in SUBSET Source : Finish(Following, stack, ea, flags1, inIsr, delay)
    BY <1>7 DEF AssignFlags
  <2>2. PICK op \in {"mov_sbuf", "clr_flag"} : Executes(op)
    BY <1>7 DEF AssignFlags
  <2>3. Current.op = op /\ Framed(Following, stack) /\ c' = c /\ bits' = bits /\ want' = want
    BY <1>2, <1>7, <2>2, FollowingFramed DEF AssignFlags, Leaves
  <2>4. Sound(Following, stack, ea, c, bits, want, inIsr)
    BY <2>3, PlainSound
  <2> QED BY <1>1, <2>1, <2>3, <2>4, Resounds
<1>8. CASE Other
  <2>1. /\ Current.op = "other" /\ Framed(Following, stack) /\ bits' = bits /\ want' = want
        /\ Finish(Following, stack, ea, flags, inIsr, delay)
    BY <1>2, <1>8, FollowingFramed DEF Other, GoOn, Leaves
  <2>2. PICK c2 : c2 = c'
    OBVIOUS
  <2>3. Sound(Following, stack, ea, c2, bits, want, inIsr)
    BY <2>1, PlainSound
  <2> QED BY <1>1, <2>1, <2>2, <2>3, Resounds
<1>9. CASE Jump
  <2>1. /\ Current.op = "jmp" /\ Framed(Target(Current.arg), stack)
        /\ c' = c /\ bits' = bits /\ want' = want
        /\ Finish(Target(Current.arg), stack, ea, flags, inIsr, delay)
    BY <1>2, <1>9, TargetFramed DEF Jump, Goto
  <2>2. Sound(Target(Current.arg), stack, ea, c, bits, want, inIsr)
    BY <2>1, TargetSound
  <2> QED BY <1>1, <2>1, <2>2, Resounds
<1>10. CASE Branch
  <2>1. /\ Current.op = "branch" /\ Framed(Following, stack) /\ Framed(Target(Current.arg), stack)
        /\ bits' = bits /\ want' = want
    BY <1>2, <1>10, FollowingFramed, TargetFramed DEF Branch, Leaves, Goto
  <2>2. PICK to \in {Following, Target(Current.arg)} : Finish(to, stack, ea, flags, inIsr, delay)
    BY <1>10 DEF Branch
  <2>3. PICK c2 : c2 = c'
    OBVIOUS
  <2>4. Sound(to, stack, ea, c2, bits, want, inIsr) /\ Framed(to, stack)
    BY <2>1, <2>2, PlainSound, TargetSound
  <2> QED BY <1>1, <2>1, <2>2, <2>3, <2>4, Resounds
<1>11. CASE Call
  <2>1. Current.op = "call" /\ c' = c /\ bits' = bits /\ want' = want
    BY <1>2, <1>11 DEF Call
  <2>2. PICK st : st = Append(stack, Pushed("call", Following, Current.in, FALSE))
    OBVIOUS
  <2>3. Framed(Entry(Current.arg), st) /\ Sound(Entry(Current.arg), st, ea, c, bits, want, inIsr)
    BY <2>1, <2>2, CallFramed, CallSound
  <2>4. Finish(Entry(Current.arg), st, ea, flags, inIsr, delay)
    BY <1>11, <2>2 DEF Call
  <2> QED BY <1>1, <2>1, <2>3, <2>4, Resounds
<1>12. CASE Return
  <2>1. Current.op = "ret" /\ c' = c /\ bits' = bits /\ want' = want
    BY <1>2, <1>12 DEF Return
  <2>2. Framed(Top.at, Popped) /\ Sound(Top.at, Popped, ea, c, bits, want, inIsr)
    <3>1. PICK op \in {"ret", "reti"} : op = "ret"
      OBVIOUS
    <3>2. Framed(Top.at, Popped)
      BY <2>1, <3>1, LeavingTop
    <3>3. Sound(Top.at, Popped, ea, c, bits, want, IF op = "ret" THEN inIsr ELSE FALSE)
      BY <2>1, <3>1, BackSound
    <3> QED BY <3>1, <3>2, <3>3
  <2>3. Finish(Top.at, Popped, ea, flags, inIsr, delay)
    BY <1>12 DEF Return
  <2> QED BY <1>1, <2>1, <2>2, <2>3, Resounds
<1>13. CASE PushPsw
  <2>1. Current.op = "push_psw" /\ c' = c /\ bits' = bits /\ want' = want
    BY <1>2, <1>13 DEF PushPsw
  <2>2. PICK st : st = Append(stack, Pushed("psw", pc, FALSE, c))
    OBVIOUS
  <2>3. Framed(Following, st) /\ Sound(Following, st, ea, c, bits, want, inIsr)
    BY <2>1, <2>2, PushFramed, PushSound
  <2>4. Finish(Following, st, ea, flags, inIsr, delay)
    BY <1>13, <2>2 DEF PushPsw
  <2> QED BY <1>1, <2>1, <2>3, <2>4, Resounds
<1>14. CASE PopPsw
  <2>1. Current.op = "pop_psw" /\ c' = Top.c /\ bits' = bits /\ want' = want
    BY <1>2, <1>14 DEF PopPsw
  <2>2. Framed(Following, Popped) /\ Sound(Following, Popped, ea, Top.c, bits, want, inIsr)
    BY <2>1, PopFramed, PopPswSound
  <2>3. Finish(Following, Popped, ea, flags, inIsr, delay)
    BY <1>14 DEF PopPsw
  <2> QED BY <1>1, <2>1, <2>2, <2>3, Resounds
<1>15. CASE ReturnFromInterrupt
  <2>1. Current.op = "reti" /\ c' = c /\ bits' = bits /\ want' = want
    BY <1>2, <1>15 DEF ReturnFromInterrupt
  <2>2. Framed(Top.at, Popped) /\ Sound(Top.at, Popped, ea, c, bits, want, FALSE)
    <3>1. PICK op \in {"ret", "reti"} : op = "reti"
      OBVIOUS
    <3>2. Framed(Top.at, Popped)
      BY <2>1, <3>1, LeavingTop
    <3>3. Sound(Top.at, Popped, ea, c, bits, want, IF op = "ret" THEN inIsr ELSE FALSE)
      BY <2>1, <3>1, BackSound
    <3> QED BY <3>1, <3>2, <3>3
  <2>3. Finish(Top.at, Popped, ea, flags, FALSE, TRUE)
    BY <1>15 DEF ReturnFromInterrupt
  <2> QED BY <1>1, <2>1, <2>2, <2>3, Resounds
<1> QED BY <1>3, <1>4, <1>5, <1>6, <1>7, <1>8, <1>9, <1>10, <1>11, <1>12, <1>13, <1>14, <1>15 DEF Step

-----------------------------------------------------------------------------
(***************************************************************************)
(* The invariant, and what it shows of disciplined programs.               *)
(***************************************************************************)
SoundInv ==
  /\ TypeInv /\ Disciplined(prog) /\ Sectioned
  /\ phase = "run" => Idle \/ Sounds

LEMMA IdleSounds ==
  ASSUME TypeInv, RunsSectioned, Idle
  PROVE  Sounds
<1>1. /\ pc = <<Boot, 1>> /\ stack = << >> /\ ~ea /\ ~want
      /\ code[Boot] = <<I("call", prog.main, FALSE), I("label", 0, FALSE), I("jmp", 0, FALSE)>>
  BY DEF Idle, TypeInv, Compiled, Booted
<1>2. OpAt(pc) = "call"
  BY <1>1 DEF OpAt, I
<1>3. SetAt(pc) = {}
  BY <1>1, SetsTrack
<1>4. Len(stack) = 0 /\ 1 .. Len(stack) = {}
  BY <1>1, EmptySeq
<1>5. Here(pc, stack, ea, c, want)
  BY <1>1, <1>2 DEF Here, Live, Shut
<1>6. Kept(pc, bits, stack, Len(stack), want)
  BY <1>3 DEF Kept
<1>7. Sheltered(pc, stack) /\ Served(stack, c, inIsr)
  BY <1>4 DEF Sheltered, Served
<1> QED BY <1>4, <1>5, <1>6, <1>7 DEF Sounds, Sound

LEMMA SectionedStays ==
  ASSUME Sectioned, prog' = prog, phase' = phase, fn' = fn, pos' = pos, crit' = crit,
         loops' = loops, code' = code
  PROVE  Sectioned'
  BY DEF Sectioned

LEMMA StepBuildsNothing ==
  ASSUME Step
  PROVE  /\ prog' = prog /\ phase' = phase /\ phase = "run" /\ fn' = fn /\ pos' = pos
         /\ crit' = crit /\ loops' = loops /\ code' = code
<1>1. \A pc1, stack1, ea1, flags1, inIsr1, delay1 :
        Finish(pc1, stack1, ea1, flags1, inIsr1, delay1) =>
          /\ prog' = prog /\ phase' = phase /\ fn' = fn /\ pos' = pos /\ crit' = crit
          /\ loops' = loops /\ code' = code
  BY DEF Finish, buildVars
<1>2. \E op : Executes(op)
  BY DEF Step, CarryAndBits, TestAndClearEa, RestoreEa, AssignEa, AssignFlags, Other, Jump, Branch,
         Call, Return, PushPsw, PopPsw, ReturnFromInterrupt
<1>3. phase = "run"
  BY <1>2 DEF Executes
<1>4. \E pc1, stack1, ea1, flags1, inIsr1, delay1 :
        Finish(pc1, stack1, ea1, flags1, inIsr1, delay1)
  BY DEF Step, CarryAndBits, TestAndClearEa, RestoreEa, AssignEa, AssignFlags, Other, Jump, Branch,
         Call, Return, PushPsw, PopPsw, ReturnFromInterrupt, GoOn
<1> QED BY <1>1, <1>3, <1>4

LEMMA SoundInvInit == ASSUME Init, Disciplined(prog) PROVE SoundInv
<1>1. TypeInv /\ Sectioned /\ phase = "build"
  BY TypeInvInit, SectionedInit DEF Init
<1> QED BY <1>1 DEF SoundInv

LEMMA SoundInvStep == ASSUME SoundInv, [Next]_vars PROVE SoundInv'
<1>1. TypeInv'
  BY TypeInvStep DEF SoundInv
<1>2. CASE Build
  <2>1. phase = "build" /\ cpuVars' = cpuVars /\ prog' = prog
    BY <1>2 DEF Build, BuildEntry, BuildOpen, BuildClose, BuildWhile, BuildEnd, BuildJump,
                BuildReturn, BuildStatement, BuildExit, Takes
  <2>2. Idle'
    <3>1. Idle
      BY <2>1 DEF SoundInv, TypeInv, Compiled
    <3> QED BY <2>1, <3>1, IdleStays
  <2>3. Sectioned'
    BY <1>2, BuildSections DEF SoundInv, TypeInv
  <2>4. Disciplined(prog')
    BY <2>1 DEF SoundInv
  <2> QED BY <1>1, <2>2, <2>3, <2>4 DEF SoundInv
<1>3. CASE Step
  <2>1. /\ prog' = prog /\ phase' = phase /\ phase = "run" /\ fn' = fn /\ pos' = pos
        /\ crit' = crit /\ loops' = loops /\ code' = code
    BY <1>3, StepBuildsNothing
  <2>2. RunsSectioned
    BY <2>1, Sounding DEF SoundInv
  <2>3. Sounds
    BY <2>1, <2>2, IdleSounds DEF SoundInv
  <2>4. Sounds'
    BY <1>3, <2>1, <2>2, <2>3, StepSounds DEF SoundInv
  <2>5. Sectioned'
    BY <2>1, SectionedStays DEF SoundInv
  <2>6. Disciplined(prog')
    BY <2>1 DEF SoundInv
  <2> QED BY <1>1, <2>4, <2>5, <2>6 DEF SoundInv
<1>4. CASE UNCHANGED vars
  <2>1. /\ prog' = prog /\ phase' = phase /\ fn' = fn /\ pos' = pos /\ crit' = crit
        /\ loops' = loops /\ code' = code /\ cpuVars' = cpuVars
    BY <1>4 DEF vars, buildVars
  <2>2. /\ pc' = pc /\ c' = c /\ bits' = bits /\ stack' = stack /\ ea' = ea
        /\ inIsr' = inIsr /\ want' = want
    BY <2>1 DEF cpuVars
  <2>3. Sectioned'
    BY <2>1, SectionedStays DEF SoundInv
  <2>4. Idle => Idle'
    BY <2>1, IdleStays
  <2>5. Sounds => Sounds'
    <3>1. Sounds => Sound(pc', stack', ea', c', bits', want', inIsr')
      BY <2>2 DEF Sounds
    <3> QED BY <2>1, <3>1, SoundStays
  <2>6. Disciplined(prog')
    BY <2>1 DEF SoundInv
  <2> QED BY <1>1, <2>1, <2>3, <2>4, <2>5, <2>6 DEF SoundInv
<1> QED BY <1>2, <1>3, <1>4 DEF Next

\* While it runs, the state is sound.
LEMMA SoundInvRuns ==
  ASSUME SoundInv, phase = "run"
  PROVE  RunsSectioned /\ Sounds
<1>1. RunsSectioned
  BY Sounding DEF SoundInv
<1> QED BY <1>1, IdleSounds DEF SoundInv

LEMMA SoundInvExcludes == ASSUME SoundInv PROVE Excluded
<1>1. CASE phase = "run"
  <2>1. Served(stack, c, inIsr)
    BY <1>1, SoundInvRuns DEF Sounds, Sound
  <2> QED BY <2>1 DEF Served, Free, Excluded
<1>2. CASE phase = "build"
  <2>1. stack = << >>
    BY <1>2 DEF SoundInv, TypeInv, Compiled, Idle
  <2>2. 1 .. Len(stack) = {}
    BY <2>1, EmptySeq
  <2> QED BY <2>2 DEF Excluded
<1>3. phase \in {"build", "run"}
  BY DEF SoundInv, TypeInv, Compiled
<1> QED BY <1>1, <1>2, <1>3

LEMMA SoundInvRestores == ASSUME SoundInv PROVE Restored
<1>1. SUFFICES ASSUME phase = "run", Current.op \notin Bracket
               PROVE  ea <=> want /\ ~InSection
  BY DEF Restored
<1>2. RunsSectioned /\ Sounds /\ TypeInv
  BY <1>1, SoundInvRuns DEF SoundInv
<1>3. /\ Here(pc, stack, ea, c, want) /\ OpAt(pc) = Current.op /\ Place(pc) /\ RunsComplete
      /\ Current = code[pc[1]][pc[2]]
  BY <1>1, <1>2, Standing
<1>4. Current.in <=> SetAt(pc) # {}
  <2>1. pc[1] \in Func \cup {Boot} /\ pc = <<pc[1], pc[2]>> /\ pc[2] \in 1 .. Len(code[pc[1]])
    BY <1>3, PlaceParts
  <2>2. Within(prog, pc[1], Current, SetAt(<<pc[1], pc[2]>>), SetAt(<<pc[1], pc[2] + 1>>))
    BY <1>2, <1>3, <2>1, SetsWithin
  <2>3. Current.op # "label"
    BY <1>3 DEF Place
  <2> QED BY <1>1, <2>1, <2>2, <2>3 DEF Within
<1>5. ea <=> Live(stack, Len(stack), want) /\ SetAt(pc) = {}
  BY <1>1, <1>3 DEF Here, Shut, Bracket
<1> QED BY <1>4, <1>5 DEF Live, Free, InSection

\* In a program whose jumps stay in their sections and whose sections call only
\* functions that leave EA alone, no interrupt is accepted while code that runs or
\* waits is in a section, from setb c to mov ea,c.
THEOREM ExcludedCorrect == Spec /\ Disciplined(prog) => []Excluded
<1>1. Init /\ Disciplined(prog) => SoundInv
  BY SoundInvInit
<1>2. SoundInv /\ [Next]_vars => SoundInv'
  BY SoundInvStep
<1>3. SoundInv => Excluded
  BY SoundInvExcludes
<1> QED BY <1>1, <1>2, <1>3, PTL DEF Spec

\* In such a program EA is off in sections and elsewhere what the program last
\* made it: every way out of a section restores it, however sections are nested.
THEOREM RestoredCorrect == Spec /\ Disciplined(prog) => []Restored
<1>1. Init /\ Disciplined(prog) => SoundInv
  BY SoundInvInit
<1>2. SoundInv /\ [Next]_vars => SoundInv'
  BY SoundInvStep
<1>3. SoundInv => Restored
  BY SoundInvRestores
<1> QED BY <1>1, <1>2, <1>3, PTL DEF Spec
=============================================================================
