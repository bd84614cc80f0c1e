--------------------------- MODULE ClobbersProofs ---------------------------
(***************************************************************************)
(* Proofs about Clobbers, for any number of functions, registers and       *)
(* banks, and any call graph.                                              *)
(***************************************************************************)
EXTENDS Clobbers, FiniteSetTheorems, SequenceTheorems, TLAPS

-----------------------------------------------------------------------------
(***************************************************************************)
(* Types.                                                                  *)
(***************************************************************************)
VisitTypes ==
  /\ seen \in SUBSET Func
  /\ path \in Seq(Func)
  /\ post \in Seq(Func)
  /\ Len(path) + Len(post) = Cardinality(seen)

GenTypes ==
  /\ next \in Nat \ {0}
  /\ known \in SUBSET Func
  /\ clobbers \in [Func -> SUBSET Reg]
  /\ total \in [Func -> SUBSET Res]
  /\ keeps \in [Func -> [Func -> SUBSET Reg]]

RunTypes ==
  /\ bank \in Bank
  /\ mem \in [Cell -> 0 .. MaxDepth]
  /\ stack \in Seq(Activation)
  /\ Len(stack) <= MaxDepth

\* The program runs as soon as main has been entered.
Stages ==
  /\ phase \in {"check", "failed", "visit", "generate", "run"}
  /\ phase = "run" <=> Len(stack) > 0

TypeInv ==
  /\ prog \in ProgramType
  /\ Stages /\ VisitTypes /\ GenTypes /\ RunTypes

LEMMA FuncFinite ==
  /\ IsFiniteSet(Func)
  /\ Cardinality(Func) = N
  /\ \A S \in SUBSET Func : /\ IsFiniteSet(S) /\ Cardinality(S) \in Nat
                            /\ Cardinality(S) <= N
                            /\ \A f \in Func \ S :
                                 Cardinality(S \cup {f}) = Cardinality(S) + 1
<1>1. N - 1 \in Int /\ 0 \in Int /\ ~(0 > N - 1) /\ N - 1 - 0 + 1 = N
  BY SizesAssumption
<1>2. IsFiniteSet(Func) /\ Cardinality(Func) = N
  BY <1>1, FS_Interval DEF Func
<1>3. QED
  BY <1>2, FS_Subset, FS_CardinalityType, FS_AddElement

\* A register and a bank name one cell, B and DPTR are cells of every bank.
LEMMA CellFacts ==
  /\ \A b \in Bank, r \in Res : CellOf(b, r) \in Cell
  /\ \A b, c \in Bank, r, s \in Res :
       CellOf(b, r) = CellOf(c, s) => r = s /\ (r \in Reg => b = c)
  /\ \A b, c \in Bank, r \in Special : CellOf(b, r) = CellOf(c, r)
  /\ 0 \in Bank
<1>1. 0 \in Bank
  BY SizesAssumption DEF Bank
<1>2. \A b \in Bank, r \in Res : CellOf(b, r) \in Cell
  BY DEF Cell
<1>3. \A r \in Reg : r \notin Special
  BY SizesAssumption
<1>4. QED
  BY <1>1, <1>2, <1>3 DEF CellOf, Res

LEMMA PrefixTyped ==
  ASSUME NEW S, NEW s \in Seq(S), s # << >>
  PROVE  /\ Len(s) \in Nat \ {0}
         /\ s[Len(s)] \in S
         /\ SubSeq(s, 1, Len(s) - 1) \in Seq(S)
         /\ Len(SubSeq(s, 1, Len(s) - 1)) = Len(s) - 1
         /\ \A i \in 1 .. Len(s) - 1 : SubSeq(s, 1, Len(s) - 1)[i] = s[i]
<1>1. Len(s) \in Nat \ {0}
  BY EmptySeq
<1>2. \A i \in 1 .. Len(s) : s[i] \in S
  BY ElementOfSeq
<1>3. /\ SubSeq(s, 1, Len(s) - 1) \in Seq(S)
      /\ Len(SubSeq(s, 1, Len(s) - 1)) = Len(s) - 1
      /\ \A i \in 1 .. Len(s) - 1 : SubSeq(s, 1, Len(s) - 1)[i] = s[i]
  <2>1. 1 \in Int /\ Len(s) - 1 \in Int /\ \A i \in 1 .. Len(s) - 1 : s[i] \in S
    BY <1>1, <1>2
  <2> DEFINE n == Len(s) - 1
  <2>2. /\ SubSeq(s, 1, n) \in Seq(S)
        /\ Len(SubSeq(s, 1, n)) = IF 1 <= n THEN n - 1 + 1 ELSE 0
        /\ \A i \in 1 .. n - 1 + 1 : SubSeq(s, 1, n)[i] = s[1 + i - 1]
    <3> HIDE DEF n
    <3>1. QED
      BY <2>1, SubSeqProperties DEF n
  <2>3. n - 1 + 1 = n /\ n \in Nat /\ \A i \in 1 .. n : 1 + i - 1 = i
    BY <1>1
  <2>4. QED
    BY <2>2, <2>3
<1>4. QED
  BY <1>1, <1>2, <1>3

\* The fields of a program that the proofs speak of.
LEMMA ProgTypes ==
  ASSUME prog \in ProgramType
  PROVE  /\ prog.main \in Func
         /\ prog.handlers \in SUBSET Func
         /\ \A f \in Func : prog.prio[f] \in {0, 1}
         /\ \A f \in Func : /\ prog.calls[f] \in SUBSET Func
                            /\ prog.using[f] \in Bank
                            /\ prog.writes[f] \in SUBSET Res
                            /\ prog.params[f] \in SUBSET Reg
                            /\ prog.ret[f] \in SUBSET Reg
                            /\ OwnBankOf(f) \in Bank
                            /\ Callees(f) \in SUBSET Func
         /\ prog.addrTaken \in SUBSET Func
BY CellFacts DEF ProgramType, OwnBankOf, Callees

LEMMA InitTypes == Init => TypeInv
<1> SUFFICES ASSUME Init PROVE TypeInv
  OBVIOUS
<1>1. prog \in ProgramType
  BY ProgramsAssumption DEF Init
<1>2. path = << >> /\ post = << >> /\ stack = << >> /\ Len(<< >>) = 0
  BY EmptySeq DEF Init
<1>3. VisitTypes
  BY <1>2, FS_EmptySet, EmptySeq DEF Init, VisitTypes
<1>4. GenTypes
  BY DEF Init, GenTypes
<1>5. RunTypes
  BY <1>2, CellFacts, SizesAssumption, EmptySeq DEF Init, RunTypes
<1>6. Stages
  BY <1>2 DEF Init, Stages
<1>7. QED
  BY <1>1, <1>3, <1>4, <1>5, <1>6 DEF TypeInv

\* A group of variables that does not change keeps its types.
LEMMA SameTypes ==
  /\ VisitTypes /\ UNCHANGED visitVars => VisitTypes'
  /\ GenTypes /\ UNCHANGED genVars => GenTypes'
  /\ RunTypes /\ UNCHANGED runVars => RunTypes'
BY DEF VisitTypes, visitVars, GenTypes, genVars, RunTypes, runVars

LEMMA VisitStepTypes ==
  ASSUME TypeInv, VisitRoot \/ VisitCallee \/ VisitDone
  PROVE  TypeInv'
<1>1. VisitTypes'
  <2>1. CASE VisitRoot
    <3>1. PICK f \in Func \ seen : seen' = seen \cup {f} /\ path' = <<f>>
      BY <2>1 DEF VisitRoot
    <3>2. path = << >> /\ Len(path) = 0 /\ post' = post
      BY <2>1, EmptySeq DEF VisitRoot
    <3>3. path' \in Seq(Func) /\ Len(path') = 1
      BY <3>1
    <3>4. Cardinality(seen') = Cardinality(seen) + 1
      BY <3>1, FuncFinite DEF TypeInv, VisitTypes
    <3>5. Len(post) \in Nat
      BY DEF TypeInv, VisitTypes
    <3>6. QED
      BY <3>1, <3>2, <3>3, <3>4, <3>5, FuncFinite DEF TypeInv, VisitTypes
  <2>2. CASE VisitCallee
    <3>1. path \in Seq(Func) /\ path # << >>
      BY <2>2 DEF VisitCallee, TypeInv, VisitTypes
    <3>2. path[Len(path)] \in Func
      BY <3>1, PrefixTyped
    <3>3. Callees(path[Len(path)]) \in SUBSET Func
      BY <3>2, ProgTypes DEF TypeInv
    <3>4. PICK g \in Callees(path[Len(path)]) \ seen :
            seen' = seen \cup {g} /\ path' = Append(path, g)
      BY <2>2 DEF VisitCallee
    <3>5. path' \in Seq(Func) /\ Len(path') = Len(path) + 1
      BY <3>1, <3>3, <3>4, AppendProperties
    <3>6. Cardinality(seen') = Cardinality(seen) + 1
      BY <3>3, <3>4, FuncFinite DEF TypeInv, VisitTypes
    <3>7. Len(post) \in Nat /\ Len(path) \in Nat /\ post' = post
      BY <2>2 DEF TypeInv, VisitTypes, VisitCallee
    <3>8. QED
      BY <3>3, <3>4, <3>5, <3>6, <3>7, FuncFinite DEF TypeInv, VisitTypes
  <2>3. CASE VisitDone
    <3>1. path \in Seq(Func) /\ path # << >> /\ post \in Seq(Func)
      BY <2>3 DEF VisitDone, TypeInv, VisitTypes
    <3>2. /\ path' \in Seq(Func) /\ Len(path') = Len(path) - 1
          /\ Len(path) \in Nat /\ path[Len(path)] \in Func
      BY <2>3, <3>1, PrefixTyped DEF VisitDone
    <3>3. post' \in Seq(Func) /\ Len(post') = Len(post) + 1 /\ Len(post) \in Nat
      BY <2>3, <3>1, <3>2, AppendProperties DEF VisitDone
    <3>4. seen' = seen
      BY <2>3 DEF VisitDone
    <3>5. QED
      BY <3>2, <3>3, <3>4, FuncFinite DEF TypeInv, VisitTypes
  <2>4. QED
    BY <2>1, <2>2, <2>3
<1>2. UNCHANGED <<prog, phase, genVars, runVars>>
  BY DEF VisitRoot, VisitCallee, VisitDone
<1>3. QED
  BY <1>1, <1>2, SameTypes DEF TypeInv, Stages, runVars

LEMMA CompileTypes ==
  ASSUME TypeInv, NEW f \in Func
  PROVE  /\ Total(f) \in SUBSET Res
         /\ \A g \in Func : /\ CalleeClobbers(g) \in SUBSET Reg
                            /\ CallClobbers(g) \in SUBSET Reg
                            /\ Survives(g) \in SUBSET Reg
<1>1. \A g \in Func : CalleeClobbers(g) \in SUBSET Reg
  BY DEF TypeInv, GenTypes, CalleeClobbers
<1>2. \A g \in Func : CallClobbers(g) \in SUBSET Reg
  BY <1>1, ProgTypes DEF TypeInv, CallClobbers
<1>3. \A g \in Func : Survives(g) \in SUBSET Reg
  BY <1>2, ProgTypes DEF TypeInv, Survives
<1>4. Total(f) \in SUBSET Res
  <2>1. /\ prog.writes[f] \in SUBSET Res /\ prog.ret[f] \in SUBSET Res
        /\ prog.calls[f] \in SUBSET Func /\ Callees(f) \in SUBSET Func
    BY ProgTypes DEF TypeInv, Res
  <2>2. UNION {total[g] : g \in Callees(f)} \in SUBSET Res
    BY <2>1 DEF TypeInv, GenTypes
  <2>3. UNION {CallClobbers(g) : g \in prog.calls[f]} \in SUBSET Res
    BY <1>2, <2>1 DEF Res
  <2> DEFINE below == UNION {total[g] : g \in Callees(f)}
             called == UNION {CallClobbers(g) : g \in prog.calls[f]}
             bytes == IF \/ f \in prog.naked
                         \/ \E g \in prog.calls[f] : CallClobbers(g) = Reg
                      THEN Special ELSE {}
  <2>4. Total(f) = IF Unknown(f) THEN Res
                   ELSE prog.writes[f] \cup prog.ret[f] \cup below
                          \cup called \cup bytes
    BY DEF Total
  <2>5. bytes \in SUBSET Res
    BY DEF Res
  <2>6. below \in SUBSET Res /\ called \in SUBSET Res
    BY <2>2, <2>3
  <2> HIDE DEF below, called, bytes
  <2>7. Total(f) = Res \/ Total(f) = prog.writes[f] \cup prog.ret[f] \cup below
                                      \cup called \cup bytes
    BY <2>4
  <2>8. prog.ret[f] \in SUBSET Res
    BY <2>1 DEF Res
  <2> DEFINE T == Total(f)
  <2> HIDE DEF T
  <2>9. T \in SUBSET Res
    BY <2>1, <2>5, <2>6, <2>7, <2>8 DEF T
  <2>10. QED
    BY <2>9 DEF T
<1>5. QED
  BY <1>1, <1>2, <1>3, <1>4

LEMMA GenStepTypes ==
  ASSUME TypeInv, FixSummaries \/ Generate
  PROVE  TypeInv'
<1>1. GenTypes'
  <2>1. CASE FixSummaries
    <3>1. known' \in SUBSET Func /\ clobbers' \in [Func -> SUBSET Reg]
      BY <2>1 DEF FixSummaries, TypeInv, ProgramType
    <3>2. QED
      BY <2>1, <3>1 DEF FixSummaries, TypeInv, GenTypes
  <2>2. CASE Generate
    <3> DEFINE f == post[next]
    <3>1. f \in Func
      BY <2>2, ElementOfSeq DEF Generate, TypeInv, VisitTypes, GenTypes
    <3> HIDE DEF f
    <3>2. /\ total' = [total EXCEPT ![f] = Total(f)]
          /\ keeps' = [keeps EXCEPT ![f] =
                         [g \in Func |-> IF g \in prog.calls[f]
                                         THEN Survives(g) ELSE {}]]
          /\ \/ known' = known /\ clobbers' = clobbers
             \/ /\ known' = known \cup {f}
                /\ clobbers' = [clobbers EXCEPT ![f] =
                                  IF Recursive(f) THEN Reg
                                  ELSE Total(f) \cap Reg]
          /\ next' = next + 1
      BY <2>2 DEF Generate, f
    <3>3. total' \in [Func -> SUBSET Res]
      BY <3>1, <3>2, CompileTypes DEF TypeInv, GenTypes
    <3>4. keeps' \in [Func -> [Func -> SUBSET Reg]]
      <4>1. [g \in Func |-> IF g \in prog.calls[f] THEN Survives(g) ELSE {}]
              \in [Func -> SUBSET Reg]
        BY <3>1, CompileTypes
      <4>2. QED
        BY <3>1, <3>2, <4>1 DEF TypeInv, GenTypes
    <3>5. known' \in SUBSET Func /\ clobbers' \in [Func -> SUBSET Reg]
      <4>1. (IF Recursive(f) THEN Reg ELSE Total(f) \cap Reg) \in SUBSET Reg
        OBVIOUS
      <4>2. QED
        BY <3>1, <3>2, <4>1 DEF TypeInv, GenTypes
    <3>6. QED
      BY <3>2, <3>3, <3>4, <3>5 DEF TypeInv, GenTypes
  <2>3. QED
    BY <2>1, <2>2
<1>2. UNCHANGED <<prog, visitVars, runVars>>
  BY DEF FixSummaries, Generate
<1>3. Stages'
  BY <1>2 DEF FixSummaries, Generate, TypeInv, Stages, runVars
<1>4. QED
  BY <1>1, <1>2, <1>3, SameTypes DEF TypeInv

\* What entering a function does to the types.
LEMMA EnterTypes ==
  ASSUME TypeInv, NEW f \in Func, NEW irq \in BOOLEAN, NEW kept \in SUBSET Reg,
         NEW m \in [Cell -> 0 .. MaxDepth], Enter(f, irq, kept, m), bank' \in Bank
  PROVE  /\ RunTypes'
         /\ Len(stack') = Depth + 1
         /\ stack'[Depth + 1] = [fn |-> f, irq |-> irq, kept |-> kept,
                                 at |-> [bank |-> bank, mem |-> m]]
         /\ \A i \in 1 .. Depth : stack'[i] = stack[i]
<1> DEFINE a == [fn |-> f, irq |-> irq, kept |-> kept,
                 at |-> [bank |-> bank, mem |-> m]]
<1>1. stack \in Seq(Activation) /\ Depth \in Nat /\ bank \in Bank
  BY DEF TypeInv, RunTypes, Depth
<1>2. a \in Activation
  BY <1>1 DEF Activation, Machine
<1>3. stack' = Append(stack, a) /\ mem' = m /\ Depth < MaxDepth
  BY DEF Enter
<1> HIDE DEF a
<1>4. /\ stack' \in Seq(Activation) /\ Len(stack') = Depth + 1
      /\ stack'[Depth + 1] = a /\ \A i \in 1 .. Depth : stack'[i] = stack[i]
  BY <1>1, <1>2, <1>3, AppendProperties DEF Depth
<1>5. Len(stack') <= MaxDepth
  BY <1>1, <1>3, <1>4, SizesAssumption
<1>6. QED
  BY <1>3, <1>4, <1>5 DEF RunTypes, a

\* The running function and its frame.
LEMMA TopTypes ==
  ASSUME TypeInv, Depth > 0
  PROVE  /\ Depth \in 1 .. MaxDepth
         /\ Running \in Func
         /\ \A i \in 1 .. Depth : /\ stack[i] \in Activation
                                  /\ stack[i].fn \in Func
                                  /\ stack[i].kept \in SUBSET Reg
                                  /\ stack[i].at.bank \in Bank
                                  /\ stack[i].at.mem \in [Cell -> 0 .. MaxDepth]
<1>1. stack \in Seq(Activation) /\ Depth \in Nat /\ Depth <= MaxDepth
  BY DEF TypeInv, RunTypes, Depth
<1>2. \A i \in 1 .. Depth : stack[i] \in Activation
  BY <1>1, ElementOfSeq DEF Depth
<1>3. QED
  BY <1>1, <1>2, SizesAssumption DEF Activation, Machine, Running

\* Leaving a function takes its frame off the stack.
LEMMA LeaveTypes ==
  ASSUME TypeInv, Depth > 1, stack' = SubSeq(stack, 1, Depth - 1)
  PROVE  /\ stack' \in Seq(Activation)
         /\ Len(stack') = Depth - 1
         /\ Len(stack') \in 1 .. MaxDepth
         /\ \A i \in 1 .. Depth - 1 : stack'[i] = stack[i]
<1>1. stack \in Seq(Activation) /\ Depth \in Nat /\ Depth <= MaxDepth
  BY DEF TypeInv, RunTypes, Depth
<1>2. stack # << >>
  BY EmptySeq DEF Depth
<1>3. QED
  BY <1>1, <1>2, PrefixTyped, SizesAssumption DEF Depth

LEMMA StartMainTypes == TypeInv /\ StartMain => TypeInv'
<1> SUFFICES ASSUME TypeInv, StartMain PROVE TypeInv'
  OBVIOUS
<1>1. /\ prog.main \in Func /\ mem \in [Cell -> 0 .. MaxDepth]
      /\ {} \in SUBSET Reg /\ FALSE \in BOOLEAN /\ bank' \in Bank
  BY ProgTypes DEF TypeInv, RunTypes, StartMain
<1>2. Enter(prog.main, FALSE, {}, mem) /\ phase' = "run"
  BY DEF StartMain
<1>3. RunTypes' /\ Len(stack') = Depth + 1
  BY <1>1, <1>2, EnterTypes
<1>4. Depth \in Nat
  BY DEF TypeInv, RunTypes, Depth
<1>5. QED
  BY <1>2, <1>3, <1>4, SameTypes DEF StartMain, TypeInv, Stages

LEMMA WriteTypes ==
  ASSUME TypeInv, NEW r \in Res, Write(r)
  PROVE  TypeInv'
<1>1. PICK b \in {bank, OwnBankOf(Running)} :
        mem' = [mem EXCEPT ![CellOf(b, r)] = Depth]
  BY DEF Write
<1>2. b \in Bank /\ Depth \in 0 .. MaxDepth
  BY TopTypes, ProgTypes DEF Write, TypeInv, RunTypes
<1>3. RunTypes'
  BY <1>1, <1>2 DEF Write, TypeInv, RunTypes
<1>4. QED
  BY <1>3, SameTypes DEF Write, TypeInv, Stages

LEMMA CallTypes ==
  ASSUME TypeInv, NEW g \in Func, Call(g) \/ CallIndirect(g)
  PROVE  TypeInv'
<1>1. Depth > 0 /\ phase = "run" /\ bank' = bank
  BY DEF Call, CallIndirect
<1>2. Running \in Func /\ Depth \in 1 .. MaxDepth /\ bank' \in Bank
      /\ mem \in [Cell -> 0 .. MaxDepth]
  BY <1>1, TopTypes DEF TypeInv, RunTypes
<1>3. RunTypes' /\ Len(stack') = Depth + 1
  <2>1. CASE Call(g)
    <3>1. PICK moved \in SUBSET prog.params[g] :
            Enter(g, FALSE, keeps[Running][g],
                  [c \in Cell |-> IF \E r \in moved : c = CellOf(bank, r)
                                  THEN Depth ELSE mem[c]])
      BY <2>1 DEF Call
    <3>2. [c \in Cell |-> IF \E r \in moved : c = CellOf(bank, r)
                          THEN Depth ELSE mem[c]] \in [Cell -> 0 .. MaxDepth]
      BY <1>2
    <3>3. keeps[Running][g] \in SUBSET Reg
      BY <1>2 DEF TypeInv, GenTypes
    <3>4. QED
      BY <1>2, <3>1, <3>2, <3>3, EnterTypes
  <2>2. CASE CallIndirect(g)
    BY <1>2, <2>2, EnterTypes DEF CallIndirect
  <2>3. QED
    BY <2>1, <2>2
<1>4. UNCHANGED <<prog, phase, visitVars, genVars>>
  BY DEF Call, CallIndirect
<1>5. QED
  BY <1>1, <1>2, <1>3, <1>4, SameTypes DEF TypeInv, Stages

LEMMA LeaveStepTypes == TypeInv /\ (Return \/ ReturnFromHandler) => TypeInv'
<1> SUFFICES ASSUME TypeInv, Return \/ ReturnFromHandler PROVE TypeInv'
  OBVIOUS
<1>1. /\ Depth > 1 /\ phase = "run" /\ stack' = SubSeq(stack, 1, Depth - 1)
      /\ UNCHANGED <<prog, phase, visitVars, genVars>>
  BY DEF Return, ReturnFromHandler
<1>2. stack' \in Seq(Activation) /\ Len(stack') \in 1 .. MaxDepth
  BY <1>1, LeaveTypes
<1>3. Depth > 0
  BY <1>1 DEF TypeInv, RunTypes, Depth
<1>4. /\ Depth \in 1 .. MaxDepth /\ mem \in [Cell -> 0 .. MaxDepth]
      /\ stack[Depth].at.mem \in [Cell -> 0 .. MaxDepth]
      /\ stack[Depth].at.bank \in Bank /\ bank \in Bank
  BY <1>3, TopTypes DEF TypeInv, RunTypes
<1>5. mem' \in [Cell -> 0 .. MaxDepth] /\ bank' \in Bank
  <2>1. CASE Return
    BY <1>4, <2>1 DEF Return
  <2>2. CASE ReturnFromHandler
    BY <1>4, <2>2 DEF ReturnFromHandler
  <2>3. QED
    BY <2>1, <2>2
<1>6. RunTypes'
  BY <1>2, <1>5, SizesAssumption DEF RunTypes
<1>7. QED
  BY <1>1, <1>2, <1>6, SameTypes DEF TypeInv, Stages

LEMMA InterruptTypes ==
  ASSUME TypeInv, NEW h \in Func, Interrupt(h)
  PROVE  TypeInv'
<1>1. mem \in [Cell -> 0 .. MaxDepth] /\ bank' \in Bank
  BY ProgTypes DEF TypeInv, RunTypes, Interrupt
<1>2. RunTypes' /\ Len(stack') = Depth + 1
  BY <1>1, EnterTypes DEF Interrupt
<1>3. Depth \in Nat
  BY DEF TypeInv, RunTypes, Depth
<1>4. QED
  BY <1>2, <1>3, SameTypes DEF Interrupt, TypeInv, Stages

LEMMA NextTypes == TypeInv /\ [Next]_vars => TypeInv'
<1> SUFFICES ASSUME TypeInv, [Next]_vars PROVE TypeInv'
  OBVIOUS
<1>1. CASE CheckRecursion
  BY <1>1, SameTypes DEF CheckRecursion, TypeInv, Stages, runVars
<1>2. CASE VisitRoot \/ VisitCallee \/ VisitDone
  BY <1>2, VisitStepTypes
<1>3. CASE FixSummaries \/ Generate
  BY <1>3, GenStepTypes
<1>4. CASE StartMain
  BY <1>4, StartMainTypes
<1>5. CASE \E r \in Res : Write(r)
  BY <1>5, WriteTypes
<1>6. CASE \E g \in Func : Call(g) \/ CallIndirect(g)
  BY <1>6, CallTypes
<1>7. CASE Return \/ ReturnFromHandler
  BY <1>7, LeaveStepTypes
<1>8. CASE \E h \in Func : Interrupt(h)
  BY <1>8, InterruptTypes
<1>9. CASE UNCHANGED vars
  BY <1>9, SameTypes DEF vars, TypeInv, Stages, runVars
<1>10. QED
  BY <1>1, <1>2, <1>3, <1>4, <1>5, <1>6, <1>7, <1>8, <1>9 DEF Next

LEMMA TypeInvImplies == TypeInv => TypeOK
<1> SUFFICES ASSUME TypeInv PROVE TypeOK
  OBVIOUS
<1>1. Len(path) <= N /\ Len(post) <= N
  <2>1. /\ Len(path) \in Nat /\ Len(post) \in Nat
        /\ Len(path) + Len(post) = Cardinality(seen)
    BY DEF TypeInv, VisitTypes
  <2>2. Cardinality(seen) \in Nat /\ Cardinality(seen) <= N
    BY FuncFinite DEF TypeInv, VisitTypes
  <2>3. QED
    BY <2>1, <2>2, SizesAssumption
<1>2. QED
  BY <1>1 DEF TypeInv, TypeOK, Stages, VisitTypes, GenTypes, RunTypes

\* Every variable keeps its shape, and the bottom-up visit lists no function
\* twice and is never inside more functions than there are.
THEOREM TypeCorrect == Spec => []TypeOK
BY InitTypes, NextTypes, TypeInvImplies, PTL DEF Spec

-----------------------------------------------------------------------------
(***************************************************************************)
(* Conventions: what a compiled function says of itself covers what it and *)
(* everything it calls do, whatever the order in which they were compiled. *)
(***************************************************************************)

\* The visit lists every function it has left once.
Visited ==
  /\ \A f \in Func :
       f \in seen <=> \/ \E i \in 1 .. Len(path) : path[i] = f
                      \/ \E i \in 1 .. Len(post) : post[i] = f
  /\ \A i, j \in 1 .. Len(path) : path[i] = path[j] => i = j
  /\ \A i, j \in 1 .. Len(post) : post[i] = post[j] => i = j
  /\ \A i \in 1 .. Len(path), j \in 1 .. Len(post) : path[i] # post[j]
  /\ phase \in {"generate", "run"} => Len(path) = 0 /\ seen = Func

LEMMA InitVisited == Init => Visited
BY EmptySeq DEF Init, Visited

LEMMA VisitStepVisited ==
  ASSUME TypeInv, Visited, VisitRoot \/ VisitCallee \/ VisitDone
  PROVE  Visited'
<1>1. /\ path \in Seq(Func) /\ post \in Seq(Func) /\ seen \in SUBSET Func
      /\ Len(path) \in Nat /\ Len(post) \in Nat
  BY DEF TypeInv, VisitTypes
<1>2. phase = "visit" /\ phase' = phase
  BY DEF VisitRoot, VisitCallee, VisitDone
<1>3. CASE VisitRoot
  <2>1. PICK f \in Func \ seen : seen' = seen \cup {f} /\ path' = <<f>>
    BY <1>3 DEF VisitRoot
  <2>2. Len(path) = 0 /\ post' = post /\ Len(path') = 1 /\ path'[1] = f
    BY <1>3, <2>1, EmptySeq DEF VisitRoot
  <2>3. QED
    BY <1>1, <1>2, <2>1, <2>2 DEF Visited
<1>4. CASE VisitCallee
  <2>1. path # << >> /\ post' = post
    BY <1>4 DEF VisitCallee
  <2>2. PICK g \in Callees(path[Len(path)]) \ seen :
          seen' = seen \cup {g} /\ path' = Append(path, g)
    BY <1>4 DEF VisitCallee
  <2>3. g \in Func
    BY <1>1, <2>1, <2>2, PrefixTyped, ProgTypes DEF TypeInv
  <2>4. /\ Len(path') = Len(path) + 1 /\ path'[Len(path) + 1] = g
        /\ \A i \in 1 .. Len(path) : path'[i] = path[i]
    BY <1>1, <2>2, <2>3, AppendProperties
  <2>5. \A i \in 1 .. Len(path') : i \in 1 .. Len(path) \/ i = Len(path) + 1
    BY <1>1, <2>4
  <2>6. \A i \in 1 .. Len(path) : i \in 1 .. Len(path')
    BY <1>1, <2>4
  <2>7. Len(path) + 1 \in 1 .. Len(path')
    BY <1>1, <2>4
  <2>8. /\ \A i \in 1 .. Len(path) : path[i] # g
        /\ \A i \in 1 .. Len(post) : post[i] # g
    BY <2>2, <2>3 DEF Visited
  <2>9. QED
    BY <1>2, <2>1, <2>2, <2>3, <2>4, <2>5, <2>6, <2>7, <2>8 DEF Visited
<1>5. CASE VisitDone
  <2> DEFINE d == path[Len(path)]
  <2>1. /\ path # << >> /\ post' = Append(post, d)
        /\ path' = SubSeq(path, 1, Len(path) - 1) /\ seen' = seen
    BY <1>5 DEF VisitDone
  <2>2. /\ Len(path) \in 1 .. Len(path) /\ d \in Func
        /\ Len(path') = Len(path) - 1
        /\ \A i \in 1 .. Len(path') : i \in 1 .. Len(path) /\ i # Len(path)
        /\ \A i \in 1 .. Len(path) : i \in 1 .. Len(path') \/ i = Len(path)
        /\ \A i \in 1 .. Len(path') : path'[i] = path[i]
    BY <1>1, <2>1, PrefixTyped
  <2>3. /\ Len(post') = Len(post) + 1 /\ post'[Len(post) + 1] = d
        /\ \A i \in 1 .. Len(post) : post'[i] = post[i]
    BY <1>1, <2>1, <2>2, AppendProperties
  <2>4. /\ \A i \in 1 .. Len(post') : i \in 1 .. Len(post) \/ i = Len(post) + 1
        /\ \A i \in 1 .. Len(post) : i \in 1 .. Len(post')
        /\ Len(post) + 1 \in 1 .. Len(post')
    BY <1>1, <2>3
  <2>5. /\ \A i \in 1 .. Len(path') : path[i] # d
        /\ \A i \in 1 .. Len(post) : post[i] # d
    BY <2>2 DEF Visited
  <2>6. \A f \in Func :
          f \in seen' <=> \/ \E i \in 1 .. Len(path') : path'[i] = f
                          \/ \E i \in 1 .. Len(post') : post'[i] = f
    <3>1. ASSUME NEW f \in Func, f \in seen
          PROVE  \/ \E i \in 1 .. Len(path') : path'[i] = f
                 \/ \E i \in 1 .. Len(post') : post'[i] = f
      <4>1. CASE \E i \in 1 .. Len(path) : path[i] = f
        BY <2>2, <2>3, <2>4, <4>1
      <4>2. CASE \E i \in 1 .. Len(post) : post[i] = f
        BY <2>3, <2>4, <4>2
      <4>3. QED
        BY <3>1, <4>1, <4>2 DEF Visited
    <3>2. ASSUME NEW f \in Func, NEW i \in 1 .. Len(path'), path'[i] = f
          PROVE  f \in seen
      BY <2>2, <3>2 DEF Visited
    <3>3. ASSUME NEW f \in Func, NEW i \in 1 .. Len(post'), post'[i] = f
          PROVE  f \in seen
      <4>1. CASE i \in 1 .. Len(post)
        BY <2>3, <3>3, <4>1 DEF Visited
      <4>2. CASE i = Len(post) + 1
        BY <2>2, <2>3, <3>3, <4>2 DEF Visited
      <4>3. QED
        BY <2>4, <4>1, <4>2
    <3>4. QED
      BY <2>1, <3>1, <3>2, <3>3
  <2>7. \A i, j \in 1 .. Len(path') : path'[i] = path'[j] => i = j
    BY <2>2 DEF Visited
  <2>8. \A i, j \in 1 .. Len(post') : post'[i] = post'[j] => i = j
    BY <2>3, <2>4, <2>5 DEF Visited
  <2>9. \A i \in 1 .. Len(path'), j \in 1 .. Len(post') : path'[i] # post'[j]
    <3> SUFFICES ASSUME NEW i \in 1 .. Len(path'), NEW j \in 1 .. Len(post')
                 PROVE  path[i] # post'[j]
      BY <2>2
    <3>1. CASE j \in 1 .. Len(post)
      <4>1. i \in 1 .. Len(path) /\ post'[j] = post[j]
        BY <2>2, <2>3, <3>1
      <4>2. path[i] # post[j]
        BY <3>1, <4>1 DEF Visited
      <4>3. QED
        BY <4>1, <4>2
    <3>2. CASE j = Len(post) + 1
      BY <2>3, <2>5, <3>2
    <3>3. QED
      BY <2>4, <3>1, <3>2
  <2>10. QED
    BY <1>2, <2>6, <2>7, <2>8, <2>9 DEF Visited
<1>6. QED
  BY <1>3, <1>4, <1>5

\* Functions that have been compiled.
Done(f) == \E i \in 1 .. Len(post) : i < next /\ post[i] = f

Compiled(f) ==
  /\ f \in known
  /\ prog.writes[f] \subseteq total[f]
  /\ prog.ret[f] \subseteq total[f]
  /\ f \in prog.opaque => total[f] = Res
  /\ total[f] \cap Reg \subseteq clobbers[f]
  /\ \A g \in Callees(f) : /\ total[g] \subseteq total[f]
                           /\ ~Done(g) => total[f] = Res
  /\ \A g \in prog.calls[f] : prog.params[g] \subseteq total[f]
  /\ \A g \in Func : /\ keeps[f][g] \cap total[g] = {}
                     /\ ~Done(g) => keeps[f][g] = {}

Conventions ==
  /\ phase \in {"check", "failed", "visit"} =>
       next = 1 /\ \A f \in Func : total[f] = {}
  /\ phase \in {"generate", "run"} =>
       \A f \in Func : /\ f \in known /\ ~Done(f) => clobbers[f] = Reg
                       /\ f \in prog.naked => f \in known /\ clobbers[f] = Reg
                       /\ ~Done(f) => total[f] = {}
                       /\ Done(f) => Compiled(f)
  /\ phase = "run" => \A f \in Func : Done(f)

\* A callee that may change every register makes its caller change everything,
\* and nothing survives its call.
LEMMA CallsOfUnknown ==
  ASSUME TypeInv, NEW f \in Func, NEW g \in Callees(f),
         CalleeClobbers(g) = Reg
  PROVE  Total(f) = Res /\ (g \in prog.calls[f] => Survives(g) = {})
<1>1. /\ g \in Func /\ prog.params[g] \in SUBSET Reg /\ prog.ret[g] \in SUBSET Reg
      /\ Total(f) \in SUBSET Res
  BY ProgTypes, CompileTypes DEF TypeInv
<1>2. CallClobbers(g) = Reg
  BY <1>1 DEF CallClobbers
<1>3. CASE Unknown(f)
  BY <1>1, <1>2, <1>3 DEF Total, Survives
<1>4. CASE ~Unknown(f)
  <2>1. g \in prog.calls[f]
    BY <1>4 DEF Unknown, Callees
  <2>2. Special \subseteq Total(f)
    BY <1>2, <1>4, <2>1 DEF Total
  <2>3. Reg \subseteq Total(f)
    BY <1>2, <1>4, <2>1 DEF Total
  <2>4. QED
    BY <1>1, <1>2, <2>2, <2>3 DEF Res, Survives
<1>5. QED
  BY <1>3, <1>4

LEMMA TotalCovers ==
  ASSUME TypeInv, NEW f \in Func
  PROVE  /\ prog.writes[f] \subseteq Total(f)
         /\ prog.ret[f] \subseteq Total(f)
         /\ f \in prog.opaque => Total(f) = Res
         /\ \A g \in Callees(f) : total[g] \subseteq Total(f)
         /\ \A g \in prog.calls[f] : prog.params[g] \subseteq Total(f)
<1>1. /\ prog.writes[f] \in SUBSET Res /\ prog.ret[f] \in SUBSET Reg
      /\ \A g \in prog.calls[f] : prog.params[g] \in SUBSET Reg
      /\ \A g \in Callees(f) : total[g] \in SUBSET Res
  BY ProgTypes DEF TypeInv, GenTypes
<1>2. CASE Unknown(f)
  <2>1. Total(f) = Res
    BY <1>2 DEF Total
  <2>2. QED
    BY <1>1, <2>1 DEF Res
<1>3. CASE ~Unknown(f)
  <2>1. f \notin prog.opaque
    BY <1>3 DEF Unknown
  <2>2. \A g \in prog.calls[f] : prog.params[g] \subseteq CallClobbers(g)
    BY DEF CallClobbers
  <2>3. prog.writes[f] \subseteq Total(f) /\ prog.ret[f] \subseteq Total(f)
    BY <1>3 DEF Total
  <2>4. \A g \in Callees(f) : total[g] \subseteq Total(f)
    BY <1>3 DEF Total
  <2>5. \A g \in prog.calls[f] : CallClobbers(g) \subseteq Total(f)
    BY <1>3 DEF Total
  <2>6. QED
    BY <2>1, <2>2, <2>3, <2>4, <2>5
<1>4. QED
  BY <1>2, <1>3

LEMMA GenerateConventions ==
  ASSUME TypeInv, Visited, Conventions, Generate
  PROVE  Conventions'
<1>0. PICK f \in Func : f = post[next]
  BY ElementOfSeq DEF Generate, TypeInv, VisitTypes, GenTypes
<1>1. /\ f \in Func /\ next \in 1 .. Len(post) /\ next \in Nat /\ Len(post) \in Nat
      /\ phase = "generate" /\ phase' = "generate"
  BY DEF Generate, TypeInv, VisitTypes, GenTypes
<1>2. /\ total' = [total EXCEPT ![f] = Total(f)]
      /\ keeps' = [keeps EXCEPT ![f] =
                     [g \in Func |-> IF g \in prog.calls[f]
                                     THEN Survives(g) ELSE {}]]
      /\ \/ f \in prog.naked /\ known' = known /\ clobbers' = clobbers
         \/ /\ f \notin prog.naked
            /\ known' = known \cup {f}
            /\ clobbers' = [clobbers EXCEPT ![f] =
                              IF Recursive(f) THEN Reg
                              ELSE Total(f) \cap Reg]
      /\ next' = next + 1
      /\ UNCHANGED <<prog, phase, visitVars, runVars>>
  BY <1>0 DEF Generate
<1>3. ~Done(f)
  BY <1>0, <1>1 DEF Visited, Done
<1>4. \A h \in Func : Done(h)' <=> Done(h) \/ h = f
  BY <1>0, <1>1, <1>2 DEF Done, visitVars
<1>5. total \in [Func -> SUBSET Res] /\ clobbers \in [Func -> SUBSET Reg]
      /\ keeps \in [Func -> [Func -> SUBSET Reg]]
  BY DEF TypeInv, GenTypes
<1>6. \A h \in Func : (h \in known /\ ~Done(h) => clobbers[h] = Reg)
                      /\ (h \in prog.naked => h \in known /\ clobbers[h] = Reg)
                      /\ (~Done(h) => total[h] = {})
                      /\ (Done(h) => Compiled(h))
  BY <1>1 DEF Conventions
<1>7. \A h \in Func : (~Done(h) => CalleeClobbers(h) = Reg)
                      /\ (Done(h) => total[h] \cap Reg \subseteq CalleeClobbers(h))
  BY <1>6 DEF CalleeClobbers, Compiled
<1>8. /\ total'[f] = Total(f)
      /\ keeps'[f] = [g \in Func |-> IF g \in prog.calls[f]
                                     THEN Survives(g) ELSE {}]
      /\ \A h \in Func \ {f} : /\ total'[h] = total[h] /\ keeps'[h] = keeps[h]
                               /\ clobbers'[h] = clobbers[h]
                               /\ h \in known' <=> h \in known
      /\ f \in known' /\ Total(f) \cap Reg \subseteq clobbers'[f]
      /\ f \in prog.naked => clobbers'[f] = Reg
      /\ prog' = prog
  <2>1. Total(f) \in SUBSET Res
    BY <1>1, CompileTypes
  <2>2. f \in known' /\ Total(f) \cap Reg \subseteq clobbers'[f]
    <3>1. CASE f \in prog.naked
      BY <1>1, <1>2, <1>6, <3>1
    <3>2. CASE f \notin prog.naked
      BY <1>1, <1>2, <1>5, <3>2
    <3>3. QED
      BY <3>1, <3>2
  <2>3. f \in prog.naked => clobbers'[f] = Reg
    BY <1>1, <1>2, <1>6
  <2>4. QED
    BY <1>1, <1>2, <1>5, <2>2, <2>3
<1>9. \A h \in Func : Callees(h)' = Callees(h)
  BY <1>8 DEF Callees
<1>10. Compiled(f)'
  <2>1. \A g \in Callees(f) : /\ g \in Func /\ total'[g] \subseteq Total(f)
                              /\ ~Done(g)' => Total(f) = Res
    <3> SUFFICES ASSUME NEW g \in Callees(f)
                 PROVE  /\ g \in Func /\ total'[g] \subseteq Total(f)
                        /\ ~Done(g)' => Total(f) = Res
      OBVIOUS
    <3>1. g \in Func
      BY <1>1, ProgTypes DEF TypeInv
    <3>2. CASE g = f
      BY <1>4, <1>8, <3>1, <3>2
    <3>3. CASE g # f
      <4>1. total'[g] = total[g] /\ total[g] \subseteq Total(f)
        BY <1>1, <1>8, <3>1, <3>3, TotalCovers
      <4>2. ~Done(g)' => Total(f) = Res
        BY <1>1, <1>4, <1>7, <3>1, <3>3, CallsOfUnknown
      <4>3. QED
        BY <3>1, <4>1, <4>2
    <3>4. QED
      BY <3>2, <3>3
  <2>2. \A g \in Func : keeps'[f][g] \cap total'[g] = {}
                        /\ (~Done(g)' => keeps'[f][g] = {})
    <3> SUFFICES ASSUME NEW g \in Func, g \in prog.calls[f]
                 PROVE  /\ Survives(g) \cap total'[g] = {}
                        /\ ~Done(g)' => Survives(g) = {}
      BY <1>8
    <3>1. g \in Callees(f)
      BY DEF Callees
    <3>2. CASE ~Done(g)
      BY <1>1, <1>7, <3>1, <3>2, CallsOfUnknown
    <3>3. CASE Done(g)
      <4>1. g # f /\ total'[g] = total[g] /\ Done(g)'
        BY <1>3, <1>4, <1>8, <3>3
      <4>2. Survives(g) \cap CalleeClobbers(g) = {} /\ Survives(g) \in SUBSET Reg
        BY <1>1, CompileTypes DEF Survives, CallClobbers
      <4>3. QED
        BY <1>7, <3>3, <4>1, <4>2
    <3>4. QED
      BY <3>2, <3>3
  <2>3. /\ prog.writes[f] \subseteq Total(f) /\ prog.ret[f] \subseteq Total(f)
        /\ f \in prog.opaque => Total(f) = Res
        /\ \A g \in prog.calls[f] : prog.params[g] \subseteq Total(f)
    BY <1>1, TotalCovers
  <2>4. QED
    BY <1>8, <1>9, <2>1, <2>2, <2>3 DEF Compiled
<1>11. ASSUME NEW h \in Func, h # f, Done(h) PROVE Compiled(h)'
  <2>1. Compiled(h)
    BY <1>6, <1>11
  <2>2. \A g \in Callees(h) : g \in Func
    BY ProgTypes DEF TypeInv
  <2>3. \A g \in Callees(h) : /\ total'[g] \subseteq total[h]
                              /\ ~Done(g)' => total[h] = Res
    <3> SUFFICES ASSUME NEW g \in Callees(h)
                 PROVE  /\ total'[g] \subseteq total[h]
                        /\ ~Done(g)' => total[h] = Res
      OBVIOUS
    <3>1. CASE g = f
      <4>1. total[h] = Res /\ Total(f) \in SUBSET Res
        BY <1>1, <1>3, <2>1, <3>1, CompileTypes DEF Compiled
      <4>2. QED
        BY <1>8, <3>1, <4>1
    <3>2. CASE g # f
      BY <1>4, <1>8, <2>1, <2>2, <3>2 DEF Compiled
    <3>3. QED
      BY <3>1, <3>2
  <2>4. \A g \in Func : keeps[h][g] \cap total'[g] = {}
                        /\ (~Done(g)' => keeps[h][g] = {})
    <3> SUFFICES ASSUME NEW g \in Func
                 PROVE  /\ keeps[h][g] \cap total'[g] = {}
                        /\ ~Done(g)' => keeps[h][g] = {}
      OBVIOUS
    <3>1. CASE g = f
      BY <1>3, <2>1, <3>1 DEF Compiled
    <3>2. CASE g # f
      BY <1>4, <1>8, <2>1, <3>2 DEF Compiled
    <3>3. QED
      BY <3>1, <3>2
  <2>5. QED
    BY <1>8, <1>9, <1>11, <2>1, <2>3, <2>4 DEF Compiled
<1>12. ASSUME NEW h \in Func
       PROVE  /\ h \in known' /\ ~Done(h)' => clobbers'[h] = Reg
              /\ h \in prog.naked => h \in known' /\ clobbers'[h] = Reg
              /\ ~Done(h)' => total'[h] = {}
              /\ Done(h)' => Compiled(h)'
  <2>1. CASE h = f
    BY <1>4, <1>8, <1>10, <2>1
  <2>2. CASE h # f
    BY <1>4, <1>6, <1>8, <1>11, <2>2
  <2>3. QED
    BY <2>1, <2>2
<1>13. QED
  BY <1>1, <1>8, <1>12 DEF Conventions

\* What the program's variables say does not matter to the visit, nor to what
\* has been compiled.
LEMMA SameConventions ==
  ASSUME UNCHANGED <<prog, phase, visitVars, genVars>>
  PROVE  /\ Visited => Visited'
         /\ Conventions => Conventions'
         /\ \A f \in Func : Callees(f)' = Callees(f)
<1>1. \A f \in Func : Callees(f)' = Callees(f)
  BY DEF Callees
<1>2. \A f : Done(f)' <=> Done(f)
  BY DEF Done, visitVars, genVars
<1>3. \A f \in Func : Compiled(f)' <=> Compiled(f)
  BY <1>1, <1>2 DEF Compiled, genVars
<1>4. Visited => Visited'
  BY DEF Visited, visitVars
<1>5. Conventions => Conventions'
  BY <1>2, <1>3 DEF Conventions, genVars
<1>6. QED
  BY <1>1, <1>4, <1>5

LEMMA InitConventions == Init => Conventions
BY DEF Init, Conventions

\* When the visit is over every function has been listed.
LEMMA AllListed ==
  ASSUME Visited, Len(path) = 0, seen = Func, NEW f \in Func
  PROVE  \E i \in 1 .. Len(post) : post[i] = f
BY DEF Visited

LEMMA NextConventions ==
  ASSUME TypeInv, Visited, Conventions, [Next]_vars
  PROVE  Visited' /\ Conventions'
<1>1. CASE CheckRecursion
  <2>1. /\ phase = "check" /\ phase' \in {"failed", "visit"}
        /\ UNCHANGED <<visitVars, genVars>>
    BY <1>1 DEF CheckRecursion
  <2>2. Visited'
    BY <2>1 DEF Visited, visitVars
  <2>3. Conventions'
    BY <2>1 DEF Conventions, genVars
  <2>4. QED
    BY <2>2, <2>3
<1>2. CASE VisitRoot \/ VisitCallee \/ VisitDone
  <2>1. phase = "visit" /\ phase' = phase /\ next' = next /\ total' = total
    BY <1>2 DEF VisitRoot, VisitCallee, VisitDone, genVars
  <2>2. Conventions'
    BY <2>1 DEF Conventions
  <2>3. QED
    BY <1>2, <2>2, VisitStepVisited
<1>3. CASE FixSummaries
  <2>1. /\ phase = "visit" /\ path = << >> /\ seen = Func
        /\ phase' = "generate" /\ UNCHANGED <<prog, visitVars, next, total>>
        /\ known' = prog.naked \cup {f \in Func : Recursive(f)}
        /\ clobbers' = [f \in Func |-> IF f \in known' THEN Reg ELSE {}]
    BY <1>3 DEF FixSummaries
  <2>2. Len(path) = 0
    BY <2>1, EmptySeq
  <2>3. Visited'
    BY <2>1, <2>2 DEF Visited, visitVars
  <2>4. next = 1 /\ \A f \in Func : total[f] = {}
    BY <2>1 DEF Conventions
  <2>5. \A f \in Func : ~Done(f)'
    BY <2>1, <2>4 DEF Done, TypeInv, VisitTypes
  <2>6. Conventions'
    BY <2>1, <2>4, <2>5 DEF Conventions
  <2>7. QED
    BY <2>3, <2>6
<1>4. CASE Generate
  <2>1. UNCHANGED <<phase, visitVars>>
    BY <1>4 DEF Generate
  <2>2. Visited'
    BY <2>1 DEF Visited, visitVars
  <2>3. QED
    BY <1>4, <2>2, GenerateConventions
<1>5. CASE StartMain
  <2>1. /\ phase = "generate" /\ next > Len(post) /\ phase' = "run"
        /\ UNCHANGED <<prog, visitVars, genVars>>
    BY <1>5 DEF StartMain
  <2>2. Len(path) = 0 /\ seen = Func
    BY <2>1 DEF Visited
  <2>3. Visited'
    BY <2>1, <2>2 DEF Visited, visitVars
  <2>4. \A f : Callees(f)' = Callees(f) /\ (Done(f)' <=> Done(f))
    BY <2>1 DEF Callees, Done, visitVars, genVars
  <2>5. \A f \in Func : Compiled(f)' <=> Compiled(f)
    BY <2>1, <2>4 DEF Compiled, genVars
  <2>6. \A f \in Func : Done(f)
    <3> SUFFICES ASSUME NEW f \in Func PROVE Done(f)
      OBVIOUS
    <3>1. PICK i \in 1 .. Len(post) : post[i] = f
      BY <2>2, AllListed
    <3>2. i < next
      BY <2>1, <3>1 DEF TypeInv, VisitTypes, GenTypes
    <3>3. QED
      BY <3>1, <3>2 DEF Done
  <2>7. Conventions'
    BY <2>1, <2>4, <2>5, <2>6 DEF Conventions, genVars
  <2>8. QED
    BY <2>3, <2>7
<1>6. CASE UNCHANGED <<prog, phase, visitVars, genVars>>
  BY <1>6, SameConventions
<1>7. \/ CheckRecursion
      \/ VisitRoot \/ VisitCallee \/ VisitDone
      \/ FixSummaries \/ Generate
      \/ StartMain
      \/ UNCHANGED <<prog, phase, visitVars, genVars>>
  BY DEF Next, vars, Write, Call, CallIndirect, Return, Interrupt, ReturnFromHandler
<1>8. QED
  BY <1>1, <1>2, <1>3, <1>4, <1>5, <1>6, <1>7

Compiler == TypeInv /\ Visited /\ Conventions

LEMMA InitCompiler == Init => Compiler
BY InitTypes, InitVisited, InitConventions DEF Compiler

LEMMA NextCompiler == Compiler /\ [Next]_vars => Compiler'
BY NextTypes, NextConventions DEF Compiler

\* In the running program what a function may change covers what its code
\* writes and what its callees may change, and nothing it relies on across a
\* call is among what the callee may change.
LEMMA RunConventions ==
  ASSUME Compiler, phase = "run", NEW f \in Func
  PROVE  /\ prog.writes[f] \subseteq total[f] /\ prog.ret[f] \subseteq total[f]
         /\ f \in prog.opaque => total[f] = Res
         /\ total[f] \in SUBSET Res
         /\ \A g \in Callees(f) : total[g] \subseteq total[f]
         /\ \A g \in prog.calls[f] : prog.params[g] \subseteq total[f]
         /\ \A g \in Func : keeps[f][g] \cap total[g] = {}
<1>1. Compiled(f)
  BY DEF Compiler, Conventions
<1>2. total[f] \in SUBSET Res
  BY DEF Compiler, TypeInv, GenTypes
<1>3. QED
  BY <1>1, <1>2 DEF Compiled

-----------------------------------------------------------------------------
(***************************************************************************)
(* The running program.                                                    *)
(*                                                                         *)
(* The memory of an activation that waits is described by the activation   *)
(* right above it that the hardware entered, if there is one, and by the   *)
(* machine itself if there is none.  So each fact about cells is stated    *)
(* twice, in Current and in Frozen, and an action only touches the first;  *)
(* a handler that starts freezes it, and one that returns thaws it.        *)
(***************************************************************************)
Own(p, f) == IF f \in p.banked THEN p.using[f] ELSE 0

PushedBy(p, t, h) ==
  {CellOf(0, r) : r \in IF h \in p.banked THEN t[h] \cap Special ELSE t[h]}

LEMMA Names ==
  /\ \A f : OwnBankOf(f) = Own(prog, f)
  /\ \A h : Pushed(h) = PushedBy(prog, total, h)
BY DEF OwnBankOf, Own, Pushed, PushedBy

Fn(i) == stack[i].fn

\* Activation j was reached from activation i by calls only.
Calls(i, j) == \A l \in i + 1 .. j : ~stack[l].irq

\* The banks of the handlers of priority p and above.
PrivateOf(p, q) ==
  {CellOf(Own(p, h), r) :
     h \in {k \in p.handlers \cap p.banked : q <= p.prio[k]}, r \in Reg}

\* In memory m, activation i has harmed nothing but what its epilogue restores
\* or belongs to handlers above, and what its caller relies on is there.
UnharmedIn(p, t, a, m) ==
  /\ a.irq => \A c \in Cell \ (PushedBy(p, t, a.fn) \cup PrivateOf(p, p.prio[a.fn])) :
                m[c] = a.at.mem[c]
  /\ \A r \in a.kept : m[CellOf(a.at.bank, r)] = a.at.mem[CellOf(a.at.bank, r)]

Unharmed(i, m) == UnharmedIn(prog, total, stack[i], m)

Links ==
  \A i \in 1 .. Depth :
    /\ i = 1 => ~stack[i].irq /\ stack[i].kept = {}
    /\ (i > 1 /\ ~stack[i].irq) =>
         /\ stack[i].kept \cap total[Fn(i)] = {}
         /\ stack[i].at.bank = Own(prog, Fn(i))
    /\ stack[i].irq => /\ Fn(i) \in prog.handlers
                       /\ stack[i].kept = {}
                       /\ stack[i].at.bank = Own(prog, Fn(i - 1))

Ranks ==
  \A i, j \in 1 .. Depth :
    i < j /\ stack[i].irq /\ stack[j].irq => prog.prio[Fn(i)] < prog.prio[Fn(j)]

Origins ==
  \A i \in 1 .. Depth :
    \/ Own(prog, Fn(i)) = 0
    \/ \E k \in 1 .. i : stack[k].irq /\ Own(prog, Fn(k)) = Own(prog, Fn(i))

Chains ==
  \A i, j \in 1 .. Depth :
    i <= j /\ Calls(i, j) => /\ total[Fn(j)] \subseteq total[Fn(i)]
                             /\ Own(prog, Fn(j)) = Own(prog, Fn(i))

Current == \A i \in 1 .. Depth : Calls(i, Depth) => Unharmed(i, mem)

Frozen ==
  \A i, k \in 1 .. Depth :
    i < k /\ stack[k].irq /\ Calls(i, k - 1) => Unharmed(i, stack[k].at.mem)

Machinery == bank = IF Depth > 0 THEN Own(prog, Running) ELSE 0

RunInv ==
  /\ Compiler
  /\ BanksAgree(prog)
  /\ Links /\ Ranks /\ Origins /\ Chains
  /\ Current /\ Frozen /\ Machinery

\* What BanksAgree says, of the operators of the module.
LEMMA Agreement ==
  ASSUME prog \in ProgramType, BanksAgree(prog)
  PROVE  /\ Own(prog, prog.main) = 0
         /\ \A f \in Func : \A g \in Callees(f) : Own(prog, g) = Own(prog, f)
         /\ \A h \in prog.handlers \cap prog.banked :
              /\ Own(prog, h) # 0
              /\ \A l \in prog.handlers :
                   prog.prio[l] < prog.prio[h] => Own(prog, l) # Own(prog, h)
         /\ \A h \in prog.handlers \ prog.banked :
              \A l \in prog.handlers :
                prog.prio[l] < prog.prio[h] => Own(prog, l) = 0
BY DEF BanksAgree, Own, Callees

\* The bank of a waiting activation is not among the banks of the handlers that
\* may run above it.
LEMMA BankIsApart ==
  ASSUME RunInv, phase = "run",
         NEW i \in 1 .. Depth, NEW h \in prog.handlers,
         \A k \in 1 .. i : stack[k].irq => prog.prio[Fn(k)] < prog.prio[h]
  PROVE  /\ h \in prog.banked => Own(prog, h) # Own(prog, Fn(i))
         /\ h \notin prog.banked => Own(prog, Fn(i)) = 0
<1>1. prog \in ProgramType /\ BanksAgree(prog) /\ Depth \in Nat
  BY DEF RunInv, Compiler, TypeInv, RunTypes, Depth
<1>2. CASE Own(prog, Fn(i)) = 0
  BY <1>1, <1>2, Agreement
<1>3. CASE \E k \in 1 .. i : stack[k].irq /\ Own(prog, Fn(k)) = Own(prog, Fn(i))
  <2>1. PICK k \in 1 .. i : stack[k].irq /\ Own(prog, Fn(k)) = Own(prog, Fn(i))
    BY <1>3
  <2>2. k \in 1 .. Depth
    BY <1>1, <2>1
  <2>3. Fn(k) \in prog.handlers /\ prog.prio[Fn(k)] < prog.prio[h]
    BY <2>1, <2>2 DEF RunInv, Links
  <2>4. QED
    BY <1>1, <2>1, <2>3, Agreement
<1>4. QED
  BY <1>2, <1>3 DEF RunInv, Origins

LEMMA CellIsApart ==
  ASSUME RunInv, phase = "run",
         NEW i \in 1 .. Depth, NEW p,
         \A k \in 1 .. i : stack[k].irq =>
           \A h \in prog.handlers : p <= prog.prio[h] => prog.prio[Fn(k)] < prog.prio[h],
         NEW r \in Res
  PROVE  CellOf(Own(prog, Fn(i)), r) \notin PrivateOf(prog, p)
<1> SUFFICES ASSUME NEW h \in prog.handlers \cap prog.banked, p <= prog.prio[h],
                    NEW s \in Reg,
                    CellOf(Own(prog, Fn(i)), r) = CellOf(Own(prog, h), s)
             PROVE  FALSE
  BY DEF PrivateOf
<1>1. prog \in ProgramType /\ Depth > 0
  BY DEF RunInv, Compiler, TypeInv, RunTypes, Depth, Stages
<1>2. Fn(i) \in Func /\ h \in Func
  BY <1>1, TopTypes, ProgTypes DEF RunInv, Compiler, Fn
<1>3. Own(prog, Fn(i)) \in Bank /\ Own(prog, h) \in Bank
  BY <1>1, <1>2, ProgTypes, Names
<1>4. Own(prog, h) # Own(prog, Fn(i))
  BY BankIsApart
<1>5. s \in Res /\ s = r
  BY <1>3, CellFacts DEF Res
<1>6. QED
  BY <1>3, <1>4, <1>5, CellFacts

\* What a handler and its callees change in their own bank is pushed or private.
LEMMA HandlerCovers ==
  ASSUME prog \in ProgramType, BanksAgree(prog), NEW h \in prog.handlers,
         NEW r \in total[h], total[h] \in SUBSET Res
  PROVE  CellOf(Own(prog, h), r) \in PushedBy(prog, total, h) \cup PrivateOf(prog, prog.prio[h])
<1>1. h \in Func /\ prog.prio[h] \in {0, 1} /\ Own(prog, h) \in Bank /\ 0 \in Bank
  BY ProgTypes, CellFacts, Names
<1>2. CASE h \in prog.banked /\ r \in Special
  <2>1. CellOf(Own(prog, h), r) = CellOf(0, r)
    BY <1>1, <1>2, CellFacts
  <2>2. QED
    BY <1>2, <2>1 DEF PushedBy
<1>3. CASE h \in prog.banked /\ r \in Reg
  BY <1>1, <1>3 DEF PrivateOf
<1>4. CASE h \notin prog.banked
  BY <1>4 DEF PushedBy, Own
<1>5. QED
  BY <1>2, <1>3, <1>4 DEF Res

\* An activation that only calls separate from the running one stays unharmed
\* when the running function changes what it may change.
LEMMA Touch ==
  ASSUME RunInv, phase = "run", NEW i \in 1 .. Depth, Calls(i, Depth), NEW m,
         \A c \in Cell : m[c] # mem[c] =>
           \E r \in total[Running] : c = CellOf(Own(prog, Running), r)
  PROVE  Unharmed(i, m)
<1>1. prog \in ProgramType /\ BanksAgree(prog) /\ TypeInv /\ Compiler /\ Depth \in Nat
      /\ Depth \in 1 .. Depth /\ Depth > 0 /\ i <= Depth
  BY DEF RunInv, Compiler, TypeInv, RunTypes, Depth, Stages
<1>2. Fn(i) \in Func /\ total[Fn(i)] \in SUBSET Res /\ Own(prog, Fn(i)) \in Bank
  BY <1>1, TopTypes, RunConventions, ProgTypes, Names DEF Fn
<1>3. \A c \in Cell : m[c] # mem[c] =>
        \E r \in total[Fn(i)] : c = CellOf(Own(prog, Fn(i)), r)
  <2>1. Running = Fn(Depth)
    BY DEF Running, Fn
  <2>2. total[Fn(Depth)] \subseteq total[Fn(i)] /\ Own(prog, Fn(Depth)) = Own(prog, Fn(i))
    BY <1>1 DEF RunInv, Chains
  <2>3. QED
    BY <2>1, <2>2
<1>4. Unharmed(i, mem)
  BY DEF RunInv, Current
<1>5. ASSUME stack[i].irq,
             NEW c \in Cell \ (PushedBy(prog, total, Fn(i)) \cup PrivateOf(prog, prog.prio[Fn(i)]))
      PROVE  m[c] = stack[i].at.mem[c]
  <2>1. mem[c] = stack[i].at.mem[c]
    BY <1>4, <1>5 DEF Unharmed, UnharmedIn, Fn
  <2>2. Fn(i) \in prog.handlers
    BY <1>5 DEF RunInv, Links
  <2>3. \A r \in total[Fn(i)] :
          CellOf(Own(prog, Fn(i)), r) \in PushedBy(prog, total, Fn(i)) \cup PrivateOf(prog, prog.prio[Fn(i)])
    BY <1>1, <1>2, <2>2, HandlerCovers
  <2>4. QED
    BY <1>3, <2>1, <2>3
<1>6. ASSUME NEW r \in stack[i].kept
      PROVE  m[CellOf(stack[i].at.bank, r)] = stack[i].at.mem[CellOf(stack[i].at.bank, r)]
  <2>1. r \in Reg /\ r \in Res
    BY <1>1, TopTypes DEF Res
  <2>2. r \notin total[Fn(i)] /\ stack[i].at.bank = Own(prog, Fn(i))
    BY <1>1 DEF RunInv, Links
  <2>3. \A s \in total[Fn(i)] : CellOf(stack[i].at.bank, r) # CellOf(Own(prog, Fn(i)), s)
    BY <1>2, <2>1, <2>2, CellFacts
  <2>4. CellOf(stack[i].at.bank, r) \in Cell
    BY <1>2, <2>1, <2>2, CellFacts
  <2>5. QED
    BY <1>3, <1>4, <2>3, <2>4 DEF Unharmed, UnharmedIn, Fn
<1>7. QED
  BY <1>5, <1>6 DEF Unharmed, UnharmedIn, Fn

\* The running function is entered by a call or by the hardware.
LEMMA EnterRun ==
  ASSUME RunInv, phase = "run", UNCHANGED <<prog, phase, genVars>>,
         NEW f \in Func, NEW irq \in BOOLEAN, NEW kept \in SUBSET Reg,
         NEW m \in [Cell -> 0 .. MaxDepth], Enter(f, irq, kept, m),
         bank' \in Bank, bank' = Own(prog, f),
         \A c \in Cell : m[c] # mem[c] =>
           \E r \in total[Running] : c = CellOf(Own(prog, Running), r),
         irq => /\ f \in prog.handlers /\ kept = {} /\ m = mem
                /\ \A i \in 1 .. Depth :
                     stack[i].irq => prog.prio[Fn(i)] < prog.prio[f],
         ~irq => f \in Callees(Running) /\ kept \cap total[f] = {}
  PROVE  Links' /\ Ranks' /\ Origins' /\ Chains' /\ Current' /\ Frozen' /\ Machinery'
<1>1. /\ TypeInv /\ Compiler /\ prog \in ProgramType /\ BanksAgree(prog)
      /\ Depth \in Nat /\ Depth > 0 /\ Depth \in 1 .. Depth
  BY DEF RunInv, Compiler, TypeInv, RunTypes, Depth, Stages
<1>2. PICK D \in Nat : D = Depth
  BY <1>1
<1>3. /\ Depth' = D + 1
      /\ stack'[D + 1].fn = f /\ stack'[D + 1].irq = irq
      /\ stack'[D + 1].kept = kept
      /\ stack'[D + 1].at.bank = bank /\ stack'[D + 1].at.mem = m
      /\ \A i \in 1 .. D : stack'[i] = stack[i]
  <2>1. /\ Len(stack') = Depth + 1
        /\ stack'[Depth + 1] = [fn |-> f, irq |-> irq, kept |-> kept,
                                at |-> [bank |-> bank, mem |-> m]]
        /\ \A i \in 1 .. Depth : stack'[i] = stack[i]
    BY <1>1, EnterTypes
  <2>2. Depth' = Len(stack')
    BY DEF Depth
  <2>3. QED
    BY <1>2, <2>1, <2>2
<1>4. mem' = m /\ prog' = prog /\ total' = total
  BY DEF Enter, genVars
<1>5. D \in 1 .. D /\ (\A i \in 1 .. D + 1 : i \in 1 .. D \/ i = D + 1)
      /\ \A i \in 1 .. D : i \in 1 .. D + 1 /\ i # D + 1 /\ i < D + 1 /\ i <= D
  BY <1>1, <1>2
<1>6. Running = stack[D].fn /\ Running \in Func /\ bank = Own(prog, stack[D].fn)
  BY <1>1, <1>2, TopTypes, Names DEF Running, RunInv, Machinery
<1>7. ~irq => /\ Own(prog, f) = bank
              /\ total[f] \subseteq total[stack[D].fn]
  BY <1>1, <1>6, Agreement, RunConventions
<1>8. \A i, j \in 1 .. D : Calls(i, j)' <=> Calls(i, j)
  BY <1>3 DEF Calls
<1>9. \A i \in 1 .. D : Calls(i, D + 1)' <=> Calls(i, D) /\ ~irq
  <2> SUFFICES ASSUME NEW i \in 1 .. D PROVE Calls(i, D + 1)' <=> Calls(i, D) /\ ~irq
    OBVIOUS
  <2>1. \A l : l \in i + 1 .. D + 1 <=> l \in i + 1 .. D \/ l = D + 1
    OBVIOUS
  <2>2. \A l \in i + 1 .. D : stack'[l] = stack[l]
    BY <1>3
  <2>3. QED
    BY <1>3, <2>1, <2>2 DEF Calls
<1>10. Links'
  <2> SUFFICES ASSUME NEW i \in 1 .. D + 1
               PROVE  /\ i = 1 => ~stack'[i].irq /\ stack'[i].kept = {}
                      /\ (i > 1 /\ ~stack'[i].irq) =>
                           /\ stack'[i].kept \cap total[stack'[i].fn] = {}
                           /\ stack'[i].at.bank = Own(prog, stack'[i].fn)
                      /\ stack'[i].irq =>
                           /\ stack'[i].fn \in prog.handlers
                           /\ stack'[i].kept = {}
                           /\ stack'[i].at.bank = Own(prog, stack'[i - 1].fn)
    BY <1>3, <1>4 DEF Links, Fn
  <2>1. CASE i = D + 1
    <3>1. i # 1 /\ i - 1 = D /\ i - 1 \in 1 .. D
      BY <1>5, <2>1
    <3>2. stack'[i - 1] = stack[D]
      BY <1>3, <3>1
    <3>3. QED
      BY <1>3, <1>6, <1>7, <2>1, <3>1, <3>2
  <2>2. CASE i \in 1 .. D
    <3>1. stack'[i] = stack[i]
      BY <1>3, <2>2
    <3>2. i # 1 => stack'[i - 1] = stack[i - 1]
      BY <1>3, <2>2
    <3>3. i = 1 => ~stack[i].irq
      BY <1>2, <2>2 DEF RunInv, Links
    <3>4. QED
      BY <1>2, <2>2, <3>1, <3>2, <3>3 DEF RunInv, Links, Fn
  <2>3. QED
    BY <1>5, <2>1, <2>2
<1>11. Ranks'
  <2> SUFFICES ASSUME NEW i \in 1 .. D + 1, NEW j \in 1 .. D + 1,
                      i < j, stack'[i].irq, stack'[j].irq
               PROVE  prog.prio[stack'[i].fn] < prog.prio[stack'[j].fn]
    BY <1>3, <1>4 DEF Ranks, Fn
  <2>1. i \in 1 .. D /\ stack'[i] = stack[i]
    BY <1>3
  <2>2. CASE j = D + 1
    BY <1>2, <1>3, <2>1, <2>2 DEF Fn
  <2>3. CASE j \in 1 .. D
    BY <1>2, <1>3, <2>1, <2>3 DEF RunInv, Ranks, Fn
  <2>4. QED
    BY <1>5, <2>2, <2>3
<1>12. Origins'
  <2> SUFFICES ASSUME NEW i \in 1 .. D + 1
               PROVE  \/ Own(prog, stack'[i].fn) = 0
                      \/ \E k \in 1 .. i : /\ stack'[k].irq
                                           /\ Own(prog, stack'[k].fn) = Own(prog, stack'[i].fn)
    BY <1>3, <1>4 DEF Origins, Fn
  <2>1. ASSUME NEW j \in 1 .. D
        PROVE  \/ Own(prog, stack[j].fn) = 0
               \/ \E k \in 1 .. j : /\ stack'[k].irq
                                    /\ Own(prog, stack'[k].fn) = Own(prog, stack[j].fn)
    <3>1. \A k \in 1 .. j : stack'[k] = stack[k]
      BY <1>3, <2>1
    <3>2. QED
      BY <1>2, <2>1, <3>1 DEF RunInv, Origins, Fn
  <2>2. CASE i \in 1 .. D
    BY <1>3, <2>1, <2>2
  <2>3. CASE i = D + 1 /\ irq
    BY <1>3, <2>3
  <2>4. CASE i = D + 1 /\ ~irq
    <3>1. Own(prog, stack'[i].fn) = Own(prog, stack[D].fn)
      BY <1>3, <1>6, <1>7, <2>4
    <3>2. \A k \in 1 .. D : k \in 1 .. i
      BY <2>4
    <3>3. QED
      BY <1>5, <2>1, <3>1, <3>2
  <2>5. QED
    BY <1>5, <2>2, <2>3, <2>4
<1>13. Chains'
  <2> SUFFICES ASSUME NEW i \in 1 .. D + 1, NEW j \in 1 .. D + 1, i <= j, Calls(i, j)'
               PROVE  /\ total[stack'[j].fn] \subseteq total[stack'[i].fn]
                      /\ Own(prog, stack'[j].fn) = Own(prog, stack'[i].fn)
    BY <1>3, <1>4 DEF Chains, Fn
  <2>1. CASE i = D + 1
    <3>1. j = D + 1
      BY <2>1
    <3>2. QED
      BY <2>1, <3>1
  <2>2. CASE i \in 1 .. D /\ j \in 1 .. D
    BY <1>2, <1>3, <1>8, <2>2 DEF RunInv, Chains, Fn
  <2>3. CASE i \in 1 .. D /\ j = D + 1
    <3>1. Calls(i, D) /\ ~irq
      BY <1>9, <2>3
    <3>2. /\ total[stack[D].fn] \subseteq total[stack[i].fn]
          /\ Own(prog, stack[D].fn) = Own(prog, stack[i].fn)
      BY <1>2, <1>5, <2>3, <3>1 DEF RunInv, Chains, Fn
    <3>3. QED
      BY <1>3, <1>6, <1>7, <2>3, <3>1, <3>2
  <2>4. QED
    BY <1>5, <2>1, <2>2, <2>3
<1>14. Current'
  <2> SUFFICES ASSUME NEW i \in 1 .. D + 1, Calls(i, D + 1)'
               PROVE  UnharmedIn(prog, total, stack'[i], m)
    BY <1>3, <1>4 DEF Current, Unharmed
  <2>1. CASE i = D + 1
    BY <1>3, <2>1 DEF UnharmedIn
  <2>2. CASE i \in 1 .. D
    <3>1. Calls(i, Depth) /\ i \in 1 .. Depth
      BY <1>2, <1>9, <2>2
    <3>2. Unharmed(i, m)
      BY <3>1, Touch
    <3>3. QED
      BY <1>3, <2>2, <3>2 DEF Unharmed
  <2>3. QED
    BY <1>5, <2>1, <2>2
<1>15. Frozen'
  <2> SUFFICES ASSUME NEW i \in 1 .. D + 1, NEW k \in 1 .. D + 1,
                      i < k, stack'[k].irq, Calls(i, k - 1)'
               PROVE  UnharmedIn(prog, total, stack'[i], stack'[k].at.mem)
    BY <1>3, <1>4 DEF Frozen, Unharmed
  <2>1. i \in 1 .. D /\ k - 1 \in 1 .. D /\ stack'[i] = stack[i]
    BY <1>3
  <2>2. Calls(i, k - 1)
    BY <1>8, <2>1
  <2>3. CASE k = D + 1
    <3>1. irq /\ m = mem /\ stack'[k].at.mem = mem /\ k - 1 = D
      BY <1>3, <2>3
    <3>2. Unharmed(i, mem)
      BY <1>2, <2>1, <2>2, <3>1 DEF RunInv, Current
    <3>3. QED
      BY <2>1, <3>1, <3>2 DEF Unharmed
  <2>4. CASE k \in 1 .. D
    BY <1>2, <1>3, <2>1, <2>2, <2>4 DEF RunInv, Frozen, Unharmed
  <2>5. QED
    BY <1>5, <2>3, <2>4
<1>16. Machinery'
  BY <1>3, <1>4 DEF Machinery, Running, OwnBankOf, Own
<1>17. QED
  BY <1>10, <1>11, <1>12, <1>13, <1>14, <1>15, <1>16

\* The compiler's steps leave the stack alone, and so does a write.
LEMMA SameStack ==
  ASSUME RunInv, UNCHANGED stack, prog' = prog, bank' = bank,
         Depth > 0 => total' = total,
         \A i \in 1 .. Depth :
           Calls(i, Depth) => UnharmedIn(prog, total, stack[i], mem')
  PROVE  Links' /\ Ranks' /\ Origins' /\ Chains' /\ Current' /\ Frozen' /\ Machinery'
<1>1. Depth' = Depth /\ Depth \in Nat
  BY DEF Depth, RunInv, Compiler, TypeInv, RunTypes
<1>2. Machinery'
  BY <1>1 DEF RunInv, Machinery, Running, OwnBankOf
<1>3. CASE Depth = 0
  BY <1>1, <1>2, <1>3 DEF Links, Ranks, Origins, Chains, Current, Frozen
<1>4. CASE Depth > 0
  <2>1. total' = total
    BY <1>4
  <2>2. Links' /\ Ranks' /\ Origins'
    BY <1>1, <2>1 DEF RunInv, Links, Ranks, Origins, Fn
  <2>3. Chains' /\ Current' /\ Frozen'
    BY <1>1, <2>1 DEF RunInv, Chains, Current, Frozen, Unharmed, Calls, Fn
  <2>4. QED
    BY <1>2, <2>2, <2>3
<1>5. QED
  BY <1>1, <1>3, <1>4

LEMMA WriteRun ==
  ASSUME RunInv, NEW r \in Res, Write(r)
  PROVE  Links' /\ Ranks' /\ Origins' /\ Chains' /\ Current' /\ Frozen' /\ Machinery'
<1>1. /\ phase = "run" /\ Depth > 0 /\ stack' = stack /\ prog' = prog
      /\ bank' = bank /\ total' = total
      /\ r \in IF Running \in prog.opaque THEN Res ELSE prog.writes[Running]
  BY DEF Write, genVars
<1>2. PICK b \in {bank, OwnBankOf(Running)} :
        mem' = [mem EXCEPT ![CellOf(b, r)] = Depth]
  BY DEF Write
<1>3. Compiler /\ TypeInv /\ mem \in [Cell -> 0 .. MaxDepth]
  BY DEF RunInv, Compiler, TypeInv, RunTypes
<1>4. b = Own(prog, Running)
  BY <1>1, <1>2, Names DEF RunInv, Machinery
<1>5. Running \in Func
  BY <1>1, <1>3, TopTypes
<1>6. r \in total[Running]
  BY <1>1, <1>3, <1>5, RunConventions
<1>7. PICK m : m = mem'
  OBVIOUS
<1>8. \A c \in Cell : m[c] # mem[c] =>
        \E q \in total[Running] : c = CellOf(Own(prog, Running), q)
  BY <1>2, <1>3, <1>4, <1>6, <1>7
<1>9. \A i \in 1 .. Depth : Calls(i, Depth) => UnharmedIn(prog, total, stack[i], m)
  BY <1>1, <1>8, Touch DEF Unharmed
<1>10. QED
  BY <1>1, <1>7, <1>9, SameStack

LEMMA StartMainRun ==
  ASSUME RunInv, StartMain
  PROVE  Links' /\ Ranks' /\ Origins' /\ Chains' /\ Current' /\ Frozen' /\ Machinery'
<1>1. /\ phase = "generate" /\ Enter(prog.main, FALSE, {}, mem)
      /\ UNCHANGED <<prog, genVars, bank>>
  BY DEF StartMain
<1>2. TypeInv /\ Depth = 0
  BY <1>1 DEF RunInv, Compiler, TypeInv, Stages, RunTypes, Depth
<1>3. /\ prog.main \in Func /\ mem \in [Cell -> 0 .. MaxDepth]
      /\ {} \in SUBSET Reg /\ FALSE \in BOOLEAN /\ bank' \in Bank
  BY <1>1, <1>2, ProgTypes DEF TypeInv, RunTypes
<1>4. /\ Len(stack') = 1
      /\ stack'[1] = [fn |-> prog.main, irq |-> FALSE, kept |-> {},
                      at |-> [bank |-> bank, mem |-> mem]]
  <2>1. /\ Len(stack') = Depth + 1
        /\ stack'[Depth + 1] = [fn |-> prog.main, irq |-> FALSE, kept |-> {},
                                at |-> [bank |-> bank, mem |-> mem]]
    BY <1>1, <1>2, <1>3, EnterTypes
  <2>2. QED
    BY <1>2, <2>1
<1>5. Depth' = 1 /\ \A i \in 1 .. 1 : i = 1
  BY <1>4 DEF Depth
<1>6. bank = 0 /\ Own(prog, prog.main) = 0 /\ bank' = bank /\ prog' = prog
  <2>1. bank = 0
    BY <1>2 DEF RunInv, Machinery
  <2>2. prog \in ProgramType /\ BanksAgree(prog)
    BY <1>2 DEF RunInv, TypeInv
  <2>3. Own(prog, prog.main) = 0
    BY <2>2, Agreement
  <2>4. QED
    BY <1>1, <2>1, <2>3
<1>7. Links' /\ Ranks' /\ Frozen'
  BY <1>4, <1>5 DEF Links, Ranks, Frozen, Fn
<1>8. Origins' /\ Machinery'
  BY <1>4, <1>5, <1>6 DEF Origins, Machinery, Running, Fn, OwnBankOf, Own
<1>9. Chains' /\ Current'
  BY <1>4, <1>5 DEF Chains, Current, Unharmed, UnharmedIn, Fn
<1>10. QED
  BY <1>7, <1>8, <1>9

LEMMA CallRun ==
  ASSUME RunInv, NEW g \in Func, Call(g) \/ CallIndirect(g)
  PROVE  Links' /\ Ranks' /\ Origins' /\ Chains' /\ Current' /\ Frozen' /\ Machinery'
<1>1. /\ phase = "run" /\ Depth > 0 /\ UNCHANGED <<prog, phase, genVars>>
      /\ bank' = bank
  BY DEF Call, CallIndirect
<1>2. Compiler /\ TypeInv /\ mem \in [Cell -> 0 .. MaxDepth] /\ bank \in Bank
      /\ prog \in ProgramType /\ BanksAgree(prog)
  BY DEF RunInv, Compiler, TypeInv, RunTypes
<1>3. /\ Running \in Func /\ bank = Own(prog, Running) /\ bank = OwnBankOf(Running)
      /\ Depth \in 1 .. MaxDepth
  BY <1>1, <1>2, TopTypes, Names DEF RunInv, Machinery
<1>4. CASE Call(g)
  <2>1. PICK moved \in SUBSET prog.params[g] :
          Enter(g, FALSE, keeps[Running][g],
                [c \in Cell |-> IF \E r \in moved : c = CellOf(bank, r)
                                THEN Depth ELSE mem[c]])
    BY <1>4 DEF Call
  <2>2. g \in prog.calls[Running] /\ g \in Callees(Running)
    BY <1>4 DEF Call, Callees
  <2> DEFINE m == [c \in Cell |-> IF \E r \in moved : c = CellOf(bank, r)
                                  THEN Depth ELSE mem[c]]
  <2>3. m \in [Cell -> 0 .. MaxDepth]
    BY <1>2, <1>3
  <2>4. \A c \in Cell : m[c] # mem[c] =>
          \E r \in total[Running] : c = CellOf(Own(prog, Running), r)
    BY <1>1, <1>2, <1>3, <2>2, RunConventions
  <2>5. keeps[Running][g] \in SUBSET Reg /\ keeps[Running][g] \cap total[g] = {}
    BY <1>1, <1>2, <1>3, RunConventions DEF TypeInv, GenTypes
  <2>6. Own(prog, g) = bank
    BY <1>2, <1>3, <2>2, Agreement
  <2>7. Enter(g, FALSE, keeps[Running][g], m) /\ bank' \in Bank /\ bank' = Own(prog, g)
    BY <1>1, <1>2, <2>1, <2>6
  <2> HIDE DEF m
  <2>8. QED
    BY <1>1, <2>2, <2>3, <2>4, <2>5, <2>7, EnterRun
<1>5. CASE CallIndirect(g)
  <2>1. g \in Callees(Running) /\ Enter(g, FALSE, {}, mem)
    BY <1>5 DEF CallIndirect, Callees
  <2>2. Own(prog, g) = bank
    BY <1>2, <1>3, <2>1, Agreement
  <2>3. {} \in SUBSET Reg /\ FALSE \in BOOLEAN /\ bank' \in Bank /\ bank' = Own(prog, g)
        /\ {} \cap total[g] = {}
    BY <1>1, <1>2, <2>2
  <2>4. QED
    BY <1>1, <1>2, <2>1, <2>3, EnterRun
<1>6. QED
  BY <1>4, <1>5

LEMMA InterruptRun ==
  ASSUME RunInv, NEW h \in Func, Interrupt(h)
  PROVE  Links' /\ Ranks' /\ Origins' /\ Chains' /\ Current' /\ Frozen' /\ Machinery'
<1>1. /\ phase = "run" /\ UNCHANGED <<prog, phase, genVars>>
      /\ h \in prog.handlers /\ Enter(h, TRUE, {}, mem)
      /\ bank' = IF h \in prog.banked THEN prog.using[h] ELSE bank
      /\ \A i \in 1 .. Depth : stack[i].irq => prog.prio[Fn(i)] < prog.prio[h]
  BY DEF Interrupt, Fn
<1>2. /\ TypeInv /\ mem \in [Cell -> 0 .. MaxDepth] /\ bank \in Bank
      /\ prog \in ProgramType /\ Depth \in Nat /\ Depth > 0
  BY <1>1 DEF RunInv, Compiler, TypeInv, RunTypes, Stages, Depth
<1>3. bank = Own(prog, Fn(Depth))
  BY <1>2, Names DEF RunInv, Machinery, Running, Fn
<1>4. h \notin prog.banked => Own(prog, Fn(Depth)) = 0
  BY <1>1, <1>2, BankIsApart
<1>5. bank' = Own(prog, h) /\ bank' \in Bank
  BY <1>1, <1>2, <1>3, <1>4, ProgTypes DEF Own
<1>6. {} \in SUBSET Reg /\ TRUE \in BOOLEAN
  OBVIOUS
<1>7. QED
  BY <1>1, <1>2, <1>5, <1>6, EnterRun

\* Chains below the top are not affected when it is taken off.
LEMMA PrefixChains ==
  ASSUME RunInv, NEW D \in Nat, Depth \in Nat, D <= Depth, Depth' = D,
         prog' = prog, total' = total,
         \A i \in 1 .. D : stack'[i] = stack[i]
  PROVE  Chains'
<1> SUFFICES ASSUME NEW i \in 1 .. D, NEW j \in 1 .. D, i <= j, Calls(i, j)'
             PROVE  /\ total[stack'[j].fn] \subseteq total[stack'[i].fn]
                    /\ Own(prog, stack'[j].fn) = Own(prog, stack'[i].fn)
  BY DEF Chains, Fn
<1>1. \A l \in i + 1 .. j : l \in 1 .. D /\ stack'[l] = stack[l]
  OBVIOUS
<1>2. Calls(i, j)
  BY <1>1 DEF Calls
<1>3. i \in 1 .. Depth /\ j \in 1 .. Depth
  OBVIOUS
<1>4. QED
  BY <1>2, <1>3 DEF RunInv, Chains, Fn

\* A function or a handler leaves: its frame goes, and what the waiting
\* activations find is in order.
LEMMA LeaveRun ==
  ASSUME RunInv, phase = "run", UNCHANGED <<prog, phase, genVars>>, Depth > 1,
         stack' = SubSeq(stack, 1, Depth - 1),
         bank' = Own(prog, Fn(Depth - 1)),
         \A i \in 1 .. Depth - 1 :
           Calls(i, Depth - 1) => UnharmedIn(prog, total, stack[i], mem')
  PROVE  Links' /\ Ranks' /\ Origins' /\ Chains' /\ Current' /\ Frozen' /\ Machinery'
<1>1. TypeInv /\ Depth \in Nat /\ prog' = prog /\ total' = total
  BY DEF RunInv, Compiler, TypeInv, RunTypes, Depth, genVars
<1>2. PICK D \in Nat : D = Depth - 1 /\ D + 1 = Depth /\ D > 0
  BY <1>1
<1>3. /\ Depth' = D
      /\ \A i \in 1 .. D : stack'[i] = stack[i]
      /\ \A i \in 1 .. D : i \in 1 .. Depth
  <2>1. /\ Len(stack') = Depth - 1
        /\ \A i \in 1 .. Depth - 1 : stack'[i] = stack[i]
    BY <1>1, LeaveTypes
  <2>2. Depth' = Len(stack')
    BY DEF Depth
  <2>3. QED
    BY <1>2, <2>1, <2>2
<1>4. \A i, j \in 1 .. D : Calls(i, j)' <=> Calls(i, j)
  <2> SUFFICES ASSUME NEW i \in 1 .. D, NEW j \in 1 .. D
               PROVE  Calls(i, j)' <=> Calls(i, j)
    OBVIOUS
  <2>1. \A l \in i + 1 .. j : l \in 1 .. D /\ stack'[l] = stack[l]
    BY <1>2, <1>3
  <2>2. QED
    BY <2>1 DEF Calls
<1>5. Links'
  <2> SUFFICES ASSUME NEW i \in 1 .. D
               PROVE  /\ i = 1 => ~stack[i].irq /\ stack[i].kept = {}
                      /\ (i > 1 /\ ~stack[i].irq) =>
                           /\ stack[i].kept \cap total[stack[i].fn] = {}
                           /\ stack[i].at.bank = Own(prog, stack[i].fn)
                      /\ stack[i].irq =>
                           /\ stack[i].fn \in prog.handlers
                           /\ stack[i].kept = {}
                           /\ stack[i].at.bank = Own(prog, stack'[i - 1].fn)
    BY <1>1, <1>3 DEF Links, Fn
  <2>1. i # 1 => stack'[i - 1] = stack[i - 1]
    BY <1>2, <1>3
  <2>2. i = 1 => ~stack[i].irq
    BY <1>3 DEF RunInv, Links
  <2>3. QED
    BY <1>3, <2>1, <2>2 DEF RunInv, Links, Fn
<1>6. Ranks'
  BY <1>1, <1>3 DEF RunInv, Ranks, Fn
<1>7. Origins'
  <2> SUFFICES ASSUME NEW i \in 1 .. D
               PROVE  \/ Own(prog, stack[i].fn) = 0
                      \/ \E k \in 1 .. i : /\ stack'[k].irq
                                           /\ Own(prog, stack'[k].fn) = Own(prog, stack[i].fn)
    BY <1>1, <1>3 DEF Origins, Fn
  <2>1. \A k \in 1 .. i : stack'[k] = stack[k]
    BY <1>2, <1>3
  <2>2. QED
    BY <1>3, <2>1 DEF RunInv, Origins, Fn
<1>8. Chains'
  BY <1>1, <1>2, <1>3, PrefixChains
<1>9. Current'
  <2> SUFFICES ASSUME NEW i \in 1 .. D, Calls(i, D)
               PROVE  UnharmedIn(prog, total, stack[i], mem')
    BY <1>1, <1>2, <1>3, <1>4 DEF Current, Unharmed
  <2>1. QED
    BY <1>2
<1>10. Frozen'
  <2> SUFFICES ASSUME NEW i \in 1 .. D, NEW k \in 1 .. D,
                      i < k, stack[k].irq, Calls(i, k - 1)'
               PROVE  UnharmedIn(prog, total, stack[i], stack[k].at.mem)
    BY <1>1, <1>3 DEF Frozen, Unharmed
  <2>1. k - 1 \in 1 .. D
    OBVIOUS
  <2>2. Calls(i, k - 1)
    BY <1>4, <2>1
  <2>3. QED
    BY <1>3, <2>2 DEF RunInv, Frozen, Unharmed
<1>11. Machinery'
  BY <1>1, <1>2, <1>3 DEF Machinery, Running, OwnBankOf, Own, Fn
<1>12. QED
  BY <1>5, <1>6, <1>7, <1>8, <1>9, <1>10, <1>11

LEMMA ReturnRun ==
  ASSUME RunInv, Return
  PROVE  Links' /\ Ranks' /\ Origins' /\ Chains' /\ Current' /\ Frozen' /\ Machinery'
<1>1. /\ phase = "run" /\ UNCHANGED <<prog, phase, genVars>> /\ Depth > 1
      /\ ~stack[Depth].irq /\ bank' = bank
      /\ stack' = SubSeq(stack, 1, Depth - 1)
      /\ mem' = [c \in Cell |-> IF \E r \in prog.ret[Running] : c = CellOf(bank, r)
                                THEN Depth ELSE mem[c]]
  BY DEF Return
<1>2. Compiler /\ TypeInv /\ Depth \in Nat /\ Depth > 0
  BY <1>1 DEF RunInv, Compiler, TypeInv, RunTypes, Depth
<1>3. Running \in Func /\ bank = Own(prog, Running) /\ Running = Fn(Depth)
  BY <1>2, TopTypes, Names DEF RunInv, Machinery, Running, Fn
<1>4. prog.ret[Running] \subseteq total[Running]
  BY <1>1, <1>2, <1>3, RunConventions
<1>5. Calls(Depth - 1, Depth)
  BY <1>1, <1>2 DEF Calls
<1>6. Own(prog, Fn(Depth)) = Own(prog, Fn(Depth - 1))
  BY <1>1, <1>2, <1>5 DEF RunInv, Chains
<1>7. PICK m : m = mem'
  OBVIOUS
<1>8. \A c \in Cell : m[c] # mem[c] =>
        \E r \in total[Running] : c = CellOf(Own(prog, Running), r)
  BY <1>1, <1>3, <1>4, <1>7
<1>9. ASSUME NEW i \in 1 .. Depth - 1, Calls(i, Depth - 1)
      PROVE  UnharmedIn(prog, total, stack[i], m)
  <2>1. i \in 1 .. Depth /\ Calls(i, Depth)
    <3>1. \A l \in i + 1 .. Depth : l \in i + 1 .. Depth - 1 \/ l = Depth
      BY <1>2
    <3>2. QED
      BY <1>1, <1>2, <1>9, <3>1 DEF Calls
  <2>2. QED
    BY <1>1, <1>8, <2>1, Touch DEF Unharmed
<1>10. QED
  BY <1>1, <1>3, <1>6, <1>7, <1>9, LeaveRun

\* When a handler returns, everything is as it was when it was entered, but for
\* the banks of the handlers of its priority and above, which nothing that waits
\* is running in.
LEMMA HandlerReturns ==
  ASSUME RunInv, ReturnFromHandler
  PROVE  /\ \A c \in Cell \ PrivateOf(prog, prog.prio[Running]) :
              mem'[c] = stack[Depth].at.mem[c]
         /\ \A i \in 1 .. Depth - 1 : \A r \in Res :
              CellOf(Own(prog, Fn(i)), r) \notin PrivateOf(prog, prog.prio[Running])
         /\ \A i \in 1 .. Depth - 1 : stack[i].irq =>
              PrivateOf(prog, prog.prio[Running]) \subseteq PrivateOf(prog, prog.prio[Fn(i)])
<1>1. /\ phase = "run" /\ Depth > 1 /\ stack[Depth].irq
      /\ mem' = [c \in Cell |-> IF c \in Pushed(Running)
                                THEN stack[Depth].at.mem[c] ELSE mem[c]]
  BY DEF ReturnFromHandler
<1>2. TypeInv /\ Depth \in Nat /\ Depth \in 1 .. Depth /\ prog \in ProgramType
      /\ Running = Fn(Depth) /\ Running = stack[Depth].fn
  BY <1>1 DEF RunInv, Compiler, TypeInv, RunTypes, Depth, Running, Fn
<1>3. Unharmed(Depth, mem)
  BY <1>1, <1>2 DEF RunInv, Current, Calls
<1>4. \A c \in Cell \ PrivateOf(prog, prog.prio[Running]) :
        mem'[c] = stack[Depth].at.mem[c]
  BY <1>1, <1>2, <1>3, Names DEF Unharmed, UnharmedIn
<1>5. \A i \in 1 .. Depth - 1 : i \in 1 .. Depth /\ i < Depth
  BY <1>2
<1>6. Running \in prog.handlers /\ \A h \in prog.handlers : prog.prio[h] \in {0, 1}
  BY <1>1, <1>2, ProgTypes DEF RunInv, Links
<1>7. \A k \in 1 .. Depth - 1 : stack[k].irq =>
        /\ Fn(k) \in prog.handlers
        /\ prog.prio[Fn(k)] < prog.prio[Running]
  BY <1>1, <1>2, <1>5 DEF RunInv, Ranks, Links
<1>8. ASSUME NEW i \in 1 .. Depth - 1, NEW r \in Res
      PROVE  CellOf(Own(prog, Fn(i)), r) \notin PrivateOf(prog, prog.prio[Running])
  <2>1. \A k \in 1 .. i : stack[k].irq =>
          \A h \in prog.handlers :
            prog.prio[Running] <= prog.prio[h] => prog.prio[Fn(k)] < prog.prio[h]
    <3> SUFFICES ASSUME NEW k \in 1 .. i, stack[k].irq, NEW h \in prog.handlers,
                        prog.prio[Running] <= prog.prio[h]
                 PROVE  prog.prio[Fn(k)] < prog.prio[h]
      OBVIOUS
    <3>1. k \in 1 .. Depth - 1
      BY <1>2
    <3>2. /\ prog.prio[Fn(k)] \in {0, 1} /\ prog.prio[h] \in {0, 1}
          /\ prog.prio[Running] \in {0, 1}
          /\ prog.prio[Fn(k)] < prog.prio[Running]
      BY <1>6, <1>7, <3>1
    <3>3. QED
      BY <3>2
  <2>2. QED
    BY <1>1, <1>5, <2>1, CellIsApart
<1>9. ASSUME NEW i \in 1 .. Depth - 1, stack[i].irq
      PROVE  PrivateOf(prog, prog.prio[Running]) \subseteq PrivateOf(prog, prog.prio[Fn(i)])
  <2>1. \A h \in prog.handlers :
          prog.prio[Running] <= prog.prio[h] => prog.prio[Fn(i)] <= prog.prio[h]
    <3> SUFFICES ASSUME NEW h \in prog.handlers, prog.prio[Running] <= prog.prio[h]
                 PROVE  prog.prio[Fn(i)] <= prog.prio[h]
      OBVIOUS
    <3>1. /\ prog.prio[Fn(i)] \in {0, 1} /\ prog.prio[h] \in {0, 1}
          /\ prog.prio[Running] \in {0, 1}
          /\ prog.prio[Fn(i)] < prog.prio[Running]
      BY <1>6, <1>7, <1>9
    <3>2. QED
      BY <3>1
  <2>2. QED
    BY <2>1 DEF PrivateOf
<1>10. QED
  BY <1>4, <1>8, <1>9

LEMMA ReturnFromHandlerRun ==
  ASSUME RunInv, ReturnFromHandler
  PROVE  Links' /\ Ranks' /\ Origins' /\ Chains' /\ Current' /\ Frozen' /\ Machinery'
<1>1. /\ phase = "run" /\ UNCHANGED <<prog, phase, genVars>> /\ Depth > 1
      /\ stack[Depth].irq /\ bank' = stack[Depth].at.bank
      /\ stack' = SubSeq(stack, 1, Depth - 1)
  BY DEF ReturnFromHandler
<1>2. TypeInv /\ Depth \in Nat /\ Depth > 0 /\ Depth \in 1 .. Depth /\ prog \in ProgramType
  BY <1>1 DEF RunInv, Compiler, TypeInv, RunTypes, Depth
<1>3. bank' = Own(prog, Fn(Depth - 1))
  BY <1>1, <1>2 DEF RunInv, Links
<1>4. PICK m : m = mem'
  OBVIOUS
<1>5. ASSUME NEW i \in 1 .. Depth - 1, Calls(i, Depth - 1)
      PROVE  UnharmedIn(prog, total, stack[i], m)
  <2>1. i \in 1 .. Depth /\ i < Depth /\ Fn(i) = stack[i].fn
    BY <1>2 DEF Fn
  <2>2. UnharmedIn(prog, total, stack[i], stack[Depth].at.mem)
    BY <1>1, <1>2, <1>5, <2>1 DEF RunInv, Frozen, Unharmed
  <2>3. ASSUME stack[i].irq,
               NEW c \in Cell \ (PushedBy(prog, total, stack[i].fn)
                                   \cup PrivateOf(prog, prog.prio[stack[i].fn]))
        PROVE  m[c] = stack[i].at.mem[c]
    <3>1. c \notin PrivateOf(prog, prog.prio[Running])
      BY <2>1, <2>3, HandlerReturns
    <3>2. m[c] = stack[Depth].at.mem[c]
      BY <1>4, <3>1, HandlerReturns
    <3>3. QED
      BY <2>2, <2>3, <3>2 DEF UnharmedIn
  <2>4. ASSUME NEW r \in stack[i].kept
        PROVE  m[CellOf(stack[i].at.bank, r)] = stack[i].at.mem[CellOf(stack[i].at.bank, r)]
    <3>1. r \in Reg /\ r \in Res /\ stack[i].at.bank \in Bank
      BY <1>2, <2>1, TopTypes DEF Res
    <3>2. stack[i].at.bank = Own(prog, Fn(i))
      BY <1>2, <2>1 DEF RunInv, Links
    <3>3. /\ CellOf(stack[i].at.bank, r) \in Cell
          /\ CellOf(stack[i].at.bank, r) \notin PrivateOf(prog, prog.prio[Running])
      BY <3>1, <3>2, CellFacts, HandlerReturns
    <3>4. m[CellOf(stack[i].at.bank, r)] = stack[Depth].at.mem[CellOf(stack[i].at.bank, r)]
      BY <1>4, <3>3, HandlerReturns
    <3>5. QED
      BY <2>2, <3>4 DEF UnharmedIn
  <2>5. QED
    BY <2>3, <2>4 DEF UnharmedIn
<1>6. QED
  BY <1>1, <1>3, <1>4, <1>5, LeaveRun

LEMMA InitRun == Init /\ BanksAgree(prog) => RunInv
<1> SUFFICES ASSUME Init, BanksAgree(prog) PROVE RunInv
  OBVIOUS
<1>1. Depth = 0 /\ bank = 0
  BY EmptySeq DEF Init, Depth
<1>2. Links /\ Ranks /\ Origins /\ Chains /\ Current /\ Frozen
  BY <1>1 DEF Links, Ranks, Origins, Chains, Current, Frozen
<1>3. Machinery
  BY <1>1 DEF Machinery
<1>4. QED
  BY <1>2, <1>3, InitCompiler DEF RunInv

LEMMA NextRun == RunInv /\ [Next]_vars => RunInv'
<1> SUFFICES ASSUME RunInv, [Next]_vars PROVE RunInv'
  OBVIOUS
<1> DEFINE Parts == Links /\ Ranks /\ Origins /\ Chains /\ Current /\ Frozen /\ Machinery
<1>1. Compiler'
  BY NextCompiler DEF RunInv
<1>2. prog' = prog
  BY DEF Next, vars, CheckRecursion, VisitRoot, VisitCallee, VisitDone, FixSummaries,
         Generate, StartMain, Write, Call, CallIndirect, Return, Interrupt,
         ReturnFromHandler
<1>3. BanksAgree(prog)'
  BY <1>2 DEF RunInv
<1>4. ASSUME \/ CheckRecursion
             \/ VisitRoot \/ VisitCallee \/ VisitDone
             \/ FixSummaries \/ Generate
             \/ UNCHANGED vars
      PROVE  Parts'
  <2>1. UNCHANGED runVars
    BY <1>4 DEF CheckRecursion, VisitRoot, VisitCallee, VisitDone, FixSummaries,
                Generate, vars
  <2>2. Depth > 0 => total' = total
    <3>1. Depth > 0 => phase = "run"
      BY DEF RunInv, Compiler, TypeInv, Stages, Depth
    <3>2. phase = "run" => UNCHANGED vars
      BY <1>4 DEF CheckRecursion, VisitRoot, VisitCallee, VisitDone, FixSummaries,
                  Generate
    <3>3. QED
      BY <3>1, <3>2 DEF vars, genVars
  <2>3. \A i \in 1 .. Depth :
          Calls(i, Depth) => UnharmedIn(prog, total, stack[i], mem')
    BY <2>1 DEF RunInv, Current, Unharmed, runVars
  <2>4. QED
    BY <1>2, <2>1, <2>2, <2>3, SameStack DEF runVars
<1>5. ASSUME StartMain PROVE Parts'
  BY <1>5, StartMainRun
<1>6. ASSUME NEW r \in Res, Write(r) PROVE Parts'
  BY <1>6, WriteRun
<1>7. ASSUME NEW g \in Func, Call(g) \/ CallIndirect(g) PROVE Parts'
  BY <1>7, CallRun
<1>8. ASSUME Return PROVE Parts'
  BY <1>8, ReturnRun
<1>9. ASSUME NEW h \in Func, Interrupt(h) PROVE Parts'
  BY <1>9, InterruptRun
<1>10. ASSUME ReturnFromHandler PROVE Parts'
  BY <1>10, ReturnFromHandlerRun
<1>11. Parts'
  BY <1>4, <1>5, <1>6, <1>7, <1>8, <1>9, <1>10 DEF Next
<1>12. QED
  BY <1>1, <1>3, <1>11 DEF RunInv

LEMMA RunOwnBank == RunInv => OwnBank
BY DEF RunInv, Machinery, OwnBank, OwnBankOf, Own

LEMMA RunKeptValues == RunInv => KeptValues
<1> SUFFICES ASSUME RunInv, NEW i \in 1 .. Depth, Awaited(i), NEW r \in stack[i].kept
             PROVE  mem[CellOf(bank, r)]
                      = stack[i].at.mem[CellOf(stack[i].at.bank, r)]
  BY DEF KeptValues
<1>1. Depth \in Nat /\ Depth > 0 /\ i \in i .. Depth /\ Depth \in 1 .. Depth /\ i <= Depth
  BY DEF RunInv, Compiler, TypeInv, RunTypes, Depth
<1>2. Calls(i, Depth) /\ ~stack[i].irq
  BY <1>1 DEF Awaited, Calls
<1>3. stack[i].at.bank = Own(prog, Fn(i))
  BY <1>2 DEF RunInv, Links
<1>4. bank = Own(prog, Fn(i))
  BY <1>1, <1>2 DEF RunInv, Chains, Machinery, Running, Fn
<1>5. QED
  BY <1>2, <1>3, <1>4 DEF RunInv, Current, Unharmed, UnharmedIn

LEMMA RunTransparent ==
  ASSUME RunInv, [Next]_vars, Depth > 0, stack[Depth].irq, Len(stack') < Depth
  PROVE  /\ bank' = stack[Depth].at.bank
         /\ \A r \in Res : mem'[CellOf(stack[Depth].at.bank, r)]
                             = stack[Depth].at.mem[CellOf(stack[Depth].at.bank, r)]
<1>1. TypeInv /\ Depth \in Nat /\ Depth \in 1 .. Depth
  BY DEF RunInv, Compiler, TypeInv, RunTypes, Depth
<1>2. CASE ReturnFromHandler
  <2>1. Depth > 1 /\ bank' = stack[Depth].at.bank
    BY <1>2 DEF ReturnFromHandler
  <2>2. Depth - 1 \in 1 .. Depth - 1
    BY <1>1, <2>1
  <2>3. stack[Depth].at.bank = Own(prog, Fn(Depth - 1)) /\ stack[Depth].at.bank \in Bank
    BY <1>1, TopTypes DEF RunInv, Links
  <2>4. ASSUME NEW r \in Res
        PROVE  /\ CellOf(stack[Depth].at.bank, r) \in Cell
               /\ CellOf(stack[Depth].at.bank, r) \notin PrivateOf(prog, prog.prio[Running])
    BY <1>2, <2>2, <2>3, CellFacts, HandlerReturns
  <2>5. QED
    BY <1>2, <2>1, <2>4, HandlerReturns
<1>3. CASE stack' = stack
  BY <1>1, <1>3 DEF Depth
<1>4. CASE \E f, irq, kept, m : Enter(f, irq, kept, m)
  <2>1. PICK a : stack' = Append(stack, a)
    BY <1>4 DEF Enter
  <2>2. Len(stack') = Depth + 1
    BY <1>1, <2>1 DEF Depth, TypeInv, RunTypes
  <2>3. QED
    BY <1>1, <2>2
<1>5. ~Return
  BY DEF Return
<1>6. StartMain \/ (\E g \in Func : Call(g) \/ CallIndirect(g))
      \/ (\E h \in Func : Interrupt(h)) => \E f, irq, kept, m : Enter(f, irq, kept, m)
  BY DEF StartMain, Call, CallIndirect, Interrupt
<1>7. \/ CheckRecursion
      \/ VisitRoot \/ VisitCallee \/ VisitDone
      \/ FixSummaries \/ Generate
      \/ (\E r \in Res : Write(r))
      \/ UNCHANGED vars
      => stack' = stack
  BY DEF CheckRecursion, VisitRoot, VisitCallee, VisitDone, FixSummaries, Generate,
         Write, vars, runVars
<1>8. QED
  BY <1>2, <1>3, <1>4, <1>5, <1>6, <1>7 DEF Next

LEMMA DisciplinedRun == DisciplinedSpec => []RunInv
BY InitRun, NextRun, PTL DEF DisciplinedSpec, DisciplinedInit

\* Values kept in registers across calls survive them, whatever handlers come
\* and go meanwhile, in every program whose banks agree.
THEOREM KeptValuesCorrect == DisciplinedSpec => []KeptValues
BY DisciplinedRun, RunKeptValues, PTL

\* Every handler is transparent to what it interrupts, in every program whose
\* banks agree.
THEOREM HandlersTransparent == DisciplinedSpec => Transparent
<1>1. RunInv /\ [Next]_vars =>
        [(Depth > 0 /\ stack[Depth].irq /\ Len(stack') < Depth) =>
           LET at == stack[Depth].at
           IN /\ bank' = at.bank
              /\ \A r \in Res :
                   mem'[CellOf(at.bank, r)] = at.mem[CellOf(at.bank, r)]]_vars
  BY RunTransparent
<1>2. DisciplinedSpec => [][Next]_vars
  BY PTL DEF DisciplinedSpec, DisciplinedInit
<1>3. QED
  BY <1>1, <1>2, DisciplinedRun, PTL DEF Transparent

\* Code runs in the bank it was compiled for, in every program whose banks agree.
THEOREM OwnBankCorrect == DisciplinedSpec => []OwnBank
BY DisciplinedRun, RunOwnBank, PTL

-----------------------------------------------------------------------------
(***************************************************************************)
(* The order in which functions are compiled (src/cg/program.rs, 591-632). *)
(* A function is listed when the bottom-up visit leaves it.  Each of its   *)
(* callees has been seen by then: it was left before, or the visit is      *)
(* still inside of it, and then it reaches its caller and is recursive.    *)
(***************************************************************************)
\* A callee is listed before its callers unless it is recursive.
Ordered ==
  /\ \A i, j \in 1 .. Len(path) : i <= j => Reaches(path[i], path[j])
  /\ \A i \in 1 .. Len(post) : \A g \in Callees(post[i]) :
       Recursive(g) \/ \E j \in 1 .. Len(post) : j < i /\ post[j] = g

\* The functions whose summary is fixed before any code is generated.
Summarised ==
  phase \in {"generate", "run"} =>
    \A f \in Func : f \in prog.naked \/ Recursive(f) => f \in known

-----------------------------------------------------------------------------
LEMMA ReachesItself ==
  ASSUME NEW f \in Func
  PROVE  Reaches(f, f)
BY DEF Reaches

LEMMA ReachesCallee ==
  ASSUME NEW f \in Func, NEW g \in Func, Reaches(f, g), NEW h \in Callees(g)
  PROVE  Reaches(f, h)
<1> SUFFICES ASSUME NEW S \in SUBSET Func, f \in S,
                    \A k \in S : Callees(k) \subseteq S
             PROVE  h \in S
  BY DEF Reaches
<1>1. g \in S
  BY DEF Reaches
<1>2. QED
  BY <1>1

\* A callee that reaches its caller is recursive.
LEMMA CalledBack ==
  ASSUME NEW f \in Func, NEW g \in Func, g \in Callees(f), Reaches(g, f)
  PROVE  Recursive(g)
<1>1. CASE f = g
  BY <1>1 DEF Recursive
<1>2. CASE f # g
  <2>1. Reaches(f, g)
    BY ReachesItself, ReachesCallee
  <2>2. QED
    BY <1>2, <2>1 DEF Recursive
<1>3. QED
  BY <1>1, <1>2

\* The call graph is the program's, which never changes.
LEMMA SameGraph ==
  ASSUME prog' = prog
  PROVE  /\ \A f : Callees(f)' = Callees(f)
         /\ \A f, g : Reaches(f, g)' <=> Reaches(f, g)
         /\ \A f : Recursive(f)' <=> Recursive(f)
<1>1. \A f : Callees(f)' = Callees(f)
  BY DEF Callees
<1>2. \A f, g : Reaches(f, g)' <=> Reaches(f, g)
  BY <1>1 DEF Reaches
<1>3. \A f : Recursive(f)' <=> Recursive(f)
  BY <1>1, <1>2 DEF Recursive
<1>4. QED
  BY <1>1, <1>2, <1>3

LEMMA ProgStays == ASSUME [Next]_vars PROVE prog' = prog
BY DEF Next, vars, CheckRecursion, VisitRoot, VisitCallee, VisitDone, FixSummaries,
       Generate, StartMain, Write, Call, CallIndirect, Return, Interrupt,
       ReturnFromHandler

-----------------------------------------------------------------------------
LEMMA RootOrdered ==
  ASSUME TypeInv, Ordered, VisitRoot
  PROVE  Ordered'
<1>1. PICK f \in Func : path' = <<f>>
  BY DEF VisitRoot
<1>2. prog' = prog /\ post' = post /\ Len(path') = 1 /\ path'[1] = f
  BY <1>1 DEF VisitRoot
<1>3. \A i, j \in 1 .. Len(path') : i <= j => Reaches(path'[i], path'[j])
  BY <1>2, ReachesItself
<1>4. QED
  BY <1>2, <1>3, SameGraph DEF Ordered

LEMMA CalleeOrdered ==
  ASSUME TypeInv, Ordered, VisitCallee
  PROVE  Ordered'
<1>1. /\ path \in Seq(Func) /\ path # << >> /\ post' = post /\ prog' = prog
  BY DEF VisitCallee, TypeInv, VisitTypes
<1>2. PICK g \in Callees(path[Len(path)]) : path' = Append(path, g)
  BY DEF VisitCallee
<1>3. Len(path) \in 1 .. Len(path) /\ path[Len(path)] \in Func
  BY <1>1, PrefixTyped
<1>4. g \in Func
  BY <1>3, ProgTypes DEF TypeInv
<1>5. /\ Len(path') = Len(path) + 1 /\ path'[Len(path) + 1] = g
      /\ \A i \in 1 .. Len(path) : path'[i] = path[i]
  BY <1>1, <1>2, <1>4, AppendProperties
<1>6. ASSUME NEW i \in 1 .. Len(path'), NEW j \in 1 .. Len(path'), i <= j
      PROVE  Reaches(path'[i], path'[j])
  <2>1. CASE j \in 1 .. Len(path)
    <3>1. i \in 1 .. Len(path)
      BY <1>6, <2>1
    <3>2. QED
      BY <1>5, <1>6, <2>1, <3>1 DEF Ordered
  <2>2. CASE i \in 1 .. Len(path) /\ j = Len(path) + 1
    <3>1. Reaches(path[i], path[Len(path)])
      BY <1>3, <2>2 DEF Ordered
    <3>2. path[i] \in Func
      BY <1>1, <2>2, ElementOfSeq
    <3>3. Reaches(path[i], g)
      BY <1>3, <3>1, <3>2, ReachesCallee
    <3>4. QED
      BY <1>5, <2>2, <3>3
  <2>3. CASE i = Len(path) + 1 /\ j = Len(path) + 1
    BY <1>4, <1>5, <2>3, ReachesItself
  <2>4. QED
    BY <1>3, <1>5, <1>6, <2>1, <2>2, <2>3
<1>7. QED
  BY <1>1, <1>6, SameGraph DEF Ordered

\* The visit leaves a function all of whose callees have been seen.
LEMMA DoneOrdered ==
  ASSUME TypeInv, Visited, Ordered, VisitDone
  PROVE  Ordered'
<1> DEFINE d == path[Len(path)]
<1>1. /\ path \in Seq(Func) /\ post \in Seq(Func) /\ path # << >>
      /\ prog' = prog /\ Callees(d) \subseteq seen
      /\ post' = Append(post, d) /\ path' = SubSeq(path, 1, Len(path) - 1)
  BY DEF VisitDone, TypeInv, VisitTypes
<1>2. /\ Len(path) \in 1 .. Len(path) /\ d \in Func
      /\ Len(path') = Len(path) - 1
      /\ \A i \in 1 .. Len(path') : i \in 1 .. Len(path) /\ path'[i] = path[i]
  BY <1>1, PrefixTyped
<1>3. /\ Len(post) \in Nat /\ Len(post') = Len(post) + 1
      /\ post'[Len(post) + 1] = d
      /\ \A i \in 1 .. Len(post) : post'[i] = post[i]
  BY <1>1, <1>2, AppendProperties
<1>4. ASSUME NEW g \in Callees(d)
      PROVE  Recursive(g) \/ \E j \in 1 .. Len(post) : post[j] = g
  <2>1. g \in Func /\ g \in seen
    BY <1>1, <1>2, ProgTypes DEF TypeInv
  <2>2. CASE \E i \in 1 .. Len(path) : path[i] = g
    <3>1. PICK i \in 1 .. Len(path) : path[i] = g
      BY <2>2
    <3>2. Reaches(g, d)
      BY <1>2, <3>1 DEF Ordered
    <3>3. QED
      BY <1>2, <2>1, <3>2, CalledBack
  <2>3. QED
    BY <2>1, <2>2 DEF Visited
<1>5. \A i, j \in 1 .. Len(path') : i <= j => Reaches(path'[i], path'[j])
  BY <1>2 DEF Ordered
<1>6. ASSUME NEW i \in 1 .. Len(post'), NEW g \in Callees(post'[i])
      PROVE  Recursive(g) \/ \E j \in 1 .. Len(post') : j < i /\ post'[j] = g
  <2>1. CASE i \in 1 .. Len(post)
    <3>1. Recursive(g) \/ \E j \in 1 .. Len(post) : j < i /\ post[j] = g
      BY <1>3, <1>6, <2>1 DEF Ordered
    <3>2. QED
      BY <1>3, <3>1
  <2>2. CASE i = Len(post) + 1
    <3>1. Recursive(g) \/ \E j \in 1 .. Len(post) : post[j] = g
      BY <1>3, <1>4, <1>6, <2>2
    <3>2. QED
      BY <1>3, <2>2, <3>1
  <2>3. QED
    BY <1>3, <1>6, <2>1, <2>2
<1>7. QED
  BY <1>1, <1>5, <1>6, SameGraph DEF Ordered

LEMMA NextOrdered ==
  ASSUME TypeInv, Visited, Ordered, [Next]_vars
  PROVE  Ordered'
<1>1. CASE VisitRoot \/ VisitCallee \/ VisitDone
  BY <1>1, RootOrdered, CalleeOrdered, DoneOrdered
<1>2. CASE UNCHANGED <<prog, path, post>>
  BY <1>2, SameGraph DEF Ordered
<1>3. QED
  BY <1>1, <1>2
     DEF Next, vars, visitVars, CheckRecursion, FixSummaries, Generate, StartMain,
         Write, Call, CallIndirect, Return, Interrupt, ReturnFromHandler

LEMMA NextSummarised ==
  ASSUME Summarised, [Next]_vars
  PROVE  Summarised'
<1>1. CASE FixSummaries
  BY <1>1, SameGraph DEF FixSummaries, Summarised
<1>2. CASE Generate
  BY <1>2, SameGraph DEF Generate, Summarised
<1>3. CASE CheckRecursion \/ VisitRoot \/ VisitCallee \/ VisitDone
  BY <1>3 DEF CheckRecursion, VisitRoot, VisitCallee, VisitDone, Summarised
<1>4. CASE UNCHANGED known /\ (phase' = phase \/ phase = "generate")
  BY <1>4, ProgStays, SameGraph DEF Summarised
<1>5. QED
  BY <1>1, <1>2, <1>3, <1>4
     DEF Next, vars, genVars, StartMain, Write, Call, CallIndirect, Return, Interrupt,
         ReturnFromHandler

-----------------------------------------------------------------------------
OrderInv == TypeInv /\ Visited /\ Conventions /\ Ordered /\ Summarised

LEMMA InitOrder == Init => OrderInv
<1>1. Init => Ordered
  BY EmptySeq DEF Init, Ordered
<1>2. Init => Summarised
  BY DEF Init, Summarised
<1>3. QED
  BY <1>1, <1>2, InitTypes, InitVisited, InitConventions DEF OrderInv

LEMMA NextOrder == OrderInv /\ [Next]_vars => OrderInv'
BY NextTypes, NextConventions, NextOrdered, NextSummarised DEF OrderInv

LEMMA OrderKnown == OrderInv => ConventionKnown
<1> SUFFICES ASSUME OrderInv, phase = "generate", next <= Len(post),
                    NEW g \in prog.calls[post[next]]
             PROVE  g \in known
  BY DEF ConventionKnown
<1>1. next \in 1 .. Len(post) /\ post[next] \in Func
  BY ElementOfSeq DEF OrderInv, TypeInv, VisitTypes, GenTypes
<1>2. g \in Callees(post[next]) /\ g \in Func
  BY <1>1, ProgTypes DEF OrderInv, TypeInv, Callees
<1>3. CASE Recursive(g)
  BY <1>2, <1>3 DEF OrderInv, Summarised
<1>4. CASE \E j \in 1 .. Len(post) : j < next /\ post[j] = g
  <2>1. Done(g)
    BY <1>4 DEF Done
  <2>2. QED
    BY <1>2, <2>1 DEF OrderInv, Conventions, Compiled
<1>5. QED
  BY <1>1, <1>2, <1>3, <1>4 DEF OrderInv, Ordered

\* In every call graph, and from every order of visits, the convention of each
\* callee is known when a function is compiled: the bottom-up visit leaves a
\* callee for later only inside a cycle, and what is in a cycle has its
\* summary before any code is generated.
THEOREM ConventionIsKnown == Spec => []ConventionKnown
BY InitOrder, NextOrder, OrderKnown, PTL DEF Spec
=============================================================================
