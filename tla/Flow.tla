-------------------------------- MODULE Flow --------------------------------
(***************************************************************************)
(* The passes over the control-flow graph: simplification (src/opt/cfg.rs),*)
(* propagation of copies and constants (dataflow.rs), dead code (dce.rs)   *)
(* and sinking (sink.rs).                                                  *)
(***************************************************************************)
EXTENDS Ir, SequencesExt

WithTerms(f, Op(_)) ==
  WithBlocks(f, LAMBDA b : [f.blocks[b] EXCEPT !.term = Op(b)])

(* Simplification of the graph. *)

CaseFor(t, k) ==
  LET hits == {n \in DOMAIN t.cases : t.cases[n][1] = k}
  IN IF hits = {} THEN t.e ELSE t.cases[Min(hits)][2]

FoldTerm(t) ==
  LET goto(r) == Jmp(IF r THEN t.t ELSE t.e)
      k == Norm(t.ty, t.a[2])
  IN CASE t.op = "br" /\ IsConst(t.a) -> goto(t.a[2] # 0)
       [] t.op \in {"br", "cmpbr"} /\ ~(t.op = "br" /\ IsConst(t.a)) /\ t.t = t.e -> Jmp(t.t)
       [] t.op = "cmpbr" /\ t.t # t.e ->
            IF IsConst(t.a) /\ IsConst(t.b) THEN goto(Holds(t.k, t.a[2], t.b[2], t.ty))
            ELSE IF t.a = t.b THEN goto(t.k \in {"eq", "les", "leu", "ges", "geu"})
            ELSE IF t.b = K(0) /\ t.k \in {"geu", "ltu"} THEN goto(t.k = "geu")
            ELSE t
       [] t.op = "switch" ->
            IF IsConst(t.a) THEN Jmp(CaseFor(t, k))
            ELSE IF \A n \in DOMAIN t.cases : t.cases[n][2] = t.e THEN Jmp(t.e)
            ELSE [t EXCEPT !.cases = SelectSeq(@, LAMBDA c : c[2] # t.e)]
       [] OTHER -> t
FoldTerms(f) == WithTerms(f, LAMBDA b : FoldTerm(f.blocks[b].term))

\* Mutant: a walk in a circle ends where it happens to be.
RECURSIVE ResolveTired(_, _, _)
ResolveTired(f, b, steps) ==
  LET t == f.blocks[b].term
  IN IF b = 1 \/ Insts(f, b) # <<>> \/ t.op # "jmp" \/ t.t = b \/ steps > Len(f.blocks)
     THEN {b} ELSE ResolveTired(f, t.t, steps + 1)

\* Where a jump to b really goes: through blocks that only jump on, unless they
\* jump in a circle.
RECURSIVE Resolve(_, _, _)
Resolve(f, b, steps) ==
  LET t == f.blocks[b].term
  IN IF b = 1 \/ Insts(f, b) # <<>> \/ t.op # "jmp" \/ t.t = b THEN {b}
     ELSE IF steps > Len(f.blocks) THEN {}
     ELSE Resolve(f, t.t, steps + 1)
Forwarded(f, b) ==
  LET r == Resolve(f, b, 0) IN IF r = {} THEN b ELSE CHOOSE x \in r : TRUE

\* A jump to a block that only returns becomes a return.
ReturnAt(f, t) ==
  IF /\ t.op = "jmp" /\ f.plain
     /\ Insts(f, t.t) = <<>> /\ f.blocks[t.t].term.op = "ret"
  THEN f.blocks[t.t].term ELSE t

ThreadJumps(f) ==
  LET g == WithTerms(f, LAMBDA b : MapSuccs(f.blocks[b].term, LAMBDA s : Forwarded(f, s)))
  IN WithTerms(g, LAMBDA b : ReturnAt(g, g.blocks[b].term))

\* The constant that the value v is at the end of block p: {it}, or {}.
KnownAtEnd(f, p, v) ==
  LET defs == {i \in DOMAIN Insts(f, p) : Insts(f, p)[i].d = v[2]}
      last == Insts(f, p)[Max(defs)]
  IN IF IsConst(v) THEN {v[2]}
     ELSE IF ~IsReg(v) \/ defs = {} THEN {}
     ELSE IF last.op = "copy" /\ IsConst(last.a) THEN {last.a[2]} ELSE {}

\* A jump to a block that only tests values known here goes where the test goes.
ThreadKnownAt(f, p) ==
  LET t == f.blocks[p].term
      h == f.blocks[t.t].term
      known == KnownAtEnd(f, p, h.a) \X KnownAtEnd(f, p, IF h.op = "br" THEN K(0) ELSE h.b)
      kk == CHOOSE x \in known : TRUE
      goes == IF h.op = "br" THEN kk[1] # 0 ELSE Holds(h.k, kk[1], kk[2], h.ty)
  IN IF /\ t.op = "jmp" /\ t.t # p /\ Insts(f, t.t) = <<>>
        /\ h.op \in {"br", "cmpbr"} /\ known # {}
     THEN Jmp(IF goes THEN h.t ELSE h.e) ELSE t
RECURSIVE ThreadKnownFrom(_, _)
ThreadKnownFrom(f, p) ==
  IF p > Len(f.blocks) THEN f
  ELSE ThreadKnownFrom([f EXCEPT !.blocks[p].term = ThreadKnownAt(f, p)], p + 1)
ThreadKnown(f) == ThreadKnownFrom(f, 1)

RemoveUnreachable(f) ==
  LET live == Reachable(f)
      number(b) == Cardinality({c \in live : c <= b})
      nth(n) == CHOOSE b \in live : number(b) = n
  IN IF live = Blocks(f) THEN f
     ELSE [f EXCEPT !.blocks = Tuple([n \in 1 .. Cardinality(live) |->
             [@[nth(n)] EXCEPT !.term = MapSuccs(@, number)]])]

\* Join a block with the only one that jumps to it, as long as there is one.
RECURSIVE MergeBlocks(_)
MergeBlocks(f) ==
  LET into(i) == f.blocks[i].term.t
      can == {i \in Blocks(f) : /\ f.blocks[i].term.op = "jmp" /\ into(i) \notin {i, 1}
                                /\ Cardinality(Preds(f, into(i))) = 1}
      i == Min(can)
      t == f.blocks[into(i)]
  IN IF can = {} THEN f
     ELSE MergeBlocks(RemoveUnreachable(
            [f EXCEPT !.blocks = [@ EXCEPT ![i] = Block(Insts(f, i) \o t.insts, t.term),
                                           ![into(i)] = Block(<<>>, Unreachable)]]))

\* One turn of the loop of cfg::simplify.
SimplifyOnce(f) == MergeBlocks(RemoveUnreachable(ThreadKnown(ThreadJumps(FoldTerms(f)))))

-----------------------------------------------------------------------------
(* Propagation. *)

\* What the extension of a register that holds the constant k yields.
ExtendedConst(from, to, k, signed) ==
  IF signed /\ from # Bit THEN Norm(to, Sext(from, k)) ELSE Norm(to, Norm(from, k))

SubstInst(f, i, from, to) ==
  LET put(v) == IF v = R(from) THEN to ELSE v
  IN IF i.op = "ext" /\ i.a = R(from) /\ IsConst(to)
     THEN Copy(i.d, K(ExtendedConst(f.vty[from], f.vty[i.d], to[2], i.sg)))
     ELSE IF i.op = "critexit" /\ i.a = R(from) /\ IsReg(to) THEN CritExit(to[2])
     ELSE MapVals(i, put)

ReplaceUses(f, from, to) ==
  LET put(v) == IF v = R(from) THEN to ELSE v
  IN WithBlocks(f, LAMBDA b :
        Block(Tuple([i \in DOMAIN Insts(f, b) |-> SubstInst(f, Insts(f, b)[i], from, to)]),
              MapTermVals(f.blocks[b].term, put)))

\* Copies of constants and of registers of the same kind, by their places.
SsaCopies(f) ==
  SelectSeq(FlattenSeq([b \in Blocks(f) |-> Insts(f, b)]),
    LAMBDA i : /\ i.op = "copy" /\ Ssa(f, i.d)
               /\ IsReg(i.a) => /\ Ssa(f, i.a[2]) /\ i.a # R(i.d)
                                /\ f.vty[i.a[2]] = f.vty[i.d])

\* CritExit needs a register: a constant is not put in its place.
UsedByCrit(f, v) == \E p \in Places(f) : Insts(f, p[1])[p[2]] = CritExit(v)

RECURSIVE PropagateAll(_, _)
PropagateAll(f, work) ==
  IF work = <<>> THEN f
  ELSE LET c == Head(work)
       IN PropagateAll(IF IsConst(c.a) /\ UsedByCrit(f, c.d) THEN f
                       ELSE ReplaceUses(f, c.d, c.a), Tail(work))

\* Within a block, also through registers with several definitions.  copies: what
\* each register is a copy of at this point.
ValueOf(copies, v) ==
  LET hits == {c \in copies : IsReg(v) /\ c[1] = v[2]}
  IN IF hits = {} THEN v ELSE (CHOOSE c \in hits : TRUE)[2]

LocalInst(f, ins, copies) ==
  LET v == ValueOf(copies, ins.a)
  IN IF ins.op = "ext" /\ IsReg(ins.a) /\ IsConst(v)
     THEN Copy(ins.d, K(ExtendedConst(f.vty[ins.a[2]], f.vty[ins.d], v[2], ins.sg)))
     ELSE MapVals(ins, LAMBDA x : ValueOf(copies, x))

CopiesAfter(copies, ins) ==
  LET kept == {c \in copies : c[1] # ins.d /\ c[2] # R(ins.d)}
  IN IF ins.d = 0 THEN copies
     ELSE IF ins.op = "copy" /\ ins.a # R(ins.d) THEN kept \cup {<<ins.d, ins.a>>} ELSE kept

RECURSIVE LocalCopies(_, _, _, _)
LocalCopies(f, b, i, copies) ==
  IF i > Len(Insts(f, b))
  THEN [f EXCEPT !.blocks[b].term = MapTermVals(@, LAMBDA x : ValueOf(copies, x))]
  ELSE LET ins == LocalInst(f, Insts(f, b)[i], copies)
       IN LocalCopies(SetInst(f, b, i, ins), b, i + 1, CopiesAfter(copies, ins))

RECURSIVE PropagateLocal(_, _)
PropagateLocal(f, b) ==
  IF b > Len(f.blocks) THEN f ELSE PropagateLocal(LocalCopies(f, b, 1, {}), b + 1)

\* v = copy t, where t is a temporary of this block read nowhere else: define v directly.
CoalesceFrom(f, b, i) ==
  LET insts == Insts(f, b)
      ins == insts[i]
      v == ins.d
      t == ins.a[2]
      defs == {j \in 1 .. i - 1 : insts[j].d = t}
      j == Max(defs)
  IN IF /\ ins.op = "copy" /\ IsReg(ins.a) /\ v # t
        /\ NumUses(f, t) = 1 /\ NumDefs(f, t) = 1 /\ f.vty[t] = f.vty[v]
        /\ defs # {}
        /\ \A m \in j + 1 .. i - 1 : insts[m].d # v /\ v \notin Reads(insts[m])
     THEN {j} ELSE {}

RECURSIVE Coalesce(_, _, _)
Coalesce(f, b, i) ==
  IF b > Len(f.blocks) THEN f
  ELSE IF i > Len(Insts(f, b)) THEN Coalesce(f, b + 1, 1)
  ELSE LET from == CoalesceFrom(f, b, i)
       IN IF from = {} THEN Coalesce(f, b, i + 1)
          ELSE Coalesce([f EXCEPT !.blocks[b].insts =
                           RemoveAt([@ EXCEPT ![Max(from)].d = Insts(f, b)[i].d], i)], b, i)

Propagate(f) == Coalesce(PropagateLocal(PropagateAll(f, SsaCopies(f)), 1), 1, 1)

-----------------------------------------------------------------------------
(* Liveness and dead code. *)

\* Registers live before an instruction, given those live after it.
Before(ins, live) == (live \ {ins.d}) \cup Reads(ins)
RECURSIVE LiveFrom(_, _, _)
LiveFrom(insts, i, live) ==
  IF i > Len(insts) THEN live ELSE Before(insts[i], LiveFrom(insts, i + 1, live))

RECURSIVE LiveFixpoint(_, _)
LiveFixpoint(f, liveIn) ==
  LET out(b) == UNION {liveIn[s] : s \in Succ(f, b)}
      next == Tuple([b \in 1 .. Len(f.blocks) |->
                 LiveFrom(Insts(f, b), 1, out(b) \cup TermReads(f.blocks[b].term))])
  IN IF next = liveIn THEN liveIn ELSE LiveFixpoint(f, next)
LiveIn(f) == LiveFixpoint(f, Tuple([b \in 1 .. Len(f.blocks) |-> {}]))

AtEnd(f, liveIn, b) ==
  (UNION {liveIn[s] : s \in Succ(f, b)}) \cup TermReads(f.blocks[b].term)

Dead(ins, live) ==
  \/ ins.d # 0 /\ ins.d \notin live /\ ~HasSideEffects(ins)
  \/ ins.op = "nop"
  \/ ins.op = "copy" /\ ins.a = R(ins.d)

\* Backwards through a block: what to keep of it.
RECURSIVE Kept(_, _)
Kept(insts, live) ==
  IF insts = <<>> THEN <<>>
  ELSE LET ins == Last(insts)
       IN IF Dead(ins, live) THEN Kept(Front(insts), live)
          ELSE Append(Kept(Front(insts), Before(ins, live)), ins)

\* The result of a call that nobody reads is dropped.
DropResults(insts, live) ==
  Tuple([i \in DOMAIN insts |->
     IF insts[i].op = "call" /\ insts[i].d \notin LiveFrom(insts, i + 1, live)
     THEN [insts[i] EXCEPT !.d = 0] ELSE insts[i]])

WithInsts(f, Op(_, _)) ==
  LET in == LiveIn(f)
  IN WithBlocks(f, LAMBDA b : [f.blocks[b] EXCEPT !.insts = Op(@, AtEnd(f, in, b))])

\* One turn of the loop of dce::run.
DeadOnce(f) == WithInsts(WithInsts(f, Kept), DropResults)

-----------------------------------------------------------------------------
(* Sinking. *)

Movable(ins) == ins.op \in {"copy", "bin", "un", "ext", "trunc", "cmp"}

\* The successor that block b's instruction i may move to: {it}, or {}.
SinkTo(f, in, b, i) ==
  LET insts == Insts(f, b)
      ins == insts[i]
      t == f.blocks[b].term
      succs == Succs(t)
      wanted == {n \in DOMAIN succs : ins.d \in in[succs[n]]}
      s == succs[Min(wanted)]
      after == {insts[j] : j \in i + 1 .. Len(insts)}
  IN IF /\ Movable(ins)
        /\ \A x \in after : ins.d \notin Reads(x)
        /\ ins.d \notin TermReads(t)
        /\ Cardinality(wanted) = 1
        /\ Cardinality(Preds(f, s)) = 1 /\ s # b
        /\ Reads(ins) \cap ({x.d : x \in after} \cup {ins.d}) = {}
     THEN {s} ELSE {}

\* All that block b can give away goes to the front of the successors, in order.
SinkBlock(f, in, b) ==
  LET goes == Tuple([i \in DOMAIN Insts(f, b) |-> SinkTo(f, in, b, i)])
      picked(P(_)) == LET keep == SelectSeq([i \in DOMAIN goes |-> i], LAMBDA i : P(goes[i]))
                      IN Tuple([n \in DOMAIN keep |-> Insts(f, b)[keep[n]]])
  IN IF Len(Succs(f.blocks[b].term)) < 2 THEN f
     ELSE WithBlocks(f, LAMBDA c : [f.blocks[c] EXCEPT !.insts =
             IF c = b THEN picked(LAMBDA s : s = {}) ELSE picked(LAMBDA s : s = {c}) \o @])

RECURSIVE SinkFrom(_, _, _)
SinkFrom(f, in, b) ==
  IF b > Len(f.blocks) THEN f ELSE SinkFrom(SinkBlock(f, in, b), in, b + 1)
Sink(f) == SinkFrom(f, LiveIn(f), 1)
=============================================================================
