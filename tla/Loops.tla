-------------------------------- MODULE Loops --------------------------------
(***************************************************************************)
(* Loop rewrites (src/opt/loops.rs), and inlining of one call              *)
(* (src/opt/inline.rs).                                                    *)
(***************************************************************************)
EXTENDS Ir, SequencesExt

\* Blocks of the natural loop of the back edge latch -> header.
RECURSIVE Backwards(_, _, _)
Backwards(f, body, work) ==
  LET more == (UNION {Preds(f, b) : b \in work}) \ body
  IN IF more = {} THEN body ELSE Backwards(f, body \cup more, more)
LoopBlocks(f, header, latch) ==
  Backwards(f, {header, latch}, {latch} \ {header})

\* The block that the loop closed by the terminator of b starts at: {it}, or {}.
\* stay: conditions under which the taken branch stays in the loop.
Header(f, b, stay) ==
  LET t == f.blocks[b].term
      taken == t.op = "cmpbr" /\ t.k \in stay
      other == t.op = "cmpbr" /\ Negate(t.k) \in stay
  IN IF t.op = "cmpbr" /\ IsReg(t.a) /\ IsConst(t.b)
     THEN {h \in {t.t, t.e} : /\ Dominates(f, h, b)
                              /\ (taken /\ h = t.t) \/ (other /\ h = t.e)}
     ELSE {}

\* Only one block outside the loop jumps to its header.
OneEntry(f, header, body) == Cardinality(Preds(f, header) \ body) = 1

\* Inside the loop v is only stepped by one, in the latch; outside it starts at a
\* constant that Start accepts.
Counts(f, body, latch, v, Start(_)) ==
  LET Step(i) == i = Bin("add", v, R(v), K(1))
  IN /\ \A p \in Defs(f, v) :
          LET i == Insts(f, p[1])[p[2]]
          IN IF p[1] \in body THEN p[1] = latch /\ Step(i)
             ELSE i.op = "copy" /\ IsConst(i.a) /\ Start(i.a[2])
     /\ ~IsParam(f, v)
     /\ Cardinality({p \in Defs(f, v) : p[1] \in body}) = 1

\* Every definition outside must start the counter below the bound.
CountsTo(f, body, latch, v, k, signed) ==
  LET t == f.vty[v]
  IN Counts(f, body, latch, v,
       LAMBDA c : IF signed THEN Sext(t, c) < Sext(t, k) ELSE Norm(t, c) < Norm(t, k))

\* v < k at the end of a loop becomes v # k.
LoopTest(f, b) ==
  LET t == f.blocks[b].term
      hs == Header(f, b, {"ltu", "lts"})
      h == CHOOSE x \in hs : TRUE
      body == LoopBlocks(f, h, b)
  IN IF /\ hs # {}
        /\ ~(h = b /\ Insts(f, b) = <<>>)
        /\ OneEntry(f, h, body)
        /\ CountsTo(f, body, b, t.a[2], t.b[2], t.k \in SignedConds)
     THEN [t EXCEPT !.k = IF t.k \in {"ltu", "lts"} THEN "ne" ELSE "eq"]
     ELSE t
LoopTests(f) ==
  WithBlocks(f, LAMBDA b : [f.blocks[b] EXCEPT !.term = LoopTest(f, b)])

(* Strength reduction: a counter that is only ever used as v + base becomes *)
(* that sum.                                                                *)

OffsetUse(i, v) == i.op = "bin" /\ i.k = "add" /\ i.a = R(v) /\ i.d # v

\* The constants that v is offset by at its uses in the loop; Nil for a use of another form.
Offsets(f, body, latch, v) ==
  {LET i == IF u[2] <= Len(Insts(f, u[1])) THEN Insts(f, u[1])[u[2]] ELSE Nop
   IN IF i = Bin("add", v, R(v), K(1)) \/ (i = Nop /\ u[1] = latch) THEN K(0)
      ELSE IF OffsetUse(i, v) /\ u[1] \in body /\ u[3] = 1 THEN <<"by", i.b>> ELSE Nil
   : u \in Uses(f, v)}

Reducible(f, b) ==
  LET t == f.blocks[b].term
      hs == Header(f, b, {"ne"})
      body == LoopBlocks(f, CHOOSE x \in hs : TRUE, b)
      offsets == Offsets(f, body, b, t.a[2]) \ {K(0)}
  IN /\ hs # {}
     /\ OneEntry(f, CHOOSE x \in hs : TRUE, body)
     /\ Counts(f, body, b, t.a[2], LAMBDA c : TRUE)
     /\ Cardinality(offsets) = 1 /\ Nil \notin offsets
     /\ \A o \in offsets : IsConst(o[2])

\* The starting values and the bound move by the same offset.
ReduceAt(f, b) ==
  LET t == f.blocks[b].term
      v == t.a[2]
      base == LET u == CHOOSE u \in Uses(f, v) : /\ u[2] <= Len(Insts(f, u[1]))
                                                 /\ OffsetUse(Insts(f, u[1])[u[2]], v)
              IN Insts(f, u[1])[u[2]].b[2]
      shift(c) == K(Norm(t.ty, c + base))
      new(i) == IF i.op = "copy" /\ i.d = v /\ IsConst(i.a) THEN Copy(v, shift(i.a[2]))
                ELSE IF OffsetUse(i, v) THEN Copy(i.d, R(v)) ELSE i
  IN WithBlocks(f, LAMBDA c :
        Block(Tuple([n \in DOMAIN Insts(f, c) |-> new(Insts(f, c)[n])]),
              IF c = b THEN [t EXCEPT !.b = shift(@[2])] ELSE f.blocks[c].term))

RECURSIVE ReduceFrom(_, _)
ReduceFrom(f, b) ==
  IF b > Len(f.blocks) THEN f
  ELSE ReduceFrom(IF Reducible(f, b) THEN ReduceAt(f, b) ELSE f, b + 1)
Reduce(f) == ReduceFrom(f, 1)

-----------------------------------------------------------------------------
(* Inlining of the call at instruction i of block b. *)

InlineCall(f, b, i, callee) ==
  LET call == Insts(f, b)[i]
      cont == Len(f.blocks) + 1
      baseV == Len(f.vty)
      mapV(v) == IF IsReg(v) THEN R(v[2] + baseV) ELSE v
      mapB(c) == c + cont
      inst(x) == LET y == MapVals(x, mapV)
                 IN [y EXCEPT !.d = IF @ = 0 THEN 0 ELSE @ + baseV,
                              !.a = IF x.op = "critexit" THEN mapV(@) ELSE @]
      body(c) ==
        LET t == callee.blocks[c].term
            insts == Tuple([n \in DOMAIN Insts(callee, c) |-> inst(Insts(callee, c)[n])])
            result == mapV(t.a)
        IN IF t.op # "ret" THEN Block(insts, MapSuccs(MapTermVals(t, mapV), mapB))
           ELSE Block(insts \o (IF call.d # 0 /\ t.a # Nil THEN <<Copy(call.d, result)>> ELSE <<>>),
                      Jmp(cont))
      params == Tuple([n \in DOMAIN callee.params |->
                   Copy(callee.params[n] + baseV,
                        IF n <= Len(call.args) THEN call.args[n] ELSE K(0))])
      head == Block(SubSeq(Insts(f, b), 1, i - 1) \o params, Jmp(mapB(1)))
      tail == Block(SubSeq(Insts(f, b), i + 1, Len(Insts(f, b))), f.blocks[b].term)
  IN [f EXCEPT !.vty = @ \o callee.vty,
               !.blocks = [@ EXCEPT ![b] = head] \o <<tail>>
                            \o [c \in DOMAIN callee.blocks |-> body(c)]]
=============================================================================
