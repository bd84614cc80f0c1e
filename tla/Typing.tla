------------------------------- MODULE Typing -------------------------------
(***************************************************************************)
(* How the parser types expressions and statements: integer promotions,    *)
(* usual conversions, the casts it inserts and the constants it folds      *)
(* (src/parse/expr.rs, consteval.rs, stmt.rs, src/types.rs), and where it  *)
(* puts the fields of a structure (src/parse/mod.rs).                      *)
(*                                                                         *)
(* The grammar is left out: a program is the tree the grammar calls for,   *)
(* and typing turns it into the tree that is lowered.  Only integers.      *)
(***************************************************************************)
EXTENDS Ir, SequencesExt

\* Kinds of integers; a plain char is unsigned.
Kind == [bit |-> "bit", bool |-> "bool", char |-> "char", schar |-> "char", short |-> "short",
         ushort |-> "short", int |-> "int", uint |-> "int", long |-> "long", ulong |-> "long"]
SignedTypes == {"schar", "short", "int", "long"}
TypeNames == DOMAIN Kind
Rank(ty) == [bit |-> 0, bool |-> 0, char |-> 1, short |-> 2, int |-> 3, long |-> 4][Kind[ty]]
IntSize(ty) == [bit |-> 1, bool |-> 1, char |-> 1, short |-> 2, int |-> 2, long |-> 4][Kind[ty]]
IsBool(ty) == ty \in {"bit", "bool"}
IntBits(ty) == IF IsBool(ty) THEN 1 ELSE IntSize(ty) * I8
WithSign(ty, signed) ==
  CHOOSE t \in TypeNames : Kind[t] = Kind[ty] /\ ((t \in SignedTypes) = signed)

(* Expressions: form, operator, type, number, name, parts, operation type.  *)
Node(e, op, ty, n, x, k, oty) == [e |-> e, op |-> op, ty |-> ty, n |-> n, x |-> x, k |-> k, oty |-> oty]
Lit(n, ty) == Node("int", "", ty, n, "", <<>>, "")
Var(x) == Node("var", "", "", 0, x, <<>>, "")
Unary(op, a) == Node("un", op, "", 0, "", <<a>>, "")          \* + - ~ !
Binary(op, a, b) == Node("bin", op, "", 0, "", <<a, b>>, "")
Assign(a, b) == Node("assign", "", "", 0, "", <<a, b>>, "")
Compound(op, a, b) == Node("comp", op, "", 0, "", <<a, b>>, "")
IncDec(a, d, post) == Node("incdec", IF post THEN "post" ELSE "pre", "", d, "", <<a>>, "")
Cond(c, a, b) == Node("cond", "", "", 0, "", <<c, a, b>>, "")
Elvis(c, b) == Node("elvis", "", "", 0, "", <<c, b>>, "")     \* c ?: b
Comma(a, b) == Node("comma", "", "", 0, "", <<a, b>>, "")
Cast(ty, a) == Node("cast", "", ty, 0, "", <<a>>, "")
CallOf(g, args) == Node("call", "", "", 0, g, args, "")

IsInt(e) == e.e = "int"
Comparisons == {"==", "!=", "<", "<=", ">", ">="}

-----------------------------------------------------------------------------
(* Folding of constants. *)

NormBits(v, bits, signed) == IF signed THEN Sext(bits, v) ELSE Norm(bits, v)
NormInt(v, ty) ==
  IF IsBool(ty) THEN AsInt(v # 0) ELSE NormBits(v, IntBits(ty), ty \in SignedTypes)
FoldCast(v, to) == NormInt(v, to)
FoldUnary(op, v, ty) ==
  CASE op = "-" -> NormInt(-v, ty)
    [] op = "~" -> NormInt(-v - 1, ty)
    [] op = "!" -> AsInt(v = 0)

\* Bits the compiler computes in (64 in the code).
WideBits == 16

\* The result of a op b for operands of type ty: {it}, or {} for a division by zero.
FoldBinary(op, a, b, ty) ==
  LET signed == ty \in SignedTypes
      bits == IntBits(ty)
      ua == Norm(bits, a)
      ub == Norm(bits, b)
      holds == CASE op = "==" -> a = b
                 [] op = "!=" -> a # b
                 [] op = "<" -> IF signed THEN a < b ELSE ua < ub
                 [] op = "<=" -> IF signed THEN a <= b ELSE ua <= ub
                 [] op = ">" -> IF signed THEN a > b ELSE ua > ub
                 [] op = ">=" -> IF signed THEN a >= b ELSE ua >= ub
      far == b \notin 0 .. WideBits - 1
  IN IF op \in Comparisons THEN {AsInt(holds)}
     ELSE IF op \in {"/", "%"} /\ b = 0 THEN {}
     ELSE {NormBits(
        CASE op = "+" -> a + b
          [] op = "-" -> a - b
          [] op = "*" -> a * b
          [] op = "/" -> IF signed THEN Quotient(a, b) ELSE ua \div ub
          [] op = "%" -> IF signed THEN a - b * Quotient(a, b) ELSE ua % ub
          [] op = "<<" -> IF far THEN 0 ELSE a * 2 ^ b
          [] op = ">>" -> IF far THEN (IF signed /\ a < 0 THEN -1 ELSE 0)
                          ELSE (IF signed THEN a ELSE ua) \div 2 ^ b
          [] op = "&" -> And(a, b)
          [] op = "|" -> Or(And(a, -1), And(b, -1))
          [] op = "^" -> Xor(And(a, -1), And(b, -1)), bits, signed)}

\* The value of a typed expression that is constant: {it}, or {}.
RECURSIVE EvalConst(_)
EvalConst(e) ==
  LET v(i) == EvalConst(e.k[i])
      the(S) == CHOOSE x \in S : TRUE
      short == IF e.op = "&&" THEN 0 ELSE 1     \* the outcome that skips the right operand
      left == AsInt(the(v(1)) # 0)
  IN CASE IsInt(e) -> {e.n}
       [] e.e = "cast" /\ e.ty # "void" -> {NormInt(x, e.ty) : x \in v(1)}
       [] e.e = "un" -> {FoldUnary(e.op, x, e.ty) : x \in v(1)}
       [] e.e = "bin" /\ e.op \in {"&&", "||"} ->
            IF v(1) = {} THEN {} ELSE IF left = short THEN {short} ELSE {AsInt(x # 0) : x \in v(2)}
       [] e.e = "bin" /\ e.op \notin {"&&", "||"} ->
            IF v(1) = {} \/ v(2) = {} THEN {}
            ELSE FoldBinary(e.op, the(v(1)), the(v(2)),
                            IF e.op \in Comparisons THEN e.k[1].ty ELSE e.ty)
       [] e.e = "cond" -> IF v(1) = {} THEN {} ELSE IF the(v(1)) # 0 THEN v(2) ELSE v(3)
       [] e.e = "comma" -> v(2)
       [] OTHER -> {}

-----------------------------------------------------------------------------
(* Conversions. *)

PromotedType(ty) ==
  IF Rank(ty) >= Rank("int") THEN ty
  ELSE IF ty \notin SignedTypes /\ IntSize(ty) = IntSize("int") THEN "uint" ELSE "int"

\* A bit-field narrower than int promotes to int (n: its width, 0 for other variables).
PromotedExprType(e) ==
  IF e.e = "var" /\ e.n \in 1 .. IntBits("int") - 1 /\ ~IsBool(e.ty) THEN "int"
  ELSE PromotedType(e.ty)

\* Mutant: a signed type of higher rank always wins.
CommonTypeByRank(a, b) == IF Rank(a) >= Rank(b) THEN a ELSE b

CommonType(a, b) ==
  LET sa == a \in SignedTypes  sb == b \in SignedTypes
      u == IF sa THEN b ELSE a
      s == IF sa THEN a ELSE b
  IN IF sa = sb THEN IF Rank(a) >= Rank(b) THEN a ELSE b
     ELSE IF Rank(u) >= Rank(s) THEN u
     ELSE IF IntSize(s) > IntSize(u) THEN s
     ELSE WithSign(s, FALSE)

ConvRaw(e, ty) ==
  IF IsInt(e) /\ ty # "void" THEN Lit(FoldCast(e.n, ty), ty) ELSE Cast(ty, e)
Conv(e, ty) == IF e.ty = ty THEN e ELSE ConvRaw(e, ty)
Promote(e) == Conv(e, PromotedExprType(e))
ArithType(l, r) == CommonType(PromotedExprType(l), PromotedExprType(r))

-----------------------------------------------------------------------------
(* Expressions, from typed parts. *)

OfType(node, ty) == [node EXCEPT !.ty = ty]

\* The folded result if there is one, the operation otherwise.
FoldedOr(op, l, r, operandTy, ty) ==
  LET v == FoldBinary(op, l.n, r.n, operandTy)
  IN IF IsInt(l) /\ IsInt(r) /\ v # {} THEN Lit(CHOOSE x \in v : TRUE, ty)
     ELSE OfType(Binary(op, l, r), ty)

MakeLogical(op, l, r) ==
  LET value(e) == IF op = "&&" THEN e.n # 0 ELSE e.n = 0   \* does not decide the outcome
  IN IF IsInt(l) /\ ~value(l) THEN Lit(IF op = "&&" THEN 0 ELSE 1, "int")
     ELSE IF IsInt(l) /\ IsInt(r) THEN Lit(AsInt(r.n # 0), "int")
     ELSE OfType(Binary(op, l, r), "int")

MakeBinary(op, l, r) ==
  LET shift == op \in {"<<", ">>"}
      Of(t, rt) == FoldedOr(op, Conv(l, t), Conv(r, rt), t, IF op \in Comparisons THEN "int" ELSE t)
      Alike(t) == Of(t, t)
  IN IF op \in {"&&", "||"} THEN MakeLogical(op, l, r)
     ELSE IF shift THEN Of(PromotedExprType(l), PromotedExprType(r))
     ELSE Alike(ArithType(l, r))

MakeUnary(op, a) ==
  LET p == Promote(a)
  IN CASE op = "+" -> p
       [] op = "!" -> IF IsInt(a) THEN Lit(AsInt(a.n = 0), "int") ELSE OfType(Unary(op, a), "int")
       [] OTHER -> IF IsInt(p) THEN Lit(FoldUnary(op, p.n, p.ty), p.ty)
                   ELSE OfType(Unary(op, p), p.ty)

CompoundAssign(op, l, r) ==
  LET pl == PromotedType(l.ty)
      oty == IF op \in {"<<", ">>"} THEN pl ELSE CommonType(pl, PromotedExprType(r))
      rhs == IF op \in {"<<", ">>"} THEN Promote(r) ELSE Conv(r, oty)
  IN [Compound(op, l, rhs) EXCEPT !.ty = l.ty, !.oty = oty]

\* Both arms are converted, and a constant condition leaves one of them.
CondExpr(c, a, b) ==
  LET void == "void" \in {a.ty, b.ty}
      ty == IF void THEN "void" ELSE IF a.ty = "bit" /\ b.ty = "bit" THEN "bit" ELSE ArithType(a, b)
      arm(x) == IF void \/ ty = "bit" THEN x ELSE Conv(x, ty)
  IN IF IsInt(c) THEN OfType(arm(IF c.n # 0 THEN a ELSE b), ty)
     ELSE OfType(Cond(c, arm(a), arm(b)), ty)

\* c ?: b takes c twice, as the condition and as the first arm.
ElvisExpr(c, b) ==
  LET bits == c.ty = "bit" /\ b.ty = "bit"
      ty == IF bits THEN "bit" ELSE ArithType(c, b)
  IN OfType(Cond(c, Conv(c, ty), IF bits THEN b ELSE Conv(b, ty)), ty)

AssignExpr(l, r) == OfType(Assign(l, Conv(r, l.ty)), l.ty)
CommaExpr(l, r) == OfType(Comma(l, r), r.ty)
IncDecExpr(e, l) == [e EXCEPT !.k = <<l>>, !.ty = l.ty]

\* Arguments are converted to the types of the parameters.
Called(e, args, proto) ==
  [e EXCEPT !.ty = proto.ret, !.k = Tuple([i \in DOMAIN args |-> Conv(args[i], proto.params[i])])]

\* protos: parameter types and result type of the functions that may be called.
RECURSIVE Expr(_, _, _)
Expr(vars, protos, e) ==
  LET k(i) == Expr(vars, protos, e.k[i])
      place == vars[e.x]
  IN CASE IsInt(e) -> e
       [] e.e = "var" -> [e EXCEPT !.ty = place.ty, !.n = IF place.at = "bits" THEN place.w ELSE 0]
       [] e.e = "un" -> MakeUnary(e.op, k(1))
       [] e.e = "bin" -> MakeBinary(e.op, k(1), k(2))
       [] e.e = "assign" -> AssignExpr(k(1), k(2))
       [] e.e = "comp" -> CompoundAssign(e.op, k(1), k(2))
       [] e.e = "incdec" -> IncDecExpr(e, k(1))
       [] e.e = "cond" -> CondExpr(k(1), k(2), k(3))
       [] e.e = "elvis" -> ElvisExpr(k(1), k(2))
       [] e.e = "comma" -> CommaExpr(k(1), k(2))
       [] e.e = "cast" -> ConvRaw(k(1), e.ty)
       [] e.e = "call" -> Called(e, Tuple([i \in DOMAIN e.k |-> k(i)]), protos[e.x])

-----------------------------------------------------------------------------
(* Statements: kind, variable, expressions, sub-statements, label, cases.   *)

Stmt(s, x, e, b, l) == [s |-> s, x |-> x, e |-> e, b |-> b, l |-> l, cases |-> <<>>]
Empty == Stmt("empty", "", <<>>, <<>>, 0)
Do(e) == Stmt("expr", "", <<e>>, <<>>, 0)
Group(b) == Stmt("block", "", <<>>, b, 0)
If(c, t, f) == Stmt("if", "", <<c>>, <<t, f>>, 0)
IfOnly(c, t) == Stmt("if", "", <<c>>, <<t>>, 0)
While(c, b) == Stmt("while", "", <<c>>, <<b>>, 0)
DoWhile(b, c) == Stmt("do", "", <<c>>, <<b>>, 0)
For(i, c, p, b) == Stmt("for", "", <<c, p>>, <<i, b>>, 0)
SwitchOn(e, b) == Stmt("switch", "", <<e>>, <<b>>, 0)
Case(lo, hi, l, b) == Stmt("case", "", <<lo, hi>>, <<b>>, l)
Default(l, b) == Stmt("default", "", <<>>, <<b>>, l)
Label(l, b) == Stmt("label", "", <<>>, <<b>>, l)
Goto(l) == Stmt("goto", "", <<>>, <<>>, l)
Break == Stmt("break", "", <<>>, <<>>, 0)
Continue == Stmt("continue", "", <<>>, <<>>, 0)
Return(e) == Stmt("return", "", e, <<>>, 0)
Critical(b) == Stmt("critical", "", <<>>, <<b>>, 0)
Decl(x, e) == Stmt("decl", x, <<e>>, <<>>, 0)

\* The case labels of a switch in order, those of inner switches left aside.
RECURSIVE CasesOf(_, _)
CasesOf(st, ty) ==
  LET value(e) == CHOOSE x \in EvalConst(e) : TRUE
      lo == value(st.e[1])
      hi == value(st.e[2])
      inner == FlattenSeq([i \in DOMAIN st.b |-> CasesOf(st.b[i], ty)])
  IN CASE st.s = "switch" -> <<>>
       [] st.s = "case" -> Tuple([i \in 1 .. Max({hi, lo}) - lo + 1 |-> <<FoldCast(lo + i - 1, ty), st.l>>])
                             \o inner
       [] OTHER -> inner

\* The label of default, or 0.
RECURSIVE DefaultOf(_)
DefaultOf(st) ==
  IF st.s = "switch" THEN 0
  ELSE IF st.s = "default" THEN st.l
  ELSE LET inner == {DefaultOf(st.b[i]) : i \in DOMAIN st.b} \ {0}
       IN IF inner = {} THEN 0 ELSE CHOOSE l \in inner : TRUE

\* The value of a switch is promoted, and its cases are of that type.
TypedSwitch(st, on, b) ==
  [st EXCEPT !.e = <<on>>, !.b = b, !.l = DefaultOf(b[1]), !.cases = CasesOf(b[1], on.ty)]

TypedReturn(e, ret) ==
  IF ret = "void" THEN Group(<<Do(e), Return(<<>>)>>) ELSE Return(<<Conv(e, ret)>>)

\* A statement from its typed expressions e and statements b.
TypedFrom(vars, ret, st, e, b) ==
  CASE st.s = "switch" -> TypedSwitch(st, Promote(e[1]), b)
    [] st.s = "return" /\ st.e # <<>> -> TypedReturn(e[1], ret)
    [] st.s = "decl" -> [st EXCEPT !.e = <<Conv(e[1], vars[st.x].ty)>>]
    [] OTHER -> [st EXCEPT !.e = e, !.b = b]

RECURSIVE TypedStmt(_, _, _, _)
TypedStmt(vars, protos, ret, st) ==
  TypedFrom(vars, ret, st, Tuple([i \in DOMAIN st.e |-> Expr(vars, protos, st.e[i])]),
            Tuple([i \in DOMAIN st.b |-> TypedStmt(vars, protos, ret, st.b[i])]))

-----------------------------------------------------------------------------
(* Where the members of a structure are: fields is a sequence of [x, ty, w], *)
(* w the width of a bit-field and 0 for other members.                       *)

Bytes(bits) == (bits + I8 - 1) \div I8

\* off: first free byte; unit: bytes before the current bit-field unit; used: bits in it.
PlaceField(acc, f) ==
  LET room == acc.used % I8
      next == acc.unit + Bytes(acc.used)
      start == IF acc.used > 0 THEN next ELSE acc.off
      Put(at, o, bo) == Append(acc.out, [x |-> f.x, ty |-> f.ty, at |-> at, o |-> o, bo |-> bo, w |-> f.w])
  IN IF f.w > 0 /\ f.w < I8 /\ room # 0 /\ room + f.w <= I8
     THEN [acc EXCEPT !.out = Put("bits", acc.unit + acc.used \div I8, room), !.used = @ + f.w]
     ELSE IF f.w > 0
     THEN [out |-> Put("bits", start, 0), off |-> start, unit |-> start, used |-> f.w]
     ELSE [out |-> Put("ram", start, 0), off |-> start + IntSize(f.ty), unit |-> 0, used |-> 0]

Layout(fields) == FoldLeft(PlaceField, [out |-> <<>>, off |-> 0, unit |-> 0, used |-> 0], fields).out
=============================================================================
