------------------------------ MODULE MCCompile ------------------------------
(* Small programs, in families that make each rule of typing and lowering apply. *)
EXTENDS Compile, MCOptimize

Protos == [get |-> [params |-> <<>>, ret |-> "int"],
           put |-> [params |-> <<"int">>, ret |-> "void"],
           pick |-> [params |-> <<"schar", "uint">>, ret |-> "int"]]

Samples == [n \in 1 .. 9 |-> <<<<0, 6, 13>>[((n - 1) % 3) + 1], <<1, 3, 250>>[((n - 1) \div 3) + 1], 9, 6>>]

In(at, ty) == [ty |-> ty, at |-> at, o |-> 0, bo |-> 0, w |-> 0]
Reg(ty) == In("reg", ty)
Ram(ty, o) == [In("ram", ty) EXCEPT !.o = o]
Field(x) == [ty |-> x.ty, at |-> x.at, o |-> x.o, bo |-> x.bo, w |-> x.w]

Program(vars0, params, ret, body, inputs) ==
  [vars |-> vars0, protos |-> Protos, params |-> params, ret |-> ret, labels |-> 6,
   body |-> Group(body), inputs |-> inputs]

X == Var("x")
Y == Var("y")
Z == Var("z")
Get == CallOf("get", <<>>)
Put(e) == Do(CallOf("put", <<e>>))
I(n) == Lit(n, "int")
Two(a, b) == [x |-> Reg(a), y |-> Reg(b)]
Returning(vars0, e) == Program(vars0, <<"x", "y">>, "long", <<Return(<<e>>)>>, Samples)

Types == {"bit", "char", "schar", "ushort", "int", "uint", "long", "ulong"}
Arithmetic == {"+", "-", "*", "/", "%", "<<", ">>", "&", "|", "^"}

\* x op y for values of any two types.
Operations ==
  {Returning(Two(a, b), Binary(op, X, Y)) :
     a \in Types, b \in Types, op \in {"-", "/", "%", "<<", ">>", "|", "<", ">=", "=="}}
  \cup {Returning(Two(a, b), Unary(op, Binary("*", X, Unary("~", Y)))) :
     a \in {"char", "schar", "uint", "long"}, b \in {"bit", "char", "int", "ulong"}, op \in {"-", "~", "!", "+"}}

\* Folding of several types folded, and met by a variable.
Numbers == {Lit(-3, "int"), Lit(13, "uint"), Lit(-100, "long"), Lit(200, "ulong"), Lit(0, "int"),
            Cast("schar", I(6)), Cast("bool", I(2))}
Folding ==
  {Returning(Two("int", "char"), e) : e \in
     {Binary(op, m, n) : op \in Arithmetic \cup Comparisons, m \in Numbers, n \in Numbers}}
  \cup {Returning(Two("schar", "char"), Binary(op, X, n)) : op \in Arithmetic \cup Comparisons, n \in Numbers}

\* Casting in a row; a condition converts both arms.
Casting ==
  {Returning([x |-> Reg("int"), y |-> Reg("char")], Cast(a, Cast(b, Cast(c, X)))) :
     a \in Types \cup {"bool"}, b \in Types \cup {"bool"}, c \in {"bit", "schar", "ulong"}}
  \cup {Returning(Two(a, b), Cond(c, X, Y)) :
     a \in Types, b \in Types, c \in {Binary("<", X, Y), I(1), Cast("bool", X)}}
  \cup {Returning(Two(a, b), Elvis(X, Y)) : a \in Types, b \in Types}

\* Where a variable may be.
Objects ==
  {Reg(ty) : ty \in {"bit", "bool", "char", "schar", "int", "uint", "long"}}
  \cup {Ram("schar", 1), Ram("uint", 2), Ram("bool", 1), In("sfr", "char"), In("sfr", "bit"),
        [In("sfr16", "uint") EXCEPT !.o = 3, !.bo = 1]}
BitFields ==
  {[ty |-> p[1], at |-> "bits", o |-> p[2], bo |-> p[3], w |-> p[4]] :
     p \in {<<"uint", 1, 0, 1>>, <<"int", 1, 1, 1>>, <<"int", 0, 0, 3>>, <<"uint", 1, 0, 3>>, <<"uint", 2, 0, 4>>,
            <<"long", 0, 0, 5>>, <<"ulong", 1, 0, 6>>, <<"bool", 1, 1, 1>>, <<"char", 2, 0, 2>>}}

\* z is given a value, changed, and seen; in the value of the expression too, except for the
\* changed value of a bit-field.
Changed(place, change) ==
  Program([x |-> Reg("int"), y |-> Reg("long"), z |-> place], <<"x", "y">>, "long",
          <<Do(Assign(Z, X)), change, Return(<<Binary("+", Z, Y)>>)>>, Samples)
Storage ==
  {Changed(place, Put(c)) : place \in Objects,
     c \in {Compound(op, Z, r) : op \in Arithmetic, r \in {Y, I(2)}}
           \cup {IncDec(Z, d, post) : d \in {1, -1}, post \in BOOLEAN} \cup {Assign(Z, Y)}}
  \cup {Changed(place, Do(c)) : place \in BitFields,
     c \in {Compound(op, Z, r) : op \in {"+", "*", "|", ">>"}, r \in {Y, I(2)}}
           \cup {IncDec(Z, d, post) : d \in {1, -1}, post \in BOOLEAN}}
  \cup {Changed(place, Put(c)) : place \in BitFields,
     c \in {IncDec(Z, 1, TRUE), Assign(Z, Y), Unary("-", Z), Binary("<", Z, Lit(-1, "int")), Assign(Z, I(5))}}

\* What is evaluated and what is not, as a value and as a condition.
Conditions ==
  LET leaf == {Get, Binary("<", X, Y), Cast("bool", Binary("-", Get, I(3))), Unary("!", Get)}
      both == {Binary(op, a, b) : op \in {"&&", "||"}, a \in leaf \cup {I(1), I(0)}, b \in leaf}
      more == both \cup {Unary("!", c) : c \in both}
              \cup {Binary(op, c, Get) : op \in {"&&", "||"}, c \in both}
              \cup {Comma(Get, c) : c \in leaf} \cup {Cond(a, b, I(2)) : a \in leaf, b \in leaf}
  IN {Program(Two("int", "char"), <<"x", "y">>, "int",
              <<If(c, Put(I(1)), Put(I(2))), Return(<<X>>)>>, Few) : c \in more}
     \cup {Program(Two("int", "char"), <<"x", "y">>, "int", <<Return(<<c>>)>>, Few) : c \in more}
     \cup {Program(Two("int", "char"), <<"x", "y">>, "int",
              <<Do(c), Do(Cast("void", c)), IfOnly(c, Return(<<I(7)>>)), Return(<<Y>>)>>, Few) : c \in both}

\* Arguments are converted to the types of the parameters, results from the type returned.
Conversions ==
  {Program(Two(a, b), <<"x", "y">>, r, <<Return(<<CallOf("pick", <<X, Y>>)>>)>>, Samples) :
     a \in {"int", "bit", "ulong"}, b \in {"schar", "int", "long"}, r \in {"schar", "bool", "bit", "ulong"}}
  \cup {Program([x |-> Ram("int", 1), y |-> Ram("char", 3), z |-> Reg("int")], <<"x", "y">>, "int",
                <<Decl("z", CallOf("pick", <<Y, X>>)), Do(Assign(X, Z)), Do(Compound("+", Y, X)),
                  Return(<<Binary("+", X, Y)>>)>>, Samples)}

\* Structures whose members are written one after the other and read back.
Structures ==
  LET member(x, ty, w) == [x |-> x, ty |-> ty, w |-> w]
      kinds == {<<"char", 0>>, <<"int", 0>>, <<"uint", 1>>, <<"int", 2>>, <<"int", 1>>, <<"uint", 3>>, <<"bool", 1>>}
      total(L) == L[Len(L)].o + IF L[Len(L)].w > 0 THEN Bytes(L[Len(L)].bo + L[Len(L)].w) ELSE IntSize(L[Len(L)].ty)
      layouts == {Layout(<<member("a", p[1], p[2]), member("b", q[1], q[2]), member("c", r[1], r[2])>>) :
                    p \in kinds, q \in kinds, r \in kinds}
  IN {Program([x |-> Reg("int"), a |-> Field(L[1]), b |-> Field(L[2]), c |-> Field(L[3])], <<"x">>, "int",
              <<Do(Assign(Var("a"), X)), Do(Assign(Var("b"), I(-1))), Do(Assign(Var("c"), Unary("~", X))),
                Put(Var("a")), Put(Var("b")), Do(Assign(Var("b"), I(0))), Put(Var("c")), Return(<<Var("a")>>)>>,
              Few) : L \in {l \in layouts : total(l) <= 4}}

\* Control flow.
Loop0 == For(Do(Assign(Y, I(0))), Binary("<", Y, I(3)), IncDec(Y, 1, FALSE),
             Group(<<IfOnly(Binary("==", Y, X), Continue), Put(Y)>>))
Bodies ==
  {<<Loop0, Return(<<Y>>)>>,
   <<While(IncDec(X, -1, TRUE), Group(<<IfOnly(Binary("==", X, I(2)), Break), Put(X)>>)), Return(<<X>>)>>,
   <<Decl("y", I(0)), DoWhile(Group(<<IfOnly(Get, Continue), Do(Compound("+", X, I(1)))>>),
                              Binary("<", IncDec(Y, 1, FALSE), I(3))), Return(<<X>>)>>,
   \* fall through, no default, the same value in an inner switch, a range
   <<SwitchOn(Binary("&", X, I(3)),
        Group(<<Put(I(9)), Case(I(0), I(0), 1, Put(I(1))), Case(Binary("+", I(1), I(1)), I(2), 2, Break),
                 Case(I(3), I(3), 3, SwitchOn(X, Group(<<Case(I(3), I(7), 4, Break), Default(5, Put(I(5)))>>))),
                 Put(I(6))>>)), Return(<<X>>)>>,
   \* the value converted to the type of the switch, a constant switch
   <<SwitchOn(Cast("uint", X), Group(<<Case(I(-1), I(-1), 1, Return(<<I(1)>>)), Default(2, Put(X)),
                                        Case(Binary("-", I(5), I(0)), I(6), 3, Put(I(2)))>>)),
     SwitchOn(I(2), Group(<<Case(I(1), I(1), 4, Put(I(1))), Case(I(2), I(3), 5, Put(I(2)))>>)), Return(<<X>>)>>,
   \* into the body of a loop by a case, and out of it
   <<Decl("y", I(2)),
     SwitchOn(X, DoWhile(Group(<<Case(I(0), I(1), 1, Put(I(1))), Case(I(3), I(3), 2, Put(I(3))),
                                  IfOnly(Get, Goto(4))>>), IncDec(Y, -1, FALSE))),
     Label(4, Return(<<Y>>))>>,
   \* backwards and into an arm
   <<Decl("y", I(0)), Label(1, Do(IncDec(Y, 1, FALSE))),
     IfOnly(Binary("<", Y, I(3)), Goto(1)), IfOnly(Get, Goto(2)),
     If(X, Put(I(1)), Label(2, Put(I(2)))), Return(<<Y>>), Put(I(9))>>,
   \* critical sections, one inside the other, left by return
   <<Critical(Group(<<Put(X), IfOnly(X, Critical(Return(<<Get>>))), Do(Assign(X, Get))>>)), Put(X),
     Return(<<X>>)>>,
   <<Critical(Loop0), Critical(Group(<<>>)), Return(<<Y>>)>>,
   \* a loop that never ends; nothing after it
   <<While(I(1), Group(<<IfOnly(Binary("==", Get, X), Return(<<X>>)), Do(Assign(Y, X))>>)), Put(Y)>>,
   <<If(X, Return(<<I(1)>>), If(Get, Return(<<I(2)>>), Empty)), While(I(0), Put(X)),
     Do(Assign(Y, Cond(Get, Comma(Get, X), IncDec(X, 1, TRUE)))), Return(<<Binary("-", Y, X)>>)>>}
Control == {Program(Two("int", "int"), <<"x">>, r, b, Few) : b \in Bodies, r \in {"int", "schar", "void"}}

MCPrograms == Operations \cup Folding \cup Casting \cup Storage \cup Conditions \cup Conversions \cup Structures \cup Control

\* The value of ++ and of += on a bit-field.
MCBitValues ==
  {Changed(place, Put(c)) : place \in BitFields, c \in {IncDec(Z, 1, FALSE), Compound("+", Z, I(2))}}

NoSources == {}
=============================================================================
