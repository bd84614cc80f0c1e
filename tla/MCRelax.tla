------------------------------ MODULE MCRelax ------------------------------
(***************************************************************************)
(* Instances of Relax for TLC: families of small programs.                 *)
(***************************************************************************)
EXTENDS Relax

None == <<"none", 2, 0>>
Jmp == <<"jmp", 2, 0>>
Call == <<"call", 2, 0>>
Jc == <<"cond", 2, 0>>
Cjne == <<"cond", 3, 2>>
Kinds == {Jmp, Call, Jc, Cjne}

\* An item of section s: label x, a jump of kind k to label t, n more bytes.
At(s, x, k, t, n) ==
  [sec |-> s, label |-> x, kind |-> k[1], len |-> k[2], over |-> k[3],
   target |-> t, tail |-> n]

Sectionless == [s \in Section |-> FALSE]

Linking(items) ==
  [items |-> items, fixed |-> Sectionless, org |-> [s \in Section |-> 0],
   absolute |-> Sectionless, syms |-> [x \in {} |-> 0]]

\* Section s is at address a; `own` if the program put it there.
Fixed(p, s, a, own) ==
  [p EXCEPT !.fixed[s] = TRUE, !.org[s] = a, !.absolute[s] = own]

\* One section: three jumps between runs of bytes, to any of three labels, one
\* of which may be missing.
ThreeJumps ==
  {Linking(<<At(1, 1, None, 0, n[1]), At(1, 0, k[1], x[1], n[2]),
             At(1, 2, k[2], x[2], n[3]), At(1, 0, k[3], x[3], n[4]),
             At(1, 3, None, 0, 1)>>) :
     n \in {1, 5} \X {2, 4} \X {1, 5} \X {3, 7}, k \in Kinds \X Kinds \X Kinds,
     x \in (1 .. 4) \X (1 .. 3) \X (1 .. 3)}

\* A vector at 0, two functions, and a constant the program put at an address
\* of its own, listed between the functions or last.
FourSections ==
  {Fixed(Fixed(Linking(
     <<At(1, 0, Jmp, 2, 0), At(2, 2, None, 0, n[1]), At(2, 0, k1, x, 0)>>
     \o (IF c = 3
         THEN <<At(3, 0, None, 0, n[2]), At(4, 4, None, 0, n[3]), At(4, 0, k2, 2, 0)>>
         ELSE <<At(3, 4, None, 0, n[3]), At(3, 0, k2, 2, 0), At(4, 0, None, 0, n[2])>>)),
     1, 0, FALSE), c, a, TRUE) :
     n \in {1, 6, 12} \X {1, 5} \X {2, 9}, k1, k2 \in Kinds, x \in {2, 4},
     c \in {3, 4}, a \in {0, 4, 9, 16, 28, 33}}

\* Both families.
SmallPrograms == ThreeJumps \cup FourSections
=============================================================================
