------------------------- MODULE MCLoopDependences -------------------------
(* Small programs: two or three accesses, loops and subscripts. *)
EXTENDS LoopDependences

Sub(c, a) == [c |-> c, a |-> a]
In(own, subs, writes) == [own |-> own, subs |-> subs, writes |-> writes]
Write(subs) == In(<<>>, subs, TRUE)
Read(subs) == In(<<>>, subs, FALSE)
Program(ubs, accesses) == [common |-> ubs, accesses |-> accesses]

\* One loop, one subscript: all tests of one loop, at all their boundaries.
OneLoop ==
  {Program(<<u>>, <<Write(<<Sub(0, <<a>>)>>), Read(<<Sub(c, <<b>>)>>)>>) :
     u \in {NoBound, 0, 1, 3}, a \in -3 .. 3, b \in -3 .. 3, c \in -4 .. 4}
SkewedLoop ==
  {Program(<<u>>, <<Write(<<Sub(0, <<a>>)>>), Read(<<Sub(c, <<b>>)>>)>>) :
     u \in {NoBound, 1, 3}, a \in {-4, -2, 2, 4}, b \in {-4, -2, 2, 4}, c \in {0, 2, 4}}
\* One loop, two subscripts: constraints are intersected.
Coupled1 ==
  {Program(<<u>>, <<Write(<<Sub(0, <<a1>>), Sub(0, <<a2>>)>>),
                    Read(<<Sub(c1, <<b1>>), Sub(c2, <<b2>>)>>)>>) :
     u \in {NoBound, 2}, a1 \in {0, 1, 2}, b1 \in -1 .. 2, c1 \in {-1, 0, 2},
     a2 \in {0, 1}, b2 \in -1 .. 2, c2 \in {-1, 1, 2}}
\* Two loops, one subscript: several loops are tested together.
Together ==
  {Program(u, <<Write(<<Sub(0, a)>>), Read(<<Sub(c, b)>>)>>) :
     u \in {<<NoBound, 1>>, <<2, NoBound>>, <<2, 1>>},
     a \in {0, 1} \X {0, 1, 2}, b \in (-1 .. 1) \X (-1 .. 2), c \in {-2, 0, 1, 3}}
\* Two loops, two subscripts: constraints are propagated.
Coupled2 ==
  {Program(u, <<Write(<<Sub(0, <<a, 0>>), Sub(0, a2)>>),
                Read(<<Sub(c, <<b, 0>>), Sub(c2, b2)>>)>>) :
     u \in {<<2, 2>>, <<NoBound, 2>>}, a \in 0 .. 2, b \in {-1, 0, 1}, c \in {0, 1},
     a2 \in {-1, 1} \X {0, 1}, b2 \in {0, 1, 2} \X {-1, 1}, c2 \in {0, 1}}
\* Two loops, three subscripts of them.
Chain ==
  {Program(<<2, 2>>, <<Write(<<Sub(0, <<1, 0>>), Sub(0, <<1, 1>>), Sub(0, <<0, a>>)>>),
                       Read(<<Sub(c1, <<b1, 0>>), Sub(c2, <<1, 1>>), Sub(1, <<0, b2>>)>>)>>) :
     a \in {0, 1}, b1 \in {-1, 1}, b2 \in {0, 1}, c1 \in {0, 1}, c2 \in -1 .. 1}
\* A loop around two loops.
Siblings ==
  {Program(<<u>>, <<In(<<1>>, <<Sub(0, a)>>, TRUE), In(<<v>>, <<Sub(c, b)>>, FALSE)>>) :
     u \in {NoBound, 2}, v \in {NoBound, 2}, a \in {0, 1} \X {0, 1, 2},
     b \in {-1, 0, 1} \X {-1, 0, 2}, c \in {-2, 1}}
\* Stencils: several distances to be summarised.
Stencils ==
  {Program(<<3>>, <<Write(<<Sub(0, <<1>>)>>), In(<<>>, <<Sub(c1, <<1>>)>>, w), Read(<<Sub(c2, <<a>>)>>)>>) :
     c1 \in -2 .. 2, c2 \in -2 .. 2, a \in {0, 1}, w \in BOOLEAN} \cup
  {Program(<<2, 2>>, <<In(<<>>, <<Sub(0, <<1, 0>>), Sub(0, <<0, 1>>)>>, w),
                       Write(<<Sub(c1, <<1, 0>>), Sub(c2, <<0, b>>)>>),
                       Read(<<Sub(1, <<1, 0>>), Sub(c3, <<0, 1>>)>>)>>) :
     c1 \in -1 .. 1, c2 \in -1 .. 1, c3 \in -1 .. 1, b \in {0, 1}, w \in BOOLEAN}

SmallPrograms == UNION {OneLoop, Coupled1, Together, Coupled2, Chain, Siblings, Stencils}
SkewedPrograms == SkewedLoop
=============================================================================
