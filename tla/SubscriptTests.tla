--------------------------- MODULE SubscriptTests ---------------------------
(***************************************************************************)
(* Tests of one pair of subscripts (lib/Analysis/Memory/                    *)
(* DependenceAnalysis.cpp).  A subscript is a linear function of the        *)
(* normalised counters of loops, [c |-> constant, a |-> coefficients], the  *)
(* loops being numbered as mapSrcLoop() and mapDstLoop() number them: those *)
(* around both accesses, then those around the source only, then those      *)
(* around the destination only.  Coefficients and constants are known       *)
(* numbers, and every loop of a subscript contains its access.              *)
(*                                                                          *)
(* A nest is [common, src, max, ub]: the last level of each kind, and for   *)
(* each level how often the back edge is taken.  A test takes the knowledge *)
(* about the dependence and returns what it adds to it:                     *)
(*   disproved    there is no dependence                                    *)
(*   consistent   whenever the source runs, the destination depends on it   *)
(*   dir, dist    directions left and known distance, by common level       *)
(*   peelFirst, peelLast, splitable   levels to transform                   *)
(*   splitAt      iteration to split a level after                          *)
(*   loopIndependent   a dependence inside one iteration is possible        *)
(*   cons, level  the constraint and the level found last                   *)
(***************************************************************************)
EXTENDS Integers, FiniteSetsExt, Functions

NoBound == -1           \* how often the back edge is taken is not known
SignedMax == 2^15 - 1   \* bounds of the type of subscripts
SignedMin == -2^15
Directions == {"<", "=", ">"}

Levels(n) == 1 .. n.max
Common(n) == 1 .. n.common
Mentioned(n, s) == {k \in Levels(n) : s.a[k] # 0}
Value(n, s, x) ==
  s.c + SumFunction([k \in Mentioned(n, s) |-> s.a[k] * x[k]])

Sign(i) == IF i < 0 THEN -1 ELSE 1
AbsOf(i) == Sign(i) * i
PositivePart(i) == IF i > 0 THEN i ELSE 0
NegativePart(i) == IF i < 0 THEN i ELSE 0
\* APInt::sdiv() and srem() round towards zero.
Quot(i, j) == Sign(i) * Sign(j) * (AbsOf(i) \div AbsOf(j))
Rem(i, j) == i - j * Quot(i, j)
FloorOfQuotient(i, j) == (Sign(j) * i) \div AbsOf(j)
CeilingOfQuotient(i, j) == -((-Sign(j) * i) \div AbsOf(j))
\* The greatest common divisor of a set of numbers; 0 of a set of zeros.
GCD(S) ==
  IF S \subseteq {0} THEN 0
  ELSE LET bound == Max({AbsOf(i) : i \in S})
       IN  Max({d \in 1 .. bound : \A i \in S : i % d = 0})

(* Constraints on the iterations X of the source and Y of the destination. *)
Unconstrained == [kind |-> "any"]
Empty == [kind |-> "empty"]
Point(x, y, k) == [kind |-> "point", x |-> x, y |-> y, loop |-> k]
Line(a, b, c, k) == [kind |-> "line", A |-> a, B |-> b, C |-> c, loop |-> k]
Distance(d, k) == [kind |-> "distance", A |-> 1, B |-> -1, C |-> -d, loop |-> k]
IsLine(c) == c.kind \in {"line", "distance"}

Unknown(n) ==
  [disproved |-> FALSE, consistent |-> TRUE,
   dir |-> [k \in Common(n) |-> Directions], dist |-> [k \in Common(n) |-> {}],
   peelFirst |-> {}, peelLast |-> {}, splitable |-> {},
   splitAt |-> [k \in Common(n) |-> {}], cons |-> Unconstrained, level |-> 0,
   loopIndependent |-> TRUE]
Disproved(r) == [r EXCEPT !.disproved = TRUE]
Inconsistent(r) == [r EXCEPT !.consistent = FALSE]
\* One test after another, until one disproves the dependence.
Or(r, Test(_)) == IF r.disproved THEN r ELSE Test(r)

-----------------------------------------------------------------------------
(* No loop: [c1] and [c2] *)

TestZIV(src, dst, r) == IF src.c = dst.c THEN r ELSE Disproved(r)

-----------------------------------------------------------------------------
(* One loop: [c1 + a1*i] and [c2 + a2*i] *)

DirectionOf(d) == IF d > 0 THEN "<" ELSE IF d < 0 THEN ">" ELSE "="

\* No two iterations of a level are that far apart.
TooFar_AtBound(n, k, delta, a) == n.ub[k] # NoBound /\ AbsOf(delta) >= n.ub[k] * AbsOf(a)
TooFar(n, k, delta, a) == n.ub[k] # NoBound /\ AbsOf(delta) > n.ub[k] * AbsOf(a)
StrongSIV(n, k, a, c1, c2, r) ==
  LET delta == c1 - c2
      d == Quot(delta, a)
  IN  IF TooFar(n, k, delta, a) \/ Rem(delta, a) # 0
      THEN Disproved(r)
      ELSE [r EXCEPT !.dist[k] = {d}, !.cons = Distance(d, k),
                     !.dir[k] = @ \cap {DirectionOf(d)}]

\* Only the same iteration of a level is left.
OnlyEqual(k, r) ==
  LET s == [r EXCEPT !.dir[k] = @ \cap {"="}]
  IN  IF s.dir[k] = {} THEN Disproved(s) ELSE [s EXCEPT !.dist[k] = {0}]

\* The last iteration before the crossing.
SplitIteration_Crossing(delta, a) == PositivePart(delta) \div a
SplitIteration(delta, a) == PositivePart(delta) \div (2 * a)
WeakCrossingSIV(n, k, a1, c1, c2, r0) ==
  LET r == [Inconsistent(r0) EXCEPT !.cons = Line(a1, a1, c2 - c1, k)]
      a == AbsOf(a1)
      delta == Sign(a1) * (c2 - c1)
      s == [r EXCEPT !.splitable = @ \cup {k},
                     !.splitAt[k] = IF @ # {} THEN @
                                    ELSE {SplitIteration(delta, a)}]
      last == 2 * a * n.ub[k]
  IN  IF c1 = c2 THEN OnlyEqual(k, r)
      ELSE IF \/ delta < 0
              \/ n.ub[k] # NoBound /\ delta > last
      THEN Disproved(s)
      ELSE IF n.ub[k] # NoBound /\ delta = last
      THEN OnlyEqual(k, [s EXCEPT !.splitable = @ \ {k}])
      ELSE IF delta % a # 0 THEN Disproved(s)
      ELSE IF (delta \div a) % 2 # 0 THEN [s EXCEPT !.dir[k] = @ \ {"="}]
      ELSE s

(* Kirch's algorithm: the greatest common divisor of two numbers and a      *)
(* solution of am * x - bm * y = delta.                                     *)
Kirch[g0 \in Nat, g1 \in Nat, a0 \in Int, a1 \in Int, b0 \in Int, b1 \in Int] ==
  LET q == g0 \div g1
      rest == g0 % g1
  IN  IF rest = 0 THEN [g |-> g1, x |-> a1, y |-> b1]
      ELSE Kirch[g1, rest, a1, a0 - q * a1, b1, b0 - q * b1]
FindGCD(am, bm, delta) ==
  LET s == Kirch[AbsOf(am), AbsOf(bm), 1, 0, 0, 1]
      q == Quot(delta, s.g)
  IN  [g |-> s.g, divides |-> Rem(delta, s.g) = 0,
       x |-> Sign(am) * s.x * q, y |-> -Sign(bm) * s.y * q]

(* All solutions are x + t * bm / g and y + t * am / g: an interval of t.   *)
AllT == [lo |-> SignedMin, hi |-> SignedMax]
\* t * m >= b
AtLeast(I, b, m) ==
  IF m > 0 THEN [I EXCEPT !.lo = Max({@, CeilingOfQuotient(b, m)})]
  ELSE [I EXCEPT !.hi = Min({@, FloorOfQuotient(b, m)})]
\* t * m <= b
AtMost(I, b, m) ==
  IF m > 0 THEN [I EXCEPT !.hi = Min({@, FloorOfQuotient(b, m)})]
  ELSE [I EXCEPT !.lo = Max({@, CeilingOfQuotient(b, m)})]
\* 0 <= x + t * m <= ub
WithinLoop(I, x, m, ub) ==
  IF ub = NoBound THEN AtLeast(I, -x, m) ELSE AtMost(AtLeast(I, -x, m), ub - x, m)
IsEmpty(I) == I.lo > I.hi

\* Only some directions are left, if any.
Narrowed(r, k, dirs) ==
  LET s == [r EXCEPT !.dir[k] = @ \cap dirs]
  IN  IF s.dir[k] = {} THEN Disproved(s) ELSE s
ExactSIV(n, k, am, bm, c1, c2, r0) ==
  LET r == [Inconsistent(r0) EXCEPT !.cons = Line(am, -bm, c2 - c1, k)]
      s == FindGCD(am, bm, c2 - c1)
      T == WithinLoop(WithinLoop(AllT, s.x, Quot(bm, s.g), n.ub[k]),
                      s.y, Quot(am, s.g), n.ub[k])
      less == AtLeast(T, s.x - s.y + 1, am - bm)
      equal == AtLeast(AtLeast(T, s.x - s.y, am - bm), s.y - s.x, bm - am)
      greater == AtLeast(T, s.y - s.x + 1, bm - am)
  IN  IF ~s.divides \/ IsEmpty(T) THEN Disproved(r)
      ELSE Narrowed(r, k, {d \in Directions :
             ~IsEmpty(CASE d = "<" -> less [] d = "=" -> equal [] OTHER -> greater)})

\* The iteration to peel, and the directions between it and all other ones.
Peel(k, first, dirs, r) ==
  LET s == [r EXCEPT !.dir[k] = @ \cap dirs]
  IN  IF first THEN [s EXCEPT !.peelFirst = @ \cup {k}] ELSE [s EXCEPT !.peelLast = @ \cup {k}]
\* Only one of the accesses moves: it meets the other one in its iteration
\* delta / a, whatever the iteration of the other is.
WeakZeroSIV(n, k, line, a, delta, first, last, r0) ==
  LET r == [Inconsistent(r0) EXCEPT !.cons = line]
      end == AbsOf(a) * n.ub[k]
      moved == Sign(a) * delta
  IN  IF delta = 0 THEN IF k \in Common(n) THEN Peel(k, TRUE, first, r) ELSE r
      ELSE IF n.ub[k] # NoBound /\ moved = end
      THEN IF k \in Common(n) THEN Peel(k, FALSE, last, r) ELSE r
      ELSE IF \/ n.ub[k] # NoBound /\ moved > end
              \/ moved < 0
              \/ Rem(delta, a) # 0
      THEN Disproved(r)
      ELSE r
WeakZeroSrcSIV_Swapped(n, k, a2, c1, c2, r) ==
  WeakZeroSIV(n, k, Line(0, a2, c1 - c2, k), a2, c1 - c2,
              {"<", "="}, {">", "="}, r)
WeakZeroSrcSIV(n, k, a2, c1, c2, r) ==
  WeakZeroSIV(n, k, Line(0, a2, c1 - c2, k), a2, c1 - c2,
              {">", "="}, {"<", "="}, r)
WeakZeroDstSIV(n, k, a1, c1, c2, r) ==
  WeakZeroSIV(n, k, Line(a1, 0, c2 - c1, k), a1, c2 - c1,
              {"<", "="}, {">", "="}, r)

-----------------------------------------------------------------------------
(* Two loops: [c1 + a1*i] and [c2 + a2*j] *)

ExactRDIV(am, bm, c1, c2, ub1, ub2, r0) ==
  LET s == FindGCD(am, bm, c2 - c1)
      T == WithinLoop(WithinLoop(AllT, s.x, Quot(bm, s.g), ub1),
                      s.y, Quot(am, s.g), ub2)
      r == Inconsistent(r0)
  IN  IF ~s.divides \/ IsEmpty(T) THEN Disproved(r) ELSE r

\* c2 - c1 is not between the least and the greatest a1*i - a2*j.
SymbolicRDIV(a1, a2, c1, c2, n1, n2, r) ==
  LET delta == c2 - c1
      known1 == n1 # NoBound
      known2 == n2 # NoBound
      outside ==
        \/ a1 >= 0 /\ a2 >= 0 /\ \/ known1 /\ delta > a1 * n1
                                 \/ known2 /\ a2 * n2 < -delta
        \/ a1 >= 0 /\ a2 < 0 /\ \/ known1 /\ known2 /\ delta > a1 * n1 - a2 * n2
                                \/ delta < 0
        \/ a1 < 0 /\ a2 >= 0 /\ \/ known1 /\ known2 /\ a1 * n1 - a2 * n2 > delta
                                \/ delta > 0
        \/ a1 < 0 /\ a2 < 0 /\ \/ known1 /\ a1 * n1 > delta
                               \/ known2 /\ -delta < a2 * n2
  IN  IF outside THEN Disproved(r) ELSE r

-----------------------------------------------------------------------------
(* Any loops *)

GcdMIV(n, src, dst, r) ==
  LET delta == dst.c - src.c
      all == {src.a[k] : k \in Levels(n)} \cup {dst.a[k] : k \in Levels(n)}
      \* The common divisor if iterations of level k are equal.
      gcdIfEqual(k) ==
        GCD({src.a[j] : j \in Levels(n) \ {k}} \cup {dst.a[j] : j \in Levels(n) \ {k}}
            \cup {src.a[k] - dst.a[k]})
      unequal == {k \in Mentioned(n, src) \cap Common(n) :
                    gcdIfEqual(k) # 0 /\ Rem(delta, gcdIfEqual(k)) # 0}
  IN  IF delta = 0 THEN r
      ELSE IF Rem(delta, GCD(all)) # 0 THEN Disproved(r)
      ELSE [r EXCEPT !.dir = [k \in DOMAIN @ |->
                                IF k \in unequal THEN @[k] \ {"="} ELSE @[k]]]

(* Bounds of a*x - b*y at a level for a direction: f times the iterations   *)
(* plus e, or {} if it is not bounded.                                      *)
Bound(f, e, ub, iterations) ==
  IF ub # NoBound THEN {f * iterations + e} ELSE IF f = 0 THEN {e} ELSE {}
Lower(d, a, b, ub) ==
  CASE d = "*" -> Bound(NegativePart(a) - PositivePart(b), 0, ub, ub)
    [] d = "=" -> Bound(NegativePart(a - b), 0, ub, ub)
    [] d = "<" -> Bound(NegativePart(NegativePart(a) - b), -b, ub, ub - 1)
    [] d = ">" -> Bound(NegativePart(a - PositivePart(b)), a, ub, ub - 1)
Upper(d, a, b, ub) ==
  CASE d = "*" -> Bound(PositivePart(a) - NegativePart(b), 0, ub, ub)
    [] d = "=" -> Bound(PositivePart(a - b), 0, ub, ub)
    [] d = "<" -> Bound(PositivePart(PositivePart(a) - b), -b, ub, ub - 1)
    [] d = ">" -> Bound(PositivePart(a - NegativePart(b)), a, ub, ub - 1)

\* v gives every level a direction, "*" standing for all of them.
TestBounds(n, src, dst, v) ==
  LET delta == dst.c - src.c
      lower == [k \in Levels(n) |-> Lower(v[k], src.a[k], dst.a[k], n.ub[k])]
      upper == [k \in Levels(n) |-> Upper(v[k], src.a[k], dst.a[k], n.ub[k])]
      sum(f) == SumFunction([k \in Levels(n) |-> CHOOSE i \in f[k] : TRUE])
      bounded(f) == \A k \in Levels(n) : f[k] # {}
  IN  /\ bounded(lower) => sum(lower) <= delta
      /\ bounded(upper) => delta <= sum(upper)

\* Direction vectors none of whose prefixes the bounds exclude.
ExploreDirections(n, src, dst, loops) ==
  LET prefix(v, j) == [k \in Levels(n) |-> IF k \in loops /\ k <= j THEN v[k] ELSE "*"]
  IN  {v \in [loops -> Directions] :
         \A j \in loops \cup {0} : TestBounds(n, src, dst, prefix(v, j))}

BanerjeeMIV(n, src, dst, r) ==
  LET loops == Common(n) \cap (Mentioned(n, src) \cup Mentioned(n, dst))
      found == ExploreDirections(n, src, dst, loops)
      dir == [k \in Common(n) |->
                IF k \in loops THEN r.dir[k] \cap {v[k] : v \in found} ELSE r.dir[k]]
  IN  IF found = {} \/ \E k \in loops : dir[k] = {} THEN Disproved(r)
      ELSE [r EXCEPT !.dir = dir]

-----------------------------------------------------------------------------
(* The tests a classified pair is given *)

Classify(n, src, dst) ==
  LET s == Mentioned(n, src)
      d == Mentioned(n, dst)
      N == Cardinality(s \cup d)
  IN  IF N = 0 THEN "ZIV"
      ELSE IF N = 1 THEN "SIV"
      ELSE IF N = 2 /\ (s = {} \/ d = {} \/ (Cardinality(s) = 1 /\ Cardinality(d) = 1))
      THEN "RDIV"
      ELSE "MIV"

TestSIV(n, src, dst, r) ==
  LET k == CHOOSE j \in Levels(n) : j \in Mentioned(n, src) \cup Mentioned(n, dst)
      a1 == src.a[k]
      a2 == dst.a[k]
      s == [r EXCEPT !.level = k]
      first == CASE a1 = 0 -> WeakZeroSrcSIV(n, k, a2, src.c, dst.c, s)
                 [] a2 = 0 -> WeakZeroDstSIV(n, k, a1, src.c, dst.c, s)
                 [] a1 = a2 -> StrongSIV(n, k, a1, src.c, dst.c, s)
                 [] a1 = -a2 -> WeakCrossingSIV(n, k, a1, src.c, dst.c, s)
                 [] OTHER -> ExactSIV(n, k, a1, a2, src.c, dst.c, s)
      Symbolic(t) == IF a1 = 0 \/ a2 = 0 THEN t
                     ELSE SymbolicRDIV(a1, a2, src.c, dst.c, n.ub[k], n.ub[k], t)
  IN  Or(Or(first, LAMBDA t : GcdMIV(n, src, dst, t)), Symbolic)

\* [b] and [c + a1*i + a2*j] is tested as [b - a2*j] and [c + a1*i], the
\* outer loop first, and so is its mirror image.
TestRDIV(n, src, dst, r) ==
  LET s == Mentioned(n, src)
      d == Mentioned(n, dst)
      i == IF s = {} THEN Max(d) ELSE Min(s)
      j == IF d = {} THEN Max(s) ELSE Min(d)
      a1 == IF s = {} THEN -dst.a[i] ELSE src.a[i]
      a2 == IF d = {} THEN -src.a[j] ELSE dst.a[j]
      exact == ExactRDIV(a1, a2, src.c, dst.c, n.ub[i], n.ub[j], r)
  IN  Or(Or(exact, LAMBDA t : GcdMIV(n, src, dst, t)),
         LAMBDA t : SymbolicRDIV(a1, a2, src.c, dst.c, n.ub[i], n.ub[j], t))

TestMIV(n, src, dst, r) ==
  Or(GcdMIV(n, src, dst, Inconsistent(r)), LAMBDA t : BanerjeeMIV(n, src, dst, t))
=============================================================================
