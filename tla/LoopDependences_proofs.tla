----------------------- MODULE LoopDependences_proofs -----------------------
(***************************************************************************)
(* Proofs about the tests of subscripts, and about the dependences they     *)
(* leave, for all programs, all coefficients and all bounds of loops:       *)
(*   - what the tests of one loop and intersected constraints say about two *)
(*     iterations that access the same element;                             *)
(*   - values of subscripts as sums over the loops of a nest, what the      *)
(*     operations on subscripts do to them, and that subscripts into which  *)
(*     constraints are propagated stay equal where they were;               *)
(*   - that every test keeps what is known of iterations that meet, and that *)
(*     the choices of the analysis are possible;                            *)
(*   - the invariant of the analysis, and what it says of its answers.      *)
(***************************************************************************)
EXTENDS LoopDependences, Recursion

-----------------------------------------------------------------------------
(* Division. *)

\* Products keep a strict order.
LEMMA TimesLess ==
  ASSUME NEW b \in Nat \ {0}, NEW x \in Int, NEW y \in Int, x < y
  PROVE  b * x < b * y
OBVIOUS

\* Products keep a weak order.
LEMMA TimesLeq ==
  ASSUME NEW b \in Nat, NEW x \in Int, NEW y \in Int, x <= y
  PROVE  b * x <= y * b
OBVIOUS

\* A quotient, rounded down, from both sides.
LEMMA DivBounds ==
  ASSUME NEW b \in Nat \ {0}, NEW x \in Int
  PROVE  x \div b \in Int /\ b * (x \div b) <= x /\ x < b * (x \div b) + b
OBVIOUS

\* Exact quotients.
LEMMA DivExact ==
  ASSUME NEW b \in Nat \ {0}, NEW z \in Int
  PROVE  (b * z) \div b = z
<1> DEFINE q == (b * z) \div b
<1>1. q \in Int /\ b * q <= b * z /\ b * z < b * q + b
  BY DivBounds
<1>2. b * (q + 1) = b * q + b
  BY <1>1
<1> HIDE DEF q
<1>3. ~(z < q)
  BY <1>1, TimesLess
<1>4. ~(q + 1 < z)
  BY <1>1, <1>2, TimesLess
<1>5. q + 1 # z
  BY <1>1, <1>2
<1> QED BY <1>1, <1>3, <1>4, <1>5 DEF q

\* Absolute values and signs of products.
LEMMA AbsTimes ==
  ASSUME NEW j \in Int, NEW z \in Int
  PROVE  /\ AbsOf(j) \in Nat /\ AbsOf(j * z) = AbsOf(j) * AbsOf(z)
         /\ j = Sign(j) * AbsOf(j) /\ (j # 0 => AbsOf(j) > 0)
<1>1. AbsOf(j) \in Nat /\ j = Sign(j) * AbsOf(j) /\ (j # 0 => AbsOf(j) > 0)
  BY DEF AbsOf, Sign
<1>2. AbsOf(j * z) = AbsOf(j) * AbsOf(z)
  <2>1. CASE j >= 0 /\ z >= 0
    <3>1. j * z >= 0 BY <2>1
    <3> QED BY <2>1, <3>1 DEF AbsOf, Sign
  <2>2. CASE j < 0 /\ z >= 0
    <3>1. j * z <= 0 /\ (j * z = 0 => z = 0) BY <2>2
    <3> QED BY <2>2, <3>1 DEF AbsOf, Sign
  <2>3. CASE j >= 0 /\ z < 0
    <3>1. j * z <= 0 /\ (j * z = 0 => j = 0) BY <2>3
    <3> QED BY <2>3, <3>1 DEF AbsOf, Sign
  <2>4. CASE j < 0 /\ z < 0
    <3>1. j * z > 0 BY <2>4
    <3> QED BY <2>4, <3>1 DEF AbsOf, Sign
  <2> QED BY <2>1, <2>2, <2>3, <2>4
<1> QED BY <1>1, <1>2

\* Quot() and Rem() of a multiple, whatever the signs.
LEMMA QuotExact ==
  ASSUME NEW j \in Int \ {0}, NEW z \in Int
  PROVE  Quot(j * z, j) = z /\ Rem(j * z, j) = 0
<1>1. AbsOf(j) \in Nat \ {0} /\ AbsOf(z) \in Int
  BY AbsTimes
<1>2. AbsOf(j * z) \div AbsOf(j) = AbsOf(z)
  <2>1. AbsOf(j * z) = AbsOf(j) * AbsOf(z)
    BY AbsTimes
  <2>2. (AbsOf(j) * AbsOf(z)) \div AbsOf(j) = AbsOf(z)
    BY <1>1, DivExact
  <2> QED BY <2>1, <2>2
<1>3. Sign(j * z) * Sign(j) * AbsOf(z) = z
  <2>1. CASE j > 0 /\ z >= 0
    <3>1. j * z >= 0 BY <2>1
    <3> QED BY <2>1, <3>1 DEF AbsOf, Sign
  <2>2. CASE j > 0 /\ z < 0
    <3>1. j * z < 0 BY <2>2
    <3> QED BY <2>2, <3>1 DEF AbsOf, Sign
  <2>3. CASE j < 0 /\ z > 0
    <3>1. j * z < 0 BY <2>3
    <3> QED BY <2>3, <3>1 DEF AbsOf, Sign
  <2>4. CASE j < 0 /\ z <= 0
    <3>1. j * z >= 0 BY <2>4
    <3> QED BY <2>4, <3>1 DEF AbsOf, Sign
  <2> QED BY <2>1, <2>2, <2>3, <2>4
<1>4. Quot(j * z, j) = z
  BY <1>2, <1>3 DEF Quot
<1> QED BY <1>4 DEF Rem

-----------------------------------------------------------------------------
(* What an answer says about the iterations x of the source and y of the    *)
(* destination at a level.                                                  *)

Bounds == Nat \cup {NoBound}
InLoop(m, k, i) == i \in Nat /\ (m.ub[k] # NoBound => i <= m.ub[k])
LinesAt(k) ==
  [kind : {"line"}, A : Int, B : Int, C : Int, loop : {k}] \cup
  [kind : {"distance"}, A : {1}, B : {-1}, C : Int, loop : {k}]
PointsAt(k) == [kind : {"point"}, x : Int, y : Int, loop : {k}]
Constraints == {Unconstrained, Empty} \cup UNION {LinesAt(k) \cup PointsAt(k) : k \in Nat}
Holds(c, x, y) ==
  /\ c.kind # "empty"
  /\ c.kind = "point" => x = c.x /\ y = c.y
  /\ c.kind \in {"line", "distance"} => c.A * x + c.B * y = c.C
Answers(m) ==
  [disproved : BOOLEAN, consistent : BOOLEAN, dir : [Common(m) -> SUBSET Directions],
   dist : [Common(m) -> SUBSET Int], peelFirst : SUBSET Nat, peelLast : SUBSET Nat,
   splitable : SUBSET Nat, splitAt : [Common(m) -> SUBSET Int], cons : Constraints,
   level : Nat, loopIndependent : BOOLEAN]
Tells(m, k, r, x, y) ==
  /\ ~r.disproved
  /\ Holds(r.cons, x, y)
  /\ k \in r.peelFirst => 0 \in {x, y}
  /\ k \in r.peelLast => m.ub[k] \in {x, y}
  /\ k \in Common(m) =>
       /\ DirectionOf(y - x) \in r.dir[k]
       /\ r.dist[k] \subseteq {y - x}
       /\ \A t \in r.splitAt[k] : x # y => (x <= t) # (y <= t)

\* The strong test, [c1 + a*i] and [c2 + a*i]: iterations that access the same
\* element are never disproved, and have the distance and direction it says.
THEOREM StrongSIVSound ==
  ASSUME NEW m, NEW k \in Common(m), m.ub[k] \in Bounds, NEW r \in Answers(m),
         NEW a \in Int \ {0}, NEW c1 \in Int, NEW c2 \in Int,
         NEW x, NEW y, InLoop(m, k, x), InLoop(m, k, y),
         c1 + a * x = c2 + a * y, Tells(m, k, r, x, y)
  PROVE  Tells(m, k, StrongSIV(m, k, a, c1, c2, r), x, y)
<1> DEFINE delta == c1 - c2
           s == StrongSIV(m, k, a, c1, c2, r)
<1>1. x \in Nat /\ y \in Nat /\ y - x \in Int
  BY DEF InLoop
<1>2. delta = a * (y - x)
  BY <1>1
<1>3. Quot(delta, a) = y - x /\ Rem(delta, a) = 0
  BY <1>1, <1>2, QuotExact
<1>4. ~TooFar(m, k, delta, a)
  <2>1. AbsOf(delta) = AbsOf(a) * AbsOf(y - x) /\ AbsOf(a) \in Nat /\ AbsOf(y - x) \in Nat
    <3>1. AbsOf(a * (y - x)) = AbsOf(a) * AbsOf(y - x)
      BY <1>1, AbsTimes
    <3>2. AbsOf(a) \in Nat /\ AbsOf(y - x) \in Nat
      BY <1>1 DEF AbsOf, Sign
    <3> QED BY <1>2, <3>1, <3>2
  <2>2. m.ub[k] # NoBound => AbsOf(y - x) <= m.ub[k]
    BY <1>1 DEF InLoop, Bounds, AbsOf, Sign
  <2>3. m.ub[k] # NoBound => AbsOf(a) * AbsOf(y - x) <= m.ub[k] * AbsOf(a)
    BY <2>1, <2>2, TimesLeq DEF Bounds
  <2>4. m.ub[k] # NoBound => m.ub[k] * AbsOf(a) \in Nat
    BY <2>1 DEF Bounds
  <2> QED BY <2>1, <2>3, <2>4 DEF TooFar
<1>5. s = [r EXCEPT !.dist[k] = {y - x}, !.cons = Distance(y - x, k),
                    !.dir[k] = @ \cap {DirectionOf(y - x)}]
  BY <1>3, <1>4 DEF StrongSIV
<1>6. Holds(Distance(y - x, k), x, y)
  BY <1>1 DEF Holds, Distance
<1>7. /\ s.disproved = r.disproved /\ s.cons = Distance(y - x, k)
      /\ s.peelFirst = r.peelFirst /\ s.peelLast = r.peelLast
      /\ s.dir[k] = r.dir[k] \cap {DirectionOf(y - x)}
      /\ s.dist[k] = {y - x} /\ s.splitAt[k] = r.splitAt[k]
  BY <1>5 DEF Answers
<1> HIDE DEF s
<1>8. Tells(m, k, s, x, y)
  BY <1>6, <1>7 DEF Tells
<1> QED BY <1>8 DEF s

\* Directions as signs.
LEMMA DirectionCases ==
  ASSUME NEW d \in Int
  PROVE  /\ d >= 0 <=> DirectionOf(d) \in {"<", "="}
         /\ d <= 0 <=> DirectionOf(d) \in {">", "="}
         /\ DirectionOf(d) = "=" <=> d = 0
BY DEF DirectionOf

\* A weak test, [c1] and [c2 + a*i] or the other way round: the access that moves
\* meets the other one in its first iteration, in its last one or in between,
\* and what is said about peeling this iteration is true.
LEMMA WeakZeroSound ==
  ASSUME NEW m, NEW k \in Nat, m.ub[k] \in Bounds, NEW r \in Answers(m), NEW line \in LinesAt(k),
         NEW a \in Int \ {0}, NEW z, InLoop(m, k, z),
         NEW x \in Nat, NEW y \in Nat, NEW first \in SUBSET Directions, NEW last \in SUBSET Directions,
         z \in {x, y}, Holds(line, x, y),
         z = 0 => DirectionOf(y - x) \in first,
         z = m.ub[k] => DirectionOf(y - x) \in last,
         Tells(m, k, r, x, y)
  PROVE  Tells(m, k, WeakZeroSIV(m, k, line, a, a * z, first, last, r), x, y)
<1> DEFINE q == [Inconsistent(r) EXCEPT !.cons = line]
           s == WeakZeroSIV(m, k, line, a, a * z, first, last, r)
<1>0. z \in Int /\ (m.ub[k] # NoBound => m.ub[k] \in Nat /\ z <= m.ub[k]) /\ z # NoBound
  BY DEF InLoop, Bounds, NoBound
<1>1. /\ q.cons = line
      /\ q.disproved = r.disproved /\ q.dir = r.dir /\ q.dist = r.dist
      /\ q.peelFirst = r.peelFirst /\ q.peelLast = r.peelLast /\ q.splitAt = r.splitAt
  BY DEF Answers, Inconsistent
<1>10. /\ k \in Common(m) => k \in DOMAIN q.dir
       /\ q \in [disproved : BOOLEAN, consistent : BOOLEAN, dir : [Common(m) -> SUBSET Directions],
            dist : [Common(m) -> SUBSET Int], peelFirst : SUBSET Nat, peelLast : SUBSET Nat,
            splitable : SUBSET Nat, splitAt : [Common(m) -> SUBSET Int], cons : {line},
            level : Nat, loopIndependent : BOOLEAN]
  BY DEF Answers, Inconsistent
<1>2. Tells(m, k, q, x, y)
  BY <1>1 DEF Tells
<1> HIDE DEF q
<1>3. a * z \in Int /\ (a * z = 0 <=> z = 0)
  BY <1>0
<1>4. Rem(a * z, a) = 0
  BY <1>0, QuotExact
<1>5. Sign(a) * (a * z) = AbsOf(a) * z /\ AbsOf(a) \in Nat \ {0}
  <2>1. CASE a > 0
    BY <1>0, <2>1 DEF AbsOf, Sign
  <2>2. CASE a < 0
    BY <1>0, <2>2 DEF AbsOf, Sign
  <2> QED BY <2>1, <2>2
<1>6. CASE z = 0
  <2>1. s = IF k \in Common(m) THEN Peel(k, TRUE, first, q) ELSE q
    BY <1>3, <1>6 DEF WeakZeroSIV, q
  <2>2. CASE k \in Common(m)
    <3> DEFINE t == Peel(k, TRUE, first, q)
    <3>1. /\ t.disproved = q.disproved /\ t.cons = q.cons
          /\ t.peelFirst = q.peelFirst \cup {k} /\ t.peelLast = q.peelLast
          /\ t.dir[k] = q.dir[k] \cap first
          /\ t.dist[k] = q.dist[k] /\ t.splitAt[k] = q.splitAt[k]
      BY <1>10, <2>2 DEF Peel
    <3> HIDE DEF t
    <3>2. Tells(m, k, t, x, y)
      BY <1>2, <1>6, <3>1 DEF Tells
    <3> QED BY <2>1, <2>2, <3>2 DEF t
  <2> QED BY <1>2, <2>1, <2>2
<1>7. CASE z # 0 /\ z = m.ub[k]
  <2>1. s = IF k \in Common(m) THEN Peel(k, FALSE, last, q) ELSE q
    <3>1. m.ub[k] # NoBound /\ Sign(a) * (a * z) = AbsOf(a) * m.ub[k] /\ a * z # 0
      BY <1>0, <1>3, <1>5, <1>7
    <3> QED BY <3>1 DEF WeakZeroSIV, q
  <2>2. CASE k \in Common(m)
    <3> DEFINE t == Peel(k, FALSE, last, q)
    <3>1. /\ t.disproved = q.disproved /\ t.cons = q.cons
          /\ t.peelFirst = q.peelFirst /\ t.peelLast = q.peelLast \cup {k}
          /\ t.dir[k] = q.dir[k] \cap last
          /\ t.dist[k] = q.dist[k] /\ t.splitAt[k] = q.splitAt[k]
      BY <1>10, <2>2 DEF Peel
    <3> HIDE DEF t
    <3>2. Tells(m, k, t, x, y)
      BY <1>2, <1>7, <3>1 DEF Tells
    <3> QED BY <2>1, <2>2, <3>2 DEF t
  <2> QED BY <1>2, <2>1, <2>2
<1>8. CASE z # 0 /\ z # m.ub[k]
  <2>1. m.ub[k] # NoBound => z < m.ub[k]
    BY <1>0, <1>8
  <2>2. m.ub[k] # NoBound => AbsOf(a) * z < AbsOf(a) * m.ub[k]
    BY <1>0, <1>5, <2>1, TimesLess
  <2>3. AbsOf(a) * z \in Nat /\ (m.ub[k] # NoBound => AbsOf(a) * m.ub[k] \in Nat)
    BY <1>0, <1>5 DEF InLoop
  <2>5. /\ a * z # 0 /\ Rem(a * z, a) = 0 /\ ~(Sign(a) * (a * z) < 0)
        /\ m.ub[k] # NoBound => /\ Sign(a) * (a * z) # AbsOf(a) * m.ub[k]
                                /\ ~(Sign(a) * (a * z) > AbsOf(a) * m.ub[k])
    <3> DEFINE p == AbsOf(a) * z
               l == AbsOf(a) * m.ub[k]
    <3>1. /\ p \in Nat /\ Sign(a) * (a * z) = p
          /\ m.ub[k] # NoBound => l \in Nat /\ p < l
      BY <1>5, <2>2, <2>3
    <3> HIDE DEF p, l
    <3>2. ~(p < 0) /\ (m.ub[k] # NoBound => p # l /\ ~(p > l))
      BY <3>1
    <3> QED BY <1>3, <1>4, <1>8, <3>1, <3>2 DEF p, l
  <2>4. s = q
    BY <2>5 DEF WeakZeroSIV, q
  <2> QED BY <1>2, <2>4
<1> QED BY <1>6, <1>7, <1>8

\* The weak test of [c1] and [c2 + a*i]: what it says about direction and peeling
\* is true of every iteration of the source.
THEOREM WeakZeroSrcSIVSound ==
  ASSUME NEW m, NEW k \in Nat, m.ub[k] \in Bounds, NEW r \in Answers(m),
         NEW a \in Int \ {0}, NEW c1 \in Int, NEW c2 \in Int,
         NEW x, NEW y, InLoop(m, k, x), InLoop(m, k, y),
         c1 = c2 + a * y, Tells(m, k, r, x, y)
  PROVE  Tells(m, k, WeakZeroSrcSIV(m, k, a, c1, c2, r), x, y)
<1> DEFINE line == Line(0, a, c1 - c2, k)
<1>1. x \in Nat /\ y \in Nat /\ y - x \in Int /\ c1 - c2 = a * y
  BY DEF InLoop
<1>2. line \in LinesAt(k) /\ Holds(line, x, y)
  BY <1>1 DEF Line, LinesAt, Holds
<1>3. /\ y = 0 => DirectionOf(y - x) \in {">", "="}
      /\ y = m.ub[k] => DirectionOf(y - x) \in {"<", "="}
  BY <1>1, DirectionCases DEF InLoop, Bounds, NoBound
<1>4. {">", "="} \in SUBSET Directions /\ {"<", "="} \in SUBSET Directions
  BY DEF Directions
<1> HIDE DEF line
<1>5. Tells(m, k, WeakZeroSIV(m, k, line, a, a * y, {">", "="}, {"<", "="}, r), x, y)
  BY <1>1, <1>2, <1>3, <1>4, WeakZeroSound
<1> QED BY <1>1, <1>5 DEF WeakZeroSrcSIV, line

\* The weak test of [c1 + a*i] and [c2], for every iteration of the destination.
THEOREM WeakZeroDstSIVSound ==
  ASSUME NEW m, NEW k \in Nat, m.ub[k] \in Bounds, NEW r \in Answers(m),
         NEW a \in Int \ {0}, NEW c1 \in Int, NEW c2 \in Int,
         NEW x, NEW y, InLoop(m, k, x), InLoop(m, k, y),
         c1 + a * x = c2, Tells(m, k, r, x, y)
  PROVE  Tells(m, k, WeakZeroDstSIV(m, k, a, c1, c2, r), x, y)
<1> DEFINE line == Line(a, 0, c2 - c1, k)
<1>1. x \in Nat /\ y \in Nat /\ y - x \in Int /\ c2 - c1 = a * x
  BY DEF InLoop
<1>2. line \in LinesAt(k) /\ Holds(line, x, y)
  BY <1>1 DEF Line, LinesAt, Holds
<1>3. /\ x = 0 => DirectionOf(y - x) \in {"<", "="}
      /\ x = m.ub[k] => DirectionOf(y - x) \in {">", "="}
  BY <1>1, DirectionCases DEF InLoop, Bounds, NoBound
<1>4. {">", "="} \in SUBSET Directions /\ {"<", "="} \in SUBSET Directions
  BY DEF Directions
<1> HIDE DEF line
<1>5. Tells(m, k, WeakZeroSIV(m, k, line, a, a * x, {"<", "="}, {">", "="}, r), x, y)
  BY <1>1, <1>2, <1>3, <1>4, WeakZeroSound
<1> QED BY <1>1, <1>5 DEF WeakZeroDstSIV, line

\* One iteration of a pair is up to the middle, the other one beyond it.
LEMMA SplitsPair ==
  ASSUME NEW a \in Nat \ {0}, NEW x \in Nat, NEW y \in Nat, x # y
  PROVE  LET t == PositivePart(a * (x + y)) \div (2 * a) IN (x <= t) # (y <= t)
<1> DEFINE t == (a * (x + y)) \div (2 * a)
<1>1. a * (x + y) \in Nat /\ 2 * a \in Nat \ {0}
  OBVIOUS
<1>2. PositivePart(a * (x + y)) = a * (x + y)
  BY <1>1 DEF PositivePart
<1>3. t \in Int /\ (2 * a) * t <= a * (x + y) /\ a * (x + y) < (2 * a) * t + 2 * a
  BY <1>1, DivBounds
<1> HIDE DEF t
<1>4. (2 * a) * t = a * (2 * t) /\ (2 * a) * t + 2 * a = a * (2 * t + 2)
  BY <1>3
<1>5. ~(x + y < 2 * t)
  BY <1>3, <1>4, TimesLess
<1>6. ~(2 * t + 2 < x + y) /\ x + y # 2 * t + 2
  BY <1>3, <1>4, TimesLess
<1>7. (x <= t) # (y <= t)
  BY <1>3, <1>5, <1>6
<1> QED BY <1>2, <1>7 DEF t

\* The crossing test, [c1 + a*i] and [c2 - a*i]: the iterations lie at either
\* side of the one the loop is to be split after, unless they are the same.
THEOREM WeakCrossingSIVSound ==
  ASSUME NEW m, NEW k \in Common(m), m.ub[k] \in Bounds, NEW r \in Answers(m),
         NEW a1 \in Int \ {0}, NEW c1 \in Int, NEW c2 \in Int,
         NEW x, NEW y, InLoop(m, k, x), InLoop(m, k, y),
         c1 + a1 * x = c2 - a1 * y, Tells(m, k, r, x, y)
  PROVE  Tells(m, k, WeakCrossingSIV(m, k, a1, c1, c2, r), x, y)
<1> DEFINE line == Line(a1, a1, c2 - c1, k)
           a == AbsOf(a1)
           delta == Sign(a1) * (c2 - c1)
           q == [Inconsistent(r) EXCEPT !.cons = line]
           split == SplitIteration(delta, a)
           s == [q EXCEPT !.splitable = @ \cup {k},
                          !.splitAt[k] = IF @ # {} THEN @ ELSE {split}]
           last == 2 * a * m.ub[k]
<1>1. /\ x \in Nat /\ y \in Nat /\ y - x \in Int /\ x + y \in Nat /\ c2 - c1 = a1 * (x + y)
      /\ m.ub[k] # NoBound => m.ub[k] \in Nat /\ x <= m.ub[k] /\ y <= m.ub[k]
  BY DEF InLoop, Bounds
<1>2. Holds(line, x, y)
  BY <1>1 DEF Holds, Line
<1>3. a \in Nat \ {0} /\ delta = a * (x + y)
  <2>1. CASE a1 > 0
    BY <1>1, <2>1 DEF AbsOf, Sign
  <2>2. CASE a1 < 0
    BY <1>1, <2>2 DEF AbsOf, Sign
  <2> QED BY <2>1, <2>2
<1>4. delta \in Nat /\ (delta = 0 <=> x + y = 0) /\ (c1 = c2 <=> delta = 0)
  BY <1>1, <1>3
<1>5. delta \div a = x + y /\ delta % a = 0
  <2>1. delta \div a = x + y
    BY <1>1, <1>3, DivExact
  <2> QED BY <1>1, <1>3, <2>1
<1>6. m.ub[k] # NoBound => /\ delta <= last
                           /\ delta = last => x = m.ub[k] /\ y = m.ub[k]
  <2> SUFFICES ASSUME m.ub[k] # NoBound
               PROVE  delta <= last /\ (delta = last => x = m.ub[k] /\ y = m.ub[k])
    OBVIOUS
  <2> DEFINE u == 2 * m.ub[k]
  <2>1. u \in Nat /\ x + y <= u /\ (x + y = u => x = m.ub[k] /\ y = m.ub[k]) /\ last = a * u
    BY <1>1, <1>3
  <2> HIDE DEF u, last, delta, a
  <2>2. CASE x + y = u
    BY <1>3, <2>1, <2>2
  <2>3. CASE x + y < u
    <3>1. a * (x + y) < a * u
      BY <1>1, <1>3, <2>1, <2>3, TimesLess
    <3>2. a * (x + y) \in Nat /\ a * u \in Nat
      BY <1>1, <1>3, <2>1
    <3> QED BY <1>3, <2>1, <3>1, <3>2
  <2> QED BY <1>1, <2>1, <2>2, <2>3
<1>7. x # y => (x <= split) # (y <= split)
  BY <1>1, <1>3, SplitsPair DEF SplitIteration
<1>8. /\ q.disproved = r.disproved /\ q.cons = line
      /\ q.peelFirst = r.peelFirst /\ q.peelLast = r.peelLast
      /\ q.dir = r.dir /\ q.dist = r.dist /\ q.splitAt = r.splitAt
      /\ k \in DOMAIN q.dir /\ k \in DOMAIN q.dist /\ k \in DOMAIN q.splitAt
      /\ DOMAIN q = DOMAIN r /\ {"dir", "dist", "splitAt", "splitable"} \subseteq DOMAIN q
  BY DEF Answers, Inconsistent
<1>9. Tells(m, k, q, x, y)
  BY <1>2, <1>8 DEF Tells
<1> HIDE DEF q
<1>10. /\ s.disproved = q.disproved /\ s.cons = q.cons
       /\ s.peelFirst = q.peelFirst /\ s.peelLast = q.peelLast
       /\ s.dir = q.dir /\ s.dist = q.dist
       /\ s.splitAt[k] = IF q.splitAt[k] # {} THEN q.splitAt[k] ELSE {split}
       /\ k \in DOMAIN s.dir /\ k \in DOMAIN s.dist /\ {"dir", "dist", "splitable"} \subseteq DOMAIN s
  BY <1>8
<1>11. Tells(m, k, s, x, y)
  BY <1>7, <1>9, <1>10 DEF Tells
<1> HIDE DEF s
<1>12. ASSUME NEW e, Tells(m, k, e, x, y), x = y,
              k \in DOMAIN e.dir, k \in DOMAIN e.dist, {"dir", "dist"} \subseteq DOMAIN e
       PROVE  Tells(m, k, OnlyEqual(k, e), x, y)
  <2> DEFINE t == [e EXCEPT !.dir[k] = @ \cap {"="}]
             u == [t EXCEPT !.dist[k] = {0}]
  <2>1. "=" \in e.dir[k] /\ y - x = 0
    BY <1>1, <1>12 DEF Tells, DirectionOf
  <2>2. t.dir[k] = {"="}
    BY <1>12, <2>1
  <2>3. OnlyEqual(k, e) = u
    BY <2>2 DEF OnlyEqual
  <2>4. /\ u.disproved = e.disproved /\ u.cons = e.cons
        /\ u.peelFirst = e.peelFirst /\ u.peelLast = e.peelLast
        /\ u.dir[k] = {"="} /\ u.dist[k] = {0} /\ u.splitAt = e.splitAt
    BY <1>12, <2>2
  <2> HIDE DEF u
  <2>5. Tells(m, k, u, x, y)
    BY <1>1, <1>12, <2>1, <2>4 DEF Tells, DirectionOf
  <2> QED BY <2>3, <2>5
<1> DEFINE R == WeakCrossingSIV(m, k, a1, c1, c2, r)
<1>13. CASE c1 = c2
  <2>1. x = y
    BY <1>1, <1>4, <1>13
  <2>2. R = OnlyEqual(k, q)
    BY <1>13 DEF WeakCrossingSIV, q
  <2>3. Tells(m, k, OnlyEqual(k, q), x, y)
    BY <1>8, <1>9, <1>12, <2>1
  <2> QED BY <2>2, <2>3
<1>14. CASE c1 # c2 /\ m.ub[k] # NoBound /\ delta = last
  <2> DEFINE e == [s EXCEPT !.splitable = @ \ {k}]
  <2>1. x = y
    BY <1>6, <1>14
  <2>2. R = OnlyEqual(k, e)
    BY <1>4, <1>6, <1>14 DEF WeakCrossingSIV, q, s
  <2>3. /\ e.disproved = s.disproved /\ e.cons = s.cons
        /\ e.peelFirst = s.peelFirst /\ e.peelLast = s.peelLast
        /\ e.dir = s.dir /\ e.dist = s.dist /\ e.splitAt = s.splitAt
        /\ k \in DOMAIN e.dir /\ k \in DOMAIN e.dist /\ {"dir", "dist"} \subseteq DOMAIN e
    BY <1>8, <1>10
  <2> HIDE DEF e
  <2>4. Tells(m, k, e, x, y)
    BY <1>11, <2>3 DEF Tells
  <2>5. Tells(m, k, OnlyEqual(k, e), x, y)
    BY <1>12, <2>1, <2>3, <2>4
  <2> QED BY <2>2, <2>5
<1>15. CASE c1 # c2 /\ ~(m.ub[k] # NoBound /\ delta = last)
  <2> DEFINE e == [s EXCEPT !.dir[k] = @ \ {"="}]
  <2>1. ~(delta < 0) /\ ~(m.ub[k] # NoBound /\ delta > last)
    <3>1. m.ub[k] # NoBound => last \in Nat
      BY <1>1, <1>3
    <3> HIDE DEF delta, last
    <3> QED BY <1>4, <1>6, <3>1
  <2>2. R = IF (x + y) % 2 # 0 THEN e ELSE s
    BY <1>5, <1>15, <2>1 DEF WeakCrossingSIV, q, s
  <2>3. CASE (x + y) % 2 # 0
    <3>1. x # y
      <4> SUFFICES ASSUME x = y PROVE FALSE
        OBVIOUS
      <4>1. x + y = 2 * x
        BY <1>1
      <4>2. (2 * x) % 2 = 0
        BY <1>1
      <4> QED BY <2>3, <4>1, <4>2
    <3>2. DirectionOf(y - x) # "="
      BY <1>1, <3>1 DEF DirectionOf
    <3>3. /\ e.disproved = s.disproved /\ e.cons = s.cons
          /\ e.peelFirst = s.peelFirst /\ e.peelLast = s.peelLast
          /\ e.dir[k] = s.dir[k] \ {"="} /\ e.dist = s.dist /\ e.splitAt = s.splitAt
      BY <1>10
    <3> HIDE DEF e
    <3>4. Tells(m, k, e, x, y)
      BY <1>11, <3>2, <3>3 DEF Tells
    <3> QED BY <2>2, <2>3, <3>4
  <2> QED BY <1>11, <2>2, <2>3
<1> QED BY <1>13, <1>14, <1>15

\* The symbolic test of [c1 + a1*i] and [c2 + a2*j]: a pair of iterations that
\* access the same element is never disproved, whatever bounds are known.
THEOREM SymbolicRDIVSound ==
  ASSUME NEW a1 \in Int, NEW a2 \in Int, NEW c1 \in Int, NEW c2 \in Int,
         NEW n1 \in Bounds, NEW n2 \in Bounds, NEW r, NEW x \in Nat, NEW y \in Nat,
         n1 # NoBound => x <= n1, n2 # NoBound => y <= n2,
         c1 + a1 * x = c2 + a2 * y
  PROVE  SymbolicRDIV(a1, a2, c1, c2, n1, n2, r) = r
<1> DEFINE p == a1 * x
           q == a2 * y
           b1 == a1 * n1
           b2 == a2 * n2
<1>1. p \in Int /\ q \in Int /\ c2 - c1 = p - q
  OBVIOUS
<1>2. /\ n1 # NoBound => b1 \in Int
      /\ n2 # NoBound => b2 \in Int
  BY DEF Bounds
<1>3. ASSUME NEW i \in Int, NEW z \in Nat, NEW u \in Nat, z <= u
      PROVE  /\ i >= 0 => 0 <= i * z /\ i * z <= i * u
             /\ i < 0 => i * u <= i * z /\ i * z <= 0
  <2>1. CASE i >= 0
    BY <1>3, <2>1
  <2>2. CASE i < 0
    BY <1>3, <2>2
  <2> QED BY <2>1, <2>2
<1>4. /\ a1 >= 0 => 0 <= p
      /\ a1 < 0 => p <= 0
      /\ n1 # NoBound => (a1 >= 0 => p <= b1) /\ (a1 < 0 => b1 <= p)
  BY <1>3 DEF Bounds
<1>5. /\ a2 >= 0 => 0 <= q
      /\ a2 < 0 => q <= 0
      /\ n2 # NoBound => (a2 >= 0 => q <= b2) /\ (a2 < 0 => b2 <= q)
  BY <1>3 DEF Bounds
<1> HIDE DEF p, q, b1, b2
<1> DEFINE delta == c2 - c1
<1>6. delta \in Int /\ delta = p - q
  BY <1>1
<1> HIDE DEF delta
<1>7. ~ \/ a1 >= 0 /\ a2 >= 0 /\ \/ n1 # NoBound /\ delta > b1
                                 \/ n2 # NoBound /\ b2 < -delta
        \/ a1 >= 0 /\ a2 < 0 /\ \/ n1 # NoBound /\ n2 # NoBound /\ delta > b1 - b2
                                \/ delta < 0
        \/ a1 < 0 /\ a2 >= 0 /\ \/ n1 # NoBound /\ n2 # NoBound /\ b1 - b2 > delta
                                \/ delta > 0
        \/ a1 < 0 /\ a2 < 0 /\ \/ n1 # NoBound /\ b1 > delta
                               \/ n2 # NoBound /\ -delta < b2
  BY <1>1, <1>2, <1>4, <1>5, <1>6
<1> QED BY <1>7 DEF SymbolicRDIV, delta, b1, b2

-----------------------------------------------------------------------------
(* Two constraints on the iterations of a level. *)

\* Cramer's rule.
LEMMA MeetEquations ==
  ASSUME NEW a \in Int, NEW b \in Int, NEW c \in Int,
         NEW d \in Int, NEW e \in Int, NEW f \in Int, NEW x \in Int, NEW y \in Int,
         a * x + b * y = c, d * x + e * y = f
  PROVE  /\ c * e - f * b = (a * e - d * b) * x
         /\ c * d - f * a = (d * b - a * e) * y
OBVIOUS

\* The intersection of constraints both of which hold for a pair of iterations of
\* the loop holds for it as well, so that no pair is lost: where two lines meet is
\* only looked for among iterations, and lines that do not meet are given up.
THEOREM IntersectSound ==
  ASSUME NEW k \in Nat, n.ub[k] \in Bounds,
         NEW X \in {Unconstrained, Empty} \cup LinesAt(k) \cup PointsAt(k),
         NEW Y \in {Unconstrained, Empty} \cup LinesAt(k),
         NEW x, NEW y, InLoop(n, k, x), InLoop(n, k, y),
         Holds(X, x, y), Holds(Y, x, y)
  PROVE  Holds(Intersect(X, Y), x, y)
<1>1. X.kind # "empty" /\ Y.kind # "empty" /\ x \in Nat /\ y \in Nat
  BY DEF Holds, InLoop
<1>2. Unconstrained.kind = "any" /\ Empty.kind = "empty"
  BY DEF Unconstrained, Empty
<1>3. CASE X.kind = "any" \/ Y.kind = "any"
  <2>1. CASE X.kind = "any"
    BY <2>1 DEF Intersect
  <2>2. CASE X.kind # "any" /\ Y.kind = "any"
    BY <2>2 DEF Intersect
  <2> QED BY <1>3, <2>1, <2>2
<1>4. CASE X \in PointsAt(k) /\ Y \in LinesAt(k)
  <2>1. X.kind = "point" /\ Y.kind \in {"line", "distance"}
    BY <1>4 DEF PointsAt, LinesAt
  <2>2. Y.A * X.x + Y.B * X.y = Y.C
    BY <2>1 DEF Holds
  <2> QED BY <2>1, <2>2 DEF Intersect
<1>5. CASE X \in LinesAt(k) /\ Y \in LinesAt(k)
  <2>1. /\ X.kind \in {"line", "distance"} /\ Y.kind \in {"line", "distance"} /\ X.loop = k
        /\ X.A \in Int /\ X.B \in Int /\ X.C \in Int
        /\ Y.A \in Int /\ Y.B \in Int /\ Y.C \in Int
    BY <1>5 DEF LinesAt
  <2>2. X.A * x + X.B * y = X.C /\ Y.A * x + Y.B * y = Y.C
    BY <2>1 DEF Holds
  <2> DEFINE det == X.A * Y.B - Y.A * X.B
  <2>3. /\ X.C * Y.B - Y.C * X.B = det * x
        /\ X.C * Y.A - Y.C * X.A = (Y.A * X.B - X.A * Y.B) * y
    BY <1>1, <2>1, <2>2, MeetEquations
  <2>4. CASE det # 0
    <3>1. X.A * Y.B # X.B * Y.A /\ Y.A * X.B - X.A * Y.B \in Int \ {0} /\ det \in Int \ {0}
      BY <2>1, <2>4
    <3>2. /\ Quot(X.C * Y.B - Y.C * X.B, det) = x /\ Rem(X.C * Y.B - Y.C * X.B, det) = 0
          /\ Quot(X.C * Y.A - Y.C * X.A, Y.A * X.B - X.A * Y.B) = y
          /\ Rem(X.C * Y.A - Y.C * X.A, Y.A * X.B - X.A * Y.B) = 0
      <4> DEFINE bot == Y.A * X.B - X.A * Y.B
      <4>1. x \in Int /\ y \in Int /\ det \in Int \ {0} /\ bot \in Int \ {0}
        BY <1>1, <3>1
      <4> HIDE DEF det, bot
      <4>2. Quot(det * x, det) = x /\ Rem(det * x, det) = 0
        BY <4>1, QuotExact
      <4>3. Quot(bot * y, bot) = y /\ Rem(bot * y, bot) = 0
        BY <4>1, QuotExact
      <4> QED BY <2>3, <4>2, <4>3 DEF bot
    <3>3. ~(x < 0) /\ ~(y < 0) /\ (n.ub[k] # NoBound => ~(x > n.ub[k]) /\ ~(y > n.ub[k]))
      BY <1>1 DEF InLoop, Bounds
    <3>4. Meet(X, Y) = Point(x, y, k)
      BY <2>1, <3>2, <3>3 DEF Meet
    <3>5. Holds(Point(x, y, k), x, y)
      BY DEF Holds, Point
    <3>6. Intersect(X, Y) \in {X, Meet(X, Y)}
      <4>1. CASE X.kind = "distance" /\ Y.kind = "distance"
        BY <1>5, <3>1, <4>1 DEF LinesAt
      <4>2. CASE ~(X.kind = "distance" /\ Y.kind = "distance")
        BY <2>1, <3>1, <4>2 DEF Intersect
      <4> QED BY <4>1, <4>2
    <3> QED BY <3>4, <3>5, <3>6
  <2>5. CASE det = 0
    <3>0. ASSUME X.kind = "distance", Y.kind = "distance" PROVE X.C = Y.C
      BY <1>1, <1>5, <2>2, <3>0 DEF LinesAt
    <3>1. X.C * Y.B = X.B * Y.C
      <4>1. X.C * Y.B - Y.C * X.B = 0
        BY <1>1, <2>3, <2>5
      <4> QED BY <2>1, <4>1
    <3>2. X.A * Y.B = X.B * Y.A
      BY <2>1, <2>5
    <3>3. Intersect(X, Y) = X
      <4>1. CASE X.kind = "distance" /\ Y.kind = "distance"
        BY <3>0, <4>1 DEF Intersect
      <4>2. CASE ~(X.kind = "distance" /\ Y.kind = "distance")
        BY <2>1, <3>1, <3>2, <4>2 DEF Intersect
      <4> QED BY <4>1, <4>2
    <3> QED BY <3>3
  <2> QED BY <2>4, <2>5
<1> QED BY <1>1, <1>2, <1>3, <1>4, <1>5

-----------------------------------------------------------------------------
(* Sums over the loops of a nest.                                           *)

\* G has the sum of every part of I, whatever term is taken out first.
IsSum(f, I, G) ==
  /\ f \in [I -> Int] /\ G \in [SUBSET I -> Int] /\ G[{}] = 0
  /\ \A T \in SUBSET I : \A k \in T : G[T] = f[k] + G[T \ {k}]

Some(T) == CHOOSE k \in T : TRUE
\* SumFunction() is defined by recursion.
LEMMA SumUnfolds ==
  ASSUME NEW f, NEW g,
         g = [T \in SUBSET DOMAIN f |-> IF T = {} THEN 0 ELSE f[Some(T)] + g[T \ {Some(T)}]]
  PROVE  \E G : /\ G = [T \in SUBSET DOMAIN f |->
                          IF T = {} THEN 0 ELSE f[Some(T)] + G[T \ {Some(T)}]]
                /\ SumFunction(f) = G[DOMAIN f]
  BY Zenon DEF SumFunction, SumFunctionOnSet, FoldFunctionOnSet, MapThenFoldSet, Some

\* The sum of a function does not depend on the order of its terms.
LEMMA Sums ==
  ASSUME NEW I, IsFiniteSet(I), NEW f \in [I -> Int]
  PROVE  \E G : IsSum(f, I, G) /\ SumFunction(f) = G[I]
<1> DEFINE N == SUBSET I
           Rest(T) == T \ {Some(T)}
           Term(T, g) == IF T = {} THEN 0 ELSE f[Some(T)] + g[Rest(T)]
           before == [T \in N |-> {U \in N : U \subseteq T /\ U # T}]
           step == [a \in N \X [N -> Int] |-> Term(a[1], a[2])]
<1>1. \A T \in N : T # {} => Some(T) \in T /\ Rest(T) \in N /\ Rest(T) \in before[T]
  BY DEF Some
<1>2. \A T \in N : \A g \in [N -> Int] : Term(T, g) \in Int
  <2>1. SUFFICES ASSUME NEW T \in N, NEW g \in [N -> Int], T # {}
                 PROVE  f[Some(T)] + g[Rest(T)] \in Int
    OBVIOUS
  <2>2. Some(T) \in I /\ Rest(T) \in N
    BY <1>1, <2>1
  <2> HIDE DEF N, Rest
  <2> QED
    BY <2>2
<1>3. \A T \in N : \A g \in [N -> Int] : step[<<T, g>>] = Term(T, g)
  <2> HIDE DEF Term, N
  <2> QED
    OBVIOUS
<1>4. \A T \in N : \A g, h \in [N -> Int] :
        (\A U \in before[T] : g[U] = h[U]) => Term(T, g) = Term(T, h)
  <2> HIDE DEF before, N, Rest
  <2> QED
    BY <1>1
<1>5. NoCycle(N, before)
  <2>1. ASSUME NEW C \in SUBSET N, C # {} PROVE \E T \in C : before[T] \cap C = {}
    <3>1. PICK T \in C : \A U \in C : U \subseteq T => U = T
      BY <2>1, LeastSet
    <3> QED
      BY <3>1
  <2>2. before \in [N -> SUBSET N]
    OBVIOUS
  <2> HIDE DEF before, N
  <2> QED
    BY <2>1, <2>2 DEF NoCycle
<1> HIDE DEF N, before, step, Term
<1>6. \E g : g = [T \in N |-> Term(T, g)]
  <2>1. \A T \in N : \A g \in [N -> Int] : step[<<T, g>>] \in Int
    BY <1>2, <1>3
  <2>2. \A T \in N : \A g, h \in [N -> Int] :
          (\A U \in before[T] : g[U] = h[U]) => step[<<T, g>>] = step[<<T, h>>]
    BY <1>3, <1>4
  <2>3. Equations(N, Int, before, step)
    BY <2>1, <2>2 DEF Equations
  <2>4. PICK g \in [N -> Int] : \A T \in N : g[T] = step[<<T, g>>]
    BY <1>5, <2>3, Recursion
  <2>5. \A T \in N : g[T] = Term(T, g)
    BY <1>3, <2>4
  <2>6. g = [T \in N |-> Term(T, g)]
    BY <2>5
  <2> QED
    BY <2>6
<1>7. PICK G : G = [T \in N |-> Term(T, G)] /\ SumFunction(f) = G[I]
  <2>1. DOMAIN f = I
    OBVIOUS
  <2>2. PICK g : g = [T \in N |-> Term(T, g)]
    BY <1>6
  <2>3. g = [T \in SUBSET DOMAIN f |-> IF T = {} THEN 0 ELSE f[Some(T)] + g[T \ {Some(T)}]]
    BY <2>1, <2>2 DEF N, Term
  <2> QED
    BY <2>1, <2>3, SumUnfolds DEF N, Term
<1>8. G[{}] = 0 /\ \A T \in N : T # {} => G[T] = f[Some(T)] + G[Rest(T)]
  BY <1>7 DEF N, Term
<1> USE DEF N
<1>9. \A T \in N : G[T] \in Int
  <2> DEFINE C == {T \in N : G[T] \notin Int}
  <2>1. SUFFICES ASSUME C # {} PROVE FALSE
    OBVIOUS
  <2>2. PICK T \in C : \A U \in C : U \subseteq T => U = T
    <3>1. C \in SUBSET (SUBSET I)
      OBVIOUS
    <3> HIDE DEF C
    <3> QED
      BY <2>1, <3>1, LeastSet
  <2>3. T # {} /\ T \in N
    <3>1. 0 \in Int
      OBVIOUS
    <3> QED
      BY <1>8, <2>2, <3>1
  <2>4. Rest(T) \in N /\ Rest(T) # T /\ Rest(T) \subseteq T /\ Some(T) \in I
    BY <1>1, <2>3
  <2>5. G[Rest(T)] \in Int
    BY <2>2, <2>4
  <2>6. G[T] = f[Some(T)] + G[Rest(T)]
    BY <1>8, <2>3
  <2>7. f[Some(T)] \in Int
    BY <2>4
  <2> HIDE DEF Rest
  <2> QED
    BY <2>2, <2>5, <2>6, <2>7
<1>10. \A T \in N : \A k \in T : G[T] = f[k] + G[T \ {k}]
  <2> DEFINE C == {T \in N : \E k \in T : G[T] # f[k] + G[T \ {k}]}
  <2>1. SUFFICES ASSUME C # {} PROVE FALSE
    OBVIOUS
  <2>2. PICK T \in C : \A U \in C : U \subseteq T => U = T
    <3>1. C \in SUBSET (SUBSET I)
      OBVIOUS
    <3> HIDE DEF C
    <3> QED
      BY <2>1, <3>1, LeastSet
  <2>3. PICK k \in T : G[T] # f[k] + G[T \ {k}]
    OBVIOUS
  <2> DEFINE c == Some(T)
  <2>4. c \in T /\ T \in N /\ G[T] = f[c] + G[T \ {c}]
    BY <1>1, <1>8, <2>3
  <2> HIDE DEF c
  <2>5. c # k
    BY <2>3, <2>4
  <2>6. T \ {c} \in N /\ T \ {c} \notin C /\ T \ {k} \in N /\ T \ {k} \notin C
    BY <2>2, <2>3, <2>4
  <2>7. G[T \ {c}] = f[k] + G[(T \ {c}) \ {k}]
    BY <2>5, <2>6
  <2>8. G[T \ {k}] = f[c] + G[(T \ {k}) \ {c}]
    BY <2>4, <2>5, <2>6
  <2>9. (T \ {c}) \ {k} = (T \ {k}) \ {c} /\ (T \ {k}) \ {c} \in N
    BY <2>4
  <2>10. f[c] \in Int /\ f[k] \in Int /\ G[(T \ {k}) \ {c}] \in Int
    BY <1>9, <2>4, <2>9
  <2> DEFINE z == G[(T \ {k}) \ {c}]
  <2>11. G[T] = f[c] + (f[k] + z) /\ G[T \ {k}] = f[c] + z
    BY <2>4, <2>7, <2>8, <2>9
  <2>12. z \in Int
    BY <2>10
  <2> HIDE DEF z
  <2> QED
    BY <2>3, <2>10, <2>11, <2>12
<1>11. G \in [N -> Int]
  BY <1>7, <1>9
<1> QED
  BY <1>7, <1>8, <1>10, <1>11 DEF IsSum

\* Terms that are zero do not count.
LEMMA SumsAgree ==
  ASSUME NEW I, IsFiniteSet(I), NEW J \in SUBSET I, NEW f \in [I -> Int], NEW h \in [J -> Int],
         \A k \in J : f[k] = h[k], \A k \in I \ J : f[k] = 0
  PROVE  SumFunction(f) = SumFunction(h) /\ SumFunction(f) \in Int
<1>1. IsFiniteSet(J)
  BY FS_Subset
<1>2. PICK F : IsSum(f, I, F) /\ SumFunction(f) = F[I]
  BY Sums
<1>3. PICK H : IsSum(h, J, H) /\ SumFunction(h) = H[J]
  BY <1>1, Sums
<1> DEFINE C == {T \in SUBSET I : F[T] # H[T \cap J]}
<1>4. ASSUME C # {} PROVE FALSE
  <2>1. PICK T \in C : \A U \in C : U \subseteq T => U = T
    <3>1. C \in SUBSET (SUBSET I)
      OBVIOUS
    <3> HIDE DEF C
    <3> QED
      BY <1>4, <3>1, LeastSet
  <2>2. T # {}
    <3>1. F[{}] = 0 /\ H[{}] = 0
      BY <1>2, <1>3 DEF IsSum
    <3>2. {} \cap J = {}
      OBVIOUS
    <3> QED
      BY <2>1, <3>1, <3>2
  <2>3. PICK k \in T : TRUE
    BY <2>2
  <2>4. F[T] = f[k] + F[T \ {k}] /\ F[T \ {k}] \in Int /\ T \in SUBSET I
    BY <1>2, <2>1 DEF IsSum
  <2>5. F[T \ {k}] = H[(T \ {k}) \cap J]
    BY <2>1, <2>3, <2>4
  <2>6. CASE k \in J
    <3>1. H[T \cap J] = h[k] + H[(T \cap J) \ {k}]
      BY <1>3, <2>3, <2>6 DEF IsSum
    <3>2. (T \cap J) \ {k} = (T \ {k}) \cap J
      OBVIOUS
    <3> QED
      BY <2>1, <2>4, <2>5, <2>6, <3>1, <3>2
  <2>7. CASE k \notin J
    <3>1. (T \ {k}) \cap J = T \cap J
      BY <2>7
    <3>2. f[k] = 0
      BY <2>4, <2>7
    <3> QED
      BY <2>1, <2>4, <2>5, <3>1, <3>2
  <2> QED
    BY <2>6, <2>7
<1>5. F[I] = H[I \cap J] /\ I \cap J = J
  BY <1>4
<1>6. F[I] \in Int
  BY <1>2 DEF IsSum
<1> QED
  BY <1>2, <1>3, <1>5, <1>6

\* One term of a sum, and what is left without it.
LEMMA SumWithout ==
  ASSUME NEW I, IsFiniteSet(I), NEW f \in [I -> Int], NEW k \in I
  PROVE  /\ SumFunction(f) \in Int
         /\ SumFunction(f) = f[k] + SumFunction([f EXCEPT ![k] = 0])
<1> DEFINE J == I \ {k}
           h == [j \in J |-> f[j]]
           e == [f EXCEPT ![k] = 0]
<1>1. PICK F : IsSum(f, I, F) /\ SumFunction(f) = F[I]
  BY Sums
<1>0. e \in [I -> Int] /\ e[k] = 0 /\ \A j \in J : e[j] = f[j]
  OBVIOUS
<1> HIDE DEF e
<1>2. PICK E : IsSum(e, I, E) /\ SumFunction(e) = E[I]
  BY <1>0, Sums
<1>f. /\ F[{}] = 0 /\ E[{}] = 0
      /\ \A T \in SUBSET I : \A j \in T : F[T] = f[j] + F[T \ {j}] /\ E[T] = e[j] + E[T \ {j}]
      /\ \A T \in SUBSET I : F[T] \in Int /\ E[T] \in Int
  BY <1>1, <1>2 DEF IsSum
<1>3. F[I] = f[k] + F[J] /\ E[I] = 0 + E[J] /\ E[J] \in Int /\ F[I] \in Int
  BY <1>0, <1>f
<1> DEFINE C == {T \in SUBSET J : F[T] # E[T]}
<1>4. ASSUME C # {} PROVE FALSE
  <2>1. PICK T \in C : \A U \in C : U \subseteq T => U = T
    <3>1. C \in SUBSET (SUBSET J) /\ IsFiniteSet(J)
      BY FS_Subset
    <3> HIDE DEF C, J
    <3> QED
      BY <1>4, <3>1, LeastSet
  <2>2. T # {}
    BY <1>f, <2>1
  <2>3. PICK j \in T : TRUE
    BY <2>2
  <2>4. F[T] = f[j] + F[T \ {j}] /\ E[T] = e[j] + E[T \ {j}]
    BY <1>f, <2>1, <2>3
  <2>5. e[j] = f[j]
    BY <1>0, <2>1, <2>3
  <2>6. F[T \ {j}] = E[T \ {j}]
    BY <2>1, <2>3
  <2> QED
    BY <2>1, <2>4, <2>5, <2>6
<1>5. F[J] = E[J]
  BY <1>4
<1> QED
  BY <1>1, <1>2, <1>3, <1>5 DEF e

\* One term of a sum is changed.
LEMMA SumUpdate ==
  ASSUME NEW I, IsFiniteSet(I), NEW f \in [I -> Int], NEW k \in I, NEW v \in Int
  PROVE  SumFunction([f EXCEPT ![k] = v]) = SumFunction(f) - f[k] + v
<1> DEFINE e == [f EXCEPT ![k] = v]
           rest == SumFunction([f EXCEPT ![k] = 0])
<1>1. SumFunction(f) \in Int /\ SumFunction(f) = f[k] + rest
  BY SumWithout
<1>2. e \in [I -> Int] /\ e[k] = v /\ [e EXCEPT ![k] = 0] = [f EXCEPT ![k] = 0]
  OBVIOUS
<1> HIDE DEF e
<1>3. SumFunction(e) = v + rest
  <2>1. SumFunction(e) = e[k] + SumFunction([e EXCEPT ![k] = 0])
    BY <1>2, SumWithout
  <2> QED
    BY <1>2, <2>1
<1>4. rest \in Int /\ f[k] \in Int
  <2>1. [f EXCEPT ![k] = 0] \in [I -> Int]
    OBVIOUS
  <2> QED
    BY <2>1, SumWithout
<1> HIDE DEF rest
<1> QED
  BY <1>1, <1>3, <1>4 DEF e

\* A sum of multiples.
LEMMA SumScale ==
  ASSUME NEW I, IsFiniteSet(I), NEW f \in [I -> Int], NEW i \in Int,
         NEW h \in [I -> Int], \A k \in I : h[k] = i * f[k]
  PROVE  SumFunction(h) = i * SumFunction(f)
<1>1. PICK F : IsSum(f, I, F) /\ SumFunction(f) = F[I]
  BY Sums
<1>2. PICK H : IsSum(h, I, H) /\ SumFunction(h) = H[I]
  BY Sums
<1> DEFINE C == {T \in SUBSET I : H[T] # i * F[T]}
<1>3. ASSUME C # {} PROVE FALSE
  <2>1. PICK T \in C : \A U \in C : U \subseteq T => U = T
    <3>1. C \in SUBSET (SUBSET I)
      OBVIOUS
    <3> HIDE DEF C
    <3> QED
      BY <1>3, <3>1, LeastSet
  <2>2. T # {}
    <3>1. F[{}] = 0 /\ H[{}] = 0 /\ i * 0 = 0
      BY <1>1, <1>2 DEF IsSum
    <3> QED
      BY <2>1, <3>1
  <2>3. PICK j \in T : TRUE
    BY <2>2
  <2>4. H[T] = h[j] + H[T \ {j}] /\ F[T] = f[j] + F[T \ {j}]
    BY <1>1, <1>2, <2>1, <2>3 DEF IsSum
  <2>5. h[j] = i * f[j] /\ f[j] \in Int /\ F[T \ {j}] \in Int
    BY <1>1, <2>1, <2>3 DEF IsSum
  <2>6. H[T \ {j}] = i * F[T \ {j}]
    BY <2>1, <2>3
  <2>7. i * (f[j] + F[T \ {j}]) = i * f[j] + i * F[T \ {j}]
    BY <2>5
  <2> QED
    BY <2>1, <2>4, <2>5, <2>6, <2>7
<1> QED
  BY <1>1, <1>2, <1>3

-----------------------------------------------------------------------------
(* Values of subscripts, at iterations X of all levels.                     *)

Linear(I) == [c : Int, a : [I -> Int]]
Terms(s, X) == [k \in DOMAIN s.a |-> s.a[k] * X[k]]
Eval(s, X) == s.c + SumFunction(Terms(s, X))

\* What the operations of the analysis do to a subscript does to its value.
LEMMA Evaluations ==
  ASSUME NEW I, IsFiniteSet(I), NEW X \in [I -> Int], NEW s \in Linear(I), NEW k \in I, NEW i \in Int
  PROVE  /\ Eval(s, X) \in Int
         /\ Zero(s, k) \in Linear(I) /\ Eval(Zero(s, k), X) = Eval(s, X) - s.a[k] * X[k]
         /\ AddTo(s, k, i) \in Linear(I) /\ Eval(AddTo(s, k, i), X) = Eval(s, X) + i * X[k]
         /\ Shift(s, i) \in Linear(I) /\ Eval(Shift(s, i), X) = Eval(s, X) + i
         /\ Scale(s, i) \in Linear(I) /\ Eval(Scale(s, i), X) = i * Eval(s, X)
<1>1. s.c \in Int /\ s.a \in [I -> Int] /\ Terms(s, X) \in [I -> Int]
      /\ Terms(s, X)[k] = s.a[k] * X[k] /\ s.a[k] \in Int /\ X[k] \in Int
  BY DEF Linear, Terms
<1> DEFINE sum == SumFunction(Terms(s, X))
           p == s.a[k] * X[k]
<1>2. sum \in Int /\ Eval(s, X) = s.c + sum /\ Eval(s, X) \in Int
  <2>1. sum \in Int
    BY <1>1, SumWithout
  <2>2. Eval(s, X) = s.c + sum
    BY DEF Eval
  <2> HIDE DEF sum
  <2> QED
    BY <1>1, <2>1, <2>2
<1>p. p \in Int
  BY <1>1
<1>3. Zero(s, k) \in Linear(I) /\ Eval(Zero(s, k), X) = Eval(s, X) - p
  <2> DEFINE t == Zero(s, k)
  <2>1. t \in Linear(I) /\ t.c = s.c /\ t.a = [s.a EXCEPT ![k] = 0]
    BY DEF Zero, Linear
  <2> HIDE DEF t
  <2>2. Terms(t, X) = [Terms(s, X) EXCEPT ![k] = 0]
    <3>1. Terms(t, X) \in [I -> Int] /\ \A j \in I : Terms(t, X)[j] = t.a[j] * X[j]
      BY <2>1 DEF Terms, Linear
    <3>2. \A j \in I \ {k} : t.a[j] = s.a[j]
      BY <1>1, <2>1
    <3>3. t.a[k] = 0 /\ 0 * X[k] = 0
      BY <1>1, <2>1
    <3>4. \A j \in I \ {k} : Terms(s, X)[j] = s.a[j] * X[j]
      BY <1>1 DEF Terms
    <3> QED
      BY <1>1, <3>1, <3>2, <3>3, <3>4
  <2>3. SumFunction(Terms(t, X)) = sum - p + 0
    <3>1. \A v \in Int : SumFunction([Terms(s, X) EXCEPT ![k] = v])
                            = sum - Terms(s, X)[k] + v
      BY <1>1, SumUpdate
    <3> DEFINE e == [Terms(s, X) EXCEPT ![k] = 0]
    <3>2. SumFunction(e) = sum - Terms(s, X)[k] + 0
      <4>1. 0 \in Int
        OBVIOUS
      <4> HIDE DEF sum
      <4> QED
        BY ONLY <3>1, <4>1
    <3> HIDE DEF e
    <3>3. Terms(t, X) = e
      BY <2>2 DEF e
    <3> QED
      BY <1>1, <3>2, <3>3
  <2> HIDE DEF sum, t, p
  <2> QED
    BY <1>1, <1>2, <1>p, <2>1, <2>3 DEF Eval, t
<1>4. AddTo(s, k, i) \in Linear(I) /\ Eval(AddTo(s, k, i), X) = Eval(s, X) + i * X[k]
  <2> DEFINE t == AddTo(s, k, i)
             v == p + i * X[k]
  <2>1. t \in Linear(I) /\ t.c = s.c /\ t.a = [s.a EXCEPT ![k] = s.a[k] + i]
    BY DEF AddTo, Linear
  <2>2. (s.a[k] + i) * X[k] = v /\ v \in Int /\ i * X[k] \in Int
    BY <1>1
  <2> HIDE DEF t
  <2>3. Terms(t, X) = [Terms(s, X) EXCEPT ![k] = v]
    <3>1. Terms(t, X) \in [I -> Int] /\ \A j \in I : Terms(t, X)[j] = t.a[j] * X[j]
      BY <2>1 DEF Terms, Linear
    <3>2. \A j \in I \ {k} : t.a[j] = s.a[j]
      BY <1>1, <2>1
    <3>3. t.a[k] = s.a[k] + i
      BY <1>1, <2>1
    <3>4. \A j \in I \ {k} : Terms(s, X)[j] = s.a[j] * X[j]
      BY <1>1 DEF Terms
    <3> HIDE DEF v
    <3> QED
      BY <1>1, <2>2, <3>1, <3>2, <3>3, <3>4
  <2>4. SumFunction(Terms(t, X)) = sum - p + v
    <3> HIDE DEF v
    <3>1. SumFunction([Terms(s, X) EXCEPT ![k] = v]) = sum - Terms(s, X)[k] + v
      BY <1>1, <2>2, SumUpdate
    <3> QED
      BY <1>1, <2>3, <3>1
  <2> HIDE DEF sum, t, p
  <2> QED
    BY <1>1, <1>2, <1>p, <2>1, <2>2, <2>4 DEF Eval, t
<1>5. Shift(s, i) \in Linear(I) /\ Eval(Shift(s, i), X) = Eval(s, X) + i
  <2> DEFINE t == Shift(s, i)
  <2>1. t \in Linear(I) /\ t.c = s.c + i /\ t.a = s.a
    BY DEF Shift, Linear
  <2>2. Terms(t, X) = Terms(s, X)
    BY <2>1 DEF Terms
  <2> HIDE DEF sum, t
  <2> QED
    BY <1>1, <1>2, <2>1, <2>2 DEF Eval, t, sum
<1>6. Scale(s, i) \in Linear(I) /\ Eval(Scale(s, i), X) = i * Eval(s, X)
  <2> DEFINE t == Scale(s, i)
  <2>1. t \in Linear(I) /\ t.c = i * s.c /\ t.a \in [I -> Int] /\ \A j \in I : t.a[j] = i * s.a[j]
    BY <1>1 DEF Scale, Linear
  <2>2. \A j \in I : Terms(t, X)[j] = i * Terms(s, X)[j]
    <3>1. SUFFICES ASSUME NEW j \in I PROVE Terms(t, X)[j] = i * Terms(s, X)[j]
      OBVIOUS
    <3>2. Terms(t, X)[j] = (i * s.a[j]) * X[j] /\ Terms(s, X)[j] = s.a[j] * X[j]
          /\ s.a[j] \in Int /\ X[j] \in Int
      BY <1>1, <2>1 DEF Terms
    <3> QED
      BY <3>2
  <2>3. Terms(t, X) \in [I -> Int]
    BY <2>1 DEF Terms
  <2>4. SumFunction(Terms(t, X)) = i * sum
    BY <1>1, <2>2, <2>3, SumScale
  <2>5. i * (s.c + sum) = i * s.c + i * sum
    BY <1>1, <1>2
  <2> HIDE DEF sum, t
  <2> QED
    BY <1>1, <1>2, <2>1, <2>4, <2>5 DEF Eval, t
<1> QED
  BY <1>2, <1>3, <1>4, <1>5, <1>6

\* A subscript of one loop, or of none.
LEMMA OneLevel ==
  ASSUME NEW I, IsFiniteSet(I), NEW X \in [I -> Int], NEW s \in Linear(I), NEW k \in I,
         \A j \in I \ {k} : s.a[j] = 0
  PROVE  Eval(s, X) = s.c + s.a[k] * X[k]
<1> DEFINE z == [Terms(s, X) EXCEPT ![k] = 0]
           e == [j \in {} |-> 0]
<1>1. s.c \in Int /\ s.a \in [I -> Int] /\ Terms(s, X) \in [I -> Int]
      /\ \A j \in I : Terms(s, X)[j] = s.a[j] * X[j] /\ s.a[j] \in Int /\ X[j] \in Int
  BY DEF Linear, Terms
<1>2. z \in [I -> Int] /\ \A j \in I : z[j] = 0
  BY <1>1
<1>3. SumFunction(Terms(s, X)) = s.a[k] * X[k] + SumFunction(z)
  BY <1>1, SumWithout
<1> HIDE DEF z
<1>4. SumFunction(z) = 0
  <2> DEFINE h == [j \in I |-> 0 * z[j]]
  <2>1. \A j \in I : z[j] = 0 * z[j]
    BY <1>2
  <2>2. SumFunction(z) = 0 * SumFunction(z)
    BY <1>2, <2>1, SumScale
  <2>3. SumFunction(z) \in Int
    BY <1>2, SumWithout
  <2> QED
    BY <2>2, <2>3
<1> QED
  BY <1>1, <1>3, <1>4 DEF Eval

-----------------------------------------------------------------------------
(* The nest of two accesses, and what the subscripts of both are there.     *)

IsNest(m) ==
  /\ m.common \in Nat /\ m.src \in Nat /\ m.max \in Nat
  /\ m.common <= m.src /\ m.src <= m.max
  /\ m.ub \in [Levels(m) -> Bounds]
\* An access mentions only the loops around it.
Within(m, D) == {s \in Linear(Levels(m)) : Mentioned(m, s) \subseteq D}
SrcSubscripts(m) == Within(m, SrcLevels(m))
DstSubscripts(m) == Within(m, DstLevels(m))
SubscriptPairs(m) == [src : SrcSubscripts(m), dst : DstSubscripts(m)]
\* Iterations of all levels; the ones of loops that are not around an access
\* do not matter to it.
Whole(m, x) == [k \in Levels(m) |-> IF k \in DOMAIN x THEN x[k] ELSE 0]
InNest(m, X) == X \in [Levels(m) -> Nat] /\ \A k \in Levels(m) : InLoop(m, k, X[k])

\* The levels of a nest.
LEMMA NestLevels ==
  ASSUME NEW m, IsNest(m)
  PROVE  /\ IsFiniteSet(Levels(m)) /\ Levels(m) \subseteq Nat
         /\ Common(m) \subseteq Levels(m)
         /\ SrcLevels(m) \subseteq Levels(m) /\ DstLevels(m) \subseteq Levels(m)
         /\ Common(m) = SrcLevels(m) \cap DstLevels(m)
<1>1. IsFiniteSet(1 .. m.max)
  <2>1. m.max \in Int /\ 1 \in Int
    BY DEF IsNest
  <2> QED
    BY <2>1, FS_Interval
<1> QED
  BY <1>1 DEF IsNest, Levels, Common, SrcLevels, DstLevels

\* An empty sum.
LEMMA SumOfNothing ==
  ASSUME NEW f \in [{} -> Int]
  PROVE  SumFunction(f) = 0
<1>1. IsFiniteSet({})
  BY FS_EmptySet
<1>2. PICK G : IsSum(f, {}, G) /\ SumFunction(f) = G[{}]
  BY <1>1, Sums
<1> QED
  BY <1>2 DEF IsSum

\* The value of a subscript in the loops it mentions is its value in all loops.
LEMMA ValueIsEval ==
  ASSUME NEW m, IsNest(m), NEW D \in SUBSET Levels(m), NEW x \in [D -> Nat],
         NEW s \in Linear(Levels(m))
  PROVE  /\ Mentioned(m, s) \subseteq D => Value(m, s, x) = Eval(s, Whole(m, x))
         /\ s.c + SumFunction([k \in DOMAIN x |-> s.a[k] * x[k]]) = Eval(s, Whole(m, x))
<1> DEFINE X == Whole(m, x)
           t == Terms(s, X)
<1>1. IsFiniteSet(Levels(m)) /\ s.a \in [Levels(m) -> Int]
  BY NestLevels DEF Linear
<1>2. X \in [Levels(m) -> Int] /\ (\A k \in D : X[k] = x[k]) /\ \A k \in Levels(m) \ D : X[k] = 0
  BY DEF Whole
<1> HIDE DEF X
<1>3. t \in [Levels(m) -> Int] /\ \A k \in Levels(m) : t[k] = s.a[k] * X[k]
  BY <1>1, <1>2 DEF Terms
<1> HIDE DEF t
<1>4. ASSUME NEW J \in SUBSET D, \A k \in D \ J : s.a[k] = 0
      PROVE  SumFunction([k \in J |-> s.a[k] * x[k]]) = SumFunction(t)
  <2> DEFINE h == [k \in J |-> s.a[k] * x[k]]
  <2>1. h \in [J -> Int] /\ \A k \in J : h[k] = s.a[k] * x[k]
    BY <1>1
  <2> HIDE DEF h
  <2>2. \A k \in J : t[k] = h[k]
    BY <1>2, <1>3, <2>1
  <2>3. \A k \in Levels(m) \ J : t[k] = 0
    <3>1. SUFFICES ASSUME NEW k \in Levels(m) \ J PROVE t[k] = 0
      OBVIOUS
    <3>2. t[k] = s.a[k] * X[k] /\ s.a[k] \in Int /\ X[k] \in Int
      BY <1>1, <1>2, <1>3
    <3>3. s.a[k] = 0 \/ X[k] = 0
      BY <1>2, <1>4
    <3> QED
      BY <3>2, <3>3
  <2>4. J \in SUBSET Levels(m)
    OBVIOUS
  <2>5. SumFunction(t) = SumFunction(h)
    BY <1>1, <1>3, <2>1, <2>2, <2>3, <2>4, SumsAgree
  <2> QED
    BY <2>5 DEF h
<1>5. ASSUME Mentioned(m, s) \subseteq D
      PROVE  Value(m, s, x) = Eval(s, X)
  <2>1. \A k \in D \ Mentioned(m, s) : s.a[k] = 0
    BY DEF Mentioned
  <2> HIDE DEF t
  <2>2. SumFunction([k \in Mentioned(m, s) |-> s.a[k] * x[k]]) = SumFunction(t)
    BY <1>4, <1>5, <2>1
  <2> QED
    BY <2>2 DEF Value, Eval, t
<1>6. s.c + SumFunction([k \in DOMAIN x |-> s.a[k] * x[k]]) = Eval(s, X)
  <2>1. SumFunction([k \in D |-> s.a[k] * x[k]]) = SumFunction(t)
    BY <1>4
  <2> QED
    BY <2>1 DEF Eval, t
<1> QED
  BY <1>5, <1>6 DEF X

\* A subscript in the loops of its access is one in the loops of the nest.
LEMMA MappedSubscripts ==
  ASSUME NEW m, IsNest(m), NEW depth \in Nat, NEW s \in [c : Int, a : [1 .. depth -> Int]]
  PROVE  /\ (\A o \in 1 .. depth : MapSrcLoop(m, o) \in SrcLevels(m)) =>
              Mapped(m, s, MapSrcLoop) \in SrcSubscripts(m)
         /\ (\A o \in 1 .. depth : MapDstLoop(m, o) \in DstLevels(m)) =>
              Mapped(m, s, MapDstLoop) \in DstSubscripts(m)
<1>1. s.c \in Int /\ s.a \in [1 .. depth -> Int] /\ DOMAIN s.a = 1 .. depth /\ IsFiniteSet(1 .. depth)
  BY FS_Interval
<1>2. ASSUME NEW J \in SUBSET (1 .. depth)
      PROVE  /\ SumFunction([o \in J |-> s.a[o]]) \in Int
             /\ J = {} => SumFunction([o \in J |-> s.a[o]]) = 0
  <2> DEFINE h == [o \in J |-> s.a[o]]
  <2>1. h \in [J -> Int] /\ IsFiniteSet(J)
    BY <1>1, FS_Subset
  <2> HIDE DEF h
  <2>2. SumFunction(h) \in Int
    <3>1. (\A k \in J : h[k] = h[k]) /\ (\A k \in J \ J : h[k] = 0) /\ J \in SUBSET J
      OBVIOUS
    <3> QED
      BY <2>1, <3>1, SumsAgree
  <2>3. J = {} => SumFunction(h) = 0
    BY <2>1, SumOfNothing
  <2> QED
    BY <2>2, <2>3 DEF h
<1>3. ASSUME \A o \in 1 .. depth : MapSrcLoop(m, o) \in SrcLevels(m)
      PROVE  Mapped(m, s, MapSrcLoop) \in SrcSubscripts(m)
  <2> DEFINE t == Mapped(m, s, MapSrcLoop)
             J(k) == {o \in 1 .. depth : MapSrcLoop(m, o) = k}
  <2>1. /\ t = [c |-> s.c, a |-> [k \in Levels(m) |-> SumFunction([o \in J(k) |-> s.a[o]])]]
    BY <1>1 DEF Mapped
  <2>2. \A k \in Levels(m) : t.a[k] = SumFunction([o \in J(k) |-> s.a[o]])
    BY <2>1
  <2>3. \A k : J(k) \in SUBSET (1 .. depth) /\ (J(k) # {} => k \in SrcLevels(m))
    BY <1>3
  <2> HIDE DEF t, J
  <2>4. \A k \in Levels(m) : t.a[k] \in Int /\ (J(k) = {} => t.a[k] = 0)
    BY <1>2, <2>2, <2>3
  <2>5. t \in Linear(Levels(m))
    BY <1>1, <2>1, <2>2, <2>4 DEF Linear
  <2>6. Mentioned(m, t) \subseteq SrcLevels(m)
    BY <2>3, <2>4 DEF Mentioned
  <2> QED
    BY <2>5, <2>6 DEF SrcSubscripts, Within, t
<1>4. ASSUME \A o \in 1 .. depth : MapDstLoop(m, o) \in DstLevels(m)
      PROVE  Mapped(m, s, MapDstLoop) \in DstSubscripts(m)
  <2> DEFINE t == Mapped(m, s, MapDstLoop)
             J(k) == {o \in 1 .. depth : MapDstLoop(m, o) = k}
  <2>1. /\ t = [c |-> s.c, a |-> [k \in Levels(m) |-> SumFunction([o \in J(k) |-> s.a[o]])]]
    BY <1>1 DEF Mapped
  <2>2. \A k \in Levels(m) : t.a[k] = SumFunction([o \in J(k) |-> s.a[o]])
    BY <2>1
  <2>3. \A k : J(k) \in SUBSET (1 .. depth) /\ (J(k) # {} => k \in DstLevels(m))
    BY <1>4
  <2> HIDE DEF t, J
  <2>4. \A k \in Levels(m) : t.a[k] \in Int /\ (J(k) = {} => t.a[k] = 0)
    BY <1>2, <2>2, <2>3
  <2>5. t \in Linear(Levels(m))
    BY <1>1, <2>1, <2>2, <2>4 DEF Linear
  <2>6. Mentioned(m, t) \subseteq DstLevels(m)
    BY <2>3, <2>4 DEF Mentioned
  <2> QED
    BY <2>5, <2>6 DEF DstSubscripts, Within, t
<1> QED
  BY <1>3, <1>4

\* Lengths of sequences.
LEMMA Sequence ==
  ASSUME NEW S, NEW s \in Seq(S)
  PROVE  /\ Len(s) \in Nat /\ s \in [1 .. Len(s) -> S] /\ DOMAIN s = 1 .. Len(s)
         /\ \A t \in Seq(S) : s \o t \in Seq(S) /\ Len(s \o t) = Len(s) + Len(t)
OBVIOUS

\* The nest of two accesses of a program.
LEMMA NestOfPair ==
  ASSUME NEW P \in Programs, NEW p \in Pairs(P)
  PROVE  /\ IsNest(Nest(P, p)) /\ p[1] \in Accesses(P) /\ p[2] \in Accesses(P)
         /\ Depth(P, p[1]) \in Nat /\ Depth(P, p[2]) \in Nat
         /\ \A o \in 1 .. Depth(P, p[1]) : MapSrcLoop(Nest(P, p), o) \in SrcLevels(Nest(P, p))
         /\ \A o \in 1 .. Depth(P, p[2]) : MapDstLoop(Nest(P, p), o) \in DstLevels(Nest(P, p))
<1> DEFINE m == Nest(P, p)
           c == P.common
           s == P.accesses[p[1]].own
           d == P.accesses[p[2]].own
           own == IF p[1] = p[2] THEN <<>> ELSE d
<1>1. p[1] \in Accesses(P) /\ p[2] \in Accesses(P)
  BY DEF Pairs
<1>2. c \in Seq(Bounds) /\ s \in Seq(Bounds) /\ d \in Seq(Bounds)
  BY <1>1, Inputs DEF Bounds
<1>3. Len(c) \in Nat /\ Len(s) \in Nat /\ Len(d) \in Nat
  BY <1>2, Sequence
<1>4. Depth(P, p[1]) = Len(c) + Len(s) /\ Depth(P, p[2]) = Len(c) + Len(d)
  BY DEF Depth
<1>5. own \in Seq(Bounds) /\ Len(own) = (IF p[1] = p[2] THEN 0 ELSE Len(d))
  BY <1>2
<1>6. m.common = CommonOf(P, p) /\ m.src = Depth(P, p[1])
      /\ m.max = Depth(P, p[1]) + Depth(P, p[2]) - CommonOf(P, p)
      /\ m.ub = c \o s \o own
  BY DEF Nest
<1>7. CommonOf(P, p) = IF p[1] = p[2] THEN Len(c) + Len(s) ELSE Len(c)
  BY <1>4 DEF CommonOf
<1> HIDE DEF m, c, s, d, own
<1>8. m.common \in Nat /\ m.src \in Nat /\ m.max \in Nat /\ m.common <= m.src /\ m.src <= m.max
      /\ m.max = Len(c) + Len(s) + Len(own)
  <2>1. p[1] = p[2] => Len(s) = Len(d)
    BY DEF s, d
  <2> DEFINE lc == Len(c)
             ls == Len(s)
             ld == Len(d)
             lo == Len(own)
             com == CommonOf(P, p)
  <2>2. /\ lc \in Nat /\ ls \in Nat /\ ld \in Nat /\ (p[1] = p[2] => ls = ld)
        /\ lo = (IF p[1] = p[2] THEN 0 ELSE ld) /\ com = (IF p[1] = p[2] THEN lc + ls ELSE lc)
        /\ m.common = com /\ m.src = lc + ls /\ m.max = (lc + ls) + (lc + ld) - com
    BY <1>3, <1>4, <1>5, <1>6, <1>7, <2>1
  <2> HIDE DEF lc, ls, ld, lo, com
  <2>3. m.common \in Nat /\ m.src \in Nat /\ m.max \in Nat /\ m.common <= m.src /\ m.src <= m.max
        /\ m.max = lc + ls + lo
    <3>1. CASE p[1] = p[2]
      BY <2>2, <3>1
    <3>2. CASE p[1] # p[2]
      BY <2>2, <3>2
    <3> QED
      BY <3>1, <3>2
  <2> QED
    BY <2>3 DEF lc, ls, lo
<1>9. m.ub \in [Levels(m) -> Bounds]
  <2>1. c \o s \in Seq(Bounds) /\ Len(c \o s) = Len(c) + Len(s)
    BY <1>2, Sequence
  <2>2. (c \o s) \o own \in Seq(Bounds) /\ Len((c \o s) \o own) = Len(c \o s) + Len(own)
    BY <1>5, <2>1, Sequence
  <2>3. m.ub \in [1 .. Len(m.ub) -> Bounds] /\ Len(m.ub) = m.max
    <3>1. m.ub \in Seq(Bounds) /\ Len(m.ub) = m.max
      BY <1>6, <1>8, <2>1, <2>2
    <3> QED
      BY <3>1, Sequence
  <2> QED
    BY <2>3 DEF Levels
<1>10. \A o \in 1 .. Depth(P, p[1]) : MapSrcLoop(m, o) \in SrcLevels(m)
  BY <1>6 DEF MapSrcLoop, SrcLevels
<1>11. \A o \in 1 .. Depth(P, p[2]) : MapDstLoop(m, o) \in DstLevels(m)
  <2>1. SUFFICES ASSUME NEW o \in 1 .. Depth(P, p[2]) PROVE MapDstLoop(m, o) \in DstLevels(m)
    OBVIOUS
  <2>2. CASE o <= m.common
    BY <1>3, <1>4, <1>8, <2>2 DEF MapDstLoop, DstLevels, Common
  <2>3. CASE o > m.common
    <3>1. MapDstLoop(m, o) = o - m.common + m.src
      BY <2>3 DEF MapDstLoop
    <3>2. o - m.common + m.src \in m.src + 1 .. m.max
      BY <1>3, <1>4, <1>6, <1>8, <2>3
    <3> QED
      BY <3>1, <3>2 DEF DstLevels
  <2> QED
    BY <1>3, <1>4, <1>8, <2>2, <2>3
<1> QED
  BY <1>1, <1>3, <1>4, <1>8, <1>9, <1>10, <1>11 DEF IsNest, m

\* What is asked about two accesses of a program.
LEMMA QueryFacts ==
  ASSUME NEW P \in Programs, NEW p \in Pairs(P), NEW q, q = Query(P, p)
  PROVE  /\ IsNest(q.nest)
         /\ q.pairs \in [DOMAIN q.pairs -> SubscriptPairs(q.nest)]
         /\ \E i \in Nat : DOMAIN q.pairs = 1 .. i
<1> DEFINE m == q.nest
           src == P.accesses[p[1]].subs
           dst == P.accesses[p[2]].subs
<1>1. m = Nest(P, p)
      /\ q.pairs = [k \in DOMAIN src |-> [src |-> Mapped(m, src[k], MapSrcLoop),
                                          dst |-> Mapped(m, dst[k], MapDstLoop)]]
  BY DEF Query
<1>2. IsNest(m) /\ p[1] \in Accesses(P) /\ p[2] \in Accesses(P)
  BY <1>1, NestOfPair
<1>3. /\ src \in Seq([c : Int, a : [1 .. Depth(P, p[1]) -> Int]])
      /\ dst \in Seq([c : Int, a : [1 .. Depth(P, p[2]) -> Int]])
      /\ DOMAIN dst = DOMAIN src
  BY <1>2, Inputs
<1> HIDE DEF m, src, dst
<1>4. \E i \in Nat : DOMAIN src = 1 .. i
  <2>1. Len(src) \in Nat /\ DOMAIN src = 1 .. Len(src)
    BY <1>3
  <2> QED
    BY <2>1
<1>5. ASSUME NEW k \in DOMAIN src
      PROVE  [src |-> Mapped(m, src[k], MapSrcLoop), dst |-> Mapped(m, dst[k], MapDstLoop)]
             \in SubscriptPairs(m)
  <2> DEFINE S == [c : Int, a : [1 .. Depth(P, p[1]) -> Int]]
             D == [c : Int, a : [1 .. Depth(P, p[2]) -> Int]]
  <2>1. src[k] \in S /\ dst[k] \in D
    <3>1. src \in Seq(S) /\ dst \in Seq(D) /\ k \in DOMAIN src /\ k \in DOMAIN dst
      BY <1>3, <1>5
    <3> HIDE DEF S, D
    <3> QED
      BY <3>1, Sequence
  <2>2. Mapped(m, src[k], MapSrcLoop) \in SrcSubscripts(m)
    BY <1>1, <1>2, <2>1, NestOfPair, MappedSubscripts
  <2>3. Mapped(m, dst[k], MapDstLoop) \in DstSubscripts(m)
    BY <1>1, <1>2, <2>1, NestOfPair, MappedSubscripts
  <2> QED
    BY <2>2, <2>3 DEF SubscriptPairs
<1>6. q.pairs \in [DOMAIN src -> SubscriptPairs(m)]
  BY <1>1, <1>5
<1> QED
  BY <1>2, <1>4, <1>6 DEF m

\* Iterations that meet are in the loops, and all pairs of subscripts are equal.
LEMMA MeetingFacts ==
  ASSUME NEW q, IsNest(q.nest), q.pairs \in [DOMAIN q.pairs -> SubscriptPairs(q.nest)],
         NEW h \in Meetings(q)
  PROVE  /\ h[1] \in [SrcLevels(q.nest) -> Nat] /\ h[2] \in [DstLevels(q.nest) -> Nat]
         /\ InNest(q.nest, Whole(q.nest, h[1])) /\ InNest(q.nest, Whole(q.nest, h[2]))
         /\ \A p \in DOMAIN q.pairs :
              Eval(q.pairs[p].src, Whole(q.nest, h[1])) = Eval(q.pairs[p].dst, Whole(q.nest, h[2]))
<1> DEFINE m == q.nest
           x == h[1]
           y == h[2]
<1>1. /\ x \in Iterations(m, SrcLevels(m)) /\ y \in Iterations(m, DstLevels(m))
      /\ Element(q, "src", x) = Element(q, "dst", y)
  <2>1. PICK u \in Iterations(m, SrcLevels(m)) :
          h \in {<<u, z[1]>> : z \in {w \in {<<v, Element(q, "dst", v)>> : v \in Iterations(m, DstLevels(m))} :
                   w[2] = Element(q, "src", u) /\ (q.reaches \/ w[1] # u)}}
    BY DEF Meetings
  <2>2. PICK w \in {<<v, Element(q, "dst", v)>> : v \in Iterations(m, DstLevels(m))} :
          h = <<u, w[1]>> /\ w[2] = Element(q, "src", u)
    BY <2>1
  <2>3. PICK v \in Iterations(m, DstLevels(m)) : w = <<v, Element(q, "dst", v)>>
    BY <2>2
  <2> QED
    BY <2>2, <2>3
<1>2. /\ IsFiniteSet(Levels(m)) /\ SrcLevels(m) \subseteq Levels(m) /\ DstLevels(m) \subseteq Levels(m)
  BY NestLevels
<1>3. /\ x \in [SrcLevels(m) -> Nat] /\ y \in [DstLevels(m) -> Nat]
      /\ \A k \in SrcLevels(m) : m.ub[k] # NoBound => x[k] <= m.ub[k]
      /\ \A k \in DstLevels(m) : m.ub[k] # NoBound => y[k] <= m.ub[k]
  <2>1. 0 .. Horizon \subseteq Nat
    BY Inputs
  <2> QED
    BY <1>1, <2>1 DEF Iterations
<1> HIDE DEF m, x, y
<1>4. ASSUME NEW D \in SUBSET Levels(m), NEW z \in [D -> Nat],
             \A k \in D : m.ub[k] # NoBound => z[k] <= m.ub[k]
      PROVE  InNest(m, Whole(m, z))
  <2>1. \A k \in Levels(m) : m.ub[k] \in Nat \cup {NoBound}
    BY DEF IsNest, Bounds, m
  <2> QED
    BY <1>4, <2>1 DEF InNest, InLoop, Whole
<1>5. ASSUME NEW p \in DOMAIN q.pairs
      PROVE  Eval(q.pairs[p].src, Whole(m, x)) = Eval(q.pairs[p].dst, Whole(m, y))
  <2>1. q.pairs[p].src \in Linear(Levels(m)) /\ q.pairs[p].dst \in Linear(Levels(m))
    BY <1>5 DEF SubscriptPairs, SrcSubscripts, DstSubscripts, Within, m
  <2>2. Element(q, "src", x)[p] = Element(q, "dst", y)[p]
    BY <1>1
  <2>3. /\ Element(q, "src", x)[p]
             = q.pairs[p].src.c + SumFunction([k \in DOMAIN x |-> q.pairs[p].src.a[k] * x[k]])
        /\ Element(q, "dst", y)[p]
             = q.pairs[p].dst.c + SumFunction([k \in DOMAIN y |-> q.pairs[p].dst.a[k] * y[k]])
    BY DEF Element
  <2>4. Element(q, "src", x)[p] = Eval(q.pairs[p].src, Whole(m, x))
    BY <1>2, <1>3, <2>1, <2>3, ValueIsEval DEF m
  <2>5. Element(q, "dst", y)[p] = Eval(q.pairs[p].dst, Whole(m, y))
    BY <1>2, <1>3, <2>1, <2>3, ValueIsEval DEF m
  <2> QED
    BY <2>2, <2>4, <2>5
<1>6. InNest(m, Whole(m, x)) /\ InNest(m, Whole(m, y))
  BY <1>2, <1>3, <1>4
<1> QED
  BY <1>3, <1>5, <1>6 DEF m, x, y

-----------------------------------------------------------------------------
(* Constraints of a nest, and their propagation.                            *)

\* A line speaks of an iteration only if the level is a loop of its access.
LinesOf(m, k) ==
  {c \in LinesAt(k) : /\ c.A # 0 \/ c.B # 0
                      /\ c.A # 0 => k \in SrcLevels(m)
                      /\ c.B # 0 => k \in DstLevels(m)}
ConstraintsOf(m, k) ==
  {Unconstrained} \cup LinesOf(m, k) \cup {c \in PointsAt(k) : k \in Common(m)}

\* The operations on subscripts keep to the loops of the access.
LEMMA SubscriptOperations ==
  ASSUME NEW m, NEW D, NEW s \in Within(m, D), NEW k \in Levels(m), NEW i \in Int
  PROVE  /\ s \in Linear(Levels(m))
         /\ Zero(s, k) \in Within(m, D) /\ Zero(s, k).a[k] = 0
         /\ Shift(s, i) \in Within(m, D) /\ Shift(s, i).a = s.a
         /\ Scale(s, i) \in Within(m, D) /\ Scale(s, i).a[k] = i * s.a[k]
         /\ (i # 0 => k \in D) => AddTo(s, k, i) \in Within(m, D)
<1>1. s.c \in Int /\ s.a \in [Levels(m) -> Int] /\ s = [c |-> s.c, a |-> s.a]
      /\ \A j \in Levels(m) : s.a[j] # 0 => j \in D
  BY DEF Within, Linear, Mentioned
<1>2. ASSUME NEW t \in Linear(Levels(m)), \A j \in Levels(m) : t.a[j] # 0 => j \in D
      PROVE  t \in Within(m, D)
  BY <1>2 DEF Within, Mentioned
<1>3. Zero(s, k) \in Within(m, D) /\ Zero(s, k).a[k] = 0
  <2> DEFINE t == Zero(s, k)
  <2>1. t \in Linear(Levels(m)) /\ t.a = [s.a EXCEPT ![k] = 0]
    BY <1>1 DEF Zero, Linear
  <2> HIDE DEF t
  <2>2. \A j \in Levels(m) : t.a[j] # 0 => j \in D
    BY <1>1, <2>1
  <2> QED
    BY <1>1, <1>2, <2>1, <2>2 DEF t
<1>4. Shift(s, i) \in Within(m, D) /\ Shift(s, i).a = s.a
  <2> DEFINE t == Shift(s, i)
  <2>1. t \in Linear(Levels(m)) /\ t.a = s.a
    BY <1>1 DEF Shift, Linear
  <2> HIDE DEF t
  <2> QED
    BY <1>1, <1>2, <2>1 DEF t
<1>5. Scale(s, i) \in Within(m, D) /\ Scale(s, i).a[k] = i * s.a[k]
  <2> DEFINE t == Scale(s, i)
  <2>1. t \in Linear(Levels(m)) /\ \A j \in Levels(m) : t.a[j] = i * s.a[j]
    BY <1>1 DEF Scale, Linear
  <2> HIDE DEF t
  <2>2. \A j \in Levels(m) : t.a[j] # 0 => s.a[j] # 0
    BY <1>1, <2>1
  <2> QED
    BY <1>1, <1>2, <2>1, <2>2 DEF t
<1>6. ASSUME i # 0 => k \in D
      PROVE  AddTo(s, k, i) \in Within(m, D)
  <2> DEFINE t == AddTo(s, k, i)
  <2>1. t \in Linear(Levels(m)) /\ t.a = [s.a EXCEPT ![k] = s.a[k] + i]
    BY <1>1 DEF AddTo, Linear
  <2> HIDE DEF t
  <2>2. \A j \in Levels(m) : t.a[j] # 0 => j \in D
    BY <1>1, <1>6, <2>1
  <2> QED
    BY <1>2, <2>1, <2>2 DEF t
<1> QED
  BY <1>3, <1>4, <1>5, <1>6 DEF Within

\* Sums of integers are integers.
LEMMA SumOfTerms ==
  ASSUME NEW I, IsFiniteSet(I), NEW f \in [I -> Int]
  PROVE  SumFunction(f) \in Int
<1>1. (\A k \in I : f[k] = f[k]) /\ (\A k \in I \ I : f[k] = 0) /\ I \in SUBSET I
  OBVIOUS
<1> QED
  BY <1>1, SumsAgree

\* The value of a subscript, and each operation on it.
LEMMA EvalIs ==
  ASSUME NEW m, IsNest(m), NEW D, NEW s \in Within(m, D), NEW X \in [Levels(m) -> Int]
  PROVE  /\ Eval(s, X) \in Int /\ s.c \in Int
         /\ \A k \in Levels(m) : s.a[k] \in Int /\ X[k] \in Int /\ (s.a[k] # 0 => k \in D)
<1>1. s \in Linear(Levels(m)) /\ IsFiniteSet(Levels(m)) /\ (\A k \in Levels(m) : s.a[k] # 0 => k \in D)
  BY NestLevels DEF Within, Mentioned
<1>2. s.c \in Int /\ Terms(s, X) \in [Levels(m) -> Int] /\ s.a \in [Levels(m) -> Int]
  BY <1>1 DEF Linear, Terms
<1>3. SumFunction(Terms(s, X)) \in Int
  BY <1>1, <1>2, SumOfTerms
<1>4. Eval(s, X) \in Int
  BY <1>2, <1>3 DEF Eval
<1> QED
  BY <1>1, <1>2, <1>4

\* A constant is added.
LEMMA ShiftIs ==
  ASSUME NEW m, IsNest(m), NEW D, NEW s \in Within(m, D), NEW X \in [Levels(m) -> Int], NEW i \in Int
  PROVE  /\ Shift(s, i) \in Within(m, D) /\ Shift(s, i).a = s.a
         /\ Eval(Shift(s, i), X) = Eval(s, X) + i
<1> DEFINE t == Shift(s, i)
<1>1. s.c \in Int /\ s.a \in [Levels(m) -> Int] /\ s = [c |-> s.c, a |-> s.a]
      /\ Mentioned(m, s) \subseteq D
  BY DEF Within, Linear
<1>2. t \in Linear(Levels(m)) /\ t.a = s.a /\ t.c = s.c + i
  BY <1>1 DEF Shift, Linear
<1> HIDE DEF t
<1>3. t \in Within(m, D)
  BY <1>1, <1>2 DEF Within, Mentioned
<1>4. SumFunction(Terms(s, X)) \in Int
  <2>1. IsFiniteSet(Levels(m)) /\ Terms(s, X) \in [Levels(m) -> Int]
    BY <1>1, NestLevels DEF Terms
  <2> QED
    BY <2>1, SumOfTerms
<1>5. Eval(t, X) = Eval(s, X) + i
  BY <1>1, <1>2, <1>4 DEF Eval, Terms
<1> QED
  BY <1>2, <1>3, <1>5 DEF t

\* A level is taken out.
LEMMA ZeroIs ==
  ASSUME NEW m, IsNest(m), NEW D, NEW s \in Within(m, D), NEW X \in [Levels(m) -> Int],
         NEW k \in Levels(m)
  PROVE  Zero(s, k) \in Within(m, D) /\ Eval(Zero(s, k), X) = Eval(s, X) - s.a[k] * X[k]
<1>1. s \in Linear(Levels(m)) /\ IsFiniteSet(Levels(m)) /\ 0 \in Int
  BY NestLevels DEF Within
<1>2. Eval(Zero(s, k), X) = Eval(s, X) - s.a[k] * X[k]
  BY <1>1, Evaluations
<1>3. Zero(s, k) \in Within(m, D)
  BY <1>1, SubscriptOperations
<1> QED
  BY <1>2, <1>3

\* A coefficient is changed.
LEMMA AddIs ==
  ASSUME NEW m, IsNest(m), NEW D, NEW s \in Within(m, D), NEW X \in [Levels(m) -> Int], NEW i \in Int,
         NEW k \in Levels(m), i # 0 => k \in D
  PROVE  AddTo(s, k, i) \in Within(m, D) /\ Eval(AddTo(s, k, i), X) = Eval(s, X) + i * X[k]
<1>1. s \in Linear(Levels(m)) /\ IsFiniteSet(Levels(m))
  BY NestLevels DEF Within
<1>2. Eval(AddTo(s, k, i), X) = Eval(s, X) + i * X[k]
  BY <1>1, Evaluations
<1>3. AddTo(s, k, i) \in Within(m, D)
  BY SubscriptOperations
<1> QED
  BY <1>2, <1>3

\* All is multiplied.
LEMMA ScaleIs ==
  ASSUME NEW m, IsNest(m), NEW D, NEW s \in Within(m, D), NEW X \in [Levels(m) -> Int], NEW i \in Int,
         NEW k \in Levels(m)
  PROVE  Scale(s, i) \in Within(m, D) /\ Scale(s, i).a[k] = i * s.a[k]
         /\ Eval(Scale(s, i), X) = i * Eval(s, X)
<1>1. s \in Linear(Levels(m)) /\ IsFiniteSet(Levels(m))
  BY NestLevels DEF Within
<1>2. Eval(Scale(s, i), X) = i * Eval(s, X)
  BY <1>1, Evaluations
<1>3. Scale(s, i) \in Within(m, D) /\ Scale(s, i).a[k] = i * s.a[k]
  BY SubscriptOperations
<1> QED
  BY <1>2, <1>3

\* A level is taken out, and a constant is added for it.
LEMMA ReplacedIs ==
  ASSUME NEW m, IsNest(m), NEW D, NEW s \in Within(m, D), NEW X \in [Levels(m) -> Int], NEW i \in Int,
         NEW k \in Levels(m)
  PROVE  /\ Zero(Shift(s, i), k) \in Within(m, D)
         /\ Eval(Zero(Shift(s, i), k), X) = Eval(s, X) + i - s.a[k] * X[k]
<1> DEFINE t == Shift(s, i)
<1>0. s.a[k] * X[k] \in Int /\ Eval(s, X) \in Int /\ s \in Linear(Levels(m)) /\ IsFiniteSet(Levels(m))
  BY EvalIs, NestLevels DEF Within
<1>1. t \in Within(m, D) /\ t.a[k] = s.a[k] /\ Eval(t, X) = Eval(s, X) + i
  <2>1. Eval(t, X) = Eval(s, X) + i
    BY <1>0, Evaluations
  <2>2. t \in Within(m, D) /\ t.a = s.a
    BY SubscriptOperations
  <2> QED
    BY <2>1, <2>2
<1> HIDE DEF t
<1>2. Zero(t, k) \in Within(m, D) /\ Eval(Zero(t, k), X) = Eval(t, X) - t.a[k] * X[k]
  BY <1>1, ZeroIs
<1>3. Eval(Zero(t, k), X) = Eval(s, X) + i - s.a[k] * X[k]
  BY <1>0, <1>1, <1>2
<1> QED
  BY <1>2, <1>3 DEF t

\* Both subscripts of p stay equal where those of s and d are.
StaysEqual(m, s, d, p, X, Y) ==
  /\ p.src \in SrcSubscripts(m) /\ p.dst \in DstSubscripts(m)
  /\ Eval(s, X) = Eval(d, Y) => Eval(p.src, X) = Eval(p.dst, Y)

\* A known distance replaces the iteration of the source by that of the destination.
LEMMA DistancePropagates ==
  ASSUME NEW m, IsNest(m), NEW s \in SrcSubscripts(m), NEW d \in DstSubscripts(m),
         NEW k \in Levels(m), NEW c \in LinesOf(m, k), c.kind = "distance", NEW consistent,
         NEW X \in [Levels(m) -> Int], NEW Y \in [Levels(m) -> Int], Holds(c, X[k], Y[k])
  PROVE  StaysEqual(m, s, d, PropagateDistance(s, d, c, k, consistent), X, Y)
<1> DEFINE a == s.a[k]
           u == a * c.C
           p == PropagateDistance(s, d, c, k, consistent)
<1> USE DEF SrcSubscripts, DstSubscripts
<1>1. a \in Int /\ X[k] \in Int /\ Y[k] \in Int /\ Eval(s, X) \in Int /\ Eval(d, Y) \in Int
  BY EvalIs
<1>2. c.C \in Int /\ X[k] = Y[k] + c.C /\ k \in DstLevels(m)
  BY <1>1 DEF LinesOf, LinesAt, Holds
<1>3. p.src = Zero(Shift(s, u), k) /\ p.dst = AddTo(d, k, -a)
  BY DEF PropagateDistance
<1>4. u \in Int /\ -a \in Int
  BY <1>1, <1>2
<1>5. Zero(Shift(s, u), k) \in SrcSubscripts(m)
      /\ Eval(Zero(Shift(s, u), k), X) = Eval(s, X) + u - a * X[k]
  <2> HIDE DEF u
  <2> QED BY <1>4, ReplacedIs
<1>6. AddTo(d, k, -a) \in DstSubscripts(m) /\ Eval(AddTo(d, k, -a), Y) = Eval(d, Y) + (-a) * Y[k]
  <2> HIDE DEF a
  <2> QED BY <1>2, <1>4, AddIs
<1>7. u - a * X[k] = (-a) * Y[k]
  BY <1>1, <1>2
<1> HIDE DEF a, u, p
<1>8. Eval(s, X) = Eval(d, Y) => Eval(s, X) + u - a * X[k] = Eval(d, Y) + (-a) * Y[k]
  <2> DEFINE v == a * X[k]
             w == (-a) * Y[k]
  <2>1. v \in Int /\ w \in Int /\ u - v = w
    BY <1>1, <1>4, <1>7
  <2> HIDE DEF v, w
  <2>2. Eval(s, X) = Eval(d, Y) => Eval(s, X) + u - v = Eval(d, Y) + w
    BY <1>1, <1>4, <2>1
  <2> QED BY <2>2 DEF v, w
<1> QED
  BY <1>3, <1>5, <1>6, <1>8 DEF StaysEqual, p

\* A point replaces both iterations.
LEMMA PointPropagates ==
  ASSUME NEW m, IsNest(m), NEW s \in SrcSubscripts(m), NEW d \in DstSubscripts(m),
         NEW k \in Levels(m), NEW c \in PointsAt(k), NEW consistent,
         NEW X \in [Levels(m) -> Int], NEW Y \in [Levels(m) -> Int], Holds(c, X[k], Y[k])
  PROVE  StaysEqual(m, s, d, PropagatePoint(s, d, c, k, consistent), X, Y)
<1> DEFINE a == s.a[k]
           b == d.a[k]
           i == a * c.x - b * c.y
           p == PropagatePoint(s, d, c, k, consistent)
<1> USE DEF SrcSubscripts, DstSubscripts
<1>1. a \in Int /\ b \in Int /\ X[k] \in Int /\ Y[k] \in Int /\ Eval(s, X) \in Int /\ Eval(d, Y) \in Int
  BY EvalIs
<1>2. c.x = X[k] /\ c.y = Y[k]
  BY DEF PointsAt, Holds
<1>3. p.src = Zero(Shift(s, i), k) /\ p.dst = Zero(d, k)
  BY DEF PropagatePoint
<1>4. i = a * X[k] - b * Y[k] /\ i \in Int /\ a * X[k] \in Int /\ b * Y[k] \in Int
  BY <1>1, <1>2
<1> HIDE DEF i, p
<1>5. Zero(Shift(s, i), k) \in SrcSubscripts(m)
      /\ Eval(Zero(Shift(s, i), k), X) = Eval(s, X) + i - a * X[k]
  BY <1>4, ReplacedIs
<1>6. Zero(d, k) \in DstSubscripts(m) /\ Eval(Zero(d, k), Y) = Eval(d, Y) - b * Y[k]
  BY ZeroIs
<1>7. Eval(s, X) = Eval(d, Y) => Eval(s, X) + i - a * X[k] = Eval(d, Y) - b * Y[k]
  <2> DEFINE v == a * X[k]
             w == b * Y[k]
  <2> HIDE DEF v, w, a, b
  <2>1. Eval(s, X) = Eval(d, Y) => Eval(s, X) + i - v = Eval(d, Y) - w
    BY <1>1, <1>4 DEF v, w
  <2> QED BY <2>1 DEF v, w
<1> HIDE DEF a, b
<1> QED
  BY <1>3, <1>5, <1>6, <1>7 DEF StaysEqual, p


\* A line solved for an iteration, times a coefficient.
LEMMA SolvedFor ==
  ASSUME NEW a \in Int, NEW A \in Int, NEW B \in Int, NEW C \in Int, NEW x \in Int, NEW y \in Int,
         A * x + B * y = C
  PROVE  (A * a) * x \in Int /\ (a * B) * y \in Int /\ a * C - (A * a) * x = (a * B) * y
OBVIOUS

\* A line replaces one of the iterations by the other one, after the subscripts
\* have been multiplied if need be.
LEMMA LinePropagates ==
  ASSUME NEW m, IsNest(m), NEW s \in SrcSubscripts(m), NEW d \in DstSubscripts(m),
         NEW k \in Levels(m), NEW c \in LinesOf(m, k), NEW consistent,
         NEW X \in [Levels(m) -> Int], NEW Y \in [Levels(m) -> Int], Holds(c, X[k], Y[k])
  PROVE  StaysEqual(m, s, d, PropagateLine(s, d, c, k, consistent), X, Y)
<1> DEFINE a == s.a[k]
           b == d.a[k]
           x == X[k]
           y == Y[k]
           p == PropagateLine(s, d, c, k, consistent)
<1> USE DEF SrcSubscripts, DstSubscripts
<1>1. a \in Int /\ b \in Int /\ x \in Int /\ y \in Int /\ Eval(s, X) \in Int /\ Eval(d, Y) \in Int
  BY EvalIs
<1>2. /\ c.A \in Int /\ c.B \in Int /\ c.C \in Int /\ c.A * x + c.B * y = c.C
      /\ c.A # 0 \/ c.B # 0
      /\ c.B # 0 => k \in DstLevels(m)
  BY <1>1 DEF LinesOf, LinesAt, Holds
<1>3. CASE c.A = 0
  <2> DEFINE i == -b * Quot(c.C, c.B)
  <2>1. Quot(c.C, c.B) = y
    <3>1. c.B \in Int \ {0} /\ c.C = c.B * y
      BY <1>1, <1>2, <1>3
    <3> QED BY <1>1, <3>1, QuotExact
  <2>2. i = -(b * y) /\ i \in Int /\ b * y \in Int
    BY <1>1, <2>1
  <2>3. p.src = Shift(s, i) /\ p.dst = Zero(d, k)
    BY <1>3 DEF PropagateLine
  <2> HIDE DEF i, p
  <2>4. Shift(s, i) \in SrcSubscripts(m) /\ Eval(Shift(s, i), X) = Eval(s, X) + i
    BY <2>2, ShiftIs
  <2>5. Zero(d, k) \in DstSubscripts(m) /\ Eval(Zero(d, k), Y) = Eval(d, Y) - b * y
    BY ZeroIs
  <2>6. Eval(s, X) = Eval(d, Y) => Eval(s, X) + i = Eval(d, Y) - b * y
    <3> DEFINE w == b * y
    <3> HIDE DEF w
    <3>1. Eval(s, X) = Eval(d, Y) => Eval(s, X) + i = Eval(d, Y) - w
      BY <1>1, <2>2 DEF w
    <3> QED BY <3>1 DEF w
  <2> HIDE DEF b, y
  <2> QED
    BY <2>3, <2>4, <2>5, <2>6 DEF StaysEqual, p
<1>4. CASE c.A # 0 /\ c.B = 0
  <2> DEFINE i == a * Quot(c.C, c.A)
  <2>1. Quot(c.C, c.A) = x
    <3>1. c.A \in Int \ {0} /\ c.C = c.A * x
      BY <1>1, <1>2, <1>4
    <3> QED BY <1>1, <3>1, QuotExact
  <2>2. i = a * x /\ i \in Int
    BY <1>1, <2>1
  <2>3. p.src = Zero(Shift(s, i), k) /\ p.dst = d
    BY <1>4 DEF PropagateLine
  <2> HIDE DEF i, p
  <2>4. Zero(Shift(s, i), k) \in SrcSubscripts(m)
        /\ Eval(Zero(Shift(s, i), k), X) = Eval(s, X) + i - a * x
    BY <2>2, ReplacedIs
  <2>5. Eval(s, X) + i - a * x = Eval(s, X)
    BY <1>1, <2>2
  <2> HIDE DEF a, x
  <2> QED
    BY <2>3, <2>4, <2>5 DEF StaysEqual, p
<1>5. CASE c.A # 0 /\ c.B # 0 /\ c.A = c.B
  <2> DEFINE i == a * Quot(c.C, c.A)
  <2>1. Quot(c.C, c.A) = x + y
    <3>1. c.A \in Int \ {0} /\ c.C = c.A * (x + y) /\ x + y \in Int
      BY <1>1, <1>2, <1>5
    <3> QED BY <3>1, QuotExact
  <2>2. i = a * x + a * y /\ i \in Int /\ a * x \in Int /\ a * y \in Int
    BY <1>1, <2>1
  <2>3. p.src = Zero(Shift(s, i), k) /\ p.dst = AddTo(d, k, a)
    BY <1>5 DEF PropagateLine
  <2> HIDE DEF i, p
  <2>4. Zero(Shift(s, i), k) \in SrcSubscripts(m)
        /\ Eval(Zero(Shift(s, i), k), X) = Eval(s, X) + i - a * x
    BY <2>2, ReplacedIs
  <2>5. AddTo(d, k, a) \in DstSubscripts(m) /\ Eval(AddTo(d, k, a), Y) = Eval(d, Y) + a * y
    BY <1>1, <1>2, <1>5, AddIs
  <2>6. Eval(s, X) + i - a * x = Eval(s, X) + a * y
    <3> DEFINE v == a * x
               w == a * y
    <3> HIDE DEF v, w
    <3>1. Eval(s, X) + i - v = Eval(s, X) + w
      BY <1>1, <2>2 DEF v, w
    <3> QED BY <3>1 DEF v, w
  <2> HIDE DEF a, x, y
  <2> QED
    BY <2>3, <2>4, <2>5, <2>6 DEF StaysEqual, p
<1>6. CASE c.A # 0 /\ c.B # 0 /\ c.A # c.B
  <2> DEFINE i == a * c.C
             j == a * c.B
             S == Scale(s, c.A)
             E == Scale(d, c.A)
  <2>1. p.src = Zero(Shift(S, i), k) /\ p.dst = AddTo(E, k, j)
    BY <1>6 DEF PropagateLine, Substituted
  <2>2. i \in Int /\ j \in Int
    BY <1>1, <1>2
  <2>3. S \in SrcSubscripts(m) /\ S.a[k] = c.A * a /\ Eval(S, X) = c.A * Eval(s, X)
    BY <1>2, ScaleIs
  <2>4. E \in DstSubscripts(m) /\ Eval(E, Y) = c.A * Eval(d, Y)
    <3>1. d \in Within(m, DstLevels(m)) /\ c.A \in Int
      BY <1>2
    <3>2. E \in Within(m, DstLevels(m))
      BY <3>1, ScaleIs
    <3>3. Eval(E, Y) = c.A * Eval(d, Y)
      BY <3>1, ScaleIs
    <3> QED
      BY <3>2, <3>3
  <2> HIDE DEF S, E, p
  <2>5. Zero(Shift(S, i), k) \in SrcSubscripts(m)
        /\ Eval(Zero(Shift(S, i), k), X) = Eval(S, X) + i - S.a[k] * x
    <3> HIDE DEF i
    <3> QED BY <2>2, <2>3, ReplacedIs
  <2>6. AddTo(E, k, j) \in DstSubscripts(m) /\ Eval(AddTo(E, k, j), Y) = Eval(E, Y) + j * y
    <3> HIDE DEF j
    <3> QED BY <1>2, <1>6, <2>2, <2>4, AddIs
  <2>7. (c.A * a) * x \in Int /\ j * y \in Int /\ i - (c.A * a) * x = j * y
    <3> HIDE DEF a, x, y
    <3>1. (c.A * a) * x \in Int /\ (a * c.B) * y \in Int /\ a * c.C - (c.A * a) * x = (a * c.B) * y
      <4>1. a \in Int /\ x \in Int /\ y \in Int /\ c.A \in Int /\ c.B \in Int /\ c.C \in Int
            /\ c.A * x + c.B * y = c.C
        BY <1>1, <1>2
      <4> QED BY <4>1, SolvedFor
    <3> QED BY <3>1
  <2>8. Eval(s, X) = Eval(d, Y) => Eval(S, X) + i - S.a[k] * x = Eval(E, Y) + j * y
    <3> DEFINE v == S.a[k] * x
               w == j * y
    <3>1. v \in Int /\ w \in Int /\ i - v = w
      <4> HIDE DEF a, x, y, i, j
      <4> QED BY <2>3, <2>7
    <3>2. Eval(S, X) \in Int /\ (Eval(s, X) = Eval(d, Y) => Eval(S, X) = Eval(E, Y))
      BY <1>1, <1>2, <2>3, <2>4
    <3> HIDE DEF v, w, i
    <3>3. Eval(s, X) = Eval(d, Y) => Eval(S, X) + i - v = Eval(E, Y) + w
      BY <2>2, <3>1, <3>2
    <3> QED BY <3>3 DEF v, w
  <2> HIDE DEF i, j, x, y
  <2> QED
    BY <2>1, <2>5, <2>6, <2>8 DEF StaysEqual, p
<1> QED
  BY <1>3, <1>4, <1>5, <1>6

\* What Propagated() makes of a pair at a level.
PropagatedAt(pq, k, p) ==
  IF k \notin LoopsOf(pq) \/ cons[k].kind \in {"any", "empty"} THEN p
  ELSE IF cons[k].kind = "point" THEN PropagatePoint(p.src, p.dst, cons[k], k, p.consistent)
  ELSE IF cons[k].kind = "line" THEN PropagateLine(p.src, p.dst, cons[k], k, p.consistent)
  ELSE IF p.src.a[k] = 0 THEN p
  ELSE PropagateDistance(p.src, p.dst, cons[k], k, p.consistent)
Simplifiable(m) ==
  [src : SrcSubscripts(m), dst : DstSubscripts(m), simplified : BOOLEAN, consistent : BOOLEAN]
StartOf(pq, consistent) ==
  [src |-> pq.src, dst |-> pq.dst, simplified |-> FALSE, consistent |-> consistent]

\* Propagated() is defined by recursion over the levels.
LEMMA PropagatedUnfolds ==
  ASSUME NEW pq, NEW consistent, NEW g,
         g = [k \in Nat |-> IF k = 0 THEN StartOf(pq, consistent) ELSE PropagatedAt(pq, k, g[k - 1])]
  PROVE  \E G : /\ G = [k \in Nat |-> IF k = 0 THEN StartOf(pq, consistent)
                                      ELSE PropagatedAt(pq, k, G[k - 1])]
                /\ Propagated(pq, consistent) = G[n.max]
  BY Zenon DEF Propagated, PropagatedAt, StartOf

\* A quotient is an integer.
LEMMA QuotType ==
  ASSUME NEW i \in Int, NEW j \in Int \ {0}
  PROVE  Quot(i, j) \in Int
<1>1. AbsOf(i) \in Nat /\ AbsOf(j) \in Nat \ {0} /\ Sign(i) \in Int /\ Sign(j) \in Int
  BY DEF AbsOf, Sign
<1>2. AbsOf(i) \div AbsOf(j) \in Int
  BY <1>1
<1> QED
  BY <1>1, <1>2 DEF Quot

\* Propagation keeps to the loops of the accesses.
LEMMA PropagateTypes ==
  ASSUME NEW m, NEW s \in SrcSubscripts(m), NEW d \in DstSubscripts(m), NEW k \in Levels(m),
         NEW c \in ConstraintsOf(m, k), NEW consistent \in BOOLEAN
  PROVE  /\ c.kind = "point" => PropagatePoint(s, d, c, k, consistent) \in Simplifiable(m)
         /\ c.kind = "line" => PropagateLine(s, d, c, k, consistent) \in Simplifiable(m)
         /\ c.kind = "distance" => PropagateDistance(s, d, c, k, consistent) \in Simplifiable(m)
<1> DEFINE S == SrcSubscripts(m)
           E == DstSubscripts(m)
<1>1. s.a[k] \in Int /\ d.a[k] \in Int
  BY DEF SrcSubscripts, DstSubscripts, Within, Linear
<1>2. /\ \A t \in S, i \in Int : Zero(t, k) \in S /\ Shift(t, i) \in S /\ Scale(t, i) \in S
      /\ \A t \in E, i \in Int : /\ Zero(t, k) \in E /\ Shift(t, i) \in E /\ Scale(t, i) \in E
                                 /\ k \in DstLevels(m) => AddTo(t, k, i) \in E
  BY SubscriptOperations DEF SrcSubscripts, DstSubscripts
<1>3. \A p \in S, q \in E, b \in BOOLEAN :
        [src |-> p, dst |-> q, simplified |-> TRUE, consistent |-> b] \in Simplifiable(m)
  BY DEF Simplifiable
<1>4. c.kind \in {"line", "distance"} =>
        /\ c \in LinesOf(m, k)
        /\ c.A \in Int /\ c.B \in Int /\ c.C \in Int
        /\ c.A # 0 \/ c.B # 0
        /\ c.B # 0 => k \in DstLevels(m)
        /\ c.kind = "distance" => c.B = -1
  BY DEF ConstraintsOf, LinesOf, LinesAt, PointsAt, Unconstrained
<1>5. c.kind = "point" => c.x \in Int /\ c.y \in Int
  BY DEF ConstraintsOf, LinesOf, LinesAt, PointsAt, Unconstrained
<1> HIDE DEF S, E
<1>6. s \in S /\ d \in E
  BY DEF S, E
<1>7. ASSUME c.kind = "point" PROVE PropagatePoint(s, d, c, k, consistent) \in Simplifiable(m)
  <2>1. s.a[k] * c.x - d.a[k] * c.y \in Int
    BY <1>1, <1>5, <1>7
  <2>2. Zero(Shift(s, s.a[k] * c.x - d.a[k] * c.y), k) \in S /\ Zero(d, k) \in E
    BY <1>2, <1>6, <2>1
  <2> QED
    BY <1>3, <2>2 DEF PropagatePoint
<1>8. ASSUME c.kind = "distance" PROVE PropagateDistance(s, d, c, k, consistent) \in Simplifiable(m)
  <2>1. s.a[k] * c.C \in Int /\ -s.a[k] \in Int /\ k \in DstLevels(m)
    BY <1>1, <1>4, <1>8
  <2>2. Zero(Shift(s, s.a[k] * c.C), k) \in S /\ AddTo(d, k, -s.a[k]) \in E
    BY <1>2, <1>6, <2>1
  <2>3. (consistent /\ d.a[k] = s.a[k]) \in BOOLEAN
    OBVIOUS
  <2> QED
    BY <1>3, <2>2, <2>3 DEF PropagateDistance
<1>9. ASSUME c.kind = "line" PROVE PropagateLine(s, d, c, k, consistent) \in Simplifiable(m)
  <2> DEFINE p == PropagateLine(s, d, c, k, consistent)
  <2>1. CASE c.A = 0
    <3>1. Quot(c.C, c.B) \in Int
      BY <1>4, <1>9, <2>1, QuotType
    <3>2. -d.a[k] * Quot(c.C, c.B) \in Int
      BY <1>1, <3>1
    <3>3. Shift(s, -d.a[k] * Quot(c.C, c.B)) \in S /\ Zero(d, k) \in E
      BY <1>2, <1>6, <3>2
    <3>4. p = [src |-> Shift(s, -d.a[k] * Quot(c.C, c.B)), dst |-> Zero(d, k), simplified |-> TRUE,
               consistent |-> consistent /\ s.a[k] = 0]
      BY <2>1 DEF PropagateLine
    <3> QED
      BY <1>3, <3>3, <3>4
  <2>2. CASE c.A # 0 /\ c.B = 0
    <3>1. Quot(c.C, c.A) \in Int
      BY <1>4, <1>9, <2>2, QuotType
    <3>2. s.a[k] * Quot(c.C, c.A) \in Int
      BY <1>1, <3>1
    <3>3. Zero(Shift(s, s.a[k] * Quot(c.C, c.A)), k) \in S
      BY <1>2, <1>6, <3>2
    <3>4. p = [src |-> Zero(Shift(s, s.a[k] * Quot(c.C, c.A)), k), dst |-> d, simplified |-> TRUE,
               consistent |-> consistent /\ d.a[k] = 0]
      BY <2>2 DEF PropagateLine
    <3> QED
      BY <1>3, <1>6, <3>3, <3>4
  <2>3. CASE c.A # 0 /\ c.B # 0 /\ c.A = c.B
    <3>1. Quot(c.C, c.A) \in Int
      BY <1>4, <1>9, <2>3, QuotType
    <3>2. s.a[k] * Quot(c.C, c.A) \in Int /\ k \in DstLevels(m)
      BY <1>1, <1>4, <1>9, <2>3, <3>1
    <3>3. Zero(Shift(s, s.a[k] * Quot(c.C, c.A)), k) \in S /\ AddTo(d, k, s.a[k]) \in E
      BY <1>1, <1>2, <1>6, <3>2
    <3>4. p = [src |-> Zero(Shift(s, s.a[k] * Quot(c.C, c.A)), k), dst |-> AddTo(d, k, s.a[k]),
               simplified |-> TRUE, consistent |-> consistent /\ d.a[k] + s.a[k] = 0]
      BY <2>3 DEF PropagateLine
    <3> QED
      BY <1>3, <3>3, <3>4
  <2>4. CASE c.A # 0 /\ c.B # 0 /\ c.A # c.B
    <3> DEFINE e == AddTo(Scale(d, c.A), k, s.a[k] * c.B)
    <3>1. s.a[k] * c.C \in Int /\ s.a[k] * c.B \in Int /\ k \in DstLevels(m) /\ c.A \in Int
      BY <1>1, <1>4, <1>9, <2>4
    <3>2. Substituted(s, c, k) \in S
      BY <1>2, <1>6, <3>1 DEF Substituted
    <3>3. e \in E
      BY <1>2, <1>6, <3>1
    <3>4. p = [src |-> Substituted(s, c, k), dst |-> e,
               simplified |-> TRUE, consistent |-> consistent /\ e.a[k] = 0]
      BY <2>4 DEF PropagateLine
    <3> QED
      BY <1>3, <3>2, <3>3, <3>4
  <2> QED
    BY <2>1, <2>2, <2>3, <2>4
<1> QED
  BY <1>7, <1>8, <1>9

\* A level is replaced in the right subscripts, whatever is known of it.
LEMMA PropagatedAtTyped ==
  ASSUME IsNest(n), NEW pq, NEW k \in Nat, NEW p \in Simplifiable(n),
         \A l \in Levels(n) : cons[l] \in ConstraintsOf(n, l)
  PROVE  /\ PropagatedAt(pq, k, p) \in Simplifiable(n)
         /\ \A X, Y \in [Levels(n) -> Int] :
              (\A l \in Levels(n) : Holds(cons[l], X[l], Y[l])) =>
                StaysEqual(n, p.src, p.dst, PropagatedAt(pq, k, p), X, Y)
<1> DEFINE c == cons[k]
           r == PropagatedAt(pq, k, p)
<1>1. p.src \in SrcSubscripts(n) /\ p.dst \in DstSubscripts(n) /\ p.consistent \in BOOLEAN
  BY DEF Simplifiable
<1>2. CASE r = p
  BY <1>1, <1>2 DEF StaysEqual
<1>3. CASE r # p
  <2>1. k \in LoopsOf(pq) /\ c.kind \notin {"any", "empty"}
    BY <1>3 DEF PropagatedAt
  <2>2. k \in Levels(n) /\ c \in ConstraintsOf(n, k)
    <3>1. k \in Levels(n)
      BY <2>1 DEF LoopsOf, Mentioned, n
    <3> QED
      BY <3>1
  <2>3. \/ c \in PointsAt(k) /\ c.kind = "point"
        \/ c \in LinesOf(n, k) /\ c.kind = "line"
        \/ c \in LinesOf(n, k) /\ c.kind = "distance"
    BY <2>1, <2>2 DEF ConstraintsOf, PointsAt, LinesOf, LinesAt, Unconstrained
  <2>4. CASE c \in PointsAt(k) /\ c.kind = "point"
    <3>1. r = PropagatePoint(p.src, p.dst, c, k, p.consistent)
      BY <2>1, <2>4 DEF PropagatedAt
    <3> HIDE DEF c, r
    <3>2. \A X, Y \in [Levels(n) -> Int] : Holds(c, X[k], Y[k]) => StaysEqual(n, p.src, p.dst, r, X, Y)
      BY <1>1, <2>2, <2>4, <3>1, PointPropagates
    <3>3. r \in Simplifiable(n)
      BY <1>1, <2>2, <2>4, <3>1, PropagateTypes
    <3> QED
      BY <2>2, <3>2, <3>3 DEF c, r
  <2>5. CASE c \in LinesOf(n, k) /\ c.kind = "line"
    <3>1. r = PropagateLine(p.src, p.dst, c, k, p.consistent)
      BY <2>1, <2>5 DEF PropagatedAt
    <3> HIDE DEF c, r
    <3>2. \A X, Y \in [Levels(n) -> Int] : Holds(c, X[k], Y[k]) => StaysEqual(n, p.src, p.dst, r, X, Y)
      BY <1>1, <2>2, <2>5, <3>1, LinePropagates
    <3>3. r \in Simplifiable(n)
      BY <1>1, <2>2, <2>5, <3>1, PropagateTypes
    <3> QED
      BY <2>2, <3>2, <3>3 DEF c, r
  <2>6. CASE c \in LinesOf(n, k) /\ c.kind = "distance"
    <3>1. r = PropagateDistance(p.src, p.dst, c, k, p.consistent)
      BY <1>3, <2>1, <2>6 DEF PropagatedAt
    <3> HIDE DEF c, r
    <3>2. \A X, Y \in [Levels(n) -> Int] : Holds(c, X[k], Y[k]) => StaysEqual(n, p.src, p.dst, r, X, Y)
      BY <1>1, <2>2, <2>6, <3>1, DistancePropagates
    <3>3. r \in Simplifiable(n)
      BY <1>1, <2>2, <2>6, <3>1, PropagateTypes
    <3> QED
      BY <2>2, <3>2, <3>3 DEF c, r
  <2> QED
    BY <2>3, <2>4, <2>5, <2>6
<1> QED
  BY <1>2, <1>3

\* Subscripts that are equal for iterations of which the constraints hold are
\* equal after the constraints have been propagated into them.
LEMMA Propagation ==
  ASSUME IsNest(n), NEW pq \in SubscriptPairs(n), NEW consistent \in BOOLEAN,
         \A l \in Levels(n) : cons[l] \in ConstraintsOf(n, l)
  PROVE  /\ Propagated(pq, consistent) \in Simplifiable(n)
         /\ \A X, Y \in [Levels(n) -> Int] :
              (\A l \in Levels(n) : Holds(cons[l], X[l], Y[l])) =>
                StaysEqual(n, pq.src, pq.dst, Propagated(pq, consistent), X, Y)
<1> DEFINE V == Simplifiable(n)
           start == StartOf(pq, consistent)
           next == [z \in Nat \X V |-> PropagatedAt(pq, z[1], z[2])]
<1>1. start \in V /\ start.src = pq.src /\ start.dst = pq.dst
  BY DEF StartOf, Simplifiable, SubscriptPairs
<1>2. Continues(V, next)
  BY PropagatedAtTyped DEF Continues
<1> HIDE DEF V, start
<1>3. \A k \in Nat : \A p \in V : next[<<k, p>>] = PropagatedAt(pq, k, p)
  OBVIOUS
<1> HIDE DEF next
<1>11. start \in V
  BY <1>1
<1>12. PICK f : IsSequence(f, V, start, next)
  BY <1>2, <1>11, NatRecursion
<1>4. f \in [Nat -> V] /\ f[0] = start /\ \A k \in Nat \ {0} : f[k] = next[<<k, f[k - 1]>>]
  BY <1>12 DEF IsSequence
<1>5. f = [k \in Nat |-> IF k = 0 THEN start ELSE PropagatedAt(pq, k, f[k - 1])]
  <2>1. \A k \in Nat : f[k] = IF k = 0 THEN start ELSE PropagatedAt(pq, k, f[k - 1])
    <3>1. \A k \in Nat : k # 0 => k - 1 \in Nat
      OBVIOUS
    <3> QED
      BY <1>3, <1>4, <3>1
  <2> QED
    BY <1>4, <2>1
<1>6. PICK G : /\ G = [k \in Nat |-> IF k = 0 THEN start ELSE PropagatedAt(pq, k, G[k - 1])]
               /\ Propagated(pq, consistent) = G[n.max]
  BY <1>5, PropagatedUnfolds DEF start
<1> DEFINE Good(p) ==
             /\ p \in V
             /\ \A X, Y \in [Levels(n) -> Int] :
                  (\A l \in Levels(n) : Holds(cons[l], X[l], Y[l])) =>
                    StaysEqual(n, pq.src, pq.dst, p, X, Y)
           S == {k \in Nat : Good(G[k])}
<1>7. 0 \in S
  <2>1. G[0] = start
    BY <1>6
  <2>2. start.src \in SrcSubscripts(n) /\ start.dst \in DstSubscripts(n)
    BY <1>1 DEF SubscriptPairs
  <2> QED
    BY <1>1, <2>1, <2>2 DEF StaysEqual
<1>8. ASSUME NEW k \in S PROVE k + 1 \in S
  <2>1. k \in Nat /\ k + 1 \in Nat /\ k + 1 # 0 /\ (k + 1) - 1 = k /\ G[k] \in V
    BY <1>8
  <2>2. G[k + 1] = PropagatedAt(pq, k + 1, G[k])
    BY <1>6, <2>1
  <2>3. /\ G[k + 1] \in V
        /\ \A X, Y \in [Levels(n) -> Int] :
             (\A l \in Levels(n) : Holds(cons[l], X[l], Y[l])) =>
                StaysEqual(n, G[k].src, G[k].dst, G[k + 1], X, Y)
    BY <2>1, <2>2, PropagatedAtTyped DEF V
  <2>4. Good(G[k + 1])
    BY <1>8, <2>3 DEF StaysEqual
  <2> QED
    BY <2>1, <2>4
<1>9. S = Nat
  <2> HIDE DEF S
  <2>1. S \subseteq Nat
    BY DEF S
  <2> QED
    BY <1>7, <1>8, <2>1, Counting
<1>10. n.max \in S
  BY <1>9 DEF IsNest
<1> QED
  BY <1>6, <1>10 DEF V

-----------------------------------------------------------------------------
(* What the tests of subscripts add to the knowledge of a dependence that    *)
(* they do not disprove.                                                    *)

\* What is known; only loops around both accesses are to be transformed.
Results(m) ==
  {r \in Answers(m) : /\ r.peelFirst \subseteq Common(m) /\ r.peelLast \subseteq Common(m)
                      /\ r.splitable \subseteq Common(m)}
\* What an answer says of a level, directions apart.
Said(m, k, r, x, y) ==
  /\ k \in r.peelFirst => 0 \in {x, y}
  /\ k \in r.peelLast => m.ub[k] \in {x, y}
  /\ r.dist[k] \subseteq {y - x}
  /\ \A t \in r.splitAt[k] : x # y => (x <= t) # (y <= t)
Says(m, r, X, Y) == \A k \in Common(m) : Said(m, k, r, X[k], Y[k])
\* A test that only narrows the directions, or disproves the dependence.
Narrows(m, r, t) ==
  /\ t \in Results(m) /\ t.level = r.level /\ t.cons = r.cons /\ t.dist = r.dist
  /\ t.peelFirst = r.peelFirst /\ t.peelLast = r.peelLast /\ t.splitAt = r.splitAt
  /\ r.disproved => t.disproved
\* A test of one level finds a line for this level and changes no other one.
TestedAt(m, k, r, t) ==
  /\ t \in Results(m) /\ t.level = r.level
  /\ ~t.disproved => t.cons \in LinesOf(m, k)
  /\ \A j \in Common(m) \ {k} :
       /\ j \in t.peelFirst => j \in r.peelFirst
       /\ j \in t.peelLast => j \in r.peelLast
       /\ t.dist[j] = r.dist[j] /\ t.splitAt[j] = r.splitAt[j]
TrueAt(m, k, r, t, x, y) ==
  ~t.disproved /\ (k \in Common(m) => Said(m, k, r, x, y)) =>
    Holds(t.cons, x, y) /\ (k \in Common(m) => Said(m, k, t, x, y))

\* An answer by its parts.
LEMMA ResultParts ==
  ASSUME NEW m, NEW r \in Results(m)
  PROVE  /\ r = [disproved |-> r.disproved, consistent |-> r.consistent, dir |-> r.dir, dist |-> r.dist,
                 peelFirst |-> r.peelFirst, peelLast |-> r.peelLast, splitable |-> r.splitable,
                 splitAt |-> r.splitAt, cons |-> r.cons, level |-> r.level,
                 loopIndependent |-> r.loopIndependent]
         /\ r.disproved \in BOOLEAN /\ r.consistent \in BOOLEAN
         /\ r.dir \in [Common(m) -> SUBSET Directions] /\ r.dist \in [Common(m) -> SUBSET Int]
         /\ r.peelFirst \in SUBSET Common(m) /\ r.peelLast \in SUBSET Common(m)
         /\ r.splitable \in SUBSET Common(m) /\ r.splitAt \in [Common(m) -> SUBSET Int]
         /\ r.cons \in Constraints /\ r.level \in Nat /\ r.loopIndependent \in BOOLEAN
BY DEF Results, Answers

\* A disproved dependence.
LEMMA Refuted ==
  ASSUME NEW m, NEW r \in Results(m)
  PROVE  /\ Disproved(r) \in Results(m) /\ Disproved(r).disproved
         /\ Disproved(r).level = r.level /\ Disproved(r).cons = r.cons
         /\ Disproved(r).dist = r.dist /\ Disproved(r).splitAt = r.splitAt
         /\ Disproved(r).peelFirst = r.peelFirst /\ Disproved(r).peelLast = r.peelLast
BY DEF Results, Answers, Disproved

\* Directions of a level.
LEMMA DirectionNarrowed ==
  ASSUME NEW m, NEW r \in Results(m), NEW k \in Common(m), NEW S
  PROVE  LET t == [r EXCEPT !.dir[k] = @ \cap S]
         IN  /\ t \in Results(m) /\ t.level = r.level /\ t.cons = r.cons /\ t.dist = r.dist
             /\ t.disproved = r.disproved
             /\ t.peelFirst = r.peelFirst /\ t.peelLast = r.peelLast /\ t.splitAt = r.splitAt
BY DEF Results, Answers

\* A distance and a constraint.
WithDistance(r, k, d, c, S) == [r EXCEPT !.dist[k] = {d}, !.cons = c, !.dir[k] = @ \cap S]
\* A test finds the distance and the constraint of a level.
LEMMA DistanceFound ==
  ASSUME NEW m, NEW r \in Results(m), NEW k \in Common(m), NEW d \in Int, NEW c \in Constraints, NEW S
  PROVE  LET t == WithDistance(r, k, d, c, S)
         IN  /\ t \in Results(m) /\ t.level = r.level /\ t.cons = c /\ t.disproved = r.disproved
             /\ t.dist[k] = {d} /\ \A j \in Common(m) \ {k} : t.dist[j] = r.dist[j]
             /\ t.peelFirst = r.peelFirst /\ t.peelLast = r.peelLast /\ t.splitAt = r.splitAt
BY DEF Results, Answers, WithDistance

\* The first iteration is to be peeled.
WithFirstPeeled(r, k, S) == [[r EXCEPT !.dir[k] = @ \cap S] EXCEPT !.peelFirst = @ \cup {k}]
\* A test finds that the first iteration is to be peeled.
LEMMA PeelFirstFound ==
  ASSUME NEW m, Common(m) \subseteq Nat, NEW r \in Results(m), NEW k \in Common(m), NEW S
  PROVE  LET t == WithFirstPeeled(r, k, S)
         IN  /\ t \in Results(m) /\ t.level = r.level /\ t.cons = r.cons /\ t.disproved = r.disproved
             /\ t.dist = r.dist /\ t.splitAt = r.splitAt
             /\ t.peelFirst = r.peelFirst \cup {k} /\ t.peelLast = r.peelLast
<1> DEFINE q == [r EXCEPT !.dir[k] = @ \cap S]
           t == WithFirstPeeled(r, k, S)
<1>1. /\ q \in Results(m) /\ q.level = r.level /\ q.cons = r.cons /\ q.dist = r.dist
      /\ q.disproved = r.disproved
      /\ q.peelFirst = r.peelFirst /\ q.peelLast = r.peelLast /\ q.splitAt = r.splitAt
  BY DirectionNarrowed
<1>2. t = [q EXCEPT !.peelFirst = @ \cup {k}]
  BY DEF WithFirstPeeled
<1> HIDE DEF q, t
<1>3. /\ t \in Results(m) /\ t.level = q.level /\ t.cons = q.cons /\ t.disproved = q.disproved
      /\ t.dist = q.dist /\ t.splitAt = q.splitAt
      /\ t.peelFirst = q.peelFirst \cup {k} /\ t.peelLast = q.peelLast
  BY <1>1, <1>2 DEF Results, Answers
<1>4. t \in Results(m) /\ t.level = r.level /\ t.cons = r.cons /\ t.disproved = r.disproved
  BY <1>1, <1>3
<1>5. /\ t.dist = r.dist /\ t.splitAt = r.splitAt
      /\ t.peelFirst = r.peelFirst \cup {k} /\ t.peelLast = r.peelLast
  BY <1>1, <1>3
<1> QED
  BY <1>4, <1>5 DEF t

\* The last iteration is to be peeled.
WithLastPeeled(r, k, S) == [[r EXCEPT !.dir[k] = @ \cap S] EXCEPT !.peelLast = @ \cup {k}]
\* A test finds that the last iteration is to be peeled.
LEMMA PeelLastFound ==
  ASSUME NEW m, Common(m) \subseteq Nat, NEW r \in Results(m), NEW k \in Common(m), NEW S
  PROVE  LET t == WithLastPeeled(r, k, S)
         IN  /\ t \in Results(m) /\ t.level = r.level /\ t.cons = r.cons /\ t.disproved = r.disproved
             /\ t.dist = r.dist /\ t.splitAt = r.splitAt
             /\ t.peelFirst = r.peelFirst /\ t.peelLast = r.peelLast \cup {k}
<1> DEFINE q == [r EXCEPT !.dir[k] = @ \cap S]
           t == WithLastPeeled(r, k, S)
<1>1. /\ q \in Results(m) /\ q.level = r.level /\ q.cons = r.cons /\ q.dist = r.dist
      /\ q.disproved = r.disproved
      /\ q.peelFirst = r.peelFirst /\ q.peelLast = r.peelLast /\ q.splitAt = r.splitAt
  BY DirectionNarrowed
<1>2. t = [q EXCEPT !.peelLast = @ \cup {k}]
  BY DEF WithLastPeeled
<1> HIDE DEF q, t
<1>3. /\ t \in Results(m) /\ t.level = q.level /\ t.cons = q.cons /\ t.disproved = q.disproved
      /\ t.dist = q.dist /\ t.splitAt = q.splitAt
      /\ t.peelFirst = q.peelFirst /\ t.peelLast = q.peelLast \cup {k}
  BY <1>1, <1>2 DEF Results, Answers
<1>4. t \in Results(m) /\ t.level = r.level /\ t.cons = r.cons /\ t.disproved = r.disproved
  BY <1>1, <1>3
<1>5. /\ t.dist = r.dist /\ t.splitAt = r.splitAt
      /\ t.peelFirst = r.peelFirst /\ t.peelLast = r.peelLast \cup {k}
  BY <1>1, <1>3
<1> QED
  BY <1>4, <1>5 DEF t

\* A constraint of a dependence that happens now and then.
LEMMA LineFound ==
  ASSUME NEW m, NEW r \in Results(m), NEW c \in Constraints
  PROVE  LET t == [Inconsistent(r) EXCEPT !.cons = c]
         IN  /\ t \in Results(m) /\ t.level = r.level /\ t.cons = c /\ t.disproved = r.disproved
             /\ t.dist = r.dist /\ t.splitAt = r.splitAt
             /\ t.peelFirst = r.peelFirst /\ t.peelLast = r.peelLast
BY DEF Results, Answers, Inconsistent

\* Lines are constraints.
LEMMA LinesAreConstraints ==
  ASSUME NEW m, NEW k \in Nat, NEW c \in LinesOf(m, k)
  PROVE  c \in Constraints /\ c.A \in Int /\ c.B \in Int /\ c.C \in Int
BY DEF LinesOf, LinesAt, Constraints

\* The strong test finds the distance.
LEMMA StrongFinds ==
  ASSUME NEW m, IsNest(m), NEW k \in Common(m), NEW r \in Results(m),
         NEW a \in Int \ {0}, NEW c1 \in Int, NEW c2 \in Int
  PROVE  LET t == StrongSIV(m, k, a, c1, c2, r)
         IN  /\ TestedAt(m, k, r, t)
             /\ \A x, y \in Nat : c1 + a * x = c2 + a * y => TrueAt(m, k, r, t, x, y)
<1> DEFINE delta == c1 - c2
           d == Quot(delta, a)
           D == Distance(d, k)
           t == StrongSIV(m, k, a, c1, c2, r)
<1>1. /\ Common(m) \subseteq Nat /\ k \in Nat /\ delta \in Int /\ d \in Int
      /\ k \in SrcLevels(m) /\ k \in DstLevels(m)
  BY NestLevels, QuotType
<1>2. D \in LinesOf(m, k)
  BY <1>1 DEF LinesOf, LinesAt, Distance
<1>3. CASE t = Disproved(r)
  <2> HIDE DEF t
  <2>1. /\ t \in Results(m) /\ t.disproved /\ t.level = r.level /\ t.dist = r.dist /\ t.splitAt = r.splitAt
        /\ t.peelFirst = r.peelFirst /\ t.peelLast = r.peelLast
    BY <1>3, Refuted
  <2>2. TestedAt(m, k, r, t) /\ \A x, y \in Nat : TrueAt(m, k, r, t, x, y)
    BY <2>1 DEF TestedAt, TrueAt
  <2> QED
    BY <2>2 DEF t
<1>4. CASE t # Disproved(r)
  <2> HIDE DEF D, d
  <2>1. t = WithDistance(r, k, d, D, {DirectionOf(d)})
    BY <1>4 DEF StrongSIV, WithDistance, D, d
  <2>4. D \in Constraints
    BY <1>1, <1>2, LinesAreConstraints
  <2> HIDE DEF t
  <2>3. /\ t \in Results(m) /\ t.level = r.level /\ t.cons = D /\ t.disproved = r.disproved
        /\ t.dist[k] = {d} /\ \A j \in Common(m) \ {k} : t.dist[j] = r.dist[j]
        /\ t.peelFirst = r.peelFirst /\ t.peelLast = r.peelLast /\ t.splitAt = r.splitAt
    BY <1>1, <2>1, <2>4, DistanceFound
  <2>6. TestedAt(m, k, r, t)
    BY <1>2, <2>3 DEF TestedAt
  <2>7. ASSUME NEW x \in Nat, NEW y \in Nat, c1 + a * x = c2 + a * y
        PROVE  TrueAt(m, k, r, t, x, y)
    <3>1. y - x \in Int /\ delta = a * (y - x)
      BY <2>7
    <3>2. d = y - x
      BY <3>1, QuotExact DEF d
    <3>3. Holds(D, x, y)
      BY <3>2 DEF Holds, Distance, D
    <3>4. t.dist[k] \subseteq {y - x} /\ t.cons = D
      BY <2>3, <3>2
    <3>5. t.peelFirst = r.peelFirst /\ t.peelLast = r.peelLast /\ t.splitAt = r.splitAt
      BY <2>3
    <3> QED
      BY <3>3, <3>4, <3>5 DEF TrueAt, Said
  <2> QED
    BY <2>6, <2>7 DEF t
<1> QED
  BY <1>3, <1>4

\* A weak test finds the line it is given, and the iteration to peel.
LEMMA WeakZeroFinds ==
  ASSUME NEW m, IsNest(m), NEW k \in Levels(m), NEW r \in Results(m), NEW line \in LinesOf(m, k),
         NEW a \in Int \ {0}, NEW delta \in Int,
         NEW first \in SUBSET Directions, NEW last \in SUBSET Directions
  PROVE  LET t == WeakZeroSIV(m, k, line, a, delta, first, last, r)
         IN  /\ TestedAt(m, k, r, t)
             /\ \A x, y \in Nat : \A z \in {x, y} :
                  delta = a * z /\ Holds(line, x, y) => TrueAt(m, k, r, t, x, y)
<1> DEFINE t == WeakZeroSIV(m, k, line, a, delta, first, last, r)
           q == [Inconsistent(r) EXCEPT !.cons = line]
<1>1. /\ Common(m) \subseteq Nat /\ k \in Nat /\ line \in Constraints
      /\ m.ub[k] \in Int /\ (m.ub[k] # NoBound => m.ub[k] \in Nat)
  BY NestLevels, LinesAreConstraints DEF IsNest, Bounds, NoBound
<1>2. /\ q \in Results(m) /\ q.cons = line /\ q.level = r.level /\ q.disproved = r.disproved
      /\ q.dist = r.dist /\ q.splitAt = r.splitAt /\ q.peelFirst = r.peelFirst /\ q.peelLast = r.peelLast
  BY <1>1, LineFound
<1> HIDE DEF q
<1>3. CASE t = Disproved(q)
  <2> HIDE DEF t
  <2>1. /\ t \in Results(m) /\ t.disproved /\ t.level = q.level /\ t.dist = q.dist /\ t.splitAt = q.splitAt
        /\ t.peelFirst = q.peelFirst /\ t.peelLast = q.peelLast
    BY <1>2, <1>3, Refuted
  <2>2. TestedAt(m, k, r, t) /\ \A x, y \in Nat : TrueAt(m, k, r, t, x, y)
    BY <1>2, <2>1 DEF TestedAt, TrueAt
  <2> QED
    BY <2>2 DEF t
<1>4. CASE t = q
  <2> HIDE DEF t
  <2>1. TestedAt(m, k, r, t)
    BY <1>2, <1>4 DEF TestedAt
  <2>2. \A x, y \in Nat : Holds(line, x, y) => TrueAt(m, k, r, t, x, y)
    BY <1>2, <1>4 DEF TrueAt, Said
  <2> QED
    BY <2>1, <2>2 DEF t
<1>5. CASE delta = 0 /\ k \in Common(m)
  <2>1. t = WithFirstPeeled(q, k, first)
    BY <1>5 DEF WeakZeroSIV, Peel, WithFirstPeeled, q
  <2> HIDE DEF t
  <2>4. /\ t \in Results(m) /\ t.level = q.level /\ t.cons = q.cons /\ t.disproved = q.disproved
        /\ t.dist = q.dist /\ t.splitAt = q.splitAt
        /\ t.peelFirst = q.peelFirst \cup {k} /\ t.peelLast = q.peelLast
    BY <1>1, <1>2, <1>5, <2>1, PeelFirstFound
  <2>6. TestedAt(m, k, r, t)
    BY <1>2, <2>4 DEF TestedAt
  <2>7. ASSUME NEW x \in Nat, NEW y \in Nat, NEW z \in {x, y}, delta = a * z, Holds(line, x, y)
        PROVE  TrueAt(m, k, r, t, x, y)
    <3>1. z = 0
      BY <1>5, <2>7
    <3> QED
      BY <1>2, <2>4, <2>7, <3>1 DEF TrueAt, Said
  <2> QED
    BY <2>6, <2>7 DEF t
<1>6. CASE /\ delta # 0 /\ k \in Common(m)
           /\ m.ub[k] # NoBound /\ Sign(a) * delta = AbsOf(a) * m.ub[k]
  <2>1. t = WithLastPeeled(q, k, last)
    BY <1>6 DEF WeakZeroSIV, Peel, WithLastPeeled, q
  <2> HIDE DEF t
  <2>4. /\ t \in Results(m) /\ t.level = q.level /\ t.cons = q.cons /\ t.disproved = q.disproved
        /\ t.dist = q.dist /\ t.splitAt = q.splitAt
        /\ t.peelFirst = q.peelFirst /\ t.peelLast = q.peelLast \cup {k}
    BY <1>1, <1>2, <1>6, <2>1, PeelLastFound
  <2>6. TestedAt(m, k, r, t)
    BY <1>2, <2>4 DEF TestedAt
  <2>7. ASSUME NEW x \in Nat, NEW y \in Nat, NEW z \in {x, y}, delta = a * z, Holds(line, x, y)
        PROVE  TrueAt(m, k, r, t, x, y)
    <3>1. AbsOf(a) * z = AbsOf(a) * m.ub[k] /\ AbsOf(a) \in Nat \ {0}
      <4>1. CASE a > 0
        BY <1>6, <2>7, <4>1 DEF AbsOf, Sign
      <4>2. CASE a < 0
        BY <1>6, <2>7, <4>2 DEF AbsOf, Sign
      <4> QED BY <4>1, <4>2
    <3>2. z = m.ub[k]
      <4> DEFINE b == AbsOf(a)
                 u == m.ub[k]
      <4>1. b \in Nat \ {0} /\ u \in Nat /\ z \in Nat /\ b * z = b * u
        BY <1>1, <1>6, <2>7, <3>1
      <4> HIDE DEF b, u
      <4>2. ~(z < u) /\ ~(u < z)
        BY <4>1, TimesLess
      <4> QED BY <4>1, <4>2 DEF u
    <3> QED
      BY <1>2, <2>4, <2>7, <3>2 DEF TrueAt, Said
  <2> QED
    BY <2>6, <2>7 DEF t
<1>7. \/ t \in {q, Disproved(q)}
      \/ delta = 0 /\ k \in Common(m)
      \/ /\ delta # 0 /\ k \in Common(m)
         /\ m.ub[k] # NoBound /\ Sign(a) * delta = AbsOf(a) * m.ub[k]
  BY DEF WeakZeroSIV, q
<1> QED
  BY <1>3, <1>4, <1>5, <1>6, <1>7

\* Directions of a level are replaced.
WithDirections(r, k, S) == [r EXCEPT !.dir[k] = S]
SameButDirections(m, r, t) ==
  /\ t \in Results(m) /\ t.level = r.level /\ t.cons = r.cons /\ t.dist = r.dist
  /\ t.disproved = r.disproved
  /\ t.peelFirst = r.peelFirst /\ t.peelLast = r.peelLast /\ t.splitAt = r.splitAt
\* A test finds the directions of a level.
LEMMA DirectionsFound ==
  ASSUME NEW m, NEW r \in Results(m), NEW k \in Common(m), NEW S \in SUBSET Directions
  PROVE  SameButDirections(m, r, WithDirections(r, k, S))
BY DEF Results, Answers, WithDirections, SameButDirections

\* Directions of a level, of which none may be left.
LEMMA NarrowedFinds ==
  ASSUME NEW m, NEW r \in Results(m), NEW k \in Common(m), NEW S
  PROVE  Narrows(m, r, Narrowed(r, k, S))
<1> DEFINE s == WithDirections(r, k, r.dir[k] \cap S)
           t == Narrowed(r, k, S)
<1>1. r.dir[k] \cap S \in SUBSET Directions
  BY ResultParts
<1>2. SameButDirections(m, r, s)
  BY <1>1, DirectionsFound
<1>3. t = IF s.dir[k] = {} THEN Disproved(s) ELSE s
  BY DEF Narrowed, WithDirections
<1> HIDE DEF s, t
<1>4. ASSUME t = s PROVE Narrows(m, r, t)
  BY <1>2, <1>4 DEF Narrows, SameButDirections
<1>5. ASSUME t = Disproved(s) PROVE Narrows(m, r, t)
  <2>1. s \in Results(m)
    BY <1>2 DEF SameButDirections
  <2>2. /\ t \in Results(m) /\ t.disproved /\ t.level = s.level /\ t.cons = s.cons
        /\ t.dist = s.dist /\ t.splitAt = s.splitAt
        /\ t.peelFirst = s.peelFirst /\ t.peelLast = s.peelLast
    BY <1>5, <2>1, Refuted
  <2> QED
    BY <1>2, <2>2 DEF Narrows, SameButDirections
<1>6. Narrows(m, r, t)
  BY <1>3, <1>4, <1>5
<1> QED
  BY <1>6 DEF t

\* The distance of a level.
LEMMA ZeroDistance ==
  ASSUME NEW m, NEW r \in Results(m), NEW k \in Common(m)
  PROVE  LET t == [r EXCEPT !.dist[k] = {0}]
         IN  /\ t \in Results(m) /\ t.level = r.level /\ t.cons = r.cons /\ t.disproved = r.disproved
             /\ t.dist[k] = {0} /\ \A j \in Common(m) \ {k} : t.dist[j] = r.dist[j]
             /\ t.peelFirst = r.peelFirst /\ t.peelLast = r.peelLast /\ t.splitAt = r.splitAt
BY DEF Results, Answers

\* If only equal iterations are left their distance is known.
LEMMA OnlyEqualFinds ==
  ASSUME NEW m, NEW r \in Results(m), NEW k \in Common(m)
  PROVE  LET t == OnlyEqual(k, r)
         IN  /\ t \in Results(m) /\ t.level = r.level /\ t.cons = r.cons
             /\ (t.disproved <=> r.disproved) \/ t.disproved
             /\ ~t.disproved => t.dist[k] = {0}
             /\ \A j \in Common(m) \ {k} : t.dist[j] = r.dist[j]
             /\ t.peelFirst = r.peelFirst /\ t.peelLast = r.peelLast /\ t.splitAt = r.splitAt
<1> DEFINE s == WithDirections(r, k, r.dir[k] \cap {"="})
           e == [s EXCEPT !.dist[k] = {0}]
           t == OnlyEqual(k, r)
<1>1. r.dir[k] \cap {"="} \in SUBSET Directions
  BY ResultParts
<1>2. SameButDirections(m, r, s)
  BY <1>1, DirectionsFound
<1>3. t = IF s.dir[k] = {} THEN Disproved(s) ELSE e
  BY DEF OnlyEqual, WithDirections
<1> HIDE DEF s, t
<1>4. s \in Results(m)
  BY <1>2 DEF SameButDirections
<1>5. /\ e \in Results(m) /\ e.level = s.level /\ e.cons = s.cons /\ e.disproved = s.disproved
      /\ e.dist[k] = {0} /\ \A j \in Common(m) \ {k} : e.dist[j] = s.dist[j]
      /\ e.peelFirst = s.peelFirst /\ e.peelLast = s.peelLast /\ e.splitAt = s.splitAt
  BY <1>4, ZeroDistance
<1> HIDE DEF e
<1>6. CASE t = e
  <2>1. /\ t \in Results(m) /\ t.level = r.level /\ t.cons = r.cons /\ t.disproved = r.disproved
        /\ t.dist[k] = {0} /\ \A j \in Common(m) \ {k} : t.dist[j] = r.dist[j]
        /\ t.peelFirst = r.peelFirst /\ t.peelLast = r.peelLast /\ t.splitAt = r.splitAt
    BY <1>2, <1>5, <1>6 DEF SameButDirections
  <2> QED
    BY <2>1 DEF t
<1>7. CASE t = Disproved(s)
  <2>2. /\ t \in Results(m) /\ t.disproved /\ t.level = s.level /\ t.cons = s.cons
        /\ t.dist = s.dist /\ t.splitAt = s.splitAt
        /\ t.peelFirst = s.peelFirst /\ t.peelLast = s.peelLast
    BY <1>4, <1>7, Refuted
  <2>3. /\ t \in Results(m) /\ t.disproved /\ t.level = r.level /\ t.cons = r.cons
        /\ t.dist = r.dist /\ t.splitAt = r.splitAt
        /\ t.peelFirst = r.peelFirst /\ t.peelLast = r.peelLast
    BY <1>2, <2>2 DEF SameButDirections
  <2> QED
    BY <2>3 DEF t
<1> QED
  BY <1>3, <1>6, <1>7

\* The level is to be split, and no longer to be.
WithSplit(r, k, i) == [r EXCEPT !.splitable = @ \cup {k},
                                !.splitAt[k] = IF @ # {} THEN @ ELSE {i}]
WithoutSplit(r, k) == [r EXCEPT !.splitable = @ \ {k}]
Splits(m, k, r, i, t) ==
  /\ t \in Results(m) /\ t.level = r.level /\ t.cons = r.cons /\ t.disproved = r.disproved
  /\ t.dist = r.dist /\ t.peelFirst = r.peelFirst /\ t.peelLast = r.peelLast
  /\ t.splitAt[k] \in {r.splitAt[k], {i}}
  /\ \A j \in Common(m) \ {k} : t.splitAt[j] = r.splitAt[j]
\* A test finds where a level is to be split.
LEMMA SplitFound ==
  ASSUME NEW m, Common(m) \subseteq Nat, NEW r \in Results(m), NEW k \in Common(m), NEW i \in Int
  PROVE  Splits(m, k, r, i, WithSplit(r, k, i))
BY DEF Results, Answers, WithSplit, Splits
\* A level is not to be split any more.
LEMMA SplitLost ==
  ASSUME NEW m, NEW r \in Results(m), NEW k
  PROVE  SameButDirections(m, r, WithoutSplit(r, k))
BY DEF Results, Answers, WithoutSplit, SameButDirections

\* The crossing test finds where the iterations cross.
LEMMA CrossingFinds ==
  ASSUME NEW m, IsNest(m), NEW k \in Common(m), NEW r \in Results(m),
         NEW a1 \in Int \ {0}, NEW c1 \in Int, NEW c2 \in Int
  PROVE  LET t == WeakCrossingSIV(m, k, a1, c1, c2, r)
         IN  /\ TestedAt(m, k, r, t)
             /\ \A x, y \in Nat : InLoop(m, k, x) /\ InLoop(m, k, y) /\ c1 + a1 * x = c2 - a1 * y =>
                  TrueAt(m, k, r, t, x, y)
<1> DEFINE line == Line(a1, a1, c2 - c1, k)
           q == [Inconsistent(r) EXCEPT !.cons = line]
           a == AbsOf(a1)
           delta == Sign(a1) * (c2 - c1)
           i == SplitIteration(delta, a)
           s == WithSplit(q, k, i)
           u == WithoutSplit(s, k)
           last == 2 * a * m.ub[k]
           t == WeakCrossingSIV(m, k, a1, c1, c2, r)
<1>1. /\ Common(m) \subseteq Nat /\ k \in Nat /\ k \in Levels(m)
      /\ k \in SrcLevels(m) /\ k \in DstLevels(m)
      /\ m.ub[k] \in Int /\ (m.ub[k] # NoBound => m.ub[k] \in Nat)
  BY NestLevels DEF IsNest, Bounds, NoBound
<1>2. line \in LinesOf(m, k)
  BY <1>1 DEF LinesOf, LinesAt, Line
<1>3. line \in Constraints
  BY <1>1, <1>2, LinesAreConstraints
<1>4. /\ q \in Results(m) /\ q.cons = line /\ q.level = r.level /\ q.disproved = r.disproved
      /\ q.dist = r.dist /\ q.splitAt = r.splitAt /\ q.peelFirst = r.peelFirst /\ q.peelLast = r.peelLast
  BY <1>3, LineFound
<1>5. a \in Nat \ {0} /\ delta \in Int /\ i \in Int
  <2>1. a \in Nat \ {0} /\ delta \in Int
    BY DEF AbsOf, Sign
  <2>2. PositivePart(delta) \in Int /\ 2 * a \in Nat \ {0}
    BY <2>1 DEF PositivePart
  <2> QED
    BY <2>1, <2>2, DivBounds DEF SplitIteration
<1>6. /\ s \in Results(m) /\ s.level = r.level /\ s.cons = line /\ s.disproved = r.disproved
      /\ s.dist = r.dist /\ s.peelFirst = r.peelFirst /\ s.peelLast = r.peelLast
      /\ s.splitAt[k] \in {r.splitAt[k], {i}}
      /\ \A j \in Common(m) \ {k} : s.splitAt[j] = r.splitAt[j]
  <2>0. s = WithSplit(q, k, i)
    OBVIOUS
  <2> HIDE DEF q, i, s, t, a, delta, last, line
  <2>9. Splits(m, k, q, i, s)
    BY <1>1, <1>4, <1>5, <2>0, SplitFound
  <2>1. /\ s \in Results(m) /\ s.level = q.level /\ s.cons = q.cons /\ s.disproved = q.disproved
        /\ s.dist = q.dist /\ s.peelFirst = q.peelFirst /\ s.peelLast = q.peelLast
        /\ s.splitAt[k] \in {q.splitAt[k], {i}}
        /\ \A j \in Common(m) \ {k} : s.splitAt[j] = q.splitAt[j]
    BY <2>9 DEF Splits
  <2> QED
    BY <1>4, <2>1
\* What the result is, and when only equal iterations are left.
<1>7. \/ t = OnlyEqual(k, q) /\ delta = 0
      \/ t = Disproved(s)
      \/ t = OnlyEqual(k, u) /\ m.ub[k] # NoBound /\ delta = last
      \/ t = WithDirections(s, k, s.dir[k] \ {"="})
      \/ t = s
  <2>1. c1 = c2 => delta = 0
    BY <1>5 DEF Sign
  <2> HIDE DEF delta, last
  <2> QED
    BY <2>1 DEF WeakCrossingSIV, WithSplit, WithoutSplit, WithDirections, delta, last
<1>8. ASSUME NEW x \in Nat, NEW y \in Nat, InLoop(m, k, x), InLoop(m, k, y), c1 + a1 * x = c2 - a1 * y
      PROVE  /\ Holds(line, x, y)
             /\ delta = a * (x + y)
             /\ x # y => (x <= i) # (y <= i)
  <2>1. c2 - c1 = a1 * (x + y)
    BY <1>8
  <2>2. Holds(line, x, y)
    BY <2>1 DEF Holds, Line
  <2>3. delta = a * (x + y)
    <3>1. CASE a1 > 0
      BY <1>8, <3>1 DEF AbsOf, Sign
    <3>2. CASE a1 < 0
      BY <1>8, <3>2 DEF AbsOf, Sign
    <3> QED BY <3>1, <3>2
  <2>4. x # y => (x <= i) # (y <= i)
    <3> HIDE DEF a, delta
    <3> QED
      BY <1>5, <2>3, SplitsPair DEF SplitIteration
  <2> QED
    BY <2>2, <2>3, <2>4
<1>9. ASSUME NEW p \in {q, s}, NEW z, z \in Results(m), z.level = p.level, z.cons = p.cons,
             \A j \in Common(m) \ {k} : z.dist[j] = p.dist[j],
             z.peelFirst = p.peelFirst, z.peelLast = p.peelLast, z.splitAt = p.splitAt
      PROVE  TestedAt(m, k, r, z)
  <2> HIDE DEF q, s, line
  <2> QED
    BY <1>2, <1>4, <1>6, <1>9 DEF TestedAt
<1>10. ASSUME NEW p \in {q, s}, NEW z, z.cons = p.cons, z.peelFirst = p.peelFirst, z.peelLast = p.peelLast,
              z.splitAt = p.splitAt, NEW x \in Nat, NEW y \in Nat,
              InLoop(m, k, x), InLoop(m, k, y), c1 + a1 * x = c2 - a1 * y,
              ~z.disproved => z.dist[k] \subseteq {y - x} \/ z.dist[k] = r.dist[k]
       PROVE  TrueAt(m, k, r, z, x, y)
  <2>1. Holds(line, x, y) /\ (x # y => (x <= i) # (y <= i))
    BY <1>8, <1>10
  <2>2. z.cons = line /\ z.peelFirst = r.peelFirst /\ z.peelLast = r.peelLast
        /\ z.splitAt[k] \in {r.splitAt[k], {i}}
    <3> HIDE DEF q, s, line, i
    <3> QED BY <1>4, <1>6, <1>10
  <2> HIDE DEF q, s, line, i
  <2> QED
    BY <1>10, <2>1, <2>2 DEF TrueAt, Said
<1> DEFINE Right(z) ==
             /\ TestedAt(m, k, r, z)
             /\ \A x, y \in Nat : InLoop(m, k, x) /\ InLoop(m, k, y) /\ c1 + a1 * x = c2 - a1 * y =>
                  TrueAt(m, k, r, z, x, y)
\* A step that does not touch the distance of the level.
<1>11. ASSUME NEW z, SameButDirections(m, s, z) PROVE Right(z)
  <2>1. /\ z \in Results(m) /\ z.level = s.level /\ z.cons = s.cons /\ z.dist = s.dist
        /\ z.peelFirst = s.peelFirst /\ z.peelLast = s.peelLast /\ z.splitAt = s.splitAt
    BY <1>11 DEF SameButDirections
  <2>2. z.dist[k] = r.dist[k]
    BY <1>6, <2>1
  <2> HIDE DEF q, s
  <2>3. TestedAt(m, k, r, z)
    BY <1>9, <2>1
  <2>4. \A x, y \in Nat : InLoop(m, k, x) /\ InLoop(m, k, y) /\ c1 + a1 * x = c2 - a1 * y =>
          TrueAt(m, k, r, z, x, y)
    BY <1>10, <2>1, <2>2
  <2> QED
    BY <2>3, <2>4
\* A step that leaves equal iterations, when there are no other ones.
<1>12. ASSUME NEW p \in {q, s}, NEW b, SameButDirections(m, p, b),
              \A x, y \in Nat : InLoop(m, k, x) /\ InLoop(m, k, y) /\ delta = a * (x + y) => x = y
       PROVE  Right(OnlyEqual(k, b))
  <2> DEFINE z == OnlyEqual(k, b)
  <2>1. /\ b \in Results(m) /\ b.level = p.level /\ b.cons = p.cons /\ b.dist = p.dist
        /\ b.peelFirst = p.peelFirst /\ b.peelLast = p.peelLast /\ b.splitAt = p.splitAt
    BY <1>12 DEF SameButDirections
  <2>2. /\ z \in Results(m) /\ z.level = b.level /\ z.cons = b.cons
        /\ ~z.disproved => z.dist[k] = {0}
        /\ \A j \in Common(m) \ {k} : z.dist[j] = b.dist[j]
        /\ z.peelFirst = b.peelFirst /\ z.peelLast = b.peelLast /\ z.splitAt = b.splitAt
    BY <2>1, OnlyEqualFinds
  <2> HIDE DEF z, q, s
  <2>3. /\ z \in Results(m) /\ z.level = p.level /\ z.cons = p.cons
        /\ \A j \in Common(m) \ {k} : z.dist[j] = p.dist[j]
        /\ z.peelFirst = p.peelFirst /\ z.peelLast = p.peelLast /\ z.splitAt = p.splitAt
    BY <2>1, <2>2
  <2>4. TestedAt(m, k, r, z)
    BY <1>9, <2>3
  <2>5. ASSUME NEW x \in Nat, NEW y \in Nat, InLoop(m, k, x), InLoop(m, k, y), c1 + a1 * x = c2 - a1 * y
        PROVE  TrueAt(m, k, r, z, x, y)
    <3>1. delta = a * (x + y)
      BY <1>8, <2>5
    <3> HIDE DEF delta, a
    <3>2. x = y
      BY <1>12, <2>5, <3>1
    <3>3. ~z.disproved => z.dist[k] \subseteq {y - x}
      BY <2>2, <3>2
    <3> QED
      BY <1>10, <2>3, <2>5, <3>3
  <2> QED
    BY <2>4, <2>5 DEF z
<1>13. CASE t = s
  <2>1. SameButDirections(m, s, s)
    BY <1>6 DEF SameButDirections
  <2> HIDE DEF s, t, q
  <2> QED
    BY <1>11, <1>13, <2>1 DEF t
<1>14. CASE t = WithDirections(s, k, s.dir[k] \ {"="})
  <2> HIDE DEF s, t, q
  <2>1. s.dir[k] \ {"="} \in SUBSET Directions
    BY <1>6, ResultParts
  <2>2. SameButDirections(m, s, t)
    BY <1>6, <1>14, <2>1, DirectionsFound
  <2> QED
    BY <1>11, <2>2 DEF t
<1>15. CASE t = OnlyEqual(k, q) /\ delta = 0
  <2>1. SameButDirections(m, q, q)
    BY <1>4 DEF SameButDirections
  <2>2. \A x, y \in Nat : delta = a * (x + y) => x = y
    <3> HIDE DEF a, delta
    <3> QED BY <1>5, <1>15
  <2> HIDE DEF q, s, delta, a, t
  <2>3. Right(OnlyEqual(k, q))
    BY <1>12, <2>1, <2>2
  <2> QED
    BY <1>15, <2>3 DEF t
<1>16. CASE t = OnlyEqual(k, u) /\ m.ub[k] # NoBound /\ delta = last
  <2>1. SameButDirections(m, s, u)
    <3> HIDE DEF s
    <3> QED BY <1>6, SplitLost
  <2>2. \A x, y \in Nat : InLoop(m, k, x) /\ InLoop(m, k, y) /\ delta = a * (x + y) => x = y
    <3>1. SUFFICES ASSUME NEW x \in Nat, NEW y \in Nat, InLoop(m, k, x), InLoop(m, k, y),
                          delta = a * (x + y)
                   PROVE  x = y
      OBVIOUS
    <3> DEFINE b == m.ub[k]
    <3>2. x <= b /\ y <= b /\ b \in Nat
      BY <1>1, <1>16, <3>1 DEF InLoop
    <3>3. a * (x + y) = a * (2 * b)
      <4> HIDE DEF a, delta
      <4> QED BY <1>5, <1>16, <3>1, <3>2
    <3> HIDE DEF a, delta, b
    <3>4. ~(x + y < 2 * b)
      BY <1>5, <3>2, <3>3, TimesLess
    <3> QED
      BY <3>2, <3>4
  <2> HIDE DEF q, s, u, delta, a, t
  <2>3. Right(OnlyEqual(k, u))
    BY <1>12, <2>1, <2>2
  <2> QED
    BY <1>16, <2>3 DEF t
<1>17. CASE t = Disproved(s)
  <2> HIDE DEF q, s, t
  <2>1. /\ t \in Results(m) /\ t.disproved /\ t.level = s.level /\ t.cons = s.cons /\ t.dist = s.dist
        /\ t.splitAt = s.splitAt /\ t.peelFirst = s.peelFirst /\ t.peelLast = s.peelLast
    BY <1>6, <1>17, Refuted
  <2>2. TestedAt(m, k, r, t)
    BY <1>9, <2>1
  <2>3. \A x, y \in Nat : TrueAt(m, k, r, t, x, y)
    BY <2>1 DEF TrueAt
  <2> QED
    BY <2>2, <2>3 DEF t
<1> HIDE DEF q, s, u, delta, a, t, last
<1> QED
  BY <1>7, <1>13, <1>14, <1>15, <1>16, <1>17

\* Tests that do not look at the iterations one by one.
LEMMA NarrowsOn ==
  ASSUME NEW m, NEW r, NEW s, NEW t, Narrows(m, r, s), Narrows(m, s, t)
  PROVE  Narrows(m, r, t)
BY DEF Narrows
\* No test at all, a refutation and a loss of consistency narrow what is
\* known.
LEMMA NarrowsItself ==
  ASSUME NEW m, NEW r \in Results(m)
  PROVE  Narrows(m, r, r) /\ Narrows(m, r, Disproved(r)) /\ Narrows(m, r, Inconsistent(r))
<1>1. Narrows(m, r, r)
  BY DEF Narrows
<1>2. Narrows(m, r, Disproved(r))
  BY Refuted DEF Narrows
<1>3. Narrows(m, r, Inconsistent(r))
  BY DEF Narrows, Inconsistent, Results, Answers
<1> QED
  BY <1>1, <1>2, <1>3

\* The exact test finds the line, and directions that are left.
LEMMA ExactFinds ==
  ASSUME NEW m, IsNest(m), NEW k \in Common(m), NEW r \in Results(m),
         NEW am \in Int \ {0}, NEW bm \in Int \ {0}, NEW c1 \in Int, NEW c2 \in Int
  PROVE  LET t == ExactSIV(m, k, am, bm, c1, c2, r)
         IN  /\ TestedAt(m, k, r, t)
             /\ \A x, y \in Nat : c1 + am * x = c2 + bm * y => TrueAt(m, k, r, t, x, y)
<1> DEFINE line == Line(am, -bm, c2 - c1, k)
           q == [Inconsistent(r) EXCEPT !.cons = line]
           t == ExactSIV(m, k, am, bm, c1, c2, r)
<1>1. k \in Nat /\ k \in SrcLevels(m) /\ k \in DstLevels(m)
  BY NestLevels
<1>2. line \in LinesOf(m, k)
  BY <1>1 DEF LinesOf, LinesAt, Line
<1>3. line \in Constraints
  BY <1>1, <1>2, LinesAreConstraints
<1>4. /\ q \in Results(m) /\ q.cons = line /\ q.level = r.level /\ q.disproved = r.disproved
      /\ q.dist = r.dist /\ q.splitAt = r.splitAt /\ q.peelFirst = r.peelFirst /\ q.peelLast = r.peelLast
  BY <1>3, LineFound
<1>5. \E S : t \in {Disproved(q), Narrowed(q, k, S)}
  BY DEF ExactSIV
<1> HIDE DEF q, t, line
<1>6. Narrows(m, q, t)
  BY <1>4, <1>5, NarrowsItself, NarrowedFinds
<1>7. TestedAt(m, k, r, t)
  BY <1>2, <1>4, <1>6 DEF TestedAt, Narrows
<1>8. ASSUME NEW x \in Nat, NEW y \in Nat, c1 + am * x = c2 + bm * y
      PROVE  TrueAt(m, k, r, t, x, y)
  <2>1. Holds(line, x, y)
    BY <1>8 DEF Holds, Line, line
  <2> QED
    BY <1>4, <1>6, <2>1 DEF TrueAt, Said, Narrows
<1> QED
  BY <1>7, <1>8 DEF t

\* What a test makes of all directions at once.
AllDirections(r, D) == [r EXCEPT !.dir = D]
\* Only the directions change.
LEMMA AllDirectionsNarrow ==
  ASSUME NEW m, NEW r \in Results(m), NEW D \in [Common(m) -> SUBSET Directions]
  PROVE  Narrows(m, r, AllDirections(r, D))
BY DEF Narrows, AllDirections, Results, Answers

\* The tests of several loops say nothing of distances, peeling or splitting.
LEMMA GcdNarrows ==
  ASSUME NEW m, NEW r \in Results(m), NEW src, NEW dst
  PROVE  Narrows(m, r, GcdMIV(m, src, dst, r))
<1> DEFINE t == GcdMIV(m, src, dst, r)
<1>1. r.dir \in [Common(m) -> SUBSET Directions]
  BY ResultParts
<1>2. \E U : t \in {r, Disproved(r),
                   AllDirections(r, [k \in Common(m) |-> IF k \in U THEN r.dir[k] \ {"="} ELSE r.dir[k]])}
  BY <1>1 DEF GcdMIV, AllDirections
<1>3. PICK U : t \in {r, Disproved(r),
                   AllDirections(r, [k \in Common(m) |-> IF k \in U THEN r.dir[k] \ {"="} ELSE r.dir[k]])}
  BY <1>2
<1>4. [k \in Common(m) |-> IF k \in U THEN r.dir[k] \ {"="} ELSE r.dir[k]]
        \in [Common(m) -> SUBSET Directions]
  BY <1>1
<1> HIDE DEF t
<1>5. Narrows(m, r, t)
  BY <1>3, <1>4, NarrowsItself, AllDirectionsNarrow
<1> QED
  BY <1>5 DEF t

\* Banerjee's test only narrows the directions.
LEMMA BanerjeeNarrows ==
  ASSUME NEW m, NEW r \in Results(m), NEW src, NEW dst
  PROVE  Narrows(m, r, BanerjeeMIV(m, src, dst, r))
<1> DEFINE loops == Common(m) \cap (Mentioned(m, src) \cup Mentioned(m, dst))
           found == ExploreDirections(m, src, dst, loops)
           dir == [k \in Common(m) |->
                     IF k \in loops THEN r.dir[k] \cap {v[k] : v \in found} ELSE r.dir[k]]
           t == BanerjeeMIV(m, src, dst, r)
<1>1. r.dir \in [Common(m) -> SUBSET Directions]
  BY ResultParts
<1>2. t \in {Disproved(r), AllDirections(r, dir)}
  <2> HIDE DEF found
  <2>1. t = IF found = {} \/ \E k \in loops : dir[k] = {} THEN Disproved(r) ELSE [r EXCEPT !.dir = dir]
    BY DEF BanerjeeMIV, found
  <2> HIDE DEF t, dir
  <2> QED
    BY <2>1 DEF AllDirections
<1>3. dir \in [Common(m) -> SUBSET Directions]
  <2> HIDE DEF found, loops
  <2> QED
    BY <1>1
<1> HIDE DEF t, dir
<1>4. Narrows(m, r, t)
  BY <1>2, <1>3, NarrowsItself, AllDirectionsNarrow
<1> QED
  BY <1>4 DEF t

\* So do all tests but those of one loop.
LEMMA OtherTestsNarrow ==
  ASSUME NEW m, NEW r \in Results(m), NEW src, NEW dst
  PROVE  /\ Narrows(m, r, TestZIV(src, dst, r))
         /\ Narrows(m, r, TestMIV(m, src, dst, r))
         /\ Narrows(m, r, TestRDIV(m, src, dst, r))
         /\ \A a1, a2, c1, c2, n1, n2 : Narrows(m, r, SymbolicRDIV(a1, a2, c1, c2, n1, n2, r))
<1>1. ASSUME NEW q \in Results(m), NEW a1, NEW a2, NEW c1, NEW c2, NEW n1, NEW n2
      PROVE  Narrows(m, q, SymbolicRDIV(a1, a2, c1, c2, n1, n2, q))
  <2>1. SymbolicRDIV(a1, a2, c1, c2, n1, n2, q) \in {q, Disproved(q)}
    BY DEF SymbolicRDIV
  <2> QED
    BY <2>1, NarrowsItself
<1>2. ASSUME NEW am, NEW bm, NEW c1, NEW c2, NEW n1, NEW n2
      PROVE  Narrows(m, r, ExactRDIV(am, bm, c1, c2, n1, n2, r))
  <2>1. ExactRDIV(am, bm, c1, c2, n1, n2, r) \in {Inconsistent(r), Disproved(Inconsistent(r))}
    BY DEF ExactRDIV
  <2>2. Narrows(m, r, Inconsistent(r)) /\ Inconsistent(r) \in Results(m)
    BY NarrowsItself DEF Narrows
  <2>3. Narrows(m, Inconsistent(r), Disproved(Inconsistent(r)))
    BY <2>2, NarrowsItself
  <2> QED
    BY <2>1, <2>2, <2>3, NarrowsOn
<1>3. Narrows(m, r, TestZIV(src, dst, r))
  <2>1. TestZIV(src, dst, r) \in {r, Disproved(r)}
    BY DEF TestZIV
  <2> QED
    BY <2>1, NarrowsItself
<1>4. Narrows(m, r, TestMIV(m, src, dst, r))
  <2> DEFINE q == GcdMIV(m, src, dst, Inconsistent(r))
  <2>1. Narrows(m, r, Inconsistent(r)) /\ Inconsistent(r) \in Results(m)
    BY NarrowsItself DEF Narrows
  <2>2. Narrows(m, r, q)
    BY <2>1, GcdNarrows, NarrowsOn
  <2>3. q \in Results(m)
    BY <2>2 DEF Narrows
  <2>4. TestMIV(m, src, dst, r) \in {q, BanerjeeMIV(m, src, dst, q)}
    BY DEF TestMIV, Or
  <2> HIDE DEF q
  <2>5. Narrows(m, q, BanerjeeMIV(m, src, dst, q))
    BY <2>3, BanerjeeNarrows
  <2> QED
    BY <2>2, <2>4, <2>5, NarrowsOn
<1>5. Narrows(m, r, TestRDIV(m, src, dst, r))
  <2> DEFINE s == Mentioned(m, src)
             d == Mentioned(m, dst)
             i == IF s = {} THEN Max(d) ELSE Min(s)
             j == IF d = {} THEN Max(s) ELSE Min(d)
             a1 == IF s = {} THEN -dst.a[i] ELSE src.a[i]
             a2 == IF d = {} THEN -src.a[j] ELSE dst.a[j]
             n1 == m.ub[i]
             n2 == m.ub[j]
             e == ExactRDIV(a1, a2, src.c, dst.c, n1, n2, r)
             g == IF e.disproved THEN e ELSE GcdMIV(m, src, dst, e)
             f == IF g.disproved THEN g ELSE SymbolicRDIV(a1, a2, src.c, dst.c, n1, n2, g)
  <2>3. TestRDIV(m, src, dst, r) = f
    BY Zenon DEF TestRDIV, Or
  <2> HIDE DEF s, d, i, j, a1, a2, n1, n2
  <2>4. Narrows(m, r, e)
    BY <1>2
  <2> HIDE DEF e
  <2>5. Narrows(m, r, g)
    <3>1. e \in Results(m)
      BY <2>4 DEF Narrows
    <3> QED BY <2>4, <3>1, GcdNarrows, NarrowsOn
  <2> HIDE DEF g
  <2>6. Narrows(m, r, f)
    <3>1. g \in Results(m)
      BY <2>5 DEF Narrows
    <3>2. Narrows(m, g, SymbolicRDIV(a1, a2, src.c, dst.c, n1, n2, g))
      BY <1>1, <3>1
    <3> QED BY <2>5, <3>2, NarrowsOn
  <2> QED
    BY <2>3, <2>6
<1> QED
  BY <1>1, <1>3, <1>4, <1>5

\* A pair of subscripts of one loop.
LEMMA OneLoop ==
  ASSUME NEW m, IsNest(m), NEW src \in SrcSubscripts(m), NEW dst \in DstSubscripts(m),
         Classify(m, src, dst) = "SIV"
  PROVE  \E k \in Levels(m) :
           /\ Mentioned(m, src) \cup Mentioned(m, dst) = {k}
           /\ k = CHOOSE j \in Levels(m) : j \in Mentioned(m, src) \cup Mentioned(m, dst)
<1> DEFINE M == Mentioned(m, src) \cup Mentioned(m, dst)
<1>1. M \subseteq Levels(m) /\ IsFiniteSet(M)
  <2>1. M \subseteq Levels(m) /\ IsFiniteSet(Levels(m))
    BY NestLevels DEF Mentioned
  <2> QED
    BY <2>1, FS_Subset
<1>2. Cardinality(M) = 1
  BY DEF Classify
<1> HIDE DEF M
<1>3. PICK k : M = {k}
  BY <1>1, <1>2, FS_Singleton
<1>4. k \in Levels(m) /\ k = CHOOSE j \in Levels(m) : j \in M
  BY <1>1, <1>3
<1> QED
  BY <1>3, <1>4 DEF M

\* The first test of a level, whatever the coefficients are.
LEMMA LevelFinds ==
  ASSUME NEW m, IsNest(m), NEW k \in Levels(m), NEW s \in Results(m),
         NEW a1 \in Int, NEW a2 \in Int, NEW c1 \in Int, NEW c2 \in Int,
         a1 # 0 \/ a2 # 0, a1 # 0 => k \in SrcLevels(m), a2 # 0 => k \in DstLevels(m)
  PROVE  LET t == CASE a1 = 0 -> WeakZeroSrcSIV(m, k, a2, c1, c2, s)
                    [] a2 = 0 -> WeakZeroDstSIV(m, k, a1, c1, c2, s)
                    [] a1 = a2 -> StrongSIV(m, k, a1, c1, c2, s)
                    [] a1 = -a2 -> WeakCrossingSIV(m, k, a1, c1, c2, s)
                    [] OTHER -> ExactSIV(m, k, a1, a2, c1, c2, s)
         IN  /\ TestedAt(m, k, s, t)
             /\ \A x, y \in Nat : InLoop(m, k, x) /\ InLoop(m, k, y) /\ c1 + a1 * x = c2 + a2 * y =>
                  TrueAt(m, k, s, t, x, y)
<1> DEFINE Right(t) ==
             /\ TestedAt(m, k, s, t)
             /\ \A x, y \in Nat : InLoop(m, k, x) /\ InLoop(m, k, y) /\ c1 + a1 * x = c2 + a2 * y =>
                  TrueAt(m, k, s, t, x, y)
<1>0. k \in Nat /\ Common(m) = SrcLevels(m) \cap DstLevels(m) /\ c1 - c2 \in Int /\ c2 - c1 \in Int
      /\ {"<", "="} \in SUBSET Directions /\ {">", "="} \in SUBSET Directions
  BY NestLevels DEF Directions
<1>1. ASSUME a1 = 0 PROVE Right(WeakZeroSrcSIV(m, k, a2, c1, c2, s))
  <2> DEFINE line == Line(0, a2, c1 - c2, k)
             t == WeakZeroSIV(m, k, line, a2, c1 - c2, {">", "="}, {"<", "="}, s)
  <2>1. a2 \in Int \ {0}
    BY <1>1
  <2>2. line \in LinesOf(m, k)
    BY <1>0, <2>1 DEF LinesOf, LinesAt, Line
  <2>3. \A x, y \in Nat : c1 + a1 * x = c2 + a2 * y => c1 - c2 = a2 * y /\ Holds(line, x, y)
    BY <1>1 DEF Holds, Line
  <2> HIDE DEF line
  <2>4. /\ TestedAt(m, k, s, t)
        /\ \A x, y \in Nat : \A z \in {x, y} :
             c1 - c2 = a2 * z /\ Holds(line, x, y) => TrueAt(m, k, s, t, x, y)
    BY <1>0, <2>1, <2>2, WeakZeroFinds
  <2> HIDE DEF t
  <2>5. Right(t)
    BY <2>3, <2>4
  <2> QED
    BY <2>5 DEF t, line, WeakZeroSrcSIV
<1>2. ASSUME a1 # 0, a2 = 0 PROVE Right(WeakZeroDstSIV(m, k, a1, c1, c2, s))
  <2> DEFINE line == Line(a1, 0, c2 - c1, k)
             t == WeakZeroSIV(m, k, line, a1, c2 - c1, {"<", "="}, {">", "="}, s)
  <2>1. a1 \in Int \ {0}
    BY <1>2
  <2>2. line \in LinesOf(m, k)
    BY <1>0, <2>1 DEF LinesOf, LinesAt, Line
  <2>3. \A x, y \in Nat : c1 + a1 * x = c2 + a2 * y => c2 - c1 = a1 * x /\ Holds(line, x, y)
    BY <1>2 DEF Holds, Line
  <2> HIDE DEF line
  <2>4. /\ TestedAt(m, k, s, t)
        /\ \A x, y \in Nat : \A z \in {x, y} :
             c2 - c1 = a1 * z /\ Holds(line, x, y) => TrueAt(m, k, s, t, x, y)
    BY <1>0, <2>1, <2>2, WeakZeroFinds
  <2> HIDE DEF t
  <2>5. Right(t)
    BY <2>3, <2>4
  <2> QED
    BY <2>5 DEF t, line, WeakZeroDstSIV
<1>3. ASSUME a1 # 0, a2 # 0, a1 = a2 PROVE Right(StrongSIV(m, k, a1, c1, c2, s))
  <2>1. k \in Common(m) /\ a1 \in Int \ {0}
    BY <1>0, <1>3
  <2> DEFINE t == StrongSIV(m, k, a1, c1, c2, s)
  <2>2. TestedAt(m, k, s, t) /\ \A x, y \in Nat : c1 + a1 * x = c2 + a1 * y => TrueAt(m, k, s, t, x, y)
    BY <2>1, StrongFinds
  <2> HIDE DEF t
  <2>3. Right(t)
    BY <1>3, <2>2
  <2> QED
    BY <2>3 DEF t
<1>4. ASSUME a1 # 0, a2 # 0, a1 = -a2 PROVE Right(WeakCrossingSIV(m, k, a1, c1, c2, s))
  <2>1. k \in Common(m) /\ a1 \in Int \ {0}
    BY <1>0, <1>4
  <2> DEFINE t == WeakCrossingSIV(m, k, a1, c1, c2, s)
  <2>2. /\ TestedAt(m, k, s, t)
        /\ \A x, y \in Nat : InLoop(m, k, x) /\ InLoop(m, k, y) /\ c1 + a1 * x = c2 - a1 * y =>
             TrueAt(m, k, s, t, x, y)
    BY <2>1, CrossingFinds
  <2>3. \A x, y \in Nat : c1 + a1 * x = c2 + a2 * y => c1 + a1 * x = c2 - a1 * y
    BY <1>4
  <2> HIDE DEF t
  <2>4. Right(t)
    BY <2>2, <2>3
  <2> QED
    BY <2>4 DEF t
<1>5. ASSUME a1 # 0, a2 # 0 PROVE Right(ExactSIV(m, k, a1, a2, c1, c2, s))
  <2>1. k \in Common(m) /\ a1 \in Int \ {0} /\ a2 \in Int \ {0}
    BY <1>0, <1>5
  <2> DEFINE t == ExactSIV(m, k, a1, a2, c1, c2, s)
  <2>2. TestedAt(m, k, s, t) /\ \A x, y \in Nat : c1 + a1 * x = c2 + a2 * y => TrueAt(m, k, s, t, x, y)
    BY <2>1, ExactFinds
  <2> HIDE DEF t
  <2>3. Right(t)
    BY <2>2
  <2> QED
    BY <2>3 DEF t
<1> HIDE DEF Right
<1>6. Right(CASE a1 = 0 -> WeakZeroSrcSIV(m, k, a2, c1, c2, s)
              [] a2 = 0 -> WeakZeroDstSIV(m, k, a1, c1, c2, s)
              [] a1 = a2 -> StrongSIV(m, k, a1, c1, c2, s)
              [] a1 = -a2 -> WeakCrossingSIV(m, k, a1, c1, c2, s)
              [] OTHER -> ExactSIV(m, k, a1, a2, c1, c2, s))
  <2>1. CASE a1 = 0
    BY <1>1, <2>1
  <2>2. CASE a1 # 0 /\ a2 = 0
    BY <1>2, <2>2
  <2>3. CASE a1 # 0 /\ a2 # 0 /\ a1 = a2
    BY <1>3, <2>3
  <2>4. CASE a1 # 0 /\ a2 # 0 /\ a1 # a2 /\ a1 = -a2
    BY <1>4, <2>4
  <2>5. CASE a1 # 0 /\ a2 # 0 /\ a1 # a2 /\ a1 # -a2
    BY <1>5, <2>5
  <2> QED
    BY <2>1, <2>2, <2>3, <2>4, <2>5
<1> QED
  BY <1>6 DEF Right

\* The level of a test is noted.
WithLevel(r, k) == [r EXCEPT !.level = k]
\* Nothing else changes when the level is noted.
LEMMA LevelNoted ==
  ASSUME NEW m, NEW r \in Results(m), NEW k \in Nat
  PROVE  LET s == WithLevel(r, k)
         IN  /\ s \in Results(m) /\ s.level = k /\ s.dist = r.dist /\ s.splitAt = r.splitAt
             /\ s.peelFirst = r.peelFirst /\ s.peelLast = r.peelLast
BY DEF WithLevel, Results, Answers

\* What is true of a level stays true if the directions are narrowed.
LEMMA NarrowedStaysTrue ==
  ASSUME NEW m, NEW k, NEW r, NEW s, NEW t, TestedAt(m, k, r, s), Narrows(m, s, t)
  PROVE  /\ TestedAt(m, k, r, t)
         /\ \A x, y : TrueAt(m, k, r, s, x, y) => TrueAt(m, k, r, t, x, y)
BY DEF TestedAt, Narrows, TrueAt, Said

\* The test of a pair of one loop: what it leaves of the dependence is a line
\* for this loop, and what is known stays true of all iterations that meet.
FoundBy(m, src, dst, r, t) ==
  /\ t \in Results(m)
  /\ ~t.disproved => t.level \in Levels(m) /\ t.cons \in LinesOf(m, t.level)
  /\ \A X, Y : InNest(m, X) /\ InNest(m, Y) /\ Eval(src, X) = Eval(dst, Y) /\ Says(m, r, X, Y) /\ ~t.disproved =>
       Says(m, t, X, Y) /\ Holds(t.cons, X[t.level], Y[t.level])


\* The tests of one loop, one after another, find a line that is true.
LEMMA SIVFinds ==
  ASSUME NEW m, IsNest(m), NEW src \in SrcSubscripts(m), NEW dst \in DstSubscripts(m),
         Classify(m, src, dst) = "SIV", NEW r \in Results(m)
  PROVE  FoundBy(m, src, dst, r, TestSIV(m, src, dst, r))
<1>1. PICK k \in Levels(m) :
        /\ Mentioned(m, src) \cup Mentioned(m, dst) = {k}
        /\ k = CHOOSE j \in Levels(m) : j \in Mentioned(m, src) \cup Mentioned(m, dst)
  BY OneLoop
<1>2. /\ src \in Linear(Levels(m)) /\ dst \in Linear(Levels(m))
      /\ Mentioned(m, src) \subseteq SrcLevels(m) /\ Mentioned(m, dst) \subseteq DstLevels(m)
  BY DEF SrcSubscripts, DstSubscripts, Within
<1>3. src.c \in Int /\ dst.c \in Int /\ src.a \in [Levels(m) -> Int] /\ dst.a \in [Levels(m) -> Int]
  BY <1>2 DEF Linear
<1> DEFINE a1 == src.a[k]
           a2 == dst.a[k]
           c1 == src.c
           c2 == dst.c
           s == WithLevel(r, k)
           first == CASE a1 = 0 -> WeakZeroSrcSIV(m, k, a2, c1, c2, s)
                      [] a2 = 0 -> WeakZeroDstSIV(m, k, a1, c1, c2, s)
                      [] a1 = a2 -> StrongSIV(m, k, a1, c1, c2, s)
                      [] a1 = -a2 -> WeakCrossingSIV(m, k, a1, c1, c2, s)
                      [] OTHER -> ExactSIV(m, k, a1, a2, c1, c2, s)
           second == IF first.disproved THEN first ELSE GcdMIV(m, src, dst, first)
           third == IF second.disproved THEN second
                    ELSE IF a1 = 0 \/ a2 = 0 THEN second
                    ELSE SymbolicRDIV(a1, a2, c1, c2, m.ub[k], m.ub[k], second)
<1>4. a1 \in Int /\ a2 \in Int /\ (a1 # 0 \/ a2 # 0)
      /\ (a1 # 0 => k \in SrcLevels(m)) /\ (a2 # 0 => k \in DstLevels(m))
  BY <1>1, <1>2, <1>3 DEF Mentioned
<1>5. /\ \A X \in [Levels(m) -> Int] : Eval(src, X) = c1 + a1 * X[k]
      /\ \A Y \in [Levels(m) -> Int] : Eval(dst, Y) = c2 + a2 * Y[k]
  <2>1. \A j \in Levels(m) \ {k} : src.a[j] = 0 /\ dst.a[j] = 0
    BY <1>1 DEF Mentioned
  <2>2. IsFiniteSet(Levels(m))
    BY NestLevels
  <2> QED
    BY <1>2, <2>1, <2>2, OneLevel
<1>6. TestSIV(m, src, dst, r) = third
  BY <1>1 DEF TestSIV, Or, WithLevel
<1>k. k \in Nat /\ Levels(m) \subseteq Nat /\ Common(m) \subseteq Levels(m)
  BY NestLevels
<1>7. /\ s \in Results(m) /\ s.level = k /\ s.dist = r.dist /\ s.splitAt = r.splitAt
      /\ s.peelFirst = r.peelFirst /\ s.peelLast = r.peelLast
  BY <1>k, LevelNoted
<1> HIDE DEF s
<1>8. /\ TestedAt(m, k, s, first)
      /\ \A x, y \in Nat : InLoop(m, k, x) /\ InLoop(m, k, y) /\ c1 + a1 * x = c2 + a2 * y =>
           TrueAt(m, k, s, first, x, y)
  <2> HIDE DEF a1, a2, c1, c2
  <2>1. c1 \in Int /\ c2 \in Int
    BY <1>3 DEF c1, c2
  <2> QED
    BY <1>4, <1>7, <2>1, LevelFinds
<1> HIDE DEF first
<1>9. first \in Results(m)
  BY <1>8 DEF TestedAt
<1>10. Narrows(m, first, second) /\ second \in Results(m)
  <2>1. Narrows(m, first, first) /\ Narrows(m, first, GcdMIV(m, src, dst, first))
    BY <1>9, NarrowsItself, GcdNarrows
  <2> QED
    BY <2>1 DEF Narrows
<1> HIDE DEF second
<1>11. Narrows(m, second, third)
  <2>1. SymbolicRDIV(a1, a2, c1, c2, m.ub[k], m.ub[k], second) \in {second, Disproved(second)}
    BY DEF SymbolicRDIV
  <2>2. third \in {second, Disproved(second)}
    BY <2>1
  <2> HIDE DEF third
  <2> QED
    BY <1>10, <2>2, NarrowsItself
<1> HIDE DEF third
<1>12. Narrows(m, first, third)
  BY <1>10, <1>11, NarrowsOn
<1>13. /\ TestedAt(m, k, s, third)
       /\ \A x, y \in Nat : InLoop(m, k, x) /\ InLoop(m, k, y) /\ c1 + a1 * x = c2 + a2 * y =>
            TrueAt(m, k, s, third, x, y)
  BY <1>8, <1>12, NarrowedStaysTrue
<1>14. ~third.disproved => third.level = k /\ third.cons \in LinesOf(m, k)
  BY <1>7, <1>13 DEF TestedAt
<1>15. ASSUME NEW X, NEW Y, InNest(m, X), InNest(m, Y), Eval(src, X) = Eval(dst, Y), Says(m, r, X, Y),
              ~third.disproved
       PROVE  Says(m, third, X, Y) /\ Holds(third.cons, X[third.level], Y[third.level])
  <2>1. X \in [Levels(m) -> Int] /\ Y \in [Levels(m) -> Int] /\ X[k] \in Nat /\ Y[k] \in Nat
        /\ InLoop(m, k, X[k]) /\ InLoop(m, k, Y[k])
    BY <1>15 DEF InNest
  <2>2. TrueAt(m, k, s, third, X[k], Y[k])
    BY <1>5, <1>13, <1>15, <2>1
  <2>3. \A j \in Common(m) : Said(m, j, s, X[j], Y[j])
    BY <1>7, <1>15 DEF Says, Said
  <2>4. Holds(third.cons, X[k], Y[k]) /\ (k \in Common(m) => Said(m, k, third, X[k], Y[k]))
    BY <1>15, <2>2, <2>3 DEF TrueAt
  <2>5. \A j \in Common(m) \ {k} : Said(m, j, third, X[j], Y[j])
    BY <1>13, <2>3 DEF TestedAt, Said
  <2> QED
    BY <1>14, <1>15, <2>4, <2>5 DEF Says
<1> QED
  BY <1>6, <1>13, <1>14, <1>15 DEF FoundBy, TestedAt

\* The test of any pair keeps what is known.
Keeps(m, src, dst, r, t) ==
  /\ t \in Results(m)
  /\ \A X, Y : InNest(m, X) /\ InNest(m, Y) /\ Eval(src, X) = Eval(dst, Y) /\ Says(m, r, X, Y) /\ ~t.disproved =>
       Says(m, t, X, Y)
\* A test that only narrows the directions keeps what is known.
LEMMA NarrowsKeeps ==
  ASSUME NEW m, NEW src, NEW dst, NEW r, NEW t, Narrows(m, r, t)
  PROVE  Keeps(m, src, dst, r, t)
BY DEF Narrows, Keeps, Says, Said

\* The test of a pair of the query.
LEMMA TestKeeps ==
  ASSUME IsNest(n), NEW p, pairs[p] \in SubscriptPairs(n), NEW r \in Results(n)
  PROVE  /\ Keeps(n, pairs[p].src, pairs[p].dst, r, Test(p, r))
         /\ Class(p) = "SIV" => FoundBy(n, pairs[p].src, pairs[p].dst, r, Test(p, r))
<1> DEFINE src == pairs[p].src
           dst == pairs[p].dst
           t == Test(p, r)
<1>1. src \in SrcSubscripts(n) /\ dst \in DstSubscripts(n)
  BY DEF SubscriptPairs
<1>2. ASSUME Class(p) = "SIV" PROVE FoundBy(n, src, dst, r, t)
  <2>1. t = TestSIV(n, src, dst, r)
    BY <1>2 DEF Test
  <2>2. Classify(n, src, dst) = "SIV"
    BY <1>2 DEF Class
  <2> HIDE DEF t, src, dst
  <2> QED
    BY <1>1, <2>1, <2>2, SIVFinds
<1>3. FoundBy(n, src, dst, r, t) => Keeps(n, src, dst, r, t)
  BY DEF FoundBy, Keeps
<1>4. ASSUME Class(p) # "SIV" PROVE Keeps(n, src, dst, r, t)
  <2>1. Class(p) \in {"ZIV", "RDIV", "MIV"}
    BY <1>4 DEF Class, Classify
  <2>2. t \in {TestZIV(src, dst, r), TestRDIV(n, src, dst, r), TestMIV(n, src, dst, r)}
    BY <2>1 DEF Test
  <2> HIDE DEF t, src, dst
  <2>3. Narrows(n, r, t)
    BY <2>2, OtherTestsNarrow
  <2> QED
    BY <2>3, NarrowsKeeps
<1> QED
  BY <1>2, <1>3, <1>4

\* Lines with different slopes.
LEMMA Slopes ==
  ASSUME NEW a \in Int, NEW b \in Int, NEW d \in Int, NEW e \in Int, a * e # b * d
  PROVE  /\ (a # 0 /\ e # 0) \/ (b # 0 /\ d # 0)
         /\ a * e - d * b \in Int \ {0} /\ d * b - a * e \in Int \ {0}
<1>1. a * e \in Int /\ b * d \in Int /\ b * d = d * b
  OBVIOUS
<1>2. a = 0 => a * e = 0
  OBVIOUS
<1>3. e = 0 => a * e = 0
  OBVIOUS
<1>4. b = 0 => b * d = 0
  OBVIOUS
<1>5. d = 0 => b * d = 0
  OBVIOUS
<1> DEFINE u == a * e
           v == b * d
<1>6. u \in Int /\ v \in Int /\ u # v => u - v \in Int \ {0} /\ v - u \in Int \ {0}
  <2> HIDE DEF u, v
  <2> QED OBVIOUS
<1> QED
  BY <1>1, <1>2, <1>3, <1>4, <1>5, <1>6

\* The intersection with a line, if it is not empty, is a constraint of the level:
\* a point is only found for a loop around both accesses.
LEMMA IntersectType ==
  ASSUME IsNest(n), NEW k \in Levels(n), NEW X \in ConstraintsOf(n, k), NEW Y \in LinesOf(n, k)
  PROVE  Intersect(X, Y) \in ConstraintsOf(n, k) \cup {Empty}
<1>1. LinesOf(n, k) \subseteq LinesAt(k) /\ LinesOf(n, k) \subseteq ConstraintsOf(n, k)
      /\ Common(n) = SrcLevels(n) \cap DstLevels(n)
  BY NestLevels DEF LinesOf, ConstraintsOf
<1>2. Y.kind \in {"line", "distance"} /\ Y.A \in Int /\ Y.B \in Int /\ Y.C \in Int
  BY <1>1 DEF LinesAt
<1>3. CASE X = Unconstrained
  BY <1>1, <1>3 DEF Intersect, Unconstrained
<1>4. CASE X \in PointsAt(k)
  <2>1. X.kind = "point"
    BY <1>4 DEF PointsAt
  <2> QED
    BY <1>2, <2>1 DEF Intersect
<1>5. CASE X \in LinesOf(n, k)
  <2>1. X.kind \in {"line", "distance"} /\ X.A \in Int /\ X.B \in Int /\ X.C \in Int /\ X.loop = k
    BY <1>1, <1>5 DEF LinesAt
  <2>2. Intersect(X, Y) \in {X, Empty} \/ (X.A * Y.B # X.B * Y.A /\ Intersect(X, Y) = Meet(X, Y))
    BY <1>2, <2>1 DEF Intersect
  <2>3. ASSUME X.A * Y.B # X.B * Y.A PROVE Meet(X, Y) \in ConstraintsOf(n, k) \cup {Empty}
    <3>1. k \in Common(n)
      <4> DEFINE a == X.A
                 b == X.B
                 d == Y.A
                 e == Y.B
      <4>0. a \in Int /\ b \in Int /\ d \in Int /\ e \in Int /\ a * e # b * d
        BY <1>2, <2>1, <2>3
      <4> HIDE DEF a, b, d, e
      <4>a. (a # 0 /\ e # 0) \/ (b # 0 /\ d # 0)
        BY <4>0, Slopes
      <4>1. (X.A # 0 /\ Y.B # 0) \/ (X.B # 0 /\ Y.A # 0)
        BY <4>a DEF a, b, d, e
      <4> QED
        BY <1>1, <1>5, <4>1 DEF LinesOf
    <3> DEFINE xt == X.C * Y.B - Y.C * X.B
               xb == X.A * Y.B - Y.A * X.B
               yt == X.C * Y.A - Y.C * X.A
               yb == Y.A * X.B - X.A * Y.B
    <3>2. xt \in Int /\ xb \in Int \ {0} /\ yt \in Int /\ yb \in Int \ {0}
      <4>1. xb \in Int \ {0} /\ yb \in Int \ {0}
        BY <1>2, <2>1, <2>3, Slopes
      <4>2. xt \in Int /\ yt \in Int
        BY <1>2, <2>1
      <4> QED
        BY <4>1, <4>2
    <3>3. Meet(X, Y) \in {Empty, Point(Quot(xt, xb), Quot(yt, yb), k)}
      BY <2>1 DEF Meet
    <3> HIDE DEF xt, xb, yt, yb
    <3>4. Quot(xt, xb) \in Int /\ Quot(yt, yb) \in Int
      BY <3>2, QuotType
    <3>5. Point(Quot(xt, xb), Quot(yt, yb), k) \in PointsAt(k)
      BY <3>4 DEF Point, PointsAt
    <3> QED
      BY <3>1, <3>3, <3>5 DEF ConstraintsOf
  <2> QED
    BY <2>2, <2>3
<1> QED
  BY <1>3, <1>4, <1>5 DEF ConstraintsOf

\* What a constraint decides of a level.
WithDist(r, k, D, S) == [r EXCEPT !.dist[k] = D, !.dir[k] = @ \cap S]
WithoutDist(r, k) == [r EXCEPT !.dist[k] = {}]
\* A distance is decided, or known to vary.
LEMMA DistDecided ==
  ASSUME NEW m, NEW r \in Results(m), NEW k \in Common(m), NEW D \in SUBSET Int, NEW S
  PROVE  LET t == WithDist(r, k, D, S)
         IN  /\ t \in Results(m) /\ t.disproved = r.disproved /\ t.splitAt = r.splitAt
             /\ t.peelFirst = r.peelFirst /\ t.peelLast = r.peelLast
             /\ t.dist[k] = D /\ \A j \in Common(m) \ {k} : t.dist[j] = r.dist[j]
BY DEF WithDist, Results, Answers
\* A distance found earlier is given up.
LEMMA DistForgotten ==
  ASSUME NEW m, NEW r \in Results(m), NEW k \in Common(m)
  PROVE  LET t == WithoutDist(r, k)
         IN  /\ t \in Results(m) /\ t.disproved = r.disproved /\ t.splitAt = r.splitAt
             /\ t.peelFirst = r.peelFirst /\ t.peelLast = r.peelLast
             /\ t.dist[k] = {} /\ \A j \in Common(m) \ {k} : t.dist[j] = r.dist[j]
BY DEF WithoutDist, Results, Answers

\* A constraint that holds decides the distance of its level.
SaysAfter(m, r, t, cs) ==
  /\ t \in Results(m) /\ t.disproved = r.disproved
  /\ \A X, Y : InNest(m, X) /\ InNest(m, Y) /\ Says(m, r, X, Y)
               /\ (\A k \in Levels(m) : Holds(cs[k], X[k], Y[k])) => Says(m, t, X, Y)
\* UpdateDirection says of a level what its constraint implies.
LEMMA UpdateDirectionSays ==
  ASSUME IsNest(n), NEW r \in Results(n), NEW k \in Common(n), cons[k] \in ConstraintsOf(n, k)
  PROVE  SaysAfter(n, r, UpdateDirection(r, k), cons)
<1> DEFINE c == cons[k]
           t == UpdateDirection(r, k)
<1>k. k \in Levels(n)
  BY NestLevels
<1> HIDE DEF c
<1>1. \/ t = r
      \/ c.kind = "distance" /\ t = WithDist(r, k, {-c.C}, {DirectionOf(-c.C)})
         /\ c.A = 1 /\ c.B = -1 /\ c.C \in Int
      \/ t = WithoutDist(r, k)
      \/ t = WithDist(r, k, {}, {DirectionOf(c.y - c.x)})
  <2>1. \/ c.kind = "any" \/ c.kind = "line" \/ c.kind = "point"
        \/ c.kind = "distance" /\ c.A = 1 /\ c.B = -1 /\ c.C \in Int
    BY DEF ConstraintsOf, LinesOf, LinesAt, PointsAt, Unconstrained, c
  <2>2. CASE c.kind = "any"
    BY <2>2 DEF UpdateDirection, c
  <2>3. CASE c.kind = "line"
    BY <2>3 DEF UpdateDirection, WithoutDist, c
  <2>4. CASE c.kind = "point"
    BY <2>4 DEF UpdateDirection, WithDist, c
  <2>5. CASE c.kind = "distance" /\ c.A = 1 /\ c.B = -1 /\ c.C \in Int
    BY <2>5 DEF UpdateDirection, ToDistance, WithDist, c
  <2> QED
    BY <2>1, <2>2, <2>3, <2>4, <2>5
<1> HIDE DEF t
<1>2. ASSUME t = r PROVE SaysAfter(n, r, t, cons)
  BY <1>2 DEF SaysAfter
<1>3. ASSUME c.kind = "distance", t = WithDist(r, k, {-c.C}, {DirectionOf(-c.C)}),
             c.A = 1, c.B = -1, c.C \in Int
      PROVE  SaysAfter(n, r, t, cons)
  <2>1. /\ t \in Results(n) /\ t.disproved = r.disproved /\ t.splitAt = r.splitAt
        /\ t.peelFirst = r.peelFirst /\ t.peelLast = r.peelLast
        /\ t.dist[k] = {-c.C} /\ \A j \in Common(n) \ {k} : t.dist[j] = r.dist[j]
    <3>1. {-c.C} \in SUBSET Int
      BY <1>3
    <3> QED
      BY <1>3, <3>1, DistDecided
  <2>2. ASSUME NEW X, NEW Y, InNest(n, X), InNest(n, Y), Says(n, r, X, Y),
               \A j \in Levels(n) : Holds(cons[j], X[j], Y[j])
        PROVE  Says(n, t, X, Y)
    <3>1. Holds(c, X[k], Y[k]) /\ X[k] \in Nat /\ Y[k] \in Nat
      BY <1>k, <2>2 DEF InNest, c
    <3>2. Y[k] - X[k] = -c.C
      BY <1>3, <3>1 DEF Holds
    <3> QED
      BY <2>1, <2>2, <3>2 DEF Says, Said
  <2> QED
    BY <2>1, <2>2 DEF SaysAfter
<1>4. ASSUME t = WithoutDist(r, k) \/ t = WithDist(r, k, {}, {DirectionOf(c.y - c.x)})
      PROVE  SaysAfter(n, r, t, cons)
  <2>1. /\ t \in Results(n) /\ t.disproved = r.disproved /\ t.splitAt = r.splitAt
        /\ t.peelFirst = r.peelFirst /\ t.peelLast = r.peelLast
        /\ t.dist[k] = {} /\ \A j \in Common(n) \ {k} : t.dist[j] = r.dist[j]
    BY <1>4, DistDecided, DistForgotten
  <2>2. \A X, Y : Says(n, r, X, Y) => Says(n, t, X, Y)
    BY <2>1 DEF Says, Said
  <2> QED
    BY <2>1, <2>2 DEF SaysAfter
<1> QED
  BY <1>1, <1>2, <1>3, <1>4 DEF t

\* UpdateDirections goes through the levels one by one.
UpdatedAt(k, r) == IF k \in levels \cap Common(n) THEN UpdateDirection(r, k) ELSE r
\* The recursion of UpdateDirections over the levels, once a function with
\* that recursion exists.
LEMMA UpdatesUnfold ==
  ASSUME UpdateDirections, NEW g,
         g = [k \in Nat |-> IF k = 0 THEN result ELSE UpdatedAt(k, g[k - 1])]
  PROVE  \E G : /\ G = [k \in Nat |-> IF k = 0 THEN result ELSE UpdatedAt(k, G[k - 1])]
                /\ Answer(IF \E k \in levels \cap Common(n) : G[n.common].dir[k] = {}
                          THEN Disproved(G[n.common]) ELSE G[n.common], "separable")
  BY Zenon DEF UpdateDirections, UpdatedAt

\* All levels together: the result says what the constraints imply.
LEMMA Updates ==
  ASSUME UpdateDirections, IsNest(n), result \in Results(n),
         \A k \in Levels(n) : cons[k] \in ConstraintsOf(n, k)
  PROVE  \E t \in Results(n) : SaysAfter(n, result, t, cons)
                               /\ (Answer(t, "separable") \/ Answer(Disproved(t), "separable"))
<1> DEFINE V == {t \in Results(n) : SaysAfter(n, result, t, cons)}
           next == [z \in Nat \X V |-> UpdatedAt(z[1], z[2])]
<1>1. result \in V
  BY DEF SaysAfter
<1>2. ASSUME NEW k \in Nat, NEW t \in V PROVE UpdatedAt(k, t) \in V
  <2>1. CASE k \in Common(n)
    <3> DEFINE u == UpdateDirection(t, k)
    <3>1. SaysAfter(n, t, u, cons)
      BY <2>1, NestLevels, UpdateDirectionSays
    <3> HIDE DEF u
    <3>2. u \in V
      BY <3>1 DEF SaysAfter
    <3> HIDE DEF V
    <3> QED
      BY <3>2 DEF UpdatedAt, u
  <2>2. CASE k \notin Common(n)
    BY <2>2 DEF UpdatedAt
  <2> QED
    BY <2>1, <2>2
<1> HIDE DEF V
<1>3. \A k \in Nat : \A t \in V : next[<<k, t>>] = UpdatedAt(k, t)
  OBVIOUS
<1> HIDE DEF next
<1>4. Continues(V, next)
  BY <1>2, <1>3 DEF Continues
<1>5. PICK f : IsSequence(f, V, result, next)
  BY <1>1, <1>4, NatRecursion
<1>6. f = [k \in Nat |-> IF k = 0 THEN result ELSE UpdatedAt(k, f[k - 1])]
  <2>1. f \in [Nat -> V] /\ f[0] = result /\ \A k \in Nat \ {0} : f[k] = next[<<k, f[k - 1]>>]
    BY <1>5 DEF IsSequence
  <2>2. \A k \in Nat : k # 0 => k - 1 \in Nat
    OBVIOUS
  <2>3. \A k \in Nat : f[k] = IF k = 0 THEN result ELSE UpdatedAt(k, f[k - 1])
    BY <1>3, <2>1, <2>2
  <2> QED
    BY <2>1, <2>3
<1>7. PICK G : /\ G = [k \in Nat |-> IF k = 0 THEN result ELSE UpdatedAt(k, G[k - 1])]
               /\ Answer(IF \E k \in levels \cap Common(n) : G[n.common].dir[k] = {}
                         THEN Disproved(G[n.common]) ELSE G[n.common], "separable")
  BY <1>6, UpdatesUnfold
<1> DEFINE S == {k \in Nat : G[k] \in V}
<1>8. 0 \in S
  <2>1. G[0] = result
    BY <1>7
  <2> QED
    BY <1>1, <2>1
<1>9. ASSUME NEW k \in S PROVE k + 1 \in S
  <2>1. k \in Nat /\ k + 1 \in Nat /\ k + 1 # 0 /\ (k + 1) - 1 = k /\ G[k] \in V
    BY <1>9
  <2>2. G[k + 1] = UpdatedAt(k + 1, G[k])
    BY <1>7, <2>1
  <2> QED
    BY <1>2, <2>1, <2>2
<1>10. S = Nat
  <2> HIDE DEF S
  <2>1. S \subseteq Nat
    BY DEF S
  <2> QED
    BY <1>8, <1>9, <2>1, Counting
<1>11. G[n.common] \in V
  BY <1>10 DEF IsNest
<1> DEFINE t == G[n.common]
<1>12. t \in Results(n) /\ SaysAfter(n, result, t, cons)
  BY <1>11 DEF V
<1>13. Answer(t, "separable") \/ Answer(Disproved(t), "separable")
  BY <1>7
<1> HIDE DEF t
<1> QED
  BY <1>12, <1>13

-----------------------------------------------------------------------------
(* The choices of the analysis are always possible.                         *)

\* The first of some subscripts.
LEMMA FirstOf ==
  ASSUME NEW S \in SUBSET Nat, S # {}
  PROVE  First(S) \in S
<1>1. \E x \in S : \A y \in S : x <= y
  BY LeastNat
<1> QED
  BY <1>1 DEF First, Min

\* The last of some subscripts.
LEMMA LastOf ==
  ASSUME NEW i \in Nat, NEW S \in SUBSET (1 .. i), S # {}
  PROVE  Max(S) \in S
<1> DEFINE T == {j \in Nat : i - j \in S}
<1>1. T \in SUBSET Nat /\ T # {}
  <2>1. PICK x \in S : TRUE
    OBVIOUS
  <2>2. x \in Int /\ 1 <= x /\ x <= i
    BY <2>1
  <2>3. i - x \in Nat /\ i - (i - x) = x
    BY <2>2
  <2> QED
    BY <2>1, <2>3
<1>2. PICK j \in T : \A y \in T : j <= y
  BY <1>1, LeastNat
<1>3. i - j \in S /\ j \in Nat
  BY <1>2
<1>4. ASSUME NEW x \in S PROVE x <= i - j
  <2>1. x \in Int /\ 1 <= x /\ x <= i
    OBVIOUS
  <2>2. i - x \in Nat /\ i - (i - x) = x
    BY <2>1
  <2>3. j <= i - x
    BY <1>2, <2>2
  <2> QED
    BY <1>3, <2>1, <2>3
<1>5. \E z \in S : \A x \in S : z >= x
  <2>1. \A x \in S : x \in Int
    OBVIOUS
  <2>2. i - j \in Int /\ \A x \in S : i - j >= x
    BY <1>3, <1>4, <2>1
  <2> QED
    BY <1>3, <2>2
<1> QED
  BY <1>5 DEF Max

\* The group whose last subscript comes first.
LEMMA FirstGroup ==
  ASSUME NEW i \in Nat, NEW C \in SUBSET (SUBSET (1 .. i)), C # {}, {} \notin C
  PROVE  (CHOOSE H \in C : \A I \in C : Max(H) <= Max(I)) \in C
<1> DEFINE N == {Max(H) : H \in C}
<1>1. ASSUME NEW H \in C PROVE Max(H) \in H /\ Max(H) \in Nat
  <2>1. H \in SUBSET (1 .. i) /\ H # {}
    OBVIOUS
  <2>2. Max(H) \in H
    BY <2>1, LastOf
  <2>3. H \subseteq 1 .. i /\ 1 .. i \subseteq Nat
    BY <2>1
  <2> QED
    BY <2>2, <2>3
<1>2. N \in SUBSET Nat /\ N # {}
  BY <1>1
<1>3. PICK x \in N : \A y \in N : x <= y
  BY <1>2, LeastNat
<1>4. \E H \in C : \A I \in C : Max(H) <= Max(I)
  BY <1>3
<1> QED
  BY <1>4

\* The next pair of accesses in their order.
LEMMA NextPairOf ==
  ASSUME NEW S \in SUBSET (Nat \X Nat), S # {}
  PROVE  NextPair(S) \in S
<1> DEFINE A == {p[1] : p \in S}
<1>1. A \in SUBSET Nat /\ A # {}
  OBVIOUS
<1>2. PICK a \in A : \A b \in A : a <= b
  BY <1>1, LeastNat
<1> DEFINE B == {b \in Nat : <<a, b>> \in S}
<1>3. B \in SUBSET Nat /\ B # {}
  <2>1. PICK p \in S : p[1] = a
    BY <1>2
  <2>2. p = <<a, p[2]>> /\ p[2] \in Nat
    BY <2>1
  <2> QED
    BY <2>2
<1>4. PICK b \in B : \A c \in B : b <= c
  BY <1>3, LeastNat
<1>5. ASSUME NEW o \in S PROVE a < o[1] \/ (a = o[1] /\ b <= o[2])
  <2>1. o = <<o[1], o[2]>> /\ o[1] \in Nat /\ o[2] \in Nat /\ a \in Nat /\ a <= o[1]
    BY <1>1, <1>2
  <2>2. a = o[1] => o[2] \in B
    BY <2>1
  <2> QED
    BY <1>4, <2>1, <2>2
<1>6. \E p \in S : \A o \in S : p[1] < o[1] \/ (p[1] = o[1] /\ p[2] <= o[2])
  <2> DEFINE p == <<a, b>>
  <2>1. p \in S /\ p[1] = a /\ p[2] = b
    BY <1>4
  <2> QED
    BY <1>5, <2>1
<1> QED
  BY <1>6 DEF NextPair

-----------------------------------------------------------------------------
(* What is true of iterations that meet as long as the dependence is not    *)
(* disproved: they satisfy the constraints, they still meet in the          *)
(* subscripts as simplified, and what is known of the dependence holds.     *)

Fits(m, ps, cs, r, X, Y) ==
  /\ \A k \in Levels(m) : Holds(cs[k], X[k], Y[k])
  /\ \A p \in DOMAIN ps : Eval(ps[p].src, X) = Eval(ps[p].dst, Y)
  /\ Says(m, r, X, Y)
Truthful(q, ps, cs, r) ==
  ~r.disproved => \A h \in Meetings(q) : Fits(q.nest, ps, cs, r, Whole(q.nest, h[1]), Whole(q.nest, h[2]))
IsQuery(q) ==
  /\ IsNest(q.nest) /\ q.pairs \in [DOMAIN q.pairs -> SubscriptPairs(q.nest)]
  /\ \E i \in Nat : DOMAIN q.pairs = 1 .. i

\* A step may use that iterations that meet are in the loops and fit.
LEMMA StaysTruthful ==
  ASSUME NEW q, IsQuery(q), NEW ps, NEW cs, NEW r, NEW ds, NEW bs, NEW t,
         Truthful(q, ps, cs, r), ~r.disproved,
         \A X, Y : InNest(q.nest, X) /\ InNest(q.nest, Y) /\ Fits(q.nest, ps, cs, r, X, Y) /\ ~t.disproved =>
           Fits(q.nest, ds, bs, t, X, Y)
  PROVE  Truthful(q, ds, bs, t)
<1>1. SUFFICES ASSUME NEW h \in Meetings(q), ~t.disproved
               PROVE  Fits(q.nest, ds, bs, t, Whole(q.nest, h[1]), Whole(q.nest, h[2]))
  BY DEF Truthful
<1>2. InNest(q.nest, Whole(q.nest, h[1])) /\ InNest(q.nest, Whole(q.nest, h[2]))
  BY MeetingFacts DEF IsQuery
<1>3. Fits(q.nest, ps, cs, r, Whole(q.nest, h[1]), Whole(q.nest, h[2]))
  BY DEF Truthful
<1> QED
  BY <1>1, <1>2, <1>3

\* A test, a line found for a level, a subscript simplified, or what a
\* constraint decides.
LEMMA TestedTruthful ==
  ASSUME NEW q, IsQuery(q), NEW ps, NEW cs, NEW r, Truthful(q, ps, cs, r), ~r.disproved,
         NEW p \in DOMAIN ps, NEW t, Keeps(q.nest, ps[p].src, ps[p].dst, r, t)
  PROVE  Truthful(q, ps, cs, t)
<1>1. ASSUME NEW X, NEW Y, InNest(q.nest, X), InNest(q.nest, Y), Fits(q.nest, ps, cs, r, X, Y), ~t.disproved
      PROVE  Fits(q.nest, ps, cs, t, X, Y)
  BY <1>1 DEF Fits, Keeps
<1> QED
  BY <1>1, StaysTruthful

\* A line found for a level is intersected with its constraint.
LEMMA FoundTruthful ==
  ASSUME IsQuery(query), Truthful(query, pairs, cons, result), ~result.disproved,
         NEW p \in DOMAIN pairs, NEW t, ~t.disproved, FoundBy(n, pairs[p].src, pairs[p].dst, result, t),
         DOMAIN cons = Levels(n), \A k \in Levels(n) : cons[k] \in ConstraintsOf(n, k),
         NEW c, c = Intersect(cons[t.level], t.cons)
  PROVE  Truthful(query, pairs, [cons EXCEPT ![t.level] = c], t)
<1> DEFINE k == t.level
           ds == [cons EXCEPT ![k] = c]
<1>1. k \in Levels(n) /\ t.cons \in LinesOf(n, k)
  BY DEF FoundBy
<1>2. ds[k] = c /\ \A j \in Levels(n) \ {k} : ds[j] = cons[j]
  BY <1>1
<1>n. IsNest(n) /\ query.nest = n
  BY DEF IsQuery, n
<1> HIDE DEF ds
<1>3. ASSUME NEW X, NEW Y, InNest(n, X), InNest(n, Y), Fits(n, pairs, cons, result, X, Y)
      PROVE  Fits(n, pairs, ds, t, X, Y)
  <2>1. Says(n, t, X, Y) /\ Holds(t.cons, X[k], Y[k])
    BY <1>3 DEF Fits, FoundBy
  <2>2. Holds(c, X[k], Y[k])
    <3>1. k \in Nat /\ n.ub[k] \in Bounds
      BY <1>1, <1>n, NestLevels DEF IsNest
    <3>2. /\ cons[k] \in {Unconstrained, Empty} \cup LinesAt(k) \cup PointsAt(k)
          /\ t.cons \in {Unconstrained, Empty} \cup LinesAt(k)
      BY <1>1 DEF ConstraintsOf, LinesOf
    <3>3. InLoop(n, k, X[k]) /\ InLoop(n, k, Y[k]) /\ Holds(cons[k], X[k], Y[k])
      BY <1>1, <1>3 DEF Fits, InNest
    <3> QED
      BY <2>1, <3>1, <3>2, <3>3, IntersectSound
  <2> QED
    BY <1>2, <1>3, <2>1, <2>2 DEF Fits
<1>4. Truthful(query, pairs, ds, t)
  BY <1>3, <1>n, StaysTruthful
<1> QED
  BY <1>4 DEF ds

Simplified(ps, p, s) == [ps EXCEPT ![p] = [src |-> s.src, dst |-> s.dst]]
\* Constraints that hold are propagated into a pair of subscripts.
LEMMA SimplifiedTruthful ==
  ASSUME IsQuery(query), Truthful(query, pairs, cons, result), ~result.disproved,
         result \in Results(n), pairs \in [DOMAIN query.pairs -> SubscriptPairs(n)],
         \A k \in Levels(n) : cons[k] \in ConstraintsOf(n, k),
         NEW p \in DOMAIN pairs, NEW s, s = Propagated(pairs[p], result.consistent),
         NEW t, Narrows(n, result, t)
  PROVE  /\ s \in Simplifiable(n)
         /\ Truthful(query, Simplified(pairs, p, s), cons, t)
<1>n. IsNest(n) /\ query.nest = n
  BY DEF IsQuery, n
<1>1. pairs[p] \in SubscriptPairs(n) /\ result.consistent \in BOOLEAN
  BY ResultParts
<1>2. /\ s \in Simplifiable(n)
      /\ \A X, Y \in [Levels(n) -> Int] :
           (\A l \in Levels(n) : Holds(cons[l], X[l], Y[l])) =>
             StaysEqual(n, pairs[p].src, pairs[p].dst, s, X, Y)
  BY <1>n, <1>1, Propagation
<1> DEFINE ps == Simplified(pairs, p, s)
<1>3. DOMAIN ps = DOMAIN pairs /\ ps[p].src = s.src /\ ps[p].dst = s.dst
      /\ \A o \in DOMAIN pairs \ {p} : ps[o] = pairs[o]
  BY DEF Simplified
<1> HIDE DEF ps
<1>4. ASSUME NEW X, NEW Y, InNest(n, X), InNest(n, Y), Fits(n, pairs, cons, result, X, Y)
      PROVE  Fits(n, ps, cons, t, X, Y)
  <2>1. X \in [Levels(n) -> Int] /\ Y \in [Levels(n) -> Int]
    BY <1>4 DEF InNest
  <2>2. Eval(s.src, X) = Eval(s.dst, Y)
    BY <1>2, <1>4, <2>1 DEF Fits, StaysEqual
  <2>3. Says(n, t, X, Y)
    BY <1>4 DEF Fits, Narrows, Says, Said
  <2> QED
    BY <1>3, <1>4, <2>2, <2>3 DEF Fits
<1>5. Truthful(query, ps, cons, t)
  BY <1>4, <1>n, StaysTruthful
<1> QED
  BY <1>2, <1>5 DEF ps

\* The directions are narrowed.
LEMMA NarrowedTruthful ==
  ASSUME NEW q, IsQuery(q), NEW ps, NEW cs, NEW r, Truthful(q, ps, cs, r), ~r.disproved,
         NEW t, Narrows(q.nest, r, t)
  PROVE  Truthful(q, ps, cs, t)
<1>1. ASSUME NEW X, NEW Y, Fits(q.nest, ps, cs, r, X, Y) PROVE Fits(q.nest, ps, cs, t, X, Y)
  BY <1>1 DEF Fits, Narrows, Says, Said
<1> QED
  BY <1>1, StaysTruthful

\* The constraints decide what is said of the levels.
LEMMA DecidedTruthful ==
  ASSUME NEW q, IsQuery(q), NEW ps, NEW cs, NEW r, Truthful(q, ps, cs, r), ~r.disproved,
         NEW t, SaysAfter(q.nest, r, t, cs)
  PROVE  Truthful(q, ps, cs, t)
<1>1. ASSUME NEW X, NEW Y, InNest(q.nest, X), InNest(q.nest, Y), Fits(q.nest, ps, cs, r, X, Y)
      PROVE  Fits(q.nest, ps, cs, t, X, Y)
  BY <1>1 DEF Fits, SaysAfter
<1> QED
  BY <1>1, StaysTruthful

-----------------------------------------------------------------------------
(* The invariant of depends().                                              *)

Subscripts == DOMAIN query.pairs
Typed ==
  /\ IsQuery(query)
  /\ phase \in {"separable", "siv", "propagate", "rdiv", "miv", "done"}
  /\ pairs \in [Subscripts -> SubscriptPairs(n)]
  /\ DOMAIN cons = Levels(n) /\ \A k \in Levels(n) : cons[k] \in ConstraintsOf(n, k)
  /\ todo \in SUBSET Subscripts /\ sivs \in SUBSET Subscripts /\ mivs \in SUBSET Subscripts
  /\ groups \in SUBSET (SUBSET Subscripts) /\ {} \notin groups
  /\ result \in Results(n)
\* The tests of one loop only see subscripts of one loop.
OneLoopLeft ==
  /\ phase = "siv" => \A p \in todo : Class(p) = "SIV"
  /\ phase = "propagate" => /\ todo \subseteq mivs /\ sivs \cap mivs = {}
                            /\ \A p \in sivs : Class(p) = "SIV"
  /\ phase \notin {"propagate", "done"} => sivs = {}
Asked ==
  /\ Typed /\ OneLoopLeft
  /\ result.disproved => phase = "done"
  /\ Truthful(query, pairs, cons, result)

\* The subscript that is tested next is one of the query.
LEMMA FirstTodo ==
  ASSUME Typed, todo # {}
  PROVE  First(todo) \in todo /\ pairs[First(todo)] \in SubscriptPairs(n)
         /\ First(todo) \in DOMAIN pairs /\ First(todo) \in Subscripts
<1>1. todo \in SUBSET Nat
  <2>1. PICK i \in Nat : DOMAIN query.pairs = 1 .. i
    BY DEF Typed, IsQuery
  <2>2. 1 .. i \subseteq Nat
    OBVIOUS
  <2> QED
    BY <2>1, <2>2 DEF Typed, Subscripts
<1>2. First(todo) \in todo
  BY <1>1, FirstOf
<1> QED
  BY <1>2 DEF Typed

\* A separable subscript, or one of several loops, is tested.
LEMMA SeparableStep ==
  ASSUME Asked, TestSeparable \/ TestRest
  PROVE  Asked'
<1> DEFINE p == First(todo)
           t == Test(p, result)
<1>1. /\ todo # {} /\ todo' = todo \ {p} /\ phase \in {"separable", "rdiv", "miv"} /\ Answer(t, phase)
      /\ UNCHANGED <<query, pairs, groups, sivs, mivs, cons, levels, changed>>
  BY DEF TestSeparable, TestRest
<1>2. p \in DOMAIN pairs /\ pairs[p] \in SubscriptPairs(n)
  BY <1>1, FirstTodo DEF Asked
<1>3. IsNest(n) /\ query.nest = n /\ n' = n /\ result \in Results(n) /\ ~result.disproved
  BY <1>1 DEF Asked, Typed, IsQuery, n
<1> HIDE DEF p, t
<1>4. Keeps(n, pairs[p].src, pairs[p].dst, result, t)
  BY <1>2, <1>3, TestKeeps DEF t
<1>5. Truthful(query, pairs, cons, t)
  BY <1>2, <1>3, <1>4, TestedTruthful DEF Asked, Typed
<1>6. result' = t /\ phase' = (IF t.disproved THEN "done" ELSE phase) /\ t \in Results(n)
  BY <1>1, <1>4 DEF Answer, Keeps
<1>7. Typed'
  BY <1>1, <1>3, <1>6 DEF Asked, Typed, Subscripts
<1>8. OneLoopLeft'
  BY <1>1, <1>6 DEF Asked, OneLoopLeft
<1>9. Truthful(query, pairs, cons, result)'
  BY <1>1, <1>5, <1>6
<1> QED
  BY <1>6, <1>7, <1>8, <1>9 DEF Asked

\* A group or a round is started or ended.
LEMMA ControlStep ==
  ASSUME Asked, StartGroup \/ EndRound \/ EndPropagation \/ EndRDIV
  PROVE  Asked'
<1>1. /\ UNCHANGED <<query, pairs, cons, result>> /\ ~result.disproved
      /\ phase' \in {"siv", "propagate", "rdiv", "miv"}
  BY DEF StartGroup, EndRound, EndPropagation, EndRDIV, Asked
<1>2. n' = n /\ Subscripts' = Subscripts /\ \A p : Class(p)' = Class(p)
  BY <1>1 DEF n, Subscripts, Class
<1>3. Truthful(query, pairs, cons, result)'
  BY <1>1 DEF Asked
<1>4. CASE StartGroup
  <2> DEFINE G == CHOOSE H \in groups : \A I \in groups : Max(H) <= Max(I)
  <2>1. G \in groups
    <3>1. PICK i \in Nat : Subscripts = 1 .. i
      BY DEF Asked, Typed, IsQuery, Subscripts
    <3> QED
      BY <1>4, <3>1, FirstGroup DEF Asked, Typed, StartGroup
  <2>2. /\ groups' = groups \ {G} /\ todo' = {p \in G : Class(p) = "SIV"}
        /\ mivs' = {p \in G : Class(p) # "SIV"} /\ phase' = "siv" /\ sivs' = sivs /\ phase = "separable"
    BY <1>4 DEF StartGroup
  <2> HIDE DEF G
  <2>3. Typed'
    BY <1>1, <1>2, <2>1, <2>2 DEF Asked, Typed
  <2>4. OneLoopLeft'
    BY <1>2, <2>2 DEF Asked, OneLoopLeft
  <2> QED
    BY <1>1, <1>3, <2>3, <2>4 DEF Asked
<1>5. CASE EndRound
  <2>1. Typed'
    BY <1>1, <1>2, <1>5 DEF Asked, Typed, EndRound
  <2>2. OneLoopLeft'
    BY <1>2, <1>5 DEF Asked, OneLoopLeft, EndRound
  <2> QED
    BY <1>1, <1>3, <2>1, <2>2 DEF Asked
<1>6. CASE EndPropagation
  <2>1. Typed'
    BY <1>1, <1>2, <1>6 DEF Asked, Typed, EndPropagation
  <2>2. OneLoopLeft'
    BY <1>2, <1>6 DEF Asked, OneLoopLeft, EndPropagation
  <2> QED
    BY <1>1, <1>3, <2>1, <2>2 DEF Asked
<1>7. CASE EndRDIV
  <2>1. Typed'
    BY <1>1, <1>2, <1>7 DEF Asked, Typed, EndRDIV
  <2>2. OneLoopLeft'
    BY <1>2, <1>7 DEF Asked, OneLoopLeft, EndRDIV
  <2> QED
    BY <1>1, <1>3, <2>1, <2>2 DEF Asked
<1> QED
  BY <1>4, <1>5, <1>6, <1>7

\* A subscript of one loop is tested and its line intersected.
LEMMA LineStep ==
  ASSUME Asked, TestNextSIV
  PROVE  Asked'
<1> DEFINE p == First(todo)
           t == Test(p, result)
           Y == Intersect(cons[t.level], t.cons)
<1>1. /\ todo # {} /\ phase = "siv" /\ Constrain(t, cons[t.level], Y)
      /\ UNCHANGED <<query, pairs, groups, sivs, mivs>>
  BY DEF TestNextSIV
<1>2. p \in todo /\ p \in DOMAIN pairs /\ pairs[p] \in SubscriptPairs(n)
  BY <1>1, FirstTodo DEF Asked
<1>3. /\ IsNest(n) /\ query.nest = n /\ n' = n /\ result \in Results(n) /\ ~result.disproved
      /\ Subscripts' = Subscripts /\ (\A o : Class(o)' = Class(o)) /\ Class(p) = "SIV"
  BY <1>1, <1>2 DEF Asked, Typed, IsQuery, n, Subscripts, Class, OneLoopLeft
<1>d. IF t.disproved \/ Y.kind = "empty"
      THEN Answer(Disproved(t), "siv") /\ UNCHANGED <<todo, cons, levels, changed>>
      ELSE /\ Answer(t, "siv") /\ todo' = todo \ {p} /\ cons' = [cons EXCEPT ![t.level] = Y]
  BY <1>1 DEF Constrain
<1> HIDE DEF p
<1>4. FoundBy(n, pairs[p].src, pairs[p].dst, result, t)
  BY <1>2, <1>3, TestKeeps
<1> HIDE DEF t
<1>5. t \in Results(n) /\ (~t.disproved => t.level \in Levels(n) /\ t.cons \in LinesOf(n, t.level))
  BY <1>4 DEF FoundBy
<1>6. CASE t.disproved \/ Y.kind = "empty"
  <2>1. /\ result' = Disproved(t) /\ phase' = "done" /\ UNCHANGED <<todo, cons>>
        /\ Disproved(t) \in Results(n) /\ Disproved(t).disproved
    BY <1>5, <1>6, <1>d, Refuted DEF Answer
  <2>2. Typed'
    BY <1>1, <1>3, <2>1 DEF Asked, Typed
  <2>3. OneLoopLeft'
    BY <2>1 DEF OneLoopLeft
  <2>4. Truthful(query, pairs, cons, result)'
    BY <2>1 DEF Truthful
  <2> QED
    BY <2>1, <2>2, <2>3, <2>4 DEF Asked
<1>7. CASE ~t.disproved /\ Y.kind # "empty"
  <2>1. /\ result' = t /\ phase' = "siv" /\ todo' = todo \ {p} /\ cons' = [cons EXCEPT ![t.level] = Y]
    BY <1>7, <1>d DEF Answer
  <2>2. Y \in ConstraintsOf(n, t.level)
    BY <1>3, <1>5, <1>7, IntersectType DEF Asked, Typed, Empty
  <2>3. Truthful(query, pairs, [cons EXCEPT ![t.level] = Y], t)
    BY <1>2, <1>3, <1>4, <1>7, FoundTruthful DEF Asked, Typed
  <2> HIDE DEF Y
  <2>4. /\ DOMAIN cons' = Levels(n)
        /\ \A k \in Levels(n) : cons'[k] \in ConstraintsOf(n, k)
    BY <2>1, <2>2 DEF Asked, Typed
  <2>5. Typed'
    BY <1>1, <1>3, <1>5, <2>1, <2>4 DEF Asked, Typed
  <2>6. OneLoopLeft'
    BY <1>1, <1>3, <2>1 DEF Asked, OneLoopLeft
  <2>7. Truthful(query, pairs, cons, result)'
    BY <1>1, <2>1, <2>3
  <2> QED
    BY <1>7, <2>1, <2>5, <2>6, <2>7 DEF Asked
<1> QED
  BY <1>6, <1>7

\* An answer with another consistency, or other independence.
WithConsistency(r, b) == [r EXCEPT !.consistent = b]
WithIndependence(r, b) == [r EXCEPT !.loopIndependent = b]
\* Consistency and independence are all that is marked.
LEMMA Marked ==
  ASSUME NEW m, NEW r \in Results(m), NEW b \in BOOLEAN
  PROVE  /\ Narrows(m, r, WithConsistency(r, b)) /\ WithConsistency(r, b).disproved = r.disproved
         /\ Narrows(m, r, WithIndependence(r, b)) /\ WithIndependence(r, b).disproved = r.disproved
BY DEF Narrows, WithConsistency, WithIndependence, Results, Answers

\* Constraints are propagated into a subscript of several loops.
LEMMA PropagateStep ==
  ASSUME Asked, PropagateNext
  PROVE  Asked'
<1>0. PICK p : p = First(todo)
  OBVIOUS
<1> DEFINE s == Propagated(pairs[p], result.consistent)
           class == Classify(n, s.src, s.dst)
           r == WithConsistency(result, s.consistent)
           t == IF class = "ZIV" THEN TestZIV(s.src, s.dst, r) ELSE r
           ps == Simplified(pairs, p, s)
<1>1. /\ todo # {} /\ phase = "propagate" /\ todo' = todo \ {p}
      /\ UNCHANGED <<query, groups, cons, levels, changed>>
  BY <1>0 DEF PropagateNext
<1>2. p \in todo /\ p \in DOMAIN pairs /\ p \in Subscripts
  BY <1>0, <1>1, FirstTodo DEF Asked
<1>3. /\ IsQuery(query) /\ IsNest(n) /\ query.nest = n /\ n' = n /\ result \in Results(n) /\ ~result.disproved
      /\ Subscripts' = Subscripts
      /\ todo \subseteq mivs /\ sivs \cap mivs = {} /\ \A o \in sivs : Class(o) = "SIV"
  BY <1>1 DEF Asked, Typed, IsQuery, n, Subscripts, OneLoopLeft
<1>d. IF ~s.simplified THEN UNCHANGED <<phase, pairs, sivs, mivs, result>>
      ELSE /\ pairs' = ps
           /\ sivs' = (IF class = "SIV" THEN sivs \cup {p} ELSE sivs)
           /\ mivs' = (IF class \in {"ZIV", "SIV"} THEN mivs \ {p} ELSE mivs)
           /\ Answer(t, "propagate")
  BY <1>0 DEF PropagateNext, WithConsistency, Simplified
<1>s. /\ s = Propagated(pairs[p], result.consistent)
      /\ Truthful(query, pairs, cons, result)
      /\ pairs \in [DOMAIN query.pairs -> SubscriptPairs(n)]
      /\ \A k \in Levels(n) : cons[k] \in ConstraintsOf(n, k)
  BY DEF Asked, Typed, Subscripts
<1>i. ASSUME NEW u, Narrows(n, result, u)
      PROVE  s \in Simplifiable(n) /\ Truthful(query, ps, cons, u)
  <2> HIDE DEF s
  <2> QED
    BY <1>2, <1>3, <1>s, <1>i, SimplifiedTruthful
<1>4. s \in Simplifiable(n)
  BY <1>3, <1>i, NarrowsItself
<1>5. CASE ~s.simplified
  <2>1. UNCHANGED <<phase, pairs, sivs, mivs, result>>
    BY <1>5, <1>d
  <2>2. Typed'
    BY <1>1, <1>3, <2>1 DEF Asked, Typed
  <2>3. OneLoopLeft'
    BY <1>1, <1>3, <2>1 DEF OneLoopLeft, Class
  <2>4. Truthful(query, pairs, cons, result)'
    BY <1>1, <2>1 DEF Asked
  <2> QED
    BY <1>1, <1>3, <2>1, <2>2, <2>3, <2>4 DEF Asked
<1>6. CASE s.simplified
  <2>1. s.consistent \in BOOLEAN
    BY <1>4 DEF Simplifiable
  <2>2. Narrows(n, result, t)
    <3>1. Narrows(n, result, r) /\ r \in Results(n)
      BY <1>3, <2>1, Marked DEF Narrows
    <3> HIDE DEF r, s
    <3>2. Narrows(n, r, TestZIV(s.src, s.dst, r))
      BY <3>1, OtherTestsNarrow
    <3>3. Narrows(n, result, TestZIV(s.src, s.dst, r))
      BY <3>1, <3>2, NarrowsOn
    <3> QED
      BY <3>1, <3>3
  <2>3. Truthful(query, ps, cons, t)
    <3> HIDE DEF t, ps
    <3> QED
      BY <1>i, <2>2
  <2>4. ps \in [Subscripts -> SubscriptPairs(n)]
    <3>1. [src |-> s.src, dst |-> s.dst] \in SubscriptPairs(n)
      BY <1>4 DEF Simplifiable, SubscriptPairs
    <3> HIDE DEF s
    <3> QED
      BY <3>1 DEF Asked, Typed, Simplified
  <2>5. ps[p] = [src |-> s.src, dst |-> s.dst] /\ \A o \in Subscripts \ {p} : ps[o] = pairs[o]
    <3> HIDE DEF s
    <3> QED
      BY <1>2 DEF Asked, Typed, Simplified
  <2>6. Answer(t, "propagate") /\ t \in Results(n) /\ pairs' = ps
    BY <1>6, <1>d, <2>2 DEF Narrows
  <2>7. /\ sivs' = (IF class = "SIV" THEN sivs \cup {p} ELSE sivs)
        /\ mivs' = (IF class \in {"ZIV", "SIV"} THEN mivs \ {p} ELSE mivs)
    BY <1>6, <1>d
  <2> HIDE DEF t, ps
  <2>8. result' = t /\ phase' = (IF t.disproved THEN "done" ELSE "propagate")
    BY <2>6 DEF Answer
  <2>9. Class(p)' = class /\ \A o \in Subscripts \ {p} : Class(o)' = Class(o)
    <3> HIDE DEF s
    <3>1. pairs'[p].src = s.src /\ pairs'[p].dst = s.dst /\ query' = query
      BY <1>1, <2>5, <2>6
    <3>2. Class(p)' = class
      BY <3>1 DEF Class, n
    <3>3. ASSUME NEW o \in Subscripts \ {p} PROVE Class(o)' = Class(o)
      BY <2>5, <2>6, <3>1 DEF Class, n
    <3> QED
      BY <3>2, <3>3
  <2> HIDE DEF class, s
  <2>10. Typed'
    BY <1>1, <1>2, <1>3, <2>4, <2>6, <2>7, <2>8 DEF Asked, Typed
  <2>11. OneLoopLeft'
    <3>1. sivs \subseteq Subscripts
      BY DEF Asked, Typed
    <3>2. \A o \in sivs' : Class(o)' = "SIV"
      <4>1. SUFFICES ASSUME NEW o \in sivs' PROVE Class(o)' = "SIV"
        OBVIOUS
      <4>2. CASE o \in sivs
        BY <1>2, <1>3, <2>9, <3>1, <4>2
      <4>3. CASE o \notin sivs
        <5>1. o = p /\ class = "SIV"
          BY <2>7, <4>3
        <5> QED
          BY <2>9, <5>1
      <4> QED
        BY <4>2, <4>3
    <3>3. todo' \subseteq mivs' /\ sivs' \cap mivs' = {}
      BY <1>1, <1>2, <1>3, <2>7
    <3> QED
      BY <2>8, <3>2, <3>3 DEF OneLoopLeft
  <2>12. Truthful(query, pairs, cons, result)'
    BY <1>1, <2>3, <2>6, <2>8
  <2> QED
    BY <2>8, <2>10, <2>11, <2>12 DEF Asked
<1> QED
  BY <1>5, <1>6

\* The constraints of a group are turned into directions and distances.
LEMMA UpdateStep ==
  ASSUME Asked, UpdateDirections
  PROVE  Asked'
<1>1. /\ phase = "miv" /\ UNCHANGED <<query, todo, pairs, groups, sivs, mivs, cons>>
      /\ ~result.disproved
  BY DEF UpdateDirections, Asked
<1>3. /\ IsQuery(query) /\ IsNest(n) /\ query.nest = n /\ n' = n /\ result \in Results(n)
      /\ Subscripts' = Subscripts /\ todo = {} /\ sivs = {}
  BY <1>1 DEF Asked, Typed, IsQuery, n, Subscripts, UpdateDirections, OneLoopLeft
<1>4. PICK t \in Results(n) : SaysAfter(n, result, t, cons)
                              /\ (Answer(t, "separable") \/ Answer(Disproved(t), "separable"))
  BY <1>3, Updates DEF Asked, Typed
<1>5. PICK u \in {t, Disproved(t)} : Answer(u, "separable")
  BY <1>4
<1>6. Truthful(query, pairs, cons, t)
  BY <1>1, <1>3, <1>4, DecidedTruthful DEF Asked
<1>7. u \in Results(n) /\ (u = t \/ u.disproved)
  BY <1>5, Refuted
<1>8. Truthful(query, pairs, cons, u)
  BY <1>6, <1>7 DEF Truthful
<1>9. result' = u /\ phase' = (IF u.disproved THEN "done" ELSE "separable")
  BY <1>5 DEF Answer
<1>10. Typed'
  BY <1>1, <1>3, <1>7, <1>9 DEF Asked, Typed
<1>11. OneLoopLeft'
  BY <1>1, <1>3, <1>9 DEF OneLoopLeft
<1>12. Truthful(query, pairs, cons, result)'
  BY <1>1, <1>8, <1>9
<1> QED
  BY <1>9, <1>10, <1>11, <1>12 DEF Asked

\* The answer is finished.
LEMMA FinishStep ==
  ASSUME Asked, Finish
  PROVE  Asked'
<1>1. /\ phase = "separable" /\ UNCHANGED <<query, todo, pairs, groups, sivs, mivs, cons>>
      /\ phase' = "done" /\ ~result.disproved
  BY DEF Finish, Asked
<1>3. /\ IsQuery(query) /\ query.nest = n /\ n' = n /\ result \in Results(n) /\ Subscripts' = Subscripts
  BY <1>1 DEF Asked, Typed, n, Subscripts
<1> DEFINE b == query.reaches /\ MayStay(result)
           r == WithIndependence(result, b)
<1>4. b \in BOOLEAN
  OBVIOUS
<1>5. result' \in {r, Disproved(r)}
  BY DEF Finish, WithIndependence
<1> HIDE DEF b
<1>6. Narrows(n, result, r) /\ r \in Results(n)
  BY <1>3, <1>4, Marked DEF Narrows
<1> HIDE DEF r
<1>7. Narrows(n, result, result') /\ result' \in Results(n)
  BY <1>5, <1>6, NarrowsItself, NarrowsOn DEF Narrows
<1>8. Truthful(query, pairs, cons, result')
  BY <1>1, <1>3, <1>7, NarrowedTruthful DEF Asked
<1>9. Typed'
  BY <1>1, <1>3, <1>7 DEF Asked, Typed
<1>10. OneLoopLeft'
  BY <1>1 DEF OneLoopLeft
<1>11. Truthful(query, pairs, cons, result)'
  BY <1>1, <1>8
<1> QED
  BY <1>1, <1>9, <1>10, <1>11 DEF Asked

\* Every step of depends() keeps the invariant.
LEMMA DependsStep ==
  ASSUME Asked, Depends
  PROVE  Asked'
BY SeparableStep, ControlStep, LineStep, PropagateStep, UpdateStep, FinishStep DEF Depends

\* A new query: nothing is known, and everything that meets fits.
LEMMA Fresh ==
  ASSUME NEW m, IsNest(m), NEW b \in BOOLEAN
  PROVE  LET r == [Unknown(m) EXCEPT !.loopIndependent = b]
         IN  r \in Results(m) /\ ~r.disproved /\ \A X, Y : Says(m, r, X, Y)
<1> DEFINE r == [Unknown(m) EXCEPT !.loopIndependent = b]
<1>1. /\ r.disproved = FALSE /\ r.peelFirst = {} /\ r.peelLast = {}
      /\ r.dist = [k \in Common(m) |-> {}] /\ r.splitAt = [k \in Common(m) |-> {}]
  BY DEF Unknown
<1>2. Unknown(m) \in Results(m)
  <2>1. Unconstrained \in Constraints
    BY DEF Constraints
  <2> QED
    BY <2>1 DEF Unknown, Results, Answers
<1>3. r \in Results(m)
  BY <1>2 DEF Results, Answers
<1> HIDE DEF r
<1>4. \A X, Y : Says(m, r, X, Y)
  BY <1>1 DEF Says, Said
<1> QED
  BY <1>1, <1>3, <1>4 DEF r

\* A question starts with the invariant.
LEMMA AskStep ==
  ASSUME NEW q, IsQuery(q), q.reaches \in BOOLEAN, Ask(q)
  PROVE  Asked'
<1> DEFINE m == q.nest
           r == [Unknown(m) EXCEPT !.loopIndependent = q.reaches]
           D == DOMAIN q.pairs
<1>1. /\ query' = q /\ pairs' = q.pairs /\ phase' = "separable" /\ result' = r
      /\ todo' = Separable(q) /\ groups' = Coupled(q) /\ sivs' = {} /\ mivs' = {}
      /\ cons' = [k \in Levels(m) |-> Unconstrained]
  BY DEF Ask
<1>2. n' = m /\ Subscripts' = D /\ IsNest(m)
  BY <1>1 DEF n, Subscripts, IsQuery
<1>3. r \in Results(m) /\ ~r.disproved /\ \A X, Y : Says(m, r, X, Y)
  BY <1>2, Fresh
<1> HIDE DEF r, m
<1>4. Separable(q) \in SUBSET D /\ Coupled(q) \in SUBSET (SUBSET D) /\ {} \notin Coupled(q)
  BY DEF Separable, Coupled, Partition
<1>5. q.pairs \in [D -> SubscriptPairs(m)]
  BY DEF IsQuery, m
<1>6. Typed'
  <2>1. IsQuery(query)'
    BY <1>1
  <2>2. (\A k \in Levels(n) : cons[k] \in ConstraintsOf(n, k))' /\ (DOMAIN cons = Levels(n))'
    BY <1>1, <1>2 DEF ConstraintsOf
  <2> HIDE DEF D
  <2>3. /\ (pairs \in [Subscripts -> SubscriptPairs(n)])' /\ (todo \in SUBSET Subscripts)'
        /\ (groups \in SUBSET (SUBSET Subscripts))' /\ ({} \notin groups)' /\ (result \in Results(n))'
    BY <1>1, <1>2, <1>3, <1>4, <1>5
  <2> QED
    BY <1>1, <2>1, <2>2, <2>3 DEF Typed
<1>7. OneLoopLeft'
  BY <1>1 DEF OneLoopLeft
<1>8. Truthful(q, q.pairs, [k \in Levels(m) |-> Unconstrained], r)
  <2>1. SUFFICES ASSUME NEW h \in Meetings(q)
                 PROVE  Fits(m, q.pairs, [k \in Levels(m) |-> Unconstrained], r, Whole(m, h[1]), Whole(m, h[2]))
    BY DEF Truthful, m
  <2>2. \A p \in DOMAIN q.pairs : Eval(q.pairs[p].src, Whole(m, h[1])) = Eval(q.pairs[p].dst, Whole(m, h[2]))
    BY MeetingFacts DEF IsQuery, m
  <2> QED
    BY <1>3, <2>2 DEF Fits, Holds, Unconstrained
<1>9. Truthful(query, pairs, cons, result)'
  BY <1>1, <1>8
<1> QED
  BY <1>1, <1>3, <1>6, <1>7, <1>9 DEF Asked

-----------------------------------------------------------------------------
(* The invariant of the collection of all dependences.                      *)
Inv ==
  /\ program \in Programs
  /\ hits = [p \in Pairs(program) |-> Meetings(Query(program, p))]
  /\ DOMAIN cache \subseteq Pairs(program)
  /\ phase # "idle" => pair \in Pairs(program) /\ query = Query(program, pair) /\ Asked

\* A step of the analysis never goes back to having no question.
LEMMA Invariant ==
  Spec => []Inv
<1>1. Init => Inv
  <2>1. DOMAIN << >> = {}
    OBVIOUS
  <2> QED
    BY <2>1 DEF Init, Inv
<1>2. Inv /\ [Next]_vars => Inv'
  <2>1. SUFFICES ASSUME Inv, [Next]_vars PROVE Inv'
    OBVIOUS
  <2>2. CASE TestPair
    <3>1. Depends /\ UNCHANGED <<program, hits, pair, cache>>
      BY <2>2 DEF TestPair
    <3>2. phase # "idle" /\ query' = query
      BY <3>1 DEF Depends, TestSeparable, StartGroup, TestNextSIV, EndRound, PropagateNext,
                  EndPropagation, TestRest, EndRDIV, UpdateDirections, Finish
    <3>3. Asked'
      BY <2>1, <3>1, <3>2, DependsStep DEF Inv
    <3> QED
      BY <2>1, <3>1, <3>2, <3>3 DEF Inv
  <2>3. CASE Record
    <3>1. /\ UNCHANGED <<state, program, hits, pair>> /\ phase = "done"
          /\ cache' = [p \in DOMAIN cache \cup {pair} |-> IF p = pair THEN result ELSE cache[p]]
      BY <2>3 DEF Record
    <3>2. Asked'
      <4>1. Asked
        BY <2>1, <3>1 DEF Inv
      <4> QED
        BY <3>1, <4>1 DEF Asked, Typed, OneLoopLeft, Subscripts, n, Class, state
    <3> QED
      BY <2>1, <3>1, <3>2 DEF Inv, state
  <2>4. CASE TestNext
    <3> DEFINE S == Pairs(program) \ DOMAIN cache
               q == Query(program, pair')
    <3>1. /\ pair' = NextPair(S) /\ Ask(q) /\ UNCHANGED <<program, hits, cache>> /\ S # {}
      BY <2>1, <2>4 DEF TestNext, Inv
    <3>2. S \in SUBSET (Nat \X Nat)
      <4>1. Accesses(program) \subseteq Nat
        BY <2>1, Inputs DEF Inv
      <4> QED
        BY <4>1 DEF Pairs
    <3> HIDE DEF S
    <3>3. pair' \in S
      BY <3>1, <3>2, NextPairOf
    <3>4. pair' \in Pairs(program) /\ program \in Programs
      BY <2>1, <3>3 DEF S, Inv
    <3>5. IsQuery(q)
      <4> HIDE DEF q
      <4>1. q = Query(program, pair')
        BY DEF q
      <4> QED
        BY <3>4, <4>1, QueryFacts DEF IsQuery
    <3>6. q.reaches \in BOOLEAN
      BY DEF Query
    <3>7. query' = q
      BY <3>1 DEF Ask
    <3> HIDE DEF q
    <3>8. Asked'
      BY <3>1, <3>5, <3>6, AskStep
    <3> QED
      BY <2>1, <3>1, <3>4, <3>7, <3>8 DEF Inv, q
  <2>5. CASE UNCHANGED vars
    <3>1. UNCHANGED <<query, phase, todo, pairs, groups, sivs, mivs, cons, result, program, hits, pair, cache>>
      BY <2>5 DEF vars, state
    <3>2. Asked' = Asked
      BY <3>1 DEF Asked, Typed, OneLoopLeft, Subscripts, n, Class
    <3> QED
      BY <2>1, <3>1, <3>2 DEF Inv
  <2> QED
    BY <2>1, <2>2, <2>3, <2>4, <2>5 DEF Next
<1> QED
  BY <1>1, <1>2, PTL DEF Spec

-----------------------------------------------------------------------------
(* What the invariant says of iterations that meet.                         *)

\* Iterations that meet, level by level.
LEMMA MeetingsFit ==
  ASSUME Inv, phase # "idle", ~result.disproved, NEW h \in Meeting
  PROVE  /\ Asked /\ h \in Meetings(query)
         /\ h[1] \in [SrcLevels(n) -> Nat] /\ h[2] \in [DstLevels(n) -> Nat]
         /\ Fits(n, pairs, cons, result, Whole(n, h[1]), Whole(n, h[2]))
         /\ \A k \in SrcLevels(n) : Whole(n, h[1])[k] = h[1][k]
         /\ \A k \in DstLevels(n) : Whole(n, h[2])[k] = h[2][k]
<1>1. Asked /\ h \in Meetings(query) /\ IsQuery(query)
  BY DEF Inv, Meeting, Asked, Typed
<1>2. h[1] \in [SrcLevels(n) -> Nat] /\ h[2] \in [DstLevels(n) -> Nat]
  BY <1>1, MeetingFacts DEF IsQuery, n
<1>3. Fits(n, pairs, cons, result, Whole(n, h[1]), Whole(n, h[2]))
  BY <1>1 DEF Asked, Truthful, n
<1>4. SrcLevels(n) \subseteq Levels(n) /\ DstLevels(n) \subseteq Levels(n)
  BY <1>1, NestLevels DEF IsQuery, n
<1> QED
  BY <1>1, <1>2, <1>3, <1>4 DEF Whole

\* ConstraintsHold, for every program: whatever tests a group is given and
\* however often constraints are propagated, they hold for all iterations that
\* meet, and so do the subscripts as simplified.
THEOREM ConstraintsAlwaysHold ==
  Spec => []ConstraintsHold
<1>1. Inv => ConstraintsHold
  <2>1. SUFFICES ASSUME Inv, phase # "idle", ~result.disproved, NEW h \in Meeting
                 PROVE  /\ \A k \in Levels(n) :
                             LET c == cons[k]
                             IN  CASE IsLine(c) -> Times(c.A, h[1], k) + Times(c.B, h[2], k) = c.C
                                   [] c.kind = "point" -> h[1][k] = c.x /\ h[2][k] = c.y
                                   [] OTHER -> TRUE
                        /\ \A p \in DOMAIN pairs :
                             Value(n, pairs[p].src, h[1]) = Value(n, pairs[p].dst, h[2])
    BY DEF ConstraintsHold
  <2> DEFINE X == Whole(n, h[1])
             Y == Whole(n, h[2])
  <2>2. /\ Asked /\ Fits(n, pairs, cons, result, X, Y)
        /\ h[1] \in [SrcLevels(n) -> Nat] /\ h[2] \in [DstLevels(n) -> Nat]
        /\ \A k \in SrcLevels(n) : X[k] = h[1][k]
        /\ \A k \in DstLevels(n) : Y[k] = h[2][k]
    BY <2>1, MeetingsFit
  <2>n. IsNest(n)
    BY <2>2 DEF Asked, Typed, IsQuery, n
  <2>l. /\ SrcLevels(n) \in SUBSET Levels(n) /\ DstLevels(n) \in SUBSET Levels(n)
        /\ Common(n) = SrcLevels(n) \cap DstLevels(n)
    BY <2>n, NestLevels
  <2>x. InNest(n, X) /\ InNest(n, Y)
    <3>1. h \in Meetings(query)
      BY <2>1, MeetingsFit
    <3> QED
      BY <2>2, <3>1, MeetingFacts DEF Asked, Typed, IsQuery, n
  <2> HIDE DEF X, Y
  <2>3. ASSUME NEW k \in Levels(n)
        PROVE  LET c == cons[k]
               IN  CASE IsLine(c) -> Times(c.A, h[1], k) + Times(c.B, h[2], k) = c.C
                     [] c.kind = "point" -> h[1][k] = c.x /\ h[2][k] = c.y
                     [] OTHER -> TRUE
    <3> DEFINE c == cons[k]
    <3>1. c \in ConstraintsOf(n, k) /\ Holds(c, X[k], Y[k]) /\ X[k] \in Nat /\ Y[k] \in Nat
      BY <2>2, <2>x, <2>3 DEF Asked, Typed, Fits, InNest
    <3> HIDE DEF c
    <3>2. ASSUME c \in LinesOf(n, k)
          PROVE  IsLine(c) /\ Times(c.A, h[1], k) + Times(c.B, h[2], k) = c.C
      <4>1. /\ c.kind \in {"line", "distance"} /\ c.A \in Int /\ c.B \in Int
            /\ (c.A # 0 => k \in SrcLevels(n)) /\ (c.B # 0 => k \in DstLevels(n))
        BY <3>2 DEF LinesOf, LinesAt
      <4>2. c.A * X[k] + c.B * Y[k] = c.C
        BY <3>1, <4>1 DEF Holds
      <4>3. Times(c.A, h[1], k) = c.A * X[k]
        <5>1. CASE c.A = 0
          BY <3>1, <5>1 DEF Times
        <5>2. CASE c.A # 0
          BY <2>2, <4>1, <5>2 DEF Times
        <5> QED
          BY <5>1, <5>2
      <4>4. Times(c.B, h[2], k) = c.B * Y[k]
        <5>1. CASE c.B = 0
          BY <3>1, <5>1 DEF Times
        <5>2. CASE c.B # 0
          BY <2>2, <4>1, <5>2 DEF Times
        <5> QED
          BY <5>1, <5>2
      <4> QED
        BY <4>1, <4>2, <4>3, <4>4 DEF IsLine
    <3>3. ASSUME c \in PointsAt(k), k \in Common(n)
          PROVE  ~IsLine(c) /\ c.kind = "point" /\ h[1][k] = c.x /\ h[2][k] = c.y
      BY <2>2, <2>l, <3>1, <3>3 DEF PointsAt, Holds, IsLine
    <3>4. ASSUME c = Unconstrained PROVE ~IsLine(c) /\ c.kind # "point"
      BY <3>4 DEF Unconstrained, IsLine
    <3>5. c \in LinesOf(n, k) \/ (c \in PointsAt(k) /\ k \in Common(n)) \/ c = Unconstrained
      BY <3>1 DEF ConstraintsOf
    <3>6. (CASE IsLine(c) -> Times(c.A, h[1], k) + Times(c.B, h[2], k) = c.C
             [] c.kind = "point" -> h[1][k] = c.x /\ h[2][k] = c.y
             [] OTHER -> TRUE)
      <4>1. ASSUME c \in LinesOf(n, k)
            PROVE  CASE IsLine(c) -> Times(c.A, h[1], k) + Times(c.B, h[2], k) = c.C
                     [] c.kind = "point" -> h[1][k] = c.x /\ h[2][k] = c.y
                     [] OTHER -> TRUE
        <5>1. IsLine(c) /\ c.kind # "point" /\ Times(c.A, h[1], k) + Times(c.B, h[2], k) = c.C
          BY <3>2, <4>1 DEF IsLine
        <5> QED
          BY <5>1
      <4>2. ASSUME c \in PointsAt(k), k \in Common(n)
            PROVE  CASE IsLine(c) -> Times(c.A, h[1], k) + Times(c.B, h[2], k) = c.C
                     [] c.kind = "point" -> h[1][k] = c.x /\ h[2][k] = c.y
                     [] OTHER -> TRUE
        BY <3>3, <4>2
      <4>3. ASSUME c = Unconstrained
            PROVE  CASE IsLine(c) -> Times(c.A, h[1], k) + Times(c.B, h[2], k) = c.C
                     [] c.kind = "point" -> h[1][k] = c.x /\ h[2][k] = c.y
                     [] OTHER -> TRUE
        BY <3>4, <4>3
      <4> QED
        BY <3>5, <4>1, <4>2, <4>3
    <3> QED
      BY <3>6 DEF c
  <2>4. ASSUME NEW p \in DOMAIN pairs
        PROVE  Value(n, pairs[p].src, h[1]) = Value(n, pairs[p].dst, h[2])
    <3>1. pairs[p].src \in SrcSubscripts(n) /\ pairs[p].dst \in DstSubscripts(n)
      BY <2>2 DEF Asked, Typed, SubscriptPairs
    <3>2. Value(n, pairs[p].src, h[1]) = Eval(pairs[p].src, X)
      BY <2>2, <2>l, <2>n, <3>1, ValueIsEval DEF SrcSubscripts, Within, X
    <3>3. Value(n, pairs[p].dst, h[2]) = Eval(pairs[p].dst, Y)
      BY <2>2, <2>l, <2>n, <3>1, ValueIsEval DEF DstSubscripts, Within, Y
    <3> QED
      BY <2>2, <3>2, <3>3 DEF Fits
  <2> QED
    BY <2>3, <2>4
<1> QED
  BY <1>1, Invariant, PTL

\* What an answer says of the common levels is true of the iterations that meet.
LEMMA AnswersSaid ==
  ASSUME Inv, Answered, NEW h \in Meeting, NEW k \in Common(n)
  PROVE  Said(n, k, result, h[1][k], h[2][k]) /\ h[1][k] \in Nat /\ h[2][k] \in Nat
<1>1. /\ Asked /\ Fits(n, pairs, cons, result, Whole(n, h[1]), Whole(n, h[2]))
      /\ h[1] \in [SrcLevels(n) -> Nat] /\ h[2] \in [DstLevels(n) -> Nat]
      /\ \A j \in SrcLevels(n) : Whole(n, h[1])[j] = h[1][j]
      /\ \A j \in DstLevels(n) : Whole(n, h[2])[j] = h[2][j]
  BY MeetingsFit DEF Answered
<1>2. k \in SrcLevels(n) /\ k \in DstLevels(n)
  BY <1>1, NestLevels DEF Asked, Typed, IsQuery, n
<1> QED
  BY <1>1, <1>2 DEF Fits, Says

\* DistancesAreExact, for every program: a distance in an answer is that of all
\* iterations that meet, through all narrowing and propagation.
THEOREM DistancesAlwaysExact ==
  Spec => []DistancesAreExact
<1>1. Inv => DistancesAreExact
  BY AnswersSaid DEF DistancesAreExact, Said
<1> QED
  BY <1>1, Invariant, PTL

\* PeelAndSplitBreak, for every program: the iterations to peel take part in
\* every dependence of their loop, and so does one on each side of a split.
THEOREM PeelAndSplitAlwaysBreak ==
  Spec => []PeelAndSplitBreak
<1>1. Inv => PeelAndSplitBreak
  <2>1. SUFFICES ASSUME Inv, Answered, NEW h \in Meeting
                 PROVE  /\ \A k \in result.peelFirst : 0 \in {h[1][k], h[2][k]}
                        /\ \A k \in result.peelLast : n.ub[k] \in {h[1][k], h[2][k]}
                        /\ \A k \in result.splitable : \A s \in result.splitAt[k] :
                             h[1][k] # h[2][k] => (h[1][k] <= s) # (h[2][k] <= s)
    BY DEF PeelAndSplitBreak
  <2>2. /\ result.peelFirst \subseteq Common(n) /\ result.peelLast \subseteq Common(n)
        /\ result.splitable \subseteq Common(n)
    <3>1. Asked
      BY <2>1 DEF Inv, Answered
    <3> QED
      BY <3>1, ResultParts DEF Asked, Typed
  <2>3. \A k \in Common(n) : Said(n, k, result, h[1][k], h[2][k])
    BY <2>1, AnswersSaid
  <2> QED
    BY <2>2, <2>3 DEF Said
<1> QED
  BY <1>1, Invariant, PTL
=============================================================================
