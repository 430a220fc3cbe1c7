--------------------- MODULE MemoryLocationRange_proofs ---------------------
(* What intersections, differences and joins of locations do to each byte   *)
(* and each element, for all bounds.                                        *)
EXTENDS MemorySet, SequenceTheorems, TLAPS

Bounds == Nat \cup {Unknown}
Scalars == [kind : {"default", "noncollapsable"}, lower : Bounds, upper : Bounds, dims : {<<>>}]
\* The bytes of a scalar location; a bound without a value leaves nothing out.
Covers(loc, o) ==
  /\ loc.lower = Unknown \/ loc.lower <= o
  /\ loc.upper = Unknown \/ o < loc.upper
CoveredBy(locs, o) == \E k \in DOMAIN locs : Covers(locs[k], o)

(* Scalar locations are intersected as scalars.                            *)
LEMMA ScalarsIntersect ==
  ASSUME NEW l \in Scalars, NEW r \in Scalars
  PROVE  Intersect(l, r) = IntersectScalar(l, r)
BY DEF Scalars, Intersect, PartOf, IntersectKinds, Collapsed

(* Two sequences of one element make one of two.                           *)
LEMMA PairConcat == ASSUME NEW a, NEW b PROVE <<a>> \o <<b>> = <<a, b>>
<1> DEFINE S == {a, b}
           s == <<a>> \o <<b>>
<1>1. <<a>> \in Seq(S) /\ <<b>> \in Seq(S) /\ <<a, b>> \in Seq(S)
  OBVIOUS
<1>2. Len(<<a>>) = 1 /\ Len(<<b>>) = 1 /\ Len(<<a, b>>) = 2
  OBVIOUS
<1>3. s \in Seq(S) /\ Len(s) = 2 /\ s[1] = a /\ s[2] = b
  BY <1>1, <1>2, ConcatProperties
<1>4. <<a, b>>[1] = a /\ <<a, b>>[2] = b
  OBVIOUS
<1> HIDE DEF s
<1>5. \A i \in 1 .. Len(s) : s[i] = <<a, b>>[i]
  BY <1>3, <1>4
<1>6. s = <<a, b>>
  BY <1>1, <1>2, <1>3, <1>5, SeqEqual, Zenon
<1> QED BY <1>6 DEF s

(* The middle of two scalar locations holds the bytes of both,             *)
LEMMA MiddleIsCommon ==
  ASSUME NEW l \in Scalars, NEW r \in Scalars, NEW o \in Nat,
         Known(l), Known(r)
  PROVE  Covers(Middle(l, r), o) <=> Covers(l, o) /\ Covers(r, o)
BY DEF Scalars, Bounds, Known, Unknown, Covers, Middle, Later, Earlier

(* and what lies before and after it the other bytes of the right one.     *)
LEMMA OutsideIsRest ==
  ASSUME NEW l \in Scalars, NEW r \in Scalars, NEW o \in Nat,
         Known(l), Known(r), ~Apart(l, r)
  PROVE  LET int == Middle(l, r)
         IN CoveredBy(Before(r, int) \o After(r, int), o)
              <=> Covers(r, o) /\ ~Covers(l, o)
<1> DEFINE int == Middle(l, r)
           low == [r EXCEPT !.upper = int.lower]
           high == [r EXCEPT !.lower = int.upper]
<1>1. /\ int.lower \in Nat /\ int.upper \in Nat
      /\ r.lower \in Nat /\ r.upper \in Nat /\ l.lower \in Nat /\ l.upper \in Nat
      /\ low.lower = r.lower /\ low.upper = int.lower
      /\ high.lower = int.upper /\ high.upper = r.upper
  BY DEF Scalars, Bounds, Known, Middle, Later, Earlier
<1>2. /\ int.lower = Later(l.lower, r.lower) /\ int.upper = Earlier(l.upper, r.upper)
      /\ l.upper > r.lower /\ l.lower < r.upper
  BY <1>1 DEF Middle, Apart, Unknown, Scalars
<1>3. /\ Covers(low, o) <=> r.lower <= o /\ o < int.lower
      /\ Covers(high, o) <=> int.upper <= o /\ o < r.upper
      /\ Covers(r, o) <=> r.lower <= o /\ o < r.upper
      /\ Covers(l, o) <=> l.lower <= o /\ o < l.upper
  BY <1>1 DEF Covers, Unknown
<1>4. (r.lower < int.lower /\ Covers(low, o)) \/ (r.upper > int.upper /\ Covers(high, o))
        <=> Covers(r, o) /\ ~Covers(l, o)
  BY <1>1, <1>2, <1>3 DEF Later, Earlier
<1>5. CASE r.lower < int.lower /\ r.upper > int.upper
  <2>1. Before(r, int) \o After(r, int) = <<low, high>>
    <3>1. Before(r, int) = <<low>>
      BY <1>5 DEF Before
    <3>2. After(r, int) = <<high>>
      BY <1>5 DEF After
    <3>3. <<low>> \o <<high>> = <<low, high>>
      BY PairConcat
    <3> QED BY <3>1, <3>2, <3>3
  <2>2. CoveredBy(<<low, high>>, o) <=> Covers(low, o) \/ Covers(high, o)
    BY DEF CoveredBy
  <2> QED BY <1>4, <1>5, <2>1, <2>2
<1>6. CASE r.lower < int.lower /\ ~(r.upper > int.upper)
  <2>1. Before(r, int) \o After(r, int) = <<low>>
    BY <1>6 DEF Before, After
  <2>2. CoveredBy(<<low>>, o) <=> Covers(low, o)
    BY DEF CoveredBy
  <2> QED BY <1>4, <1>6, <2>1, <2>2
<1>7. CASE ~(r.lower < int.lower) /\ r.upper > int.upper
  <2>1. Before(r, int) \o After(r, int) = <<high>>
    BY <1>7 DEF Before, After
  <2>2. CoveredBy(<<high>>, o) <=> Covers(high, o)
    BY DEF CoveredBy
  <2> QED BY <1>4, <1>7, <2>1, <2>2
<1>8. CASE ~(r.lower < int.lower) /\ ~(r.upper > int.upper)
  <2>1. Before(r, int) \o After(r, int) = <<>>
    BY <1>8 DEF Before, After
  <2>2. ~CoveredBy(<<>>, o)
    BY DEF CoveredBy
  <2> QED BY <1>4, <1>8, <2>1, <2>2
<1> QED BY <1>5, <1>6, <1>7, <1>8

\* intersect() of two scalar locations, whatever their bounds: none is the
\* answer only if they have no byte in common; a location it returns has
\* exactly the common bytes, and the pieces it leaves exactly the other bytes
\* of the right one.
THEOREM ScalarIntersectionExact ==
  ASSUME NEW l \in Scalars, NEW r \in Scalars, NEW o \in Nat
  PROVE  LET i == Intersect(l, r)
         IN /\ i.verdict = "none" => ~(Covers(l, o) /\ Covers(r, o))
            /\ i.verdict = "exact" =>
                 /\ Covers(i.int, o) <=> Covers(l, o) /\ Covers(r, o)
                 /\ CoveredBy(i.rest, o) <=> Covers(r, o) /\ ~Covers(l, o)
<1>1. CASE Apart(l, r)
  <2>1. Intersect(l, r).verdict = "none"
    BY <1>1, ScalarsIntersect DEF IntersectScalar, None
  <2>2. ~(Covers(l, o) /\ Covers(r, o))
    BY <1>1 DEF Apart, Covers, Scalars, Bounds, Unknown
  <2> QED BY <2>1, <2>2
<1>2. CASE ~Apart(l, r) /\ ~(Known(l) /\ Known(r))
  <2>1. Intersect(l, r).verdict = "unknown"
    BY <1>2, ScalarsIntersect DEF IntersectScalar, NotCalculated
  <2> QED BY <2>1
<1>3. CASE ~Apart(l, r) /\ Known(l) /\ Known(r)
  <2> DEFINE int == Middle(l, r)
  <2>1. Intersect(l, r) = Exact(int, Before(r, int) \o After(r, int))
    BY <1>3, ScalarsIntersect DEF IntersectScalar
  <2>2. /\ Intersect(l, r).verdict = "exact"
        /\ Intersect(l, r).int = int
        /\ Intersect(l, r).rest = Before(r, int) \o After(r, int)
    BY <2>1 DEF Exact
  <2> QED BY <1>3, <2>2, MiddleIsCommon, OutsideIsRest
<1> QED BY <1>1, <1>2, <1>3

\* A location joined to one it touches: insert() makes of them the location
\* of exactly their bytes, if both begin somewhere known.
THEOREM ScalarJoinExact ==
  ASSUME NEW what \in Scalars, NEW to \in Scalars, NEW o \in Nat,
         what.lower # Unknown, to.lower # Unknown,
         what.upper = Unknown \/ what.lower <= what.upper,
         to.upper = Unknown \/ to.lower <= to.upper,
         AreJoinable(to, what)
  PROVE  Covers(Join(what, to), o) <=> Covers(what, o) \/ Covers(to, o)
<1>1. /\ what.lower \in Nat /\ to.lower \in Nat
      /\ what.upper \in Bounds /\ to.upper \in Bounds
      /\ what.dims = <<>> /\ to.dims = <<>>
  BY DEF Scalars, Bounds
<1>2. NotAbove(what.lower, to.upper) /\ NotAbove(to.lower, what.upper)
  BY <1>1 DEF AreJoinable
<1>3. /\ Join(what, to).lower = IF NotAbove(to.lower, what.lower) THEN to.lower ELSE what.lower
      /\ Join(what, to).upper = IF NotAbove(what.upper, to.upper) THEN to.upper ELSE what.upper
  BY DEF Join, Scalars
<1> QED BY <1>1, <1>2, <1>3 DEF Covers, NotAbove, Bounds, Unknown
\* Ranges of consecutive elements, what they hold, and joins of them.
Consecutive == [start : Nat, step : {1}, trips : Nat \ {0}, size : Nat]
Holds(dim, p) == dim.start <= p /\ p <= Ends(dim)

\* Two ranges of consecutive elements of a dimension that areJoinable()
\* accepts: join() makes of them the range of exactly their elements.
THEOREM RangeJoinExact ==
  ASSUME NEW what \in Consecutive, NEW to \in Consecutive, NEW p \in Nat,
         JoinableDims(to, what)
  PROVE  Holds(JoinDims(what, to), p) <=> Holds(what, p) \/ Holds(to, p)
<1> DEFINE start == Earlier(what.start, to.start)
           longer == to.trips + (to.start - start) \div what.step
           ends == start + to.step * (longer - 1)
<1>1. /\ what.start \in Nat /\ to.start \in Nat /\ what.step = 1 /\ to.step = 1
      /\ what.trips \in Nat \ {0} /\ to.trips \in Nat \ {0}
  BY DEF Consecutive
<1>2. /\ Ends(what) = what.start + what.trips - 1
      /\ Ends(to) = to.start + to.trips - 1
  BY <1>1 DEF Ends
<1>3. /\ start \in Nat
      /\ longer = to.trips + (to.start - start)
  BY <1>1 DEF Earlier
<1>4. ends = Ends(to)
  BY <1>1, <1>2, <1>3
<1>5. /\ JoinDims(what, to).start = start
      /\ JoinDims(what, to).step = 1
      /\ JoinDims(what, to).trips =
           IF Ends(what) > ends THEN longer + (Ends(what) - ends) \div what.step ELSE longer
  BY <1>1 DEF JoinDims, Consecutive
<1>6. Ends(JoinDims(what, to)) = IF Ends(what) > Ends(to) THEN Ends(what) ELSE Ends(to)
  <2> HIDE DEF start, longer, ends
  <2>1. CASE Ends(what) > ends
    BY <1>1, <1>2, <1>3, <1>4, <1>5, <2>1 DEF Ends
  <2>2. CASE ~(Ends(what) > ends)
    BY <1>1, <1>2, <1>3, <1>4, <1>5, <2>2 DEF Ends
  <2> QED BY <2>1, <2>2
<1>7. what.start - Ends(to) <= 1 /\ to.start - Ends(what) <= 1
  BY <1>1, <1>2 DEF JoinableDims
<1> QED BY <1>1, <1>2, <1>5, <1>6, <1>7 DEF Holds, Earlier
=============================================================================
