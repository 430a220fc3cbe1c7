------------------------ MODULE MemoryLocationRange ------------------------
(***************************************************************************)
(* Locations of the memory one pointer gives access to, and what two of     *)
(* them have in common (lib/Analysis/Memory/MemoryLocationRange.cpp).  A    *)
(* location is a record                                                     *)
(*   kind   "default", "noncollapsable" or "collapsed",                     *)
(*   lower  its first byte, upper  the byte after its last one; for a       *)
(*          collapsed location 0 and the size of an element of its array,   *)
(*   dims   the elements a collapsed location has in each dimension of the  *)
(*          array: start, step, trips, and the size of the dimension, 0 if  *)
(*          it is not known.                                                *)
(***************************************************************************)
EXTENDS Integers, Sequences, FiniteSetsExt, SequencesExt

CONSTANT Threshold   \* the most pieces a difference may leave inside a range
ASSUME ThresholdAssumption == Threshold \in Nat

Unknown == -1   \* a bound without a value
Ends(dim) == dim.start + dim.step * (dim.trips - 1)
Collapsed(loc) == loc.kind = "collapsed"
Known(loc) == loc.lower # Unknown /\ loc.upper # Unknown

\* The result of an intersection: none, exact in int, or one that may exist
\* but is not calculated; and the pieces of the right location outside it.
None(rest) == [verdict |-> "none", rest |-> rest]
NotCalculated(rest) == [verdict |-> "unknown", rest |-> rest]
Exact(int, rest) == [verdict |-> "exact", int |-> int, rest |-> rest]

-----------------------------------------------------------------------------
(* Scalars. *)

Apart(l, r) ==
  \/ l.upper # Unknown /\ r.lower # Unknown /\ l.upper <= r.lower
  \/ l.lower # Unknown /\ r.upper # Unknown /\ l.lower >= r.upper
Later(a, b) == IF a < b THEN b ELSE a
Earlier(a, b) == IF a < b THEN a ELSE b
Middle(l, r) ==
  [l EXCEPT !.lower = Later(l.lower, r.lower), !.upper = Earlier(l.upper, r.upper)]
Before(r, int) == IF r.lower < int.lower THEN <<[r EXCEPT !.upper = int.lower]>> ELSE <<>>
After(r, int) == IF r.upper > int.upper THEN <<[r EXCEPT !.lower = int.upper]>> ELSE <<>>

IntersectScalar(l, r) ==
  IF Apart(l, r) THEN None(<<>>)
  ELSE IF ~Known(l) \/ ~Known(r) THEN NotCalculated(<<>>)
  ELSE LET int == Middle(l, r) IN Exact(int, Before(r, int) \o After(r, int))

-----------------------------------------------------------------------------
(* Arrays. *)

\* A part of an array given by its bytes, as ranges of the dimensions that
\* `from' has, if it is one.  The bytes of one index of a dimension are
\* bytes[i + 1]; a dimension that is not covered as a whole may be followed,
\* outwards, only by single indices.
Delinearize(from, what) ==
  LET n == Len(from.dims)
      elem == from.upper
      bytes[i \in 1 .. n + 1] ==
        IF i = n + 1 THEN elem ELSE from.dims[i].size * bytes[i + 1]
      Index(offset, i) ==
        (IF bytes[i] > 0 THEN offset % bytes[i] ELSE offset) \div bytes[i + 1]
      first == [i \in 1 .. n |-> Index(what.lower, i)]
      last == [i \in 1 .. n |-> Index(what.upper - elem, i)]
      Whole(i) == first[i] = 0 /\ last[i] + 1 = from.dims[i].size
      dims == [i \in 1 .. n |-> [start |-> first[i], step |-> 1,
                                 trips |-> last[i] - first[i] + 1,
                                 size |-> from.dims[i].size]]
  IN IF /\ what.kind = "default" /\ Collapsed(from)
        /\ Known(what) /\ what.lower < what.upper
        /\ n > 0
        /\ what.lower % elem = 0 /\ what.upper % elem = 0
        /\ \A i \in 1 .. n : (\E j \in i + 1 .. n : ~Whole(j)) => first[i] = last[i]
     THEN [kind |-> "collapsed", lower |-> 0, upper |-> elem, dims |-> dims]
     ELSE what

Divides(d, k) == k % d = 0
Gcd(a, b) == Max({d \in 1 .. a : Divides(d, a) /\ Divides(d, b)})
CeilDiv(a, b) == -((-a) \div b)
FloorDiv(a, b) == a \div b
\* The common elements of two ranges: left.step * x + left.start =
\* right.step * y + right.start has the solutions x = a + b * t, y = c + d * t,
\* for every t between the bounds x and y have.
HasSolution(left, right) ==
  Divides(Gcd(left.step, right.step), right.start - left.start)
CommonPart(left, right) ==
  LET gcd == Gcd(left.step, right.step)
      shift == right.start - left.start
      b == right.step \div gcd
      d == left.step \div gcd
      a == CHOOSE x \in 0 .. b - 1 : Divides(right.step, left.step * x - shift)
      c == (left.step * a - shift) \div right.step
      tmin == Later(CeilDiv(-a, b), CeilDiv(-c, d))
      tmax == Earlier(FloorDiv(left.trips - 1 - a, b), FloorDiv(right.trips - 1 - c, d))
  IN [start |-> left.step * a + left.start + left.step * b * tmin,
      step |-> left.step * b, trips |-> tmax - tmin + 1, size |-> left.size]

Difference_NoCenter(D, I) ==
  LET beyond == Ends(D) - Ends(I)
      left == [D EXCEPT !.trips = (I.start - D.start) \div D.step]
      right == [D EXCEPT !.start = Ends(I) + D.step, !.trips = beyond \div D.step]
  IN (IF D.start < I.start THEN <<left>> ELSE <<>>)
       \o (IF beyond > 0 THEN <<right>> ELSE <<>>)
\* What D has besides its subset I: before it, after it and between its elements.
Difference(D, I) ==
  LET beyond == Ends(D) - Ends(I)
      left == [D EXCEPT !.trips = (I.start - D.start) \div D.step]
      right == [D EXCEPT !.start = Ends(I) + D.step, !.trips = beyond \div D.step]
      center == [j \in 1 .. I.step \div D.step - 1 |->
                   [I EXCEPT !.start = @ + D.step * j, !.trips = @ - 1]]
  IN (IF D.start < I.start THEN <<left>> ELSE <<>>)
       \o (IF beyond > 0 THEN <<right>> ELSE <<>>)
       \o (IF I.trips > 1 THEN center ELSE <<>>)
TooManyPieces(D, I) == I.trips > 1 /\ I.step \div D.step - 1 > Threshold

\* One dimension after those that are already in acc.int; the pieces of
\* earlier dimensions stay in acc.rest whatever comes out of this one.  How many
\* there are matters only to a caller that asks for the pieces.
WithPart(acc, r, i, part, pieced) ==
  LET pieces == Difference(r.dims[i], part)
  IN IF part.trips <= 0 THEN None(acc.rest)
     ELSE IF pieced /\ TooManyPieces(r.dims[i], part) THEN NotCalculated(acc.rest)
     ELSE Exact([acc.int EXCEPT !.dims[i] = part],
                acc.rest \o [k \in DOMAIN pieces |-> [r EXCEPT !.dims[i] = pieces[k]]])
IntersectDim(acc, r, i, pieced) ==
  LET left == acc.int.dims[i]
      right == r.dims[i]
  IN IF left.size # right.size THEN NotCalculated(acc.rest)
     ELSE IF \/ Ends(left) < right.start \/ Ends(right) < left.start
             \/ ~HasSolution(left, right)
          THEN None(acc.rest)
     ELSE WithPart(acc, r, i, CommonPart(left, right), pieced)
IntersectArrays(l, r, pieced) ==
  LET upto[i \in 0 .. Len(l.dims)] ==
        IF i = 0 THEN Exact(l, <<>>)
        ELSE IF upto[i - 1].verdict = "exact" THEN IntersectDim(upto[i - 1], r, i, pieced)
        ELSE upto[i - 1]
  IN upto[Len(l.dims)]

\* Bytes that are compared with elements of an array.
PartOf(from, what) ==
  IF Collapsed(from) /\ what.kind = "default" THEN Delinearize(from, what) ELSE what
IntersectKinds(l, r, pieced) ==
  IF ~Collapsed(l) /\ ~Collapsed(r) THEN IntersectScalar(l, r)
  ELSE IF Collapsed(l) # Collapsed(r) \/ Len(l.dims) # Len(r.dims)
       THEN NotCalculated(<<>>)
  ELSE IF l.lower = r.lower /\ l.upper = r.upper /\ l.dims = r.dims
       THEN Exact(l, <<>>)
  ELSE IntersectArrays(l, r, pieced)
\* With the pieces of rhs, and without a list to put them in.
Intersect(lhs, rhs) ==
  LET l == PartOf(rhs, lhs) IN IntersectKinds(l, PartOf(l, rhs), TRUE)
IntersectOnly(lhs, rhs) ==
  LET l == PartOf(rhs, lhs) IN IntersectKinds(l, PartOf(l, rhs), FALSE)
=============================================================================
