----------------------------- MODULE MemorySet -----------------------------
(***************************************************************************)
(* Sets of memory locations: for each pointer a list of locations, to which *)
(* a new one is joined if it makes up a range with one that is there        *)
(* (include/tsar/Analysis/Memory/MemorySet.h and MemorySetInfo.h).  A set   *)
(* is the list of one pointer; no list and an empty one look the same.      *)
(***************************************************************************)
EXTENDS MemoryLocationRange

\* sizecmp: a bound without a value is above all others.
NotAbove(a, b) == b = Unknown \/ (a # Unknown /\ a <= b)

JoinableDims(left, right) ==
  \/ left = right
  \/ /\ left.step = right.step
     /\ Divides(left.step, left.start - right.start)
     /\ right.start - Ends(left) <= left.step
     /\ left.start - Ends(right) <= left.step
AreJoinable_AnyDims(l, r) ==
  /\ Len(l.dims) = Len(r.dims) /\ l.kind = r.kind
  /\ IF l.dims = <<>>
     THEN NotAbove(r.lower, l.upper) /\ NotAbove(l.lower, r.upper)
     ELSE \A i \in DOMAIN l.dims : JoinableDims(l.dims[i], r.dims[i])
AreJoinable(l, r) ==
  /\ Len(l.dims) = Len(r.dims) /\ l.kind = r.kind
  /\ IF l.dims = <<>>
     THEN NotAbove(r.lower, l.upper) /\ NotAbove(l.lower, r.upper)
     ELSE /\ \A i \in DOMAIN l.dims : JoinableDims(l.dims[i], r.dims[i])
          /\ Cardinality({i \in DOMAIN l.dims : l.dims[i] # r.dims[i]}) <= 1

JoinDims_Short(what, to) ==
  LET start == Earlier(what.start, to.start)
      ends == start + to.step * (to.trips - 1)
  IN [to EXCEPT !.start = start,
                !.trips = IF Ends(what) > ends
                          THEN to.trips + (Ends(what) - ends) \div what.step ELSE to.trips]
JoinDims(what, to) ==
  LET start == Earlier(what.start, to.start)
      longer == to.trips + (to.start - start) \div what.step
      ends == start + to.step * (longer - 1)
  IN [to EXCEPT !.start = start,
                !.trips = IF Ends(what) > ends
                          THEN longer + (Ends(what) - ends) \div what.step ELSE longer]
Join(what, to) ==
  [to EXCEPT !.lower = IF NotAbove(@, what.lower) THEN @ ELSE what.lower,
             !.upper = IF NotAbove(what.upper, @) THEN @ ELSE what.upper,
             !.dims = [i \in DOMAIN to.dims |-> JoinDims(what.dims[i], to.dims[i])]]

\* Scalars are put in the order of their first bytes, arrays at the end.
Place(set, loc) ==
  IF loc.dims # <<>> THEN Len(set) + 1
  ELSE Min({i \in DOMAIN set : set[i].dims # <<>> \/ ~NotAbove(set[i].lower, loc.lower)}
             \cup {Len(set) + 1})
Insert(set, loc) ==
  LET joinable == {i \in DOMAIN set : AreJoinable(set[i], loc)}
  IN IF joinable # {} THEN [set EXCEPT ![Min(joinable)] = Join(loc, @)]
     ELSE InsertAt(set, Place(set, loc), loc)
InsertAll(set, locs) == FoldLeft(Insert, set, locs)
Merge(set, with) == InsertAll(set, with)

LeftOf_Unknown(i, tail) == IF i.verdict # "none" THEN i.rest ELSE Append(i.rest, tail)
\* What an intersection leaves of a tail: the pieces, and all of it unless exact.
LeftOf(i, tail) == IF i.verdict = "exact" THEN i.rest ELSE Append(i.rest, tail)
\* What is left of a location outside the locations of a set, one after another.
Cut(tails, loc) ==
  FlattenSeq([k \in DOMAIN tails |-> LeftOf(Intersect(loc, tails[k]), tails[k])])
Tails(set, loc) == FoldLeft(Cut, <<loc>>, set)
Contain(set, loc) == set # <<>> /\ Tails(set, loc) = <<>>
\* What a set leaves of a location; all of it, if nothing exact is cut off.
OrAll(tails, loc) == IF loc \in Range(tails) THEN <<loc>> ELSE tails
SubtractFrom(set, loc) == OrAll(Tails(set, loc), loc)

\* The parts of a location that are in a set.
ExactOnes(parts) == SelectSeq(parts, LAMBDA part : part.verdict = "exact")
Calculated(exact) == [k \in DOMAIN exact |-> exact[k].int]
FindCoveredBy(set, loc) ==
  Calculated(ExactOnes([k \in DOMAIN set |-> IntersectOnly(set[k], loc)]))

\* The intersection of two sets.
Common(set, with) ==
  LET Keep(res, loc) ==
        IF Contain(with, loc) THEN Insert(res, loc)
        ELSE InsertAll(res, FindCoveredBy(with, loc))
  IN FoldLeft(Keep, <<>>, set)

\* The values of a data-flow problem: all memory, or a set.
Full == [full |-> TRUE, locs |-> <<>>]
SetOf(locs) == [full |-> FALSE, locs |-> locs]
Empty == SetOf(<<>>)
IntersectValues(v, with) ==
  IF with.full THEN v
  ELSE IF v.full THEN with
  ELSE SetOf(Common(v.locs, with.locs))
MergeValues(v, with) ==
  IF v.full \/ with.full THEN Full ELSE SetOf(Merge(v.locs, with.locs))
=============================================================================
