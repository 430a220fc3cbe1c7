--------------------------- MODULE MemoryRelation ---------------------------
(***************************************************************************)
(* Memory locations of a function and how they relate: what               *)
(* lib/Analysis/Memory/EstimateMemory.cpp asks of two locations, and how    *)
(* it goes from a location to the larger one it is a part of.               *)
(*                                                                          *)
(* A value is a pointer of the function.  It is `off' bytes after `base',   *)
(* an object or the result of a load from `from'; a getelementptr is        *)
(* derived from `operand' and ranges over an aggregate of `src' bytes (0    *)
(* for pointer arithmetic); `elem' is the size of what it points to, `root' *)
(* is what stripPointer() returns.  Where a loaded pointer may point, as    *)
(* far as the alias analysis knows, is `points'.                            *)
(***************************************************************************)
EXTENDS Integers, FiniteSets, FiniteSetsExt, SequencesExt

CONSTANTS
  Shape,      \* pointers of the function, each with its record
  SizeOf,     \* objects, each with its size
  MaxSize     \* the largest known size

ASSUME SizesAreKnown ==
  /\ MaxSize \in Nat
  /\ \A o \in DOMAIN SizeOf : SizeOf[o] \in 1 .. MaxSize

Values == DOMAIN Shape
Objects == DOMAIN SizeOf
\* LocationSize::afterPointer() and beforeOrAfterPointer(), as sizecmp() orders
\* them: larger than each known size.
AfterPointer == MaxSize + 1
BeforeOrAfter == MaxSize + 2
Known(s) == s <= MaxSize
Bytes(o) == {<<o, i>> : i \in 0 .. SizeOf[o] - 1}

-----------------------------------------------------------------------------
(* The alias analysis *)

\* Addresses a value may hold.
Addresses(points, v) ==
  LET b == Shape[v].base
  IN  IF b \in Objects THEN {<<b, Shape[v].off>>}
      ELSE {<<a[1], a[2] + Shape[v].off>> : a \in points[b]}
\* Bytes of a location at an address; no access leaves its object.
Extent(a, s) ==
  IF s = BeforeOrAfter THEN Bytes(a[1])
  ELSE {byte \in Bytes(a[1]) : byte[2] >= a[2] /\ (Known(s) => byte[2] < a[2] + s)}

SameValue(v, w) == Shape[v].base = Shape[w].base /\ Shape[v].off = Shape[w].off
Alias(points, v, s, w, t) ==
  IF SameValue(v, w) THEN "must"
  ELSE IF Shape[v].base = Shape[w].base
  THEN LET left == IF Shape[v].off < Shape[w].off THEN s ELSE t
           gap == Max({Shape[v].off, Shape[w].off}) - Min({Shape[v].off, Shape[w].off})
       IN  IF BeforeOrAfter \in {s, t} \/ ~Known(left) THEN "may"
           ELSE IF gap < left THEN "partial" ELSE "no"
  ELSE LET A == Addresses(points, v)
           B == Addresses(points, w)
       IN  IF \A a \in A, b \in B : Extent(a, s) \cap Extent(b, t) = {} THEN "no"
           ELSE IF Cardinality(A \cup B) = 1 THEN "must" ELSE "may"

\* AliasTree::isSamePointer(): the list against one more pointer.
SamePointer(points, list, w) ==
  LET answers == {Alias(points, list[k], 1, w, 1) : k \in DOMAIN list}
  IN  IF "must" \in answers THEN "must" ELSE IF "may" \in answers THEN "may" ELSE "no"

-----------------------------------------------------------------------------
(* aliasRelation() *)

\* For two locations.
ExtentOf(alias, v, s, w, t) ==
  LET o == Shape[v].off
      p == Shape[w].off
      compared == IF s = t THEN {"coincide"} ELSE IF s > t THEN {"cover"} ELSE {"contained"}
  IN  CASE alias = "partial" ->
             IF s = t \/ ~Known(s) \/ ~Known(t) THEN {}
             ELSE IF o < p /\ o + s >= p + t THEN {"cover"}
             ELSE IF o > p /\ o + s <= p + t THEN {"contained"} ELSE {}
        [] alias = "must" ->
             IF (Known(s) /\ Known(t)) \/ SameValue(v, w) THEN compared ELSE {}
        [] OTHER -> {}
RelationOf(points, v, s, w, t) ==
  LET alias == Alias(points, v, s, w, t)
  IN  [alias |-> alias, extent |-> ExtentOf(alias, v, s, w, t)]

\* Mutant: what covers one location is taken to cover both.
MergeRelation_Either(L, R) ==
  LET extents == L.extent \cup R.extent
      extent == IF {"contained", "cover"} \subseteq extents THEN {} ELSE extents
  IN  IF L = R THEN L
      ELSE IF L.alias = R.alias THEN [alias |-> L.alias, extent |-> extent]
      ELSE IF {L.alias, R.alias} = {"partial", "must"} THEN [alias |-> "partial", extent |-> extent]
      ELSE [alias |-> "may", extent |-> extent]
\* mergeAliasRelation()
MergeRelation(L, R) ==
  LET extents == L.extent \cup R.extent
      extent == IF {"contained", "cover"} \subseteq extents THEN {} ELSE extents \cap {"coincide"}
  IN  IF L = R THEN L
      ELSE IF L.alias = R.alias THEN [alias |-> L.alias, extent |-> extent]
      ELSE IF {L.alias, R.alias} = {"partial", "must"} THEN [alias |-> "partial", extent |-> extent]
      ELSE [alias |-> "may", extent |-> {}]

\* For the estimate memory of the pointers vs and those of a range of
\* estimate memory <<pointers, size>>: every pair, in the order of the lists.
Merged(relations) == FoldLeft(MergeRelation, relations[1], Tail(relations))
RelationOfLists(points, vs, s, ws, t) ==
  Merged(FlattenSeq([k \in DOMAIN vs |-> [l \in DOMAIN ws |-> RelationOf(points, vs[k], s, ws[l], t)]]))
RelationOfRange(points, vs, s, range) ==
  Merged([k \in DOMAIN range |-> RelationOfLists(points, vs, s, range[k][1], range[k][2])])

-----------------------------------------------------------------------------
(* Levels of memory *)

\* isSameBase() of two values.
SameBase(v, w) ==
  /\ Shape[v].off = Shape[w].off
  /\ \/ Shape[v].base = Shape[w].base
     \/ Shape[v].from # "none" /\ Shape[v].from = Shape[w].from

IsGEP(v) == Shape[v].operand # v
RECURSIVE Underlying(_)
Underlying(v) == IF IsGEP(v) THEN Underlying(Shape[v].operand) ELSE v

\* clarifyUnknownSize(): an unknown size is decreased to the allocated one.
Clarified(v, s) ==
  IF ~Known(s) /\ Shape[v].off = 0 /\ Shape[v].base \in Objects THEN SizeOf[Shape[v].base] ELSE s

\* stripMemoryLevel(): the next larger location, or the same if there is none.
StripLevel(loc) ==
  LET v == loc[1]
      s == loc[2]
      G == Shape[v]
      zero == G.off = Shape[G.operand].off
      size == IF zero /\ G.src > 0 THEN G.src ELSE G.elem
      known == Known(s) /\ size >= s
      within == known /\ G.src > 0 /\ s + G.off - Shape[G.operand].off <= G.src
      below == Underlying(v)
      rest == IF s = BeforeOrAfter THEN BeforeOrAfter ELSE AfterPointer
  IN  IF G.elem > s THEN <<v, Clarified(v, G.elem)>>
      ELSE IF ~IsGEP(v) THEN loc
      ELSE IF zero /\ s < G.src THEN <<v, G.src>>
      ELSE IF within THEN <<G.operand, G.src>>
      ELSE <<below, Clarified(below, rest)>>

\* The first larger location with another base, or the last one.
RECURSIVE StripBase(_, _)
StripBase(v, loc) ==
  LET up == StripLevel(loc)
  IN  IF up = loc \/ ~SameBase(up[1], v) THEN up ELSE StripBase(v, up)
HasOtherBase(loc) == ~SameBase(StripBase(loc[1], loc)[1], loc[1])
=============================================================================
