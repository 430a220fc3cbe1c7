--------------------------- MODULE DefinedRanges ---------------------------
(***************************************************************************)
(* Which parts of an array a region always writes, may write, and reads     *)
(* before writing them: the problem of module DefinedMemory with the ranges *)
(* of array elements that inner loops access in the place of scalars        *)
(* (aggregate() and collapse() of lib/Analysis/Memory/DefinedMemory.cpp).   *)
(* A busy block of the region stands for an inner loop, which reads, then   *)
(* writes.  When the region is collapsed it is run, and what was found is   *)
(* compared with the bytes the run reads and writes.                        *)
(***************************************************************************)
EXTENDS DFRegionInfo, MemorySet

CONSTANTS
  SomeRegions,  \* regions to analyse: graph, region, busy blocks, back edges taken
  Arrays,       \* arrays: the sizes of their dimensions, and accesses to them
  ElemSize      \* bytes of an element

VARIABLES
  prog,      \* the region, the dimensions of the array, the accesses of busy blocks
  vals,      \* values before and after the nodes that are visited
  du,        \* DefUseSet of the region, when it is collapsed
  at,        \* the block the run is at
  now,       \* bytes written in the iteration that is run
  ever,      \* bytes written since the region was entered
  taken      \* back edges taken

vars == <<prog, vals, du, at, now, ever, taken>>

Idle == 0
Left == -1
g == prog.region.graph
r == prog.region.loop
Total == ElemSize * FoldLeft(LAMBDA n, size : n * size, 1, prog.sizes)

-----------------------------------------------------------------------------
(* Accesses of inner loops, and the locations that stand for them. *)

\* The values a subscript has in the body of its loop, and in its header,
\* which is run once more unless the condition is tested after the body.
Values(sub) == {sub.start + sub.step * k : k \in 0 .. sub.runs - 1}
HeaderRuns(sub) == IF sub.tested = "before" THEN sub.runs + 1 ELSE sub.runs
HeaderValues(sub) == {sub.start + sub.step * k : k \in 0 .. HeaderRuns(sub) - 1}
Magnitude(n) == IF n < 0 THEN -n ELSE n

\* A dimension of an aggregated location: from the least value scalar
\* evolution knows of the subscript, in as many steps as the header is run
\* but one.
AggregateDim(sub, size) ==
  IF sub.step = 0 THEN [start |-> sub.start, step |-> 1, trips |-> 1, size |-> size]
  ELSE [start |-> Min(HeaderValues(sub)), step |-> Magnitude(sub.step),
        trips |-> HeaderRuns(sub) - 1, size |-> size]
\* The others are left at the address of the element, another pointer.
Aggregated(a, sizes) ==
  \A i \in DOMAIN sizes :
    a.subs[i].step # 0 =>
      LET dim == AggregateDim(a.subs[i], sizes[i])
      IN /\ HeaderRuns(a.subs[i]) > 1
         /\ dim.start >= 0
         /\ i # 1 => Ends(dim) < dim.size
Aggregate(a, sizes) ==
  IF a.kind # "elements" THEN [kind |-> a.kind, lower |-> a.lower, upper |-> a.upper, dims |-> <<>>]
  ELSE [kind |-> "collapsed", lower |-> 0, upper |-> ElemSize,
        dims |-> [i \in DOMAIN sizes |-> AggregateDim(a.subs[i], sizes[i])]]

\* The bytes of an element, of what is accessed and of locations.
BytesOf(index) ==
  LET n == FoldLeft(LAMBDA k, i : k * prog.sizes[i] + index[i], 0,
                    [i \in DOMAIN index |-> i])
  IN n * ElemSize .. (n + 1) * ElemSize - 1
Indices(choices) ==
  {index \in [DOMAIN choices -> UNION {choices[i] : i \in DOMAIN choices}] :
     \A i \in DOMAIN choices : index[i] \in choices[i]}
ByteRange(lower, upper) == lower .. (IF upper = Unknown THEN Total ELSE upper) - 1
Touched(a) ==
  IF a.kind = "elements"
  THEN UNION {BytesOf(index) : index \in Indices([i \in DOMAIN a.subs |-> Values(a.subs[i])])}
  ELSE ByteRange(a.lower, a.upper)
Points(dim) == {dim.start + dim.step * k : k \in 0 .. dim.trips - 1}
BytesIn(loc) ==
  IF Collapsed(loc)
  THEN UNION {BytesOf(index) : index \in Indices([i \in DOMAIN loc.dims |-> Points(loc.dims[i])])}
  ELSE ByteRange(loc.lower, loc.upper)
Bytes(locs) == UNION {BytesIn(locs[k]) : k \in DOMAIN locs}
Idles == [defs |-> {}, mayDefs |-> {}, uses |-> {}]
Accesses(b) == IF b \in prog.region.busy THEN prog.accesses[b] ELSE Idles
Writes(b) == UNION {Touched(a) : a \in Accesses(b).defs}
MayWrites(b) == UNION {Touched(a) : a \in Accesses(b).mayDefs}
Reads(b) == UNION {Touched(a) : a \in Accesses(b).uses}

\* The sets of a block.
Located(accesses) == InsertAll(<<>>, SetToSeq({Aggregate(a, prog.sizes) : a \in accesses}))
DefUse(b) ==
  [defs |-> Located(Accesses(b).defs),
   mayDefs |-> Located(Accesses(b).mayDefs),
   uses |-> Located(Accesses(b).uses)]

-----------------------------------------------------------------------------
(* The data-flow problem of the region. *)

TopElement == [must |-> Full, may |-> Empty]
BoundaryCondition == [must |-> Empty, may |-> Empty]
Meet(value, next) ==
  [must |-> IntersectValues(value.must, next.must),
   may |-> MergeValues(value.may, next.may)]
Transfer(n, in) ==
  IF n[1] # "block" THEN in
  ELSE LET sets == DefUse(n[2])
       IN [must |-> MergeValues(SetOf(InsertAll(<<>>, sets.defs)), in.must),
           may |-> MergeValues(SetOf(InsertAll(InsertAll(<<>>, sets.defs), sets.mayDefs)),
                               in.may)]

Init ==
  /\ prog \in UNION {[region : {region}, sizes : {array.sizes},
                      accesses : [region.busy -> array.accesses]] :
                       region \in SomeRegions, array \in Arrays}
  /\ vals = << >> /\ du = << >>
  /\ at = Idle /\ now = {} /\ ever = {} /\ taken = 0

\* transferFunction(), called for each node after those it comes from; their
\* values are met in some order.
Visit(n) ==
  LET preds == Predecessors(Edges(g, r), n)
  IN /\ n \notin DOMAIN vals /\ preds \subseteq DOMAIN vals
     /\ \E order \in SetToSeqs(preds) :
          LET in == FoldLeft(LAMBDA v, p : Meet(v, vals[p].out), TopElement, order)
              out == IF n = EntryNode(r) THEN BoundaryCondition ELSE Transfer(n, in)
          IN vals' = vals @@ (n :> [in |-> in, out |-> out])
     /\ UNCHANGED <<prog, du, at, now, ever, taken>>
Ready == CHOOSE n \in Nodes(g, r) \ DOMAIN vals :
           Predecessors(Edges(g, r), n) \subseteq DOMAIN vals
Solve == DOMAIN vals # Nodes(g, r) /\ Visit(Ready)

HasTrips == r # Fn /\ prog.region.trips # Unknown
ReachesExit == vals[ExitNode(r)].out.must
ReachesLatch == vals[LatchNode(r)].out.must
PartsIn(value, loc) == IF value.full THEN <<loc>> ELSE FindCoveredBy(value.locs, loc)
\* The parts of the definitions of a node that reach the exit, or the latch,
\* are definitions of the region; one with no such part may be a definition.
CollapseDef(sets, parts, loc) ==
  IF parts # <<>> THEN [sets EXCEPT !.defs = InsertAll(@, parts)]
  ELSE [sets EXCEPT !.mayDefs = Insert(@, loc)]
CollapseDefs(sets, loc) ==
  LET latched == IF HasTrips THEN CollapseDef(sets, PartsIn(ReachesLatch, loc), loc) ELSE sets
  IN CollapseDef(latched, PartsIn(ReachesExit, loc), loc)
\* Uses of a node that no definition before it covers are uses of the region.
CollapseUses(n, uses) ==
  LET must == vals[n].in.must
      Exposed(loc) == IF must.full THEN <<loc>> ELSE SubtractFrom(must.locs, loc)
  IN FlattenSeq([k \in DOMAIN uses |-> Exposed(uses[k])])
Nothing == [defs |-> <<>>, mayDefs |-> <<>>, uses |-> <<>>]
AddNode(sets, found, own, uses) ==
  [defs |-> InsertAll(sets.defs, found.defs),
   mayDefs |-> InsertAll(sets.mayDefs, InsertAll(found.mayDefs, own.mayDefs)),
   uses |-> InsertAll(sets.uses, uses)]
CollapseNode(sets, b) ==
  LET own == DefUse(b)
  IN AddNode(sets, FoldLeft(CollapseDefs, Nothing, own.defs), own,
             CollapseUses(BlockNode(b), own.uses))
Collapse ==
  /\ du = << >> /\ DOMAIN vals = Nodes(g, r)
  /\ LET order == SetToSortSeq(Body(g, r), LAMBDA a, b : a < b)
     IN du' = FoldLeft(CollapseNode, Nothing, order)
  /\ UNCHANGED <<prog, vals, at, now, ever, taken>>

-----------------------------------------------------------------------------
(* The run of the region. *)

Enter ==
  /\ du # << >> /\ at = Idle
  /\ at' = Header(g, r)
  /\ UNCHANGED <<prog, vals, du, now, ever, taken>>
\* A known number of back edges is taken exactly, another one at most once.
MayGo(s) ==
  LET again == s = Header(g, r)
      inside == s \in Body(g, r)
  IN IF prog.region.trips = Unknown THEN again => taken = 0
     ELSE at \in Exiting(g, r) => (inside <=> taken < prog.region.trips)
Written == {Writes(at), Writes(at) \cup MayWrites(at)}
Go(s) ==
  /\ at > 0 /\ s \in g.succ[at] \cap Body(g, r) /\ MayGo(s)
  /\ at' = s
  /\ \E w \in Written :
       /\ now' = IF s = Header(g, r) THEN {} ELSE now \cup w
       /\ ever' = ever \cup w
  /\ taken' = IF s = Header(g, r) THEN taken + 1 ELSE taken
  /\ UNCHANGED <<prog, vals, du>>
Leave ==
  /\ at \in Exiting(g, r)
  /\ g.succ[at] = {} \/ \E s \in g.succ[at] \ Body(g, r) : MayGo(s)
  /\ at' = Left
  /\ \E w \in Written : now' = now \cup w /\ ever' = ever \cup w
  /\ UNCHANGED <<prog, vals, du, taken>>
Branch == at > 0 /\ \E s \in g.succ[at] : Go(s)

Next == Solve \/ Collapse \/ Enter \/ Branch \/ Leave
Spec == Init /\ [][Next]_vars

-----------------------------------------------------------------------------
Value(n) == IF n \in DOMAIN vals THEN vals[n] ELSE [in |-> BoundaryCondition, out |-> BoundaryCondition]

\* What must reach a node, as ranges joined, met and cut along every way to
\* it, has been written in the iteration when the node is run; and what
\* collapse() says the region always defines is written when it is left.
RangesAlwaysWritten ==
  /\ at > 0 => Bytes(Value(BlockNode(at)).in.must.locs) \subseteq now
  /\ at = Left => Bytes(du.defs) \subseteq ever

\* Whatever is written before a node is run, in the iteration, may reach it.
RangesMayReach ==
  at > 0 => now \subseteq Bytes(Value(BlockNode(at)).in.may.locs)

\* The uses of the region hold each byte a node reads that is not written
\* before it in the same iteration, whatever definitions overlap with what
\* it reads.
RangesCoverReads ==
  at > 0 => Reads(at) \ now \subseteq Bytes(du.uses)

\* Whatever is written while the region is run is among its definitions, must
\* or may.
RangesAreKnown ==
  at = Left => ever \subseteq Bytes(du.defs) \cup Bytes(du.mayDefs)

\* If intersect() finds none for a location that must reach a node and one
\* that is used there, they have no byte in common; a location it returns has
\* the common bytes, and the pieces it leaves have all others.
IntersectionIsExact(l, loc, i) ==
  CASE i.verdict = "none" -> BytesIn(l) \cap BytesIn(loc) = {}
    [] i.verdict = "unknown" -> TRUE
    [] i.verdict = "exact" ->
         /\ BytesIn(i.int) = BytesIn(l) \cap BytesIn(loc)
         /\ Bytes(i.rest) = BytesIn(loc) \ BytesIn(l)
IntersectionsAreExact ==
  at > 0 =>
    LET must == Value(BlockNode(at)).in.must.locs
        uses == DefUse(at).uses
    IN \A k \in DOMAIN must : \A j \in DOMAIN uses :
         IntersectionIsExact(must[k], uses[j], Intersect(must[k], uses[j]))
=============================================================================
