----------------------------- MODULE AliasTree -----------------------------
(***************************************************************************)
(* AliasTree (lib/Analysis/Memory/EstimateMemory.cpp): the memory of a      *)
(* function as a tree.  Each accessed location is added together with the   *)
(* larger ones it is a part of; locations that start at the same point form *)
(* a chain, which shares a list of the pointers that may refer to it, and   *)
(* locations that may overlap share an alias node unless one of them covers *)
(* the other.  Calls that access unknown memory have nodes of their own.    *)
(*                                                                          *)
(* A node that was merged into another one stays in `tree' with the kind    *)
(* "forwarding"; who refers to it refers to its target (getAliasNode() and  *)
(* getParent() follow the reference), so only the target holds its memory.  *)
(***************************************************************************)
EXTENDS MemoryRelation

CONSTANTS
  Locations,   \* locations the function accesses, <<value, size>>
  Calls,       \* calls, each with the objects it may access
  PointsTo,    \* what the alias analysis may know of the loaded pointers
  MaxAdds      \* the number of accesses of a function

VARIABLES
  points,   \* what the alias analysis knows
  est,      \* estimate memory: [mem, lists, bases]
  tree,     \* alias nodes, the first is the top level one
  added,    \* locations that have been added
  base,     \* the location add() is about to insert, or NoLocation
  last,     \* PrevChainEnd of add(), 0 if there is none
  failed    \* the assertion that does not hold

vars == <<points, est, tree, added, base, last, failed>>

NoLocation == <<>>
Top == 1
Roots == {Shape[v].root : v \in Values}
Live(T) == {n \in DOMAIN T : T[n].kind # "forwarding"}

-----------------------------------------------------------------------------
(* Estimate memory *)

Pointers(M, e) == M.lists[M.mem[e].list]
SameList(M, e, f) == M.mem[e].list = M.mem[f].list
MemParent(M, e) ==
  LET P == {f \in DOMAIN M.mem : Contains(M.mem[f].kids, e)}
  IN  IF P = {} THEN 0 ELSE CHOOSE f \in P : TRUE
\* getNext() and getPrev() of a chain: larger and smaller memory.
Larger(M, e) ==
  LET p == MemParent(M, e) IN IF p # 0 /\ SameList(M, e, p) THEN p ELSE 0
Smaller(M, e) ==
  LET kids == M.mem[e].kids
  IN  IF kids # <<>> /\ SameList(M, e, kids[1]) THEN kids[1] ELSE 0
RECURSIVE ChainFrom(_, _), ChainBegin(_, _)
ChainFrom(M, e) == IF e = 0 THEN <<>> ELSE <<e>> \o ChainFrom(M, Larger(M, e))
ChainBegin(M, e) == IF Smaller(M, e) = 0 THEN e ELSE ChainBegin(M, Smaller(M, e))

WithKids(M, e, kids) == [M EXCEPT !.mem[e].kids = kids]
\* Chain<EstimateMemory, Hierarchy>::mergeNext()
MergeNext(M, e, next) ==
  LET p == MemParent(M, e)
      N == IF p = 0 THEN M ELSE WithKids(M, p, Remove(M.mem[p].kids, e))
  IN  IF p = next THEN M ELSE WithKids(N, next, Append(N.mem[next].kids, e))
\* spliceNext() of a new location.
SpliceNext(M, e, new) ==
  LET p == MemParent(M, e)
      N == IF p = 0 THEN M
           ELSE WithKids(M, p, Append(Remove(M.mem[p].kids, e), new))
  IN  WithKids(N, new, <<e>>)
\* Mutant: the new location becomes the larger one.
SplicePrev_Next(M, e, new) == SpliceNext(M, e, new)
\* splicePrev() of a new location.
SplicePrev(M, e, new) ==
  LET kids == M.mem[e].kids
      same == {k \in DOMAIN kids : SameList(M, kids[k], new)}
      k == Min(same)
  IN  IF same = {} THEN WithKids(M, e, Append(kids, new))
      ELSE WithKids(WithKids(M, e, [kids EXCEPT ![k] = new]), new, <<kids[k]>>)

NewMemory(M, list, size) ==
  [M EXCEPT !.mem = Append(@, [list |-> list, size |-> size, kids |-> <<>>])]

\* May a location be put in a chain that ends with prev: the larger locations
\* both are parts of have to agree, exactly if the location would be the last.
LargerAgree(M, prev, parent, up, inside) ==
  IF parent = 0 THEN M.mem[prev].size <= up[2]
  ELSE /\ SameBase(Pointers(M, parent)[1], up[1])
       /\ M.mem[parent].size >= up[2]
       /\ M.mem[parent].size > up[2] => inside
Fits(M, prev, inside, loc) ==
  HasOtherBase(loc) =>
    LargerAgree(M, prev, MemParent(M, prev), StripBase(loc[1], loc), inside)

\* The smallest memory of a chain that is not smaller than a location, or 0.
NotSmaller(M, chain, size) ==
  LET larger == {c \in DOMAIN chain : size <= M.mem[chain[c]].size}
  IN  IF larger = {} THEN 0 ELSE chain[Min(larger)]
\* New memory e, before `update' in its chain, or after `prev' if there is none.
Spliced(M, e, prev, update) ==
  IF update = 0 THEN SpliceNext(M, prev, e) ELSE SplicePrev(M, update, e)
Rebased(M, root, old, new) ==
  [M EXCEPT !.bases[root] = [k \in DOMAIN @ |-> IF @[k] = old THEN new ELSE @[k]]]

\* A location in the chain of M whose elements are known, if it fits there.
InsertBeside(acc, M, first, prev, update, loc, ambiguous) ==
  LET e == Len(M.mem) + 1
      N == Spliced(NewMemory(M, M.mem[first].list, loc[2]), e, prev, update)
  IN  IF ~Fits(M, prev, update # 0, loc) THEN [acc EXCEPT !.M = M]
      ELSE IF update # 0 /\ M.mem[update].size = loc[2]
      THEN [M |-> M, em |-> update, new |-> FALSE, ambiguous |-> ambiguous]
      ELSE [M |-> IF update = first THEN Rebased(N, Shape[loc[1]].root, first, e) ELSE N,
            em |-> e, new |-> TRUE, ambiguous |-> ambiguous]
\* The chain that starts with memory `first', if the location belongs there.
InsertInChain(acc, first, loc) ==
  LET list == acc.M.mem[first].list
      same == SamePointer(points, acc.M.lists[list], loc[1])
      M == IF same = "may" THEN [acc.M EXCEPT !.lists[list] = Append(@, loc[1])] ELSE acc.M
      chain == ChainFrom(M, first)
  IN  IF acc.em # 0 \/ ~SameBase(acc.M.lists[list][1], loc[1]) \/ same = "no" THEN acc
      ELSE InsertBeside(acc, M, first, chain[Len(chain)], NotSmaller(M, chain, loc[2]), loc,
                        same = "may")

\* A new chain, if the location belongs to none.
OrNewChain(found, loc) ==
  LET N == NewMemory([found.M EXCEPT !.lists = Append(@, <<loc[1]>>)],
                     Len(found.M.lists) + 1, loc[2])
  IN  IF found.em # 0 THEN found
      ELSE [M |-> [N EXCEPT !.bases[Shape[loc[1]].root] = Append(@, Len(N.mem))],
            em |-> Len(N.mem), new |-> TRUE, ambiguous |-> FALSE]
\* AliasTree::insert()
Insert(M, loc) ==
  OrNewChain(FoldLeft(LAMBDA acc, first : InsertInChain(acc, first, loc),
                      [M |-> M, em |-> 0, new |-> FALSE, ambiguous |-> FALSE],
                      M.bases[Shape[loc[1]].root]),
             loc)

-----------------------------------------------------------------------------
(* Alias nodes *)

NodeParent(T, n) ==
  LET P == {m \in DOMAIN T : Contains(T[m].kids, n)}
  IN  IF P = {} THEN 0 ELSE CHOOSE m \in P : TRUE
NodeOf(T, e) ==
  LET N == {n \in DOMAIN T : Contains(T[n].ems, e)}
  IN  IF N = {} THEN 0 ELSE CHOOSE n \in N : TRUE

Unlinked(T, n) ==
  [m \in DOMAIN T |-> [T[m] EXCEPT !.kids = Remove(@, n)]]
SetParent(T, n, p) == [Unlinked(T, n) EXCEPT ![p].kids = Append(@, n)]
\* make_node()
NewNode(T, kind, p) ==
  SetParent(Append(T, [kind |-> kind, kids |-> <<>>, ems |-> <<>>, calls |-> {}]), Len(T) + 1, p)
\* mergeNodeIn(): n becomes a part of `into'.
MergeIn(T, into, n) ==
  [Unlinked(T, n) EXCEPT
     ![into] = [@ EXCEPT !.kids = Remove(@, n) \o T[n].kids,
                         !.ems = @ \o T[n].ems, !.calls = @ \cup T[n].calls],
     ![n] = [kind |-> "forwarding", kids |-> <<>>, ems |-> <<>>, calls |-> {}]]

MayAlias(M, e, f) ==
  \E v \in Range(Pointers(M, e)), w \in Range(Pointers(M, f)) :
    Alias(points, v, M.mem[e].size, w, M.mem[f].size) # "no"
\* AAResults::getModRefInfo() of a call and a memory.
CallMayAccess(M, c, e) ==
  \E v \in Range(Pointers(M, e)) :
    \E a \in Addresses(points, v) : a[1] \in Calls[c] /\ Extent(a, M.mem[e].size) # {}
CallsMayConflict(c, d) == Calls[c] \cap Calls[d] # {}

\* slowMayAlias(), the memory it finds, and what addEmptyNode() asks of a child.
Aliased(T, M, n, e) == SelectSeq(T[n].ems, LAMBDA f : MayAlias(M, f, e))
SlowMayAlias(T, M, n, e) ==
  IF T[n].kind = "unknown" THEN \E c \in T[n].calls : CallMayAccess(M, c, e)
  ELSE Aliased(T, M, n, e) # <<>>
ChildMayAlias(T, M, n, e) ==
  \/ SlowMayAlias(T, M, n, e)
  \/ T[n].kind = "unknown" /\ \E k \in Range(T[n].kids) : SlowMayAlias(T, M, k, e)

RelationToNode(T, M, e, n, from) ==
  LET ems == SubSeq(T[n].ems, from, Len(T[n].ems))
  IN  RelationOfRange(points, Pointers(M, e), M.mem[e].size,
        [k \in DOMAIN ems |-> <<Pointers(M, ems[k]), M.mem[ems[k]].size>>])
\* A single alias: the locations before the first that may alias do not count.
RelationToAlias(T, M, e, n) ==
  RelationToNode(T, M, e, n, SelectInSeq(T[n].ems, LAMBDA f : MayAlias(M, f, e)))
CoversAll(T, M, e, n) ==
  /\ T[n].kind = "estimate"
  /\ LET extent == RelationToNode(T, M, e, n, 1).extent
     IN  "cover" \in extent \/ extent = {"coincide"}

\* The place of memory: in a node, or below it.
Here(T, n) == [tree |-> T, node |-> n, descend |-> FALSE]
Lower(T, n) == [tree |-> T, node |-> n, descend |-> TRUE]

\* Nodes of the same kind are merged, estimate ones go below unknown ones.
Nested(merged) ==
  LET T == merged.tree
      both == {merged.current, merged.opposite}
      estimate == CHOOSE n \in both : T[n].kind = "estimate"
      unknown == CHOOSE n \in both : T[n].kind = "unknown"
  IN  IF merged.opposite # 0 THEN Here(SetParent(T, estimate, unknown), estimate)
      ELSE IF T[merged.current].kind = "unknown" THEN Lower(T, merged.current)
      ELSE Here(T, merged.current)
MergeAliases(T, aliases) ==
  LET Visit(acc, n) ==
        IF T[n].kind = T[acc.current].kind
        THEN [acc EXCEPT !.tree = MergeIn(@, acc.current, n)]
        ELSE IF acc.opposite # 0
        THEN [acc EXCEPT !.tree = MergeIn(@, acc.opposite, n)]
        ELSE [acc EXCEPT !.opposite = n]
  IN  Nested(FoldLeft(Visit, [tree |-> T, current |-> aliases[1], opposite |-> 0], Tail(aliases)))

\* addEmptyNode(): the node for memory e below node `current', some children of
\* which it may alias, or the one to descend to.
PlaceAmong(T, M, e, current, aliases) ==
  LET new == NewNode(T, "estimate", current)
      above == Here(FoldLeft(LAMBDA t, n : SetParent(t, n, Len(new)), new, aliases), Len(new))
      n == aliases[1]
      extent == RelationToAlias(T, M, e, n).extent
  IN  IF \E k \in Range(M.mem[e].kids) : NodeOf(T, k) = current
      THEN Here(T, current)
      ELSE IF aliases = <<>> THEN above
      ELSE IF Len(aliases) = 1
      THEN IF T[n].kind = "unknown" THEN Lower(T, n)
           ELSE IF "cover" \in extent THEN above
           ELSE IF "contained" \in extent THEN Lower(T, n)
           ELSE Here(T, n)
      ELSE IF \A a \in Range(aliases) : CoversAll(T, M, e, a) THEN above
      ELSE MergeAliases(T, aliases)
PlaceBelow(T, M, e, current) ==
  PlaceAmong(T, M, e, current,
             SelectSeq(T[current].kids, LAMBDA n : ChildMayAlias(T, M, n, e)))
RECURSIVE Descend(_, _, _)
Descend(place, M, e) ==
  IF place.descend THEN Descend(PlaceBelow(place.tree, M, e, place.node), M, e) ELSE place
AddEmptyNode(T, M, e, current) == Descend(Lower(T, current), M, e)

SetAliasNode(T, e, n) == [T EXCEPT ![n].ems = Append(@, e)]

\* A node whose memory is referred to by one more pointer is merged with its
\* parents up to the node the memory belongs to now.  A node below an unknown
\* one, if that is not the place, moves out of it, beside it: what follows is an
\* attempt to merge it with the top level node, so what add() does afterwards
\* with the unknown nodes it has collected is never reached.
RECURSIVE MergeUp(_, _, _, _)
MergeUp(T, forward, node, UnknownNodes) ==
  LET parent == NodeParent(T, forward)
  IN  IF forward = node THEN [tree |-> T, failed |-> ""]
      ELSE IF parent = 0 THEN [tree |-> T, failed |-> "parent"]
      ELSE CASE T[parent].kind = "unknown" ->
                  MergeUp(SetParent(T, forward, NodeParent(T, parent)), forward, node,
                          UnknownNodes \cup {parent})
             [] T[parent].kind = "top" ->
                  [tree |-> T, failed |-> IF UnknownNodes = {} THEN "kind" ELSE "unknown"]
             [] OTHER -> MergeUp(MergeIn(T, parent, forward), parent, node, UnknownNodes)

\* One location of a chain with one more pointer.
MergeUpTo(place, e) == MergeUp(place.tree, NodeOf(place.tree, e), place.node, {})
Reinsert(acc, M, e) ==
  IF acc.failed # "" THEN acc ELSE MergeUpTo(AddEmptyNode(acc.tree, M, e, Top), e)

Filled(place, e) == [tree |-> SetAliasNode(place.tree, e, place.node), failed |-> ""]
PlaceNew(T, M, e) ==
  LET start == IF Larger(M, e) = 0 THEN Top ELSE NodeOf(T, Larger(M, e))
  IN  Filled(AddEmptyNode(T, M, e, start), e)
PlaceFirst(T, M, e, new) ==
  IF new THEN Filled(AddEmptyNode(T, M, e, Top), e) ELSE [tree |-> T, failed |-> ""]
\* Mutant: one more pointer is regarded for one location of the chain only.
PlaceAmbiguous_One(T, M, e, new) == Reinsert(PlaceFirst(T, M, e, new), M, e)
PlaceAmbiguous(T, M, e, new) ==
  FoldLeft(LAMBDA acc, f : Reinsert(acc, M, f), PlaceFirst(T, M, e, new),
           ChainFrom(M, ChainBegin(M, e)))

-----------------------------------------------------------------------------
Init ==
  /\ points \in PointsTo
  /\ est = [mem |-> <<>>, lists |-> <<>>, bases |-> [r \in Roots |-> <<>>]]
  /\ tree = <<[kind |-> "top", kids |-> <<>>, ems |-> <<>>, calls |-> {}]>>
  /\ added = {}
  /\ base = NoLocation
  /\ last = 0
  /\ failed = ""

CallsIn(T) == UNION {T[n].calls : n \in DOMAIN T}
Idle == base = NoLocation /\ failed = ""
Ready == Idle /\ Cardinality(added) + Cardinality(CallsIn(tree)) < MaxAdds

\* AliasTree::add() up to its loop.
Add(loc) ==
  /\ Ready
  /\ loc \notin added
  /\ added' = added \cup {loc}
  /\ base' = <<loc[1], Clarified(loc[1], loc[2])>>
  /\ last' = 0
  /\ UNCHANGED <<points, est, tree, failed>>

NextLevel == IF StripLevel(base) = base THEN NoLocation ELSE StripLevel(base)

\* An iteration of add(): a level of memory is inserted, made the larger memory
\* of the level before, and given its alias node.
PlaceLevel(inserted, M, consistent) ==
  LET e == inserted.em
      chain == ChainFrom(M, e)
  IN  \/ /\ ~inserted.new /\ ~inserted.ambiguous
         /\ base' = IF last = e THEN NextLevel ELSE NoLocation
         /\ failed' = IF consistent THEN "" ELSE "inconsistent parent"
         /\ UNCHANGED <<tree, last>>
      \/ /\ inserted.new \/ inserted.ambiguous
         /\ base' = NextLevel
         /\ last' = chain[Len(chain)]
         /\ \E placed \in {IF inserted.ambiguous THEN PlaceAmbiguous(tree, M, e, inserted.new)
                           ELSE PlaceNew(tree, M, e)} :
              /\ tree' = placed.tree
              /\ failed' = IF consistent THEN placed.failed ELSE "inconsistent parent"
AddLevel ==
  /\ base # NoLocation
  /\ failed = ""
  /\ \E inserted \in {Insert(est, base)} :
       LET merges == last # 0 /\ ~SameList(inserted.M, last, inserted.em)
           consistent == merges => MemParent(inserted.M, last) \in {0, inserted.em}
       IN  /\ est' = IF merges THEN MergeNext(inserted.M, last, inserted.em) ELSE inserted.M
           /\ PlaceLevel(inserted, est', consistent)
  /\ UNCHANGED <<points, added>>

\* Mutant: the memory a call may access stays where it is.
AddUnknown_Beside(c) ==
  /\ Ready
  /\ c \notin CallsIn(tree)
  /\ LET unknown == SelectSeq(tree[Top].kids, LAMBDA n :
           tree[n].kind = "unknown" /\ \E d \in tree[n].calls : CallsMayConflict(c, d))
         n == IF unknown = <<>> THEN Len(tree) + 1 ELSE unknown[1]
         merged == IF unknown = <<>> THEN NewNode(tree, "unknown", Top)
                   ELSE FoldLeft(LAMBDA t, m : MergeIn(t, n, m), tree, Tail(unknown))
     IN  tree' = [merged EXCEPT ![n].calls = @ \cup {c}]
  /\ UNCHANGED <<points, est, added, base, last, failed>>

\* AliasTree::addUnknown()
AddUnknown(c) ==
  /\ Ready
  /\ c \notin CallsIn(tree)
  /\ LET unknown == SelectSeq(tree[Top].kids, LAMBDA n :
           tree[n].kind = "unknown" /\ \E d \in tree[n].calls : CallsMayConflict(c, d))
         estimate == SelectSeq(tree[Top].kids, LAMBDA n :
           tree[n].kind = "estimate" /\ \E e \in Range(tree[n].ems) : CallMayAccess(est, c, e))
         n == IF unknown = <<>> THEN Len(tree) + 1 ELSE unknown[1]
         merged == IF unknown = <<>> THEN NewNode(tree, "unknown", Top)
                   ELSE FoldLeft(LAMBDA t, m : MergeIn(t, n, m), tree, Tail(unknown))
         below == FoldLeft(LAMBDA t, m : SetParent(t, m, n), merged, estimate)
     IN  tree' = [below EXCEPT ![n].calls = @ \cup {c}]
  /\ UNCHANGED <<points, est, added, base, last, failed>>

Next ==
  \/ \E loc \in Locations : Add(loc)
  \/ AddLevel
  \/ \E c \in DOMAIN Calls : AddUnknown(c)

Spec == Init /\ [][Next]_vars

-----------------------------------------------------------------------------
(* AliasTree::find() *)

\* Mutant: the size of the location is not regarded.
SmallestIn_First(M, first, loc) == [em |-> first, fits |-> TRUE]
\* The smallest memory of a chain that covers a location, and whether the
\* larger levels of both agree.
SmallestIn(M, first, loc) ==
  LET chain == ChainFrom(M, first)
      larger == SelectSeq(chain, LAMBDA e : loc[2] <= M.mem[e].size)
      prev == chain[Len(chain)]
  IN  [em |-> IF larger = <<>> THEN 0 ELSE larger[1],
       fits |-> Fits(M, prev, larger # <<prev>>, loc)]
\* The first memory found in a chain that fits, otherwise in any chain.
Best(results) ==
  LET fitting == SelectSeq(results, LAMBDA r : r.fits)
  IN  IF results = <<>> THEN 0 ELSE IF fitting # <<>> THEN fitting[1].em ELSE results[1].em
Find(M, location) ==
  LET loc == <<location[1], Clarified(location[1], location[2])>>
      same(e) == SamePointer(points, Pointers(M, e), loc[1])
      bl == SelectSeq(M.bases[Shape[loc[1]].root], LAMBDA e :
              SameBase(Pointers(M, e)[1], loc[1]) /\ same(e) # "no")
  IN  Best(SelectSeq([k \in DOMAIN bl |-> SmallestIn(M, bl[k], loc)], LAMBDA r : r.em # 0))
\* What llvm_unreachable() in find() excludes.
Reaches(M, location) ==
  \E e \in Range(M.bases[Shape[location[1]].root]) :
    /\ SameBase(Pointers(M, e)[1], location[1])
    /\ SamePointer(points, Pointers(M, e), location[1]) = "may"

-----------------------------------------------------------------------------
(* Properties of the tree between two calls *)

\* Where the pointers really point in a run of the function.
Runs == {r \in [DOMAIN points -> UNION Range(points)] : \A p \in DOMAIN points : r[p] \in points[p]}
Address(r, v) ==
  LET b == Shape[v].base
  IN  IF b \in Objects THEN <<b, Shape[v].off>> ELSE <<r[b][1], r[b][2] + Shape[v].off>>
Memory(r, e) == UNION {Extent(Address(r, v), est.mem[e].size) : v \in Range(Pointers(est, e))}
NodeMemory(r, n) ==
  UNION ({Memory(r, e) : e \in Range(tree[n].ems)}
         \cup {Bytes(o) : o \in UNION {Calls[c] : c \in tree[n].calls}})
RECURSIVE Below(_)
Below(n) == {n} \cup UNION {Below(k) : k \in Range(tree[n].kids)}
MemoryBelow(r, n) == UNION {NodeMemory(r, m) : m \in Below(n)}
RECURSIVE MemoryAncestors(_)
MemoryAncestors(e) ==
  LET p == MemParent(est, e) IN IF p = 0 THEN {} ELSE {p} \cup MemoryAncestors(p)

\* What two siblings must not share: all the memory of the nodes and below them,
\* but of two unknown nodes only the memory of the calls and that of the
\* children.  addUnknown() asks the calls of an unknown node and not its children
\* whether a call accesses their memory, so a call may get a node beside the one
\* below which some of its memory is.
KidsMemory(r, n) == UNION {MemoryBelow(r, k) : k \in Range(tree[n].kids)}
Apart(r, a, b) ==
  IF tree[a].kind = "unknown" /\ tree[b].kind = "unknown"
  THEN /\ NodeMemory(r, a) \cap NodeMemory(r, b) = {}
       /\ KidsMemory(r, a) \cap KidsMemory(r, b) = {}
  ELSE MemoryBelow(r, a) \cap MemoryBelow(r, b) = {}
\* A node whose children nothing is put beside unseen.  addEmptyNode() moves a
\* node below an unknown one without asking the children there, and there are
\* such nodes beside an unknown node only if a call does not access all objects.
Sorted(n) == \A c \in tree[n].calls : Calls[c] = Objects

\* Whatever the pointers point to, the memory of a node and the nodes below it
\* is disjoint from the one of its siblings (EstimateMemory.h:22), but for what
\* Apart and Sorted leave out next to calls that do not access all objects.
\* Clients ask for_each_alias() only for ancestors and descendants of a node.
SiblingsDisjoint ==
  Idle => \A r \in Runs : \A n \in {m \in Live(tree) : Sorted(m)} :
            \A a, b \in Range(tree[n].kids) : a # b => Apart(r, a, b)

\* The memory of an estimate node covers the one of its children
\* (EstimateMemory.h:23).
ParentsCover ==
  Idle => \A r \in Runs : \A n \in Live(tree) :
            tree[n].kind = "estimate" => MemoryBelow(r, n) = NodeMemory(r, n)

\* The larger memory a location is a part of covers it, and in a chain it is
\* strictly larger (EstimateMemory.h:381-392).
LargerCovers ==
  Idle => \A e, f \in DOMAIN est.mem : MemParent(est, e) = f =>
            /\ SameList(est, e, f) => est.mem[e].size < est.mem[f].size
            /\ \A r \in Runs : Memory(r, e) \subseteq Memory(r, f)

\* find() knows each location that was added, and what it finds covers it.
Covered(loc, e) ==
  e # 0 /\ \A r \in Runs : Extent(Address(r, loc[1]), loc[2]) \subseteq Memory(r, e)
FindCovers ==
  Idle => \A loc \in added : ~Reaches(est, loc) /\ Covered(loc, Find(est, loc))

\* No assertion of add() fails: the walk up from the node of a memory with one
\* more pointer meets the node its memory belongs to.  It does not if the memory
\* was below an unknown node and may now be memory beside that node as well,
\* which takes a call that does not access all objects.
NoAssertionFails ==
  \/ failed = ""
  \/ failed = "unknown" /\ \A c \in CallsIn(tree) : Calls[c] # Objects
=============================================================================
