-------------------------- MODULE PrivateAnalysis --------------------------
(***************************************************************************)
(* The passes that decide which scalars each loop of a function may keep in *)
(* private copies: defined memory, upward; live memory, downward; then the  *)
(* traits of every loop (lib/Analysis/Memory/PrivateAnalysis.cpp).  When    *)
(* they are done the analysed function is run, any number of iterations     *)
(* its loops allow, and what the passes say is compared with what the run   *)
(* does.                                                                    *)
(***************************************************************************)
EXTENDS LiveMemory

CONSTANTS
  Graphs,   \* control-flow graphs of functions to analyse
  Bodies,   \* sequences of accesses a basic block may make
  Counts    \* how often the back edge of a loop with a known count is taken

ASSUME Inputs ==
  /\ \A h \in Graphs : Reducible(h)
  /\ Bodies \subseteq Seq([op : {"read", "write", "maywrite"}, loc : Locs])
  /\ Counts \subseteq Nat \ {0}

VARIABLES
  prog,      \* the function: its graph, accesses, known counts and own memory
  du,        \* DefUseSet of each node
  reach,     \* values of the reach definition analysis before and after a node
  live,      \* values of the live memory analysis before and after a node
  traits,    \* traits of each location accessed in a loop
  solved,    \* regions that are solved and collapsed
  lived,     \* regions the live memory analysis has solved
  resolved,  \* loops whose traits are known
  at,        \* where the run is: a block and its next access
  src,       \* per region that is run, the iteration that wrote a location
  taken,     \* back edges taken since a loop was entered
  dead,      \* locations that were said not to be alive at some point and
             \* are not written since
  left       \* regions the last step has left

passes == <<du, reach, live, traits, solved, lived, resolved>>
running == <<at, src, taken, dead, left>>
vars == <<prog, passes, running>>

Unknown == -1
Idle == 0
Returned == -1
g == prog.graph

\* LLVM knows the count of a loop that is left at one place, its header or
\* its only latch, which no inner loop contains.
Countable(h, l) ==
  \E b \in Exiting(h, l) :
    /\ Exiting(h, l) = {b}
    /\ b = l \/ Latches(h, l) = {b}
    /\ \A k \in NestedIn(h, l) : b \notin h.loops[k]
Functions ==
  UNION {[graph : {h}, accesses : [h.blocks -> Bodies], own : SUBSET Locs,
          count : {c \in [Loops(h) -> Counts \cup {Unknown}] :
                     \A l \in Loops(h) : c[l] # Unknown => Countable(h, l)}] :
           h \in Graphs}

Outside == [x \in Locs |-> "outside"]
Init ==
  /\ prog \in Functions
  /\ du = [n \in AllNodes(g) |->
             IF n[1] = "block" THEN BlockDefUse(prog.accesses[n[2]]) ELSE Nothing]
  /\ reach = [n \in AllNodes(g) |-> [in |-> BoundaryCondition, out |-> BoundaryCondition]]
  /\ live = [n \in AllNodes(g) |-> [in |-> {}, out |-> {}]]
  /\ traits = [l \in Loops(g) |-> [x \in Locs |-> {}]]
  /\ solved = {} /\ lived = {} /\ resolved = {}
  /\ at = [block |-> Idle, next |-> 1]
  /\ src = [r \in Regions(g) |-> Outside]
  /\ taken = [l \in Loops(g) |-> 0]
  /\ dead = {} /\ left = {}

-----------------------------------------------------------------------------
\* The constant trip count of a loop, 0 if it is not known: how often the
\* header is run, one more than the back edges taken.
TripCount(l) == IF prog.count[l] = Unknown THEN 0 ELSE prog.count[l] + 1
HasTrips(r) == IF r = Fn THEN FALSE ELSE TripCount(r) > 0

\* The values of the nodes of one region are replaced.
Updated(old, new) == [n \in DOMAIN old |-> IF n \in DOMAIN new THEN new[n] ELSE old[n]]

\* solveDataFlowUpward for one region, its inner loops being collapsed.
SolveUpward(r) ==
  LET values == SolveReach(g, r, du)
  IN /\ r \notin solved
     /\ InnerLoops(g, r) \subseteq solved
     /\ solved' = solved \cup {r}
     /\ reach' = Updated(reach, values)
     /\ du' = [du EXCEPT ![RegionNode(r)] = Collapse(g, r, du, values, HasTrips(r))]
     /\ UNCHANGED <<prog, live, traits, lived, resolved, running>>

\* solveDataFlowDownward for one region, the region around it being solved.
SolveDownward(r) ==
  LET whole == IF r = Fn
               THEN [live EXCEPT ![RegionNode(Fn)].out =
                       LiveAfterFunction(du[RegionNode(Fn)], prog.own)]
               ELSE live
  IN /\ solved = Regions(g)
     /\ r \notin lived
     /\ r # Fn => Parent(g, r) \in lived
     /\ lived' = lived \cup {r}
     /\ live' = Updated(whole, SolveLive(g, r, du, whole))
     /\ UNCHANGED <<prog, du, reach, traits, solved, resolved, running>>

Accessed(l) ==
  {a.loc : a \in UNION {{prog.accesses[b][i] : i \in DOMAIN prog.accesses[b]} :
                          b \in g.loops[l]}}
CopyOut_Latch(l, x) ==
  IF x \in reach[ExitNode(l)].out.must THEN {"LastPrivate"}
  ELSE IF x \in reach[LatchNode(l)].out.must THEN {"SecondToLastPrivate", "FirstPrivate"}
       ELSE {"DynamicPrivate", "FirstPrivate"}
\* The trait that keeps the value of a location which is alive after the loop.
CopyOut(l, x) ==
  IF x \in reach[ExitNode(l)].out.must THEN {"LastPrivate"}
  ELSE IF /\ x \in reach[LatchNode(l)].out.must
          /\ x \notin reach[ExitNode(l)].out.may
       THEN {"SecondToLastPrivate", "FirstPrivate"}
       ELSE {"DynamicPrivate", "FirstPrivate"}
ResolveAccess(l, x) ==
  LET sets == du[RegionNode(l)]
      after == IF x \in live[RegionNode(l)].out THEN {"UseAfterLoop"} ELSE {}
  IN IF x \notin Accessed(l) THEN {}
     ELSE IF x \notin sets.uses
          THEN IF after = {} THEN {"Private"} ELSE CopyOut(l, x) \cup after
     ELSE IF x \in sets.defs \cup sets.mayDefs THEN {"Dependency"} \cup after
     ELSE {"Readonly"} \cup after
\* resolveCandidats for one loop, those around it being resolved.
Resolve(l) ==
  /\ lived = Regions(g)
  /\ l \notin resolved
  /\ Parent(g, l) \in resolved \cup {Fn}
  /\ resolved' = resolved \cup {l}
  /\ traits' = [traits EXCEPT ![l] = [x \in Locs |-> ResolveAccess(l, x)]]
  /\ UNCHANGED <<prog, du, reach, live, solved, lived, running>>

-----------------------------------------------------------------------------
(* The run of the analysed function. *)

Here(r) == at.block \in Body(g, r)
\* What the next step knows of regions it is not in.
Settled == [r \in Regions(g) |-> IF Here(r) THEN src[r] ELSE Outside]
Accesses == prog.accesses[at.block]

Call ==
  /\ lived = Regions(g) /\ resolved = Loops(g)
  /\ at.block = Idle
  /\ at' = [block |-> g.entry, next |-> 1]
  /\ UNCHANGED <<prog, passes, src, taken, dead, left>>

Access ==
  LET a == Accesses[at.next]
      here == Settled
  IN /\ at.block > 0 /\ at.next <= Len(Accesses)
     /\ at' = [at EXCEPT !.next = @ + 1]
     /\ \/ /\ a.op \in {"read", "maywrite"}
           /\ src' = here
           /\ UNCHANGED dead
        \/ /\ a.op \in {"write", "maywrite"}
           /\ src' = [r \in Regions(g) |->
                        IF Here(r) THEN [here[r] EXCEPT ![a.loc] = "this"] ELSE here[r]]
           /\ dead' = dead \ {a.loc}
     /\ left' = {}
     /\ UNCHANGED <<prog, passes, taken>>

\* How an iteration that ended looks from the next one.
Older(where) == CASE where = "this" -> "previous"
                  [] where = "previous" -> "earlier"
                  [] OTHER -> where
\* A known count is exact: the back edge is taken that often, then the loop
\* is left.
MayTake(s) ==
  \A l \in Loops(g) : Here(l) /\ prog.count[l] # Unknown =>
    IF at.block \in Exiting(g, l)
    THEN s \notin g.loops[l] <=> taken[l] = prog.count[l]
    ELSE TRUE
LeftBy(s) == {r \in Regions(g) : Here(r) /\ s \notin Body(g, r)}
NotAlive(regions) ==
  Locs \ (live[BlockNode(at.block)].out \cap
            {x \in Locs : \A r \in regions : x \in live[RegionNode(r)].out})

Branch(s) ==
  /\ at.block > 0 /\ at.next > Len(Accesses)
  /\ MayTake(s)
  /\ at' = [block |-> s, next |-> 1]
  /\ src' = [r \in Regions(g) |->
               IF s # Header(g, r) THEN Settled[r]
               ELSE IF Here(r) THEN [x \in Locs |-> Older(src[r][x])] ELSE Outside]
  /\ taken' = [l \in Loops(g) |->
                 IF s = l /\ Here(l)
                 THEN IF taken[l] < (IF prog.count[l] = Unknown THEN 1 ELSE prog.count[l])
                      THEN taken[l] + 1 ELSE taken[l]
                 ELSE IF s = l \/ ~Here(l) THEN 0 ELSE taken[l]]
  /\ left' = LeftBy(s)
  /\ dead' = dead \cup NotAlive(left')
  /\ UNCHANGED <<prog, passes>>

Return ==
  /\ at.block > 0 /\ at.next > Len(Accesses) /\ g.succ[at.block] = {}
  /\ at' = [block |-> Returned, next |-> 1]
  /\ src' = Settled
  /\ left' = {Fn}
  /\ dead' = dead \cup NotAlive(left')
  /\ UNCHANGED <<prog, passes, taken>>

SomeBranch == at.block > 0 /\ \E s \in g.succ[at.block] : Branch(s)
Upward == \E r \in Regions(g) : SolveUpward(r)
Downward == \E r \in Regions(g) : SolveDownward(r)
Recognition == \E l \in Loops(g) : Resolve(l)

Next ==
  \/ Upward \/ Downward \/ Recognition
  \/ Call \/ Access \/ SomeBranch \/ Return

Spec == Init /\ [][Next]_vars

-----------------------------------------------------------------------------
\* What collapse() says a region always defines is written on every way
\* through the region, however often its loop is run.
DefsAlwaysWritten ==
  \A r \in left : \A x \in du[RegionNode(r)].defs : src[r][x] # "outside"

\* Whatever is written while a region is run is among its definitions, must
\* or may.
WritesAreKnown ==
  \A r \in Regions(g) : \A x \in Locs :
    src[r][x] # "outside" => x \in du[RegionNode(r)].defs \cup du[RegionNode(r)].mayDefs

\* The uses of a region hold every location read in it whose value comes from
\* outside the region or from another iteration of its loop.
Reads == IF at.block > 0 /\ at.next <= Len(Accesses) /\ Accesses[at.next].op = "read"
         THEN {Accesses[at.next].loc} ELSE {}
UsesCoverReads ==
  \A x \in Reads : \A r \in Regions(g) :
    Here(r) /\ src[r][x] # "this" => x \in du[RegionNode(r)].uses

\* A location that is read, by the function or after it by its caller, was
\* said to be alive at the end of every block and loop left since it was
\* last written.
LiveCoversReads ==
  /\ Reads \cap dead = {}
  /\ at.block = Returned =>
       \A x \in Locs \ prog.own : src[Fn][x] # "outside" => x \notin dead

\* The value a private copy is taken from is the one the loop leaves: a last
\* private location is written by the last iteration, a second to last one by
\* the iteration before it and not by the last, and a read-only one by none.
CopiesAreRight ==
  \A l \in left \ {Fn} : \A x \in Locs :
    /\ "LastPrivate" \in traits[l][x] => src[l][x] = "this"
    /\ "SecondToLastPrivate" \in traits[l][x] =>
         src[l][x] = (IF taken[l] = 0 THEN "outside" ELSE "previous")
    /\ "Readonly" \in traits[l][x] => src[l][x] = "outside"
=============================================================================
