--------------------------- MODULE DefinedMemory ---------------------------
(***************************************************************************)
(* Which memory a region of a function always writes, may write, and reads  *)
(* before writing it (lib/Analysis/Memory/DefinedMemory.cpp): a forward     *)
(* data-flow problem solved for the innermost regions first, each of which  *)
(* is collapsed to a node of the region around it.  Locations are scalars   *)
(* that do not overlap.                                                     *)
(***************************************************************************)
EXTENDS DFRegionInfo, Sequences

CONSTANT Locs

Nothing == [defs |-> {}, mayDefs |-> {}, uses |-> {}]

\* What one access adds to the sets of its block.
AddAccess(du, a) ==
  IF a.loc \in du.defs THEN du
  ELSE CASE a.op = "read" -> [du EXCEPT !.uses = @ \cup {a.loc}]
         [] a.op = "write" -> [du EXCEPT !.defs = @ \cup {a.loc}]
         [] a.op = "maywrite" -> [du EXCEPT !.mayDefs = @ \cup {a.loc}]
BlockDefUse(accesses) ==
  LET after[i \in 0..Len(accesses)] ==
        IF i = 0 THEN Nothing ELSE AddAccess(after[i - 1], accesses[i])
  IN after[Len(accesses)]

\* The data-flow values: what is defined on every way and on some way here.
TopElement == [must |-> Locs, may |-> {}]
BoundaryCondition == [must |-> {}, may |-> {}]
Meet_Some(values) ==
  [must |-> UNION {v.must : v \in values},
   may |-> UNION {v.may : v \in values}]
Meet(values) ==
  [must |-> {x \in Locs : \A v \in values : x \in v.must},
   may |-> UNION {v.may : v \in values}]
TransferReach(du, in) ==
  [must |-> in.must \cup du.defs, may |-> in.may \cup du.defs \cup du.mayDefs]

\* The values before and after each node, in one pass over the graph, which
\* has no cycle.
SolveReach(g, r, du) ==
  LET edges == Edges(g, r)
      in[n \in Nodes(g, r)] ==
        IF n = EntryNode(r) THEN TopElement
        ELSE Meet({IF p = EntryNode(r) THEN BoundaryCondition
                   ELSE TransferReach(du[p], in[p]) : p \in Predecessors(edges, n)})
  IN [n \in Nodes(g, r) |->
        [in |-> in[n],
         out |-> IF n = EntryNode(r) THEN BoundaryCondition
                 ELSE IF n = ExitNode(r) THEN in[n]
                 ELSE TransferReach(du[n], in[n])]]

\* hasTrips: scalar evolution knows the constant trip count of the loop.
AlwaysDefined(reach, r, hasTrips) ==
  reach[ExitNode(r)].out.must
    \cup (IF r # Fn /\ hasTrips THEN reach[LatchNode(r)].out.must ELSE {})

Collapse_Must(g, r, du, reach, hasTrips) ==
  LET inner == BodyNodes(g, r)
  IN [defs |-> (UNION {du[n].defs : n \in inner}) \cap AlwaysDefined(reach, r, hasTrips),
      mayDefs |-> UNION {du[n].mayDefs : n \in inner},
      uses |-> UNION {du[n].uses \ reach[n].in.must : n \in inner}]
Collapse_Out(g, r, du, reach, hasTrips) ==
  LET inner == BodyNodes(g, r)
      defs == UNION {du[n].defs : n \in inner}
  IN [defs |-> defs \cap AlwaysDefined(reach, r, hasTrips),
      mayDefs |-> (UNION {du[n].mayDefs : n \in inner}) \cup defs,
      uses |-> UNION {du[n].uses \ reach[n].out.must : n \in inner}]
\* A loop that writes a location on its way to every exit, or to its latch if
\* it is known to have trips, always defines it; a location written
\* otherwise may be defined.  It uses what a node reads that no node before
\* it has surely written.
Collapse(g, r, du, reach, hasTrips) ==
  LET inner == BodyNodes(g, r)
      defs == UNION {du[n].defs : n \in inner}
  IN [defs |-> defs \cap AlwaysDefined(reach, r, hasTrips),
      mayDefs |-> (UNION {du[n].mayDefs : n \in inner})
                    \cup (defs \ reach[ExitNode(r)].out.must)
                    \cup (IF r # Fn /\ hasTrips
                          THEN defs \ reach[LatchNode(r)].out.must ELSE {}),
      uses |-> UNION {du[n].uses \ reach[n].in.must : n \in inner}]
=============================================================================
