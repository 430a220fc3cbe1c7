----------------------------- MODULE LiveMemory -----------------------------
(***************************************************************************)
(* Which memory may be read, before it is written, after a node of a region *)
(* (lib/Analysis/Memory/LiveMemory.cpp): a backward data-flow problem       *)
(* solved for the outermost region first.                                   *)
(***************************************************************************)
EXTENDS DefinedMemory

\* While a loop is expanded its latch leads to its exit.
LiveEdges(g, r) ==
  Edges(g, r)
    \cup (IF Latches(g, r) = {} THEN {} ELSE {<<LatchNode(r), ExitNode(r)>>})

LiveBoundary_After(live, r) == live[RegionNode(r)].out
\* Memory is alive at the end of an iteration if it is alive before or after
\* the loop.
LiveBoundary(live, r) == live[RegionNode(r)].in \cup live[RegionNode(r)].out
TransferLive(du, out) == du.uses \cup (out \ du.defs)

\* What is alive after a node is alive before one that follows it.
AliveAfter(edges, in, n) == UNION {in[s] : s \in Successors(edges, n)}
SolveLive(g, r, du, live) ==
  LET edges == LiveEdges(g, r)
      in[n \in Nodes(g, r)] ==
        IF n = ExitNode(r) THEN LiveBoundary(live, r)
        ELSE IF n = EntryNode(r) THEN AliveAfter(edges, in, n)
        ELSE TransferLive(du[n], AliveAfter(edges, in, n))
  IN [n \in Nodes(g, r) |-> [in |-> in[n], out |-> AliveAfter(edges, in, n)]]

\* Without interprocedural results everything the function may write, except
\* its own memory, is alive when it returns.
LiveAfterFunction(du, own) == (du.defs \cup du.mayDefs) \ own
=============================================================================
