---------------------------- MODULE DFRegionInfo ----------------------------
(***************************************************************************)
(* The hierarchy of data-flow regions of a function: each natural loop, and *)
(* the function itself, is a graph whose nodes are basic blocks and the     *)
(* loops directly inside it, with an entry, an exit and, for a loop, a      *)
(* latch (lib/Analysis/DFRegionInfo.cpp).                                   *)
(*                                                                         *)
(* A control-flow graph is a record                                         *)
(*   blocks  the basic blocks, numbers from 1,                              *)
(*   entry   the entry block, which has no predecessors,                    *)
(*   succ    the successors of each block,                                  *)
(*   loops   the body of each natural loop, by its header (llvm::LoopInfo). *)
(* A region is named by the header of its loop, the function by 0, and a    *)
(* node by its kind and the block or the region it stands for.              *)
(***************************************************************************)
EXTENDS Integers, FiniteSets

Fn == 0
Loops(g) == DOMAIN g.loops
Regions(g) == Loops(g) \cup {Fn}
Header(g, r) == IF r = Fn THEN g.entry ELSE r
Body(g, r) == IF r = Fn THEN g.blocks ELSE g.loops[r]

EntryNode(r) == <<"entry", r>>
ExitNode(r) == <<"exit", r>>
LatchNode(r) == <<"latch", r>>
BlockNode(b) == <<"block", b>>
\* A region as a node of the region around it.
RegionNode(r) == IF r = Fn THEN <<"function", r>> ELSE <<"loop", r>>

\* The loops nested in a region, at any depth.
NestedIn(g, r) == {l \in Loops(g) \ {r} : g.loops[l] \subseteq Body(g, r)}
\* The loops directly inside a region.
InnerLoops(g, r) ==
  {l \in NestedIn(g, r) : \A k \in NestedIn(g, r) : l \notin NestedIn(g, k)}
\* The region a loop is a node of.
Parent(g, l) == CHOOSE r \in Regions(g) : l \in InnerLoops(g, r)

\* The node of the graph of a region that holds a block of its body.
NodeOf(g, r, b) ==
  IF \E l \in InnerLoops(g, r) : b \in g.loops[l]
  THEN RegionNode(CHOOSE l \in InnerLoops(g, r) : b \in g.loops[l])
  ELSE BlockNode(b)
BodyNodes(g, r) == {NodeOf(g, r, b) : b \in Body(g, r)}

Exiting(g, r) == {b \in Body(g, r) : g.succ[b] = {} \/ ~(g.succ[b] \subseteq Body(g, r))}
Latches(g, r) == {b \in Body(g, r) : Header(g, r) \in g.succ[b]}

\* Branches between blocks of the body, those inside an inner loop and those
\* back to the header left out.
Branches(g, r) ==
  {e \in UNION {{<<NodeOf(g, r, b), NodeOf(g, r, s)>> :
                   s \in (g.succ[b] \cap Body(g, r)) \ {Header(g, r)}} :
                  b \in Body(g, r)} : e[1] # e[2]}
ExitEdges(g, r) ==
  IF Exiting(g, r) = {} THEN {<<EntryNode(r), ExitNode(r)>>}
  ELSE {<<NodeOf(g, r, b), ExitNode(r)>> : b \in Exiting(g, r)}
BackEdges(g, r) == {<<NodeOf(g, r, b), LatchNode(r)>> : b \in Latches(g, r)}
Explicit(g, r) ==
  {<<EntryNode(r), NodeOf(g, r, Header(g, r))>>}
    \cup Branches(g, r) \cup ExitEdges(g, r) \cup BackEdges(g, r)
\* An inner loop that is never left gets an arc to the exit.
EndlessEdges(g, r) ==
  {<<RegionNode(l), ExitNode(r)>> :
     l \in {k \in InnerLoops(g, r) : \A e \in Explicit(g, r) : e[1] # RegionNode(k)}}

Edges(g, r) == Explicit(g, r) \cup EndlessEdges(g, r)
Nodes(g, r) ==
  {EntryNode(r), ExitNode(r)} \cup BodyNodes(g, r)
    \cup (IF Latches(g, r) = {} THEN {} ELSE {LatchNode(r)})
AllNodes(g) ==
  {RegionNode(r) : r \in Regions(g)} \cup UNION {Nodes(g, r) : r \in Regions(g)}
Predecessors(edges, n) == {e[1] : e \in {f \in edges : f[2] = n}}
Successors(edges, n) == {e[2] : e \in {f \in edges : f[1] = n}}

(* The functions that reach the analysis.                                  *)

\* The entry block has no predecessors; a region's body is a set of blocks.
ControlFlow(g) ==
  /\ IsFiniteSet(g.blocks) /\ g.blocks \subseteq Nat \ {Fn}
  /\ g.entry \in g.blocks
  /\ g.succ \in [g.blocks -> SUBSET (g.blocks \ {g.entry})]
\* Natural loops are nested or disjoint, entered at their header only, never
\* left by a return, and hold every branch of a block to itself.
NaturalLoops(g) ==
  /\ \A l \in Loops(g) :
       /\ l \in g.loops[l] /\ g.loops[l] \subseteq g.blocks \ {g.entry}
       /\ \A b \in g.blocks \ g.loops[l] : g.succ[b] \cap g.loops[l] \subseteq {l}
       /\ Latches(g, l) # {} /\ \A b \in g.loops[l] : g.succ[b] # {}
       /\ \A k \in Loops(g) \ {l} :
            \/ g.loops[l] \cap g.loops[k] = {}
            \/ g.loops[k] \subseteq g.loops[l] \ {l}
            \/ g.loops[l] \subseteq g.loops[k] \ {k}
  /\ \A b \in g.blocks : b \in g.succ[b] => b \in Loops(g)
\* The graph of a region has no cycle when the function is reducible: among
\* any nodes there is one no other leads to, and one that leads to no other.
Acyclic(g, r) ==
  \A S \in SUBSET Nodes(g, r) :
    S # {} => /\ \E n \in S : Predecessors(Edges(g, r), n) \cap S = {}
              /\ \E n \in S : Successors(Edges(g, r), n) \cap S = {}
Reducible(g) ==
  ControlFlow(g) /\ NaturalLoops(g) /\ \A r \in Regions(g) : Acyclic(g, r)
=============================================================================
