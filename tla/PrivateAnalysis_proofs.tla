----------------------- MODULE PrivateAnalysis_proofs -----------------------
(* What the passes say of a loop is right of every run of every reducible   *)
(* function: what a region always defines is written, what is written is    *)
(* defined or may be, what is read from outside is used, what is read later *)
(* is alive, and private copies are taken from the right iteration.         *)
(*                                                                         *)
(* First come the regions of a reducible function: how they are nested,     *)
(* which node of a region holds a block, which branches are edges.  Then    *)
(* the values the passes compute are shown to satisfy the data-flow         *)
(* equations (Passes), and what these say of the run is kept by its steps   *)
(* (RunHolds, DeadHolds).                                                  *)
EXTENDS PrivateAnalysis, Recursion

-----------------------------------------------------------------------------
(* Names of nodes.                                                         *)

(* The names of the nodes do not clash.                                    *)
LEMMA NodeNames ==
  /\ \A b, c : BlockNode(b) = BlockNode(c) => b = c
  /\ \A r, q : EntryNode(r) = EntryNode(q) => r = q
  /\ \A r, q : ExitNode(r) = ExitNode(q) => r = q
  /\ \A r, q : LatchNode(r) = LatchNode(q) => r = q
  /\ \A r, q : RegionNode(r) = RegionNode(q) => r = q
  /\ \A r, q : /\ EntryNode(r) \notin {ExitNode(q), LatchNode(q), BlockNode(q), RegionNode(q)}
               /\ ExitNode(r) \notin {LatchNode(q), BlockNode(q), RegionNode(q)}
               /\ LatchNode(r) \notin {BlockNode(q), RegionNode(q)}
               /\ BlockNode(r) # RegionNode(q)
<1>1. \A r : RegionNode(r)[2] = r /\ RegionNode(r)[1] \in {"function", "loop"}
  BY DEF RegionNode
<1>2. /\ \A r : EntryNode(r)[1] = "entry" /\ EntryNode(r)[2] = r
      /\ \A r : ExitNode(r)[1] = "exit" /\ ExitNode(r)[2] = r
      /\ \A r : LatchNode(r)[1] = "latch" /\ LatchNode(r)[2] = r
      /\ \A r : BlockNode(r)[1] = "block" /\ BlockNode(r)[2] = r
  BY DEF EntryNode, ExitNode, LatchNode, BlockNode
<1> QED
  BY <1>1, <1>2

-----------------------------------------------------------------------------
(* Nesting.                                                                *)

(* The bodies and headers of the regions.                                  *)
LEMMA RegionBodies ==
  ASSUME NEW G, Reducible(G)
  PROVE  /\ Fn \notin Loops(G) /\ Fn \in Regions(G) /\ Loops(G) \subseteq G.blocks
         /\ \A r \in Regions(G) :
              /\ Body(G, r) \subseteq G.blocks /\ Header(G, r) \in Body(G, r)
              /\ IsFiniteSet(Body(G, r)) /\ Cardinality(Body(G, r)) \in Nat
         /\ \A l \in Loops(G) : Body(G, l) = G.loops[l] /\ Header(G, l) = l
                                /\ G.entry \notin G.loops[l]
         /\ Body(G, Fn) = G.blocks /\ Header(G, Fn) = G.entry
<1>1. /\ IsFiniteSet(G.blocks) /\ Fn \notin G.blocks /\ G.entry \in G.blocks
      /\ \A l \in Loops(G) : /\ l \in G.loops[l]
                             /\ G.loops[l] \subseteq G.blocks \ {G.entry}
  BY DEF Reducible, ControlFlow, NaturalLoops
<1>2. Fn \notin Loops(G) /\ Fn \in Regions(G) /\ Loops(G) \subseteq G.blocks
  BY <1>1 DEF Regions
<1>3. \A r \in Regions(G) : Body(G, r) \subseteq G.blocks /\ Header(G, r) \in Body(G, r)
  BY <1>1, <1>2 DEF Regions, Body, Header
<1>4. \A r \in Regions(G) : IsFiniteSet(Body(G, r)) /\ Cardinality(Body(G, r)) \in Nat
  BY <1>1, <1>3, FS_Subset, FS_CardinalityType
<1> QED
  BY <1>1, <1>2, <1>3, <1>4 DEF Body, Header

(* A region inside another one is smaller and leaves its header out.       *)
LEMMA Inside ==
  ASSUME NEW G, Reducible(G), NEW r \in Regions(G), NEW q \in NestedIn(G, r)
  PROVE  /\ q \in Loops(G) /\ q \in Regions(G) /\ q # r
         /\ Body(G, q) \subseteq Body(G, r) \ {Header(G, r)}
         /\ Cardinality(Body(G, q)) < Cardinality(Body(G, r))
<1>1. /\ q \in Loops(G) /\ q \in Regions(G) /\ q # r /\ Body(G, q) \subseteq Body(G, r)
  BY RegionBodies DEF NestedIn, Regions
<1>2. Header(G, r) \notin Body(G, q)
  <2>1. CASE r = Fn
    BY <1>1, <2>1, RegionBodies
  <2>2. CASE r \in Loops(G)
    <3>1. /\ r \in G.loops[r] /\ q \in G.loops[q] /\ Body(G, q) = G.loops[q]
          /\ Body(G, r) = G.loops[r] /\ Header(G, r) = r
      BY <1>1, <2>2, RegionBodies
    <3>2. \/ G.loops[r] \cap G.loops[q] = {}
          \/ G.loops[q] \subseteq G.loops[r] \ {r}
          \/ G.loops[r] \subseteq G.loops[q] \ {q}
      BY <1>1, <2>2 DEF Reducible, NaturalLoops
    <3> QED
      BY <1>1, <3>1, <3>2
  <2> QED
    BY <2>1, <2>2 DEF Regions
<1>3. Cardinality(Body(G, q)) < Cardinality(Body(G, r))
  <2>1. /\ Cardinality(Body(G, q)) <= Cardinality(Body(G, r))
        /\ Cardinality(Body(G, q)) = Cardinality(Body(G, r)) => Body(G, r) = Body(G, q)
    BY <1>1, RegionBodies, FS_Subset
  <2>2. Body(G, r) # Body(G, q)
    BY <1>2, RegionBodies
  <2>3. Cardinality(Body(G, q)) \in Nat /\ Cardinality(Body(G, r)) \in Nat
    BY <1>1, RegionBodies
  <2> QED
    BY <2>1, <2>2, <2>3
<1> QED
  BY <1>1, <1>2, <1>3

(* Regions that share a block are nested.                                  *)
LEMMA Nested ==
  ASSUME NEW G, Reducible(G), NEW r \in Regions(G), NEW q \in Regions(G), r # q,
         NEW b \in Body(G, r), b \in Body(G, q)
  PROVE  q \in NestedIn(G, r) \/ r \in NestedIn(G, q)
<1>1. CASE r = Fn
  BY <1>1, RegionBodies DEF NestedIn, Regions
<1>2. CASE q = Fn
  BY <1>2, RegionBodies DEF NestedIn, Regions
<1>3. CASE r \in Loops(G) /\ q \in Loops(G)
  <2>1. \/ G.loops[r] \cap G.loops[q] = {}
        \/ G.loops[q] \subseteq G.loops[r] \ {r}
        \/ G.loops[r] \subseteq G.loops[q] \ {q}
    BY <1>3 DEF Reducible, NaturalLoops
  <2> QED
    BY <1>3, <2>1, RegionBodies DEF NestedIn
<1> QED
  BY <1>1, <1>2, <1>3 DEF Regions

(* Of some regions one is innermost, and one is outermost.                 *)
LEMMA Innermost ==
  ASSUME NEW G, Reducible(G), NEW C \in SUBSET Regions(G), C # {}
  PROVE  \E r \in C : \A q \in C : q \notin NestedIn(G, r)
<1> DEFINE N == {Cardinality(Body(G, r)) : r \in C}
<1>1. N \in SUBSET Nat /\ N # {}
  BY RegionBodies
<1>2. PICK x \in N : \A y \in N : x <= y
  BY <1>1, LeastNat
<1>3. PICK r \in C : Cardinality(Body(G, r)) = x
  OBVIOUS
<1>4. ASSUME NEW q \in C, q \in NestedIn(G, r) PROVE FALSE
  <2>1. Cardinality(Body(G, q)) < Cardinality(Body(G, r))
    BY <1>4, Inside
  <2>2. Cardinality(Body(G, r)) <= Cardinality(Body(G, q))
    BY <1>2, <1>3
  <2>3. Cardinality(Body(G, q)) \in Nat /\ Cardinality(Body(G, r)) \in Nat
    BY RegionBodies
  <2> QED
    BY <2>1, <2>2, <2>3
<1> QED
  BY <1>4

(* Among any regions there is one none of the others contains.             *)
LEMMA Outermost ==
  ASSUME NEW G, Reducible(G), NEW C \in SUBSET Regions(G), C # {}
  PROVE  \E r \in C : \A q \in C : r \notin NestedIn(G, q)
<1> DEFINE size == Cardinality(G.blocks)
           N == {size - Cardinality(Body(G, r)) : r \in C}
<1>1. \A r \in Regions(G) : /\ Cardinality(Body(G, r)) \in Nat /\ size \in Nat
                            /\ Cardinality(Body(G, r)) <= size
  BY RegionBodies, FS_Subset, FS_CardinalityType DEF Reducible, ControlFlow
<1> HIDE DEF size
<1>2. N \in SUBSET Nat /\ N # {}
  BY <1>1
<1>3. PICK x \in N : \A y \in N : x <= y
  BY <1>2, LeastNat
<1>4. PICK r \in C : size - Cardinality(Body(G, r)) = x
  OBVIOUS
<1>5. ASSUME NEW q \in C, r \in NestedIn(G, q) PROVE FALSE
  <2>1. Cardinality(Body(G, r)) < Cardinality(Body(G, q))
    BY <1>5, Inside
  <2>2. size - Cardinality(Body(G, r)) <= size - Cardinality(Body(G, q))
    BY <1>3, <1>4
  <2> QED
    BY <1>1, <2>1, <2>2
<1> QED
  BY <1>5

-----------------------------------------------------------------------------
(* Which node of a region holds a block.                                   *)

(* A block of a nested loop is a block of an inner loop.                   *)
LEMMA FirstInner ==
  ASSUME NEW G, Reducible(G), NEW r \in Regions(G), NEW k \in NestedIn(G, r),
         NEW b \in G.loops[k]
  PROVE  \E l \in InnerLoops(G, r) : b \in G.loops[l]
<1> DEFINE C == {q \in NestedIn(G, r) : b \in G.loops[q]}
<1>1. C \in SUBSET Regions(G) /\ k \in C
  BY Inside
<1>2. PICK l \in C : \A q \in C : l \notin NestedIn(G, q)
  BY <1>1, Outermost
<1>3. ASSUME NEW q \in NestedIn(G, r), l \in NestedIn(G, q) PROVE FALSE
  <2>1. Body(G, q) = G.loops[q]
    BY Inside, RegionBodies
  <2>2. G.loops[l] \subseteq G.loops[q]
    BY <1>3, <2>1 DEF NestedIn
  <2> QED
    BY <1>2, <1>3, <2>2
<1> QED
  BY <1>2, <1>3 DEF InnerLoops

(* A block of an inner loop is held by the node of that loop.              *)
LEMMA NodeOfLoop ==
  ASSUME NEW G, Reducible(G), NEW r \in Regions(G), NEW l \in InnerLoops(G, r),
         NEW b \in G.loops[l]
  PROVE  NodeOf(G, r, b) = RegionNode(l)
<1>1. ASSUME NEW k \in InnerLoops(G, r), b \in G.loops[k] PROVE k = l
  <2>1. /\ k \in NestedIn(G, r) /\ l \in NestedIn(G, r)
        /\ k \notin NestedIn(G, l) /\ l \notin NestedIn(G, k)
    BY DEF InnerLoops
  <2>2. /\ k \in Regions(G) /\ l \in Regions(G)
        /\ b \in Body(G, k) /\ b \in Body(G, l)
    BY <1>1, <2>1, Inside, RegionBodies
  <2> QED
    BY <2>1, <2>2, Nested
<1>2. (CHOOSE k \in InnerLoops(G, r) : b \in G.loops[k]) = l
  BY <1>1
<1> QED
  BY <1>2 DEF NodeOf

(* Every other block is a node of its own.                                 *)
LEMMA NodeOfCases ==
  ASSUME NEW G, Reducible(G), NEW r \in Regions(G), NEW b \in Body(G, r)
  PROVE  \/ NodeOf(G, r, b) = BlockNode(b) /\ \A l \in NestedIn(G, r) : b \notin G.loops[l]
         \/ \E l \in InnerLoops(G, r) : b \in G.loops[l] /\ NodeOf(G, r, b) = RegionNode(l)
<1>1. CASE \E l \in InnerLoops(G, r) : b \in G.loops[l]
  BY <1>1, NodeOfLoop
<1>2. CASE ~ \E l \in InnerLoops(G, r) : b \in G.loops[l]
  BY <1>2, FirstInner DEF NodeOf
<1> QED
  BY <1>1, <1>2

(* What InnerLoops says of a loop.                                         *)
LEMMA InnerIsNested ==
  ASSUME NEW G, Reducible(G), NEW r \in Regions(G), NEW l \in InnerLoops(G, r)
  PROVE  /\ l \in NestedIn(G, r) /\ l \in Loops(G) /\ l \in Regions(G) /\ l # Fn /\ l # r
         /\ G.loops[l] = Body(G, l) /\ l \in G.loops[l]
         /\ G.loops[l] \subseteq Body(G, r) \ {Header(G, r)}
  BY Inside, RegionBodies DEF InnerLoops

(* The header of a region is a block of the region itself.                 *)
LEMMA NodeOfHeader ==
  ASSUME NEW G, Reducible(G), NEW r \in Regions(G)
  PROVE  NodeOf(G, r, Header(G, r)) = BlockNode(Header(G, r))
  BY NodeOfCases, RegionBodies, InnerIsNested

(* Every block is a node of the innermost region that holds it.            *)
LEMMA Home ==
  ASSUME NEW G, Reducible(G), NEW b \in G.blocks
  PROVE  \E r \in Regions(G) : b \in Body(G, r) /\ NodeOf(G, r, b) = BlockNode(b)
<1> DEFINE C == {r \in Regions(G) : b \in Body(G, r)}
<1>1. Fn \in C
  BY RegionBodies
<1>2. PICK r \in C : \A q \in C : q \notin NestedIn(G, r)
  BY <1>1, Innermost
<1>3. ASSUME NEW l \in InnerLoops(G, r), b \in G.loops[l] PROVE FALSE
  BY <1>2, <1>3, InnerIsNested
<1> QED
  BY <1>2, <1>3, NodeOfCases

(* Every loop is a node of one region, its parent.                         *)
LEMMA ParentFacts ==
  ASSUME NEW G, Reducible(G), NEW l \in Loops(G)
  PROVE  /\ Parent(G, l) \in Regions(G) /\ l \in InnerLoops(G, Parent(G, l))
         /\ \A r \in Regions(G) : l \in InnerLoops(G, r) => r = Parent(G, l)
<1> DEFINE C == {r \in Regions(G) : l \in NestedIn(G, r)}
<1>1. Fn \in C
  BY RegionBodies DEF NestedIn, Regions
<1>2. PICK r \in C : \A q \in C : q \notin NestedIn(G, r)
  BY <1>1, Innermost
<1>3. r \in Regions(G) /\ l \in InnerLoops(G, r)
  BY <1>2, Inside DEF InnerLoops
<1>4. ASSUME NEW p \in Regions(G), l \in InnerLoops(G, p),
             NEW q \in Regions(G), l \in InnerLoops(G, q)
      PROVE  p = q
  <2>1. l \in Body(G, p) /\ l \in Body(G, q)
    BY <1>4, InnerIsNested
  <2>2. q \notin NestedIn(G, p) /\ p \notin NestedIn(G, q)
    BY <1>4 DEF InnerLoops
  <2> QED
    BY <2>1, <2>2, Nested
<1> QED
  BY <1>3, <1>4 DEF Parent

(* A block that is not in a nested loop, or a loop, is a node of one region. *)
LEMMA NodeNotThere ==
  ASSUME NEW G, Reducible(G), NEW r \in Regions(G), NEW q \in Regions(G),
         NEW b \in Body(G, r), NEW c \in Body(G, q), NodeOf(G, r, b) = NodeOf(G, q, c)
  PROVE  r = q
<1>a. \A x, y : BlockNode(x) # RegionNode(y)
  BY NodeNames
<1>b. \/ /\ NodeOf(G, q, c) = BlockNode(c) /\ \A l \in NestedIn(G, q) : c \notin G.loops[l]
      \/ \E k \in InnerLoops(G, q) : NodeOf(G, q, c) = RegionNode(k)
  BY NodeOfCases
<1>1. CASE NodeOf(G, r, b) = BlockNode(b) /\ \A l \in NestedIn(G, r) : b \notin G.loops[l]
  <2>1. NodeOf(G, q, c) = BlockNode(c) /\ \A l \in NestedIn(G, q) : c \notin G.loops[l]
    BY <1>1, <1>a, <1>b
  <2>2. b = c
    BY <1>1, <2>1, NodeNames
  <2>3. ASSUME r # q PROVE FALSE
    <3>1. q \in NestedIn(G, r) \/ r \in NestedIn(G, q)
      BY <2>2, <2>3, Nested
    <3> QED
      BY <1>1, <2>1, <2>2, <3>1, Inside, RegionBodies
  <2> QED
    BY <2>3
<1>2. CASE \E l \in InnerLoops(G, r) : b \in G.loops[l] /\ NodeOf(G, r, b) = RegionNode(l)
  <2>1. PICK l \in InnerLoops(G, r) : NodeOf(G, r, b) = RegionNode(l)
    BY <1>2
  <2>2. PICK k \in InnerLoops(G, q) : NodeOf(G, q, c) = RegionNode(k)
    BY <2>1, <1>a, <1>b
  <2>3. l = k
    BY <2>1, <2>2, NodeNames
  <2> QED
    BY <2>3, InnerIsNested, ParentFacts
<1> QED
  BY <1>1, <1>2, NodeOfCases

(* No node belongs to two regions.                                         *)
LEMMA NodesDisjoint ==
  ASSUME NEW G, Reducible(G), NEW r \in Regions(G), NEW q \in Regions(G),
         NEW n \in Nodes(G, r), n \in Nodes(G, q)
  PROVE  r = q
<1>1. \A p \in Regions(G) : \A b \in Body(G, p) :
        /\ NodeOf(G, p, b) = BlockNode(b) \/ \E l : NodeOf(G, p, b) = RegionNode(l)
        /\ \A t : NodeOf(G, p, b) \notin {EntryNode(t), ExitNode(t), LatchNode(t)}
  BY NodeOfCases, NodeNames
<1>2. CASE n \in BodyNodes(G, r)
  <2>1. PICK b \in Body(G, r) : n = NodeOf(G, r, b)
    BY <1>2 DEF BodyNodes
  <2>2. n \in BodyNodes(G, q)
    BY <1>1, <2>1 DEF Nodes
  <2> QED
    BY <2>1, <2>2, NodeNotThere DEF BodyNodes
<1>3. CASE n \in {EntryNode(r), ExitNode(r), LatchNode(r)}
  <2>1. n \notin BodyNodes(G, q)
    BY <1>1, <1>3 DEF BodyNodes
  <2> QED
    BY <1>3, <2>1, NodeNames DEF Nodes
<1> QED
  BY <1>2, <1>3 DEF Nodes

(* What the nodes of a region are.                                         *)
LEMMA NodeFacts ==
  ASSUME NEW G, Reducible(G), NEW r \in Regions(G)
  PROVE  /\ EntryNode(r) \in Nodes(G, r) /\ ExitNode(r) \in Nodes(G, r)
         /\ Latches(G, r) # {} => LatchNode(r) \in Nodes(G, r)
         /\ \A b \in Body(G, r) : NodeOf(G, r, b) \in BodyNodes(G, r)
         /\ BodyNodes(G, r) \subseteq Nodes(G, r)
         /\ Nodes(G, r) \subseteq BodyNodes(G, r) \cup {EntryNode(r), ExitNode(r), LatchNode(r)}
         /\ \A l \in InnerLoops(G, r) : RegionNode(l) \in BodyNodes(G, r)
         /\ \A n \in BodyNodes(G, r) :
              \/ \E b \in Body(G, r) : n = BlockNode(b) /\ NodeOf(G, r, b) = n
              \/ \E l \in InnerLoops(G, r) : n = RegionNode(l)
         /\ Nodes(G, r) \subseteq AllNodes(G) /\ RegionNode(r) \in AllNodes(G)
<1>1. \A l \in InnerLoops(G, r) : RegionNode(l) \in BodyNodes(G, r)
  <2>1. SUFFICES ASSUME NEW l \in InnerLoops(G, r) PROVE RegionNode(l) \in BodyNodes(G, r)
    OBVIOUS
  <2>2. l \in G.loops[l] /\ l \in Body(G, r)
    BY InnerIsNested
  <2>3. NodeOf(G, r, l) = RegionNode(l)
    BY <2>2, NodeOfLoop
  <2> QED
    BY <2>2, <2>3 DEF BodyNodes
<1>2. \A n \in BodyNodes(G, r) :
        \/ \E b \in Body(G, r) : n = BlockNode(b) /\ NodeOf(G, r, b) = n
        \/ \E l \in InnerLoops(G, r) : n = RegionNode(l)
  BY NodeOfCases DEF BodyNodes
<1> QED
  BY <1>1, <1>2 DEF Nodes, BodyNodes, AllNodes

(* The kinds of nodes are apart.                                           *)
LEMMA NodeKinds ==
  ASSUME NEW G, Reducible(G), NEW r \in Regions(G)
  PROVE  /\ \A n \in BodyNodes(G, r) : n \notin {EntryNode(r), ExitNode(r), LatchNode(r)}
         /\ EntryNode(r) # ExitNode(r) /\ EntryNode(r) # LatchNode(r)
         /\ ExitNode(r) # LatchNode(r)
         /\ \A q \in Regions(G) : RegionNode(q) \in Nodes(G, r) => q \in InnerLoops(G, r)
         /\ \A b : BlockNode(b) \in Nodes(G, r) =>
                     b \in Body(G, r) /\ NodeOf(G, r, b) = BlockNode(b)
         /\ \A n \in Nodes(G, r) : n # RegionNode(r) /\ n # RegionNode(Fn)
<1>a. /\ \A x, y : BlockNode(x) # RegionNode(y)
      /\ \A x, y : BlockNode(x) = BlockNode(y) => x = y
      /\ \A x, y : RegionNode(x) = RegionNode(y) => x = y
      /\ \A x, y : BlockNode(x) \notin {EntryNode(y), ExitNode(y), LatchNode(y)}
      /\ \A x, y : RegionNode(x) \notin {EntryNode(y), ExitNode(y), LatchNode(y)}
      /\ EntryNode(r) # ExitNode(r) /\ EntryNode(r) # LatchNode(r)
      /\ ExitNode(r) # LatchNode(r)
  BY NodeNames
<1>1. \A n \in BodyNodes(G, r) :
        \/ \E b \in Body(G, r) : n = BlockNode(b) /\ NodeOf(G, r, b) = n
        \/ \E l \in InnerLoops(G, r) : n = RegionNode(l)
  BY NodeFacts
<1>2. \A n \in BodyNodes(G, r) : n \notin {EntryNode(r), ExitNode(r), LatchNode(r)}
  BY <1>1, <1>a
<1>3. \A q : RegionNode(q) \in Nodes(G, r) => q \in InnerLoops(G, r)
  BY <1>1, <1>a DEF Nodes
<1>4. \A b : BlockNode(b) \in Nodes(G, r) => b \in Body(G, r) /\ NodeOf(G, r, b) = BlockNode(b)
  BY <1>1, <1>a DEF Nodes
<1>5. r \notin InnerLoops(G, r) /\ Fn \notin InnerLoops(G, r)
  BY InnerIsNested
<1> QED
  BY <1>2, <1>3, <1>4, <1>5, <1>a

-----------------------------------------------------------------------------
(* Branches of the function and edges of its regions.                      *)

(* A region is entered at its header.                                      *)
LEMMA Enter ==
  ASSUME NEW G, Reducible(G), NEW r \in Regions(G), NEW b \in G.blocks,
         NEW s \in G.succ[b], s \in Body(G, r), b \notin Body(G, r)
  PROVE  r \in Loops(G) /\ s = r /\ s = Header(G, r)
<1>1. r \in Loops(G)
  BY RegionBodies DEF Regions
<1>2. Body(G, r) = G.loops[r] /\ Header(G, r) = r
  BY <1>1, RegionBodies
<1>3. G.succ[b] \cap G.loops[r] \subseteq {r}
  BY <1>1, <1>2 DEF Reducible, NaturalLoops
<1> QED
  BY <1>1, <1>2, <1>3

(* Where the branches of a block lead.                                     *)
LEMMA Branching ==
  ASSUME NEW G, Reducible(G), NEW b \in G.blocks
  PROVE  /\ G.succ[b] \subseteq G.blocks \ {G.entry}
         /\ G.succ[b] = {} => \A l \in Loops(G) : b \notin G.loops[l]
         /\ b \in G.succ[b] => b \in Loops(G)
  BY DEF Reducible, ControlFlow, NaturalLoops

(* What an edge may start and end at.                                      *)
LEMMA EdgeEnds ==
  ASSUME NEW G, Reducible(G), NEW r \in Regions(G), NEW e \in Edges(G, r)
  PROVE  /\ e[1] \in Nodes(G, r) \ {ExitNode(r), LatchNode(r)}
         /\ e[2] \in Nodes(G, r) \ {EntryNode(r)}
<1> DEFINE B == BodyNodes(G, r)
<1>1. /\ \A n \in B : n \in Nodes(G, r) \ {EntryNode(r), ExitNode(r), LatchNode(r)}
      /\ EntryNode(r) \in Nodes(G, r) \ {ExitNode(r), LatchNode(r)}
      /\ ExitNode(r) \in Nodes(G, r) \ {EntryNode(r)}
      /\ Latches(G, r) # {} => LatchNode(r) \in Nodes(G, r) \ {EntryNode(r)}
      /\ \A b \in Body(G, r) : NodeOf(G, r, b) \in B
      /\ \A l \in InnerLoops(G, r) : RegionNode(l) \in B
      /\ Header(G, r) \in Body(G, r)
  BY NodeFacts, NodeKinds, RegionBodies
<1> HIDE DEF B
<1>2. CASE e = <<EntryNode(r), NodeOf(G, r, Header(G, r))>>
  BY <1>1, <1>2
<1>3. CASE e \in Branches(G, r)
  <2>1. PICK b \in Body(G, r) : \E s \in (G.succ[b] \cap Body(G, r)) \ {Header(G, r)} :
                                  e = <<NodeOf(G, r, b), NodeOf(G, r, s)>>
    BY <1>3 DEF Branches
  <2> QED
    BY <1>1, <2>1
<1>4. CASE e \in ExitEdges(G, r)
  <2>1. CASE e = <<EntryNode(r), ExitNode(r)>>
    BY <1>1, <2>1
  <2>2. CASE \E b \in Exiting(G, r) : e = <<NodeOf(G, r, b), ExitNode(r)>>
    BY <1>1, <2>2 DEF Exiting
  <2> QED
    BY <1>4, <2>1, <2>2 DEF ExitEdges
<1>5. CASE e \in BackEdges(G, r)
  <2>1. PICK b \in Latches(G, r) : e = <<NodeOf(G, r, b), LatchNode(r)>>
    BY <1>5 DEF BackEdges
  <2> QED
    BY <1>1, <2>1 DEF Latches
<1>6. CASE e \in EndlessEdges(G, r)
  <2>1. PICK l \in InnerLoops(G, r) : e = <<RegionNode(l), ExitNode(r)>>
    BY <1>6 DEF EndlessEdges
  <2> QED
    BY <1>1, <2>1
<1> QED
  BY <1>2, <1>3, <1>4, <1>5, <1>6 DEF Edges, Explicit

(* The edges each kind of branch gives: to the header,                     *)
LEMMA EntryEdge ==
  ASSUME NEW G, NEW r
  PROVE  <<EntryNode(r), NodeOf(G, r, Header(G, r))>> \in Edges(G, r)
  BY DEF Edges, Explicit

(* between two blocks of the body in different nodes,                      *)
LEMMA BranchEdge ==
  ASSUME NEW G, NEW r, NEW b \in Body(G, r), NEW s \in G.succ[b] \cap Body(G, r),
         s # Header(G, r), NodeOf(G, r, b) # NodeOf(G, r, s)
  PROVE  <<NodeOf(G, r, b), NodeOf(G, r, s)>> \in Edges(G, r)
<1> DEFINE E(c) == {<<NodeOf(G, r, c), NodeOf(G, r, t)>> :
                      t \in (G.succ[c] \cap Body(G, r)) \ {Header(G, r)}}
           e == <<NodeOf(G, r, b), NodeOf(G, r, s)>>
<1>1. e \in E(b) /\ e[1] # e[2]
  OBVIOUS
<1>2. e \in UNION {E(c) : c \in Body(G, r)}
  BY <1>1
<1>3. e \in Branches(G, r)
  BY <1>1, <1>2 DEF Branches
<1> QED
  BY <1>3 DEF Edges, Explicit

(* out of the region or the function,                                      *)
LEMMA ExitEdge ==
  ASSUME NEW G, NEW r, NEW b \in Body(G, r),
         G.succ[b] = {} \/ \E s \in G.succ[b] : s \notin Body(G, r)
  PROVE  <<NodeOf(G, r, b), ExitNode(r)>> \in Edges(G, r)
<1>1. b \in Exiting(G, r)
  BY DEF Exiting
<1> QED
  BY <1>1 DEF Edges, Explicit, ExitEdges

(* and back to the header.                                                 *)
LEMMA BackEdge ==
  ASSUME NEW G, NEW r, NEW b \in Body(G, r), Header(G, r) \in G.succ[b]
  PROVE  /\ <<NodeOf(G, r, b), LatchNode(r)>> \in Edges(G, r)
         /\ Latches(G, r) # {}
<1>1. b \in Latches(G, r)
  BY DEF Latches
<1> QED
  BY <1>1 DEF Edges, Explicit, BackEdges

(* The node a branch leaves is not the node it leads to, unless both are    *)
(* in the same inner loop.                                                 *)
LEMMA BranchLeaves ==
  ASSUME NEW G, Reducible(G), NEW r \in Regions(G), NEW b \in Body(G, r),
         NEW s \in G.succ[b] \cap Body(G, r), s # Header(G, r),
         NodeOf(G, r, b) = NodeOf(G, r, s)
  PROVE  \E l \in InnerLoops(G, r) :
           b \in G.loops[l] /\ s \in G.loops[l] /\ NodeOf(G, r, b) = RegionNode(l)
<1>a. /\ \A x, y : BlockNode(x) # RegionNode(y)
      /\ \A x, y : BlockNode(x) = BlockNode(y) => x = y
      /\ \A x, y : RegionNode(x) = RegionNode(y) => x = y
  BY NodeNames
<1>b. \/ NodeOf(G, r, s) = BlockNode(s)
      \/ \E k \in InnerLoops(G, r) : s \in G.loops[k] /\ NodeOf(G, r, s) = RegionNode(k)
  BY NodeOfCases
<1>1. CASE NodeOf(G, r, b) = BlockNode(b) /\ \A l \in NestedIn(G, r) : b \notin G.loops[l]
  <2>1. NodeOf(G, r, s) = BlockNode(s)
    BY <1>1, <1>a, <1>b
  <2>2. b = s
    BY <1>1, <2>1, <1>a
  <2>3. b \in Loops(G) /\ b \in Regions(G)
    BY <2>2, Branching, RegionBodies DEF Regions
  <2>4. b \in Body(G, b) /\ b = Header(G, b) /\ Body(G, b) = G.loops[b]
    BY <2>3, RegionBodies
  <2>5. b # r
    BY <2>2, <2>4
  <2>6. b \in NestedIn(G, r) \/ r \in NestedIn(G, b)
    BY <2>3, <2>4, <2>5, Nested
  <2>7. r \notin NestedIn(G, b)
    BY <2>3, <2>4, Inside
  <2> QED
    BY <1>1, <2>4, <2>6, <2>7
<1>2. CASE \E l \in InnerLoops(G, r) : b \in G.loops[l] /\ NodeOf(G, r, b) = RegionNode(l)
  <2>1. PICK l \in InnerLoops(G, r) : b \in G.loops[l] /\ NodeOf(G, r, b) = RegionNode(l)
    BY <1>2
  <2>2. PICK k \in InnerLoops(G, r) : s \in G.loops[k] /\ NodeOf(G, r, s) = RegionNode(k)
    BY <2>1, <1>a, <1>b
  <2>3. k = l
    BY <2>1, <2>2, <1>a
  <2> QED
    BY <2>1, <2>2, <2>3
<1> QED
  BY <1>1, <1>2, NodeOfCases

-----------------------------------------------------------------------------
(* The values of the passes.                                               *)

Sets == [defs : SUBSET Locs, mayDefs : SUBSET Locs, uses : SUBSET Locs]
Values == [must : SUBSET Locs, may : SUBSET Locs]
Ends(V) == [in : V, out : V]

(* What SolveReach computes before a node from what is after the nodes that  *)
(* lead to it, and SolveLive from what is before those it leads to.        *)
ReachOut(r, d, f, p) ==
  IF p = EntryNode(r) THEN BoundaryCondition ELSE TransferReach(d[p], f[p])
ReachIn(h, r, d, f, n) ==
  IF n = EntryNode(r) THEN TopElement
  ELSE Meet({ReachOut(r, d, f, p) : p \in Predecessors(Edges(h, r), n)})
LiveIn(h, r, d, v, f, n) ==
  IF n = ExitNode(r) THEN LiveBoundary(v, r)
  ELSE IF n = EntryNode(r) THEN AliveAfter(LiveEdges(h, r), f, n)
  ELSE TransferLive(d[n], AliveAfter(LiveEdges(h, r), f, n))

(* The values SolveReach reads off the recursive function it defines, once *)
(* a function with that recursion exists.                                  *)
LEMMA SolveReachUnfolds ==
  ASSUME NEW h, NEW r, NEW d, NEW f, f = [n \in Nodes(h, r) |-> ReachIn(h, r, d, f, n)]
  PROVE  \E in :
           /\ in = [n \in Nodes(h, r) |-> ReachIn(h, r, d, in, n)]
           /\ SolveReach(h, r, d) =
                [n \in Nodes(h, r) |->
                  [in |-> in[n],
                   out |-> IF n = EntryNode(r) THEN BoundaryCondition
                           ELSE IF n = ExitNode(r) THEN in[n]
                           ELSE TransferReach(d[n], in[n])]]
  BY Zenon DEF SolveReach, ReachIn, ReachOut

(* The same of SolveLive.                                                  *)
LEMMA SolveLiveUnfolds ==
  ASSUME NEW h, NEW r, NEW d, NEW v, NEW f,
         f = [n \in Nodes(h, r) |-> LiveIn(h, r, d, v, f, n)]
  PROVE  \E in :
           /\ in = [n \in Nodes(h, r) |-> LiveIn(h, r, d, v, in, n)]
           /\ SolveLive(h, r, d, v) =
                [n \in Nodes(h, r) |->
                  [in |-> in[n], out |-> AliveAfter(LiveEdges(h, r), in, n)]]
  BY Zenon DEF SolveLive, LiveIn

(* The types of data-flow values are kept.                                 *)
LEMMA ValueTypes ==
  /\ TopElement \in Values /\ BoundaryCondition \in Values
  /\ \A X \in SUBSET Values : Meet(X) \in Values
  /\ \A s \in Sets, v \in Values : TransferReach(s, v) \in Values
  /\ \A s \in Sets, out \in SUBSET Locs : TransferLive(s, out) \in SUBSET Locs
<1>1. TopElement \in Values /\ BoundaryCondition \in Values
  BY DEF TopElement, BoundaryCondition, Values
<1>2. \A X \in SUBSET Values : Meet(X) \in Values
  BY DEF Meet, Values
<1>3. \A s \in Sets, v \in Values : TransferReach(s, v) \in Values
  BY DEF TransferReach, Sets, Values
<1>4. \A s \in Sets, out \in SUBSET Locs : TransferLive(s, out) \in SUBSET Locs
  BY DEF TransferLive, Sets
<1> QED
  BY <1>1, <1>2, <1>3, <1>4

(* Before a node are the nodes an edge leads from, after it those an edge   *)
(* leads to.                                                               *)
LEMMA Neighbours ==
  ASSUME NEW h, Reducible(h), NEW r \in Regions(h)
  PROVE  /\ \A n : Predecessors(Edges(h, r), n) \subseteq Nodes(h, r) \ {ExitNode(r), LatchNode(r)}
         /\ \A n : Successors(LiveEdges(h, r), n) \subseteq Nodes(h, r) \ {EntryNode(r)}
         /\ \A n, m : <<n, m>> \in Edges(h, r) =>
              n \in Predecessors(Edges(h, r), m) /\ m \in Successors(LiveEdges(h, r), n)
         /\ \A n, m : m \in Successors(LiveEdges(h, r), n) =>
              \/ n \in Predecessors(Edges(h, r), m)
              \/ n = LatchNode(r) /\ m = ExitNode(r)
         /\ Latches(h, r) # {} => ExitNode(r) \in Successors(LiveEdges(h, r), LatchNode(r))
<1> DEFINE E == Edges(h, r)
           L == LiveEdges(h, r)
<1>1. \A e \in E : e[1] \in Nodes(h, r) \ {ExitNode(r), LatchNode(r)}
                   /\ e[2] \in Nodes(h, r) \ {EntryNode(r)}
  BY EdgeEnds
<1>2. \A e \in L : e \in E \/ (e = <<LatchNode(r), ExitNode(r)>> /\ Latches(h, r) # {})
  BY DEF LiveEdges
<1>3. E \subseteq L /\ (Latches(h, r) # {} => <<LatchNode(r), ExitNode(r)>> \in L)
  BY DEF LiveEdges
<1>4. ExitNode(r) \in Nodes(h, r) /\ ExitNode(r) # EntryNode(r)
  BY NodeFacts, NodeKinds
<1> HIDE DEF E, L
<1>5. /\ \A n : Predecessors(E, n) \subseteq Nodes(h, r) \ {ExitNode(r), LatchNode(r)}
      /\ \A n : Successors(L, n) \subseteq Nodes(h, r) \ {EntryNode(r)}
  BY <1>1, <1>2, <1>4 DEF Predecessors, Successors
<1>6. \A n, m : <<n, m>> \in E => n \in Predecessors(E, m) /\ m \in Successors(L, n)
  <2>1. SUFFICES ASSUME NEW n, NEW m, <<n, m>> \in E
                 PROVE  n \in Predecessors(E, m) /\ m \in Successors(L, n)
    OBVIOUS
  <2>2. <<n, m>> \in {f \in E : f[2] = m} /\ <<n, m>>[1] = n
    BY <2>1
  <2>3. <<n, m>> \in {f \in L : f[1] = n} /\ <<n, m>>[2] = m
    BY <2>1, <1>3
  <2> QED
    BY <2>2, <2>3 DEF Predecessors, Successors
<1>7. \A n, m : m \in Successors(L, n) =>
        n \in Predecessors(E, m) \/ (n = LatchNode(r) /\ m = ExitNode(r))
  <2>1. SUFFICES ASSUME NEW n, NEW m, m \in Successors(L, n)
                 PROVE  n \in Predecessors(E, m) \/ (n = LatchNode(r) /\ m = ExitNode(r))
    OBVIOUS
  <2>2. PICK e \in L : e[1] = n /\ e[2] = m
    BY <2>1 DEF Successors
  <2> QED
    BY <1>2, <2>2 DEF Predecessors
<1>8. Latches(h, r) # {} => ExitNode(r) \in Successors(L, LatchNode(r))
  <2>1. SUFFICES ASSUME Latches(h, r) # {} PROVE ExitNode(r) \in Successors(L, LatchNode(r))
    OBVIOUS
  <2>2. <<LatchNode(r), ExitNode(r)>> \in {f \in L : f[1] = LatchNode(r)}
    BY <1>3, <2>1
  <2> QED
    BY <2>2 DEF Successors
<1> QED
  BY <1>5, <1>6, <1>7, <1>8 DEF E, L

(* The values SolveReach computes satisfy the data-flow equations.         *)
LEMMA ReachEquations ==
  ASSUME NEW h, Reducible(h), NEW r \in Regions(h), NEW d \in [AllNodes(h) -> Sets]
  PROVE  /\ SolveReach(h, r, d) \in [Nodes(h, r) -> Ends(Values)]
         /\ SolveReach(h, r, d)[EntryNode(r)] = [in |-> TopElement, out |-> BoundaryCondition]
         /\ \A n \in Nodes(h, r) \ {EntryNode(r)} :
              SolveReach(h, r, d)[n].in =
                Meet({SolveReach(h, r, d)[p].out : p \in Predecessors(Edges(h, r), n)})
         /\ \A n \in Nodes(h, r) \ {EntryNode(r), ExitNode(r)} :
              SolveReach(h, r, d)[n].out = TransferReach(d[n], SolveReach(h, r, d)[n].in)
         /\ SolveReach(h, r, d)[ExitNode(r)].out = SolveReach(h, r, d)[ExitNode(r)].in
<1> DEFINE N == Nodes(h, r)
           before == [n \in N |-> Predecessors(Edges(h, r), n)]
           Out(p, f) == ReachOut(r, d, f, p)
           In(n, f) == ReachIn(h, r, d, f, n)
           step == [a \in N \X [N -> Values] |-> In(a[1], a[2])]
<1>1. before \in [N -> SUBSET N]
  BY Neighbours
<1>2. \A S \in SUBSET N : S # {} => \E n \in S : before[n] \cap S = {}
  <2>1. \A S \in SUBSET N : S # {} => \E n \in S : Predecessors(Edges(h, r), n) \cap S = {}
    BY DEF Reducible, Acyclic
  <2> QED
    BY <2>1
<1>3. \A n \in N : d[n] \in Sets
  BY NodeFacts
<1>4. \A n \in N : \A f \in [N -> Values] : step[<<n, f>>] = In(n, f)
  OBVIOUS
<1>5. \A n \in N : \A f \in [N -> Values] : In(n, f) \in Values
  <2>1. \A p \in N : \A f \in [N -> Values] : Out(p, f) \in Values
    BY <1>3, ValueTypes DEF ReachOut
  <2>2. SUFFICES ASSUME NEW n \in N, NEW f \in [N -> Values] PROVE In(n, f) \in Values
    OBVIOUS
  <2>3. {Out(p, f) : p \in Predecessors(Edges(h, r), n)} \in SUBSET Values
    BY <2>1, Neighbours
  <2> QED
    BY <2>3, ValueTypes DEF ReachIn
<1>6. \A n \in N : \A f, k \in [N -> Values] :
        (\A p \in before[n] : f[p] = k[p]) => In(n, f) = In(n, k)
  <2>1. SUFFICES ASSUME NEW n \in N, NEW f, NEW k, \A p \in before[n] : f[p] = k[p]
                 PROVE  In(n, f) = In(n, k)
    OBVIOUS
  <2>2. \A p \in Predecessors(Edges(h, r), n) : Out(p, f) = Out(p, k)
    BY <2>1 DEF ReachOut
  <2>3. {Out(p, f) : p \in Predecessors(Edges(h, r), n)}
          = {Out(p, k) : p \in Predecessors(Edges(h, r), n)}
    BY <2>2
  <2> QED
    BY <2>3 DEF ReachIn
<1> HIDE DEF before, step, N
<1>7. \E f \in [N -> Values] : \A n \in N : f[n] = step[<<n, f>>]
  <2>1. \A n \in N : \A f \in [N -> Values] : step[<<n, f>>] \in Values
    BY <1>4, <1>5
  <2>2. \A n \in N : \A f, k \in [N -> Values] :
          (\A p \in before[n] : f[p] = k[p]) => step[<<n, f>>] = step[<<n, k>>]
    BY <1>4, <1>6
  <2>3. TopElement \in Values
    BY ValueTypes
  <2>4. NoCycle(N, before)
    BY <1>1, <1>2 DEF NoCycle
  <2>5. Equations(N, Values, before, step)
    BY <2>1, <2>2, <2>3 DEF Equations
  <2> QED
    BY <2>4, <2>5, Recursion
<1>8. PICK f \in [N -> Values] : \A n \in N : f[n] = In(n, f)
  BY <1>4, <1>7
<1>9. f = [n \in N |-> In(n, f)]
  BY <1>8
<1>10. PICK in :
         /\ in = [n \in N |-> In(n, in)]
         /\ SolveReach(h, r, d) =
              [n \in N |->
                [in |-> in[n],
                 out |-> IF n = EntryNode(r) THEN BoundaryCondition
                         ELSE IF n = ExitNode(r) THEN in[n]
                         ELSE TransferReach(d[n], in[n])]]
  BY <1>9, SolveReachUnfolds DEF N
<1>11. \A n \in N : in[n] = In(n, in)
  BY <1>10
<1>12. ASSUME NEW n \in N, \A p \in before[n] : in[p] \in Values PROVE in[n] \in Values
  <2>1. \A p \in Predecessors(Edges(h, r), n) : p \in N /\ Out(p, in) \in Values
    BY <1>3, <1>12, Neighbours, ValueTypes DEF before, N, ReachOut
  <2>2. {Out(p, in) : p \in Predecessors(Edges(h, r), n)} \in SUBSET Values
    BY <2>1
  <2>3. In(n, in) \in Values
    BY <2>2, ValueTypes DEF ReachIn
  <2> QED
    BY <1>11, <2>3
<1>13. in \in [N -> Values]
  <2> DEFINE D == {n \in N : in[n] \notin Values}
  <2>1. ASSUME D # {} PROVE FALSE
    <3>1. PICK n \in D : before[n] \cap D = {}
      BY <1>2, <2>1 DEF N
    <3>2. \A p \in before[n] : in[p] \in Values
      BY <1>1, <3>1 DEF N
    <3> QED
      BY <1>12, <3>2
  <2>2. \A n \in N : in[n] \in Values
    BY <2>1
  <2>3. in = [n \in N |-> in[n]]
    BY <1>10
  <2> QED
    BY <2>2, <2>3
<1> DEFINE result == SolveReach(h, r, d)
<1>14. /\ result = [n \in N |-> result[n]]
       /\ \A n \in N :
            /\ result[n] = [in |-> in[n], out |-> result[n].out]
            /\ n # ExitNode(r) => result[n].out = Out(n, in)
       /\ result[ExitNode(r)].out = in[ExitNode(r)]
  BY <1>10, NodeFacts, NodeKinds DEF N, ReachOut
<1> HIDE DEF result
<1>15. EntryNode(r) \in N /\ ExitNode(r) \in N /\ EntryNode(r) # ExitNode(r)
  BY NodeFacts, NodeKinds DEF N
<1>16. \A n \in N : result[n] \in Ends(Values)
  <2>1. \A n \in N : result[n].out \in Values
    BY <1>3, <1>13, <1>14, ValueTypes DEF ReachOut
  <2> QED
    BY <1>13, <1>14, <2>1 DEF Ends
<1>17. in[EntryNode(r)] = TopElement
  BY <1>11, <1>15 DEF ReachIn
<1>18. \A n \in N \ {EntryNode(r)} :
         result[n].in = Meet({result[p].out : p \in Predecessors(Edges(h, r), n)})
  <2>1. SUFFICES ASSUME NEW n \in N \ {EntryNode(r)}
        PROVE  result[n].in = Meet({result[p].out : p \in Predecessors(Edges(h, r), n)})
    OBVIOUS
  <2>2. \A p \in Predecessors(Edges(h, r), n) : result[p].out = Out(p, in)
    BY <1>14, Neighbours DEF N
  <2>3. {result[p].out : p \in Predecessors(Edges(h, r), n)}
          = {Out(p, in) : p \in Predecessors(Edges(h, r), n)}
    BY <2>2
  <2>4. result[n].in = In(n, in)
    BY <1>11, <1>14
  <2> QED
    BY <2>3, <2>4 DEF ReachIn
<1>19. result[EntryNode(r)] = [in |-> TopElement, out |-> BoundaryCondition]
  BY <1>14, <1>15, <1>17 DEF ReachOut
<1>20. \A n \in N \ {EntryNode(r), ExitNode(r)} :
         result[n].out = TransferReach(d[n], result[n].in)
  BY <1>14 DEF ReachOut
<1>21. result[ExitNode(r)].out = result[ExitNode(r)].in
  BY <1>14, <1>15
<1>22. result \in [N -> Ends(Values)]
  BY <1>14, <1>16
<1> QED
  BY <1>18, <1>19, <1>20, <1>21, <1>22 DEF result, N

(* The values SolveLive computes satisfy the data-flow equations.          *)
IsLive(h, r, d, v, values) ==
  /\ values[ExitNode(r)].in = LiveBoundary(v, r)
  /\ \A n \in Nodes(h, r) :
       values[n].out = UNION {values[s].in : s \in Successors(LiveEdges(h, r), n)}
  /\ \A n \in Nodes(h, r) \ {EntryNode(r), ExitNode(r)} :
       values[n].in = TransferLive(d[n], values[n].out)

(* The values SolveLive computes satisfy the data-flow equations.          *)
LEMMA LiveEquations ==
  ASSUME NEW h, Reducible(h), NEW r \in Regions(h), NEW d \in [AllNodes(h) -> Sets],
         NEW v \in [AllNodes(h) -> Ends(SUBSET Locs)]
  PROVE  /\ SolveLive(h, r, d, v) \in [Nodes(h, r) -> Ends(SUBSET Locs)]
         /\ IsLive(h, r, d, v, SolveLive(h, r, d, v))
<1> DEFINE N == Nodes(h, r)
           V == SUBSET Locs
           after == [n \in N |-> Successors(LiveEdges(h, r), n)]
           Out(n, f) == AliveAfter(LiveEdges(h, r), f, n)
           In(n, f) == LiveIn(h, r, d, v, f, n)
           step == [a \in N \X [N -> V] |-> In(a[1], a[2])]
<1>0. ExitNode(r) \in N /\ LatchNode(r) \notin {ExitNode(r)} /\ EntryNode(r) # ExitNode(r)
  BY NodeFacts, NodeKinds
<1>1. after \in [N -> SUBSET N]
  BY Neighbours
<1>2. \A S \in SUBSET N : S # {} => \E n \in S : after[n] \cap S = {}
  <2>1. SUFFICES ASSUME NEW S \in SUBSET N, S # {} PROVE \E n \in S : after[n] \cap S = {}
    OBVIOUS
  <2>2. CASE ExitNode(r) \in S
    <3>1. Successors(LiveEdges(h, r), ExitNode(r)) = {}
      <4>1. ASSUME NEW m \in Successors(LiveEdges(h, r), ExitNode(r)) PROVE FALSE
        <5>1. ExitNode(r) \in Predecessors(Edges(h, r), m)
          BY <1>0, <4>1, Neighbours
        <5> QED
          BY <5>1, Neighbours
      <4> QED
        BY <4>1
    <3> QED
      BY <2>2, <3>1
  <2>3. CASE ExitNode(r) \notin S
    <3>1. PICK n \in S : Successors(Edges(h, r), n) \cap S = {}
      BY <2>1 DEF Reducible, Acyclic
    <3>2. Successors(LiveEdges(h, r), n) \subseteq Successors(Edges(h, r), n) \cup {ExitNode(r)}
      BY DEF Successors, LiveEdges
    <3> QED
      BY <2>3, <3>1, <3>2
  <2> QED
    BY <2>2, <2>3
<1>3. /\ \A n \in N : d[n] \in Sets
      /\ LiveBoundary(v, r) \in V
  <2>1. v[RegionNode(r)] \in Ends(V)
    BY NodeFacts
  <2> QED
    BY <2>1, NodeFacts DEF LiveBoundary, Ends
<1>4. \A n \in N : \A f \in [N -> V] : step[<<n, f>>] = In(n, f)
  OBVIOUS
<1>5. \A n \in N, f \in [N -> V] : Out(n, f) \in V
  BY Neighbours DEF AliveAfter
<1>6. \A n \in N, f \in [N -> V] : In(n, f) \in V
  BY <1>3, <1>5, ValueTypes DEF LiveIn
<1>7. \A n \in N, f, k \in [N -> V] : (\A p \in after[n] : f[p] = k[p]) => Out(n, f) = Out(n, k)
  <2>1. SUFFICES ASSUME NEW n \in N, NEW f, NEW k, \A p \in after[n] : f[p] = k[p]
                 PROVE  Out(n, f) = Out(n, k)
    OBVIOUS
  <2>2. \A p \in Successors(LiveEdges(h, r), n) : f[p] = k[p]
    BY <2>1
  <2>3. {f[s] : s \in Successors(LiveEdges(h, r), n)} = {k[s] : s \in Successors(LiveEdges(h, r), n)}
    BY <2>2
  <2> QED
    BY <2>3 DEF AliveAfter
<1>8. \A n \in N, f, k \in [N -> V] : (\A p \in after[n] : f[p] = k[p]) => In(n, f) = In(n, k)
  BY <1>7 DEF LiveIn
<1> HIDE DEF after, step, N, V
<1>9. \E f \in [N -> V] : \A n \in N : f[n] = step[<<n, f>>]
  <2>1. \A n \in N : \A f \in [N -> V] : step[<<n, f>>] \in V
    BY <1>4, <1>6
  <2>2. \A n \in N : \A f, k \in [N -> V] :
          (\A p \in after[n] : f[p] = k[p]) => step[<<n, f>>] = step[<<n, k>>]
    BY <1>4, <1>8
  <2>3. NoCycle(N, after)
    BY <1>1, <1>2 DEF NoCycle
  <2>4. Equations(N, V, after, step)
    BY <2>1, <2>2 DEF Equations, V
  <2> QED
    BY <2>3, <2>4, Recursion
<1>10. PICK f \in [N -> V] : \A n \in N : f[n] = In(n, f)
  BY <1>4, <1>9
<1>11. f = [n \in N |-> In(n, f)]
  BY <1>10
<1>12. PICK in :
         /\ in = [n \in N |-> In(n, in)]
         /\ SolveLive(h, r, d, v) = [n \in N |-> [in |-> in[n], out |-> Out(n, in)]]
  BY <1>11, SolveLiveUnfolds DEF N
<1>13. \A n \in N : in[n] = In(n, in)
  BY <1>12
<1>14. ASSUME NEW n \in N, \A p \in after[n] : in[p] \in V PROVE in[n] \in V
  <2>1. \A p \in Successors(LiveEdges(h, r), n) : in[p] \in V
    BY <1>14 DEF after
  <2>2. Out(n, in) \in V
    BY <2>1 DEF AliveAfter, V
  <2>3. In(n, in) \in V
    BY <1>3, <2>2, ValueTypes DEF LiveIn, V
  <2> QED
    BY <1>13, <2>3
<1>15. in \in [N -> V]
  <2> DEFINE D == {n \in N : in[n] \notin V}
  <2>1. ASSUME D # {} PROVE FALSE
    <3>1. PICK n \in D : after[n] \cap D = {}
      BY <1>2, <2>1
    <3>2. \A p \in after[n] : in[p] \in V
      BY <1>1, <3>1
    <3> QED
      BY <1>14, <3>2
  <2>2. \A n \in N : in[n] \in V
    BY <2>1
  <2>3. in = [n \in N |-> in[n]]
    BY <1>12
  <2> QED
    BY <2>2, <2>3
<1> DEFINE result == SolveLive(h, r, d, v)
<1>16. /\ result = [n \in N |-> result[n]]
       /\ \A n \in N : result[n] = [in |-> in[n], out |-> Out(n, in)]
  BY <1>12
<1> HIDE DEF result
<1>17. \A n \in N : result[n] \in Ends(V)
  BY <1>5, <1>15, <1>16 DEF Ends
<1>18. \A n \in N : result[n].out = UNION {result[s].in : s \in Successors(LiveEdges(h, r), n)}
  <2>1. SUFFICES ASSUME NEW n \in N
        PROVE  result[n].out = UNION {result[s].in : s \in Successors(LiveEdges(h, r), n)}
    OBVIOUS
  <2>2. \A s \in Successors(LiveEdges(h, r), n) : result[s].in = in[s]
    BY <1>16, Neighbours DEF N
  <2>3. {result[s].in : s \in Successors(LiveEdges(h, r), n)}
          = {in[s] : s \in Successors(LiveEdges(h, r), n)}
    BY <2>2
  <2>4. result[n].out = Out(n, in)
    BY <1>16
  <2>5. Out(n, in) = UNION {in[s] : s \in Successors(LiveEdges(h, r), n)}
    BY Zenon DEF AliveAfter
  <2> QED
    BY <2>3, <2>4, <2>5
<1>19. \A n \in N \ {EntryNode(r), ExitNode(r)} :
         result[n].in = TransferLive(d[n], result[n].out)
  BY <1>13, <1>16 DEF LiveIn
<1>20. result[ExitNode(r)].in = LiveBoundary(v, r)
  BY <1>0, <1>13, <1>16 DEF LiveIn
<1>21. result \in [N -> Ends(V)]
  BY <1>16, <1>17
<1>22. IsLive(h, r, d, v, result)
  BY <1>18, <1>19, <1>20 DEF IsLive, N
<1> QED
  BY <1>21, <1>22 DEF result, N, V

-----------------------------------------------------------------------------
(* What the accesses of a block add up to.                                 *)
IsAccess(accesses, op, x, i) == accesses[i].op = op /\ accesses[i].loc = x
ReadsFirst(accesses, x, n) ==
  \E i \in 1..n : /\ IsAccess(accesses, "read", x, i)
                  /\ \A k \in 1..(i - 1) : ~IsAccess(accesses, "write", x, k)

(* BlockDefUse is the last of the sets after each access, once a function  *)
(* with that recursion exists.                                             *)
LEMMA BlockUnfolds ==
  ASSUME NEW accesses, NEW f,
         f = [i \in 0..Len(accesses) |->
                IF i = 0 THEN Nothing ELSE AddAccess(f[i - 1], accesses[i])]
  PROVE  \E after :
           /\ after = [i \in 0..Len(accesses) |->
                         IF i = 0 THEN Nothing ELSE AddAccess(after[i - 1], accesses[i])]
           /\ BlockDefUse(accesses) = after[Len(accesses)]
  BY Zenon DEF BlockDefUse

(* What one access adds to the sets of a block.                            *)
LEMMA AddedAccess ==
  ASSUME NEW s \in Sets, NEW a \in [op : {"read", "write", "maywrite"}, loc : Locs]
  PROVE  /\ AddAccess(s, a) \in Sets
         /\ AddAccess(s, a).defs = s.defs \cup (IF a.op = "write" THEN {a.loc} ELSE {})
         /\ AddAccess(s, a).uses =
              s.uses \cup (IF a.op = "read" /\ a.loc \notin s.defs THEN {a.loc} ELSE {})
         /\ s.mayDefs \subseteq AddAccess(s, a).mayDefs
         /\ a.op = "maywrite" => a.loc \in AddAccess(s, a).defs \cup AddAccess(s, a).mayDefs
<1>1. CASE a.loc \in s.defs
  BY <1>1 DEF AddAccess, Sets
<1>2. CASE a.loc \notin s.defs /\ a.op = "read"
  <2>1. AddAccess(s, a) = [s EXCEPT !.uses = @ \cup {a.loc}]
    BY <1>2 DEF AddAccess
  <2> QED
    BY <1>2, <2>1 DEF Sets
<1>3. CASE a.loc \notin s.defs /\ a.op = "write"
  <2>1. AddAccess(s, a) = [s EXCEPT !.defs = @ \cup {a.loc}]
    BY <1>3 DEF AddAccess
  <2> QED
    BY <1>3, <2>1 DEF Sets
<1>4. CASE a.loc \notin s.defs /\ a.op = "maywrite"
  <2>1. AddAccess(s, a) = [s EXCEPT !.mayDefs = @ \cup {a.loc}]
    BY <1>4 DEF AddAccess
  <2> QED
    BY <1>4, <2>1 DEF Sets
<1> QED
  BY <1>1, <1>2, <1>3, <1>4

(* The sets of a block: what it surely writes, what it reads before it has *)
(* surely written it, and what it may write.                               *)
LEMMA BlockSets ==
  ASSUME NEW accesses \in Bodies
  PROVE  /\ BlockDefUse(accesses) \in Sets
         /\ \A x \in Locs :
              /\ x \in BlockDefUse(accesses).defs <=>
                   \E i \in 1..Len(accesses) : IsAccess(accesses, "write", x, i)
              /\ x \in BlockDefUse(accesses).uses <=> ReadsFirst(accesses, x, Len(accesses))
              /\ \A i \in 1..Len(accesses) : IsAccess(accesses, "maywrite", x, i) =>
                   x \in BlockDefUse(accesses).defs \cup BlockDefUse(accesses).mayDefs
<1> DEFINE n == Len(accesses)
           N == 0..n
           before == [i \in N |-> IF i = 0 THEN {} ELSE {i - 1}]
           Step(i, f) == IF i = 0 THEN Nothing ELSE AddAccess(f[i - 1], accesses[i])
           step == [a \in N \X [N -> Sets] |-> Step(a[1], a[2])]
<1>1. /\ n \in Nat
      /\ \A i \in 1..n : accesses[i] \in [op : {"read", "write", "maywrite"}, loc : Locs]
  <2> DEFINE A == [op : {"read", "write", "maywrite"}, loc : Locs]
  <2>1. accesses \in Seq(A)
    BY Inputs
  <2> HIDE DEF A
  <2>2. n \in Nat /\ \A i \in 1..n : accesses[i] \in A
    BY <2>1
  <2> QED
    BY <2>2 DEF A
<1> HIDE DEF n
<1>2. \A S \in SUBSET N : S # {} => \E i \in S : before[i] \cap S = {}
  <2>1. SUFFICES ASSUME NEW S \in SUBSET N, S # {} PROVE \E i \in S : before[i] \cap S = {}
    OBVIOUS
  <2>2. PICK i \in S : \A k \in S : i <= k
    BY <1>1, <2>1, LeastNat
  <2> QED
    BY <1>1, <2>2
<1>3. before \in [N -> SUBSET N]
  BY <1>1
<1>4. Nothing \in Sets
  BY DEF Nothing, Sets
<1>5. \A i \in N, f \in [N -> Sets] : step[<<i, f>>] = Step(i, f)
  OBVIOUS
<1>6. \A i \in N, f \in [N -> Sets] : Step(i, f) \in Sets
  <2>1. SUFFICES ASSUME NEW i \in N, NEW f \in [N -> Sets], i # 0
                 PROVE  AddAccess(f[i - 1], accesses[i]) \in Sets
    BY <1>4
  <2>2. i \in 1..n /\ i - 1 \in N
    BY <1>1, <2>1
  <2>3. f[i - 1] \in Sets
    BY <2>2
  <2> QED
    BY <1>1, <2>2, <2>3, AddedAccess
<1>7. \A i \in N, f, k \in [N -> Sets] :
        (\A p \in before[i] : f[p] = k[p]) => Step(i, f) = Step(i, k)
  BY <1>1
<1> HIDE DEF before, step, N
<1>8. \E f \in [N -> Sets] : \A i \in N : f[i] = step[<<i, f>>]
  <2>1. \A i \in N : \A f \in [N -> Sets] : step[<<i, f>>] \in Sets
    BY <1>5, <1>6
  <2>2. \A i \in N : \A f, k \in [N -> Sets] :
          (\A p \in before[i] : f[p] = k[p]) => step[<<i, f>>] = step[<<i, k>>]
    BY <1>5, <1>7
  <2>3. NoCycle(N, before)
    BY <1>2, <1>3 DEF NoCycle
  <2>4. Equations(N, Sets, before, step)
    BY <1>4, <2>1, <2>2 DEF Equations
  <2> QED
    BY <2>3, <2>4, Recursion
<1>9. PICK f \in [N -> Sets] : \A i \in N : f[i] = Step(i, f)
  BY <1>5, <1>8
<1>10. f = [i \in N |-> Step(i, f)]
  BY <1>9
<1>11. PICK after : /\ after = [i \in N |-> Step(i, after)]
                    /\ BlockDefUse(accesses) = after[n]
  BY <1>10, BlockUnfolds DEF N, n
<1>12. \A i \in N : after[i] = Step(i, after)
  BY <1>11
<1> DEFINE Right(i) ==
      /\ after[i] \in Sets
      /\ \A x \in Locs :
           /\ x \in after[i].defs <=> \E k \in 1..i : IsAccess(accesses, "write", x, k)
           /\ x \in after[i].uses <=> ReadsFirst(accesses, x, i)
           /\ \A k \in 1..i : IsAccess(accesses, "maywrite", x, k) =>
                x \in after[i].defs \cup after[i].mayDefs
<1>13. Right(0)
  <2>1. after[0] = Nothing
    BY <1>1, <1>12 DEF N
  <2>2. 1..0 = {}
    OBVIOUS
  <2> QED
    BY <1>4, <2>1, <2>2 DEF Nothing, ReadsFirst
<1>14. ASSUME NEW i \in 1..n, Right(i - 1) PROVE Right(i)
  <2> DEFINE a == accesses[i]
             s == after[i - 1]
  <2>1. i \in N /\ i # 0 /\ i \in Nat /\ i - 1 \in Nat
    BY <1>1 DEF N
  <2>2. after[i] = AddAccess(s, a)
    BY <1>12, <2>1
  <2>3. a \in [op : {"read", "write", "maywrite"}, loc : Locs]
    BY <1>1
  <2>4. s \in Sets
    BY <1>14
  <2>5. 1..i = 1..(i - 1) \cup {i}
    BY <2>1
  <2>6. /\ after[i] \in Sets
        /\ after[i].defs = s.defs \cup (IF a.op = "write" THEN {a.loc} ELSE {})
        /\ after[i].uses =
              s.uses \cup (IF a.op = "read" /\ a.loc \notin s.defs THEN {a.loc} ELSE {})
        /\ s.mayDefs \subseteq after[i].mayDefs
        /\ a.op = "maywrite" => a.loc \in after[i].defs \cup after[i].mayDefs
    BY <2>2, <2>3, <2>4, AddedAccess
  <2> HIDE DEF s
  <2>7. ASSUME NEW x \in Locs
        PROVE  /\ x \in after[i].defs <=> \E k \in 1..i : IsAccess(accesses, "write", x, k)
               /\ \A k \in 1..i : IsAccess(accesses, "maywrite", x, k) =>
                    x \in after[i].defs \cup after[i].mayDefs
    BY <1>14, <2>5, <2>6 DEF IsAccess, s
  <2>8. ASSUME NEW x \in Locs PROVE x \in after[i].uses <=> ReadsFirst(accesses, x, i)
    <3>1. ReadsFirst(accesses, x, i) <=>
            \/ ReadsFirst(accesses, x, i - 1)
            \/ /\ IsAccess(accesses, "read", x, i)
               /\ \A k \in 1..(i - 1) : ~IsAccess(accesses, "write", x, k)
      BY <2>5 DEF ReadsFirst
    <3>2. (\A k \in 1..(i - 1) : ~IsAccess(accesses, "write", x, k)) <=> x \notin s.defs
      BY <1>14 DEF s
    <3>3. ReadsFirst(accesses, x, i - 1) <=> x \in s.uses
      BY <1>14 DEF s
    <3> QED
      BY <2>6, <3>1, <3>2, <3>3 DEF IsAccess
  <2> QED
    BY <2>6, <2>7, <2>8
<1> HIDE DEF Right
<1>15. \A i \in N : Right(i)
  <2> DEFINE W == {i \in N : ~Right(i)}
  <2>1. ASSUME W # {} PROVE FALSE
    <3>1. W \in SUBSET Nat
      BY <1>1 DEF N
    <3>2. PICK i \in W : \A k \in W : i <= k
      BY <2>1, <3>1, LeastNat
    <3>3. i # 0 /\ i \in 1..n /\ i - 1 \in N
      BY <1>1, <1>13, <3>2 DEF N
    <3>4. Right(i - 1)
      BY <1>1, <3>2, <3>3
    <3> QED
      BY <1>14, <3>2, <3>3, <3>4
  <2> QED
    BY <2>1
<1>16. Right(n)
  BY <1>1, <1>15 DEF N
<1> QED
  BY <1>11, <1>16 DEF Right, n

-----------------------------------------------------------------------------
(* What collapse() makes of the nodes of a region.                         *)

(* What collapse() keeps of the nodes of a region, and why a location is   *)
(* among what the region always defines.                                   *)
LEMMA CollapseFacts ==
  ASSUME NEW h, NEW r, NEW d, NEW v, NEW t
  PROVE  /\ \A n \in BodyNodes(h, r) : \A x \in d[n].defs \cup d[n].mayDefs :
              x \in Collapse(h, r, d, v, t).defs \cup Collapse(h, r, d, v, t).mayDefs
         /\ \A n \in BodyNodes(h, r) : \A x \in d[n].uses \ v[n].in.must :
              x \in Collapse(h, r, d, v, t).uses
         /\ \A x \in Collapse(h, r, d, v, t).defs :
              \/ x \in v[ExitNode(r)].out.must
              \/ r # Fn /\ t /\ x \in v[LatchNode(r)].out.must
<1> DEFINE B == BodyNodes(h, r)
           s == Collapse(h, r, d, v, t)
           defs == UNION {d[n].defs : n \in B}
           may == UNION {d[n].mayDefs : n \in B}
           always == AlwaysDefined(v, r, t)
           uses == UNION {d[n].uses \ v[n].in.must : n \in B}
<1>0. s = [defs |-> defs \cap always,
           mayDefs |-> may \cup (defs \ v[ExitNode(r)].out.must)
                           \cup (IF r # Fn /\ t
                                 THEN defs \ v[LatchNode(r)].out.must ELSE {}),
           uses |-> uses]
  BY Zenon DEF Collapse
<1>1. /\ s.defs = defs \cap always
      /\ s.mayDefs = may \cup (defs \ v[ExitNode(r)].out.must)
                    \cup (IF r # Fn /\ t THEN defs \ v[LatchNode(r)].out.must ELSE {})
      /\ s.uses = uses
  <2> HIDE DEF s, defs, may, uses, always
  <2> QED
    BY <1>0
<1>2. always = v[ExitNode(r)].out.must
                 \cup (IF r # Fn /\ t THEN v[LatchNode(r)].out.must ELSE {})
  BY DEF AlwaysDefined
<1> HIDE DEF B, s, always
<1>3. ASSUME NEW n \in B, NEW x \in d[n].defs \cup d[n].mayDefs
      PROVE  x \in s.defs \cup s.mayDefs
  <2>1. x \in defs \/ x \in may
    BY <1>3
  <2> HIDE DEF defs, may
  <2> QED
    BY <1>1, <1>2, <2>1
<1>4. \A n \in B : \A x \in d[n].uses \ v[n].in.must : x \in s.uses
  BY <1>1
<1> HIDE DEF defs
<1>5. \A x \in s.defs : x \in v[ExitNode(r)].out.must
                       \/ (r # Fn /\ t /\ x \in v[LatchNode(r)].out.must)
  BY <1>1, <1>2
<1> QED
  BY <1>3, <1>4, <1>5 DEF B, s

(* Collapsed sets are sets of locations.                                   *)
LEMMA CollapseType ==
  ASSUME NEW h, NEW r, NEW d, NEW v, NEW t, \A n \in BodyNodes(h, r) : d[n] \in Sets
  PROVE  Collapse(h, r, d, v, t) \in Sets
<1>1. \A n \in BodyNodes(h, r) :
        d[n].defs \subseteq Locs /\ d[n].mayDefs \subseteq Locs /\ d[n].uses \subseteq Locs
  BY DEF Sets
<1> DEFINE B == BodyNodes(h, r)
           s == Collapse(h, r, d, v, t)
           defs == UNION {d[n].defs : n \in B}
           may == UNION {d[n].mayDefs : n \in B}
           uses == UNION {d[n].uses \ v[n].in.must : n \in B}
<1>2. defs \subseteq Locs /\ may \subseteq Locs /\ uses \subseteq Locs
  BY <1>1
<1>0. s = [defs |-> defs \cap AlwaysDefined(v, r, t),
           mayDefs |-> may \cup (defs \ v[ExitNode(r)].out.must)
                           \cup (IF r # Fn /\ t
                                 THEN defs \ v[LatchNode(r)].out.must ELSE {}),
           uses |-> uses]
  BY Zenon DEF Collapse
<1>3. /\ s = [defs |-> s.defs, mayDefs |-> s.mayDefs, uses |-> s.uses]
      /\ s.defs \subseteq defs /\ s.mayDefs \subseteq may \cup defs /\ s.uses = uses
  <2> HIDE DEF s, defs, may, uses
  <2> QED
    BY <1>0
<1> HIDE DEF s, defs, may, uses
<1>4. s.defs \subseteq Locs /\ s.mayDefs \subseteq Locs /\ s.uses \subseteq Locs
  BY <1>2, <1>3
<1> QED
  BY <1>3, <1>4 DEF Sets, s

(* Collapsing depends on the nodes of the region only.                     *)
LEMMA CollapseAgrees ==
  ASSUME NEW h, NEW r, NEW d, NEW v, NEW t, NEW d2, NEW v2,
         \A n \in BodyNodes(h, r) : d[n] = d2[n] /\ v[n] = v2[n],
         v[ExitNode(r)] = v2[ExitNode(r)],
         r # Fn => v[LatchNode(r)] = v2[LatchNode(r)]
  PROVE  Collapse(h, r, d, v, t) = Collapse(h, r, d2, v2, t)
<1> DEFINE B == BodyNodes(h, r)
<1> HIDE DEF B
<1>0. \A n \in B : d[n] = d2[n] /\ v[n] = v2[n]
  BY DEF B
<1>1. {d[n].defs : n \in B} = {d2[n].defs : n \in B}
  BY <1>0
<1>2. {d[n].mayDefs : n \in B} = {d2[n].mayDefs : n \in B}
  BY <1>0
<1>3. {d[n].uses \ v[n].in.must : n \in B} = {d2[n].uses \ v2[n].in.must : n \in B}
  BY <1>0
<1>4. AlwaysDefined(v, r, t) = AlwaysDefined(v2, r, t)
  BY DEF AlwaysDefined
<1>5. (IF r # Fn /\ t THEN UNION {d[n].defs : n \in B} \ v[LatchNode(r)].out.must ELSE {})
        = (IF r # Fn /\ t THEN UNION {d[n].defs : n \in B} \ v2[LatchNode(r)].out.must ELSE {})
  OBVIOUS
<1> QED
  BY <1>1, <1>2, <1>3, <1>4, <1>5 DEF Collapse, B

(* The function that is analysed.                                          *)
LEMMA Analysed ==
  ASSUME prog \in Functions
  PROVE  /\ g \in Graphs /\ Reducible(g)
         /\ prog.accesses \in [g.blocks -> Bodies]
         /\ prog.own \subseteq Locs
         /\ prog.count \in [Loops(g) -> Counts \cup {Unknown}]
         /\ g.blocks \subseteq Nat \ {0}
<1>1. PICK h \in Graphs :
        prog \in [graph : {h}, accesses : [h.blocks -> Bodies], own : SUBSET Locs,
                  count : {c \in [Loops(h) -> Counts \cup {Unknown}] :
                             \A l \in Loops(h) : c[l] # Unknown => Countable(h, l)}]
  BY DEF Functions
<1>2. g = h
  BY <1>1 DEF g
<1>3. Reducible(g)
  BY <1>2, Inputs
<1>4. g.blocks \subseteq Nat \ {0}
  BY <1>3 DEF Reducible, ControlFlow, Fn
<1> QED
  BY <1>1, <1>2, <1>3, <1>4

-----------------------------------------------------------------------------
(* The passes.  A region that is solved, or lived, satisfies its data-flow  *)
(* equations from then on, and its node stands for what is inside.         *)
Solved(r) ==
  /\ reach[EntryNode(r)] = [in |-> TopElement, out |-> BoundaryCondition]
  /\ \A n \in Nodes(g, r) \ {EntryNode(r)} :
       reach[n].in = Meet({reach[p].out : p \in Predecessors(Edges(g, r), n)})
  /\ \A n \in Nodes(g, r) \ {EntryNode(r), ExitNode(r)} :
       reach[n].out = TransferReach(du[n], reach[n].in)
  /\ reach[ExitNode(r)].out = reach[ExitNode(r)].in
  /\ du[RegionNode(r)] = Collapse(g, r, du, reach, HasTrips(r))
Lived(r) ==
  /\ live[ExitNode(r)].in = live[RegionNode(r)].in \cup live[RegionNode(r)].out
  /\ \A n \in Nodes(g, r) :
       live[n].out = UNION {live[s].in : s \in Successors(LiveEdges(g, r), n)}
  /\ \A n \in Nodes(g, r) \ {EntryNode(r), ExitNode(r)} :
       live[n].in = TransferLive(du[n], live[n].out)
  /\ r = Fn => live[RegionNode(Fn)].out = LiveAfterFunction(du[RegionNode(Fn)], prog.own)

PassTypes ==
  /\ prog \in Functions
  /\ du \in [AllNodes(g) -> Sets]
  /\ reach \in [AllNodes(g) -> Ends(Values)]
  /\ live \in [AllNodes(g) -> Ends(SUBSET Locs)]
  /\ DOMAIN traits = Loops(g)
  /\ solved \subseteq Regions(g) /\ lived \subseteq Regions(g) /\ resolved \subseteq Loops(g)
BlocksKnown ==
  \A r \in Regions(g) :
    /\ \A b \in Body(g, r) : BlockNode(b) \in Nodes(g, r) =>
         du[BlockNode(b)] = BlockDefUse(prog.accesses[b])
    /\ Latches(g, r) # {} => du[LatchNode(r)] = Nothing
PassesInOrder ==
  /\ \A r \in solved : InnerLoops(g, r) \subseteq solved
  /\ lived # {} => solved = Regions(g)
  /\ \A l \in lived \ {Fn} : Parent(g, l) \in lived
  /\ resolved # {} => lived = Regions(g)
  /\ at.block # Idle => lived = Regions(g) /\ resolved = Loops(g)
Passes ==
  /\ PassTypes /\ BlocksKnown /\ PassesInOrder
  /\ \A r \in solved : Solved(r)
  /\ \A r \in lived : Lived(r)
  /\ \A l \in resolved : traits[l] = [x \in Locs |-> ResolveAccess(l, x)]

(* A node of a solved region is not a node of one that is not.             *)
LEMMA SolvedApart ==
  ASSUME Passes, NEW r \in solved, NEW q \in Regions(g), q \notin solved
  PROVE  /\ \A n \in Nodes(g, r) : n \notin Nodes(g, q) /\ n # RegionNode(q)
         /\ RegionNode(r) # RegionNode(q)
<1>1. prog \in Functions /\ r \in Regions(g) /\ InnerLoops(g, r) \subseteq solved
  BY DEF Passes, PassTypes, PassesInOrder
<1>2. Reducible(g)
  BY <1>1, Analysed
<1> QED
  BY <1>1, <1>2, NodesDisjoint, NodeKinds, NodeNames

(* Before the passes start nothing is claimed of any region.               *)
LEMMA PassesInit ==
  ASSUME Init
  PROVE  Passes
<1>1. prog \in Functions
  BY DEF Init
<1>2. Reducible(g) /\ prog.accesses \in [g.blocks -> Bodies]
  BY <1>1, Analysed
<1>3. ASSUME NEW n \in AllNodes(g), n[1] = "block"
      PROVE  \E b \in g.blocks : n = BlockNode(b)
  <2>1. \A r : RegionNode(r)[1] # "block"
    BY DEF RegionNode
  <2>2. PICK r \in Regions(g) : n \in Nodes(g, r)
    BY <1>3, <2>1 DEF AllNodes
  <2>3. n \in BodyNodes(g, r)
    <3>1. n \in BodyNodes(g, r) \cup {EntryNode(r), ExitNode(r), LatchNode(r)}
      BY <1>2, <2>2, NodeFacts
    <3>2. EntryNode(r)[1] # "block" /\ ExitNode(r)[1] # "block" /\ LatchNode(r)[1] # "block"
      BY DEF EntryNode, ExitNode, LatchNode
    <3> QED
      BY <1>3, <3>1, <3>2
  <2>4. PICK b \in Body(g, r) : n = BlockNode(b)
    BY <1>2, <1>3, <2>1, <2>3, NodeFacts
  <2> QED
    BY <1>2, <2>4, RegionBodies
<1>4. \A n \in AllNodes(g) :
        du[n] = IF n[1] = "block" THEN BlockDefUse(prog.accesses[n[2]]) ELSE Nothing
  BY DEF Init
<1>5. \A b : BlockNode(b)[1] = "block" /\ BlockNode(b)[2] = b
  BY DEF BlockNode
<1>6. du \in [AllNodes(g) -> Sets]
  <2>1. Nothing \in Sets
    BY DEF Nothing, Sets
  <2>2. ASSUME NEW n \in AllNodes(g) PROVE du[n] \in Sets
    <3>1. CASE n[1] = "block"
      <4>1. PICK b \in g.blocks : n = BlockNode(b)
        BY <1>3, <3>1
      <4>2. du[n] = BlockDefUse(prog.accesses[b])
        BY <1>4, <1>5, <4>1
      <4> QED
        BY <1>2, <4>2, BlockSets
    <3> QED
      BY <1>4, <2>1, <3>1
  <2>3. du = [n \in AllNodes(g) |-> du[n]]
    BY DEF Init
  <2> QED
    BY <2>2, <2>3
<1>7. reach \in [AllNodes(g) -> Ends(Values)]
  BY ValueTypes DEF Init, Ends
<1>8. live \in [AllNodes(g) -> Ends(SUBSET Locs)]
  BY DEF Init, Ends
<1>9. PassTypes
  BY <1>1, <1>6, <1>7, <1>8 DEF PassTypes, Init
<1>10. BlocksKnown
  <2>1. \A r : LatchNode(r)[1] # "block"
    BY DEF LatchNode
  <2>2. \A r \in Regions(g) : Nodes(g, r) \subseteq AllNodes(g)
    BY DEF AllNodes
  <2>3. \A r \in Regions(g) : Latches(g, r) # {} => LatchNode(r) \in AllNodes(g)
    BY <1>2, <2>2, NodeFacts
  <2> QED
    BY <1>4, <1>5, <2>1, <2>2, <2>3 DEF BlocksKnown
<1>11. PassesInOrder
  BY DEF Init, PassesInOrder
<1> QED
  BY <1>9, <1>10, <1>11 DEF Passes, Init

(* Every loop has a latch, which is a node of it.                          *)
LEMMA LatchOfLoop ==
  ASSUME NEW h, Reducible(h), NEW l \in Loops(h)
  PROVE  /\ Latches(h, l) # {} /\ LatchNode(l) \in Nodes(h, l)
         /\ ExitNode(l) \in Successors(LiveEdges(h, l), LatchNode(l))
<1>1. Latches(h, l) # {}
  BY DEF Reducible, NaturalLoops
<1>2. l \in Regions(h)
  BY DEF Regions
<1> QED
  BY <1>1, <1>2, NodeFacts, Neighbours

(* A region stays solved while the values of its nodes are kept.           *)
LEMMA SolvedKept ==
  ASSUME prog \in Functions, prog' = prog, NEW r \in Regions(g), Solved(r),
         \A n \in Nodes(g, r) : reach'[n] = reach[n] /\ du'[n] = du[n],
         du'[RegionNode(r)] = du[RegionNode(r)]
  PROVE  Solved(r)'
<1>1. Reducible(g)
  BY Analysed
<1>2. g' = g
  BY DEF g
<1>3. EntryNode(r) \in Nodes(g, r) /\ ExitNode(r) \in Nodes(g, r) /\ BodyNodes(g, r) \subseteq Nodes(g, r)
  BY <1>1, NodeFacts
<1>4. r # Fn => LatchNode(r) \in Nodes(g, r)
  BY <1>1, LatchOfLoop DEF Regions
<1>5. \A n : Predecessors(Edges(g, r), n) \subseteq Nodes(g, r)
  BY <1>1, Neighbours
<1>6. HasTrips(r)' = HasTrips(r)
  BY DEF HasTrips, TripCount
<1>7. Collapse(g, r, du', reach', HasTrips(r)) = Collapse(g, r, du, reach, HasTrips(r))
  <2>1. /\ \A n \in BodyNodes(g, r) : du'[n] = du[n] /\ reach'[n] = reach[n]
        /\ reach'[ExitNode(r)] = reach[ExitNode(r)]
        /\ r # Fn => reach'[LatchNode(r)] = reach[LatchNode(r)]
    BY <1>3, <1>4
  <2> QED
    BY <2>1, CollapseAgrees
<1>8. \A n \in Nodes(g, r) \ {EntryNode(r)} :
        reach'[n].in = Meet({reach'[p].out : p \in Predecessors(Edges(g, r), n)})
  <2>1. SUFFICES ASSUME NEW n \in Nodes(g, r) \ {EntryNode(r)}
        PROVE  reach'[n].in = Meet({reach'[p].out : p \in Predecessors(Edges(g, r), n)})
    OBVIOUS
  <2>2. {reach'[p].out : p \in Predecessors(Edges(g, r), n)}
          = {reach[p].out : p \in Predecessors(Edges(g, r), n)}
    BY <1>5
  <2>3. reach'[n].in = Meet({reach[p].out : p \in Predecessors(Edges(g, r), n)})
    BY DEF Solved
  <2> QED
    BY <2>2, <2>3
<1>9. \A n \in Nodes(g, r) \ {EntryNode(r), ExitNode(r)} :
        reach'[n].out = TransferReach(du'[n], reach'[n].in)
  BY DEF Solved
<1>10. /\ reach'[EntryNode(r)] = [in |-> TopElement, out |-> BoundaryCondition]
       /\ reach'[ExitNode(r)].out = reach'[ExitNode(r)].in
       /\ du'[RegionNode(r)] = Collapse(g, r, du', reach', HasTrips(r))
  BY <1>3, <1>7 DEF Solved
<1> QED
  BY <1>2, <1>6, <1>8, <1>9, <1>10 DEF Solved

(* A region solved upwards satisfies its equations, and those solved       *)
(* before it still do: their nodes are not touched.                        *)
LEMMA UpwardSolves ==
  ASSUME Passes, NEW r \in Regions(g), SolveUpward(r)
  PROVE  Passes'
<1> DEFINE values == SolveReach(g, r, du)
           c == Collapse(g, r, du, values, HasTrips(r))
<1>1. /\ prog \in Functions /\ du \in [AllNodes(g) -> Sets]
      /\ reach \in [AllNodes(g) -> Ends(Values)]
  BY DEF Passes, PassTypes
<1>2. Reducible(g)
  BY <1>1, Analysed
<1>3. /\ r \notin solved /\ InnerLoops(g, r) \subseteq solved
      /\ solved' = solved \cup {r}
      /\ reach' = Updated(reach, values)
      /\ du' = [du EXCEPT ![RegionNode(r)] = c]
      /\ UNCHANGED <<prog, live, traits, lived, resolved, at>>
  BY DEF SolveUpward, running
<1>4. g' = g
  BY <1>3 DEF g
<1>5. values \in [Nodes(g, r) -> Ends(Values)]
  BY <1>1, <1>2, ReachEquations
<1>6. RegionNode(r) \in AllNodes(g) /\ Nodes(g, r) \subseteq AllNodes(g)
  BY <1>2, NodeFacts
<1> HIDE DEF values, c
<1>7. /\ reach' \in [AllNodes(g) -> Ends(Values)]
      /\ \A n \in Nodes(g, r) : reach'[n] = values[n]
      /\ \A n \in AllNodes(g) \ Nodes(g, r) : reach'[n] = reach[n]
  BY <1>1, <1>3, <1>5, <1>6 DEF Updated
<1>8. c \in Sets
  <2>1. \A n \in BodyNodes(g, r) : du[n] \in Sets
    BY <1>1, <1>2, NodeFacts
  <2> QED
    BY <2>1, CollapseType DEF c
<1>9. /\ du' \in [AllNodes(g) -> Sets]
      /\ du'[RegionNode(r)] = c
      /\ \A n \in AllNodes(g) : n # RegionNode(r) => du'[n] = du[n]
  BY <1>1, <1>3, <1>6, <1>8
<1>10. PassTypes'
  BY <1>3, <1>4, <1>7, <1>9 DEF Passes, PassTypes
<1>11. BlocksKnown'
  <2>1. \A x, y : BlockNode(x) # RegionNode(y) /\ LatchNode(x) # RegionNode(y)
    BY NodeNames
  <2>2. \A q \in Regions(g) : Nodes(g, q) \subseteq AllNodes(g)
                               /\ (Latches(g, q) # {} => LatchNode(q) \in AllNodes(g))
    BY <1>2, NodeFacts
  <2>3. BlocksKnown
    BY DEF Passes
  <2> QED
    BY <1>3, <1>4, <1>9, <2>1, <2>2, <2>3 DEF BlocksKnown
<1>12. PassesInOrder'
  <2>1. PassesInOrder /\ lived \subseteq Regions(g)
    BY DEF Passes, PassTypes
  <2>2. lived = {}
    BY <1>3, <2>1 DEF PassesInOrder
  <2>3. Regions(g) # {}
    OBVIOUS
  <2> QED
    BY <1>3, <1>4, <2>1, <2>2, <2>3 DEF PassesInOrder
<1>13. Solved(r)'
  <2>1. /\ EntryNode(r) \in Nodes(g, r) /\ ExitNode(r) \in Nodes(g, r)
        /\ BodyNodes(g, r) \subseteq Nodes(g, r)
        /\ \A n \in Nodes(g, r) : n # RegionNode(r)
    BY <1>2, NodeFacts, NodeKinds
  <2>2. r # Fn => LatchNode(r) \in Nodes(g, r)
    BY <1>2, LatchOfLoop DEF Regions
  <2>3. \A n : Predecessors(Edges(g, r), n) \subseteq Nodes(g, r)
    BY <1>2, Neighbours
  <2>4. \A n \in Nodes(g, r) : du'[n] = du[n]
    BY <1>6, <1>9, <2>1
  <2>5. HasTrips(r)' = HasTrips(r)
    BY <1>3 DEF HasTrips, TripCount
  <2>6. Collapse(g, r, du', reach', HasTrips(r)) = c
    <3>1. /\ \A n \in BodyNodes(g, r) : du'[n] = du[n] /\ reach'[n] = values[n]
          /\ reach'[ExitNode(r)] = values[ExitNode(r)]
          /\ r # Fn => reach'[LatchNode(r)] = values[LatchNode(r)]
      BY <1>7, <2>1, <2>2, <2>4
    <3> QED
      BY <3>1, CollapseAgrees DEF c
  <2>7. /\ values[EntryNode(r)] = [in |-> TopElement, out |-> BoundaryCondition]
        /\ \A n \in Nodes(g, r) \ {EntryNode(r)} :
             values[n].in = Meet({values[p].out : p \in Predecessors(Edges(g, r), n)})
        /\ \A n \in Nodes(g, r) \ {EntryNode(r), ExitNode(r)} :
             values[n].out = TransferReach(du[n], values[n].in)
        /\ values[ExitNode(r)].out = values[ExitNode(r)].in
    BY <1>1, <1>2, ReachEquations DEF values
  <2>8. \A n \in Nodes(g, r) \ {EntryNode(r)} :
          reach'[n].in = Meet({reach'[p].out : p \in Predecessors(Edges(g, r), n)})
    <3>1. SUFFICES ASSUME NEW n \in Nodes(g, r) \ {EntryNode(r)}
          PROVE  reach'[n].in = Meet({reach'[p].out : p \in Predecessors(Edges(g, r), n)})
      OBVIOUS
    <3>2. {reach'[p].out : p \in Predecessors(Edges(g, r), n)}
            = {values[p].out : p \in Predecessors(Edges(g, r), n)}
      BY <1>7, <2>3
    <3>3. reach'[n].in = Meet({values[p].out : p \in Predecessors(Edges(g, r), n)})
      BY <1>7, <2>7
    <3> QED
      BY <3>2, <3>3
  <2>9. \A n \in Nodes(g, r) \ {EntryNode(r), ExitNode(r)} :
          reach'[n].out = TransferReach(du'[n], reach'[n].in)
    BY <1>7, <2>4, <2>7
  <2>10. /\ reach'[EntryNode(r)] = [in |-> TopElement, out |-> BoundaryCondition]
         /\ reach'[ExitNode(r)].out = reach'[ExitNode(r)].in
         /\ du'[RegionNode(r)] = Collapse(g, r, du', reach', HasTrips(r))
    BY <1>7, <1>9, <2>1, <2>6, <2>7
  <2> QED
    BY <1>4, <2>5, <2>8, <2>9, <2>10 DEF Solved
<1>14. ASSUME NEW q \in solved PROVE Solved(q)'
  <2>1. /\ \A n \in Nodes(g, q) : n \notin Nodes(g, r) /\ n # RegionNode(r)
        /\ RegionNode(q) # RegionNode(r)
    BY <1>3, SolvedApart
  <2>2. q \in Regions(g) /\ Solved(q)
    BY DEF Passes, PassTypes
  <2>3. RegionNode(q) \in AllNodes(g) /\ Nodes(g, q) \subseteq AllNodes(g)
    BY <1>2, <2>2, NodeFacts
  <2>4. \A n \in Nodes(g, q) : reach'[n] = reach[n] /\ du'[n] = du[n]
    BY <1>7, <1>9, <2>1, <2>3
  <2>5. du'[RegionNode(q)] = du[RegionNode(q)]
    BY <1>9, <2>1, <2>3
  <2>6. prog \in Functions /\ prog' = prog
    BY <1>1, <1>3
  <2> QED
    BY <2>2, <2>4, <2>5, <2>6, SolvedKept
<1>15. lived' = {} /\ resolved' = {}
  <2>1. PassesInOrder /\ resolved \subseteq Loops(g) /\ Regions(g) # {}
    BY DEF Passes, PassTypes, Regions
  <2> QED
    BY <1>3, <2>1 DEF PassesInOrder
<1> QED
  BY <1>3, <1>10, <1>11, <1>12, <1>13, <1>14, <1>15 DEF Passes

(* So does a region solved downwards.                                      *)
LEMMA DownwardLives ==
  ASSUME Passes, NEW r \in Regions(g), SolveDownward(r)
  PROVE  Passes'
<1> DEFINE whole == IF r = Fn
                    THEN [live EXCEPT ![RegionNode(Fn)].out =
                            LiveAfterFunction(du[RegionNode(Fn)], prog.own)]
                    ELSE live
           values == SolveLive(g, r, du, whole)
<1>1. /\ prog \in Functions /\ du \in [AllNodes(g) -> Sets]
      /\ live \in [AllNodes(g) -> Ends(SUBSET Locs)]
  BY DEF Passes, PassTypes
<1>2. Reducible(g)
  BY <1>1, Analysed
<1>3. /\ solved = Regions(g) /\ r \notin lived
      /\ r # Fn => Parent(g, r) \in lived
      /\ lived' = lived \cup {r}
      /\ live' = Updated(whole, values)
      /\ UNCHANGED <<prog, du, reach, traits, solved, resolved, at>>
  BY DEF SolveDownward, running
<1>4. g' = g
  BY <1>3 DEF g
<1>5. /\ \A q \in Regions(g) : RegionNode(q) \in AllNodes(g) /\ Nodes(g, q) \subseteq AllNodes(g)
      /\ Fn \in Regions(g)
  BY <1>2, NodeFacts, RegionBodies
<1>6. /\ whole \in [AllNodes(g) -> Ends(SUBSET Locs)]
      /\ \A n \in AllNodes(g) : r # Fn \/ n # RegionNode(Fn) => whole[n] = live[n]
      /\ r = Fn => whole[RegionNode(Fn)].out = LiveAfterFunction(du[RegionNode(Fn)], prog.own)
  <2>1. du[RegionNode(Fn)] \in Sets
    BY <1>1, <1>5
  <2>2. LiveAfterFunction(du[RegionNode(Fn)], prog.own) \subseteq Locs
    BY <2>1 DEF LiveAfterFunction, Sets
  <2>3. CASE r = Fn
    <3>1. live[RegionNode(Fn)] \in Ends(SUBSET Locs)
      BY <1>1, <1>5
    <3> QED
      BY <1>1, <1>5, <2>2, <2>3, <3>1 DEF Ends
  <2>4. CASE r # Fn
    BY <1>1, <2>4
  <2> QED
    BY <2>3, <2>4
<1>7. values \in [Nodes(g, r) -> Ends(SUBSET Locs)]
  <2> HIDE DEF whole
  <2> QED
    BY <1>1, <1>2, <1>6, LiveEquations
<1>b. IsLive(g, r, du, whole, values)
  <2> HIDE DEF whole
  <2> QED
    BY <1>1, <1>2, <1>6, LiveEquations
<1> HIDE DEF whole, values
<1>8. /\ values[ExitNode(r)].in = LiveBoundary(whole, r)
      /\ \A n \in Nodes(g, r) :
           values[n].out = UNION {values[s].in : s \in Successors(LiveEdges(g, r), n)}
      /\ \A n \in Nodes(g, r) \ {EntryNode(r), ExitNode(r)} :
           values[n].in = TransferLive(du[n], values[n].out)
  BY <1>b DEF IsLive
<1>9. /\ live' \in [AllNodes(g) -> Ends(SUBSET Locs)]
      /\ \A n \in Nodes(g, r) : live'[n] = values[n]
      /\ \A n \in AllNodes(g) \ Nodes(g, r) : live'[n] = whole[n]
  BY <1>3, <1>5, <1>6, <1>7 DEF Updated
<1>10. PassTypes'
  BY <1>3, <1>4, <1>9 DEF Passes, PassTypes
<1>11. BlocksKnown'
  BY <1>3, <1>4 DEF Passes, BlocksKnown
<1>12. PassesInOrder'
  <2>1. PassesInOrder /\ lived \subseteq Regions(g)
    BY DEF Passes, PassTypes
  <2>2. lived # Regions(g)
    BY <1>3
  <2>3. resolved = {} /\ at.block = Idle
    BY <2>1, <2>2 DEF PassesInOrder
  <2> QED
    BY <1>3, <1>4, <2>1, <2>3 DEF PassesInOrder
<1>13. \A q \in solved' : Solved(q)'
  <2>1. \A q \in solved : Solved(q)
    BY DEF Passes
  <2>2. \A q : HasTrips(q)' = HasTrips(q)
    BY <1>3 DEF HasTrips, TripCount
  <2> QED
    BY <1>3, <1>4, <2>1, <2>2 DEF Solved
<1>14. Lived(r)'
  <2>1. /\ ExitNode(r) \in Nodes(g, r) /\ RegionNode(r) \in AllNodes(g) \ Nodes(g, r)
    BY <1>2, <1>5, NodeFacts, NodeKinds
  <2>2. \A n : Successors(LiveEdges(g, r), n) \subseteq Nodes(g, r)
    BY <1>2, Neighbours
  <2>3. live'[ExitNode(r)].in = live'[RegionNode(r)].in \cup live'[RegionNode(r)].out
    BY <1>8, <1>9, <2>1 DEF LiveBoundary
  <2>4. \A n \in Nodes(g, r) :
          live'[n].out = UNION {live'[s].in : s \in Successors(LiveEdges(g, r), n)}
    <3>1. SUFFICES ASSUME NEW n \in Nodes(g, r)
          PROVE  live'[n].out = UNION {live'[s].in : s \in Successors(LiveEdges(g, r), n)}
      OBVIOUS
    <3>2. {live'[s].in : s \in Successors(LiveEdges(g, r), n)}
            = {values[s].in : s \in Successors(LiveEdges(g, r), n)}
      BY <1>9, <2>2
    <3>3. live'[n].out = UNION {values[s].in : s \in Successors(LiveEdges(g, r), n)}
      BY <1>8, <1>9
    <3> QED
      BY <3>2, <3>3
  <2>5. \A n \in Nodes(g, r) \ {EntryNode(r), ExitNode(r)} :
          live'[n].in = TransferLive(du[n], live'[n].out)
    BY <1>8, <1>9
  <2>6. r = Fn => live'[RegionNode(Fn)].out = LiveAfterFunction(du[RegionNode(Fn)], prog.own)
    BY <1>6, <1>9, <2>1
  <2> QED
    BY <1>3, <1>4, <2>3, <2>4, <2>5, <2>6 DEF Lived
<1>15. ASSUME NEW q \in lived PROVE Lived(q)'
  <2>1. /\ q \in Regions(g) /\ Lived(q) /\ q # r
        /\ q # Fn => Parent(g, q) \in lived /\ Parent(g, q) # r
    BY <1>3 DEF Passes, PassTypes, PassesInOrder
  <2>2. \A n \in Nodes(g, q) : n \in AllNodes(g) \ Nodes(g, r) /\ n # RegionNode(Fn)
    BY <1>2, <1>5, <2>1, NodesDisjoint, NodeKinds
  <2>3. RegionNode(q) \in AllNodes(g) \ Nodes(g, r)
    <3>1. ASSUME RegionNode(q) \in Nodes(g, r) PROVE FALSE
      <4>1. q \in InnerLoops(g, r)
        BY <1>2, <2>1, <3>1, NodeKinds
      <4>2. q \in Loops(g) /\ q # Fn
        BY <1>2, <4>1, InnerIsNested
      <4> QED
        BY <1>2, <2>1, <4>1, <4>2, ParentFacts
    <3> QED
      BY <1>5, <2>1, <3>1
  <2>4. r = Fn => RegionNode(q) # RegionNode(Fn)
    BY <2>1, NodeNames
  <2>5. /\ \A n \in Nodes(g, q) : live'[n] = live[n]
        /\ live'[RegionNode(q)] = live[RegionNode(q)]
    BY <1>6, <1>9, <2>2, <2>3, <2>4
  <2>6. ExitNode(q) \in Nodes(g, q) /\ \A n : Successors(LiveEdges(g, q), n) \subseteq Nodes(g, q)
    BY <1>2, <2>1, NodeFacts, Neighbours
  <2>7. \A n \in Nodes(g, q) :
          live'[n].out = UNION {live'[s].in : s \in Successors(LiveEdges(g, q), n)}
    <3>1. SUFFICES ASSUME NEW n \in Nodes(g, q)
          PROVE  live'[n].out = UNION {live'[s].in : s \in Successors(LiveEdges(g, q), n)}
      OBVIOUS
    <3>2. {live'[s].in : s \in Successors(LiveEdges(g, q), n)}
            = {live[s].in : s \in Successors(LiveEdges(g, q), n)}
      BY <2>5, <2>6
    <3>3. live'[n].out = UNION {live[s].in : s \in Successors(LiveEdges(g, q), n)}
      BY <2>1, <2>5 DEF Lived
    <3> QED
      BY <3>2, <3>3
  <2>8. \A n \in Nodes(g, q) \ {EntryNode(q), ExitNode(q)} :
          live'[n].in = TransferLive(du[n], live'[n].out)
    BY <2>1, <2>5 DEF Lived
  <2>9. /\ live'[ExitNode(q)].in = live'[RegionNode(q)].in \cup live'[RegionNode(q)].out
        /\ q = Fn => live'[RegionNode(Fn)].out = LiveAfterFunction(du[RegionNode(Fn)], prog.own)
    BY <2>1, <2>5, <2>6 DEF Lived
  <2> QED
    BY <1>3, <1>4, <2>7, <2>8, <2>9 DEF Lived
<1>16. resolved' = {}
  BY <1>3 DEF Passes, PassTypes, PassesInOrder
<1> QED
  BY <1>3, <1>10, <1>11, <1>12, <1>13, <1>14, <1>15, <1>16 DEF Passes

(* The traits of a loop are decided once, by values that stay.             *)
LEMMA ValuesStay ==
  ASSUME Passes, UNCHANGED <<prog, du, reach, live, solved, lived>>
  PROVE  /\ g' = g
         /\ \A r \in solved : Solved(r)'
         /\ \A r \in lived : Lived(r)'
         /\ \A l, x : ResolveAccess(l, x)' = ResolveAccess(l, x)
<1>1. g' = g
  BY DEF g
<1>2. \A q : HasTrips(q)' = HasTrips(q)
  BY DEF HasTrips, TripCount
<1>3. ASSUME NEW r \in solved
      PROVE  Solved(r)'
  <2>1. solved' = solved /\ Solved(r)
    BY DEF Passes
  <2>2. ASSUME NEW n \in Nodes(g, r) \ {EntryNode(r)}
        PROVE  reach'[n].in = Meet({reach'[p].out : p \in Predecessors(Edges(g, r), n)})
    <3>1. {reach'[p].out : p \in Predecessors(Edges(g, r), n)}
            = {reach[p].out : p \in Predecessors(Edges(g, r), n)}
      OBVIOUS
    <3>2. reach[n].in = Meet({reach[p].out : p \in Predecessors(Edges(g, r), n)})
      BY <2>1 DEF Solved
    <3> QED
      BY <3>1, <3>2
  <2>3. \A n \in Nodes(g, r) \ {EntryNode(r), ExitNode(r)} :
          reach'[n].out = TransferReach(du'[n], reach'[n].in)
    BY <2>1 DEF Solved
  <2>4. Collapse(g, r, du, reach, HasTrips(r))' = Collapse(g, r, du, reach, HasTrips(r))
    <3>1. HasTrips(r)' = HasTrips(r) /\ du' = du /\ reach' = reach
      BY <1>2
    <3> QED
      BY <1>1, <3>1
  <2>5. du'[RegionNode(r)] = Collapse(g, r, du, reach, HasTrips(r))'
    BY <2>1, <2>4 DEF Solved
  <2>6. /\ reach'[EntryNode(r)] = [in |-> TopElement, out |-> BoundaryCondition]
        /\ reach'[ExitNode(r)].out = reach'[ExitNode(r)].in
    BY <2>1 DEF Solved
  <2> QED
    BY <1>1, <2>2, <2>3, <2>5, <2>6 DEF Solved
<1>4. ASSUME NEW r \in lived
      PROVE  Lived(r)'
  <2>1. lived' = lived /\ Lived(r)
    BY DEF Passes
  <2>2. Lived(r)' = Lived(r)
    BY <1>1 DEF Lived
  <2> QED
    BY <2>1, <2>2
<1>5. \A l : Accessed(l)' = Accessed(l)
  BY <1>1 DEF Accessed
<1>6. \A l, x : CopyOut(l, x)' = CopyOut(l, x)
  BY DEF CopyOut
<1>7. \A l, x : ResolveAccess(l, x)' = ResolveAccess(l, x)
  BY <1>5, <1>6 DEF ResolveAccess
<1> QED
  BY <1>1, <1>3, <1>4, <1>7

(* A resolved loop has the traits ResolveAccess gives its locations.       *)
LEMMA TraitsKnown ==
  ASSUME Passes, NEW l \in Loops(g), Resolve(l)
  PROVE  Passes'
<1>1. /\ lived = Regions(g) /\ l \notin resolved
      /\ resolved' = resolved \cup {l}
      /\ traits' = [traits EXCEPT ![l] = [x \in Locs |-> ResolveAccess(l, x)]]
      /\ UNCHANGED <<prog, du, reach, live, solved, lived, at>>
  BY DEF Resolve, running
<1>2. /\ g' = g /\ \A r \in solved : Solved(r)'
      /\ \A r \in lived : Lived(r)'
      /\ \A k, x : ResolveAccess(k, x)' = ResolveAccess(k, x)
  BY <1>1, ValuesStay
<1>3. PassTypes'
  BY <1>1, <1>2 DEF Passes, PassTypes
<1>4. BlocksKnown'
  BY <1>1, <1>2 DEF Passes, BlocksKnown
<1>5. PassesInOrder'
  BY <1>1, <1>2 DEF Passes, PassTypes, PassesInOrder
<1>6. ASSUME NEW k \in resolved'
      PROVE  traits'[k] = [x \in Locs |-> ResolveAccess(k, x)']
  <2>1. [x \in Locs |-> ResolveAccess(k, x)'] = [x \in Locs |-> ResolveAccess(k, x)]
    BY <1>2
  <2>2. DOMAIN traits = Loops(g) /\ resolved \subseteq Loops(g)
    BY DEF Passes, PassTypes
  <2>3. k # l => traits[k] = [x \in Locs |-> ResolveAccess(k, x)]
    BY <1>1, <1>6 DEF Passes
  <2>4. traits'[k] = [x \in Locs |-> ResolveAccess(k, x)]
    BY <1>1, <2>2, <2>3
  <2> QED
    BY <2>1, <2>4
<1> QED
  BY <1>1, <1>2, <1>3, <1>4, <1>5, <1>6 DEF Passes

(* The run changes nothing the passes have found, and starts after them.   *)
LEMMA RunKeepsPasses ==
  ASSUME Passes, UNCHANGED <<prog, passes>>,
         at'.block # Idle => lived = Regions(g) /\ resolved = Loops(g)
  PROVE  Passes'
<1>1. UNCHANGED <<prog, du, reach, live, traits, solved, lived, resolved>>
  BY DEF passes
<1>2. /\ g' = g /\ \A r \in solved : Solved(r)'
      /\ \A r \in lived : Lived(r)'
      /\ \A k, x : ResolveAccess(k, x)' = ResolveAccess(k, x)
  BY <1>1, ValuesStay
<1>3. PassTypes' /\ BlocksKnown' /\ PassesInOrder'
  BY <1>1, <1>2 DEF Passes, PassTypes, BlocksKnown, PassesInOrder
<1>4. ASSUME NEW k \in resolved'
      PROVE  traits'[k] = [x \in Locs |-> ResolveAccess(k, x)']
  <2>1. [x \in Locs |-> ResolveAccess(k, x)'] = [x \in Locs |-> ResolveAccess(k, x)]
    BY <1>2
  <2> QED
    BY <1>1, <1>4, <2>1 DEF Passes
<1> QED
  BY <1>1, <1>2, <1>3, <1>4 DEF Passes

(* Every step keeps what is known of the passes.                           *)
LEMMA PassesStep ==
  ASSUME Passes, [Next]_vars
  PROVE  Passes'
<1>1. CASE Upward
  BY <1>1, UpwardSolves DEF Upward
<1>2. CASE Downward
  BY <1>2, DownwardLives DEF Downward
<1>3. CASE Recognition
  BY <1>3, TraitsKnown DEF Recognition
<1>a. at.block # Idle => lived = Regions(g) /\ resolved = Loops(g)
  BY DEF Passes, PassesInOrder
<1>4. CASE Call
  BY <1>4, RunKeepsPasses DEF Call
<1>5. CASE Access
  BY <1>5, <1>a, RunKeepsPasses DEF Access, Idle
<1>6. CASE SomeBranch
  BY <1>6, <1>a, RunKeepsPasses DEF SomeBranch, Branch, Idle
<1>7. CASE Return
  BY <1>7, <1>a, RunKeepsPasses DEF Return, Idle
<1>8. CASE UNCHANGED vars
  BY <1>8, <1>a, RunKeepsPasses DEF vars, running
<1> QED
  BY <1>1, <1>2, <1>3, <1>4, <1>5, <1>6, <1>7, <1>8 DEF Next

-----------------------------------------------------------------------------
(* The run of the analysed function.                                       *)
Where == {"this", "previous", "earlier", "outside"}
RunTypes ==
  /\ at \in [block : g.blocks \cup {Idle, Returned}, next : Nat \ {0}]
  /\ src \in [Regions(g) -> [Locs -> Where]]
  /\ taken \in [Loops(g) -> Nat]
  /\ dead \subseteq Locs /\ left \subseteq Regions(g)
  /\ at.block = Idle => src = [r \in Regions(g) |-> Outside] /\ dead = {} /\ left = {}

(* An iteration that ended is not the current one, and what it wrote stays *)
(* written.                                                                *)
LEMMA OlderFacts ==
  ASSUME NEW w \in Where
  PROVE  /\ Older(w) \in Where \ {"this"}
         /\ Older(w) = "outside" <=> w = "outside"
         /\ w = "this" => Older(w) = "previous"
<1>1. CASE w = "this"
  BY <1>1 DEF Older, Where
<1>2. CASE w = "previous"
  BY <1>2 DEF Older, Where
<1>3. CASE w = "earlier" \/ w = "outside"
  BY <1>3 DEF Older, Where
<1> QED
  BY <1>1, <1>2, <1>3 DEF Where

(* A block that is run is one of the function, and its next access is one   *)
(* of its accesses.                                                        *)
LEMMA Running ==
  ASSUME prog \in Functions, RunTypes, at.block > 0
  PROVE  /\ at.block \in g.blocks /\ Accesses \in Bodies
         /\ Len(Accesses) \in Nat
         /\ \A i \in 1..Len(Accesses) :
              Accesses[i] \in [op : {"read", "write", "maywrite"}, loc : Locs]
         /\ at.next <= Len(Accesses) => at.next \in 1..Len(Accesses)
         /\ Here(Fn) /\ \A r : Here(r) <=> at.block \in Body(g, r)
<1>1. at.block \in g.blocks
  BY DEF RunTypes, Idle, Returned
<1>2. Accesses \in Bodies
  BY <1>1, Analysed DEF Accesses
<1>3. /\ Len(Accesses) \in Nat
      /\ \A i \in 1..Len(Accesses) :
              Accesses[i] \in [op : {"read", "write", "maywrite"}, loc : Locs]
  <2> DEFINE A == [op : {"read", "write", "maywrite"}, loc : Locs]
             s == Accesses
  <2>1. s \in Seq(A)
    BY <1>2, Inputs
  <2> HIDE DEF A, s
  <2>2. Len(s) \in Nat /\ \A i \in 1..Len(s) : s[i] \in A
    BY <2>1
  <2> QED
    BY <2>2 DEF A, s
<1>4. at.next \in Nat \ {0}
  BY DEF RunTypes
<1>5. Here(Fn) /\ \A r : Here(r) <=> at.block \in Body(g, r)
  BY <1>1, Analysed, RegionBodies DEF Here
<1> QED
  BY <1>1, <1>2, <1>3, <1>4, <1>5

(* Settled keeps what is known of the regions the run is in.               *)
LEMMA SettledFacts ==
  ASSUME RunTypes
  PROVE  /\ Settled \in [Regions(g) -> [Locs -> Where]]
         /\ \A r \in Regions(g) : Here(r) => Settled[r] = src[r]
         /\ \A r \in Regions(g) : ~Here(r) => Settled[r] = Outside
         /\ Outside \in [Locs -> Where] /\ \A x \in Locs : Outside[x] = "outside"
<1>1. Outside \in [Locs -> Where] /\ \A x \in Locs : Outside[x] = "outside"
  BY DEF Outside, Where
<1> QED
  BY <1>1 DEF RunTypes, Settled

(* What a step of the run does to the iterations that wrote.               *)
LEMMA AccessFacts ==
  ASSUME prog \in Functions, RunTypes, Access
  PROVE  LET a == Accesses[at.next]
         IN /\ g' = g /\ at.block > 0 /\ at.next \in 1..Len(Accesses)
            /\ at' = [at EXCEPT !.next = @ + 1]
            /\ a \in [op : {"read", "write", "maywrite"}, loc : Locs]
            /\ \/ a.op # "write" /\ src' = Settled /\ dead' = dead
               \/ /\ a.op # "read"
                  /\ \A r \in Regions(g) : Here(r) =>
                       src'[r] = [src[r] EXCEPT ![a.loc] = "this"]
                  /\ \A r \in Regions(g) : ~Here(r) => src'[r] = Outside
                  /\ src' \in [Regions(g) -> [Locs -> Where]]
                  /\ dead' = dead \ {a.loc}
            /\ left' = {} /\ taken' = taken
<1> DEFINE a == Accesses[at.next]
<1>1. /\ g' = g /\ at.block > 0 /\ at.next <= Len(Accesses)
      /\ at' = [at EXCEPT !.next = @ + 1]
      /\ left' = {} /\ taken' = taken
  BY DEF Access, g
<1>2. \/ a.op \in {"read", "maywrite"} /\ src' = Settled /\ dead' = dead
      \/ /\ a.op \in {"write", "maywrite"}
         /\ src' = [r \in Regions(g) |->
                      IF Here(r) THEN [Settled[r] EXCEPT ![a.loc] = "this"] ELSE Settled[r]]
         /\ dead' = dead \ {a.loc}
  BY Zenon DEF Access
<1>3. at.next \in 1..Len(Accesses) /\ a \in [op : {"read", "write", "maywrite"}, loc : Locs]
  BY <1>1, Running
<1> HIDE DEF a
<1>4. CASE a.op \in {"read", "maywrite"} /\ src' = Settled /\ dead' = dead
  BY <1>1, <1>3, <1>4 DEF a
<1>5. CASE /\ a.op \in {"write", "maywrite"}
           /\ src' = [r \in Regions(g) |->
                        IF Here(r) THEN [Settled[r] EXCEPT ![a.loc] = "this"] ELSE Settled[r]]
           /\ dead' = dead \ {a.loc}
  <2>1. a.op # "read"
    BY <1>5
  <2>2. \A r \in Regions(g) :
          /\ Here(r) => src'[r] = [src[r] EXCEPT ![a.loc] = "this"]
          /\ ~Here(r) => src'[r] = Outside
    BY <1>5, SettledFacts
  <2>3. \A r \in Regions(g) : [Settled[r] EXCEPT ![a.loc] = "this"] \in [Locs -> Where]
    <3>1. SUFFICES ASSUME NEW r \in Regions(g)
                   PROVE  [Settled[r] EXCEPT ![a.loc] = "this"] \in [Locs -> Where]
      OBVIOUS
    <3>2. Settled[r] \in [Locs -> Where]
      BY SettledFacts
    <3> QED
      BY <3>2 DEF Where
  <2>4. src' \in [Regions(g) -> [Locs -> Where]]
    BY <1>5, <2>3, SettledFacts
  <2> QED
    BY <1>1, <1>3, <1>5, <2>1, <2>2, <2>4 DEF a
<1> QED
  BY <1>2, <1>4, <1>5

(* What a branch does to the iterations that wrote.                        *)
LEMMA BranchFacts ==
  ASSUME prog \in Functions, RunTypes, at.block > 0, NEW s \in g.succ[at.block], Branch(s)
  PROVE  /\ g' = g /\ at.next > Len(Accesses) /\ s \in g.blocks \ {g.entry}
         /\ at' = [block |-> s, next |-> 1] /\ at'.block > 0
         /\ \A r \in Regions(g) : Here(r)' <=> s \in Body(g, r)
         /\ src' \in [Regions(g) -> [Locs -> Where]]
         /\ \A r \in Regions(g) : s # Header(g, r) => src'[r] = Settled[r]
         /\ \A r \in Regions(g) : s = Header(g, r) /\ Here(r) =>
              src'[r] = [x \in Locs |-> Older(src[r][x])]
         /\ \A r \in Regions(g) : s = Header(g, r) /\ ~Here(r) => src'[r] = Outside
         /\ left' = {r \in Regions(g) : Here(r) /\ s \notin Body(g, r)}
<1>1. /\ g' = g /\ at.next > Len(Accesses) /\ at' = [block |-> s, next |-> 1]
      /\ left' = {r \in Regions(g) : Here(r) /\ s \notin Body(g, r)}
  BY DEF Branch, g, LeftBy
<1>2. Reducible(g) /\ at.block \in g.blocks /\ g.blocks \subseteq Nat \ {0}
  BY Analysed, Running
<1>3. s \in g.blocks \ {g.entry}
  BY <1>2, Branching
<1>4. \A r \in Regions(g) : Here(r)' <=> s \in Body(g, r)
  BY <1>1 DEF Here
<1>5. src' = [r \in Regions(g) |->
               IF s # Header(g, r) THEN Settled[r]
               ELSE IF Here(r) THEN [x \in Locs |-> Older(src[r][x])] ELSE Outside]
  BY DEF Branch
<1>6. \A r \in Regions(g) : [x \in Locs |-> Older(src[r][x])] \in [Locs -> Where]
  BY OlderFacts DEF RunTypes
<1>7. src' \in [Regions(g) -> [Locs -> Where]]
  BY <1>5, <1>6, SettledFacts
<1> QED
  BY <1>1, <1>2, <1>3, <1>4, <1>5, <1>7

(* The run starts with variables of their types.                           *)
LEMMA RunTypesInit ==
  ASSUME Init
  PROVE  RunTypes
<1>1. Outside \in [Locs -> Where]
  BY DEF Outside, Where
<1> QED
  BY <1>1 DEF Init, RunTypes, Idle

(* Every step of the run keeps them.                                       *)
LEMMA RunTypesStep ==
  ASSUME prog \in Functions, RunTypes, [Next]_vars
  PROVE  RunTypes'
<1>1. CASE UNCHANGED <<prog, running>>
  BY <1>1 DEF running, RunTypes, g
<1>2. CASE Call
  <2>1. g.entry \in g.blocks
    BY Analysed, RegionBodies
  <2>2. g' = g
    BY <1>2 DEF Call, g
  <2>3. g.entry # Idle
    BY <2>1, Analysed DEF Idle
  <2>4. UNCHANGED <<src, taken, dead, left>> /\ at' = [block |-> g.entry, next |-> 1]
    BY <1>2 DEF Call
  <2> QED
    BY <2>1, <2>2, <2>3, <2>4 DEF RunTypes
<1>3. CASE Access
  <2>1. /\ g' = g /\ at.block > 0 /\ at.next \in 1..Len(Accesses)
        /\ at' = [at EXCEPT !.next = @ + 1] /\ left' = {} /\ taken' = taken
        /\ src' \in [Regions(g) -> [Locs -> Where]]
        /\ dead' \subseteq dead
    BY <1>3, AccessFacts, SettledFacts
  <2>2. at' \in [block : g.blocks \cup {Idle, Returned}, next : Nat \ {0}] /\ at'.block # Idle
    BY <2>1 DEF RunTypes, Idle
  <2> QED
    BY <2>1, <2>2 DEF RunTypes
<1>4. CASE SomeBranch
  <2>1. PICK s \in g.succ[at.block] : at.block > 0 /\ Branch(s)
    BY <1>4 DEF SomeBranch
  <2>2. /\ g' = g /\ s \in g.blocks
        /\ at' = [block |-> s, next |-> 1] /\ at'.block > 0
        /\ src' \in [Regions(g) -> [Locs -> Where]]
        /\ left' \subseteq Regions(g)
    BY <2>1, BranchFacts
  <2>3. dead' \subseteq Locs
    BY <2>1 DEF Branch, NotAlive, RunTypes
  <2>4. taken' \in [Loops(g) -> Nat]
    <3>1. taken' = [l \in Loops(g) |->
                 IF s = l /\ Here(l)
                 THEN IF taken[l] < (IF prog.count[l] = Unknown THEN 1 ELSE prog.count[l])
                      THEN taken[l] + 1 ELSE taken[l]
                 ELSE IF s = l \/ ~Here(l) THEN 0 ELSE taken[l]]
      BY <2>1 DEF Branch
    <3>2. \A l \in Loops(g) : taken[l] \in Nat
      BY DEF RunTypes
    <3> QED
      BY <3>1, <3>2
  <2> QED
    BY <2>2, <2>3, <2>4 DEF RunTypes, Idle
<1>5. CASE Return
  <2>1. /\ g' = g /\ at' = [block |-> Returned, next |-> 1] /\ src' = Settled
        /\ left' = {Fn} /\ taken' = taken /\ dead' = dead \cup NotAlive(left')
    BY <1>5 DEF Return, g
  <2>2. dead' \subseteq Locs
    BY <2>1 DEF NotAlive, RunTypes
  <2>3. Fn \in Regions(g)
    BY DEF Regions
  <2>4. at' \in [block : g.blocks \cup {Idle, Returned}, next : Nat \ {0}]
    BY <2>1
  <2>5. src' \in [Regions(g) -> [Locs -> Where]]
    BY <2>1, SettledFacts
  <2>6. at'.block # Idle
    BY <2>1 DEF Idle, Returned
  <2> QED
    BY <2>1, <2>2, <2>3, <2>4, <2>5, <2>6 DEF RunTypes
<1>6. Upward \/ Downward \/ Recognition \/ UNCHANGED vars => UNCHANGED <<prog, running>>
  BY DEF Upward, Downward, Recognition, SolveUpward, SolveDownward, Resolve, vars
<1> QED
  BY <1>1, <1>2, <1>3, <1>4, <1>5, <1>6 DEF Next

-----------------------------------------------------------------------------
(* Whatever a block writes is among the definitions of every region around  *)
(* it.                                                                     *)
Known(r) == du[RegionNode(r)].defs \cup du[RegionNode(r)].mayDefs

(* What an inner loop defines, the region around it defines, must or may.  *)
LEMMA InnerKnown ==
  ASSUME Passes, NEW r \in solved, NEW l \in InnerLoops(g, r), NEW x \in Known(l)
  PROVE  x \in Known(r)
<1>1. Reducible(g) /\ r \in Regions(g) /\ Solved(r)
  BY Analysed DEF Passes, PassTypes
<1>2. RegionNode(l) \in BodyNodes(g, r)
  BY <1>1, NodeFacts
<1> QED
  BY <1>1, <1>2, CollapseFacts DEF Known, Solved

(* An access that writes, or may write, is known to every region around    *)
(* its block.                                                              *)
LEMMA BlockWrites ==
  ASSUME Passes, solved = Regions(g), NEW b \in g.blocks,
         NEW i \in 1..Len(prog.accesses[b]), NEW x \in Locs,
         \/ IsAccess(prog.accesses[b], "write", x, i)
         \/ IsAccess(prog.accesses[b], "maywrite", x, i),
         NEW r \in Regions(g), b \in Body(g, r)
  PROVE  x \in Known(r)
<1>1. Reducible(g) /\ prog.accesses[b] \in Bodies /\ BlocksKnown
  BY Analysed DEF Passes, PassTypes
<1>2. x \in BlockDefUse(prog.accesses[b]).defs \cup BlockDefUse(prog.accesses[b]).mayDefs
  BY <1>1, BlockSets
<1> DEFINE C == {q \in Regions(g) : b \in Body(g, q) /\ x \notin Known(q)}
<1>3. ASSUME C # {} PROVE FALSE
  <2>1. C \in SUBSET Regions(g)
    OBVIOUS
  <2>2. PICK q \in C : \A k \in C : k \notin NestedIn(g, q)
    BY <1>1, <1>3, <2>1, Innermost
  <2>3. CASE NodeOf(g, q, b) = BlockNode(b)
    <3>1. BlockNode(b) \in BodyNodes(g, q) /\ BlockNode(b) \in Nodes(g, q)
      BY <1>1, <2>3, NodeFacts
    <3>2. du[BlockNode(b)] = BlockDefUse(prog.accesses[b])
      BY <1>1, <3>1 DEF BlocksKnown
    <3>3. Solved(q)
      BY DEF Passes
    <3> QED
      BY <1>2, <3>1, <3>2, <3>3, CollapseFacts DEF Known, Solved
  <2>4. CASE \E l \in InnerLoops(g, q) : b \in g.loops[l]
    <3>1. PICK l \in InnerLoops(g, q) : b \in g.loops[l]
      BY <2>4
    <3>2. x \in Known(l)
      BY <1>1, <2>2, <3>1, InnerIsNested
    <3> QED
      BY <3>2, InnerKnown
  <2> QED
    BY <1>1, <2>3, <2>4, NodeOfCases
<1> QED
  BY <1>3

(* Only what a region defines, must or may, is written while it is run.    *)
LEMMA WritesStep ==
  ASSUME Passes, RunTypes, WritesAreKnown, [Next]_vars
  PROVE  WritesAreKnown'
<1>0. /\ prog \in Functions /\ Reducible(g)
      /\ at.block # Idle => solved = Regions(g)
      /\ at.block = Idle => src = [r \in Regions(g) |-> Outside]
  BY Analysed DEF Passes, PassTypes, PassesInOrder, RunTypes, Regions
<1>a. ASSUME UNCHANGED <<prog, du>>, src' = Settled PROVE WritesAreKnown'
  BY <1>a, SettledFacts DEF WritesAreKnown, g
<1>b. ASSUME UNCHANGED <<prog, du, src>> PROVE WritesAreKnown'
  BY <1>b DEF WritesAreKnown, g
<1>1. CASE Upward \/ Downward \/ Recognition
  <2>1. UNCHANGED <<prog, running>>
    BY <1>1 DEF Upward, Downward, Recognition, SolveUpward, SolveDownward, Resolve
  <2>2. CASE at.block = Idle
    <3>1. \A r \in Regions(g), x \in Locs : src'[r][x] = "outside"
      BY <1>0, <2>1, <2>2 DEF Outside, running
    <3> QED
      BY <2>1, <3>1 DEF WritesAreKnown, g
  <2>3. CASE at.block # Idle
    <3>1. UNCHANGED du
      <4>1. solved = Regions(g) /\ solved \subseteq Regions(g)
        BY <1>0, <2>3
      <4> QED
        BY <1>1, <4>1 DEF Upward, Downward, Recognition, SolveUpward, SolveDownward, Resolve
    <3> QED
      BY <1>b, <2>1, <3>1 DEF running
  <2> QED
    BY <2>2, <2>3
<1>2. CASE Call \/ UNCHANGED vars
  BY <1>2, <1>b DEF Call, vars, passes, running
<1>3. CASE Access
  <2> DEFINE a == Accesses[at.next]
  <2>1. UNCHANGED <<prog, du>>
    BY <1>3 DEF Access, passes
  <2>2. /\ g' = g /\ at.block > 0 /\ at.next \in 1..Len(Accesses)
        /\ a \in [op : {"read", "write", "maywrite"}, loc : Locs]
        /\ \/ src' = Settled
           \/ /\ a.op # "read"
              /\ \A r \in Regions(g) : Here(r) =>
                   src'[r] = [src[r] EXCEPT ![a.loc] = "this"]
              /\ \A r \in Regions(g) : ~Here(r) => src'[r] = Outside
    BY <1>0, <1>3, AccessFacts
  <2>3. CASE src' = Settled
    BY <1>a, <2>1, <2>3
  <2>4. CASE /\ a.op # "read"
             /\ \A r \in Regions(g) : Here(r) =>
                   src'[r] = [src[r] EXCEPT ![a.loc] = "this"]
             /\ \A r \in Regions(g) : ~Here(r) => src'[r] = Outside
    <3>1. SUFFICES ASSUME NEW r \in Regions(g), NEW x \in Locs, src'[r][x] # "outside"
                   PROVE  x \in Known(r)
      BY <2>1, <2>2 DEF WritesAreKnown, Known
    <3>2. Here(r)
      BY <2>4, <3>1, SettledFacts
    <3>3. CASE x = a.loc
      <4>1. /\ a = prog.accesses[at.block][at.next] /\ at.block \in g.blocks
            /\ at.next \in 1..Len(prog.accesses[at.block])
            /\ at.block \in Body(g, r) /\ at.block # Idle
        BY SMTT(30), <1>0, <2>2, <3>2, Running DEF Accesses, Idle
      <4>2. \/ IsAccess(prog.accesses[at.block], "write", x, at.next)
            \/ IsAccess(prog.accesses[at.block], "maywrite", x, at.next)
        BY <2>2, <2>4, <3>3, <4>1 DEF IsAccess
      <4> QED
        BY <1>0, <4>1, <4>2, BlockWrites
    <3>4. CASE x # a.loc
      <4>1. src'[r][x] = src[r][x]
        <5> HIDE DEF a
        <5>1. src[r] \in [Locs -> Where]
          BY DEF RunTypes
        <5>2. src'[r] = [src[r] EXCEPT ![a.loc] = "this"]
          BY <2>4, <3>2
        <5> QED
          BY <3>4, <5>1, <5>2
      <4> QED
        BY <3>1, <4>1 DEF WritesAreKnown, Known
    <3> QED
      BY <3>3, <3>4
  <2> QED
    BY <2>2, <2>3, <2>4
<1>4. CASE SomeBranch
  <2>1. PICK s \in g.succ[at.block] : at.block > 0 /\ Branch(s)
    BY <1>4 DEF SomeBranch
  <2>2. UNCHANGED <<prog, du>>
    BY <2>1 DEF Branch, passes
  <2>3. /\ \A r \in Regions(g) : s # Header(g, r) => src'[r] = Settled[r]
        /\ \A r \in Regions(g) : s = Header(g, r) /\ Here(r) =>
             src'[r] = [x \in Locs |-> Older(src[r][x])]
        /\ \A r \in Regions(g) : s = Header(g, r) /\ ~Here(r) => src'[r] = Outside
    BY <1>0, <2>1, BranchFacts
  <2>4. \A r \in Regions(g), x \in Locs : src[r][x] = "outside" => src'[r][x] = "outside"
    <3>1. SUFFICES ASSUME NEW r \in Regions(g), NEW x \in Locs, src[r][x] = "outside"
                   PROVE  src'[r][x] = "outside"
      OBVIOUS
    <3>2. src[r][x] \in Where
      BY DEF RunTypes
    <3>3. CASE s = Header(g, r) /\ Here(r)
      <4>1. src'[r] = [y \in Locs |-> Older(src[r][y])]
        BY <2>3, <3>3
      <4>2. src'[r][x] = Older(src[r][x])
        BY <4>1
      <4> QED
        BY <3>1, <3>2, <4>2, OlderFacts
    <3>4. CASE ~(s = Header(g, r) /\ Here(r))
      BY <2>3, <3>1, <3>4, SettledFacts
    <3> QED
      BY <3>3, <3>4
  <2> QED
    BY <2>2, <2>4 DEF WritesAreKnown, g
<1>5. CASE Return
  BY <1>5, <1>a DEF Return, passes
<1> QED
  BY <1>1, <1>2, <1>3, <1>4, <1>5 DEF Next

(* Whatever is written while a region is run is among its definitions, must *)
(* or may (WritesAreKnown): collapse() loses no write of what is inside.   *)
THEOREM WritesKnown == Spec => []WritesAreKnown
<1> DEFINE I == Passes /\ RunTypes /\ WritesAreKnown
<1>1. Init => I
  <2> SUFFICES ASSUME Init PROVE I
    OBVIOUS
  <2>1. \A r \in Regions(g), x \in Locs : src[r][x] = "outside"
    BY DEF Init, Outside
  <2> QED
    BY <2>1, PassesInit, RunTypesInit DEF WritesAreKnown
<1>2. I /\ [Next]_vars => I'
  BY PassesStep, RunTypesStep, WritesStep DEF Passes, PassTypes
<1> QED
  BY <1>1, <1>2, PTL DEF Spec

-----------------------------------------------------------------------------
(* Data-flow values along the edges of a region.                           *)

(* The values before a node are bounded by those after the nodes that lead *)
(* to it.                                                                  *)
LEMMA AfterNode ==
  ASSUME Passes, NEW r \in solved, NEW n, NEW p \in Predecessors(Edges(g, r), n)
  PROVE  /\ reach[n].in.must \subseteq reach[p].out.must
         /\ reach[p].out.may \subseteq reach[n].in.may
<1>1. Reducible(g) /\ r \in Regions(g) /\ Solved(r) /\ reach \in [AllNodes(g) -> Ends(Values)]
  BY Analysed DEF Passes, PassTypes
<1>2. n \in Nodes(g, r) \ {EntryNode(r)}
  <2>1. PICK e \in Edges(g, r) : e[1] = p /\ e[2] = n
    BY DEF Predecessors
  <2> QED
    BY <1>1, <2>1, EdgeEnds
<1> DEFINE outs == {reach[q].out : q \in Predecessors(Edges(g, r), n)}
<1>4. reach[n].in = Meet(outs)
  BY <1>1, <1>2 DEF Solved
<1>5. reach[p].out \in outs
  OBVIOUS
<1> HIDE DEF outs
<1> QED
  BY <1>4, <1>5 DEF Meet

(* The same, along an edge.                                                *)
LEMMA AlongEdge ==
  ASSUME Passes, NEW r \in solved, NEW p, NEW n, <<p, n>> \in Edges(g, r)
  PROVE  /\ reach[n].in.must \subseteq reach[p].out.must
         /\ reach[p].out.may \subseteq reach[n].in.may
<1>1. Reducible(g) /\ r \in Regions(g)
  BY Analysed DEF Passes, PassTypes
<1>2. p \in Predecessors(Edges(g, r), n)
  BY <1>1, Neighbours
<1> QED
  BY <1>2, AfterNode

(* Nothing is written on every way to the header of a region.              *)
LEMMA AtHeader ==
  ASSUME Passes, NEW r \in solved
  PROVE  reach[NodeOf(g, r, Header(g, r))].in.must = {}
<1>1. Reducible(g) /\ r \in Regions(g) /\ Solved(r)
  BY Analysed DEF Passes, PassTypes
<1>2. reach[EntryNode(r)].out.must = {}
  BY <1>1 DEF Solved, BoundaryCondition
<1> QED
  BY <1>2, EntryEdge, AlongEdge

(* A node adds what it defines.                                            *)
LEMMA ThroughNode ==
  ASSUME Passes, NEW r \in solved, NEW n \in BodyNodes(g, r)
  PROVE  /\ reach[n].out.must = reach[n].in.must \cup du[n].defs
         /\ reach[n].out.may = reach[n].in.may \cup du[n].defs \cup du[n].mayDefs
<1>1. Reducible(g) /\ r \in Regions(g) /\ Solved(r)
  BY Analysed DEF Passes, PassTypes
<1>2. n \in Nodes(g, r) \ {EntryNode(r), ExitNode(r)}
  BY <1>1, NodeFacts, NodeKinds
<1>3. reach[n].out = TransferReach(du[n], reach[n].in)
  BY <1>1, <1>2 DEF Solved
<1> QED
  BY <1>3 DEF TransferReach

(* A latch adds nothing.                                                   *)
LEMMA ThroughLatch ==
  ASSUME Passes, NEW l \in solved, l \in Loops(g)
  PROVE  reach[LatchNode(l)].out.must = reach[LatchNode(l)].in.must
<1>1. Reducible(g) /\ l \in Regions(g) /\ Solved(l) /\ BlocksKnown
  BY Analysed DEF Passes, PassTypes
<1>2. LatchNode(l) \in Nodes(g, l) \ {EntryNode(l), ExitNode(l)} /\ Latches(g, l) # {}
  BY <1>1, LatchOfLoop, NodeKinds
<1>3. du[LatchNode(l)] = Nothing
  BY <1>1, <1>2 DEF BlocksKnown
<1>4. reach[LatchNode(l)].out = TransferReach(Nothing, reach[LatchNode(l)].in)
  BY <1>1, <1>2, <1>3 DEF Solved
<1> QED
  BY <1>4 DEF TransferReach, Nothing

-----------------------------------------------------------------------------
(* What the values say of the run: on the way to where it is, this          *)
(* iteration of a region has written what must be written on every way, and *)
(* nothing but what may be written on some way; and what an inner loop      *)
(* writes is written by this iteration of the region around it.            *)
NodeHere(r) == NodeOf(g, r, at.block)
MustHolds(r) == \A x \in reach[NodeHere(r)].in.must : src[r][x] = "this"
WrittenHere(r) ==
  \A x \in Locs : \A i \in 1..(at.next - 1) :
    IsAccess(Accesses, "write", x, i) => src[r][x] = "this"
MayHolds(r) == \A x \in Locs : src[r][x] = "this" => x \in reach[NodeHere(r)].out.may
LatchHolds(l) ==
  \A x \in reach[LatchNode(l)].out.must : taken[l] # 0 => src[l][x] \in {"this", "previous"}
FirstIteration(l) ==
  taken[l] = 0 => \A x \in Locs : src[l][x] \in {"this", "outside"}
InnerWrites(r) ==
  \A q \in NestedIn(g, r) : Here(q) =>
    \A x \in Locs : src[q][x] # "outside" => src[r][x] = "this"
RunHolds ==
  at.block > 0 =>
    \A r \in Regions(g) : Here(r) =>
      /\ MustHolds(r) /\ WrittenHere(r) /\ MayHolds(r) /\ InnerWrites(r)
      /\ r # Fn => LatchHolds(r) /\ FirstIteration(r)

(* The state of the run, all passes being done.                            *)
InRun == Passes /\ RunTypes /\ RunHolds /\ at.block > 0

(* What is known in a state of the run.                                    *)
LEMMA InRunFacts ==
  ASSUME InRun
  PROVE  /\ prog \in Functions /\ Reducible(g) /\ at.block \in g.blocks
         /\ solved = Regions(g) /\ lived = Regions(g) /\ resolved = Loops(g)
         /\ \A r \in Regions(g) : Solved(r) /\ Lived(r)
         /\ Accesses = prog.accesses[at.block] /\ Accesses \in Bodies
         /\ Here(Fn) /\ Fn \in Regions(g)
         /\ \A r : Here(r) <=> at.block \in Body(g, r)
         /\ reach \in [AllNodes(g) -> Ends(Values)] /\ du \in [AllNodes(g) -> Sets]
         /\ \A r \in Regions(g) : Here(r) =>
              /\ MustHolds(r) /\ WrittenHere(r) /\ MayHolds(r) /\ InnerWrites(r)
              /\ r # Fn => LatchHolds(r) /\ FirstIteration(r)
<1>1. prog \in Functions /\ RunTypes /\ at.block > 0 /\ PassesInOrder
  BY DEF InRun, Passes, PassTypes
<1>2. at.block # Idle /\ Fn \in Regions(g)
  BY <1>1 DEF Idle, Regions
<1>3. solved = Regions(g) /\ lived = Regions(g) /\ resolved = Loops(g)
  BY <1>1, <1>2 DEF PassesInOrder
<1> QED
  BY <1>1, <1>2, <1>3, Analysed, Running DEF InRun, Passes, PassTypes, RunHolds, Accesses

(* When a node has been run it has written what it always defines.         *)
LEMMA NodeDone ==
  ASSUME InRun, at.next > Len(Accesses), NEW r \in Regions(g), Here(r),
         \A l \in InnerLoops(g, r) : at.block \in g.loops[l] =>
           \A x \in du[RegionNode(l)].defs : src[l][x] # "outside"
  PROVE  /\ \A x \in reach[NodeHere(r)].out.must : src[r][x] = "this"
         /\ \A x \in du[NodeHere(r)].defs : src[r][x] = "this"
<1>1. /\ Passes /\ Reducible(g) /\ at.block \in Body(g, r) /\ r \in solved
      /\ MustHolds(r) /\ WrittenHere(r) /\ InnerWrites(r) /\ Accesses \in Bodies
      /\ du \in [AllNodes(g) -> Sets] /\ RunTypes
      /\ Accesses = prog.accesses[at.block]
  BY InRunFacts DEF InRun
<1>2. NodeHere(r) \in BodyNodes(g, r)
  BY <1>1, NodeFacts DEF NodeHere
<1>3. NodeHere(r) \in AllNodes(g) /\ NodeHere(r) \in Nodes(g, r)
  BY <1>1, <1>2, NodeFacts
<1>4. ASSUME NEW x \in du[NodeHere(r)].defs PROVE src[r][x] = "this"
  <2>1. x \in Locs
    BY <1>1, <1>3, <1>4 DEF Sets
  <2>2. CASE NodeHere(r) = BlockNode(at.block)
    <3>1. du[NodeHere(r)] = BlockDefUse(Accesses)
      BY <1>1, <1>3, <2>2 DEF Passes, BlocksKnown
    <3>2. PICK i \in 1..Len(Accesses) : IsAccess(Accesses, "write", x, i)
      BY <1>1, <1>4, <2>1, <3>1, BlockSets
    <3>3. at.next \in Nat /\ Len(Accesses) \in Nat
      BY <1>1, Running DEF RunTypes, InRun, Passes, PassTypes
    <3>4. i \in 1..(at.next - 1)
      BY <3>2, <3>3
    <3> QED
      BY <1>1, <2>1, <3>2, <3>4 DEF WrittenHere
  <2>3. CASE \E l \in InnerLoops(g, r) : at.block \in g.loops[l] /\ NodeHere(r) = RegionNode(l)
    <3>1. PICK l \in InnerLoops(g, r) : at.block \in g.loops[l] /\ NodeHere(r) = RegionNode(l)
      BY <2>3
    <3>2. src[l][x] # "outside"
      BY <1>4, <3>1
    <3>3. l \in NestedIn(g, r) /\ Here(l)
      BY <1>1, <3>1, InnerIsNested DEF Here
    <3> QED
      BY <1>1, <2>1, <3>2, <3>3 DEF InnerWrites
  <2> QED
    BY <1>1, <2>2, <2>3, NodeOfCases DEF NodeHere
<1>5. ASSUME NEW x \in reach[NodeHere(r)].out.must PROVE src[r][x] = "this"
  <2>1. x \in reach[NodeHere(r)].in.must \cup du[NodeHere(r)].defs
    BY <1>1, <1>2, <1>5, ThroughNode
  <2> QED
    BY <1>1, <1>4, <2>1 DEF MustHolds
<1> QED
  BY <1>4, <1>5

(* When a region is left it has written what the values at its exit say,   *)
(* once its inner loops that are left have.                                *)
LEMMA ExitReached ==
  ASSUME InRun, at.next > Len(Accesses), NEW r \in Regions(g), Here(r),
         g.succ[at.block] = {} \/ \E s \in g.succ[at.block] : s \notin Body(g, r),
         \A l \in InnerLoops(g, r) : at.block \in g.loops[l] =>
           \A x \in du[RegionNode(l)].defs : src[l][x] # "outside"
  PROVE  /\ \A x \in reach[ExitNode(r)].out.must : src[r][x] = "this"
         /\ r = Fn => \A x \in du[RegionNode(r)].defs : src[r][x] = "this"
<1>1. Passes /\ r \in solved /\ Solved(r) /\ at.block \in Body(g, r)
  BY InRunFacts DEF InRun
<1>2. <<NodeHere(r), ExitNode(r)>> \in Edges(g, r)
  BY <1>1, ExitEdge DEF NodeHere
<1>3. reach[ExitNode(r)].out.must \subseteq reach[NodeHere(r)].out.must
  BY <1>1, <1>2, AlongEdge DEF Solved
<1>4. \A x \in reach[ExitNode(r)].out.must : src[r][x] = "this"
  BY <1>3, NodeDone
<1>5. r = Fn => \A x \in du[RegionNode(r)].defs : x \in reach[ExitNode(r)].out.must
  BY <1>1, CollapseFacts DEF Solved
<1> QED
  BY <1>4, <1>5

(* A loop that is left has written what it always defines: on the way to   *)
(* its exit, or in the iterations its known trip count makes certain.      *)
LEMMA LoopLeft ==
  ASSUME InRun, at.next > Len(Accesses), NEW s \in g.succ[at.block], MayTake(s),
         NEW l \in Loops(g), Here(l), s \notin g.loops[l]
  PROVE  /\ \A x \in du[RegionNode(l)].defs : src[l][x] # "outside"
         /\ \A x \in reach[ExitNode(l)].out.must : src[l][x] = "this"
<1> DEFINE Good(k) == /\ \A x \in du[RegionNode(k)].defs : src[k][x] # "outside"
                      /\ \A x \in reach[ExitNode(k)].out.must : src[k][x] = "this"
           C == {k \in Loops(g) : Here(k) /\ s \notin g.loops[k] /\ ~Good(k)}
<1>1. Passes /\ Reducible(g) /\ prog \in Functions
  BY InRunFacts DEF InRun
<1>2. ASSUME C # {} PROVE FALSE
  <2>1. C \in SUBSET Regions(g)
    BY DEF Regions
  <2>2. PICK k \in C : \A q \in C : q \notin NestedIn(g, k)
    BY <1>1, <1>2, <2>1, Innermost
  <2>3. /\ k \in Loops(g) /\ k \in Regions(g) /\ k # Fn /\ Here(k) /\ s \notin g.loops[k]
        /\ Body(g, k) = g.loops[k] /\ at.block \in Body(g, k)
    BY <1>1, RegionBodies, InRunFacts DEF Regions
  <2>4. ASSUME NEW q \in InnerLoops(g, k), at.block \in g.loops[q]
        PROVE  \A x \in du[RegionNode(q)].defs : src[q][x] # "outside"
    <3>1. /\ q \in NestedIn(g, k) /\ q \in Loops(g) /\ g.loops[q] = Body(g, q)
          /\ g.loops[q] \subseteq Body(g, k)
      BY <1>1, <2>3, InnerIsNested
    <3>2. s \notin g.loops[q] /\ Here(q)
      BY <2>3, <2>4, <3>1 DEF Here
    <3>3. Good(q)
      BY <2>2, <3>1, <3>2
    <3> QED
      BY <3>3
  <2>5. \A x \in reach[ExitNode(k)].out.must : src[k][x] = "this"
    BY <2>3, <2>4, ExitReached
  <2>6. ASSUME NEW x \in du[RegionNode(k)].defs PROVE src[k][x] # "outside"
    <3>1. CASE x \in reach[ExitNode(k)].out.must
      BY <2>5, <3>1
    <3>2. CASE HasTrips(k) /\ x \in reach[LatchNode(k)].out.must
      <4>1. prog.count[k] # Unknown
        BY <2>3, <3>2 DEF HasTrips, TripCount
      <4>2. at.block \in Exiting(g, k)
        BY <2>3 DEF Exiting
      <4>3. taken[k] = prog.count[k]
        BY <2>3, <4>1, <4>2 DEF MayTake
      <4>4. prog.count[k] # 0
        BY <1>1, <2>3, <4>1, Analysed, Inputs
      <4>5. LatchHolds(k)
        BY <2>3, InRunFacts
      <4> QED
        BY <3>2, <4>3, <4>4, <4>5 DEF LatchHolds
    <3>3. Solved(k)
      BY <2>3, InRunFacts
    <3> QED
      BY <2>6, <3>1, <3>2, <3>3, CollapseFacts DEF Solved
  <2>7. Good(k)
    BY <2>5, <2>6
  <2> QED
    BY <2>7
<1> QED
  BY <1>2

(* An access keeps what the values say of the run.                         *)
LEMMA RunHoldsAccess ==
  ASSUME InRun, Access
  PROVE  RunHolds'
<1> DEFINE a == Accesses[at.next]
<1>1. /\ prog \in Functions /\ RunTypes /\ reach' = reach
      /\ reach \in [AllNodes(g) -> Ends(Values)] /\ Reducible(g)
  BY InRunFacts DEF InRun, Access, passes
<1>2. /\ g' = g /\ at'.block = at.block /\ at'.next = at.next + 1
      /\ at.next \in 1..Len(Accesses) /\ Len(Accesses) \in Nat /\ taken' = taken
      /\ a \in [op : {"read", "write", "maywrite"}, loc : Locs]
      /\ Accesses' = Accesses
  <2>1. /\ g' = g /\ at' = [at EXCEPT !.next = @ + 1] /\ at.next \in 1..Len(Accesses)
        /\ a \in [op : {"read", "write", "maywrite"}, loc : Locs] /\ taken' = taken
    BY <1>1, AccessFacts
  <2>2. at'.block = at.block /\ at'.next = at.next + 1
    BY <1>1, <2>1 DEF RunTypes
  <2>3. prog' = prog
    BY DEF Access
  <2>4. Len(Accesses) \in Nat
    BY <1>1, Running DEF InRun
  <2> QED
    BY <2>1, <2>2, <2>3, <2>4 DEF Accesses
<1>3. \A r \in Regions(g) : src[r] \in [Locs -> Where]
  BY <1>1 DEF RunTypes
<1>4. \/ /\ a.op # "write"
         /\ \A r \in Regions(g) : Here(r) => src'[r] = src[r]
      \/ /\ a.op # "read"
         /\ \A r \in Regions(g) : Here(r) => src'[r] = [src[r] EXCEPT ![a.loc] = "this"]
  BY <1>1, AccessFacts, SettledFacts
<1> HIDE DEF a
<1>6. \/ \A r \in Regions(g), x \in Locs : Here(r) => src'[r][x] = src[r][x]
      \/ /\ a.op # "read"
         /\ \A r \in Regions(g), x \in Locs : Here(r) =>
              src'[r][x] = IF x = a.loc THEN "this" ELSE src[r][x]
  BY <1>3, <1>4
<1>7. a.op = "write" => \A r \in Regions(g) : Here(r) => src'[r][a.loc] = "this"
  BY <1>2, <1>3, <1>4
<1>8. \A r \in Regions(g), x \in Locs : Here(r) /\ src[r][x] = "this" => src'[r][x] = "this"
  BY <1>6
<1>9. ASSUME NEW r \in Regions(g), Here(r)
      PROVE  /\ MustHolds(r)' /\ WrittenHere(r)' /\ MayHolds(r)' /\ InnerWrites(r)'
             /\ r # Fn => LatchHolds(r)' /\ FirstIteration(r)'
  <2>1. /\ MustHolds(r) /\ WrittenHere(r) /\ MayHolds(r) /\ InnerWrites(r)
        /\ r # Fn => LatchHolds(r) /\ FirstIteration(r)
        /\ at.block \in Body(g, r) /\ NodeHere(r)' = NodeHere(r)
    BY <1>2, <1>9, InRunFacts DEF NodeHere
  <2>2. NodeHere(r) \in BodyNodes(g, r) /\ NodeHere(r) \in AllNodes(g)
    BY <1>1, <2>1, NodeFacts DEF NodeHere
  <2>3. MustHolds(r)'
    <3>1. reach[NodeHere(r)].in.must \subseteq Locs
      BY <1>1, <2>2 DEF Ends, Values
    <3> QED
      BY <1>1, <1>8, <1>9, <2>1, <3>1 DEF MustHolds
  <2>4. WrittenHere(r)'
    <3>1. SUFFICES ASSUME NEW x \in Locs, NEW i \in 1..at.next, IsAccess(Accesses, "write", x, i)
                   PROVE  src'[r][x] = "this"
      BY <1>2 DEF WrittenHere, IsAccess
    <3>2. CASE i = at.next
      BY <1>7, <1>9, <3>1, <3>2 DEF IsAccess, a
    <3>3. CASE i # at.next
      <4>1. i \in 1..(at.next - 1)
        BY <1>2, <3>3
      <4> QED
        BY <1>8, <1>9, <2>1, <3>1, <4>1 DEF WrittenHere
    <3> QED
      BY <3>2, <3>3
  <2>5. MayHolds(r)'
    <3>1. SUFFICES ASSUME NEW x \in Locs, src'[r][x] = "this"
                   PROVE  x \in reach[NodeHere(r)].out.may
      BY <1>1, <2>1 DEF MayHolds
    <3>2. CASE src[r][x] = "this"
      BY <2>1, <3>2 DEF MayHolds
    <3>3. CASE a.op # "read" /\ x = a.loc
      <4>1. /\ at.block \in g.blocks /\ at.next \in 1..Len(prog.accesses[at.block])
            /\ \/ IsAccess(prog.accesses[at.block], "write", x, at.next)
               \/ IsAccess(prog.accesses[at.block], "maywrite", x, at.next)
            /\ solved = Regions(g) /\ Passes
        BY <1>2, <3>3, InRunFacts DEF IsAccess, a, InRun
      <4>2. x \in du[NodeHere(r)].defs \cup du[NodeHere(r)].mayDefs
        <5>1. CASE NodeHere(r) = BlockNode(at.block)
          <6>1. du[NodeHere(r)] = BlockDefUse(prog.accesses[at.block])
            BY <2>1, <2>2, <1>1, <4>1, <5>1, NodeFacts DEF Passes, BlocksKnown
          <6> QED
            BY <4>1, <6>1, BlockSets, InRunFacts
        <5>2. CASE \E l \in InnerLoops(g, r) : at.block \in g.loops[l] /\ NodeHere(r) = RegionNode(l)
          <6>1. PICK l \in InnerLoops(g, r) : at.block \in g.loops[l] /\ NodeHere(r) = RegionNode(l)
            BY <5>2
          <6>2. l \in Regions(g) /\ at.block \in Body(g, l)
            BY <1>1, <6>1, InnerIsNested
          <6>3. x \in Known(l)
            BY <4>1, <6>2, BlockWrites
          <6> QED
            BY <6>1, <6>3 DEF Known
        <5> QED
          BY <1>1, <2>1, <5>1, <5>2, NodeOfCases DEF NodeHere
      <4> QED
        BY <2>2, <4>1, <4>2, ThroughNode
    <3> QED
      BY <1>6, <1>9, <3>1, <3>2, <3>3
  <2>6. InnerWrites(r)'
    <3>1. SUFFICES ASSUME NEW q \in NestedIn(g, r), Here(q), NEW x \in Locs,
                          src'[q][x] # "outside"
                   PROVE  src'[r][x] = "this"
      BY <1>2 DEF InnerWrites, Here
    <3>2. q \in Regions(g)
      BY <1>1, <3>1, Inside
    <3>3. src[q][x] # "outside" => src[r][x] = "this"
      BY <2>1, <3>1 DEF InnerWrites
    <3> QED
      BY <1>6, <1>9, <3>1, <3>2, <3>3
  <2>7. ASSUME r # Fn PROVE LatchHolds(r)' /\ FirstIteration(r)'
    <3>1. \A x \in Locs : src'[r][x] \in {src[r][x], "this"}
      BY <1>6, <1>9
    <3>2. FirstIteration(r)'
      BY <1>2, <2>1, <2>7, <3>1 DEF FirstIteration
    <3>3. LatchHolds(r)'
      <4>1. r \in Loops(g) /\ Latches(g, r) # {}
        BY <1>1, <2>7 DEF Regions, Reducible, NaturalLoops
      <4>2. LatchNode(r) \in AllNodes(g)
        BY <1>1, <4>1, NodeFacts
      <4>3. reach[LatchNode(r)].out.must \subseteq Locs
        BY <1>1, <4>2 DEF Ends, Values
      <4> QED
        BY <1>1, <1>2, <2>1, <2>7, <3>1, <4>3 DEF LatchHolds
    <3> QED
      BY <3>2, <3>3
  <2> QED
    BY <2>3, <2>4, <2>5, <2>6, <2>7
<1>10. \A r \in Regions(g) : Here(r)' <=> Here(r)
  BY <1>2 DEF Here
<1> QED
  BY <1>2, <1>9, <1>10 DEF RunHolds

(* A branch inside a region stays in its node or follows an edge of its     *)
(* graph, the node it leaves being done.                                   *)
LEMMA NextNode ==
  ASSUME InRun, at.next > Len(Accesses), NEW s \in g.succ[at.block], MayTake(s),
         NEW r \in Regions(g), Here(r), s \in Body(g, r)
  PROVE  /\ s = Header(g, r) =>
              \A x \in reach[LatchNode(r)].out.must : r # Fn => src[r][x] = "this"
         /\ \/ s = Header(g, r)
            \/ NodeOf(g, r, s) = NodeHere(r)
            \/ /\ \A x \in reach[NodeOf(g, r, s)].in.must : src[r][x] = "this"
               /\ reach[NodeHere(r)].out.may \subseteq reach[NodeOf(g, r, s)].out.may
<1>1. /\ Passes /\ Reducible(g) /\ r \in solved /\ at.block \in Body(g, r)
      /\ s \in g.blocks
  BY InRunFacts, Branching DEF InRun
<1>2. ASSUME s = Header(g, r) \/ NodeOf(g, r, s) # NodeHere(r)
      PROVE  \A x \in reach[NodeHere(r)].out.must : src[r][x] = "this"
  <2>1. ASSUME NEW l \in InnerLoops(g, r), at.block \in g.loops[l]
        PROVE  \A x \in du[RegionNode(l)].defs : src[l][x] # "outside"
    <3>1. /\ l \in Loops(g) /\ Here(l) /\ NodeHere(r) = RegionNode(l)
          /\ Header(g, r) \notin g.loops[l]
      BY <1>1, <2>1, InnerIsNested, NodeOfLoop DEF Here, NodeHere
    <3>2. s \notin g.loops[l]
      BY <1>1, <1>2, <3>1, NodeOfLoop
    <3> QED
      BY <3>1, <3>2, LoopLeft
  <2> QED
    BY <2>1, NodeDone
<1>3. CASE s = Header(g, r)
  <2>1. ASSUME r # Fn, NEW x \in reach[LatchNode(r)].out.must PROVE src[r][x] = "this"
    <3>1. r \in Loops(g)
      BY <2>1 DEF Regions
    <3>2. <<NodeHere(r), LatchNode(r)>> \in Edges(g, r)
      BY <1>1, <1>3, BackEdge DEF NodeHere
    <3>3. x \in reach[NodeHere(r)].out.must
      BY <1>1, <2>1, <3>1, <3>2, AlongEdge, ThroughLatch
    <3> QED
      BY <1>2, <1>3, <3>3
  <2> QED
    BY <1>3, <2>1
<1>4. CASE s # Header(g, r) /\ NodeOf(g, r, s) # NodeHere(r)
  <2>1. <<NodeHere(r), NodeOf(g, r, s)>> \in Edges(g, r)
    BY <1>1, <1>4, BranchEdge DEF NodeHere
  <2>2. NodeOf(g, r, s) \in BodyNodes(g, r)
    BY <1>1, NodeFacts
  <2>3. /\ reach[NodeOf(g, r, s)].in.must \subseteq reach[NodeHere(r)].out.must
        /\ reach[NodeHere(r)].out.may \subseteq reach[NodeOf(g, r, s)].in.may
    BY <1>1, <2>1, AlongEdge
  <2>4. reach[NodeOf(g, r, s)].in.may \subseteq reach[NodeOf(g, r, s)].out.may
    BY <1>1, <2>2, ThroughNode
  <2> QED
    BY <1>2, <1>4, <2>3, <2>4
<1> QED
  BY <1>3, <1>4

(* A branch starts an iteration of the loops it is at the header of, and    *)
(* goes on with that of the other regions it stays in.                     *)
LEMMA RunHoldsBranch ==
  ASSUME InRun, NEW s \in g.succ[at.block], Branch(s)
  PROVE  RunHolds'
<1>1. /\ prog \in Functions /\ RunTypes /\ Reducible(g) /\ at.block > 0
      /\ at.block \in g.blocks /\ Passes /\ solved = Regions(g)
      /\ prog.count \in [Loops(g) -> Counts \cup {Unknown}]
  BY InRunFacts, Analysed DEF InRun
<1>2. /\ g' = g /\ at.next > Len(Accesses) /\ s \in g.blocks \ {g.entry}
      /\ at'.block = s /\ at'.next = 1
      /\ \A r \in Regions(g) : Here(r)' <=> s \in Body(g, r)
  BY <1>1, BranchFacts
<1>3. MayTake(s) /\ reach' = reach
  BY DEF Branch, passes
<1>4. ASSUME NEW r \in Regions(g), s \in Body(g, r), s # Header(g, r)
      PROVE  Here(r) /\ src'[r] = src[r] /\ (r # Fn => taken'[r] = taken[r])
  <2>1. Here(r)
    BY <1>1, <1>4, Enter, InRunFacts
  <2>2. src'[r] = src[r]
    BY <1>1, <1>4, <2>1, BranchFacts, SettledFacts
  <2>3. r # Fn => r \in Loops(g) /\ s # r
    BY <1>4 DEF Regions, Header
  <2> QED
    BY <2>1, <2>2, <2>3 DEF Branch
<1>5. ASSUME NEW r \in Regions(g), s = Header(g, r)
      PROVE  /\ \A x \in Locs : src'[r][x] \in Where \ {"this"}
             /\ Here(r) => \A x \in Locs : src'[r][x] = Older(src[r][x])
             /\ ~Here(r) => src'[r] = Outside
  <2>1. ASSUME NEW x \in Locs, Here(r) PROVE src'[r][x] = Older(src[r][x])
    <3>1. src'[r] = [y \in Locs |-> Older(src[r][y])]
      BY <1>1, <1>5, <2>1, BranchFacts
    <3> QED
      BY <3>1
  <2>2. ~Here(r) => src'[r] = Outside
    BY <1>1, <1>5, BranchFacts
  <2>3. \A x \in Locs : src[r][x] \in Where
    BY <1>1 DEF RunTypes
  <2>4. \A x \in Locs : Older(src[r][x]) \in Where \ {"this"}
    BY <2>3, OlderFacts
  <2>5. "outside" \in Where \ {"this"}
    BY DEF Where
  <2> QED
    BY <1>1, <2>1, <2>2, <2>4, <2>5, SettledFacts
<1>6. ASSUME NEW r \in Regions(g), s \in Body(g, r)
      PROVE  /\ MustHolds(r)' /\ WrittenHere(r)' /\ MayHolds(r)' /\ InnerWrites(r)'
             /\ r # Fn => LatchHolds(r)' /\ FirstIteration(r)'
  <2>1. NodeHere(r)' = NodeOf(g, r, s)
    BY <1>2 DEF NodeHere
  <2>2. MustHolds(r)'
    <3>1. CASE s = Header(g, r)
      BY <1>1, <1>3, <2>1, <3>1, AtHeader DEF MustHolds
    <3>2. CASE s # Header(g, r)
      <4>1. Here(r) /\ src'[r] = src[r] /\ MustHolds(r)
        BY <1>4, <1>6, <3>2, InRunFacts
      <4>2. \/ NodeOf(g, r, s) = NodeHere(r)
            \/ \A x \in reach[NodeOf(g, r, s)].in.must : src[r][x] = "this"
        BY <1>2, <1>3, <1>6, <3>2, <4>1, NextNode
      <4> QED
        BY <1>3, <2>1, <4>1, <4>2 DEF MustHolds
    <3> QED
      BY <3>1, <3>2
  <2>3. WrittenHere(r)'
    BY <1>2 DEF WrittenHere
  <2>4. MayHolds(r)'
    <3>1. CASE s = Header(g, r)
      BY <1>5, <3>1 DEF MayHolds
    <3>2. CASE s # Header(g, r)
      <4>1. Here(r) /\ src'[r] = src[r] /\ MayHolds(r)
        BY <1>4, <1>6, <3>2, InRunFacts
      <4>2. \/ NodeOf(g, r, s) = NodeHere(r)
            \/ reach[NodeHere(r)].out.may \subseteq reach[NodeOf(g, r, s)].out.may
        BY <1>2, <1>3, <1>6, <3>2, <4>1, NextNode
      <4> QED
        BY <1>3, <2>1, <4>1, <4>2 DEF MayHolds
    <3> QED
      BY <3>1, <3>2
  <2>5. InnerWrites(r)'
    <3>1. SUFFICES ASSUME NEW q \in NestedIn(g, r), s \in Body(g, q), NEW x \in Locs,
                          src'[q][x] # "outside"
                   PROVE  src'[r][x] = "this"
      BY <1>1, <1>2, Inside DEF InnerWrites
    <3>2. q \in Regions(g) /\ s # Header(g, r) /\ Body(g, q) \subseteq Body(g, r)
      BY <1>1, <3>1, Inside
    <3>3. Here(r) /\ src'[r] = src[r] /\ InnerWrites(r)
      BY <1>4, <1>6, <3>2, InRunFacts
    <3>4. Here(q) /\ src[q][x] # "outside"
      <4>1. CASE s = Header(g, q)
        <5>1. Here(q) /\ src'[q][x] = Older(src[q][x])
          BY <1>1, <1>5, <3>1, <3>2, <4>1, SettledFacts
        <5>2. src[q][x] \in Where
          BY <1>1, <3>2 DEF RunTypes
        <5> QED
          BY <3>1, <5>1, <5>2, OlderFacts
      <4>2. CASE s # Header(g, q)
        BY <1>4, <3>1, <3>2, <4>2
      <4> QED
        BY <4>1, <4>2
    <3> QED
      BY <3>1, <3>3, <3>4 DEF InnerWrites
  <2>6. ASSUME r # Fn PROVE LatchHolds(r)' /\ FirstIteration(r)'
    <3>1. r \in Loops(g) /\ Header(g, r) = r /\ taken[r] \in Nat /\ LatchNode(r) \in AllNodes(g)
      BY <1>1, <2>6, LatchOfLoop, NodeFacts DEF Regions, Header, RunTypes, Reducible, NaturalLoops
    <3>2. CASE s = r /\ Here(r)
      <4>1. taken'[r] # 0
        <5>1. prog.count[r] = Unknown \/ prog.count[r] \in Nat \ {0}
          BY <1>1, <3>1, Inputs
        <5>2. taken'[r] = IF taken[r] < (IF prog.count[r] = Unknown THEN 1 ELSE prog.count[r])
                          THEN taken[r] + 1 ELSE taken[r]
          BY <3>1, <3>2 DEF Branch
        <5> QED
          BY <3>1, <5>1, <5>2
      <4>2. \A x \in reach[LatchNode(r)].out.must : src'[r][x] = "previous"
        <5>1. SUFFICES ASSUME NEW x \in reach[LatchNode(r)].out.must
                       PROVE  src'[r][x] = "previous"
          OBVIOUS
        <5>2. src[r][x] = "this"
          BY <1>2, <1>3, <1>6, <2>6, <3>1, <3>2, NextNode
        <5>3. x \in Locs
          BY <3>1, InRunFacts DEF Ends, Values
        <5>4. src'[r][x] = Older("this")
          BY <1>5, <3>1, <3>2, <5>2, <5>3
        <5> QED
          BY <5>4 DEF Older
      <4> QED
        BY <1>3, <4>1, <4>2 DEF LatchHolds, FirstIteration
    <3>3. CASE s = r /\ ~Here(r)
      <4>1. taken'[r] = 0
        BY <3>1, <3>3 DEF Branch
      <4>2. \A x \in Locs : src'[r][x] = "outside"
        BY <1>1, <1>5, <3>1, <3>3, SettledFacts
      <4> QED
        BY <4>1, <4>2 DEF LatchHolds, FirstIteration
    <3>4. CASE s # r
      <4>1. Here(r) /\ src'[r] = src[r] /\ taken'[r] = taken[r]
        BY <1>4, <1>6, <2>6, <3>1, <3>4
      <4>2. LatchHolds(r) /\ FirstIteration(r)
        BY <2>6, <4>1, InRunFacts
      <4> QED
        BY <1>3, <4>1, <4>2 DEF LatchHolds, FirstIteration
    <3> QED
      BY <3>2, <3>3, <3>4
  <2> QED
    BY <2>2, <2>3, <2>4, <2>5, <2>6
<1> QED
  BY <1>2, <1>6 DEF RunHolds

(* Every step keeps what the values say of the run.                        *)
LEMMA RunHoldsStep ==
  ASSUME Passes, RunTypes, RunHolds, [Next]_vars
  PROVE  RunHolds'
<1>0. /\ at.block \in g.blocks \cup {Idle, Returned} /\ prog \in Functions /\ Reducible(g)
      /\ at.block # Idle =>
           solved = Regions(g) /\ lived = Regions(g) /\ resolved = Loops(g)
      /\ at.block = Idle => src = [r \in Regions(g) |-> Outside]
      /\ solved \subseteq Regions(g) /\ lived \subseteq Regions(g)
      /\ resolved \subseteq Loops(g)
  BY Analysed DEF Passes, PassTypes, PassesInOrder, RunTypes, Regions
<1>1. CASE Upward \/ Downward \/ Recognition
  <2>1. at.block = Idle
    BY <1>0, <1>1 DEF Upward, Downward, Recognition, SolveUpward, SolveDownward, Resolve
  <2>2. at' = at
    BY <1>1 DEF Upward, Downward, Recognition, SolveUpward, SolveDownward, Resolve, running
  <2> QED
    BY <2>1, <2>2 DEF RunHolds, Idle
<1>2. CASE UNCHANGED vars
  BY <1>2 DEF vars, passes, running, RunHolds, Here, NodeHere, MustHolds, WrittenHere,
              MayHolds, LatchHolds, FirstIteration, InnerWrites, Accesses, g
<1>3. CASE Call
  <2>1. /\ at.block = Idle /\ g' = g /\ at'.block = g.entry /\ at'.next = 1
        /\ src' = src /\ reach' = reach /\ lived = Regions(g) /\ taken' = taken
    BY <1>3 DEF Call, g, passes
  <2>2. \A r \in Regions(g), x \in Locs : src'[r][x] = "outside"
    BY <1>0, <2>1 DEF Outside
  <2>3. solved = Regions(g)
    BY <1>0, <2>1 DEF Passes, PassesInOrder, Regions
  <2>4. \A r \in Regions(g) : Here(r)' => r = Fn
    BY <1>0, <2>1, RegionBodies DEF Here, Regions
  <2>5. Header(g, Fn) = g.entry /\ Fn \in Regions(g)
    BY <1>0, RegionBodies
  <2>6. MustHolds(Fn)'
    BY <2>1, <2>3, <2>5, AtHeader DEF MustHolds, NodeHere
  <2>7. WrittenHere(Fn)' /\ MayHolds(Fn)'
    BY <2>1, <2>2, <2>5 DEF WrittenHere, MayHolds
  <2>8. InnerWrites(Fn)'
    <3>1. \A q \in NestedIn(g, Fn) : q \in Regions(g)
      BY DEF NestedIn, Regions
    <3> QED
      BY <2>1, <2>2, <3>1 DEF InnerWrites
  <2> QED
    BY <2>1, <2>4, <2>6, <2>7, <2>8 DEF RunHolds
<1>4. CASE Access
  <2>1. InRun
    BY <1>4 DEF InRun, Access
  <2> QED
    BY <1>4, <2>1, RunHoldsAccess
<1>5. CASE SomeBranch
  <2>1. PICK s \in g.succ[at.block] : at.block > 0 /\ Branch(s)
    BY <1>5 DEF SomeBranch
  <2>2. InRun
    BY <2>1 DEF InRun
  <2> QED
    BY <2>1, <2>2, RunHoldsBranch
<1>6. CASE Return
  BY <1>6 DEF Return, RunHolds, Returned
<1> QED
  BY <1>1, <1>2, <1>3, <1>4, <1>5, <1>6 DEF Next

(* Nothing runs at the start.                                              *)
LEMMA RunHoldsInit ==
  ASSUME Init
  PROVE  RunHolds
  BY DEF Init, RunHolds, Idle

-----------------------------------------------------------------------------
(* What the passes say of a region that is left.                           *)
Invariant == Passes /\ RunTypes /\ RunHolds /\ WritesAreKnown

(* The inductive invariant: the equations of the passes and what they say  *)
(* of the run.                                                             *)
LEMMA InvariantHolds == Spec => []Invariant
<1>1. Init => Invariant
  <2> SUFFICES ASSUME Init PROVE Invariant
    OBVIOUS
  <2>1. \A r \in Regions(g), x \in Locs : src[r][x] = "outside"
    BY DEF Init, Outside
  <2> QED
    BY <2>1, PassesInit, RunTypesInit, RunHoldsInit DEF WritesAreKnown, Invariant
<1>2. Invariant /\ [Next]_vars => Invariant'
  BY PassesStep, RunTypesStep, RunHoldsStep, WritesStep DEF Passes, PassTypes, Invariant
<1> QED
  BY <1>1, <1>2, PTL DEF Spec

(* The regions a step leaves, and what is known of them then: a loop by the *)
(* branch that leaves it, the function by its return.                      *)
LEMMA LeavingStep ==
  ASSUME Invariant, [Next]_vars
  PROVE  /\ prog' = prog
         /\ \/ left' = {}
            \/ /\ left' = left /\ UNCHANGED <<src, taken>>
               /\ at.block # Idle => UNCHANGED <<du, reach, traits>>
               /\ at.block = Idle => left = {}
            \/ /\ InRun /\ at.next > Len(Accesses) /\ UNCHANGED <<du, reach, traits>>
               /\ \E s \in g.succ[at.block] :
                    /\ MayTake(s)
                    /\ left' = {r \in Regions(g) : Here(r) /\ s \notin Body(g, r)}
                    /\ \A r \in left' :
                         /\ r \in Loops(g) /\ Here(r) /\ s \notin g.loops[r]
                         /\ src'[r] = src[r] /\ taken'[r] = taken[r]
            \/ /\ InRun /\ at.next > Len(Accesses) /\ UNCHANGED <<du, reach, traits>>
               /\ g.succ[at.block] = {} /\ left' = {Fn} /\ src'[Fn] = src[Fn]
               /\ taken' = taken
<1>0. /\ at.block \in g.blocks \cup {Idle, Returned} /\ prog \in Functions /\ Reducible(g)
      /\ at.block # Idle =>
           solved = Regions(g) /\ lived = Regions(g) /\ resolved = Loops(g)
      /\ at.block = Idle => left = {}
      /\ solved \subseteq Regions(g) /\ lived \subseteq Regions(g)
      /\ resolved \subseteq Loops(g) /\ RunTypes
  BY Analysed DEF Invariant, Passes, PassTypes, PassesInOrder, RunTypes, Regions
<1>1. CASE Upward \/ Downward \/ Recognition
  <2>1. at.block = Idle
    BY <1>0, <1>1 DEF Upward, Downward, Recognition, SolveUpward, SolveDownward, Resolve
  <2>2. UNCHANGED <<prog, running>>
    BY <1>1 DEF Upward, Downward, Recognition, SolveUpward, SolveDownward, Resolve
  <2> QED
    BY <1>0, <2>1, <2>2 DEF running
<1>2. CASE Call \/ UNCHANGED vars
  BY <1>0, <1>2 DEF Call, vars, passes, running
<1>3. CASE Access
  BY <1>3 DEF Access
<1>4. CASE SomeBranch
  <2>1. PICK s \in g.succ[at.block] : at.block > 0 /\ Branch(s)
    BY <1>4 DEF SomeBranch
  <2>2. /\ InRun /\ at.next > Len(Accesses) /\ UNCHANGED <<prog, du, reach, traits>>
        /\ MayTake(s)
    BY <2>1 DEF InRun, Invariant, Branch, passes
  <2>3. left' = {r \in Regions(g) : Here(r) /\ s \notin Body(g, r)} /\ s \in g.blocks
    BY <1>0, <2>1, BranchFacts
  <2>4. ASSUME NEW r \in left'
        PROVE  /\ r \in Loops(g) /\ Here(r) /\ s \notin g.loops[r]
               /\ src'[r] = src[r] /\ taken'[r] = taken[r]
    <3>1. r \in Regions(g) /\ Here(r) /\ s \notin Body(g, r)
      BY <2>3, <2>4
    <3>2. r \in Loops(g) /\ s \notin g.loops[r] /\ s # r /\ s # Header(g, r)
      BY <1>0, <2>3, <3>1, RegionBodies DEF Regions
    <3>3. src'[r] = src[r]
      BY <1>0, <2>1, <3>1, <3>2, BranchFacts, SettledFacts
    <3>4. taken'[r] = taken[r]
      BY <2>1, <3>1, <3>2 DEF Branch
    <3> QED
      BY <3>1, <3>2, <3>3, <3>4
  <2> QED
    BY <2>2, <2>3, <2>4
<1>5. CASE Return
  <2>1. /\ InRun /\ at.next > Len(Accesses) /\ UNCHANGED <<prog, du, reach, traits>>
        /\ g.succ[at.block] = {} /\ left' = {Fn} /\ src' = Settled /\ taken' = taken
    BY <1>5 DEF InRun, Invariant, Return, passes
  <2>2. src'[Fn] = src[Fn]
    BY <1>0, <2>1, InRunFacts, SettledFacts
  <2> QED
    BY <2>1, <2>2
<1> QED
  BY <1>1, <1>2, <1>3, <1>4, <1>5 DEF Next

(* What is left after a step has been written in full.                     *)
LEMMA DefsStep ==
  ASSUME Invariant, DefsAlwaysWritten, [Next]_vars
  PROVE  DefsAlwaysWritten'
<1>1. CASE left' = {}
  BY <1>1 DEF DefsAlwaysWritten
<1>2. CASE /\ left' = left /\ UNCHANGED <<src, taken>>
           /\ at.block # Idle => UNCHANGED <<du, reach, traits>>
           /\ at.block = Idle => left = {}
  BY <1>2 DEF DefsAlwaysWritten
<1>3. CASE /\ InRun /\ at.next > Len(Accesses) /\ UNCHANGED <<du, reach, traits>>
           /\ \E s \in g.succ[at.block] :
                /\ MayTake(s)
                /\ left' = {r \in Regions(g) : Here(r) /\ s \notin Body(g, r)}
                /\ \A r \in left' :
                     /\ r \in Loops(g) /\ Here(r) /\ s \notin g.loops[r]
                     /\ src'[r] = src[r] /\ taken'[r] = taken[r]
  BY <1>3, LoopLeft DEF DefsAlwaysWritten
<1>4. CASE /\ InRun /\ at.next > Len(Accesses) /\ UNCHANGED <<du, reach, traits>>
           /\ g.succ[at.block] = {} /\ left' = {Fn} /\ src'[Fn] = src[Fn]
           /\ taken' = taken
  <2>1. \A l \in InnerLoops(g, Fn) : at.block \notin g.loops[l]
    BY <1>4, InRunFacts, Branching, InnerIsNested
  <2>2. \A x \in du[RegionNode(Fn)].defs : src[Fn][x] = "this"
    BY <1>4, <2>1, InRunFacts, ExitReached
  <2> QED
    BY <1>4, <2>2 DEF DefsAlwaysWritten
<1> QED
  BY <1>1, <1>2, <1>3, <1>4, LeavingStep

(* What a region always defines is written on every way through it          *)
(* (DefsAlwaysWritten): the meet over the branches of its graph, the known  *)
(* trip count of its loop and the loops collapsed inside agree with every   *)
(* run.                                                                    *)
THEOREM DefsWritten == Spec => []DefsAlwaysWritten
<1>1. Init => DefsAlwaysWritten
  BY DEF Init, DefsAlwaysWritten
<1>2. Invariant /\ DefsAlwaysWritten /\ [Next]_vars => DefsAlwaysWritten'
  BY DefsStep
<1> QED
  BY <1>1, <1>2, InvariantHolds, PTL DEF Spec

-----------------------------------------------------------------------------
(* What a region reads from outside its iteration is among its uses, from   *)
(* the innermost region around the access outwards.                        *)
LEMMA UsesHold ==
  ASSUME Invariant
  PROVE  UsesCoverReads
<1>1. SUFFICES ASSUME NEW x \in Reads, NEW r \in Regions(g), Here(r), src[r][x] # "this",
                      x \notin du[RegionNode(r)].uses
               PROVE  FALSE
  BY DEF UsesCoverReads
<1>2. /\ at.block > 0 /\ at.next <= Len(Accesses) /\ x = Accesses[at.next].loc
      /\ IsAccess(Accesses, "read", x, at.next)
  BY <1>1 DEF Reads, IsAccess
<1>3. /\ InRun /\ Passes /\ Reducible(g) /\ Accesses = prog.accesses[at.block]
      /\ Accesses \in Bodies /\ at.next \in 1..Len(Accesses) /\ x \in Locs
      /\ Len(Accesses) \in Nat
  <2>1. InRun
    BY <1>2 DEF InRun, Invariant
  <2>2. prog \in Functions /\ RunTypes
    BY <2>1, InRunFacts DEF InRun
  <2> QED
    BY <1>2, <2>1, <2>2, InRunFacts, Running DEF InRun
<1> DEFINE C == {q \in Regions(g) : /\ Here(q) /\ src[q][x] # "this"
                                    /\ x \notin du[RegionNode(q)].uses}
<1>4. C \in SUBSET Regions(g) /\ C # {}
  BY <1>1
<1>5. PICK q \in C : \A k \in C : k \notin NestedIn(g, q)
  BY <1>3, <1>4, Innermost
<1>6. /\ q \in Regions(g) /\ Here(q) /\ at.block \in Body(g, q) /\ Solved(q)
      /\ MustHolds(q) /\ WrittenHere(q) /\ InnerWrites(q)
      /\ src[q][x] # "this" /\ x \notin du[RegionNode(q)].uses
  BY <1>3, <1>5, InRunFacts
<1>7. x \notin reach[NodeHere(q)].in.must
  BY <1>6 DEF MustHolds
<1>8. NodeHere(q) \in BodyNodes(g, q) /\ NodeHere(q) \in Nodes(g, q)
  BY <1>3, <1>6, NodeFacts DEF NodeHere
<1>9. x \in du[NodeHere(q)].uses
  <2>1. CASE NodeHere(q) = BlockNode(at.block)
    <3>1. du[NodeHere(q)] = BlockDefUse(Accesses)
      BY <1>3, <1>6, <1>8, <2>1 DEF Passes, BlocksKnown
    <3>2. \A k \in 1..(at.next - 1) : ~IsAccess(Accesses, "write", x, k)
      BY <1>3, <1>6 DEF WrittenHere
    <3>3. ReadsFirst(Accesses, x, Len(Accesses))
      BY <1>2, <1>3, <3>2 DEF ReadsFirst
    <3> QED
      BY <1>3, <3>1, <3>3, BlockSets
  <2>2. CASE \E l \in InnerLoops(g, q) : at.block \in g.loops[l] /\ NodeHere(q) = RegionNode(l)
    <3>1. PICK l \in InnerLoops(g, q) : at.block \in g.loops[l] /\ NodeHere(q) = RegionNode(l)
      BY <2>2
    <3>2. l \in NestedIn(g, q) /\ l \in Regions(g) /\ Here(l)
      BY <1>3, <1>6, <3>1, InnerIsNested DEF Here
    <3>3. src[l][x] # "this"
      BY <1>3, <1>6, <3>2 DEF InnerWrites
    <3> QED
      BY <1>5, <3>1, <3>2, <3>3
  <2> QED
    BY <1>3, <1>6, <2>1, <2>2, NodeOfCases DEF NodeHere
<1> QED
  BY <1>6, <1>7, <1>8, <1>9, CollapseFacts DEF Solved

(* The uses of a region hold every location read in it whose value comes    *)
(* from outside the region or from another iteration (UsesCoverReads): a    *)
(* read is dropped only behind a write that this iteration has made.        *)
THEOREM UsesCovered == Spec => []UsesCoverReads
<1>1. Invariant => UsesCoverReads
  BY UsesHold
<1> QED
  BY <1>1, InvariantHolds, PTL

(* What a trait says of the values it was derived from.                    *)
LEMMA TraitsMean ==
  ASSUME NEW l, NEW x
  PROVE  /\ "LastPrivate" \in ResolveAccess(l, x) => x \in reach[ExitNode(l)].out.must
         /\ "SecondToLastPrivate" \in ResolveAccess(l, x) =>
              /\ x \in reach[LatchNode(l)].out.must
              /\ x \notin reach[ExitNode(l)].out.may
         /\ "Readonly" \in ResolveAccess(l, x) =>
              x \notin du[RegionNode(l)].defs \cup du[RegionNode(l)].mayDefs
  BY DEF ResolveAccess, CopyOut

(* What is left after a step holds the values its traits promise.          *)
LEMMA CopiesStep ==
  ASSUME Invariant, CopiesAreRight, [Next]_vars
  PROVE  CopiesAreRight'
<1>1. CASE left' \subseteq {Fn}
  BY <1>1 DEF CopiesAreRight
<1>2. CASE /\ left' = left /\ UNCHANGED <<src, taken>>
           /\ at.block # Idle => UNCHANGED <<du, reach, traits>>
           /\ at.block = Idle => left = {}
  BY <1>2 DEF CopiesAreRight
<1>3. CASE /\ InRun /\ at.next > Len(Accesses) /\ UNCHANGED <<du, reach, traits>>
           /\ \E s \in g.succ[at.block] :
                /\ MayTake(s)
                /\ left' = {r \in Regions(g) : Here(r) /\ s \notin Body(g, r)}
                /\ \A r \in left' :
                     /\ r \in Loops(g) /\ Here(r) /\ s \notin g.loops[r]
                     /\ src'[r] = src[r] /\ taken'[r] = taken[r]
  <2>1. SUFFICES ASSUME NEW l \in left' \ {Fn}, NEW x \in Locs
                 PROVE  /\ "LastPrivate" \in traits[l][x] => src[l][x] = "this"
                        /\ "SecondToLastPrivate" \in traits[l][x] =>
                             src[l][x] = (IF taken[l] = 0 THEN "outside" ELSE "previous")
                        /\ "Readonly" \in traits[l][x] => src[l][x] = "outside"
    BY <1>3 DEF CopiesAreRight
  <2>2. PICK s \in g.succ[at.block] :
          /\ MayTake(s) /\ l \in Loops(g) /\ Here(l) /\ s \notin g.loops[l]
    BY <1>3, <2>1
  <2>3. /\ Passes /\ Reducible(g) /\ l \in Regions(g) /\ l # Fn /\ at.block \in Body(g, l)
        /\ Body(g, l) = g.loops[l]
        /\ Solved(l) /\ MayHolds(l) /\ LatchHolds(l) /\ FirstIteration(l)
        /\ traits[l] = [y \in Locs |-> ResolveAccess(l, y)] /\ l \in solved
    BY <1>3, <2>1, <2>2, InRunFacts, RegionBodies DEF InRun, Passes, Regions
  <2>4. traits[l][x] = ResolveAccess(l, x)
    BY <2>3
  <2>5. "LastPrivate" \in traits[l][x] => src[l][x] = "this"
    BY <1>3, <2>2, <2>4, LoopLeft, TraitsMean
  <2>6. ASSUME "SecondToLastPrivate" \in traits[l][x]
        PROVE  src[l][x] = (IF taken[l] = 0 THEN "outside" ELSE "previous")
    <3>1. x \in reach[LatchNode(l)].out.must /\ x \notin reach[ExitNode(l)].out.may
      BY <2>4, <2>6, TraitsMean
    <3>2. <<NodeHere(l), ExitNode(l)>> \in Edges(g, l)
      BY <2>2, <2>3, ExitEdge DEF NodeHere
    <3>3. x \notin reach[NodeHere(l)].out.may
      BY <2>3, <3>1, <3>2, AlongEdge DEF Solved
    <3>4. src[l][x] # "this"
      BY <2>3, <3>3 DEF MayHolds
    <3> QED
      BY <2>3, <3>1, <3>4 DEF LatchHolds, FirstIteration
  <2>7. "Readonly" \in traits[l][x] => src[l][x] = "outside"
    BY <2>3, <2>4, TraitsMean DEF Invariant, WritesAreKnown
  <2> QED
    BY <2>5, <2>6, <2>7
<1> QED
  BY <1>1, <1>2, <1>3, LeavingStep

(* The value a private copy is taken from is the one the loop leaves        *)
(* (CopiesAreRight), whatever the number of its iterations.                *)
THEOREM CopiesRight == Spec => []CopiesAreRight
<1>1. Init => CopiesAreRight
  BY DEF Init, CopiesAreRight
<1>2. Invariant /\ CopiesAreRight /\ [Next]_vars => CopiesAreRight'
  BY CopiesStep
<1> QED
  BY <1>1, <1>2, InvariantHolds, PTL DEF Spec

-----------------------------------------------------------------------------
(* Live memory along the edges of a region.                                *)
LEMMA LiveAlong ==
  ASSUME Passes, NEW r \in lived, NEW p, NEW n, <<p, n>> \in LiveEdges(g, r)
  PROVE  live[n].in \subseteq live[p].out
<1>1. Reducible(g) /\ r \in Regions(g) /\ Lived(r)
  BY Analysed DEF Passes, PassTypes
<1>2. n \in Successors(LiveEdges(g, r), p)
  BY DEF Successors
<1>3. p \in Nodes(g, r)
  <2>1. CASE <<p, n>> \in Edges(g, r)
    BY <1>1, <2>1, EdgeEnds
  <2>2. CASE <<p, n>> \notin Edges(g, r)
    BY <1>1, <2>2, NodeFacts DEF LiveEdges
  <2> QED
    BY <2>1, <2>2
<1> DEFINE ins == {live[s].in : s \in Successors(LiveEdges(g, r), p)}
<1>4. live[p].out = UNION ins
  BY <1>1, <1>3 DEF Lived
<1>5. live[n].in \in ins
  BY <1>2
<1> HIDE DEF ins
<1> QED
  BY <1>4, <1>5

(* What is alive before a node.                                            *)
LEMMA LiveThrough ==
  ASSUME Passes, NEW r \in lived, NEW n \in Nodes(g, r) \ {EntryNode(r), ExitNode(r)}
  PROVE  live[n].in = du[n].uses \cup (live[n].out \ du[n].defs)
<1>1. live[n].in = TransferLive(du[n], live[n].out)
  BY DEF Passes, Lived
<1> QED
  BY <1>1 DEF TransferLive

(* What is not alive when a loop is left, and not used by it, is not alive  *)
(* when an iteration starts: on the way from the header to a read of it     *)
(* there is a write.                                                       *)
LEMMA HeaderDead ==
  ASSUME Passes, NEW r \in solved, r \in lived, r \in Loops(g), NEW x,
         x \notin du[RegionNode(r)].uses, x \notin live[ExitNode(r)].in
  PROVE  x \notin live[BlockNode(r)].in
<1>1. /\ Reducible(g) /\ r \in Regions(g) /\ Solved(r) /\ Lived(r) /\ BlocksKnown
      /\ Latches(g, r) # {} /\ LatchNode(r) \in Nodes(g, r)
  BY Analysed, LatchOfLoop DEF Passes, PassTypes
<1>2. \A n \in BodyNodes(g, r) : x \in du[n].uses => x \in reach[n].in.must
  BY <1>1, CollapseFacts DEF Solved
<1> DEFINE S == {n \in Nodes(g, r) \ {EntryNode(r)} :
                   x \in live[n].in /\ x \notin reach[n].in.must}
<1>3. ASSUME S # {} PROVE FALSE
  <2>1. S \in SUBSET Nodes(g, r)
    OBVIOUS
  <2>2. PICK n \in S : Successors(Edges(g, r), n) \cap S = {}
    <3> HIDE DEF S
    <3>1. Acyclic(g, r)
      BY <1>1 DEF Reducible
    <3> QED
      BY <1>3, <2>1, <3>1 DEF Acyclic
  <2>3. /\ n \in Nodes(g, r) /\ n \notin {EntryNode(r), ExitNode(r)}
        /\ x \in live[n].in /\ x \notin reach[n].in.must
    BY <2>2
  <2>4. x \in du[n].uses \/ (x \in live[n].out /\ x \notin du[n].defs)
    BY <2>3, LiveThrough
  <2>5. ASSUME x \in live[n].out
        PROVE  \E m \in Successors(LiveEdges(g, r), n) : x \in live[m].in
    <3> DEFINE ins == {live[m].in : m \in Successors(LiveEdges(g, r), n)}
    <3>1. live[n].out = UNION ins
      BY <1>1, <2>3 DEF Lived
    <3>2. \E i \in ins : x \in i
      <4> HIDE DEF ins
      <4> QED
        BY <2>5, <3>1
    <3> QED
      BY <3>2
  <2>6. CASE n = LatchNode(r)
    <3>1. du[n] = Nothing
      BY <1>1, <2>6 DEF BlocksKnown
    <3>2. PICK m \in Successors(LiveEdges(g, r), n) : x \in live[m].in
      BY <2>4, <2>5, <3>1 DEF Nothing
    <3>3. n \notin Predecessors(Edges(g, r), m)
      BY <1>1, <2>6, Neighbours
    <3>4. m = ExitNode(r)
      BY <1>1, <3>2, <3>3, Neighbours
    <3> QED
      BY <3>2, <3>4
  <2>7. CASE n # LatchNode(r)
    <3>1. n \in BodyNodes(g, r)
      BY <1>1, <2>3, <2>7, NodeFacts
    <3>2. x \in live[n].out /\ x \notin du[n].defs
      BY <1>2, <2>3, <2>4, <3>1
    <3>3. PICK m \in Successors(LiveEdges(g, r), n) : x \in live[m].in
      BY <2>5, <3>2
    <3>4. n \in Predecessors(Edges(g, r), m) /\ m \in Nodes(g, r) \ {EntryNode(r)}
      BY <1>1, <2>7, <3>3, Neighbours
    <3>5. m \in Successors(Edges(g, r), n)
      <4>1. PICK e \in Edges(g, r) : e[1] = n /\ e[2] = m
        BY <3>4 DEF Predecessors
      <4> QED
        BY <4>1 DEF Successors
    <3>6. x \notin reach[m].in.must
      BY <2>3, <3>1, <3>2, <3>4, AfterNode, ThroughNode
    <3>7. m \in S
      BY <3>3, <3>4, <3>6
    <3> QED
      BY <2>2, <3>5, <3>7
  <2> QED
    BY <2>6, <2>7
<1>4. NodeOf(g, r, r) = BlockNode(r) /\ Header(g, r) = r /\ BlockNode(r) \in BodyNodes(g, r)
  BY <1>1, NodeOfHeader, RegionBodies, NodeFacts
<1>5. BlockNode(r) \in Nodes(g, r) \ {EntryNode(r)}
  BY <1>1, <1>4, NodeFacts, NodeKinds
<1>6. x \notin reach[BlockNode(r)].in.must
  BY <1>4, AtHeader
<1> QED
  BY <1>3, <1>5, <1>6

-----------------------------------------------------------------------------
(* Where a location that was said not to be alive still is not: at the      *)
(* point of a block the run has reached, or before a loop it is in and has  *)
(* not written the location in.                                            *)
PointAlive(accesses, b, n, x) ==
  \/ \E i \in n..Len(accesses) :
       /\ IsAccess(accesses, "read", x, i)
       /\ \A k \in n..(i - 1) : ~IsAccess(accesses, "write", x, k)
  \/ /\ x \in live[BlockNode(b)].out
     /\ \A k \in n..Len(accesses) : ~IsAccess(accesses, "write", x, k)
DeadAtPoint(r, x) ==
  /\ NodeHere(r) = BlockNode(at.block)
  /\ ~PointAlive(Accesses, at.block, at.next, x)
DeadBefore(r, x) ==
  \E l \in InnerLoops(g, r) :
    at.block \in g.loops[l] /\ x \notin live[RegionNode(l)].in /\ src[l][x] = "outside"
IsDead(x) == \E r \in Regions(g) : Here(r) /\ (DeadAtPoint(r, x) \/ DeadBefore(r, x))
DeadHolds == at.block > 0 => \A x \in dead : IsDead(x)

(* At the start of a block it is what live memory says of the block.       *)
LEMMA BlockStart ==
  ASSUME Passes, NEW r \in lived, NEW b \in Body(g, r), NodeOf(g, r, b) = BlockNode(b),
         NEW x \in Locs, x \notin live[BlockNode(b)].in
  PROVE  ~PointAlive(prog.accesses[b], b, 1, x)
<1>1. /\ Reducible(g) /\ r \in Regions(g) /\ BlocksKnown /\ b \in g.blocks
      /\ prog.accesses[b] \in Bodies
  BY Analysed, RegionBodies DEF Passes, PassTypes
<1>2. BlockNode(b) \in BodyNodes(g, r) /\ BlockNode(b) \in Nodes(g, r) \ {EntryNode(r), ExitNode(r)}
  BY <1>1, NodeFacts, NodeKinds
<1>3. du[BlockNode(b)] = BlockDefUse(prog.accesses[b])
  BY <1>1, <1>2 DEF BlocksKnown
<1>4. x \notin du[BlockNode(b)].uses
      /\ (x \notin live[BlockNode(b)].out \/ x \in du[BlockNode(b)].defs)
  BY <1>2, LiveThrough
<1>5. ~ReadsFirst(prog.accesses[b], x, Len(prog.accesses[b]))
  BY <1>1, <1>3, <1>4, BlockSets
<1>6. x \in live[BlockNode(b)].out =>
        \E i \in 1..Len(prog.accesses[b]) : IsAccess(prog.accesses[b], "write", x, i)
  BY <1>1, <1>3, <1>4, BlockSets
<1> QED
  BY <1>5, <1>6 DEF PointAlive, ReadsFirst

(* A location that is not alive after a node the run leaves is not alive    *)
(* where it goes.                                                          *)
LEMMA DeadNext ==
  ASSUME InRun, NEW s \in g.succ[at.block], Branch(s), NEW x \in Locs,
         NEW r0 \in Regions(g), Here(r0), x \notin live[NodeHere(r0)].out,
         \A l \in InnerLoops(g, r0) : at.block \in g.loops[l] => s \notin g.loops[l]
  PROVE  IsDead(x)'
<1>1. /\ prog \in Functions /\ RunTypes /\ Reducible(g) /\ at.block > 0
      /\ at.block \in g.blocks /\ Passes /\ solved = Regions(g) /\ lived = Regions(g)
      /\ \A r : Here(r) <=> at.block \in Body(g, r)
  BY InRunFacts DEF InRun
<1>2. /\ g' = g /\ prog' = prog /\ live' = live /\ s \in g.blocks \ {g.entry}
      /\ at'.block = s /\ at'.next = 1
      /\ \A r \in Regions(g) : Here(r)' <=> s \in Body(g, r)
  BY <1>1, BranchFacts DEF Branch, passes
<1>3. \A r : NodeHere(r)' = NodeOf(g, r, s)
  BY <1>2 DEF NodeHere
<1>4. Accesses' = prog.accesses[s]
  BY <1>2 DEF Accesses
<1> DEFINE D == {r \in Regions(g) :
                   /\ Here(r) /\ x \notin live[NodeHere(r)].out
                   /\ \A l \in InnerLoops(g, r) :
                        at.block \in g.loops[l] => s \notin g.loops[l]}
<1>5. D \in SUBSET Regions(g) /\ r0 \in D
  OBVIOUS
<1>6. PICK r \in D : \A q \in D : r \notin NestedIn(g, q)
  <2> HIDE DEF D
  <2> QED
    BY <1>1, <1>5, Outermost
<1>7. /\ r \in Regions(g) /\ Here(r) /\ at.block \in Body(g, r)
      /\ x \notin live[NodeHere(r)].out /\ r \in lived /\ Lived(r)
      /\ \A l \in InnerLoops(g, r) : at.block \in g.loops[l] => s \notin g.loops[l]
  BY <1>1, <1>6 DEF Passes
<1>8. CASE s \in Body(g, r) /\ s # Header(g, r)
  <2>1. NodeHere(r) # NodeOf(g, r, s)
    BY <1>1, <1>7, <1>8, BranchLeaves DEF NodeHere
  <2>2. <<NodeHere(r), NodeOf(g, r, s)>> \in LiveEdges(g, r)
    BY <1>7, <1>8, <2>1, BranchEdge DEF NodeHere, LiveEdges
  <2>3. x \notin live[NodeOf(g, r, s)].in
    BY <1>1, <1>7, <2>2, LiveAlong
  <2>4. CASE NodeOf(g, r, s) = BlockNode(s)
    <3>1. ~PointAlive(prog.accesses[s], s, 1, x)
      BY <1>1, <1>7, <1>8, <2>3, <2>4, BlockStart
    <3>2. DeadAtPoint(r, x)'
      BY <1>2, <1>3, <1>4, <2>4, <3>1 DEF DeadAtPoint, PointAlive
    <3> QED
      BY <1>2, <1>7, <1>8, <3>2 DEF IsDead
  <2>5. CASE \E l \in InnerLoops(g, r) : s \in g.loops[l] /\ NodeOf(g, r, s) = RegionNode(l)
    <3>1. PICK l \in InnerLoops(g, r) : s \in g.loops[l] /\ NodeOf(g, r, s) = RegionNode(l)
      BY <2>5
    <3>2. l \in Regions(g) /\ g.loops[l] = Body(g, l) /\ at.block \notin Body(g, l)
      BY <1>1, <1>7, <3>1, InnerIsNested
    <3>3. s = Header(g, l) /\ ~Here(l)
      BY <1>1, <3>1, <3>2, Enter
    <3>4. src'[l][x] = "outside"
      BY <1>1, <3>2, <3>3, BranchFacts, SettledFacts
    <3>5. DeadBefore(r, x)'
      BY <1>2, <2>3, <3>1, <3>4 DEF DeadBefore
    <3> QED
      BY <1>2, <1>7, <1>8, <3>5 DEF IsDead
  <2> QED
    BY <1>1, <1>7, <1>8, <2>4, <2>5, NodeOfCases
<1>9. CASE s = Header(g, r)
  <2>1. r \in Loops(g) /\ Header(g, r) = r /\ s = r
    BY <1>1, <1>2, <1>7, <1>9, RegionBodies DEF Regions
  <2>2. <<NodeHere(r), LatchNode(r)>> \in LiveEdges(g, r) /\ Latches(g, r) # {}
    BY <1>7, <1>9, BackEdge DEF NodeHere, LiveEdges
  <2>3. x \notin live[LatchNode(r)].in
    BY <1>1, <1>7, <2>2, LiveAlong
  <2>4. LatchNode(r) \in Nodes(g, r) \ {EntryNode(r), ExitNode(r)}
    BY <1>1, <1>7, <2>2, NodeFacts, NodeKinds
  <2>5. du[LatchNode(r)] = Nothing
    BY <1>1, <1>7, <2>2 DEF Passes, BlocksKnown
  <2>6. x \notin live[LatchNode(r)].out
    BY <1>1, <1>7, <2>3, <2>4, <2>5, LiveThrough DEF Nothing
  <2>7. <<LatchNode(r), ExitNode(r)>> \in LiveEdges(g, r)
    BY <2>2 DEF LiveEdges
  <2>8. x \notin live[ExitNode(r)].in
    BY <1>1, <1>7, <2>6, <2>7, LiveAlong
  <2>9. x \notin du[RegionNode(r)].uses
    <3>1. /\ Parent(g, r) \in Regions(g) /\ r \in InnerLoops(g, Parent(g, r))
      BY <1>1, <2>1, ParentFacts
    <3>2. RegionNode(r) \in BodyNodes(g, Parent(g, r))
      BY <1>1, <3>1, NodeFacts
    <3>3. RegionNode(r) \in
            Nodes(g, Parent(g, r)) \ {EntryNode(Parent(g, r)), ExitNode(Parent(g, r))}
      BY <1>1, <3>1, <3>2, NodeFacts, NodeKinds
    <3>4. x \notin live[RegionNode(r)].in
      BY <1>7, <2>8 DEF Lived
    <3> QED
      BY <1>1, <3>1, <3>3, <3>4, LiveThrough
  <2>10. x \notin live[BlockNode(s)].in
    BY <1>1, <1>7, <2>1, <2>8, <2>9, HeaderDead
  <2>11. NodeOf(g, r, s) = BlockNode(s) /\ s \in Body(g, r)
    BY <1>1, <1>7, <1>9, NodeOfHeader, RegionBodies
  <2>12. ~PointAlive(prog.accesses[s], s, 1, x)
    BY <1>1, <1>7, <2>10, <2>11, BlockStart
  <2>13. DeadAtPoint(r, x)'
    BY <1>2, <1>3, <1>4, <2>11, <2>12 DEF DeadAtPoint, PointAlive
  <2> QED
    BY <1>2, <1>7, <2>11, <2>13 DEF IsDead
<1>10. CASE s \notin Body(g, r)
  <2>1. r \in Loops(g)
    BY <1>1, <1>2, <1>7, <1>10, RegionBodies DEF Regions
  <2>2. <<NodeHere(r), ExitNode(r)>> \in LiveEdges(g, r)
    BY <1>7, <1>10, ExitEdge DEF NodeHere, LiveEdges
  <2>3. x \notin live[ExitNode(r)].in
    BY <1>1, <1>7, <2>2, LiveAlong
  <2>4. x \notin live[RegionNode(r)].out
    BY <1>7, <2>3 DEF Lived
  <2> DEFINE p == Parent(g, r)
  <2>5. p \in Regions(g) /\ r \in InnerLoops(g, p) /\ Body(g, r) = g.loops[r]
    BY <1>1, <2>1, ParentFacts, RegionBodies
  <2> HIDE DEF p
  <2>6. /\ r \in NestedIn(g, p) /\ at.block \in Body(g, p) /\ Here(p)
        /\ NodeHere(p) = RegionNode(r)
    BY <1>1, <1>7, <2>5, InnerIsNested, NodeOfLoop DEF NodeHere
  <2>7. ASSUME NEW l \in InnerLoops(g, p), at.block \in g.loops[l]
        PROVE  s \notin g.loops[l]
    <3>1. RegionNode(l) = RegionNode(r)
      BY <1>1, <2>5, <2>6, <2>7, NodeOfLoop DEF NodeHere
    <3> QED
      BY <1>10, <2>5, <3>1, NodeNames
  <2>8. p \in D
    BY <2>4, <2>5, <2>6, <2>7
  <2> QED
    BY <1>6, <2>6, <2>8
<1> QED
  BY <1>8, <1>9, <1>10

(* An inner loop the run is before is left without a write only when the    *)
(* location is not alive after it.                                         *)
LEMMA DeadBranch ==
  ASSUME InRun, DeadHolds, NEW s \in g.succ[at.block], Branch(s), NEW x \in dead'
  PROVE  IsDead(x)'
<1>1. /\ prog \in Functions /\ RunTypes /\ Reducible(g) /\ at.block > 0
      /\ at.block \in g.blocks /\ Passes /\ solved = Regions(g) /\ lived = Regions(g)
      /\ \A r : Here(r) <=> at.block \in Body(g, r)
  BY InRunFacts DEF InRun
<1>2. /\ g' = g /\ live' = live /\ at.next > Len(Accesses) /\ s \in g.blocks \ {g.entry}
      /\ at'.block = s /\ MayTake(s)
      /\ \A r \in Regions(g) : Here(r)' <=> s \in Body(g, r)
      /\ left' = {r \in Regions(g) : Here(r) /\ s \notin Body(g, r)}
      /\ dead' = dead \cup NotAlive(left')
  BY <1>1, BranchFacts DEF Branch, passes
<1>3. x \in Locs
  BY <1>1, <1>2 DEF RunTypes, NotAlive
<1>4. ASSUME NEW r \in Regions(g), Here(r), NodeHere(r) = BlockNode(at.block),
             x \notin live[BlockNode(at.block)].out
      PROVE  IsDead(x)'
  <2>1. \A l \in InnerLoops(g, r) : at.block \notin g.loops[l]
    BY <1>1, <1>4, NodeOfLoop, NodeNames DEF NodeHere
  <2> QED
    BY <1>3, <1>4, <2>1, DeadNext
<1>5. ASSUME NEW r \in Regions(g), NEW l \in InnerLoops(g, r), at.block \in g.loops[l],
             s \notin g.loops[l], x \notin live[RegionNode(l)].out
      PROVE  IsDead(x)'
  <2>1. Here(r) /\ NodeHere(r) = RegionNode(l)
    BY <1>1, <1>5, InnerIsNested, NodeOfLoop DEF NodeHere
  <2>2. ASSUME NEW k \in InnerLoops(g, r), at.block \in g.loops[k]
        PROVE  s \notin g.loops[k]
    <3>1. RegionNode(k) = RegionNode(l)
      BY <1>1, <2>1, <2>2, NodeOfLoop DEF NodeHere
    <3> QED
      BY <1>5, <3>1, NodeNames
  <2> QED
    BY <1>3, <1>5, <2>1, <2>2, DeadNext
<1>6. CASE x \in NotAlive(left')
  <2>1. CASE x \notin live[BlockNode(at.block)].out
    <3>1. PICK r \in Regions(g) : at.block \in Body(g, r) /\ NodeHere(r) = BlockNode(at.block)
      BY <1>1, Home DEF NodeHere
    <3> QED
      BY <1>1, <1>4, <2>1, <3>1
  <2>2. CASE \E l \in left' : x \notin live[RegionNode(l)].out
    <3>1. PICK l \in left' : x \notin live[RegionNode(l)].out
      BY <2>2
    <3>2. l \in Loops(g) /\ at.block \in g.loops[l] /\ s \notin g.loops[l]
      BY <1>1, <1>2, RegionBodies DEF Regions
    <3>3. Parent(g, l) \in Regions(g) /\ l \in InnerLoops(g, Parent(g, l))
      BY <1>1, <3>2, ParentFacts
    <3> QED
      BY <1>5, <3>1, <3>2, <3>3
  <2> QED
    BY <1>3, <1>6, <2>1, <2>2 DEF NotAlive
<1>7. CASE x \in dead
  <2>1. PICK r \in Regions(g) : Here(r) /\ (DeadAtPoint(r, x) \/ DeadBefore(r, x))
    BY <1>1, <1>7 DEF DeadHolds, IsDead
  <2>2. CASE DeadAtPoint(r, x)
    <3>1. at.next \in Nat /\ Len(Accesses) \in Nat
      BY <1>1, Running DEF RunTypes
    <3>2. \A k : k \notin at.next..Len(Accesses)
      BY <1>2, <3>1
    <3>3. NodeHere(r) = BlockNode(at.block) /\ x \notin live[BlockNode(at.block)].out
      BY <2>2, <3>2 DEF DeadAtPoint, PointAlive
    <3> QED
      BY <1>4, <2>1, <3>3
  <2>3. CASE DeadBefore(r, x)
    <3>1. PICK l \in InnerLoops(g, r) :
            at.block \in g.loops[l] /\ x \notin live[RegionNode(l)].in /\ src[l][x] = "outside"
      BY <2>3 DEF DeadBefore
    <3>2. /\ l \in Loops(g) /\ l \in Regions(g) /\ g.loops[l] \subseteq Body(g, r)
          /\ g.loops[l] = Body(g, l) /\ Header(g, l) = l /\ Here(l)
      BY <1>1, <3>1, InnerIsNested, RegionBodies
    <3>3. CASE s \in g.loops[l]
      <4>1. src'[l][x] = "outside"
        <5>1. CASE s = Header(g, l)
          <6>1. src'[l] = [y \in Locs |-> Older(src[l][y])]
            BY <1>1, <3>2, <5>1, BranchFacts
          <6>2. src'[l][x] = Older("outside")
            BY <1>3, <3>1, <6>1
          <6>3. "outside" \in Where
            BY DEF Where
          <6> QED
            BY <6>2, <6>3, OlderFacts
        <5>2. CASE s # Header(g, l)
          BY <1>1, <3>1, <3>2, <5>2, BranchFacts, SettledFacts
        <5> QED
          BY <5>1, <5>2
      <4>2. DeadBefore(r, x)' /\ Here(r)'
        BY <1>2, <3>1, <3>2, <3>3, <4>1 DEF DeadBefore
      <4> QED
        BY <1>2, <4>2 DEF IsDead
    <3>4. CASE s \notin g.loops[l]
      <4>1. x \notin du[RegionNode(l)].defs
        BY <1>2, <3>1, <3>2, <3>4, LoopLeft
      <4>2. RegionNode(l) \in Nodes(g, r) \ {EntryNode(r), ExitNode(r)}
        BY <1>1, <3>1, NodeFacts, NodeKinds
      <4>3. x \notin live[RegionNode(l)].out
        BY <1>1, <3>1, <4>1, <4>2, LiveThrough
      <4> QED
        BY <1>5, <3>1, <3>4, <4>3
    <3> QED
      BY <3>3, <3>4
  <2> QED
    BY <2>1, <2>2, <2>3
<1> QED
  BY <1>2, <1>6, <1>7

(* An access keeps dead what it does not write.                            *)
LEMMA DeadAccess ==
  ASSUME InRun, DeadHolds, Access, NEW x \in dead'
  PROVE  IsDead(x)'
<1> DEFINE a == Accesses[at.next]
<1>1. /\ prog \in Functions /\ RunTypes /\ Reducible(g) /\ at.block > 0
      /\ \A r : Here(r) <=> at.block \in Body(g, r)
  BY InRunFacts DEF InRun
<1>2. /\ g' = g /\ prog' = prog /\ live' = live /\ Accesses' = Accesses
      /\ at'.block = at.block /\ at'.next = at.next + 1
      /\ at.next \in 1..Len(Accesses) /\ Len(Accesses) \in Nat
  <2>1. g' = g /\ at' = [at EXCEPT !.next = @ + 1] /\ at.next \in 1..Len(Accesses)
    BY <1>1, AccessFacts
  <2>2. at'.block = at.block /\ at'.next = at.next + 1
    BY <1>1, <2>1 DEF RunTypes
  <2>3. prog' = prog /\ live' = live
    BY DEF Access, passes
  <2>4. Len(Accesses) \in Nat
    BY <1>1, Running
  <2> QED
    BY <2>1, <2>2, <2>3, <2>4 DEF Accesses
<1>3. \A r \in Regions(g) : src[r] \in [Locs -> Where]
  BY <1>1 DEF RunTypes
<1>4. \/ /\ a.op # "write" /\ dead' = dead
         /\ \A r \in Regions(g) : Here(r) => src'[r] = src[r]
      \/ /\ dead' = dead \ {a.loc}
         /\ \A r \in Regions(g) : Here(r) => src'[r] = [src[r] EXCEPT ![a.loc] = "this"]
  BY <1>1, AccessFacts, SettledFacts
<1>5. ~IsAccess(Accesses, "write", x, at.next)
  BY <1>4 DEF IsAccess
<1> HIDE DEF a
<1>6. x \in dead /\ x \in Locs
  BY <1>1, <1>4 DEF RunTypes
<1>7. \A r \in Regions(g) : Here(r) => src'[r][x] = src[r][x]
  BY <1>3, <1>4, <1>6
<1>8. PICK r \in Regions(g) : Here(r) /\ (DeadAtPoint(r, x) \/ DeadBefore(r, x))
  BY <1>1, <1>6 DEF DeadHolds, IsDead
<1>9. Here(r)' /\ NodeHere(r)' = NodeHere(r)
  BY <1>2, <1>8 DEF Here, NodeHere
<1>10. CASE DeadAtPoint(r, x)
  <2>1. ~PointAlive(Accesses, at.block, at.next, x)
    BY <1>10 DEF DeadAtPoint
  <2>2. \A i \in (at.next + 1)..Len(Accesses) : i \in at.next..Len(Accesses)
    BY <1>2
  <2>3. \A i, k : k \in at.next..i => k = at.next \/ k \in (at.next + 1)..i
    BY <1>2
  <2>4. ~PointAlive(Accesses, at.block, at.next + 1, x)
    <3>1. ASSUME NEW i \in (at.next + 1)..Len(Accesses), IsAccess(Accesses, "read", x, i),
                 \A k \in (at.next + 1)..(i - 1) : ~IsAccess(Accesses, "write", x, k)
          PROVE  FALSE
      BY <1>5, <2>1, <2>2, <2>3, <3>1 DEF PointAlive
    <3>2. ASSUME x \in live[BlockNode(at.block)].out,
                 \A k \in (at.next + 1)..Len(Accesses) : ~IsAccess(Accesses, "write", x, k)
          PROVE  FALSE
      BY <1>5, <2>1, <2>3, <3>2 DEF PointAlive
    <3> QED
      BY <3>1, <3>2 DEF PointAlive
  <2>5. DeadAtPoint(r, x)'
    BY <1>2, <1>9, <1>10, <2>4 DEF DeadAtPoint, PointAlive, IsAccess
  <2> QED
    BY <1>2, <1>9, <2>5 DEF IsDead
<1>11. CASE DeadBefore(r, x)
  <2>1. PICK l \in InnerLoops(g, r) :
          at.block \in g.loops[l] /\ x \notin live[RegionNode(l)].in /\ src[l][x] = "outside"
    BY <1>11 DEF DeadBefore
  <2>2. l \in Regions(g) /\ Here(l)
    BY <1>1, <2>1, InnerIsNested
  <2>3. DeadBefore(r, x)'
    BY <1>2, <1>7, <2>1, <2>2 DEF DeadBefore
  <2> QED
    BY <1>2, <1>9, <2>3 DEF IsDead
<1> QED
  BY <1>8, <1>10, <1>11

(* Every step keeps dead locations dead.                                   *)
LEMMA DeadStep ==
  ASSUME Invariant, DeadHolds, [Next]_vars
  PROVE  DeadHolds'
<1>0. /\ at.block \in g.blocks \cup {Idle, Returned} /\ prog \in Functions
      /\ at.block # Idle =>
           solved = Regions(g) /\ lived = Regions(g) /\ resolved = Loops(g)
      /\ at.block = Idle => dead = {}
      /\ solved \subseteq Regions(g) /\ lived \subseteq Regions(g)
      /\ resolved \subseteq Loops(g)
  BY DEF Invariant, Passes, PassTypes, PassesInOrder, RunTypes, Regions
<1>1. CASE Upward \/ Downward \/ Recognition
  <2>1. at.block = Idle
    BY <1>0, <1>1 DEF Upward, Downward, Recognition, SolveUpward, SolveDownward, Resolve
  <2>2. at' = at
    BY <1>1 DEF Upward, Downward, Recognition, SolveUpward, SolveDownward, Resolve, running
  <2> QED
    BY <2>1, <2>2 DEF DeadHolds, Idle
<1>2. CASE UNCHANGED vars
  BY <1>2 DEF vars, passes, running, DeadHolds, IsDead, DeadAtPoint, DeadBefore, Here,
              NodeHere, PointAlive, IsAccess, Accesses, g
<1>3. CASE Call
  BY <1>0, <1>3 DEF Call, DeadHolds
<1>4. CASE Access
  <2>1. InRun
    BY <1>4 DEF InRun, Invariant, Access
  <2> QED
    BY <1>4, <2>1, DeadAccess DEF DeadHolds
<1>5. CASE SomeBranch
  <2>1. PICK s \in g.succ[at.block] : at.block > 0 /\ Branch(s)
    BY <1>5 DEF SomeBranch
  <2>2. InRun
    BY <2>1 DEF InRun, Invariant
  <2> QED
    BY <2>1, <2>2, DeadBranch DEF DeadHolds
<1>6. CASE Return
  BY <1>6 DEF Return, DeadHolds, Returned
<1> QED
  BY <1>1, <1>2, <1>3, <1>4, <1>5, <1>6 DEF Next

(* No location that is read is dead: at the point of its block the read     *)
(* itself keeps it alive, before a loop the uses of the loop do.           *)
LEMMA ReadsAlive ==
  ASSUME Invariant, DeadHolds
  PROVE  Reads \cap dead = {}
<1>1. SUFFICES ASSUME NEW x \in Reads, x \in dead PROVE FALSE
  OBVIOUS
<1>2. /\ at.block > 0 /\ at.next <= Len(Accesses)
      /\ IsAccess(Accesses, "read", x, at.next)
  BY <1>1 DEF Reads, IsAccess
<1>3. /\ InRun /\ Passes /\ Reducible(g) /\ prog \in Functions /\ RunTypes
      /\ lived = Regions(g)
  <2>1. InRun
    BY <1>2 DEF InRun, Invariant
  <2> QED
    BY <2>1, InRunFacts DEF InRun
<1>4. at.next \in 1..Len(Accesses) /\ Len(Accesses) \in Nat
  BY <1>2, <1>3, Running
<1>5. PICK r \in Regions(g) : Here(r) /\ (DeadAtPoint(r, x) \/ DeadBefore(r, x))
  BY <1>1, <1>2 DEF DeadHolds, IsDead
<1>6. ~DeadAtPoint(r, x)
  <2>1. at.next \in at.next..Len(Accesses) /\ \A k : k \notin at.next..(at.next - 1)
    BY <1>4
  <2>2. PointAlive(Accesses, at.block, at.next, x)
    BY <1>2, <2>1 DEF PointAlive
  <2> QED
    BY <2>2 DEF DeadAtPoint
<1>7. ~DeadBefore(r, x)
  <2>1. SUFFICES ASSUME NEW l \in InnerLoops(g, r), at.block \in g.loops[l],
                        x \notin live[RegionNode(l)].in, src[l][x] = "outside"
                 PROVE  FALSE
    BY DEF DeadBefore
  <2>2. l \in Regions(g) /\ Here(l)
    BY <1>3, <2>1, InnerIsNested DEF Here
  <2>3. x \in du[RegionNode(l)].uses
    BY <1>1, <2>1, <2>2, UsesHold DEF UsesCoverReads
  <2>4. RegionNode(l) \in Nodes(g, r) \ {EntryNode(r), ExitNode(r)}
    BY <1>3, <2>1, NodeFacts, NodeKinds
  <2> QED
    BY <1>3, <2>1, <2>3, <2>4, LiveThrough
<1> QED
  BY <1>5, <1>6, <1>7

(* What the function has written and its caller may read is alive at every  *)
(* return.                                                                 *)
ReturnedAlive ==
  at.block = Returned =>
    \A x \in Locs \ prog.own : src[Fn][x] # "outside" => x \notin dead

(* At a return what the caller may read is alive.                          *)
LEMMA ReturnStep ==
  ASSUME InRun, WritesAreKnown, DeadHolds, Return
  PROVE  ReturnedAlive'
<1>1. /\ prog \in Functions /\ RunTypes /\ Reducible(g) /\ at.block > 0
      /\ at.block \in g.blocks /\ Passes /\ lived = Regions(g) /\ Fn \in Regions(g)
      /\ Lived(Fn) /\ Here(Fn)
      /\ \A r : Here(r) <=> at.block \in Body(g, r)
  BY InRunFacts DEF InRun
<1>2. /\ at.next > Len(Accesses) /\ g.succ[at.block] = {} /\ prog' = prog
      /\ src' = Settled /\ dead' = dead \cup NotAlive({Fn})
  BY DEF Return
<1>3. /\ \A l \in Loops(g) : at.block \notin g.loops[l]
      /\ \A r \in Regions(g) : Here(r) => r = Fn
  BY <1>1, <1>2, Branching, RegionBodies DEF Regions
<1>4. NodeHere(Fn) = BlockNode(at.block)
  BY <1>1, <1>3, NodeOfCases, InnerIsNested DEF NodeHere
<1>5. SUFFICES ASSUME NEW x \in Locs \ prog.own, src'[Fn][x] # "outside"
               PROVE  x \notin dead'
  BY <1>2 DEF ReturnedAlive
<1>6. x \in live[RegionNode(Fn)].out
  <2>1. src[Fn][x] # "outside"
    BY <1>1, <1>2, <1>5, SettledFacts
  <2>2. x \in du[RegionNode(Fn)].defs \cup du[RegionNode(Fn)].mayDefs
    BY <1>1, <2>1 DEF WritesAreKnown
  <2> QED
    BY <1>1, <2>2 DEF Lived, LiveAfterFunction
<1>7. x \in live[BlockNode(at.block)].out
  <2>1. <<BlockNode(at.block), ExitNode(Fn)>> \in LiveEdges(g, Fn)
    BY <1>1, <1>2, <1>4, ExitEdge DEF NodeHere, LiveEdges
  <2>2. x \in live[ExitNode(Fn)].in
    BY <1>1, <1>6 DEF Lived
  <2> QED
    BY <1>1, <2>1, <2>2, LiveAlong
<1>8. x \notin NotAlive({Fn})
  BY <1>6, <1>7 DEF NotAlive
<1>9. ASSUME x \in dead PROVE FALSE
  <2>1. DeadAtPoint(Fn, x) \/ DeadBefore(Fn, x)
    BY <1>1, <1>3, <1>9 DEF DeadHolds, IsDead
  <2>2. ~DeadBefore(Fn, x)
    BY <1>1, <1>3, InnerIsNested DEF DeadBefore
  <2>3. at.next \in Nat /\ Len(Accesses) \in Nat
    BY <1>1, Running DEF RunTypes
  <2>4. \A k : k \notin at.next..Len(Accesses)
    BY <1>2, <2>3
  <2> QED
    BY <1>7, <2>1, <2>2, <2>4 DEF DeadAtPoint, PointAlive
<1> QED
  BY <1>2, <1>8, <1>9

(* Every step keeps it so.                                                 *)
LEMMA ReturnedStep ==
  ASSUME Invariant, DeadHolds, ReturnedAlive, [Next]_vars
  PROVE  ReturnedAlive'
<1>0. /\ at.block \in g.blocks \cup {Idle, Returned} /\ prog \in Functions
      /\ at.block # Idle =>
           solved = Regions(g) /\ lived = Regions(g) /\ resolved = Loops(g)
      /\ solved \subseteq Regions(g) /\ lived \subseteq Regions(g)
      /\ resolved \subseteq Loops(g) /\ RunTypes /\ g.blocks \subseteq Nat \ {0}
      /\ Reducible(g)
  BY Analysed DEF Invariant, Passes, PassTypes, PassesInOrder, RunTypes, Regions
<1>1. CASE Upward \/ Downward \/ Recognition
  <2>1. at.block = Idle
    BY <1>0, <1>1 DEF Upward, Downward, Recognition, SolveUpward, SolveDownward, Resolve
  <2>2. at' = at
    BY <1>1 DEF Upward, Downward, Recognition, SolveUpward, SolveDownward, Resolve, running
  <2> QED
    BY <2>1, <2>2 DEF ReturnedAlive, Idle, Returned
<1>2. CASE UNCHANGED vars
  BY <1>2 DEF vars, passes, running, ReturnedAlive
<1>3. CASE Call
  <2>1. at'.block = g.entry /\ g.entry \in g.blocks
    BY <1>0, <1>3, RegionBodies DEF Call
  <2> QED
    BY <1>0, <2>1 DEF ReturnedAlive, Returned
<1>4. CASE Access
  <2>1. at'.block = at.block /\ at.block > 0
    BY <1>0, <1>4 DEF Access, RunTypes
  <2> QED
    BY <2>1 DEF ReturnedAlive, Returned
<1>5. CASE SomeBranch
  <2>1. PICK s \in g.succ[at.block] : at.block > 0 /\ Branch(s)
    BY <1>5 DEF SomeBranch
  <2>2. at'.block > 0
    BY <1>0, <2>1, BranchFacts
  <2> QED
    BY <2>2 DEF ReturnedAlive, Returned
<1>6. CASE Return
  <2>1. InRun
    BY <1>6 DEF Return, InRun, Invariant
  <2> QED
    BY <1>6, <2>1, ReturnStep DEF Invariant
<1> QED
  BY <1>1, <1>2, <1>3, <1>4, <1>5, <1>6 DEF Next

(* A location that is read, by the function or after it by its caller, was  *)
(* said to be alive at the end of every block and loop left since it was    *)
(* last written (LiveCoversReads).                                         *)
THEOREM ReadsAreLive == Spec => []LiveCoversReads
<1>1. Init => DeadHolds /\ ReturnedAlive
  BY DEF Init, DeadHolds, ReturnedAlive
<1>2. Invariant /\ DeadHolds /\ ReturnedAlive /\ [Next]_vars => (DeadHolds /\ ReturnedAlive)'
  BY DeadStep, ReturnedStep
<1>3. Invariant /\ DeadHolds /\ ReturnedAlive => LiveCoversReads
  BY ReadsAlive DEF ReturnedAlive, LiveCoversReads
<1> QED
  BY <1>1, <1>2, <1>3, InvariantHolds, PTL DEF Spec
=============================================================================
