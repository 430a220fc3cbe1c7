-------------------------- MODULE DependenceTests --------------------------
(***************************************************************************)
(* DependenceInfo::depends() (lib/Analysis/Memory/DependenceAnalysis.cpp):  *)
(* is there a dependence from one access to an array to another one, and    *)
(* what is known about it.  The subscripts are classified and split into    *)
(* separable ones and groups coupled by a common loop.  What the tests of   *)
(* SubscriptTests find out in a group is a constraint on each loop, and     *)
(* constraints are propagated into the subscripts of several loops, which   *)
(* may then be tested as subscripts of fewer loops.                         *)
(***************************************************************************)
EXTENDS SubscriptTests, Sequences

VARIABLES
  query,    \* the nest, the pairs of subscripts, and whether control flow
            \* reaches the destination without taking a back edge
  phase,    \* what depends() does now
  todo,     \* subscripts left in this phase
  pairs,    \* subscripts, as simplified by now
  groups,   \* coupled groups left
  sivs,     \* subscripts of one loop found by propagation
  mivs,     \* other subscripts left in the current group
  cons,     \* constraint on the iterations of each level
  levels,   \* levels the current group has constrained
  changed,  \* whether this round has changed a constraint
  result    \* what is known about the dependence

state == <<query, phase, todo, pairs, groups, sivs, mivs, cons, levels, changed, result>>

n == query.nest
Class(p) == Classify(n, pairs[p].src, pairs[p].dst)
LoopsOf(pair) == Mentioned(query.nest, pair.src) \cup Mentioned(query.nest, pair.dst)
First(S) == Min(S)

-----------------------------------------------------------------------------
(* Subscripts and groups *)

\* Subscripts that share no loop with other ones; those without a loop never do.
Closed(q, G) ==
  \A p \in G, o \in DOMAIN q.pairs \ G :
    (Mentioned(q.nest, q.pairs[p].src) \cup Mentioned(q.nest, q.pairs[p].dst)) \cap
    (Mentioned(q.nest, q.pairs[o].src) \cup Mentioned(q.nest, q.pairs[o].dst)) = {}
Partition(q) ==
  {G \in SUBSET DOMAIN q.pairs :
     /\ G # {} /\ Closed(q, G)
     /\ \A H \in SUBSET G : H \notin {{}, G} => ~Closed(q, H)}
Separable(q) == UNION {G \in Partition(q) : Cardinality(G) = 1}
Coupled(q) == {G \in Partition(q) : Cardinality(G) > 1}

Shift(s, i) == [s EXCEPT !.c = @ + i]
Scale(s, i) == [c |-> i * s.c, a |-> [k \in DOMAIN s.a |-> i * s.a[k]]]
Zero(s, k) == [s EXCEPT !.a[k] = 0]
AddTo(s, k, i) == [s EXCEPT !.a[k] = @ + i]

-----------------------------------------------------------------------------
(* Constraints *)

\* Where two lines with different slopes meet, if both may be iterations.
Meet(X, Y) ==
  LET xtop == X.C * Y.B - Y.C * X.B
      xbot == X.A * Y.B - Y.A * X.B
      ytop == X.C * Y.A - Y.C * X.A
      ybot == Y.A * X.B - X.A * Y.B
      x == Quot(xtop, xbot)
      y == Quot(ytop, ybot)
      ub == n.ub[X.loop]
  IN  IF \/ Rem(xtop, xbot) # 0 \/ Rem(ytop, ybot) # 0
         \/ x < 0 \/ y < 0
         \/ ub # NoBound /\ (x > ub \/ y > ub)
      THEN Empty
      ELSE Point(x, y, X.loop)

\* Y, a constraint some test has found, is never a point.
Intersect(X, Y) ==
  IF X.kind = "any" THEN Y
  ELSE IF X.kind = "empty" \/ Y.kind = "any" THEN X
  ELSE IF Y.kind = "empty" THEN Empty
  ELSE IF X.kind = "point"
  THEN IF Y.A * X.x + Y.B * X.y = Y.C THEN X ELSE Empty
  ELSE IF X.kind = "distance" /\ Y.kind = "distance"
  THEN IF X.C = Y.C THEN X ELSE Empty
  ELSE IF X.A * Y.B # X.B * Y.A THEN Meet(X, Y)
  ELSE IF X.C * Y.B = X.B * Y.C THEN X ELSE Empty

\* Replaces one of the iterations of a level, or both, by what a constraint
\* says about it.
PropagateDistance(s, d, c, k, consistent) ==
  [src |-> Zero(Shift(s, s.a[k] * c.C), k), dst |-> AddTo(d, k, -s.a[k]),
   simplified |-> TRUE, consistent |-> consistent /\ d.a[k] = s.a[k]]
\* A * src[k] + B * dst[k] = C, times the coefficient of the source.
Substituted_Minus(s, c, k) == Zero(Shift(Scale(s, c.A), -(s.a[k] * c.C)), k)
Substituted(s, c, k) == Zero(Shift(Scale(s, c.A), s.a[k] * c.C), k)
PropagateLine(s, d, c, k, consistent) ==
  LET both == [src |-> s, dst |-> d, simplified |-> TRUE, consistent |-> consistent]
  IN  IF c.A = 0
      THEN [both EXCEPT !.src = Shift(s, -d.a[k] * Quot(c.C, c.B)), !.dst = Zero(d, k),
                        !.consistent = @ /\ s.a[k] = 0]
      ELSE IF c.B = 0
      THEN [both EXCEPT !.src = Zero(Shift(s, s.a[k] * Quot(c.C, c.A)), k),
                        !.consistent = @ /\ d.a[k] = 0]
      ELSE IF c.A = c.B
      THEN [both EXCEPT !.src = Zero(Shift(s, s.a[k] * Quot(c.C, c.A)), k),
                        !.dst = AddTo(d, k, s.a[k]),
                        !.consistent = @ /\ d.a[k] + s.a[k] = 0]
      ELSE LET e == AddTo(Scale(d, c.A), k, s.a[k] * c.B)
           IN  [both EXCEPT !.src = Substituted(s, c, k), !.dst = e, !.consistent = @ /\ e.a[k] = 0]
PropagatePoint(s, d, c, k, consistent) ==
  [src |-> Zero(Shift(s, s.a[k] * c.x - d.a[k] * c.y), k), dst |-> Zero(d, k),
   simplified |-> TRUE, consistent |-> consistent]

\* The constraints of the loops a pair mentions are propagated one by one.
Propagated(pair, consistent) ==
  LET start == [src |-> pair.src, dst |-> pair.dst, simplified |-> FALSE,
                consistent |-> consistent]
      step[k \in Nat] ==
        IF k = 0 THEN start
        ELSE LET p == step[k - 1]
                 c == cons[k]
             IN  IF k \notin LoopsOf(pair) \/ c.kind \in {"any", "empty"} THEN p
                 ELSE IF c.kind = "point"
                 THEN PropagatePoint(p.src, p.dst, c, k, p.consistent)
                 ELSE IF c.kind = "line"
                 THEN PropagateLine(p.src, p.dst, c, k, p.consistent)
                 ELSE IF p.src.a[k] = 0 THEN p
                 ELSE PropagateDistance(p.src, p.dst, c, k, p.consistent)
  IN  step[n.max]

\* A known distance decides the direction, and so does a point.
ToDistance_Sign(r, k, d) == [r EXCEPT !.dist[k] = {-d}, !.dir[k] = @ \cap {DirectionOf(d)}]
ToDistance(r, k, d) == [r EXCEPT !.dist[k] = {d}, !.dir[k] = @ \cap {DirectionOf(d)}]
UpdateDirection(r, k) ==
  LET c == cons[k]
  IN  CASE c.kind = "any" -> r
        [] c.kind = "distance" -> ToDistance(r, k, -c.C)
        [] c.kind = "line" -> [r EXCEPT !.dist[k] = {}]
        [] c.kind = "point" -> [r EXCEPT !.dist[k] = {},
                                         !.dir[k] = @ \cap {DirectionOf(c.y - c.x)}]

-----------------------------------------------------------------------------
(* depends() *)

\* Another pair of accesses is tested; every answer starts from nothing.
Ask(q) ==
  /\ query' = q /\ pairs' = q.pairs
  /\ phase' = "separable" /\ todo' = Separable(q) /\ groups' = Coupled(q)
  /\ sivs' = {} /\ mivs' = {} /\ levels' = {} /\ changed' = FALSE
  /\ cons' = [k \in Levels(q.nest) |-> Unconstrained]
  /\ result' = [Unknown(q.nest) EXCEPT !.loopIndependent = q.reaches]

\* The answer of a test ends the analysis if it disproves the dependence.
Answer(r, next) ==
  /\ result' = r
  /\ phase' = IF r.disproved THEN "done" ELSE next

Test(p, r) ==
  LET src == pairs[p].src
      dst == pairs[p].dst
  IN  CASE Class(p) = "ZIV" -> TestZIV(src, dst, r)
        [] Class(p) = "SIV" -> TestSIV(n, src, dst, r)
        [] Class(p) = "RDIV" -> TestRDIV(n, src, dst, r)
        [] Class(p) = "MIV" -> TestMIV(n, src, dst, r)

TestSeparable ==
  /\ phase = "separable" /\ todo # {}
  /\ todo' = todo \ {First(todo)}
  /\ Answer(Test(First(todo), result), "separable")
  /\ UNCHANGED <<query, pairs, groups, sivs, mivs, cons, levels, changed>>

\* Groups are tested in the order of their last subscripts.
StartGroup ==
  /\ phase = "separable" /\ todo = {} /\ groups # {}
  /\ LET G == CHOOSE H \in groups : \A I \in groups : Max(H) <= Max(I)
     IN  /\ groups' = groups \ {G}
         /\ todo' = {p \in G : Class(p) = "SIV"}
         /\ mivs' = {p \in G : Class(p) # "SIV"}
  /\ phase' = "siv" /\ levels' = {} /\ changed' = FALSE
  /\ UNCHANGED <<query, pairs, sivs, cons, result>>

Constrain(r, X, Y) ==
  IF r.disproved \/ Y.kind = "empty"
  THEN /\ Answer(Disproved(r), "siv")
       /\ UNCHANGED <<todo, cons, levels, changed>>
  ELSE /\ Answer(r, "siv")
       /\ todo' = todo \ {First(todo)}
       /\ cons' = [cons EXCEPT ![r.level] = Y]
       /\ levels' = levels \cup {r.level}
       /\ changed' = (changed \/ X # Y)
TestNextSIV ==
  /\ phase = "siv" /\ todo # {}
  /\ \E r \in {Test(First(todo), result)} :
       Constrain(r, cons[r.level], Intersect(cons[r.level], r.cons))
  /\ UNCHANGED <<query, pairs, groups, sivs, mivs>>

\* What the round has found is propagated; a round without news is the last.
EndRound ==
  /\ phase = "siv" /\ todo = {}
  /\ phase' = IF changed THEN "propagate" ELSE "rdiv"
  /\ todo' = IF changed THEN mivs ELSE {p \in mivs : Class(p) = "RDIV"}
  /\ changed' = FALSE
  /\ UNCHANGED <<query, pairs, groups, sivs, mivs, cons, levels, result>>

PropagateNext ==
  /\ phase = "propagate" /\ todo # {}
  /\ LET p == First(todo)
         s == Propagated(pairs[p], result.consistent)
         class == Classify(n, s.src, s.dst)
         r == [result EXCEPT !.consistent = s.consistent]
     IN  IF ~s.simplified
         THEN /\ todo' = todo \ {p}
              /\ UNCHANGED <<phase, pairs, sivs, mivs, result>>
         ELSE /\ todo' = todo \ {p}
              /\ pairs' = [pairs EXCEPT ![p] = [src |-> s.src, dst |-> s.dst]]
              /\ sivs' = IF class = "SIV" THEN sivs \cup {p} ELSE sivs
              /\ mivs' = IF class \in {"ZIV", "SIV"} THEN mivs \ {p} ELSE mivs
              /\ Answer(IF class = "ZIV" THEN TestZIV(s.src, s.dst, r) ELSE r, "propagate")
  /\ UNCHANGED <<query, groups, cons, levels, changed>>

EndPropagation ==
  /\ phase = "propagate" /\ todo = {}
  /\ phase' = "siv" /\ todo' = sivs /\ sivs' = {}
  /\ UNCHANGED <<query, pairs, groups, mivs, cons, levels, changed, result>>

TestRest ==
  /\ phase \in {"rdiv", "miv"} /\ todo # {}
  /\ todo' = todo \ {First(todo)}
  /\ Answer(Test(First(todo), result), phase)
  /\ UNCHANGED <<query, pairs, groups, sivs, mivs, cons, levels, changed>>

EndRDIV ==
  /\ phase = "rdiv" /\ todo = {}
  /\ phase' = "miv" /\ todo' = {p \in mivs : Class(p) = "MIV"}
  /\ UNCHANGED <<query, pairs, groups, sivs, mivs, cons, levels, changed, result>>

UpdateDirections ==
  /\ phase = "miv" /\ todo = {}
  /\ LET L == levels \cap Common(n)
         update[k \in Nat] ==
           IF k = 0 THEN result
           ELSE IF k \in L THEN UpdateDirection(update[k - 1], k) ELSE update[k - 1]
         r == update[n.common]
     IN  Answer(IF \E k \in L : r.dir[k] = {} THEN Disproved(r) ELSE r, "separable")
  /\ UNCHANGED <<query, todo, pairs, groups, sivs, mivs, cons, levels, changed>>

\* A dependence inside an iteration needs the direction = everywhere, and when
\* it is not possible there is no dependence if nothing else is left.
MayStay(r) == \A k \in Common(n) : "=" \in r.dir[k]
Finish ==
  /\ phase = "separable" /\ todo = {} /\ groups = {}
  /\ LET r == [result EXCEPT !.loopIndependent = query.reaches /\ MayStay(result)]
     IN  result' = IF ~query.reaches /\ \A k \in Common(n) : result.dir[k] = {"="}
                   THEN Disproved(r) ELSE r
  /\ phase' = "done"
  /\ UNCHANGED <<query, todo, pairs, groups, sivs, mivs, cons, levels, changed>>

Depends ==
  \/ TestSeparable \/ StartGroup \/ TestNextSIV \/ EndRound \/ PropagateNext
  \/ EndPropagation \/ TestRest \/ EndRDIV \/ UpdateDirections \/ Finish
=============================================================================
