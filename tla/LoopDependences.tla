-------------------------- MODULE LoopDependences --------------------------
(***************************************************************************)
(* PrivateRecognitionPass::collectDependencies() (lib/Analysis/Memory/      *)
(* PrivateAnalysis.cpp): every two accesses to an array, one of which       *)
(* writes it, are tested, and what the dependence analysis answers is       *)
(* recorded for each loop around both: the kinds of dependences the loop    *)
(* carries and, as long as they are known, their distances in this loop and *)
(* the ones inside it.                                                      *)
(*                                                                          *)
(* A program is a nest of loops, [common |-> how often the back edges are   *)
(* taken, accesses], and an access, [own, subs, writes], may be in further  *)
(* loops of its own.  hits are the iterations of two accesses that really   *)
(* meet, among the first ones if a loop may run for ever.                   *)
(***************************************************************************)
EXTENDS DependenceTests

CONSTANTS
  Programs,   \* programs to analyse
  Horizon     \* iterations looked at of a loop without a known bound

Accesses(P) == DOMAIN P.accesses
Depth(P, i) == Len(P.common) + Len(P.accesses[i].own)
\* Loops with or without a bound, and accesses with as many subscripts each,
\* linear functions of the loops around the access.
ASSUME Inputs ==
  /\ Horizon \in Nat
  /\ \A P \in Programs :
       /\ P.common \in Seq(Nat \cup {NoBound}) /\ Accesses(P) \subseteq Nat
       /\ \A i \in Accesses(P) :
            /\ P.accesses[i].own \in Seq(Nat \cup {NoBound})
            /\ P.accesses[i].subs \in Seq([c : Int, a : [1 .. Depth(P, i) -> Int]])
       /\ \A i, j \in Accesses(P) : DOMAIN P.accesses[i].subs = DOMAIN P.accesses[j].subs

VARIABLES
  program,  \* the loops and the accesses of the array
  hits,     \* for every two accesses, the iterations that meet
  pair,     \* the accesses that are tested now
  cache,    \* answers about the pairs that have been tested
  deps      \* what is recorded for each loop

vars == <<state, program, hits, pair, cache, deps>>

Kinds == {"flow", "anti", "output"}
Pairs(P) ==
  {p \in Accesses(P) \X Accesses(P) :
     p[1] <= p[2] /\ \E i \in {p[1], p[2]} : P.accesses[i].writes}
\* Loops of an access: the common ones and its own ones.
LoopAt(P, i, k) == IF k <= Len(P.common) THEN <<0, k>> ELSE <<i, k>>
Loops(P) == UNION {{LoopAt(P, i, k) : k \in 1 .. Depth(P, i)} : i \in Accesses(P)}
CommonOf(P, p) == IF p[1] = p[2] THEN Depth(P, p[1]) ELSE Len(P.common)

\* The levels of two accesses, as establishNestingLevels() numbers them.
Nest(P, p) ==
  [common |-> CommonOf(P, p), src |-> Depth(P, p[1]),
   max |-> Depth(P, p[1]) + Depth(P, p[2]) - CommonOf(P, p),
   ub |-> P.common \o P.accesses[p[1]].own \o
          (IF p[1] = p[2] THEN <<>> ELSE P.accesses[p[2]].own)]
\* mapSrcLoop() and mapDstLoop()
MapSrcLoop(nest, depth) == depth
MapDstLoop(nest, depth) ==
  IF depth > nest.common THEN depth - nest.common + nest.src ELSE depth
Mapped(nest, s, Map(_, _)) ==
  [c |-> s.c, a |-> [k \in Levels(nest) |->
     SumFunction([d \in {o \in DOMAIN s.a : Map(nest, o) = k} |-> s.a[d]])]]
Query(P, p) ==
  LET nest == Nest(P, p)
      src == P.accesses[p[1]].subs
      dst == P.accesses[p[2]].subs
  IN  [nest |-> nest, reaches |-> p[1] # p[2],
       pairs |-> [k \in DOMAIN src |->
                    [src |-> Mapped(nest, src[k], MapSrcLoop),
                     dst |-> Mapped(nest, dst[k], MapDstLoop)]]]

-----------------------------------------------------------------------------
(* What the program does *)

SrcLevels(nest) == 1 .. nest.src
DstLevels(nest) == Common(nest) \cup (nest.src + 1 .. nest.max)
Iterations(nest, I) ==
  {x \in [I -> 0 .. Horizon] : \A k \in I : nest.ub[k] # NoBound => x[k] <= nest.ub[k]}
Element(q, side, x) ==
  [p \in DOMAIN q.pairs |->
     q.pairs[p][side].c + SumFunction([k \in DOMAIN x |-> q.pairs[p][side].a[k] * x[k]])]
Meetings(q) ==
  LET Y == {<<y, Element(q, "dst", y)>> : y \in Iterations(q.nest, DstLevels(q.nest))}
      met(x, e) == {<<x, y[1]>> : y \in {z \in Y : z[2] = e /\ (q.reaches \/ z[1] # x)}}
  IN  UNION {met(x, Element(q, "src", x)) : x \in Iterations(q.nest, SrcLevels(q.nest))}

\* The outermost level at which the iterations differ carries the dependence.
DirectionAt(h, k) == DirectionOf(h[2][k] - h[1][k])
Carries(h, k) ==
  /\ h[1][k] # h[2][k]
  /\ \A o \in 1 .. k - 1 : h[1][o] = h[2][o]
KindOf(first, second) ==
  IF first.writes /\ second.writes THEN "output" ELSE IF first.writes THEN "flow" ELSE "anti"
\* Which of the accesses comes first decides the kind and the sign of distances.
KindAt(P, p, h, k) ==
  IF h[1][k] < h[2][k] THEN KindOf(P.accesses[p[1]], P.accesses[p[2]])
  ELSE KindOf(P.accesses[p[2]], P.accesses[p[1]])
DistanceAt(h, k, i) == Sign(h[2][k] - h[1][k]) * (h[2][i] - h[1][i])

-----------------------------------------------------------------------------
(* What is recorded *)

NoDependence == [present |-> FALSE, unknown |-> FALSE, level |-> {}, dists |-> <<>>]

\* Only the levels whose distances are known for all dependences are kept.
KnownLevels(len, missing, known) == IF missing = {} /\ len > known THEN len ELSE known
\* A distance at level i as it is recorded for the loop at level k.
Reverted_Kept(d) == d
Reverted(d) == -d
Transformed(how, i, k, d) ==
  CASE how = "keep" -> {d}
    [] how = "revert" -> {Reverted(d)}
    [] how = "extend" -> IF i = k THEN {AbsOf(d)} ELSE {d, -d}
\* UpdateFunctor: the distances known from level k on are added.
Update(dep, nest, r, k, how) ==
  LET limit == Min({nest.common + 1} \cup {k + l : l \in dep.level})
      missing == {i \in k .. limit - 1 : r.dist[i] = {}}
      stop == IF missing = {} THEN limit ELSE Min(missing)
      size == KnownLevels(Len(dep.dists), missing, stop - k)
      at(i) == IF i <= Len(dep.dists) THEN dep.dists[i] ELSE {}
      new(i) == IF i > stop - k THEN {}
                ELSE UNION {Transformed(how, k + i - 1, k, d) : d \in r.dist[k + i - 1]}
  IN  IF dep.unknown
      THEN [dep EXCEPT !.present = TRUE, !.level = {0}, !.dists = <<>>]
      ELSE [present |-> TRUE, unknown |-> missing # {} /\ stop = k,
            level |-> IF missing = {} THEN dep.level ELSE {stop - k},
            dists |-> [i \in 1 .. size |-> at(i) \cup new(i)]]

\* SummarizeFunctor: least and greatest distance, of the loop itself as numbers
\* without a sign.
Modulus == 2^16
Unsigned(i) == i % Modulus
Summary(dists) ==
  [i \in DOMAIN dists |->
     LET least == CHOOSE d \in dists[i] : \A o \in dists[i] : Unsigned(d) <= Unsigned(o)
         most == CHOOSE d \in dists[i] : \A o \in dists[i] : Unsigned(d) >= Unsigned(o)
     IN  IF i = 1 THEN <<least, most>> ELSE <<Min(dists[i]), Max(dists[i])>>]

\* A dependence an outer loop always carries is none of the loop at level k.
CarriedOutside(r, k) ==
  \E o \in 1 .. k - 1 : r.dir[o] \notin {{"="}, Directions, {"<", "="}, {">", "="}}
\* Kinds of a dependence between a write and a read if the direction is not known.
Both_One(kind) == {kind}
Both(kind) == {"flow", "anti"}
\* insertDependence(): kinds and sign of the distances at level k.
Inserted(dep, P, p, r, k) ==
  LET kind == KindOf(P.accesses[p[1]], P.accesses[p[2]])
      dir == r.dir[k]
      ahead == dir \in {{"<"}, {"<", "="}}
      Add(K, how) ==
        [t \in Kinds |-> IF t \in K THEN Update(dep[t], Nest(P, p), r, k, how)
                         ELSE dep[t]]
  IN  IF CarriedOutside(r, k) \/ dir = {"="} THEN dep
      ELSE IF kind = "output"
      THEN IF dir \in {{">"}, {">", "="}} THEN Add({kind}, "revert") ELSE Add({kind}, "keep")
      ELSE IF dir = Directions THEN Add(Both(kind), "extend")
      ELSE IF ahead THEN Add({kind}, "keep")
      ELSE Add({"flow", "anti"} \ {kind}, "revert")

\* Pairs are tested in the order of the accesses.
NextPair(S) ==
  CHOOSE p \in S : \A o \in S : p[1] < o[1] \/ (p[1] = o[1] /\ p[2] <= o[2])
Init ==
  /\ program \in Programs
  /\ hits = [p \in Pairs(program) |-> Meetings(Query(program, p))]
  /\ pair = <<0, 0>> /\ cache = <<>>
  /\ deps = [l \in Loops(program) |-> [t \in Kinds |-> NoDependence]]
  /\ query = <<>> /\ phase = "idle" /\ result = <<>>
  /\ todo = {} /\ groups = {} /\ sivs = {} /\ mivs = {} /\ levels = {}
  /\ pairs = <<>> /\ cons = <<>> /\ changed = FALSE

TestPair == Depends /\ UNCHANGED <<program, hits, pair, cache, deps>>

\* The answer about the pair is kept and recorded for every loop around both.
Record ==
  /\ phase = "done" /\ pair \notin DOMAIN cache
  /\ cache' = [p \in DOMAIN cache \cup {pair} |-> IF p = pair THEN result ELSE cache[p]]
  /\ LET level(l) == {k \in Common(n) : LoopAt(program, pair[1], k) = l}
     IN  deps' = [l \in DOMAIN deps |->
                    IF result.disproved \/ level(l) = {} THEN deps[l]
                    ELSE Inserted(deps[l], program, pair, result, Max(level(l)))]
  /\ UNCHANGED <<state, program, hits, pair>>

TestNext ==
  /\ phase = "idle" \/ pair \in DOMAIN cache
  /\ DOMAIN cache # Pairs(program)
  /\ pair' = NextPair(Pairs(program) \ DOMAIN cache)
  /\ Ask(Query(program, pair'))
  /\ UNCHANGED <<program, hits, cache, deps>>

Next == TestPair \/ Record \/ TestNext
Spec == Init /\ [][Next]_vars

-----------------------------------------------------------------------------
(* Properties *)

Meeting == hits[pair]
Answered == phase = "done" /\ ~result.disproved

\* depends() says that there is no dependence only if no two iterations access
\* the same element, whatever the tests, the groups and the propagation did.
Independence == phase = "done" /\ result.disproved => Meeting = {}

\* Of two iterations that access the same element, the direction at every
\* common level is one the answer leaves, and a dependence that is not loop
\* independent never stays inside an iteration.
DirectionsCover ==
  Answered => \A h \in Meeting :
    /\ \A k \in Common(n) : DirectionAt(h, k) \in result.dir[k]
    /\ result.loopIndependent \/ \E k \in Common(n) : h[1][k] # h[2][k]

\* A distance in the answer is the distance of all iterations that meet.
DistancesAreExact ==
  Answered => \A h \in Meeting, k \in Common(n) :
    result.dist[k] \subseteq {h[2][k] - h[1][k]}

Times(i, x, k) == IF i = 0 THEN 0 ELSE i * x[k]
\* The constraints of the Delta test hold for all iterations that meet, and
\* the subscripts they are propagated into still meet there: what the test of
\* a simplified subscript disproves is a dependence of the original ones.
ConstraintsHold ==
  phase # "idle" /\ ~result.disproved => \A h \in Meeting :
    /\ \A k \in Levels(n) :
         LET c == cons[k]
         IN  CASE IsLine(c) -> Times(c.A, h[1], k) + Times(c.B, h[2], k) = c.C
               [] c.kind = "point" -> h[1][k] = c.x /\ h[2][k] = c.y
               [] OTHER -> TRUE
    /\ \A p \in DOMAIN pairs :
         Value(n, pairs[p].src, h[1]) = Value(n, pairs[p].dst, h[2])

\* Without the first, or the last, iteration of a loop to be peeled there is no
\* dependence left, as isPeelFirst() and isPeelLast() promise, and neither part
\* of a loop split after the iteration getSplitIteration() gives carries it.
PeelAndSplitBreak ==
  Answered => \A h \in Meeting :
    /\ \A k \in result.peelFirst : 0 \in {h[1][k], h[2][k]}
    /\ \A k \in result.peelLast : n.ub[k] \in {h[1][k], h[2][k]}
    /\ \A k \in result.splitable : \A s \in result.splitAt[k] :
         h[1][k] # h[2][k] => (h[1][k] <= s) # (h[2][k] <= s)

AllTested == DOMAIN cache = Pairs(program)
Recorded(p, k) == deps[LoopAt(program, p[1], k)]
\* Iterations of two accesses that meet and the level that carries this.
Carried ==
  UNION {{<<p, h, k>> : h \in hits[p], k \in 1 .. CommonOf(program, p)} : p \in Pairs(program)}
CarriedMeetings == {m \in Carried : Carries(m[2], m[3])}

\* A loop with no dependence recorded for it carries none: its iterations may
\* run in any order.
CarriedAreRecorded ==
  AllTested => \A m \in CarriedMeetings :
    \E t \in Kinds : Recorded(m[1], m[3])[t].present

\* Moreover what is recorded is of the kind the loop carries, unless only
\* equal iterations of the loop are known not to meet.
KindsAreRecorded ==
  /\ CarriedAreRecorded
  /\ AllTested => \A m \in CarriedMeetings :
       \/ cache[m[1]].dir[m[3]] = {"<", ">"}
       \/ Recorded(m[1], m[3])[KindAt(program, m[1], m[2], m[3])].present

\* The least and the greatest distance given for a loop, unless said to be
\* unknown, have between them those of all iterations that meet, of all
\* accesses and in inner loops too.
DistancesCover ==
  AllTested => \A m \in CarriedMeetings :
    LET d == Recorded(m[1], m[3])[KindAt(program, m[1], m[2], m[3])]
        s == Summary(d.dists)
    IN  d.present /\ ~d.unknown =>
          /\ d.dists # <<>>
          /\ \A i \in DOMAIN s : m[3] + i - 1 <= CommonOf(program, m[1]) =>
               LET real == DistanceAt(m[2], m[3], m[3] + i - 1)
               IN  s[i][1] <= real /\ real <= s[i][2]
=============================================================================
