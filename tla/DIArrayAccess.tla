--------------------------- MODULE DIArrayAccess ---------------------------
(* The list of array accesses.  One list, the pool, groups the accesses by *)
(* scope, another one groups them by array.  A scope and an array each     *)
(* keep a range of a list as two iterators, and so does an array in a      *)
(* scope: adding or erasing accesses must move all the bounds they touch.  *)
(* A callback handle for every array erases or renames its accesses when   *)
(* the memory of the array is destroyed or replaced.                       *)
EXTENDS Naturals, FiniteSetsExt, SequencesExt

CONSTANTS Arrays, Scopes,
          Outer,          \* the loop or the function around a scope, or None
          MaxAccesses,    \* bound: accesses that exist at a time
          None

(* No scope is around itself.                                              *)
ASSUME Domains ==
  /\ Outer \in [Scopes -> Scopes \cup {None}] /\ None \notin Scopes \cup Arrays
  /\ \A S \in SUBSET Scopes : S # {} => \E s \in S : Outer[s] \notin S
  /\ MaxAccesses \in Nat

Ids == 1 .. MaxAccesses
End == 0            \* end() of a list

(* acc: the accesses; pool: mAccesses; sibs: mArrayAccesses; scopes:       *)
(* mScopeToAccesses; arrays: mArrayToAccesses; handles: mArrays.           *)
(* missed: scopes that still have bounds in destroyed accesses.            *)
VARIABLES info, missed
vars == <<info, missed>>

Init ==
  /\ info = [acc |-> <<>>, pool |-> <<>>, sibs |-> <<>>, scopes |-> <<>>,
             arrays |-> <<>>, handles |-> {}]
  /\ missed = {}

-----------------------------------------------------------------------------
(* Intrusive lists and iterators: an iterator is the access it points to.  *)

Pos(l, p) == IF p \in ToSet(l) THEN CHOOSE i \in DOMAIN l : l[i] = p
             ELSE Len(l) + 1
At(l, i) == IF i \in DOMAIN l THEN l[i] ELSE End
Inserted(l, p, x) == InsertAt(l, Pos(l, p), x)
Next1(l, p) == At(l, Pos(l, p) + 1)
Walked(l, b, e) == SubSeq(l, Pos(l, b), Pos(l, e) - 1)

Put(f, k, v) == [x \in DOMAIN f \cup {k} |-> IF x = k THEN v ELSE f[x]]
TryPut(f, k, v) == IF k \in DOMAIN f THEN f ELSE Put(f, k, v)
Without(f, K) == [x \in DOMAIN f \ K |-> f[x]]

(* The nest of a scope in the program, and as the parents stored for known *)
(* scopes give it: from the scope itself outwards.                         *)
Nest ==
  LET nest[s \in Scopes] ==
        <<s>> \o IF Outer[s] = None THEN <<>> ELSE nest[Outer[s]]
  IN nest

StoredNest(I, s) ==
  LET nest[t \in DOMAIN I.scopes] ==
        <<t>> \o IF I.scopes[t].parent = None THEN <<>>
                 ELSE nest[I.scopes[t].parent]
  IN nest[s]

(* The scopes a walk from s outwards meets before it meets stop.           *)
Below(I, s, stop) ==
  LET n == StoredNest(I, s)
  IN ToSet(SubSeq(n, 1, Pos(n, stop) - 1))

ScopesOf(I, ids, stop) == UNION {Below(I, I.acc[i].parent, stop) : i \in ids}

-----------------------------------------------------------------------------
(* Adding an access.                                                       *)

(* Mutant: the ranges that ended where x is now swallow it.                *)
ShrunkPool_Not(I, S, e, x) == I

(* The ranges of the scopes S that end at e are to end at x.               *)
ShrunkPool(I, S, e, x) ==
  [I EXCEPT !.scopes =
     [s \in DOMAIN @ |-> IF s \in S /\ @[s].end = e
                           THEN [@[s] EXCEPT !.end = x] ELSE @[s]]]

ShrunkArray(I, S, a, e, x) ==
  [I EXCEPT !.scopes =
     [s \in DOMAIN @ |-> IF s \in S /\ @[s].arrays[a].end = e
                           THEN [@[s] EXCEPT !.arrays[a].end = x] ELSE @[s]]]

(* No known scope of the nest accesses the array a.  The scopes around the *)
(* last access to a end before x.                                          *)
AddToArrayAccesses(I, x, a) ==
  IF a \notin DOMAIN I.arrays
    THEN [I EXCEPT !.arrays = Put(@, a, [begin |-> x, end |-> At(I.sibs, 1)]),
                   !.sibs = <<x>> \o @]
    ELSE LET e == I.arrays[a].end
             prev == At(I.sibs, Pos(I.sibs, e) - 1)
         IN ShrunkArray([I EXCEPT !.sibs = Inserted(@, e, x)],
                        ToSet(StoredNest(I, I.acc[prev].parent)), a, e, x)

(* Scopes without accesses so far get ranges of x alone.                   *)
NewScopes(I, x, nest, n) ==
  LET a == I.acc[x].array
      S == {nest[i] : i \in 1 .. n}
      new(s) ==
        [parent |-> At(nest \o <<None>>, Pos(nest, s) + 1),
         begin |-> x, end |-> Next1(I.pool, x),
         arrays |-> Put(<<>>, a, [begin |-> x, end |-> Next1(I.sibs, x)])]
  IN [I EXCEPT !.scopes = [s \in DOMAIN @ \cup S |->
                             IF s \in DOMAIN @ THEN @[s] ELSE new(s)]]

(* No scope of the nest is known.                                          *)
AddNest(I, x, a, nest) ==
  NewScopes(AddToArrayAccesses([I EXCEPT !.pool = <<x>> \o @], x, a),
            x, nest, Len(nest))

(* Mutant: the ranges of the scopes inside o stay as they are.             *)
AddToScopeArray_Open(I, x, a, o) ==
  [I EXCEPT !.sibs = Inserted(@, I.scopes[o].arrays[a].end, x)]

(* x becomes the last access to a in the scope o.                          *)
AddToScopeArray(I, x, a, o) ==
  LET r == I.scopes[o].arrays[a]
  IN ShrunkArray([I EXCEPT !.sibs = Inserted(@, r.end, x)],
                 ScopesOf(I, ToSet(Walked(I.sibs, r.begin, r.end)), o),
                 a, r.end, x)

(* The scopes in S without accesses to a so far get a range of them.       *)
Opened(r, a, range) == [r EXCEPT !.arrays = TryPut(@, a, range)]
AddToScopes(I, S, a, range) ==
  [I EXCEPT !.scopes =
     [s \in DOMAIN @ |-> IF s \in S THEN Opened(@[s], a, range) ELSE @[s]]]

(* The scope p is the innermost known one: x becomes its last access.      *)
AddWithin(I, x, a, nest, n) ==
  LET p == nest[n]
      r == I.scopes[p]
      up == StoredNest(I, p)
      holder == SelectInSeq(up, LAMBDA t : a \in DOMAIN I.scopes[t].arrays)
      visited == IF holder = 0 THEN ToSet(up)
                 ELSE ToSet(SubSeq(up, 1, holder - 1))
      J == [I EXCEPT !.pool = Inserted(@, r.end, x)]
      K == IF holder = 0 THEN AddToArrayAccesses(J, x, a)
           ELSE AddToScopeArray(J, x, a, up[holder])
      L == AddToScopes(K, visited, a, [begin |-> x, end |-> Next1(K.sibs, x)])
      before == ToSet(Walked(I.pool, r.begin, r.end))
  IN NewScopes(ShrunkPool(L, ScopesOf(L, before, p), r.end, x), x, nest, n - 1)

Added(I, x, a, nest) ==
  LET J == [I EXCEPT !.handles = @ \cup {a},
                     !.acc = Put(@, x, [array |-> a, parent |-> nest[1]])]
      known == {i \in DOMAIN nest : nest[i] \in DOMAIN I.scopes}
  IN IF known = {} THEN AddNest(J, x, a, nest)
     ELSE AddWithin(J, x, a, nest, Min(known))

-----------------------------------------------------------------------------
(* Erasing the accesses to an array.                                       *)

IsTo(I, v, x) == x # End /\ I.acc[x].array = v

(* The first access from p on that is not to v, at most e.                 *)
Skipped(I, v, p, e) ==
  LET rest == Walked(I.pool, p, e)
      i == SelectInSeq(rest, LAMBDA x : ~IsTo(I, v, x))
  IN IF i = 0 THEN e ELSE rest[i]

Emptied(I, v) ==
  {s \in DOMAIN I.scopes :
     Skipped(I, v, I.scopes[s].begin, I.scopes[s].end) = I.scopes[s].end}

(* The entries of mScopeToAccesses come in any order and the loop over     *)
(* them ends at the first scope it finds to be empty.                      *)
Visits(I, v) ==
  IF Emptied(I, v) = {} THEN {[seen |-> DOMAIN I.scopes, hit |-> {}]}
  ELSE [seen : SUBSET (DOMAIN I.scopes \ Emptied(I, v)),
        hit : {{s} : s \in Emptied(I, v)}]

(* Mutant: the array before v is forgotten.                                *)
Closed_Not(I, v, arrays) == arrays

(* The array before v in the list of arrays is to end where v ends.        *)
Closed(I, v, arrays) ==
  LET b == I.arrays[v].begin
      i == Pos(I.sibs, b) - 1
      p == I.acc[I.sibs[i]].array
  IN IF i > 0 /\ p \in DOMAIN arrays /\ IsTo(I, v, arrays[p].end)
       THEN [arrays EXCEPT ![p].end = I.arrays[v].end] ELSE arrays

(* A scope that keeps some accesses.                                       *)
Trimmed(I, v, r) ==
  [r EXCEPT !.begin = Skipped(I, v, @, r.end),
            !.end = Skipped(I, v, @, End),
            !.arrays = Without(Closed(I, v, @), {v})]

(* The accesses gone are erased from a list one after another.             *)
WithoutAll(l, gone) == FoldLeft(RemoveFirst, l, gone)

Erased(I, v, visit) ==
  LET gone == Walked(I.sibs, I.arrays[v].begin, I.arrays[v].end)
  IN [I EXCEPT
        !.handles = @ \ {v},
        !.scopes = [s \in DOMAIN @ \ visit.hit |->
                      IF s \in visit.seen THEN Trimmed(I, v, @[s]) ELSE @[s]],
        !.arrays = Without(Closed(I, v, @), {v}),
        !.sibs = WithoutAll(@, gone),
        !.pool = WithoutAll(@, gone),
        !.acc = Without(@, ToSet(gone))]

(* Scopes the loop over them has not reached, though they have a bound in  *)
(* an access that is destroyed.                                            *)
Missed(I, v, visit) ==
  {s \in DOMAIN I.scopes \ (visit.seen \cup visit.hit) :
     s \in Emptied(I, v) \/ Trimmed(I, v, I.scopes[s]) # I.scopes[s]}

-----------------------------------------------------------------------------
Fresh(I) == Ids \ DOMAIN I.acc

(* The collector, or a client that copies from a server, meets an access.  *)
Add(a, s) ==
  /\ Fresh(info) # {}
  /\ info' = Added(info, Min(Fresh(info)), a, Nest[s])
  /\ UNCHANGED missed

(* DIArrayHandle::deleted().                                               *)
Delete(a) ==
  /\ a \in info.handles
  /\ \E visit \in Visits(info, a) :
       /\ info' = Erased(info, a, visit)
       /\ missed' = Missed(info, a, visit)

Copied(I, x, m) ==
  Added(I, Min(Fresh(I)), m, StoredNest(I, I.acc[x].parent))

(* DIArrayHandle::allUsesReplacedWith(m).  Adding the handle of m may move *)
(* the table and destroy the handle that runs; what it reads from itself   *)
(* next may or may not be the memory it was for.                           *)
Replace(a, m) ==
  LET r == info.arrays[a]
      old == Walked(info.sibs, r.begin, r.end)
      read == IF m \notin info.handles THEN {a, None} ELSE {a}
      J == FoldLeft(LAMBDA I, x : Copied(I, x, m), info, old)
  IN /\ a \in info.handles /\ m # a
     /\ Cardinality(Fresh(info)) >= Len(old)
     /\ \E v \in read, visit \in Visits(J, a) :
          /\ info' = IF v = a THEN Erased(J, a, visit) ELSE J
          /\ missed' = IF v = a THEN Missed(J, a, visit) ELSE {}

(* With a bound in a destroyed access the model ends: the next operation   *)
(* may read it, which has no defined outcome.                              *)
Next ==
  /\ missed = {}
  /\ \/ \E a \in Arrays, s \in Scopes : Add(a, s)
     \/ \E a \in Arrays : Delete(a)
     \/ \E a, m \in Arrays : Replace(a, m)

Spec == Init /\ [][Next]_vars

-----------------------------------------------------------------------------
Inside(s) == {x \in DOMAIN info.acc : s \in ToSet(Nest[info.acc[x].parent])}
OfArray(a) == {x \in DOMAIN info.acc : info.acc[x].array = a}

(* What a client that walks a range of the list l meets is X.              *)
Bounds(l, r, X) ==
  /\ r.begin \in ToSet(l) /\ r.end \in ToSet(l) \cup {End}
  /\ ToSet(Walked(l, r.begin, r.end)) = X

(* Scopes with accesses are known and others are not, and the range of a   *)
(* scope is what it and the scopes inside it contain, nothing of it twice, *)
(* so the pool stays sorted by scopes; scopes() finds the nest of a scope. *)
(* An erase that stops at an empty scope fails those it has not reached.   *)
ScopeRanges ==
  /\ IsInjective(info.pool)
  /\ DOMAIN info.scopes \ missed = {s \in Scopes : Inside(s) # {}} \ missed
  /\ \A s \in DOMAIN info.scopes \ missed :
       Bounds(info.pool, info.scopes[s], Inside(s))
  /\ missed = {} => \A s \in DOMAIN info.scopes : StoredNest(info, s) = Nest[s]

(* The list of arrays stays grouped by array, with a handle for each, and  *)
(* within an array by scope: array_accesses() of a scope are the accesses  *)
(* to the array the scope contains, unless an erase has not reached it.    *)
ArrayRanges ==
  /\ IsInjective(info.sibs)
  /\ DOMAIN info.arrays = info.handles
  /\ info.handles = {a \in Arrays : OfArray(a) # {}}
  /\ \A a \in DOMAIN info.arrays :
       Bounds(info.sibs, info.arrays[a], OfArray(a))
  /\ \A s \in DOMAIN info.scopes \ missed :
       LET r == info.scopes[s].arrays
       IN  /\ DOMAIN r = {a \in Arrays : OfArray(a) \cap Inside(s) # {}}
           /\ \A a \in DOMAIN r :
                Bounds(info.sibs, r[a], OfArray(a) \cap Inside(s))

(* Clients find in a scope what was put there, by the same walk as theirs. *)
Found == [a \in Arrays |-> [s \in Scopes |->
  IF s \in DOMAIN info.scopes /\ a \in DOMAIN info.scopes[s].arrays
    THEN LET r == info.scopes[s].arrays[a]
         IN Len(Walked(info.sibs, r.begin, r.end))
    ELSE 0]]

Promise == INSTANCE AccessPromise WITH found <- Found, kept <- (missed = {})
ImplementsPromise == Promise!PSpec
=============================================================================
