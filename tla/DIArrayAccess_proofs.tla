------------------------ MODULE DIArrayAccess_proofs ------------------------
(* The ranges of scopes and arrays stay exact, and the lists keep the      *)
(* promise of AccessPromise, for all sets of arrays and scopes, all nests  *)
(* of scopes and any bound on accesses.  Good says it of a state: every    *)
(* range spans the accesses of its scope and array, and the stored parents *)
(* are those of the program.  Kept says what remains of it when an erase,  *)
(* which stops at the first empty scope, has missed some scopes; the       *)
(* properties ScopeRanges and ArrayRanges follow from it.  Adding is cut   *)
(* into its parts: Recorded, a place in each list (PoolPlaced, SibsPlaced),*)
(* the ranges that must end at the new access (ArraysAdded), and the whole *)
(* (Assembled).                                                            *)
EXTENDS DIArrayAccess, Recursion, SequenceTheorems, FunctionTheorems

-----------------------------------------------------------------------------
(* Lists and positions.                                                    *)

(* No access is twice in a list; an iterator is an access or the end.       *)
Lists == {l \in Seq(Ids) : IsInjective(l)}
Places(l) == ToSet(l) \cup {End}

(* Where the elements of a list are; its end is behind all of them.        *)
LEMMA Positions ==
  ASSUME NEW l \in Lists
  PROVE  /\ Len(l) \in Nat /\ DOMAIN l = 1 .. Len(l) /\ ToSet(l) \subseteq Ids
         /\ End \notin ToSet(l) /\ Pos(l, End) = Len(l) + 1
         /\ \A i \in 1 .. Len(l) : l[i] \in ToSet(l) /\ Pos(l, l[i]) = i
         /\ \A x \in ToSet(l) : Pos(l, x) \in 1 .. Len(l) /\ l[Pos(l, x)] = x
<1>1. /\ l \in Seq(Ids) /\ Len(l) \in Nat /\ DOMAIN l = 1 .. Len(l)
      /\ \A i \in 1 .. Len(l) : l[i] \in Ids
      /\ \A i, j \in DOMAIN l : l[i] = l[j] => i = j
  BY DEF Lists, IsInjective
<1>2. /\ ToSet(l) \subseteq Ids /\ End \notin Ids
      /\ \A i \in 1 .. Len(l) : l[i] \in ToSet(l)
      /\ \A x \in ToSet(l) : \E i \in 1 .. Len(l) : l[i] = x
  <2>1. MaxAccesses \in Nat
    BY Domains
  <2>2. End \notin Ids
    BY <2>1 DEF Ids, End
  <2>3. ToSet(l) = {l[i] : i \in 1 .. Len(l)}
    BY <1>1 DEF ToSet
  <2> QED
    BY <1>1, <2>2, <2>3
<1>3. Pos(l, End) = Len(l) + 1
  BY <1>2 DEF Pos
<1>4. ASSUME NEW i \in 1 .. Len(l) PROVE Pos(l, l[i]) = i
  BY <1>1, <1>2 DEF Pos
<1>5. \A x \in ToSet(l) : Pos(l, x) \in 1 .. Len(l) /\ l[Pos(l, x)] = x
  BY <1>2, <1>4
<1> QED
  BY <1>1, <1>2, <1>3, <1>4, <1>5

(* An element or the end is determined by its position.                    *)
LEMMA SamePlace ==
  ASSUME NEW l \in Lists, NEW p \in Places(l), NEW q \in Places(l)
  PROVE  /\ Pos(l, p) \in 1 .. Len(l) + 1
         /\ p = End <=> Pos(l, p) = Len(l) + 1
         /\ Pos(l, p) = Pos(l, q) => p = q
BY Positions DEF Places

(* The element at a position, and the one in front of a place.             *)
LEMMA AtPosition ==
  ASSUME NEW l \in Lists, NEW i \in Nat
  PROVE  /\ i \in 1 .. Len(l) => At(l, i) \in ToSet(l) /\ Pos(l, At(l, i)) = i
         /\ i \notin 1 .. Len(l) => At(l, i) = End
BY Positions DEF At

(* A part of a sequence.                                                   *)
LEMMA PartFacts ==
  ASSUME NEW S, NEW l \in Seq(S), NEW m \in Int, NEW n \in Int,
         1 <= m, m <= n + 1, n <= Len(l)
  PROVE  /\ SubSeq(l, m, n) \in Seq(S) /\ Len(SubSeq(l, m, n)) = n - m + 1
         /\ \A i \in 1 .. n - m + 1 : SubSeq(l, m, n)[i] = l[m + i - 1]
<1>1. \A i \in m .. n : l[i] \in S
  <2>1. Len(l) \in Nat /\ \A i \in 1 .. Len(l) : l[i] \in S
    BY ElementOfSeq, LenProperties
  <2> QED
    BY <2>1
<1>2. (IF m <= n THEN n - m + 1 ELSE 0) = n - m + 1
  OBVIOUS
<1> QED
  BY <1>1, <1>2, SubSeqProperties

(* A walk from b to e meets what is between them.                          *)
LEMMA WalkedFacts ==
  ASSUME NEW l \in Lists, NEW b \in Places(l), NEW e \in Places(l),
         Pos(l, b) <= Pos(l, e)
  PROVE  /\ Walked(l, b, e) \in Seq(Ids) /\ Len(Walked(l, b, e)) = Pos(l, e) - Pos(l, b)
         /\ \A i \in 1 .. Len(Walked(l, b, e)) : Walked(l, b, e)[i] = l[Pos(l, b) + i - 1]
         /\ ToSet(Walked(l, b, e)) =
              {x \in ToSet(l) : Pos(l, b) <= Pos(l, x) /\ Pos(l, x) < Pos(l, e)}
<1> DEFINE m == Pos(l, b)
           n == Pos(l, e) - 1
           w == Walked(l, b, e)
<1>1. /\ m \in Int /\ n \in Int /\ 1 <= m /\ m <= n + 1 /\ n <= Len(l)
      /\ l \in Seq(Ids) /\ Len(l) \in Nat
  BY SamePlace, Positions DEF Lists
<1>2. w = SubSeq(l, m, n)
  BY DEF Walked
<1>6. n + 1 = Pos(l, e) /\ n - m + 1 = Pos(l, e) - Pos(l, b) /\ m = Pos(l, b)
  <2>1. Pos(l, e) \in Int /\ Pos(l, b) \in Int
    BY SamePlace, Positions
  <2> QED
    BY <2>1
<1> HIDE DEF m, n
<1>3. /\ w \in Seq(Ids) /\ Len(w) = n - m + 1
      /\ \A i \in 1 .. n - m + 1 : w[i] = l[m + i - 1]
  BY <1>1, <1>2, PartFacts
<1>4. ToSet(w) = {l[m + i - 1] : i \in 1 .. n - m + 1}
  <2>1. DOMAIN w = 1 .. n - m + 1
    BY <1>3, LenProperties
  <2> HIDE DEF w
  <2> QED
    BY <1>3, <2>1 DEF ToSet
<1> HIDE DEF w
<1>7. /\ \A i \in 1 .. Len(l) : l[i] \in ToSet(l) /\ Pos(l, l[i]) = i
      /\ \A x \in ToSet(l) : Pos(l, x) \in 1 .. Len(l) /\ l[Pos(l, x)] = x
  BY Positions
<1>5. \A x : x \in ToSet(w) <=> x \in ToSet(l) /\ m <= Pos(l, x) /\ Pos(l, x) < n + 1
  <2>1. ASSUME NEW i \in 1 .. n - m + 1
        PROVE  l[m + i - 1] \in ToSet(l) /\ Pos(l, l[m + i - 1]) = m + i - 1 /\ i \in Int
    <3>1. m + i - 1 \in 1 .. Len(l)
      BY <1>1
    <3> QED
      BY <1>7, <3>1
  <2>2. ASSUME NEW x \in ToSet(l), m <= Pos(l, x), Pos(l, x) < n + 1 PROVE x \in ToSet(w)
    <3>0. Pos(l, x) \in 1 .. Len(l) /\ l[Pos(l, x)] = x
      BY <1>7
    <3>1. Pos(l, x) - m + 1 \in 1 .. n - m + 1 /\ Pos(l, x) = m + (Pos(l, x) - m + 1) - 1
      BY <1>1, <2>2, <3>0
    <3> QED
      BY <1>4, <3>0, <3>1
  <2>3. ASSUME NEW x \in ToSet(w) PROVE x \in ToSet(l) /\ m <= Pos(l, x) /\ Pos(l, x) < n + 1
    <3>1. PICK i \in 1 .. n - m + 1 : x = l[m + i - 1]
      BY <1>4, <2>3
    <3>3. l[m + i - 1] \in ToSet(l) /\ Pos(l, l[m + i - 1]) = m + i - 1 /\ i \in Int
      BY <2>1
    <3>2. x \in ToSet(l) /\ Pos(l, x) = m + i - 1 /\ i \in Int /\ 1 <= i /\ i <= n - m + 1
      BY <1>1, <3>1, <3>3
    <3> QED
      BY <1>1, <3>2
  <2> QED
    BY <2>2, <2>3
<1>8. ToSet(w) = {x \in ToSet(l) : m <= Pos(l, x) /\ Pos(l, x) < n + 1}
  BY <1>5
<1>9. Len(w) = n - m + 1 /\ \A i \in 1 .. Len(w) : w[i] = l[m + i - 1]
  BY <1>3
<1> QED
  BY <1>3, <1>6, <1>8, <1>9 DEF w

(* Inserting an element shifts what is behind it.                          *)
LEMMA InsertedFacts ==
  ASSUME NEW l \in Lists, NEW p \in Places(l), NEW x \in Ids \ ToSet(l)
  PROVE  /\ Inserted(l, p, x) \in Lists /\ ToSet(Inserted(l, p, x)) = ToSet(l) \cup {x}
         /\ Pos(Inserted(l, p, x), x) = Pos(l, p)
         /\ \A y \in Places(l) : Pos(Inserted(l, p, x), y) =
              IF Pos(l, y) < Pos(l, p) THEN Pos(l, y) ELSE Pos(l, y) + 1
         /\ Next1(Inserted(l, p, x), x) = p
<1> DEFINE i == Pos(l, p)
           k == Inserted(l, p, x)
           u == SubSeq(l, 1, i - 1)
           v == SubSeq(l, i, Len(l))
<1>1. l \in Seq(Ids) /\ Len(l) \in Nat /\ i \in 1 .. Len(l) + 1 /\ x \in Ids
  BY SamePlace, Positions DEF Lists
<1>2. k = u \o <<x>> \o v
  BY DEF Inserted, InsertAt
<1> HIDE DEF i
<1>3. /\ u \in Seq(Ids) /\ Len(u) = i - 1 /\ \A j \in 1 .. i - 1 : u[j] = l[j]
      /\ v \in Seq(Ids) /\ Len(v) = Len(l) - i + 1 /\ \A j \in 1 .. Len(l) - i + 1 : v[j] = l[i + j - 1]
  <2>1. /\ 1 \in Int /\ i - 1 \in Int /\ 1 <= i /\ i - 1 <= Len(l) /\ i - 1 - 1 + 1 = i - 1
        /\ i \in Int /\ Len(l) \in Int /\ i <= Len(l) + 1
    BY <1>1
  <2>2. u \in Seq(Ids) /\ Len(u) = i - 1 /\ \A j \in 1 .. i - 1 : u[j] = l[1 + j - 1]
    BY <1>1, <2>1, PartFacts
  <2>3. v \in Seq(Ids) /\ Len(v) = Len(l) - i + 1 /\ \A j \in 1 .. Len(l) - i + 1 : v[j] = l[i + j - 1]
    BY <1>1, <2>1, PartFacts
  <2>4. \A j \in 1 .. i - 1 : 1 + j - 1 = j
    BY <2>1
  <2> QED
    BY <2>2, <2>3, <2>4
<1> HIDE DEF u, v, k
<1>4. /\ k \in Seq(Ids) /\ Len(k) = Len(l) + 1
      /\ \A j \in 1 .. Len(l) + 1 : k[j] = IF j < i THEN l[j] ELSE IF j = i THEN x ELSE l[j - 1]
  <2>1. u \o <<x>> \in Seq(Ids) /\ Len(u \o <<x>>) = i
        /\ \A j \in 1 .. i : (u \o <<x>>)[j] = IF j < i THEN l[j] ELSE x
    BY <1>1, <1>3
  <2> DEFINE w == u \o <<x>>
  <2> HIDE DEF w
  <2>2. k \in Seq(Ids) /\ Len(k) = Len(l) + 1
    <3>1. w \in Seq(Ids) /\ v \in Seq(Ids) /\ k = w \o v /\ Len(w) = i
      BY <1>2, <1>3, <2>1 DEF w
    <3>2. w \o v \in Seq(Ids) /\ Len(w \o v) = Len(w) + Len(v)
      BY <3>1, ConcatProperties
    <3>3. Len(w) + Len(v) = Len(l) + 1
      BY <1>1, <1>3, <3>1
    <3> QED
      BY <3>1, <3>2, <3>3
  <2>3. ASSUME NEW j \in 1 .. Len(l) + 1
        PROVE  k[j] = IF j < i THEN l[j] ELSE IF j = i THEN x ELSE l[j - 1]
    <3>0. /\ w \in Seq(Ids) /\ v \in Seq(Ids) /\ k = w \o v /\ Len(w) = i
          /\ Len(w) + Len(v) = Len(l) + 1 /\ \A n \in 1 .. i : w[n] = IF n < i THEN l[n] ELSE x
      <4>1. w \in Seq(Ids) /\ v \in Seq(Ids) /\ k = w \o v /\ Len(w) = i
        BY <1>2, <1>3, <2>1 DEF w
      <4>2. \A n \in 1 .. i : w[n] = IF n < i THEN l[n] ELSE x
        BY <2>1 DEF w
      <4>3. Len(w) + Len(v) = Len(l) + 1
        BY <1>1, <1>3, <4>1
      <4> QED
        BY <4>1, <4>2, <4>3
    <3>3. k[j] = IF j <= i THEN w[j] ELSE v[j - i]
      BY <3>0, ConcatProperties
    <3>1. CASE j <= i
      BY <1>1, <3>0, <3>1, <3>3
    <3>2. CASE j > i
      <4>1. k[j] = v[j - i]
        BY <1>1, <3>2, <3>3
      <4>2. j - i \in 1 .. Len(l) - i + 1 /\ i + (j - i) - 1 = j - 1
        BY <1>1, <3>2
      <4> QED
        BY <1>1, <1>3, <3>2, <4>1, <4>2
    <3> QED
      BY <1>1, <3>1, <3>2
  <2> QED
    BY <2>2, <2>3
<1>5. /\ \A j \in 1 .. Len(l) : l[j] \in ToSet(l) /\ l[j] # x /\ Pos(l, l[j]) = j
      /\ \A y \in ToSet(l) : Pos(l, y) \in 1 .. Len(l) /\ l[Pos(l, y)] = y
  BY Positions
<1>6. k \in Lists
  <2>1. ASSUME NEW j \in 1 .. Len(k), NEW m \in 1 .. Len(k), k[j] = k[m] PROVE j = m
    <3> DEFINE back(z) == IF z < i THEN z ELSE z - 1
    <3>1. j # i => back(j) \in 1 .. Len(l) /\ k[j] = l[back(j)]
      BY <1>1, <1>4
    <3>2. m # i => back(m) \in 1 .. Len(l) /\ k[m] = l[back(m)]
      BY <1>1, <1>4
    <3>3. j = i => k[j] = x
      BY <1>1, <1>4
    <3>4. m = i => k[m] = x
      BY <1>1, <1>4
    <3>5. j # i /\ m # i => back(j) = back(m)
      BY <1>5, <2>1, <3>1, <3>2
    <3> QED
      BY <1>1, <1>4, <1>5, <2>1, <3>1, <3>2, <3>3, <3>4, <3>5
  <2> QED
    BY <1>4, <2>1 DEF Lists, IsInjective
<1>7. k[i] = x /\ i \in 1 .. Len(k)
  BY <1>1, <1>4
<1>8. Pos(k, x) = i /\ x \in ToSet(k)
  BY <1>6, <1>7, Positions
<1>9. ASSUME NEW y \in ToSet(l)
      PROVE  y \in ToSet(k) /\ Pos(k, y) = IF Pos(l, y) < i THEN Pos(l, y) ELSE Pos(l, y) + 1
  <2> DEFINE j == IF Pos(l, y) < i THEN Pos(l, y) ELSE Pos(l, y) + 1
  <2>1. j \in 1 .. Len(k) /\ k[j] = y
    BY <1>1, <1>4, <1>5
  <2> HIDE DEF j
  <2>2. Pos(k, y) = j /\ y \in ToSet(k)
    BY <1>6, <2>1, Positions
  <2> QED
    BY <2>2 DEF j
<1>10. ToSet(k) \subseteq ToSet(l) \cup {x}
  <2>1. ASSUME NEW y \in ToSet(k) PROVE y \in ToSet(l) \cup {x}
    <3>1. PICK j \in 1 .. Len(k) : k[j] = y
      BY <1>6, Positions
    <3>2. (j < i => j \in 1 .. Len(l)) /\ (j > i => j - 1 \in 1 .. Len(l))
      BY <1>1, <1>4
    <3> QED
      BY <1>1, <1>4, <1>5, <3>1, <3>2
  <2> QED
    BY <2>1
<1>11. Pos(k, End) = Len(l) + 2 /\ Pos(l, End) = Len(l) + 1
  BY <1>1, <1>4, <1>6, Positions
<1>12. Next1(k, x) = p
  <2>1. Next1(k, x) = At(k, i + 1)
    BY <1>8 DEF Next1
  <2>2. CASE p = End
    BY <1>1, <1>4, <1>6, <1>11, <2>1, <2>2, AtPosition DEF i
  <2>3. CASE p \in ToSet(l)
    <3>1. i \in 1 .. Len(l) /\ l[i] = p
      BY <1>5, <2>3 DEF i
    <3>2. i + 1 \in 1 .. Len(k) /\ k[i + 1] = p /\ i + 1 \in DOMAIN k
      BY <1>1, <1>4, <1>6, <3>1, Positions
    <3> QED
      BY <2>1, <3>2 DEF At
  <2> QED
    BY <2>2, <2>3 DEF Places
<1> QED
  BY <1>1, <1>6, <1>8, <1>9, <1>10, <1>11, <1>12 DEF Places, i, k

-----------------------------------------------------------------------------
(* Ranges of a list.                                                       *)

(* The elements of l from b up to e are those of X.                        *)
Spans(l, b, e, X) ==
  /\ X \subseteq ToSet(l) /\ b \in X /\ e \in Places(l)
  /\ \A x \in ToSet(l) : x \in X <=> Pos(l, b) <= Pos(l, x) /\ Pos(l, x) < Pos(l, e)

(* The element before a place, or the end of the list.                     *)
Before(l, p) == At(l, Pos(l, p) - 1)

(* A walk over a range meets what it spans.                                *)
LEMMA SpanWalked ==
  ASSUME NEW l \in Lists, NEW b, NEW e, NEW X, Spans(l, b, e, X)
  PROVE  /\ b \in Places(l) /\ e \in Places(l) /\ Pos(l, b) < Pos(l, e)
         /\ Walked(l, b, e) \in Lists /\ ToSet(Walked(l, b, e)) = X
<1>1. b \in ToSet(l) /\ e \in Places(l) /\ b \in Places(l) /\ Pos(l, b) < Pos(l, e)
  BY DEF Spans, Places
<1>2. Pos(l, b) \in Nat /\ Pos(l, e) \in Nat /\ Pos(l, b) >= 1 /\ Pos(l, e) <= Len(l) + 1 /\ Len(l) \in Nat
  BY <1>1, SamePlace, Positions
<1>3. Pos(l, b) <= Pos(l, e)
  BY <1>1, <1>2
<1> DEFINE w == Walked(l, b, e)
<1>4. /\ w \in Seq(Ids) /\ Len(w) = Pos(l, e) - Pos(l, b)
      /\ \A i \in 1 .. Len(w) : w[i] = l[Pos(l, b) + i - 1]
      /\ ToSet(w) = {x \in ToSet(l) : Pos(l, b) <= Pos(l, x) /\ Pos(l, x) < Pos(l, e)}
  BY <1>1, <1>3, WalkedFacts
<1> HIDE DEF w
<1>5. ToSet(w) = X
  BY <1>4 DEF Spans
<1>6. IsInjective(w)
  <2>1. ASSUME NEW i \in 1 .. Len(w), NEW j \in 1 .. Len(w), w[i] = w[j] PROVE i = j
    <3> DEFINE m == Pos(l, b) + i - 1
               n == Pos(l, b) + j - 1
    <3>1. m \in 1 .. Len(l) /\ n \in 1 .. Len(l) /\ (m = n => i = j)
      BY <1>2, <1>4
    <3>2. l[m] = l[n]
      BY <1>4, <2>1
    <3> HIDE DEF m, n
    <3>3. Pos(l, l[m]) = m /\ Pos(l, l[n]) = n
      BY <3>1, Positions
    <3> QED
      BY <3>1, <3>2, <3>3
  <2>2. DOMAIN w = 1 .. Len(w)
    BY <1>4, LenProperties
  <2> QED
    BY <2>1, <2>2 DEF IsInjective
<1> QED
  BY <1>1, <1>4, <1>5, <1>6 DEF w, Lists

(* What the element before a place has to do with a range.                 *)
LEMMA BeforeSpan ==
  ASSUME NEW l \in Lists, NEW p \in Places(l), NEW b, NEW e, NEW X, Spans(l, b, e, X)
  PROVE  /\ Before(l, p) \in X <=> Pos(l, b) < Pos(l, p) /\ Pos(l, p) <= Pos(l, e)
         /\ Before(l, p) \in X => Before(l, p) \in ToSet(l) /\ Pos(l, p) > 1
         /\ e = p => Before(l, p) \in X
<1>1. /\ X \subseteq ToSet(l) /\ b \in ToSet(l) /\ e \in Places(l) /\ b \in Places(l)
      /\ \A x \in ToSet(l) : x \in X <=> Pos(l, b) <= Pos(l, x) /\ Pos(l, x) < Pos(l, e)
  BY DEF Spans, Places
<1>2. /\ Pos(l, b) \in 1 .. Len(l) /\ Pos(l, e) \in 1 .. Len(l) + 1 /\ Pos(l, p) \in 1 .. Len(l) + 1
      /\ Len(l) \in Nat /\ End \notin ToSet(l) /\ Pos(l, b) < Pos(l, e)
  BY <1>1, SamePlace, Positions DEF Spans
<1> DEFINE i == Pos(l, p) - 1
           y == Before(l, p)
<1>3. i \in Nat /\ y = At(l, i)
  BY <1>2 DEF Before
<1>4. CASE i \in 1 .. Len(l)
  <2>1. y \in ToSet(l) /\ Pos(l, y) = i
    BY <1>3, <1>4, AtPosition
  <2> HIDE DEF y
  <2>2. y \in X <=> Pos(l, b) <= i /\ i < Pos(l, e)
    BY <1>1, <2>1
  <2>3. Pos(l, b) <= i <=> Pos(l, b) < Pos(l, p)
    BY <1>2
  <2>4. i < Pos(l, e) <=> Pos(l, p) <= Pos(l, e)
    BY <1>2
  <2> QED
    BY <1>1, <1>2, <1>4, <2>1, <2>2, <2>3, <2>4 DEF y
<1>5. CASE i \notin 1 .. Len(l)
  <2>1. y = End /\ y \notin X /\ Pos(l, p) = 1
    BY <1>1, <1>2, <1>3, <1>5, AtPosition
  <2> HIDE DEF y
  <2> QED
    BY <1>1, <1>2, <2>1 DEF y
<1> QED
  BY <1>4, <1>5

(* A range inside another one that holds the last element of this ends     *)
(* where this ends.                                                        *)
LEMMA InnerEnd ==
  ASSUME NEW l \in Lists, NEW p \in Places(l),
         NEW b, NEW X, Spans(l, b, p, X),
         NEW c, NEW e, NEW Y, Spans(l, c, e, Y), Y \subseteq X, Before(l, p) \in Y
  PROVE  e = p
<1>1. Pos(l, p) <= Pos(l, e) /\ p \in Places(l) /\ e \in Places(l)
  BY BeforeSpan DEF Spans
<1>2. Pos(l, p) \in 1 .. Len(l) + 1 /\ Pos(l, e) \in 1 .. Len(l) + 1 /\ Len(l) \in Nat
  BY <1>1, SamePlace, Positions
<1>3. ASSUME Pos(l, p) # Pos(l, e) PROVE FALSE
  <2>1. Pos(l, p) < Pos(l, e) /\ Pos(l, p) # Len(l) + 1
    BY <1>1, <1>2, <1>3
  <2>2. p \in ToSet(l)
    BY <2>1, Positions DEF Places
  <2>3. Pos(l, c) < Pos(l, p) /\ Pos(l, c) \in Nat
    BY BeforeSpan, SamePlace DEF Spans, Places
  <2>4. p \in Y
    BY <1>2, <2>1, <2>2, <2>3 DEF Spans
  <2>5. p \notin X
    BY <1>2, <2>2 DEF Spans
  <2> QED
    BY <2>4, <2>5
<1> QED
  BY <1>1, <1>3, SamePlace

(* A range around another one that holds its last element may end no       *)
(* earlier; the ranges after an insertion, by what they held before it.    *)
LEMMA SpanInserted ==
  ASSUME NEW l \in Lists, NEW p \in Places(l), NEW x \in Ids \ ToSet(l),
         NEW b, NEW e, NEW X, Spans(l, b, e, X)
  PROVE  /\ Before(l, p) \notin X => Spans(Inserted(l, p, x), b, e, X)
         /\ Before(l, p) \in X => Spans(Inserted(l, p, x), b, e, X \cup {x})
         /\ e = p => Spans(Inserted(l, p, x), b, x, X)
<1> DEFINE k == Inserted(l, p, x)
<1>1. /\ X \subseteq ToSet(l) /\ b \in ToSet(l) /\ e \in Places(l) /\ b \in Places(l) /\ b \in X
      /\ \A y \in ToSet(l) : y \in X <=> Pos(l, b) <= Pos(l, y) /\ Pos(l, y) < Pos(l, e)
  BY DEF Spans, Places
<1>2. /\ k \in Lists /\ ToSet(k) = ToSet(l) \cup {x} /\ Pos(k, x) = Pos(l, p)
      /\ \A y \in Places(l) : Pos(k, y) = IF Pos(l, y) < Pos(l, p) THEN Pos(l, y) ELSE Pos(l, y) + 1
  BY InsertedFacts
<1>3. /\ Pos(l, b) \in Nat /\ Pos(l, e) \in Nat /\ Pos(l, p) \in Nat
      /\ \A y \in ToSet(l) : Pos(l, y) \in Nat /\ y \in Places(l)
      /\ Pos(l, b) < Pos(l, e) /\ e \in Places(k) /\ x \in Places(k) /\ x \notin X
  BY <1>1, <1>2, SamePlace, Positions DEF Spans, Places
<1>4. Before(l, p) \in X <=> Pos(l, b) < Pos(l, p) /\ Pos(l, p) <= Pos(l, e)
  BY BeforeSpan
<1> HIDE DEF k
<1>5. ASSUME Before(l, p) \notin X PROVE Spans(k, b, e, X)
  <2>1. Pos(l, p) <= Pos(l, b) \/ Pos(l, e) < Pos(l, p)
    BY <1>3, <1>4, <1>5
  <2>2. ASSUME NEW y \in ToSet(l)
        PROVE  y \in X <=> Pos(k, b) <= Pos(k, y) /\ Pos(k, y) < Pos(k, e)
    BY <1>1, <1>2, <1>3, <2>1
  <2>3. ~(Pos(k, b) <= Pos(k, x) /\ Pos(k, x) < Pos(k, e))
    BY <1>1, <1>2, <1>3, <2>1
  <2> QED
    BY <1>1, <1>2, <1>3, <2>2, <2>3 DEF Spans
<1>6. ASSUME Before(l, p) \in X PROVE Spans(k, b, e, X \cup {x})
  <2>1. Pos(l, b) < Pos(l, p) /\ Pos(l, p) <= Pos(l, e)
    BY <1>4, <1>6
  <2>2. ASSUME NEW y \in ToSet(l)
        PROVE  y \in X <=> Pos(k, b) <= Pos(k, y) /\ Pos(k, y) < Pos(k, e)
    BY <1>1, <1>2, <1>3, <2>1
  <2>3. Pos(k, b) <= Pos(k, x) /\ Pos(k, x) < Pos(k, e)
    BY <1>1, <1>2, <1>3, <2>1
  <2> QED
    BY <1>1, <1>2, <1>3, <2>2, <2>3 DEF Spans
<1>7. ASSUME e = p PROVE Spans(k, b, x, X)
  <2>1. Pos(l, b) < Pos(l, p) /\ Pos(l, p) = Pos(l, e)
    BY <1>3, <1>7
  <2>2. ASSUME NEW y \in ToSet(l)
        PROVE  y \in X <=> Pos(k, b) <= Pos(k, y) /\ Pos(k, y) < Pos(k, x)
    BY <1>1, <1>2, <1>3, <2>1
  <2>3. ~(Pos(k, x) < Pos(k, x))
    BY <1>2, <1>3
  <2> QED
    BY <1>1, <1>2, <1>3, <2>2, <2>3 DEF Spans
<1> QED
  BY <1>5, <1>6, <1>7 DEF k

(* The range of a new element alone.                                       *)
LEMMA SpanNew ==
  ASSUME NEW l \in Lists, NEW p \in Places(l), NEW x \in Ids \ ToSet(l)
  PROVE  Spans(Inserted(l, p, x), x, p, {x})
<1> DEFINE k == Inserted(l, p, x)
<1>1. /\ k \in Lists /\ ToSet(k) = ToSet(l) \cup {x} /\ Pos(k, x) = Pos(l, p)
      /\ \A y \in Places(l) : Pos(k, y) = IF Pos(l, y) < Pos(l, p) THEN Pos(l, y) ELSE Pos(l, y) + 1
  BY InsertedFacts
<1>2. /\ \A y \in ToSet(l) : Pos(l, y) \in Nat /\ y \in Places(l) /\ y # x
      /\ Pos(l, p) \in Nat
  BY SamePlace DEF Places
<1> HIDE DEF k
<1>3. ASSUME NEW y \in ToSet(l)
      PROVE  ~(Pos(k, x) <= Pos(k, y) /\ Pos(k, y) < Pos(k, p))
  BY <1>1, <1>2
<1>4. Pos(k, x) < Pos(k, p) /\ Pos(k, x) <= Pos(k, x) /\ p \in Places(k)
  BY <1>1, <1>2 DEF Places
<1> QED
  BY <1>1, <1>2, <1>3, <1>4 DEF Spans, k

(* Pushing an element to the front inserts it before the first element.    *)
LEMMA PushedFront ==
  ASSUME NEW l \in Lists, NEW x \in Ids \ ToSet(l)
  PROVE  /\ <<x>> \o l = Inserted(l, At(l, 1), x) /\ At(l, 1) \in Places(l)
         /\ Before(l, At(l, 1)) = End
<1>1. l \in Seq(Ids) /\ Len(l) \in Nat /\ x \in Ids
  BY Positions DEF Lists
<1>2. At(l, 1) \in Places(l) /\ Pos(l, At(l, 1)) = 1
  <2>1. CASE 1 \in 1 .. Len(l)
    BY <2>1, AtPosition DEF Places
  <2>2. CASE 1 \notin 1 .. Len(l)
    <3>1. Len(l) = 0 /\ At(l, 1) = End
      BY <1>1, <2>2, AtPosition
    <3> QED
      BY <3>1, Positions DEF Places
  <2> QED
    BY <2>1, <2>2
<1>3. SubSeq(l, 1, 0) = <<>> /\ SubSeq(l, 1, Len(l)) = l
  BY <1>1, SubSeqEmpty, SubSeqFull
<1>4. <<>> \o <<x>> = <<x>>
  BY <1>1
<1>5. Inserted(l, At(l, 1), x) = <<x>> \o l
  <2>1. InsertAt(l, 1, x) = SubSeq(l, 1, 0) \o <<x>> \o SubSeq(l, 1, Len(l))
    BY DEF InsertAt
  <2>2. Inserted(l, At(l, 1), x) = InsertAt(l, 1, x)
    BY <1>2 DEF Inserted
  <2> QED
    BY <1>3, <1>4, <2>1, <2>2
<1>6. Before(l, At(l, 1)) = End
  BY <1>2, AtPosition DEF Before
<1> QED
  BY <1>2, <1>5, <1>6

-----------------------------------------------------------------------------
(* Erasing from a list.                                                    *)

(* The least and the greatest of some positions.                           *)
LEMMA MinMax ==
  ASSUME NEW n \in Nat, NEW S \in SUBSET (1 .. n), S # {}
  PROVE  /\ Min(S) \in S /\ \A y \in S : Min(S) <= y
         /\ Max(S) \in S /\ \A y \in S : y <= Max(S)
<1>1. S \subseteq Nat
  OBVIOUS
<1>2. \E x \in S : \A y \in S : x <= y
  BY <1>1, LeastNat
<1>3. \E x \in S : \A y \in S : x >= y
  <2> DEFINE T == {n - x : x \in S}
  <2>0. \A x \in S : n - x \in Nat
    OBVIOUS
  <2>1. T \in SUBSET Nat /\ T # {}
    BY <2>0
  <2>2. PICK t \in T : \A u \in T : t <= u
    BY <2>1, LeastNat
  <2>3. PICK x \in S : t = n - x
    OBVIOUS
  <2>4. \A y \in S : n - x <= n - y
    BY <2>2, <2>3
  <2>5. x \in Int /\ n \in Int /\ \A y \in S : y \in Int
    BY <1>1
  <2> HIDE DEF T
  <2>6. \A y \in S : x >= y
    BY <2>4, <2>5
  <2> QED
    BY <2>6
<1>4. Min(S) \in S /\ \A y \in S : Min(S) <= y
  BY <1>2 DEF Min
<1>5. Max(S) \in S /\ \A y \in S : Max(S) >= y
  BY <1>3 DEF Max
<1> QED
  BY <1>1, <1>4, <1>5

(* The first element of a list with a property, as its position.           *)
LEMMA PrefixMax ==
  ASSUME NEW i \in Nat, i # 0
  PROVE  Max(1 .. i) = i /\ (1 .. i) \ {Max(1 .. i)} = 1 .. (i - 1)
<1>1. 1 .. i # {} /\ 1 .. i \in SUBSET (1 .. i)
  OBVIOUS
<1>2. Max(1 .. i) = i
  <2>1. Max(1 .. i) \in 1 .. i /\ \A y \in 1 .. i : y <= Max(1 .. i)
    BY <1>1, MinMax
  <2>2. i \in 1 .. i
    OBVIOUS
  <2>3. i <= Max(1 .. i)
    BY <2>1, <2>2
  <2> QED
    BY <2>1, <2>3
<1> QED
  BY <1>2

(* Erasing elements one after another is a sequence of lists.              *)
LEMMA WithoutAllSteps ==
  ASSUME NEW l, NEW gone \in Seq(Ids)
  PROVE  \E F : /\ F[0] = l /\ WithoutAll(l, gone) = F[Len(gone)]
                /\ \A i \in 1 .. Len(gone) : F[i] = RemoveFirst(F[i - 1], gone[i])
<1> DEFINE n == Len(gone)
           D == DOMAIN gone
           Small(j) == {s \in SUBSET D : Cardinality(s) <= j}
           Right(f, X) == f = [s \in X |-> IF s = {} THEN l
                                 ELSE RemoveFirst(f[s \ {Max(s)}], gone[Max(s)])]
           N == {j \in Nat : \E f : Right(f, Small(j))}
<1>1. n \in Nat /\ D = 1 .. n
  BY LenProperties
<1>2. IsFiniteSet(D) /\ \A s \in SUBSET D : IsFiniteSet(s) /\ Cardinality(s) \in Nat
  <2>1. IsFiniteSet(D)
    BY <1>1, FS_Interval
  <2>2. \A s \in SUBSET D : IsFiniteSet(s)
    BY <2>1, FS_Subset
  <2> HIDE DEF D
  <2> QED
    BY <2>1, <2>2, FS_CardinalityType
<1>3. \A s \in SUBSET D : s # {} => /\ Max(s) \in s /\ s \ {Max(s)} \in SUBSET D
                                     /\ Cardinality(s \ {Max(s)}) = Cardinality(s) - 1
  BY <1>1, <1>2, MinMax, FS_RemoveElement
<1>4. 0 \in N
  <2> DEFINE f == [s \in Small(0) |-> l]
  <2>1. \A s \in Small(0) : s = {}
    BY <1>2, FS_EmptySet
  <2>2. Right(f, Small(0))
    BY <2>1
  <2> QED
    BY <2>2
<1>5. ASSUME NEW j \in N PROVE j + 1 \in N
  <2>1. PICK f : Right(f, Small(j))
    OBVIOUS
  <2> DEFINE h == [s \in Small(j + 1) |-> IF s = {} THEN l
                                 ELSE RemoveFirst(f[s \ {Max(s)}], gone[Max(s)])]
  <2>2. \A s \in Small(j + 1) : s # {} => s \ {Max(s)} \in Small(j)
    <3>1. SUFFICES ASSUME NEW s \in SUBSET D, Cardinality(s) <= j + 1, s # {}
                   PROVE  s \ {Max(s)} \in SUBSET D /\ Cardinality(s \ {Max(s)}) <= j
      OBVIOUS
    <3>2. /\ s \ {Max(s)} \in SUBSET D /\ Cardinality(s \ {Max(s)}) = Cardinality(s) - 1
          /\ Cardinality(s) \in Nat /\ j \in Nat
      BY <1>2, <1>3, <3>1
    <3> QED
      BY <3>1, <3>2
  <2>3. \A s \in Small(j) : s \in Small(j + 1)
    BY <1>2
  <2>4. \A s \in Small(j) : h[s] = f[s]
    BY <2>1, <2>3
  <2>5. Right(h, Small(j + 1))
    <3>1. \A s \in Small(j + 1) : s # {} => h[s \ {Max(s)}] = f[s \ {Max(s)}]
      BY <2>2, <2>4
    <3> HIDE DEF Small
    <3> QED
      BY <3>1
  <2>6. j + 1 \in Nat
    OBVIOUS
  <2> HIDE DEF h, Right, Small
  <2> QED
    BY <2>5, <2>6
<1> HIDE DEF Right, Small
<1>6. N = Nat
  BY <1>4, <1>5, Counting
<1>7. SUBSET D = Small(n)
  <2>1. Cardinality(D) = n
    BY <1>1, FS_Interval
  <2>2. \A s \in SUBSET D : Cardinality(s) <= Cardinality(D)
    BY <1>2, FS_Subset
  <2> QED
    BY <2>1, <2>2 DEF Small
<1>8. \E f : Right(f, SUBSET D)
  BY <1>1, <1>6, <1>7
<1> DEFINE g == CHOOSE f : Right(f, SUBSET D)
<1>9. Right(g, SUBSET D)
  BY <1>8
<1>10. WithoutAll(l, gone) = g[D]
  BY DEF WithoutAll, FoldLeft, MapThenFoldSet, Right
<1> HIDE DEF g
<1> DEFINE F == [i \in 0 .. n |-> g[1 .. i]]
<1>11. F[0] = l /\ WithoutAll(l, gone) = F[n]
  <2>1. 1 .. 0 = {} /\ {} \in SUBSET D
    OBVIOUS
  <2>2. g[{}] = l
    BY <1>9, <2>1 DEF Right
  <2> QED
    BY <1>1, <1>10, <2>1, <2>2
<1>12. ASSUME NEW i \in 1 .. n PROVE F[i] = RemoveFirst(F[i - 1], gone[i])
  <2>1. 1 .. i \in SUBSET D /\ 1 .. i # {} /\ i \in Nat /\ i # 0 /\ i - 1 \in 0 .. n /\ i \in 0 .. n
    <3> HIDE DEF F, D, n
    <3>1. 1 .. i \in SUBSET (1 .. n) /\ i \in 1 .. i
      BY <1>1
    <3> QED
      BY <1>1, <3>1
  <2>2. g[1 .. i] = RemoveFirst(g[1 .. (i - 1)], gone[i])
    BY <1>9, <2>1, PrefixMax DEF Right
  <2> QED
    BY <2>1, <2>2
<1> QED
  BY <1>11, <1>12

-----------------------------------------------------------------------------
(* A list without the elements of G, in the order they had.                *)
Thinned(l, k, G) ==
  /\ k \in Lists /\ ToSet(k) = ToSet(l) \ G
  /\ \A x, y \in ToSet(k) : Pos(k, x) < Pos(k, y) <=> Pos(l, x) < Pos(l, y)

(* Erasing one element leaves the others in their order.                   *)
LEMMA RemoveFacts ==
  ASSUME NEW k \in Lists, NEW x \in ToSet(k)
  PROVE  Thinned(k, RemoveFirst(k, x), {x})
<1> DEFINE i == Pos(k, x)
           r == RemoveFirst(k, x)
           u == SubSeq(k, 1, i - 1)
           v == SubSeq(k, i + 1, Len(k))
<1>1. /\ k \in Seq(Ids) /\ Len(k) \in Nat /\ i \in 1 .. Len(k) /\ k[i] = x
      /\ \A j \in 1 .. Len(k) : k[j] \in ToSet(k) /\ Pos(k, k[j]) = j
      /\ \A y \in ToSet(k) : Pos(k, y) \in 1 .. Len(k) /\ k[Pos(k, y)] = y
  BY Positions DEF Lists
<1>2. r = u \o v
  <2> DEFINE I == {j \in 1 .. Len(k) : k[j] = x}
  <2>1. I = {i}
    BY <1>1
  <2>2. Min({i}) = i
    BY <1>1, MinMax
  <2>3. SelectInSeq(k, LAMBDA y : y = x) = IF I # {} THEN Min(I) ELSE 0
    BY DEF SelectInSeq
  <2>4. SelectInSeq(k, LAMBDA y : y = x) = i
    BY <2>1, <2>2, <2>3
  <2>5. \E j \in 1 .. Len(k) : k[j] = x
    BY <1>1
  <2> QED
    BY <2>4, <2>5 DEF RemoveFirst, RemoveAt
<1> HIDE DEF i
<1>3. /\ u \in Seq(Ids) /\ Len(u) = i - 1 /\ \A j \in 1 .. i - 1 : u[j] = k[j]
      /\ v \in Seq(Ids) /\ Len(v) = Len(k) - i /\ \A j \in 1 .. Len(k) - i : v[j] = k[i + j]
  <2>1. /\ 1 \in Int /\ i - 1 \in Int /\ 1 <= i /\ i - 1 <= Len(k) /\ i - 1 - 1 + 1 = i - 1
        /\ i + 1 \in Int /\ Len(k) \in Int /\ i + 1 <= Len(k) + 1 /\ 1 <= i + 1
        /\ Len(k) - (i + 1) + 1 = Len(k) - i /\ 1 <= i - 1 + 1 /\ Len(k) <= Len(k)
    BY <1>1
  <2>2. u \in Seq(Ids) /\ Len(u) = i - 1 /\ \A j \in 1 .. i - 1 : u[j] = k[1 + j - 1]
    BY <1>1, <2>1, PartFacts
  <2>3. v \in Seq(Ids) /\ Len(v) = Len(k) - i /\ \A j \in 1 .. Len(k) - i : v[j] = k[i + 1 + j - 1]
    <3>1. /\ v \in Seq(Ids) /\ Len(v) = Len(k) - (i + 1) + 1
          /\ \A j \in 1 .. Len(k) - (i + 1) + 1 : v[j] = k[i + 1 + j - 1]
      <4> DEFINE m == i + 1
                 n == Len(k)
      <4>1. m \in Int /\ n \in Int /\ 1 <= m /\ m <= n + 1 /\ n <= Len(k) /\ v = SubSeq(k, m, n)
            /\ k \in Seq(Ids)
        BY <1>1
      <4> HIDE DEF m, n, v
      <4>2. /\ v \in Seq(Ids) /\ Len(v) = n - m + 1
            /\ \A j \in 1 .. n - m + 1 : v[j] = k[m + j - 1]
        BY <4>1, PartFacts
      <4> QED
        BY <4>2 DEF m, n
    <3> QED
      BY <2>1, <3>1
  <2>4. (\A j \in 1 .. i - 1 : 1 + j - 1 = j) /\ \A j \in 1 .. Len(k) - i : i + 1 + j - 1 = i + j
    BY <1>1
  <2> QED
    BY <2>2, <2>3, <2>4
<1> HIDE DEF u, v, r
<1>4. /\ r \in Seq(Ids) /\ Len(r) = Len(k) - 1
      /\ \A j \in 1 .. Len(k) - 1 : r[j] = IF j < i THEN k[j] ELSE k[j + 1]
  <2>1. /\ u \o v \in Seq(Ids) /\ Len(u \o v) = Len(u) + Len(v)
        /\ \A j \in 1 .. Len(u) + Len(v) : (u \o v)[j] = IF j <= Len(u) THEN u[j] ELSE v[j - Len(u)]
    BY <1>3, ConcatProperties
  <2>2. Len(u) + Len(v) = Len(k) - 1
    BY <1>1, <1>3
  <2>3. ASSUME NEW j \in 1 .. Len(k) - 1 PROVE r[j] = IF j < i THEN k[j] ELSE k[j + 1]
    <3>1. r[j] = IF j <= i - 1 THEN u[j] ELSE v[j - (i - 1)]
      BY <1>2, <1>3, <2>1, <2>2
    <3>2. CASE j < i
      <4>1. j <= i - 1 /\ j \in 1 .. i - 1
        BY <1>1, <3>2
      <4> QED
        BY <1>3, <3>1, <3>2, <4>1
    <3>3. CASE ~(j < i)
      <4>1. ~(j <= i - 1) /\ j - (i - 1) \in 1 .. Len(k) - i /\ i + (j - (i - 1)) = j + 1
        BY <1>1, <3>3
      <4> QED
        BY <1>3, <3>1, <3>3, <4>1
    <3> QED
      BY <3>2, <3>3
  <2> QED
    BY <1>2, <2>1, <2>2, <2>3
<1>5. DOMAIN r = 1 .. Len(r)
  BY <1>4, LenProperties
<1> DEFINE at(j) == IF j < i THEN j ELSE j + 1
<1>6. \A j \in 1 .. Len(r) : at(j) \in 1 .. Len(k) /\ at(j) # i /\ r[j] = k[at(j)]
  BY <1>1, <1>4
<1>7. \A j, m \in 1 .. Len(r) : (at(j) = at(m) => j = m) /\ (j < m <=> at(j) < at(m))
  BY <1>1, <1>4
<1> HIDE DEF at
<1>8. r \in Lists
  <2>1. ASSUME NEW j \in 1 .. Len(r), NEW m \in 1 .. Len(r), r[j] = r[m] PROVE j = m
    <3>1. at(j) = at(m)
      BY <1>1, <1>6, <2>1
    <3> QED
      BY <1>7, <3>1
  <2> QED
    BY <1>4, <1>5, <2>1 DEF Lists, IsInjective
<1>9. /\ \A j \in 1 .. Len(r) : r[j] \in ToSet(r) /\ Pos(r, r[j]) = j
      /\ \A y \in ToSet(r) : Pos(r, y) \in 1 .. Len(r) /\ r[Pos(r, y)] = y
  BY <1>8, Positions
<1>10. \A y \in ToSet(r) : y \in ToSet(k) /\ y # x /\ Pos(k, y) = at(Pos(r, y))
  BY <1>1, <1>6, <1>9
<1>11. ASSUME NEW y \in ToSet(k), y # x PROVE y \in ToSet(r)
  <2> DEFINE j == IF Pos(k, y) < i THEN Pos(k, y) ELSE Pos(k, y) - 1
  <2>1. Pos(k, y) \in 1 .. Len(k) /\ Pos(k, y) # i
    BY <1>1, <1>11
  <2>2. j \in 1 .. Len(r) /\ at(j) = Pos(k, y)
    BY <1>1, <1>4, <2>1 DEF at
  <2> HIDE DEF j
  <2>3. r[j] = y
    BY <1>1, <1>6, <2>2
  <2> QED
    BY <1>9, <2>2, <2>3
<1>12. ToSet(r) = ToSet(k) \ {x}
  BY <1>10, <1>11
<1>13. ASSUME NEW y \in ToSet(r), NEW z \in ToSet(r)
       PROVE  Pos(r, y) < Pos(r, z) <=> Pos(k, y) < Pos(k, z)
  BY <1>7, <1>9, <1>10
<1> QED
  BY <1>8, <1>12, <1>13 DEF Thinned, r

(* Erasing different elements of a list one after another.                 *)
LEMMA WithoutAllFacts ==
  ASSUME NEW l \in Lists, NEW gone \in Lists, ToSet(gone) \subseteq ToSet(l)
  PROVE  Thinned(l, WithoutAll(l, gone), ToSet(gone))
<1>1. /\ gone \in Seq(Ids) /\ Len(gone) \in Nat
      /\ \A i \in 1 .. Len(gone) : gone[i] \in ToSet(gone) /\ Pos(gone, gone[i]) = i
      /\ \A y \in ToSet(gone) : Pos(gone, y) \in 1 .. Len(gone) /\ gone[Pos(gone, y)] = y
  BY Positions DEF Lists
<1>2. PICK F : /\ F[0] = l /\ WithoutAll(l, gone) = F[Len(gone)]
               /\ \A i \in 1 .. Len(gone) : F[i] = RemoveFirst(F[i - 1], gone[i])
  BY <1>1, WithoutAllSteps
<1> DEFINE G(i) == {gone[j] : j \in 1 .. i}
           N == {i \in Nat : i <= Len(gone) => Thinned(l, F[i], G(i))}
<1>3. 0 \in N
  <2>1. G(0) = {}
    OBVIOUS
  <2> HIDE DEF G
  <2> QED
    BY <1>2, <2>1 DEF Thinned
<1>4. ASSUME NEW i \in N PROVE i + 1 \in N
  <2>1. SUFFICES ASSUME i + 1 <= Len(gone) PROVE Thinned(l, F[i + 1], G(i + 1))
    OBVIOUS
  <2>2. i \in Nat /\ i + 1 \in 1 .. Len(gone) /\ i + 1 - 1 = i
    BY <1>1, <2>1
  <2>3. Thinned(l, F[i], G(i))
    BY <1>1, <2>2
  <2>4. F[i + 1] = RemoveFirst(F[i], gone[i + 1])
    BY <1>2, <2>2
  <2>5. G(i + 1) = G(i) \cup {gone[i + 1]}
    BY <2>2
  <2>6. gone[i + 1] \notin G(i)
    BY <1>1, <2>2
  <2> DEFINE x == gone[i + 1]
             k == F[i]
             r == F[i + 1]
             H == G(i)
  <2>7. x \in ToSet(l)
    BY <1>1, <2>2
  <2> HIDE DEF G, x, k, r, H
  <2>8. x \in ToSet(k) /\ k \in Lists
    BY <2>3, <2>6, <2>7 DEF Thinned, x, k, H
  <2>9. Thinned(k, r, {x})
    BY <2>4, <2>8, RemoveFacts DEF x, k, r
  <2>10. Thinned(l, k, H)
    BY <2>3 DEF k, H
  <2>11. Thinned(l, r, H \cup {x})
    BY <2>9, <2>10 DEF Thinned
  <2> QED
    BY <2>5, <2>11 DEF H, r, x
<1> HIDE DEF G
<1>5. N = Nat
  BY <1>3, <1>4, Counting
<1>6. Thinned(l, F[Len(gone)], G(Len(gone)))
  BY <1>1, <1>5
<1>7. G(Len(gone)) = ToSet(gone)
  BY <1>1 DEF G
<1> QED
  BY <1>2, <1>6, <1>7

(* A range of a thinned list: from the first element that stays to the     *)
(* first place after the range that stays.                                 *)
LEMMA SpanThinned ==
  ASSUME NEW l \in Lists, NEW k, NEW G, Thinned(l, k, G),
         NEW b, NEW e, NEW X, Spans(l, b, e, X),
         NEW c \in X \ G, \A y \in X \ G : Pos(l, c) <= Pos(l, y),
         NEW d \in Places(l) \ G, Pos(l, e) <= Pos(l, d),
         \A y \in ToSet(l) \ G : Pos(l, e) <= Pos(l, y) => Pos(l, d) <= Pos(l, y)
  PROVE  Spans(k, c, d, X \ G)
<1>1. /\ X \subseteq ToSet(l) /\ e \in Places(l)
      /\ \A x \in ToSet(l) : x \in X <=> Pos(l, b) <= Pos(l, x) /\ Pos(l, x) < Pos(l, e)
      /\ k \in Lists /\ ToSet(k) = ToSet(l) \ G
      /\ \A x, y \in ToSet(k) : Pos(k, x) < Pos(k, y) <=> Pos(l, x) < Pos(l, y)
      /\ b \in Places(l)
  BY DEF Spans, Thinned, Places
<1>2. /\ \A y \in ToSet(l) : Pos(l, y) \in Nat /\ Pos(l, y) <= Len(l)
      /\ Pos(l, d) \in Nat /\ Pos(l, e) \in Nat /\ Pos(l, b) \in Nat /\ Len(l) \in Nat
      /\ d = End => Pos(l, d) = Len(l) + 1
  BY <1>1, SamePlace, Positions
<1>3. /\ \A y \in ToSet(k) : Pos(k, y) \in Nat /\ Pos(k, y) <= Len(k)
      /\ Pos(k, End) = Len(k) + 1 /\ Len(k) \in Nat
  BY <1>1, Positions
<1>4. d \in Places(k) /\ c \in ToSet(k)
  BY <1>1 DEF Places
<1>5. ASSUME NEW x \in ToSet(k) PROVE Pos(k, x) < Pos(k, d) <=> Pos(l, x) < Pos(l, d)
  <2>1. CASE d \in ToSet(k)
    BY <1>1, <2>1
  <2>2. CASE d = End
    BY <1>1, <1>2, <1>3, <2>2
  <2> QED
    BY <1>4, <2>1, <2>2 DEF Places
<1>6. ASSUME NEW x \in ToSet(k) PROVE Pos(k, c) <= Pos(k, x) <=> Pos(l, c) <= Pos(l, x)
  <2>1. Pos(k, x) < Pos(k, c) <=> Pos(l, x) < Pos(l, c)
    BY <1>1, <1>4
  <2> QED
    BY <1>1, <1>2, <1>3, <1>4, <2>1
<1>7. ASSUME NEW x \in ToSet(k)
      PROVE  x \in X \ G <=> Pos(k, c) <= Pos(k, x) /\ Pos(k, x) < Pos(k, d)
  <2>1. x \in ToSet(l) /\ x \notin G /\ Pos(l, x) \in Nat /\ Pos(l, c) \in Nat /\ Pos(l, b) <= Pos(l, c)
    BY <1>1, <1>2
  <2>2. x \in X => Pos(l, c) <= Pos(l, x) /\ Pos(l, x) < Pos(l, d)
    BY <1>1, <1>2, <2>1
  <2>3. Pos(l, c) <= Pos(l, x) /\ Pos(l, x) < Pos(l, d) => x \in X
    BY <1>1, <1>2, <2>1
  <2> QED
    BY <1>5, <1>6, <2>1, <2>2, <2>3
<1> QED
  BY <1>1, <1>4, <1>7 DEF Spans

-----------------------------------------------------------------------------
(* Nests of scopes.                                                        *)

(* What holds of a scope when it holds of the scope around it holds of     *)
(* every scope.                                                            *)
LEMMA Outwards ==
  ASSUME NEW S \in SUBSET Scopes,
         \A s \in Scopes : (Outer[s] # None => Outer[s] \in S) => s \in S
  PROVE  S = Scopes
<1>1. /\ Outer \in [Scopes -> Scopes \cup {None}]
      /\ \A T \in SUBSET Scopes : T # {} => \E s \in T : Outer[s] \notin T
  BY Domains
<1>2. SUFFICES ASSUME Scopes \ S # {} PROVE FALSE
  OBVIOUS
<1>3. PICK s \in Scopes \ S : Outer[s] \notin Scopes \ S
  BY <1>1, <1>2
<1>4. Outer[s] # None => Outer[s] \in S
  BY <1>1, <1>3
<1> QED
  BY <1>3, <1>4

(* The nests of the program are well defined.                              *)
LEMMA NestsExist ==
  /\ Nest \in [Scopes -> Seq(Scopes)]
  /\ \A s \in Scopes :
       Nest[s] = <<s>> \o (IF Outer[s] = None THEN <<>> ELSE Nest[Outer[s]])
<1>1. /\ Outer \in [Scopes -> Scopes \cup {None}]
      /\ \A T \in SUBSET Scopes : T # {} => \E s \in T : Outer[s] \notin T
  BY Domains
<1> DEFINE V == Seq(Scopes)
           around == [s \in Scopes |-> {t \in Scopes : t = Outer[s]}]
           Term(s, f) == <<s>> \o (IF Outer[s] = None THEN <<>> ELSE f[Outer[s]])
           step == [q \in Scopes \X [Scopes -> V] |-> Term(q[1], q[2])]
<1>2. \A s \in Scopes : \A f \in [Scopes -> V] : Term(s, f) \in V
  <2>1. SUFFICES ASSUME NEW s \in Scopes, NEW f \in [Scopes -> V] PROVE Term(s, f) \in V
    OBVIOUS
  <2>2. <<s>> \in V /\ <<>> \in V
    OBVIOUS
  <2>3. (IF Outer[s] = None THEN <<>> ELSE f[Outer[s]]) \in V
    BY <1>1, <2>2
  <2> QED
    BY <2>2, <2>3, ConcatProperties
<1>3. \A s \in Scopes : \A f \in [Scopes -> V] : step[<<s, f>>] = Term(s, f)
  <2> HIDE DEF Term
  <2> QED
    OBVIOUS
<1>4. \A s \in Scopes : \A f, h \in [Scopes -> V] :
        (\A t \in around[s] : f[t] = h[t]) => Term(s, f) = Term(s, h)
  <2>1. SUFFICES ASSUME NEW s \in Scopes, NEW f \in [Scopes -> V], NEW h \in [Scopes -> V],
                        \A t \in around[s] : f[t] = h[t]
                 PROVE  Term(s, f) = Term(s, h)
    OBVIOUS
  <2>2. Outer[s] # None => f[Outer[s]] = h[Outer[s]]
    BY <1>1, <2>1
  <2> QED
    BY <2>2
<1>5. NoCycle(Scopes, around)
  <2>1. around \in [Scopes -> SUBSET Scopes]
    OBVIOUS
  <2>2. ASSUME NEW T \in SUBSET Scopes, T # {} PROVE \E s \in T : around[s] \cap T = {}
    BY <1>1, <2>2
  <2> HIDE DEF around
  <2> QED
    BY <2>1, <2>2 DEF NoCycle
<1> HIDE DEF around, step, Term
<1>6. Equations(Scopes, V, around, step)
  <2>1. \A s \in Scopes : \A f \in [Scopes -> V] : step[<<s, f>>] \in V
    BY <1>2, <1>3
  <2>2. \A s \in Scopes : \A f, h \in [Scopes -> V] :
          (\A t \in around[s] : f[t] = h[t]) => step[<<s, f>>] = step[<<s, h>>]
    <3> HIDE DEF V
    <3> QED
      BY <1>3, <1>4
  <2>3. V # {}
    BY EmptySeq
  <2> QED
    BY <2>1, <2>2, <2>3 DEF Equations
<1>7. PICK f \in [Scopes -> V] : \A s \in Scopes : f[s] = step[<<s, f>>]
  BY <1>5, <1>6, Recursion
<1>8. f = [s \in Scopes |-> <<s>> \o (IF Outer[s] = None THEN <<>> ELSE f[Outer[s]])]
  BY <1>3, <1>7 DEF Term
<1> DEFINE Right(g) == g = [s \in Scopes |-> <<s>> \o (IF Outer[s] = None THEN <<>> ELSE g[Outer[s]])]
<1>9. Nest = CHOOSE g : Right(g)
  BY DEF Nest
<1>10. Right(Nest)
  BY <1>8, <1>9
<1>11. ASSUME NEW s \in Scopes PROVE Nest[s] = f[s]
  <2> DEFINE S == {t \in Scopes : Nest[t] = f[t]}
  <2>1. ASSUME NEW t \in Scopes, Outer[t] # None => Outer[t] \in S PROVE t \in S
    <3>1. /\ Nest[t] = <<t>> \o (IF Outer[t] = None THEN <<>> ELSE Nest[Outer[t]])
          /\ f[t] = <<t>> \o (IF Outer[t] = None THEN <<>> ELSE f[Outer[t]])
      BY <1>8, <1>10
    <3> QED
      BY <2>1, <3>1
  <2> HIDE DEF S
  <2>2. S \in SUBSET Scopes
    BY DEF S
  <2>3. S = Scopes
    BY <2>1, <2>2, Outwards
  <2> QED
    BY <2>3 DEF S
<1>12. Nest = f
  BY <1>7, <1>10, <1>11
<1> QED
  BY <1>7, <1>8, <1>12

(* A nest is the scope and the nest of the scope around it.                *)
LEMMA NestFacts ==
  ASSUME NEW s \in Scopes
  PROVE  /\ Nest[s] \in Seq(Scopes) /\ Len(Nest[s]) \in Nat /\ Len(Nest[s]) >= 1 /\ Nest[s][1] = s
         /\ DOMAIN Nest[s] = 1 .. Len(Nest[s])
         /\ Outer[s] = None => Len(Nest[s]) = 1
         /\ Outer[s] # None =>
              /\ Outer[s] \in Scopes /\ Len(Nest[s]) = Len(Nest[Outer[s]]) + 1
              /\ \A i \in 2 .. Len(Nest[s]) : Nest[s][i] = Nest[Outer[s]][i - 1]
<1>1. /\ Nest \in [Scopes -> Seq(Scopes)] /\ Outer \in [Scopes -> Scopes \cup {None}]
      /\ Nest[s] = <<s>> \o (IF Outer[s] = None THEN <<>> ELSE Nest[Outer[s]])
  BY NestsExist, Domains
<1>2. <<s>> \in Seq(Scopes) /\ Len(<<s>>) = 1 /\ <<s>>[1] = s
  OBVIOUS
<1>3. Nest[s] \in Seq(Scopes) /\ Len(Nest[s]) \in Nat /\ DOMAIN Nest[s] = 1 .. Len(Nest[s])
  BY <1>1, LenProperties
<1>4. CASE Outer[s] = None
  <2>1. Nest[s] = <<s>>
    BY <1>1, <1>2, <1>4, ConcatEmptySeq
  <2> QED
    BY <1>2, <1>3, <1>4, <2>1
<1>5. CASE Outer[s] # None
  <2> DEFINE o == Outer[s]
             n == Nest[o]
             m == Nest[s]
  <2>1. o \in Scopes /\ n \in Seq(Scopes) /\ Len(n) \in Nat /\ m = <<s>> \o n
    BY <1>1, <1>5, LenProperties
  <2> HIDE DEF n, m, o
  <2>2. /\ Len(<<s>> \o n) = 1 + Len(n)
        /\ \A i \in 1 .. 1 + Len(n) : (<<s>> \o n)[i] = IF i <= 1 THEN <<s>>[i] ELSE n[i - 1]
    BY <1>2, <2>1, ConcatProperties
  <2>3. Len(m) = Len(n) + 1 /\ m[1] = s
    BY <1>2, <2>1, <2>2
  <2>4. ASSUME NEW i \in 2 .. Len(m) PROVE m[i] = n[i - 1]
    BY <2>1, <2>2, <2>3
  <2>5. /\ m \in Seq(Scopes) /\ Len(m) \in Nat /\ DOMAIN m = 1 .. Len(m) /\ o # None
    BY <1>3, <1>5 DEF m, o
  <2> QED
    BY <2>1, <2>3, <2>4, <2>5 DEF n, m, o
<1> QED
  BY <1>4, <1>5

(* From a scope of a nest on a nest is the nest of that scope.             *)
LEMMA NestTails ==
  ASSUME NEW s \in Scopes, NEW i \in 1 .. Len(Nest[s])
  PROVE  /\ Nest[s][i] \in Scopes /\ Len(Nest[Nest[s][i]]) = Len(Nest[s]) - i + 1
         /\ \A j \in 1 .. Len(Nest[s]) - i + 1 : Nest[Nest[s][i]][j] = Nest[s][i + j - 1]
<1> DEFINE P(t, k) == /\ Nest[t][k] \in Scopes /\ Len(Nest[Nest[t][k]]) = Len(Nest[t]) - k + 1
                      /\ \A j \in 1 .. Len(Nest[t]) - k + 1 : Nest[Nest[t][k]][j] = Nest[t][k + j - 1]
           S == {t \in Scopes : \A k \in 1 .. Len(Nest[t]) : P(t, k)}
<1>1. ASSUME NEW t \in Scopes, Outer[t] # None => Outer[t] \in S PROVE t \in S
  <2>1. SUFFICES ASSUME NEW k \in 1 .. Len(Nest[t]) PROVE P(t, k)
    OBVIOUS
  <2>2. /\ Len(Nest[t]) \in Nat /\ Nest[t][1] = t
        /\ Outer[t] = None => Len(Nest[t]) = 1
        /\ Outer[t] # None =>
             /\ Outer[t] \in Scopes /\ Len(Nest[t]) = Len(Nest[Outer[t]]) + 1
             /\ \A m \in 2 .. Len(Nest[t]) : Nest[t][m] = Nest[Outer[t]][m - 1]
    BY NestFacts
  <2>3. CASE k = 1
    <3>1. Len(Nest[t]) - 1 + 1 = Len(Nest[t]) /\ \A j \in 1 .. Len(Nest[t]) : 1 + j - 1 = j
      BY <2>2
    <3> QED
      BY <2>2, <2>3, <3>1
  <2>4. CASE k # 1
    <3> DEFINE o == Outer[t]
               n == Len(Nest[o])
               u == Nest[t][k]
    <3>0. Outer[t] # None
      <4>1. ASSUME Outer[t] = None PROVE FALSE
        <5>1. Len(Nest[t]) = 1 /\ k \in 1 .. Len(Nest[t])
          BY <2>2, <4>1
        <5>2. k \in 1 .. 1
          BY <5>1
        <5> QED
          BY <2>4, <5>2
      <4> QED
        BY <4>1
    <3>1. /\ o \in S /\ o \in Scopes /\ Len(Nest[t]) = n + 1 /\ n \in Nat
          /\ \A m \in 2 .. n + 1 : Nest[t][m] = Nest[o][m - 1]
      BY <1>1, <2>2, <3>0, NestFacts
    <3>2. k \in 2 .. n + 1 /\ k - 1 \in 1 .. n
      BY <2>1, <2>4, <3>1
    <3>3. P(o, k - 1)
      BY <3>1, <3>2
    <3>4. u = Nest[o][k - 1]
      BY <3>1, <3>2
    <3> HIDE DEF o, n, u
    <3>5. /\ u \in Scopes /\ Len(Nest[u]) = n - (k - 1) + 1
          /\ \A j \in 1 .. n - (k - 1) + 1 : Nest[u][j] = Nest[o][k - 1 + j - 1]
      BY <3>3, <3>4 DEF n
    <3>6. Len(Nest[t]) - k + 1 = n - (k - 1) + 1
      BY <3>1, <3>2
    <3>7. ASSUME NEW j \in 1 .. n - (k - 1) + 1 PROVE Nest[u][j] = Nest[t][k + j - 1]
      <4>1. k + j - 1 \in 2 .. n + 1 /\ k + j - 1 - 1 = k - 1 + j - 1
        BY <3>1, <3>2
      <4> QED
        BY <3>1, <3>5, <4>1
    <3> QED
      BY <3>5, <3>6, <3>7 DEF u
  <2> QED
    BY <2>3, <2>4
<1> HIDE DEF P
<1>2. S = Scopes
  <2>1. S \in SUBSET Scopes
    OBVIOUS
  <2> HIDE DEF S
  <2> QED
    BY <1>1, <2>1, Outwards
<1>3. P(s, i)
  BY <1>2
<1> QED
  BY <1>3 DEF P

(* The scopes around a scope, itself included.                             *)
Chain(s) == ToSet(Nest[s])

(* Where a scope of a nest is.                                             *)
LEMMA NestPositions ==
  ASSUME NEW s \in Scopes
  PROVE  /\ \A i \in 1 .. Len(Nest[s]) : Nest[s][i] \in Chain(s) /\ Pos(Nest[s], Nest[s][i]) = i
         /\ \A t \in Chain(s) : t \in Scopes /\ Pos(Nest[s], t) \in 1 .. Len(Nest[s])
                                 /\ Nest[s][Pos(Nest[s], t)] = t
<1> DEFINE n == Nest[s]
<1>1. Len(n) \in Nat /\ DOMAIN n = 1 .. Len(n)
  BY NestFacts
<1>2. \A i \in 1 .. Len(n) : n[i] \in Scopes /\ Len(Nest[n[i]]) = Len(n) - i + 1
  BY NestTails
<1>3. ASSUME NEW i \in 1 .. Len(n), NEW j \in 1 .. Len(n), n[i] = n[j] PROVE i = j
  <2>1. Len(n) - i + 1 = Len(n) - j + 1
    BY <1>2, <1>3
  <2> QED
    BY <1>1, <2>1
<1> HIDE DEF n
<1>4. Chain(s) = {n[i] : i \in 1 .. Len(n)}
  BY <1>1 DEF Chain, ToSet, n
<1>5. ASSUME NEW i \in 1 .. Len(n) PROVE n[i] \in Chain(s) /\ Pos(n, n[i]) = i
  <2>1. n[i] \in Chain(s)
    BY <1>4
  <2>2. n[i] \in ToSet(n)
    BY <2>1 DEF Chain, n
  <2>3. (CHOOSE j \in DOMAIN n : n[j] = n[i]) = i
    BY <1>1, <1>3
  <2> QED
    BY <2>1, <2>2, <2>3 DEF Pos
<1>6. ASSUME NEW t \in Chain(s)
      PROVE  t \in Scopes /\ Pos(n, t) \in 1 .. Len(n) /\ n[Pos(n, t)] = t
  <2>1. PICK i \in 1 .. Len(n) : t = n[i]
    BY <1>4
  <2> QED
    BY <1>2, <1>5, <2>1
<1> QED
  BY <1>5, <1>6 DEF n

(* The chains of scopes: those of the scopes around a scope are parts of   *)
(* its own, one of two of them around the other.                           *)
LEMMA Chains ==
  ASSUME NEW s \in Scopes
  PROVE  /\ Chain(s) \subseteq Scopes /\ s \in Chain(s)
         /\ Outer[s] # None => Outer[s] \in Chain(s)
         /\ \A t \in Chain(s) : Chain(t) \subseteq Chain(s)
         /\ \A t \in Chain(s) : s \in Chain(t) => t = s
         /\ \A t, u \in Chain(s) : t \in Chain(u) \/ u \in Chain(t)
         /\ \A i \in 1 .. Len(Nest[s]) : \A j \in 1 .. Len(Nest[s]) :
              Nest[s][j] \in Chain(Nest[s][i]) <=> i <= j
<1> DEFINE n == Nest[s]
<1>1. Len(n) \in Nat /\ n[1] = s /\ Len(n) >= 1
  BY NestFacts
<1>2. /\ \A i \in 1 .. Len(n) : n[i] \in Chain(s) /\ Pos(n, n[i]) = i
      /\ \A t \in Chain(s) : t \in Scopes /\ Pos(n, t) \in 1 .. Len(n) /\ n[Pos(n, t)] = t
  BY NestPositions
<1>3. Chain(s) \subseteq Scopes /\ s \in Chain(s)
  BY <1>1, <1>2
<1>4. \A t \in Scopes : Len(Nest[t]) \in Nat /\ \A i \in 1 .. Len(Nest[t]) : Nest[t][i] \in Chain(t)
  BY NestPositions, NestFacts
<1>5. ASSUME NEW i \in 1 .. Len(n), NEW t \in Chain(n[i])
      PROVE  t \in Chain(s) /\ i <= Pos(n, t)
  <2>1. /\ n[i] \in Scopes /\ Len(Nest[n[i]]) = Len(n) - i + 1
        /\ \A j \in 1 .. Len(n) - i + 1 : Nest[n[i]][j] = n[i + j - 1]
    BY NestTails
  <2>2. Pos(Nest[n[i]], t) \in 1 .. Len(Nest[n[i]]) /\ Nest[n[i]][Pos(Nest[n[i]], t)] = t
    BY <2>1, NestPositions
  <2> DEFINE j == Pos(Nest[n[i]], t)
  <2>3. j \in 1 .. Len(n) - i + 1 /\ t = n[i + j - 1]
    BY <2>1, <2>2
  <2> HIDE DEF j, n
  <2>4. i + j - 1 \in 1 .. Len(n) /\ i <= i + j - 1
    BY <1>1, <2>3
  <2> QED
    BY <1>2, <2>3, <2>4
<1>6. ASSUME NEW i \in 1 .. Len(n), NEW j \in 1 .. Len(n), i <= j PROVE n[j] \in Chain(n[i])
  <2>1. /\ n[i] \in Scopes /\ Len(Nest[n[i]]) = Len(n) - i + 1
        /\ \A m \in 1 .. Len(n) - i + 1 : Nest[n[i]][m] = n[i + m - 1]
    BY NestTails
  <2> DEFINE m == j - i + 1
  <2> HIDE DEF n
  <2>2. m \in 1 .. Len(n) - i + 1 /\ i + m - 1 = j
    BY <1>1, <1>6
  <2> HIDE DEF m
  <2>3. Nest[n[i]][m] = n[j]
    BY <2>1, <2>2
  <2> QED
    BY <1>4, <2>1, <2>2, <2>3
<1>7. \A i \in 1 .. Len(n) : \A j \in 1 .. Len(n) : n[j] \in Chain(n[i]) <=> i <= j
  BY <1>2, <1>5, <1>6
<1>8. \A t \in Chain(s) : Chain(t) \subseteq Chain(s)
  BY <1>2, <1>5
<1>9. ASSUME NEW t \in Chain(s), s \in Chain(t) PROVE t = s
  <2>1. Pos(n, t) \in 1 .. Len(n) /\ n[Pos(n, t)] = t /\ n[1] = s /\ 1 \in 1 .. Len(n)
    BY <1>1, <1>2
  <2> HIDE DEF n
  <2>2. Pos(n, t) <= 1
    BY <1>7, <1>9, <2>1
  <2> QED
    BY <2>1, <2>2
<1>10. ASSUME NEW t \in Chain(s), NEW u \in Chain(s) PROVE t \in Chain(u) \/ u \in Chain(t)
  <2>1. /\ Pos(n, t) \in 1 .. Len(n) /\ n[Pos(n, t)] = t
        /\ Pos(n, u) \in 1 .. Len(n) /\ n[Pos(n, u)] = u
    BY <1>2
  <2> HIDE DEF n
  <2>2. Pos(n, t) <= Pos(n, u) \/ Pos(n, u) <= Pos(n, t)
    BY <1>1, <2>1
  <2> QED
    BY <1>7, <2>1, <2>2
<1>11. Outer[s] # None => Outer[s] \in Chain(s)
  <2>1. SUFFICES ASSUME Outer[s] # None PROVE Outer[s] \in Chain(s)
    OBVIOUS
  <2>2. /\ Outer[s] \in Scopes /\ Len(n) = Len(Nest[Outer[s]]) + 1
        /\ \A i \in 2 .. Len(n) : n[i] = Nest[Outer[s]][i - 1]
        /\ Len(Nest[Outer[s]]) >= 1 /\ Nest[Outer[s]][1] = Outer[s] /\ Len(Nest[Outer[s]]) \in Nat
    BY <2>1, NestFacts
  <2>3. 2 \in 2 .. Len(n) /\ 2 \in 1 .. Len(n)
    BY <2>2
  <2>4. n[2] = Outer[s]
    BY <2>2, <2>3
  <2> QED
    BY <1>2, <2>3, <2>4
<1> QED
  BY <1>3, <1>7, <1>8, <1>9, <1>10, <1>11

(* What follows a scope in a nest is the scope around it.                  *)
LEMMA NextOuter ==
  ASSUME NEW s \in Scopes, NEW t \in Chain(s)
  PROVE  At(Nest[s] \o <<None>>, Pos(Nest[s], t) + 1) = Outer[t]
<1> DEFINE n == Nest[s]
           i == Pos(n, t)
           m == n \o <<None>>
<1>1. /\ n \in Seq(Scopes) /\ Len(n) \in Nat /\ i \in 1 .. Len(n) /\ n[i] = t /\ t \in Scopes
  BY NestFacts, NestPositions
<1>2. /\ Len(Nest[t]) = Len(n) - i + 1
      /\ \A j \in 1 .. Len(n) - i + 1 : Nest[t][j] = n[i + j - 1]
  BY <1>1, NestTails
<1>3. /\ Outer[t] = None => Len(Nest[t]) = 1
      /\ Outer[t] # None =>
           /\ Outer[t] \in Scopes /\ Len(Nest[t]) = Len(Nest[Outer[t]]) + 1
           /\ \A j \in 2 .. Len(Nest[t]) : Nest[t][j] = Nest[Outer[t]][j - 1]
  BY <1>1, NestFacts
<1>4. Outer[t] # None =>
        Len(Nest[Outer[t]]) \in Nat /\ Len(Nest[Outer[t]]) >= 1 /\ Nest[Outer[t]][1] = Outer[t]
  BY <1>3, NestFacts
<1> HIDE DEF n, i
<1>5. /\ Len(m) = Len(n) + 1 /\ m \in Seq(Scopes \cup {None})
      /\ \A j \in 1 .. Len(n) + 1 : m[j] = IF j <= Len(n) THEN n[j] ELSE None
  <2>1. n \in Seq(Scopes \cup {None}) /\ <<None>> \in Seq(Scopes \cup {None}) /\ Len(<<None>>) = 1
        /\ <<None>>[1] = None
    BY <1>1
  <2>2. /\ Len(m) = Len(n) + Len(<<None>>) /\ m \in Seq(Scopes \cup {None})
        /\ \A j \in 1 .. Len(n) + Len(<<None>>) : m[j] = IF j <= Len(n) THEN n[j] ELSE <<None>>[j - Len(n)]
    BY <2>1, ConcatProperties
  <2> HIDE DEF m
  <2>3. Len(m) = Len(n) + 1
    BY <2>1, <2>2
  <2>4. ASSUME NEW j \in 1 .. Len(n) + 1 PROVE m[j] = IF j <= Len(n) THEN n[j] ELSE None
    <3>1. j > Len(n) => j - Len(n) = 1
      BY <1>1
    <3> QED
      BY <1>1, <2>1, <2>2, <3>1
  <2> QED
    BY <2>2, <2>3, <2>4
<1>6. DOMAIN m = 1 .. Len(n) + 1
  BY <1>5, LenProperties
<1> HIDE DEF m
<1>7. At(m, i + 1) = IF i < Len(n) THEN n[i + 1] ELSE None
  BY <1>1, <1>5, <1>6 DEF At
<1>8. ASSUME Outer[t] = None PROVE At(m, i + 1) = Outer[t]
  <2>1. Len(n) - i + 1 = 1
    BY <1>2, <1>3, <1>8
  <2>2. ~(i < Len(n))
    BY <1>1, <2>1
  <2> QED
    BY <1>7, <1>8, <2>2
<1>9. ASSUME Outer[t] # None PROVE At(m, i + 1) = Outer[t]
  <2>1. Len(Nest[t]) >= 2 /\ i < Len(n) /\ 2 \in 1 .. Len(n) - i + 1 /\ 2 \in 2 .. Len(Nest[t])
    BY <1>1, <1>2, <1>3, <1>4, <1>9
  <2>2. Nest[t][2] = n[i + 2 - 1] /\ i + 2 - 1 = i + 1
    BY <1>1, <1>2, <2>1
  <2>3. Nest[t][2] = Nest[Outer[t]][2 - 1] /\ 2 - 1 = 1
    BY <1>3, <1>9, <2>1
  <2> QED
    BY <1>4, <1>7, <1>9, <2>1, <2>2, <2>3
<1> QED
  BY <1>8, <1>9 DEF n, i, m

-----------------------------------------------------------------------------
(* The parents stored for known scopes.                                    *)

(* Known scopes are linked to the scopes around them, known too.           *)
Linked(I) ==
  /\ DOMAIN I.scopes \subseteq Scopes
  /\ \A t \in DOMAIN I.scopes : /\ I.scopes[t].parent = Outer[t]
                                /\ Outer[t] # None => Outer[t] \in DOMAIN I.scopes

(* They give the nests of the program.                                     *)
LEMMA StoredNests ==
  ASSUME NEW I, Linked(I), NEW s \in DOMAIN I.scopes
  PROVE  StoredNest(I, s) = Nest[s] /\ Chain(s) \subseteq DOMAIN I.scopes
<1> DEFINE D == DOMAIN I.scopes
           Term(t, g) == <<t>> \o IF I.scopes[t].parent = None THEN <<>> ELSE g[I.scopes[t].parent]
           Right(g) == g = [t \in D |-> Term(t, g)]
           f == [t \in D |-> Nest[t]]
           h == CHOOSE g : Right(g)
<1>1. /\ D \subseteq Scopes
      /\ \A t \in D : /\ I.scopes[t].parent = Outer[t]
                      /\ Outer[t] # None => Outer[t] \in D
  BY DEF Linked
<1>2. \A t \in Scopes : Nest[t] = <<t>> \o (IF Outer[t] = None THEN <<>> ELSE Nest[Outer[t]])
  BY NestsExist
<1>3. Right(f)
  BY <1>1, <1>2
<1>4. Right(h)
  <2> HIDE DEF f, Right
  <2> QED
    BY <1>3
<1>5. StoredNest(I, s) = h[s]
  BY DEF StoredNest
<1> HIDE DEF h
<1>6. \A t \in D : h[t] = Nest[t]
  <2> DEFINE S == {t \in Scopes : t \in D => h[t] = Nest[t]}
  <2>1. ASSUME NEW t \in Scopes, Outer[t] # None => Outer[t] \in S PROVE t \in S
    <3>1. SUFFICES ASSUME t \in D PROVE h[t] = Nest[t]
      OBVIOUS
    <3>2. h[t] = Term(t, h)
      BY <1>4, <3>1
    <3>3. Outer[t] # None => h[Outer[t]] = Nest[Outer[t]]
      BY <1>1, <2>1, <3>1
    <3>4. I.scopes[t].parent = Outer[t]
      BY <1>1, <3>1
    <3> HIDE DEF D, S, Right
    <3>5. h[t] = <<t>> \o IF Outer[t] = None THEN <<>> ELSE h[Outer[t]]
      BY <3>2, <3>4
    <3>6. (IF Outer[t] = None THEN <<>> ELSE h[Outer[t]]) = IF Outer[t] = None THEN <<>> ELSE Nest[Outer[t]]
      BY <3>3
    <3>7. Nest[t] = <<t>> \o IF Outer[t] = None THEN <<>> ELSE Nest[Outer[t]]
      BY <1>2
    <3> QED
      BY <3>5, <3>6, <3>7
  <2>2. S \in SUBSET Scopes
    OBVIOUS
  <2> HIDE DEF S
  <2>3. S = Scopes
    BY <2>1, <2>2, Outwards
  <2> QED
    BY <1>1, <2>3 DEF S
<1>7. Chain(s) \subseteq D
  <2> DEFINE S == {t \in Scopes : t \in D => Chain(t) \subseteq D}
  <2>1. ASSUME NEW t \in Scopes, Outer[t] # None => Outer[t] \in S PROVE t \in S
    <3>1. SUFFICES ASSUME t \in D, NEW u \in Chain(t) PROVE u \in D
      OBVIOUS
    <3>2. /\ Pos(Nest[t], u) \in 1 .. Len(Nest[t]) /\ Nest[t][Pos(Nest[t], u)] = u
          /\ Len(Nest[t]) \in Nat /\ Nest[t][1] = t
          /\ Outer[t] = None => Len(Nest[t]) = 1
          /\ Outer[t] # None =>
               /\ Outer[t] \in Scopes /\ Len(Nest[t]) = Len(Nest[Outer[t]]) + 1
               /\ \A i \in 2 .. Len(Nest[t]) : Nest[t][i] = Nest[Outer[t]][i - 1]
      BY <3>1, NestFacts, NestPositions
    <3> DEFINE i == Pos(Nest[t], u)
    <3>3. CASE i = 1
      BY <3>1, <3>2, <3>3
    <3>4. CASE i # 1
      <4>1. Outer[t] # None
        BY <3>2, <3>4
      <4>2. Outer[t] \in D /\ Chain(Outer[t]) \subseteq D
        BY <1>1, <2>1, <3>1, <4>1
      <4>3. i \in 2 .. Len(Nest[t]) /\ i - 1 \in 1 .. Len(Nest[Outer[t]])
        BY <3>2, <3>4, <4>1, NestFacts
      <4>4. u = Nest[Outer[t]][i - 1]
        BY <3>2, <4>1, <4>3
      <4> QED
        BY <3>2, <4>1, <4>2, <4>3, <4>4, NestPositions
    <3> QED
      BY <3>3, <3>4
  <2>2. S \in SUBSET Scopes
    OBVIOUS
  <2> HIDE DEF S
  <2>3. S = Scopes
    BY <2>1, <2>2, Outwards
  <2> QED
    BY <1>1, <2>3 DEF S
<1> QED
  BY <1>5, <1>6, <1>7

(* A walk outwards from a scope that stops at a scope of its nest meets    *)
(* the scopes inside that one.                                             *)
LEMMA BelowFacts ==
  ASSUME NEW I, Linked(I), NEW s \in DOMAIN I.scopes, NEW p \in Chain(s)
  PROVE  Below(I, s, p) = Chain(s) \ Chain(p)
<1> DEFINE n == Nest[s]
           i == Pos(n, p)
           w == SubSeq(n, 1, i - 1)
<1>0. s \in Scopes
  BY DEF Linked
<1>1. /\ n \in Seq(Scopes) /\ Len(n) \in Nat /\ i \in 1 .. Len(n) /\ n[i] = p
      /\ \A t \in Chain(s) : Pos(n, t) \in 1 .. Len(n) /\ n[Pos(n, t)] = t
      /\ \A j \in 1 .. Len(n) : n[j] \in Chain(s)
      /\ \A k \in 1 .. Len(n) : \A j \in 1 .. Len(n) : n[j] \in Chain(n[k]) <=> k <= j
  BY <1>0, NestFacts, NestPositions, Chains
<1>2. Below(I, s, p) = ToSet(w)
  BY StoredNests DEF Below
<1> HIDE DEF n, i
<1>3. 1 \in Int /\ i - 1 \in Int /\ 1 <= 1 /\ 1 <= i - 1 + 1 /\ i - 1 <= Len(n) /\ i - 1 - 1 + 1 = i - 1
  BY <1>1
<1>4. w \in Seq(Scopes) /\ Len(w) = i - 1 /\ \A j \in 1 .. i - 1 : w[j] = n[1 + j - 1]
  BY <1>1, <1>3, PartFacts
<1>5. DOMAIN w = 1 .. i - 1 /\ \A j \in 1 .. i - 1 : 1 + j - 1 = j /\ j \in 1 .. Len(n) /\ ~(i <= j)
  BY <1>1, <1>4, LenProperties
<1> HIDE DEF w
<1>6. ToSet(w) = {n[j] : j \in 1 .. i - 1}
  BY <1>4, <1>5 DEF ToSet
<1>7. ASSUME NEW t \in ToSet(w) PROVE t \in Chain(s) \ Chain(p)
  <2>1. PICK j \in 1 .. i - 1 : t = n[j]
    BY <1>6
  <2> QED
    BY <1>1, <1>5, <2>1
<1>8. ASSUME NEW t \in Chain(s) \ Chain(p) PROVE t \in ToSet(w)
  <2>1. Pos(n, t) \in 1 .. Len(n) /\ n[Pos(n, t)] = t /\ ~(i <= Pos(n, t))
    BY <1>1
  <2>2. Pos(n, t) \in 1 .. i - 1
    BY <1>1, <2>1
  <2> QED
    BY <1>6, <2>1, <2>2
<1> QED
  BY <1>2, <1>7, <1>8

-----------------------------------------------------------------------------
(* Types, and the invariant.                                               *)

(* The types of the parts of a state.                                      *)
Bound == [begin : Ids, end : Ids \cup {End}]
ArrayMaps == UNION {[A -> Bound] : A \in SUBSET Arrays}
ScopeRecs == [parent : Scopes \cup {None}, begin : Ids, end : Ids \cup {End}, arrays : ArrayMaps]
ScopeMaps == UNION {[S -> ScopeRecs] : S \in SUBSET Scopes}
AccessMaps == UNION {[X -> [array : Arrays, parent : Scopes]] : X \in SUBSET Ids}
Infos == [acc : AccessMaps, pool : Lists, sibs : Lists, scopes : ScopeMaps,
          arrays : ArrayMaps, handles : SUBSET Arrays]

(* The accesses in a scope and to an array.                                *)
In(I, s) == {x \in DOMAIN I.acc : s \in Chain(I.acc[x].parent)}
Of(I, a) == {x \in DOMAIN I.acc : I.acc[x].array = a}

(* The lists have all accesses; scopes and arrays are known when they have *)
(* some, and every range spans what its scope and array have.              *)
GoodLists(I) == ToSet(I.pool) = DOMAIN I.acc /\ ToSet(I.sibs) = DOMAIN I.acc
GoodScopes(I) ==
  /\ DOMAIN I.scopes = {s \in Scopes : In(I, s) # {}}
  /\ \A s \in DOMAIN I.scopes :
       /\ I.scopes[s].parent = Outer[s]
       /\ Spans(I.pool, I.scopes[s].begin, I.scopes[s].end, In(I, s))
GoodArrays(I) ==
  /\ DOMAIN I.arrays = I.handles /\ I.handles = {a \in Arrays : Of(I, a) # {}}
  /\ \A a \in DOMAIN I.arrays :
       Spans(I.sibs, I.arrays[a].begin, I.arrays[a].end, Of(I, a))
GoodWithin(I) ==
  \A s \in DOMAIN I.scopes :
    /\ DOMAIN I.scopes[s].arrays = {a \in Arrays : Of(I, a) \cap In(I, s) # {}}
    /\ \A a \in DOMAIN I.scopes[s].arrays :
         Spans(I.sibs, I.scopes[s].arrays[a].begin, I.scopes[s].arrays[a].end,
               Of(I, a) \cap In(I, s))
Good(I) == I \in Infos /\ GoodLists(I) /\ GoodScopes(I) /\ GoodArrays(I) /\ GoodWithin(I)

(* What remains of it when an erase has not reached the scopes M.          *)
KeptScopes(I, M) ==
  /\ DOMAIN I.scopes \ M = {s \in Scopes : In(I, s) # {}} \ M
  /\ \A s \in DOMAIN I.scopes \ M :
       /\ I.scopes[s].parent = Outer[s]
       /\ Spans(I.pool, I.scopes[s].begin, I.scopes[s].end, In(I, s))
       /\ DOMAIN I.scopes[s].arrays = {a \in Arrays : Of(I, a) \cap In(I, s) # {}}
       /\ \A a \in DOMAIN I.scopes[s].arrays :
            Spans(I.sibs, I.scopes[s].arrays[a].begin, I.scopes[s].arrays[a].end,
                  Of(I, a) \cap In(I, s))
Kept(I, M) == I \in Infos /\ GoodLists(I) /\ GoodArrays(I) /\ KeptScopes(I, M)

(* Every scope reached, nothing is lost.                                   *)
LEMMA KeptAll ==
  ASSUME NEW I
  PROVE  Kept(I, {}) <=> Good(I)
BY DEF Kept, KeptScopes, Good, GoodScopes, GoodWithin

(* What the types of a state say of its parts.                             *)
LEMMA InfoFacts ==
  ASSUME NEW I \in Infos
  PROVE  /\ I.acc \in AccessMaps /\ I.pool \in Lists /\ I.sibs \in Lists
         /\ I.scopes \in ScopeMaps /\ I.arrays \in ArrayMaps /\ I.handles \in SUBSET Arrays
         /\ DOMAIN I.acc \subseteq Ids /\ DOMAIN I.scopes \subseteq Scopes
         /\ DOMAIN I.arrays \subseteq Arrays
         /\ \A y \in DOMAIN I.acc : I.acc[y].array \in Arrays /\ I.acc[y].parent \in Scopes
         /\ \A a \in DOMAIN I.arrays : I.arrays[a] \in Bound
         /\ \A s \in DOMAIN I.scopes :
              /\ I.scopes[s] \in ScopeRecs /\ I.scopes[s].begin \in Ids
              /\ I.scopes[s].end \in Ids \cup {End} /\ I.scopes[s].arrays \in ArrayMaps
              /\ DOMAIN I.scopes[s].arrays \subseteq Arrays
              /\ \A a \in DOMAIN I.scopes[s].arrays : I.scopes[s].arrays[a] \in Bound
<1>1. /\ I.acc \in AccessMaps /\ I.pool \in Lists /\ I.sibs \in Lists
      /\ I.scopes \in ScopeMaps /\ I.arrays \in ArrayMaps /\ I.handles \in SUBSET Arrays
  BY DEF Infos
<1>2. /\ DOMAIN I.acc \subseteq Ids
      /\ \A y \in DOMAIN I.acc : I.acc[y].array \in Arrays /\ I.acc[y].parent \in Scopes
  BY <1>1 DEF AccessMaps
<1>3. \A m \in ArrayMaps : DOMAIN m \subseteq Arrays /\ \A a \in DOMAIN m : m[a] \in Bound
  BY DEF ArrayMaps
<1>4. DOMAIN I.scopes \subseteq Scopes /\ \A s \in DOMAIN I.scopes : I.scopes[s] \in ScopeRecs
  BY <1>1 DEF ScopeMaps
<1>5. \A s \in DOMAIN I.scopes : /\ I.scopes[s].begin \in Ids /\ I.scopes[s].end \in Ids \cup {End}
                                 /\ I.scopes[s].arrays \in ArrayMaps
  BY <1>4 DEF ScopeRecs
<1> QED
  BY <1>1, <1>2, <1>3, <1>4, <1>5

(* The parents stored in a good state are those of the program.            *)
LEMMA GoodLinked ==
  ASSUME NEW I, Good(I)
  PROVE  Linked(I)
<1>1. /\ DOMAIN I.scopes = {s \in Scopes : In(I, s) # {}}
      /\ \A s \in DOMAIN I.scopes : I.scopes[s].parent = Outer[s]
      /\ \A y \in DOMAIN I.acc : I.acc[y].parent \in Scopes
  BY InfoFacts DEF Good, GoodScopes
<1>2. Outer \in [Scopes -> Scopes \cup {None}]
  BY Domains
<1>3. ASSUME NEW t \in DOMAIN I.scopes, Outer[t] # None PROVE Outer[t] \in DOMAIN I.scopes
  <2>1. Outer[t] \in Scopes /\ Outer[t] \in Chain(t)
    BY <1>1, <1>2, <1>3, Chains
  <2>2. PICK y \in DOMAIN I.acc : t \in Chain(I.acc[y].parent)
    BY <1>1 DEF In
  <2>3. Outer[t] \in Chain(I.acc[y].parent)
    BY <1>1, <2>1, <2>2, Chains
  <2> QED
    BY <1>1, <2>1, <2>3 DEF In
<1> QED
  BY <1>1, <1>3 DEF Linked

-----------------------------------------------------------------------------
(* The steps of adding an access, part by part.                            *)

(* The states that differ at most in the part named.                       *)
SameBut(I, J, part) ==
  /\ part # "acc" => J.acc = I.acc
  /\ part # "pool" => J.pool = I.pool
  /\ part # "sibs" => J.sibs = I.sibs
  /\ part # "scopes" => J.scopes = I.scopes
  /\ part # "arrays" => J.arrays = I.arrays
  /\ part # "handles" => J.handles = I.handles

(* Ranges of the pool that end at e end at x.                              *)
LEMMA ShrunkPoolFacts ==
  ASSUME NEW I \in Infos, NEW S, NEW e, NEW x \in Ids
  PROVE  LET J == ShrunkPool(I, S, e, x)
         IN  /\ J \in Infos /\ SameBut(I, J, "scopes") /\ DOMAIN J.scopes = DOMAIN I.scopes
             /\ \A s \in DOMAIN I.scopes :
                  /\ J.scopes[s].parent = I.scopes[s].parent
                  /\ J.scopes[s].begin = I.scopes[s].begin
                  /\ J.scopes[s].end = IF s \in S /\ I.scopes[s].end = e THEN x ELSE I.scopes[s].end
                  /\ J.scopes[s].arrays = I.scopes[s].arrays
<1> DEFINE J == ShrunkPool(I, S, e, x)
           h == [s \in DOMAIN I.scopes |-> IF s \in S /\ I.scopes[s].end = e
                           THEN [I.scopes[s] EXCEPT !.end = x] ELSE I.scopes[s]]
<1>1. /\ DOMAIN I.scopes \subseteq Scopes
      /\ \A s \in DOMAIN I.scopes : I.scopes[s] \in ScopeRecs
  BY InfoFacts
<1>2. J = [I EXCEPT !.scopes = h]
  BY DEF ShrunkPool
<1>3. ASSUME NEW s \in DOMAIN I.scopes
      PROVE  /\ h[s] \in ScopeRecs
             /\ h[s].parent = I.scopes[s].parent
             /\ h[s].begin = I.scopes[s].begin
             /\ h[s].end = IF s \in S /\ I.scopes[s].end = e THEN x ELSE I.scopes[s].end
             /\ h[s].arrays = I.scopes[s].arrays
  BY <1>1 DEF ScopeRecs
<1>4. h \in [DOMAIN I.scopes -> ScopeRecs] /\ DOMAIN h = DOMAIN I.scopes
  BY <1>3
<1> HIDE DEF h
<1>5. h \in ScopeMaps
  BY <1>1, <1>4 DEF ScopeMaps
<1>6. J \in Infos /\ SameBut(I, J, "scopes") /\ J.scopes = h
  BY <1>2, <1>5 DEF Infos, SameBut
<1> QED
  BY <1>3, <1>4, <1>6

(* Ranges of an array in scopes that end at e end at x.                    *)
LEMMA ShrunkArrayFacts ==
  ASSUME NEW I \in Infos, NEW S, NEW a, NEW e, NEW x \in Ids,
         \A s \in DOMAIN I.scopes : s \in S => a \in DOMAIN I.scopes[s].arrays
  PROVE  LET J == ShrunkArray(I, S, a, e, x)
         IN  /\ J \in Infos /\ SameBut(I, J, "scopes") /\ DOMAIN J.scopes = DOMAIN I.scopes
             /\ \A s \in DOMAIN I.scopes :
                  /\ J.scopes[s].parent = I.scopes[s].parent
                  /\ J.scopes[s].begin = I.scopes[s].begin
                  /\ J.scopes[s].end = I.scopes[s].end
                  /\ DOMAIN J.scopes[s].arrays = DOMAIN I.scopes[s].arrays
                  /\ \A b \in DOMAIN I.scopes[s].arrays :
                       /\ J.scopes[s].arrays[b].begin = I.scopes[s].arrays[b].begin
                       /\ J.scopes[s].arrays[b].end =
                            IF s \in S /\ b = a /\ I.scopes[s].arrays[b].end = e THEN x
                            ELSE I.scopes[s].arrays[b].end
<1> DEFINE J == ShrunkArray(I, S, a, e, x)
           h == [s \in DOMAIN I.scopes |-> IF s \in S /\ I.scopes[s].arrays[a].end = e
                           THEN [I.scopes[s] EXCEPT !.arrays[a].end = x] ELSE I.scopes[s]]
<1>1. /\ DOMAIN I.scopes \subseteq Scopes
      /\ \A s \in DOMAIN I.scopes : I.scopes[s] \in ScopeRecs
  BY InfoFacts
<1>2. J = [I EXCEPT !.scopes = h]
  BY DEF ShrunkArray
<1>3. ASSUME NEW s \in DOMAIN I.scopes
      PROVE  /\ h[s] \in ScopeRecs
             /\ h[s].parent = I.scopes[s].parent
             /\ h[s].begin = I.scopes[s].begin
             /\ h[s].end = I.scopes[s].end
             /\ DOMAIN h[s].arrays = DOMAIN I.scopes[s].arrays
             /\ \A b \in DOMAIN I.scopes[s].arrays :
                  /\ h[s].arrays[b].begin = I.scopes[s].arrays[b].begin
                  /\ h[s].arrays[b].end =
                       IF s \in S /\ b = a /\ I.scopes[s].arrays[b].end = e THEN x
                       ELSE I.scopes[s].arrays[b].end
  <2> DEFINE r == I.scopes[s]
             m == r.arrays
             k == [m EXCEPT ![a].end = x]
  <2>1. r \in ScopeRecs /\ m \in ArrayMaps
    BY <1>1 DEF ScopeRecs
  <2>2. CASE s \in S /\ m[a].end = e
    <3>1. a \in DOMAIN m /\ DOMAIN m \subseteq Arrays /\ \A b \in DOMAIN m : m[b] \in Bound
      BY <2>1, <2>2 DEF ArrayMaps
    <3>2. DOMAIN k = DOMAIN m /\ \A b \in DOMAIN m : k[b] = IF b = a THEN [m[b] EXCEPT !.end = x] ELSE m[b]
      BY <3>1
    <3>3. \A b \in DOMAIN m : /\ k[b] \in Bound /\ k[b].begin = m[b].begin
                              /\ k[b].end = IF b = a THEN x ELSE m[b].end
      BY <3>1, <3>2 DEF Bound
    <3>4. k \in [DOMAIN m -> Bound]
      BY <3>2, <3>3
    <3>5. h[s] = [r EXCEPT !.arrays = k]
      BY <2>2
    <3> HIDE DEF k, m, r, h
    <3>6. k \in ArrayMaps
      BY <3>1, <3>4 DEF ArrayMaps
    <3>7. /\ h[s] \in ScopeRecs /\ h[s].arrays = k
          /\ h[s].parent = r.parent /\ h[s].begin = r.begin /\ h[s].end = r.end
      BY <2>1, <3>5, <3>6 DEF ScopeRecs
    <3>8. m = I.scopes[s].arrays /\ r = I.scopes[s]
      BY DEF m, r
    <3> QED
      BY <2>2, <3>2, <3>3, <3>7, <3>8
  <2>3. CASE ~(s \in S /\ m[a].end = e)
    <3>1. h[s] = r
      BY <2>3
    <3> QED
      BY <2>1, <2>3, <3>1
  <2> QED
    BY <2>2, <2>3
<1>4. h \in [DOMAIN I.scopes -> ScopeRecs] /\ DOMAIN h = DOMAIN I.scopes
  BY <1>3
<1> HIDE DEF h
<1>5. h \in ScopeMaps
  BY <1>1, <1>4 DEF ScopeMaps
<1>6. J \in Infos /\ SameBut(I, J, "scopes") /\ J.scopes = h
  BY <1>2, <1>5 DEF Infos, SameBut
<1> QED
  BY <1>3, <1>4, <1>6

(* A map with one more entry.                                              *)
LEMMA PutFacts ==
  ASSUME NEW f \in ArrayMaps, NEW a \in Arrays, NEW v \in Bound
  PROVE  /\ Put(f, a, v) \in ArrayMaps /\ DOMAIN Put(f, a, v) = DOMAIN f \cup {a}
         /\ Put(f, a, v)[a] = v /\ \A b \in DOMAIN f : b # a => Put(f, a, v)[b] = f[b]
<1> DEFINE g == Put(f, a, v)
<1>1. DOMAIN f \subseteq Arrays /\ \A b \in DOMAIN f : f[b] \in Bound
  BY DEF ArrayMaps
<1>2. DOMAIN g = DOMAIN f \cup {a} /\ \A b \in DOMAIN f \cup {a} : g[b] = IF b = a THEN v ELSE f[b]
  BY DEF Put
<1>3. g = [b \in DOMAIN f \cup {a} |-> IF b = a THEN v ELSE f[b]]
  BY DEF Put
<1> HIDE DEF g
<1>4. g \in [DOMAIN f \cup {a} -> Bound]
  BY <1>1, <1>2, <1>3
<1>5. g \in ArrayMaps
  BY <1>1, <1>4 DEF ArrayMaps
<1> QED
  BY <1>2, <1>5 DEF g

(* The map of a new scope.                                                 *)
LEMMA FirstEntry ==
  ASSUME NEW a \in Arrays, NEW v \in Bound
  PROVE  Put(<<>>, a, v) \in ArrayMaps /\ DOMAIN Put(<<>>, a, v) = {a} /\ Put(<<>>, a, v)[a] = v
<1>1. DOMAIN <<>> = {}
  OBVIOUS
<1>2. Put(<<>>, a, v) = [b \in {a} |-> v]
  BY <1>1 DEF Put
<1>3. [b \in {a} |-> v] \in [{a} -> Bound]
  OBVIOUS
<1> QED
  BY <1>2, <1>3 DEF ArrayMaps

(* In J the scopes in S are known too, with ranges of the access x to a.    *)
FirstRanges(I, J, S, x, a, p, q) ==
  /\ J \in Infos /\ SameBut(I, J, "scopes") /\ DOMAIN J.scopes = DOMAIN I.scopes \cup S
  /\ \A s \in DOMAIN I.scopes : J.scopes[s] = I.scopes[s]
  /\ \A s \in S \ DOMAIN I.scopes :
       /\ J.scopes[s].parent = Outer[s]
       /\ J.scopes[s].begin = x /\ J.scopes[s].end = p
       /\ DOMAIN J.scopes[s].arrays = {a}
       /\ J.scopes[s].arrays[a] = [begin |-> x, end |-> q]

(* In L the scopes in V have a range of a, v if they had none.              *)
MoreRanges(K, L, V, a, v) ==
  /\ L \in Infos /\ SameBut(K, L, "scopes") /\ DOMAIN L.scopes = DOMAIN K.scopes
  /\ \A s \in DOMAIN K.scopes :
       /\ L.scopes[s].parent = K.scopes[s].parent
       /\ L.scopes[s].begin = K.scopes[s].begin
       /\ L.scopes[s].end = K.scopes[s].end
       /\ DOMAIN L.scopes[s].arrays =
            DOMAIN K.scopes[s].arrays \cup (IF s \in V THEN {a} ELSE {})
       /\ \A b \in DOMAIN K.scopes[s].arrays :
            L.scopes[s].arrays[b] = K.scopes[s].arrays[b]
       /\ s \in V /\ a \notin DOMAIN K.scopes[s].arrays => L.scopes[s].arrays[a] = v

(* Scopes that are not known yet get ranges of the access x alone.         *)
LEMMA NewScopesFacts ==
  ASSUME NEW I \in Infos, NEW x \in DOMAIN I.acc, NEW s0 \in Scopes, NEW n \in 0 .. Len(Nest[s0]),
         Next1(I.pool, x) \in Ids \cup {End}, Next1(I.sibs, x) \in Ids \cup {End}
  PROVE  FirstRanges(I, NewScopes(I, x, Nest[s0], n), {Nest[s0][i] : i \in 1 .. n},
                     x, I.acc[x].array, Next1(I.pool, x), Next1(I.sibs, x))
<1> DEFINE J == NewScopes(I, x, Nest[s0], n)
           S == {Nest[s0][i] : i \in 1 .. n}
           a == I.acc[x].array
           m == Put(<<>>, a, [begin |-> x, end |-> Next1(I.sibs, x)])
           new(s) == [parent |-> At(Nest[s0] \o <<None>>, Pos(Nest[s0], s) + 1),
                      begin |-> x, end |-> Next1(I.pool, x), arrays |-> m]
           h == [s \in DOMAIN I.scopes \cup S |-> IF s \in DOMAIN I.scopes THEN I.scopes[s] ELSE new(s)]
<1>1. /\ DOMAIN I.scopes \subseteq Scopes /\ \A s \in DOMAIN I.scopes : I.scopes[s] \in ScopeRecs
      /\ a \in Arrays /\ x \in Ids
  BY InfoFacts
<1>2. J = [I EXCEPT !.scopes = h]
  BY DEF NewScopes
<1>3. /\ m \in ArrayMaps /\ DOMAIN m = {a} /\ m[a] = [begin |-> x, end |-> Next1(I.sibs, x)]
  <2>1. [begin |-> x, end |-> Next1(I.sibs, x)] \in Bound
    BY <1>1 DEF Bound
  <2>2. a \in Arrays
    BY <1>1
  <2> HIDE DEF a
  <2> QED
    BY <2>1, <2>2, FirstEntry
<1>4. S \subseteq Scopes /\ \A s \in S : s \in Chain(s0)
  <2>1. Len(Nest[s0]) \in Nat
    BY NestFacts
  <2>2. \A i \in 1 .. n : i \in 1 .. Len(Nest[s0])
    BY <2>1
  <2> QED
    BY <2>2, NestPositions
<1> HIDE DEF m
<1>5. ASSUME NEW s \in S
      PROVE  /\ new(s) \in ScopeRecs /\ new(s).parent = Outer[s] /\ new(s).begin = x
             /\ new(s).end = Next1(I.pool, x) /\ new(s).arrays = m
  <2>1. At(Nest[s0] \o <<None>>, Pos(Nest[s0], s) + 1) = Outer[s]
    BY <1>4, NextOuter
  <2>2. Outer[s] \in Scopes \cup {None}
    BY <1>4, Domains
  <2> QED
    BY <1>1, <1>3, <2>1, <2>2 DEF ScopeRecs
<1> HIDE DEF new, S
<1>6. h \in [DOMAIN I.scopes \cup S -> ScopeRecs]
  BY <1>1, <1>5
<1>7. /\ DOMAIN h = DOMAIN I.scopes \cup S
      /\ \A s \in DOMAIN I.scopes : h[s] = I.scopes[s]
      /\ \A s \in S \ DOMAIN I.scopes : h[s] = new(s)
  OBVIOUS
<1> HIDE DEF h
<1>8. h \in ScopeMaps
  BY <1>1, <1>4, <1>6 DEF ScopeMaps
<1>9. J \in Infos /\ SameBut(I, J, "scopes") /\ J.scopes = h
  BY <1>2, <1>8 DEF Infos, SameBut
<1>10. \A s \in S \ DOMAIN I.scopes :
         /\ J.scopes[s].parent = Outer[s]
         /\ J.scopes[s].begin = x /\ J.scopes[s].end = Next1(I.pool, x)
         /\ DOMAIN J.scopes[s].arrays = {a}
         /\ J.scopes[s].arrays[a] = [begin |-> x, end |-> Next1(I.sibs, x)]
  BY <1>3, <1>5, <1>7, <1>9
<1>11. J \in Infos /\ SameBut(I, J, "scopes") /\ DOMAIN J.scopes = DOMAIN I.scopes \cup S
       /\ \A s \in DOMAIN I.scopes : J.scopes[s] = I.scopes[s]
  BY <1>7, <1>9
<1> QED
  BY <1>10, <1>11 DEF S, FirstRanges

(* Scopes that lack the array a get a range of it.                         *)
LEMMA AddToScopesFacts ==
  ASSUME NEW K \in Infos, NEW V, NEW a \in Arrays, NEW v \in Bound
  PROVE  MoreRanges(K, AddToScopes(K, V, a, v), V, a, v)
<1> DEFINE L == AddToScopes(K, V, a, v)
           h == [s \in DOMAIN K.scopes |->
                   IF s \in V THEN Opened(K.scopes[s], a, v) ELSE K.scopes[s]]
<1>1. /\ DOMAIN K.scopes \subseteq Scopes
      /\ \A s \in DOMAIN K.scopes : K.scopes[s] \in ScopeRecs
  BY InfoFacts
<1>2. L = [K EXCEPT !.scopes = h]
  BY DEF AddToScopes
<1>3. ASSUME NEW s \in DOMAIN K.scopes
      PROVE  /\ h[s] \in ScopeRecs
             /\ h[s].parent = K.scopes[s].parent
             /\ h[s].begin = K.scopes[s].begin
             /\ h[s].end = K.scopes[s].end
             /\ DOMAIN h[s].arrays = DOMAIN K.scopes[s].arrays \cup (IF s \in V THEN {a} ELSE {})
             /\ \A b \in DOMAIN K.scopes[s].arrays : h[s].arrays[b] = K.scopes[s].arrays[b]
             /\ s \in V /\ a \notin DOMAIN K.scopes[s].arrays => h[s].arrays[a] = v
  <2> DEFINE r == K.scopes[s]
             m == r.arrays
             k == TryPut(m, a, v)
  <2>1. r \in ScopeRecs /\ m \in ArrayMaps
    BY <1>1 DEF ScopeRecs
  <2>2. CASE s \in V
    <3>1. /\ k \in ArrayMaps /\ DOMAIN k = DOMAIN m \cup {a}
          /\ \A b \in DOMAIN m : k[b] = m[b]
          /\ a \notin DOMAIN m => k[a] = v
      <4>1. CASE a \in DOMAIN m
        <5>1. k = m
          BY <4>1 DEF TryPut
        <5> QED
          BY <2>1, <4>1, <5>1
      <4>2. CASE a \notin DOMAIN m
        <5>1. k = Put(m, a, v)
          BY <4>2 DEF TryPut
        <5> HIDE DEF k, m
        <5>2. /\ Put(m, a, v) \in ArrayMaps /\ DOMAIN Put(m, a, v) = DOMAIN m \cup {a}
              /\ Put(m, a, v)[a] = v /\ \A b \in DOMAIN m : b # a => Put(m, a, v)[b] = m[b]
          BY <2>1, PutFacts
        <5> QED
          BY <4>2, <5>1, <5>2
      <4> QED
        BY <4>1, <4>2
    <3>2. h[s] = [r EXCEPT !.arrays = k]
      BY <2>2 DEF Opened
    <3> HIDE DEF k, r, h
    <3>3. /\ h[s] \in ScopeRecs /\ h[s].arrays = k
          /\ h[s].parent = r.parent /\ h[s].begin = r.begin /\ h[s].end = r.end
      BY <2>1, <3>1, <3>2 DEF ScopeRecs
    <3>4. r = K.scopes[s]
      BY DEF r
    <3> QED
      BY <2>2, <3>1, <3>3, <3>4
  <2>3. CASE s \notin V
    <3>1. h[s] = r
      BY <2>3
    <3> QED
      BY <2>1, <2>3, <3>1
  <2> QED
    BY <2>2, <2>3
<1>4. h \in [DOMAIN K.scopes -> ScopeRecs] /\ DOMAIN h = DOMAIN K.scopes
  BY <1>3
<1> HIDE DEF h
<1>5. h \in ScopeMaps
  BY <1>1, <1>4 DEF ScopeMaps
<1>6. L \in Infos /\ SameBut(K, L, "scopes") /\ L.scopes = h
  BY <1>2, <1>5 DEF Infos, SameBut
<1> QED
  BY <1>3, <1>4, <1>6 DEF MoreRanges

-----------------------------------------------------------------------------
(* The list of arrays when an access is added.                             *)

(* Scopes hold what the scopes inside them hold.                           *)
LEMMA InFacts ==
  ASSUME NEW I, Good(I)
  PROVE  /\ \A s \in Scopes : \A t \in Chain(s) : In(I, s) \subseteq In(I, t)
         /\ \A y \in DOMAIN I.acc : /\ I.acc[y].parent \in DOMAIN I.scopes
                                    /\ I.acc[y].array \in DOMAIN I.arrays
         /\ \A y \in DOMAIN I.acc : \A s \in Scopes : y \in In(I, s) <=> s \in Chain(I.acc[y].parent)
         /\ \A s \in DOMAIN I.scopes : s \in Scopes
         /\ \A a \in Arrays : \A s \in DOMAIN I.scopes :
              a \in DOMAIN I.scopes[s].arrays <=> Of(I, a) \cap In(I, s) # {}
<1>1. /\ \A y \in DOMAIN I.acc : I.acc[y].array \in Arrays /\ I.acc[y].parent \in Scopes
      /\ DOMAIN I.scopes = {s \in Scopes : In(I, s) # {}}
      /\ DOMAIN I.arrays = {a \in Arrays : Of(I, a) # {}}
      /\ \A s \in DOMAIN I.scopes :
           DOMAIN I.scopes[s].arrays = {a \in Arrays : Of(I, a) \cap In(I, s) # {}}
  BY InfoFacts DEF Good, GoodScopes, GoodArrays, GoodWithin
<1>2. ASSUME NEW s \in Scopes, NEW t \in Chain(s) PROVE In(I, s) \subseteq In(I, t)
  BY <1>1, Chains DEF In
<1>3. ASSUME NEW y \in DOMAIN I.acc
      PROVE  I.acc[y].parent \in DOMAIN I.scopes /\ I.acc[y].array \in DOMAIN I.arrays
  <2>1. y \in In(I, I.acc[y].parent) /\ y \in Of(I, I.acc[y].array)
    BY <1>1, Chains DEF In, Of
  <2> QED
    BY <1>1, <2>1
<1>4. \A y \in DOMAIN I.acc : \A s \in Scopes : y \in In(I, s) <=> s \in Chain(I.acc[y].parent)
  BY DEF In
<1> QED
  BY <1>1, <1>2, <1>3, <1>4

(* The scopes that hold some accesses to the scope h and are inside it.     *)
LEMMA ScopesOfFacts ==
  ASSUME NEW I, Good(I), NEW h \in DOMAIN I.scopes, NEW X \in SUBSET In(I, h),
         NEW L, Linked(L), DOMAIN L.scopes = DOMAIN I.scopes, \A y \in X : L.acc[y] = I.acc[y]
  PROVE  \A s : s \in ScopesOf(L, X, h) <=> \E y \in X : s \in Chain(I.acc[y].parent) \ Chain(h)
<1>1. ASSUME NEW y \in X PROVE Below(L, L.acc[y].parent, h) = Chain(I.acc[y].parent) \ Chain(h)
  <2>1. /\ y \in DOMAIN I.acc /\ h \in Chain(I.acc[y].parent) /\ L.acc[y] = I.acc[y]
        /\ I.acc[y].parent \in DOMAIN L.scopes
    BY InFacts DEF In
  <2>2. Below(L, I.acc[y].parent, h) = Chain(I.acc[y].parent) \ Chain(h)
    BY <2>1, BelowFacts
  <2> QED
    BY <2>1, <2>2
<1>2. ScopesOf(L, X, h) = UNION {Below(L, L.acc[y].parent, h) : y \in X}
  BY DEF ScopesOf
<1> QED
  BY <1>1, <1>2

(* The access is known, but neither a list nor a range has it.             *)
Recorded(I, J, x, a, s0) ==
  /\ J \in Infos /\ J.sibs = I.sibs /\ J.scopes = I.scopes /\ J.arrays = I.arrays
  /\ J.acc = Put(I.acc, x, [array |-> a, parent |-> s0]) /\ J.handles = I.handles \cup {a}

(* A place for an access to the array a in the scope s0: after an access   *)
(* to a, in the scopes of the nest that have some, where other scopes end. *)
SibsPlaced(I, q, a, s0) ==
  /\ q \in Places(I.sibs)
  /\ \A b \in DOMAIN I.arrays : Before(I.sibs, q) \in Of(I, b) <=> b = a
  /\ \A s \in DOMAIN I.scopes : a \in DOMAIN I.scopes[s].arrays =>
       /\ s \in Chain(s0) => Before(I.sibs, q) \in In(I, s)
       /\ s \notin Chain(s0) /\ Before(I.sibs, q) \in In(I, s) => I.scopes[s].arrays[a].end = q

(* The state after x has been inserted there and the ranges that ended     *)
(* there end at x.                                                         *)
ArraysAdded(I, K, x, a, s0, q) ==
  /\ K.sibs = Inserted(I.sibs, q, x)
  /\ DOMAIN K.arrays = DOMAIN I.arrays \cup {a}
  /\ \A b \in DOMAIN I.arrays : K.arrays[b] = I.arrays[b]
  /\ a \notin DOMAIN I.arrays => K.arrays[a] = [begin |-> x, end |-> q]
  /\ DOMAIN K.scopes = DOMAIN I.scopes
  /\ \A s \in DOMAIN I.scopes :
       /\ K.scopes[s].parent = I.scopes[s].parent
       /\ K.scopes[s].begin = I.scopes[s].begin
       /\ K.scopes[s].end = I.scopes[s].end
       /\ DOMAIN K.scopes[s].arrays = DOMAIN I.scopes[s].arrays
       /\ \A b \in DOMAIN I.scopes[s].arrays :
            /\ K.scopes[s].arrays[b].begin = I.scopes[s].arrays[b].begin
            /\ K.scopes[s].arrays[b].end =
                 IF b = a /\ s \notin Chain(s0) /\ I.scopes[s].arrays[b].end = q THEN x
                 ELSE I.scopes[s].arrays[b].end

(* A recorded access changes no other.                                     *)
LEMMA RecordedFacts ==
  ASSUME NEW I, Good(I), NEW x \in Ids \ DOMAIN I.acc, NEW a \in Arrays, NEW s0 \in Scopes,
         NEW J, Recorded(I, J, x, a, s0)
  PROVE  /\ Linked(J) /\ DOMAIN J.acc = DOMAIN I.acc \cup {x}
         /\ \A y \in DOMAIN I.acc : J.acc[y] = I.acc[y]
         /\ J.acc[x].array = a /\ J.acc[x].parent = s0
         /\ I.sibs \in Lists /\ x \notin ToSet(I.sibs) /\ ToSet(I.sibs) = DOMAIN I.acc
<1>1. Linked(I) /\ J.scopes = I.scopes
  BY GoodLinked DEF Recorded
<1>2. J.acc = [y \in DOMAIN I.acc \cup {x} |-> IF y = x THEN [array |-> a, parent |-> s0] ELSE I.acc[y]]
  BY DEF Recorded, Put
<1>3. I.sibs \in Lists /\ ToSet(I.sibs) = DOMAIN I.acc
  BY InfoFacts DEF Good, GoodLists
<1> QED
  BY <1>1, <1>2, <1>3 DEF Linked

(* A place behind the last access to the array, which no known scope of    *)
(* the nest accesses, or in front of all accesses.                         *)
LEMMA ArrayAppended ==
  ASSUME NEW I, Good(I), NEW x \in Ids \ DOMAIN I.acc, NEW a \in Arrays, NEW s0 \in Scopes,
         NEW J, Recorded(I, J, x, a, s0),
         \A s \in DOMAIN I.scopes : s \in Chain(s0) => a \notin DOMAIN I.scopes[s].arrays
  PROVE  LET K == AddToArrayAccesses(J, x, a)
         IN  /\ K \in Infos /\ K.acc = J.acc /\ K.pool = J.pool /\ K.handles = J.handles
             /\ \E q : SibsPlaced(I, q, a, s0) /\ ArraysAdded(I, K, x, a, s0, q)
<1> DEFINE K == AddToArrayAccesses(J, x, a)
<1>1. /\ Linked(J) /\ DOMAIN J.acc = DOMAIN I.acc \cup {x}
      /\ \A y \in DOMAIN I.acc : J.acc[y] = I.acc[y]
      /\ I.sibs \in Lists /\ x \in Ids \ ToSet(I.sibs) /\ ToSet(I.sibs) = DOMAIN I.acc
  BY RecordedFacts
<1>2. J \in Infos /\ J.sibs = I.sibs /\ J.scopes = I.scopes /\ J.arrays = I.arrays
  BY DEF Recorded
<1>3. /\ DOMAIN I.arrays \subseteq Arrays /\ \A b \in DOMAIN I.arrays : I.arrays[b] \in Bound
      /\ I.arrays \in ArrayMaps
  BY InfoFacts DEF Good
<1>4. \A b \in DOMAIN I.arrays : Spans(I.sibs, I.arrays[b].begin, I.arrays[b].end, Of(I, b))
  BY DEF Good, GoodArrays
<1>5. \A s \in DOMAIN I.scopes : s \in Scopes /\ \A b \in DOMAIN I.scopes[s].arrays :
         Spans(I.sibs, I.scopes[s].arrays[b].begin, I.scopes[s].arrays[b].end, Of(I, b) \cap In(I, s))
  BY InFacts DEF Good, GoodWithin
<1>6. CASE a \notin DOMAIN I.arrays
  <2> DEFINE q == At(I.sibs, 1)
  <2>1. <<x>> \o I.sibs = Inserted(I.sibs, q, x) /\ q \in Places(I.sibs) /\ Before(I.sibs, q) = End
    BY <1>1, PushedFront
  <2>2. K = [J EXCEPT !.arrays = Put(I.arrays, a, [begin |-> x, end |-> q]), !.sibs = <<x>> \o I.sibs]
    BY <1>2, <1>6 DEF AddToArrayAccesses
  <2> HIDE DEF q, K
  <2>3. q \in Ids \cup {End} /\ x \in Ids
    BY <1>1, <2>1, Positions DEF Places
  <2>4. [begin |-> x, end |-> q] \in Bound
    BY <2>3 DEF Bound
  <2> DEFINE v == [begin |-> x, end |-> q]
             m == Put(I.arrays, a, v)
  <2>5. /\ m \in ArrayMaps /\ DOMAIN m = DOMAIN I.arrays \cup {a}
        /\ m[a] = v /\ \A b \in DOMAIN I.arrays : b # a => m[b] = I.arrays[b]
    BY <1>3, <2>4, PutFacts
  <2>6. Inserted(I.sibs, q, x) \in Lists
    BY <1>1, <2>1, InsertedFacts
  <2> HIDE DEF m
  <2>7. K \in Infos /\ K.acc = J.acc /\ K.pool = J.pool /\ K.handles = J.handles
        /\ K.arrays = m /\ K.sibs = Inserted(I.sibs, q, x) /\ K.scopes = I.scopes
    BY <1>2, <2>1, <2>2, <2>5, <2>6 DEF Infos, m
  <2>8. ASSUME NEW s \in DOMAIN I.scopes PROVE a \notin DOMAIN I.scopes[s].arrays
    <3>1. Of(I, a) = {}
      BY <1>6 DEF Good, GoodArrays
    <3> QED
      BY <3>1, InFacts
  <2>9. Before(I.sibs, q) \notin DOMAIN I.acc
    BY <1>1, <2>1, Positions
  <2>10. SibsPlaced(I, q, a, s0)
    BY <1>6, <2>1, <2>8, <2>9 DEF SibsPlaced, Of
  <2>11. ArraysAdded(I, K, x, a, s0, q)
    BY <1>6, <2>5, <2>7, <2>8 DEF ArraysAdded
  <2> QED
    BY <2>7, <2>10, <2>11 DEF K
<1>7. CASE a \in DOMAIN I.arrays
  <2> DEFINE q == I.arrays[a].end
             prev == Before(I.sibs, q)
             M == [J EXCEPT !.sibs = Inserted(@, q, x)]
             S == ToSet(StoredNest(J, J.acc[prev].parent))
  <2>1. K = ShrunkArray(M, S, a, q, x)
    BY <1>2, <1>7 DEF AddToArrayAccesses, Before
  <2>2. q \in Places(I.sibs) /\ prev \in Of(I, a) /\ prev \in DOMAIN I.acc
    <3>1. Spans(I.sibs, I.arrays[a].begin, q, Of(I, a))
      BY <1>4, <1>7
    <3> HIDE DEF q
    <3>2. q \in Places(I.sibs)
      BY <3>1 DEF Spans
    <3>3. prev \in Of(I, a)
      BY <1>1, <3>1, <3>2, BeforeSpan
    <3> QED
      BY <3>2, <3>3 DEF Of
  <2> HIDE DEF q, prev, K
  <2>3. Inserted(I.sibs, q, x) \in Lists
    BY <1>1, <2>2, InsertedFacts
  <2>4. /\ M \in Infos /\ M.acc = J.acc /\ M.pool = J.pool /\ M.handles = J.handles
        /\ M.arrays = I.arrays /\ M.sibs = Inserted(I.sibs, q, x) /\ M.scopes = I.scopes
    BY <1>2, <2>3 DEF Infos
  <2>5. S = Chain(I.acc[prev].parent)
    BY <1>1, <1>2, <2>2, InFacts, StoredNests DEF Chain
  <2> HIDE DEF M, S
  <2>6. \A s \in DOMAIN I.scopes : s \in S <=> prev \in In(I, s)
    BY <2>2, <2>5, InFacts
  <2>7. \A s \in DOMAIN I.scopes : s \in S => a \in DOMAIN I.scopes[s].arrays /\ s \notin Chain(s0)
    BY <2>2, <2>6, InFacts
  <2>8. /\ K \in Infos /\ SameBut(M, K, "scopes") /\ DOMAIN K.scopes = DOMAIN I.scopes
        /\ \A s \in DOMAIN I.scopes :
             /\ K.scopes[s].parent = I.scopes[s].parent
             /\ K.scopes[s].begin = I.scopes[s].begin
             /\ K.scopes[s].end = I.scopes[s].end
             /\ DOMAIN K.scopes[s].arrays = DOMAIN I.scopes[s].arrays
             /\ \A b \in DOMAIN I.scopes[s].arrays :
                  /\ K.scopes[s].arrays[b].begin = I.scopes[s].arrays[b].begin
                  /\ K.scopes[s].arrays[b].end =
                       IF s \in S /\ b = a /\ I.scopes[s].arrays[b].end = q THEN x
                       ELSE I.scopes[s].arrays[b].end
    BY <2>1, <2>4, <2>7, ShrunkArrayFacts
  <2>9. K.acc = J.acc /\ K.pool = J.pool /\ K.handles = J.handles
        /\ K.arrays = I.arrays /\ K.sibs = Inserted(I.sibs, q, x)
    BY <2>4, <2>8 DEF SameBut
  <2>10. ASSUME NEW s \in DOMAIN I.scopes, a \in DOMAIN I.scopes[s].arrays
         PROVE  /\ I.scopes[s].arrays[a].end = q => s \in S
                /\ prev \in In(I, s) => I.scopes[s].arrays[a].end = q
    <3>1. Spans(I.sibs, I.scopes[s].arrays[a].begin, I.scopes[s].arrays[a].end, Of(I, a) \cap In(I, s))
      BY <1>5, <2>10
    <3>2. Spans(I.sibs, I.arrays[a].begin, q, Of(I, a))
      BY <1>4, <1>7 DEF q
    <3>3. I.scopes[s].arrays[a].end = q => prev \in Of(I, a) \cap In(I, s)
      BY <1>1, <2>2, <3>1, BeforeSpan DEF prev
    <3>4. prev \in In(I, s) => I.scopes[s].arrays[a].end = q
      BY <1>1, <2>2, <3>1, <3>2, InnerEnd DEF prev
    <3> QED
      BY <2>6, <3>3, <3>4
  <2>11. SibsPlaced(I, q, a, s0)
    <3>1. \A b \in DOMAIN I.arrays : prev \in Of(I, b) <=> b = a
      BY <2>2 DEF Of
    <3>2. \A s \in DOMAIN I.scopes : a \in DOMAIN I.scopes[s].arrays => s \notin Chain(s0)
      OBVIOUS
    <3> QED
      BY <2>2, <2>10, <3>1, <3>2 DEF SibsPlaced, prev
  <2>12. ArraysAdded(I, K, x, a, s0, q)
    <3>1. \A s \in DOMAIN I.scopes : \A b \in DOMAIN I.scopes[s].arrays :
            (s \in S /\ b = a /\ I.scopes[s].arrays[b].end = q)
              <=> (b = a /\ s \notin Chain(s0) /\ I.scopes[s].arrays[b].end = q)
      BY <2>7, <2>10
    <3>2. \A s \in DOMAIN I.scopes : \A b \in DOMAIN I.scopes[s].arrays :
            K.scopes[s].arrays[b].end =
              IF b = a /\ s \notin Chain(s0) /\ I.scopes[s].arrays[b].end = q THEN x
              ELSE I.scopes[s].arrays[b].end
      BY <2>8, <3>1
    <3>3. DOMAIN K.arrays = DOMAIN I.arrays \cup {a}
      BY <1>7, <2>9
    <3> QED
      BY <1>7, <2>8, <2>9, <3>2, <3>3 DEF ArraysAdded
  <2> QED
    BY <2>8, <2>9, <2>11, <2>12 DEF K
<1> QED
  BY <1>6, <1>7

(* A place behind the last access to the array in the innermost scope of   *)
(* the nest that has some.                                                 *)
LEMMA ScopeArrayAppended ==
  ASSUME NEW I, Good(I), NEW x \in Ids \ DOMAIN I.acc, NEW a \in Arrays, NEW s0 \in Scopes,
         NEW J, Recorded(I, J, x, a, s0),
         NEW h \in DOMAIN I.scopes, h \in Chain(s0), a \in DOMAIN I.scopes[h].arrays,
         \A s \in DOMAIN I.scopes :
           s \in Chain(s0) /\ a \in DOMAIN I.scopes[s].arrays => s \in Chain(h)
  PROVE  LET K == AddToScopeArray(J, x, a, h)
         IN  /\ K \in Infos /\ K.acc = J.acc /\ K.pool = J.pool /\ K.handles = J.handles
             /\ \E q : SibsPlaced(I, q, a, s0) /\ ArraysAdded(I, K, x, a, s0, q)
<1> DEFINE K == AddToScopeArray(J, x, a, h)
           q == I.scopes[h].arrays[a].end
           b0 == I.scopes[h].arrays[a].begin
           prev == Before(I.sibs, q)
           M == [J EXCEPT !.sibs = Inserted(@, q, x)]
           X == Of(I, a) \cap In(I, h)
           S == ScopesOf(J, ToSet(Walked(I.sibs, b0, q)), h)
<1>1. /\ Linked(J) /\ DOMAIN J.acc = DOMAIN I.acc \cup {x}
      /\ \A y \in DOMAIN I.acc : J.acc[y] = I.acc[y]
      /\ I.sibs \in Lists /\ x \in Ids \ ToSet(I.sibs) /\ ToSet(I.sibs) = DOMAIN I.acc
  BY RecordedFacts
<1>2. J \in Infos /\ J.sibs = I.sibs /\ J.scopes = I.scopes /\ J.arrays = I.arrays
  BY DEF Recorded
<1>5. \A s \in DOMAIN I.scopes : s \in Scopes /\ \A b \in DOMAIN I.scopes[s].arrays :
         Spans(I.sibs, I.scopes[s].arrays[b].begin, I.scopes[s].arrays[b].end, Of(I, b) \cap In(I, s))
  BY InFacts DEF Good, GoodWithin
<1>6. K = ShrunkArray(M, S, a, q, x)
  BY <1>2 DEF AddToScopeArray
<1>7. Spans(I.sibs, b0, q, X)
  BY <1>5
<1>8. ToSet(Walked(I.sibs, b0, q)) = X /\ q \in Places(I.sibs)
  BY <1>1, <1>7, SpanWalked
<1>9. prev \in X /\ prev \in DOMAIN I.acc
  BY <1>1, <1>7, <1>8, BeforeSpan DEF Of
<1> HIDE DEF K, q, b0, prev
<1>10. Inserted(I.sibs, q, x) \in Lists
  BY <1>1, <1>8, InsertedFacts
<1>11. /\ M \in Infos /\ M.acc = J.acc /\ M.pool = J.pool /\ M.handles = J.handles
       /\ M.arrays = I.arrays /\ M.sibs = Inserted(I.sibs, q, x) /\ M.scopes = I.scopes
  BY <1>2, <1>10 DEF Infos
<1> HIDE DEF M
<1>13. \A s : s \in S <=> \E y \in X : s \in Chain(I.acc[y].parent) \ Chain(h)
  <2>1. X \subseteq In(I, h) /\ \A y \in X : J.acc[y] = I.acc[y]
    BY <1>1 DEF In
  <2> HIDE DEF X
  <2> QED
    BY <1>1, <1>2, <1>8, <2>1, ScopesOfFacts
<1>12. \A y \in X : y \in DOMAIN I.acc
  BY DEF In
<1> HIDE DEF S
<1>14. \A s \in DOMAIN I.scopes : s \in S => a \in DOMAIN I.scopes[s].arrays /\ s \notin Chain(s0)
  <2>1. SUFFICES ASSUME NEW s \in DOMAIN I.scopes, s \in S
                 PROVE  a \in DOMAIN I.scopes[s].arrays /\ s \notin Chain(s0)
    OBVIOUS
  <2>2. PICK y \in X : s \in Chain(I.acc[y].parent) /\ s \notin Chain(h)
    BY <1>13, <2>1
  <2>3. y \in Of(I, a) \cap In(I, s)
    BY <1>5, <1>12, <2>2, InFacts
  <2>4. a \in DOMAIN I.scopes[s].arrays
    BY <2>3, InFacts
  <2> QED
    BY <2>2, <2>4
<1>15. /\ K \in Infos /\ SameBut(M, K, "scopes") /\ DOMAIN K.scopes = DOMAIN I.scopes
       /\ \A s \in DOMAIN I.scopes :
            /\ K.scopes[s].parent = I.scopes[s].parent
            /\ K.scopes[s].begin = I.scopes[s].begin
            /\ K.scopes[s].end = I.scopes[s].end
            /\ DOMAIN K.scopes[s].arrays = DOMAIN I.scopes[s].arrays
            /\ \A b \in DOMAIN I.scopes[s].arrays :
                 /\ K.scopes[s].arrays[b].begin = I.scopes[s].arrays[b].begin
                 /\ K.scopes[s].arrays[b].end =
                      IF s \in S /\ b = a /\ I.scopes[s].arrays[b].end = q THEN x
                      ELSE I.scopes[s].arrays[b].end
  BY <1>6, <1>11, <1>14, ShrunkArrayFacts
<1>16. K.acc = J.acc /\ K.pool = J.pool /\ K.handles = J.handles
       /\ K.arrays = I.arrays /\ K.sibs = Inserted(I.sibs, q, x)
  BY <1>11, <1>15 DEF SameBut
<1>17. h \in Scopes /\ Chain(h) \subseteq Chain(s0) /\ h \in Chain(I.acc[prev].parent)
  BY <1>5, <1>9, Chains, InFacts
<1>18. ASSUME NEW s \in DOMAIN I.scopes, s \notin Chain(s0), prev \in In(I, s)
       PROVE  s \in S /\ h \in Chain(s)
  <2>1. s \in Chain(I.acc[prev].parent) /\ s \notin Chain(h) /\ I.acc[prev].parent \in Scopes
    BY <1>5, <1>9, <1>17, <1>18, InFacts
  <2>2. h \in Chain(s)
    BY <1>17, <2>1, Chains
  <2> QED
    BY <1>9, <1>13, <2>1, <2>2
<1>19. ASSUME NEW s \in DOMAIN I.scopes, a \in DOMAIN I.scopes[s].arrays, s \notin Chain(s0)
       PROVE  /\ I.scopes[s].arrays[a].end = q => s \in S
              /\ prev \in In(I, s) => I.scopes[s].arrays[a].end = q
  <2>1. Spans(I.sibs, I.scopes[s].arrays[a].begin, I.scopes[s].arrays[a].end, Of(I, a) \cap In(I, s))
    BY <1>5, <1>19
  <2>2. I.scopes[s].arrays[a].end = q => prev \in Of(I, a) \cap In(I, s)
    BY <1>1, <1>8, <2>1, BeforeSpan DEF prev
  <2>3. prev \in In(I, s) => Of(I, a) \cap In(I, s) \subseteq X /\ prev \in Of(I, a) \cap In(I, s)
    BY <1>5, <1>9, <1>18, <1>19, InFacts
  <2>4. prev \in In(I, s) => I.scopes[s].arrays[a].end = q
    BY <1>1, <1>7, <1>8, <2>1, <2>3, InnerEnd DEF prev
  <2> QED
    BY <1>18, <1>19, <2>2, <2>4
<1>20. SibsPlaced(I, q, a, s0)
  <2>1. \A b \in DOMAIN I.arrays : prev \in Of(I, b) <=> b = a
    BY <1>9 DEF Of
  <2>2. \A s \in DOMAIN I.scopes : a \in DOMAIN I.scopes[s].arrays /\ s \in Chain(s0) => prev \in In(I, s)
    BY <1>5, <1>9, <1>17, InFacts
  <2> QED
    BY <1>8, <1>19, <2>1, <2>2 DEF SibsPlaced, prev
<1>21. ArraysAdded(I, K, x, a, s0, q)
  <2>1. \A s \in DOMAIN I.scopes : \A b \in DOMAIN I.scopes[s].arrays :
          (s \in S /\ b = a /\ I.scopes[s].arrays[b].end = q)
            <=> (b = a /\ s \notin Chain(s0) /\ I.scopes[s].arrays[b].end = q)
    BY <1>14, <1>19
  <2>2. \A s \in DOMAIN I.scopes : \A b \in DOMAIN I.scopes[s].arrays :
          K.scopes[s].arrays[b].end =
            IF b = a /\ s \notin Chain(s0) /\ I.scopes[s].arrays[b].end = q THEN x
            ELSE I.scopes[s].arrays[b].end
    BY <1>15, <2>1
  <2>3. a \in DOMAIN I.arrays
    BY <1>9, InFacts DEF Of
  <2>4. DOMAIN K.arrays = DOMAIN I.arrays \cup {a}
    BY <1>16, <2>3
  <2> QED
    BY <1>15, <1>16, <2>2, <2>3, <2>4 DEF ArraysAdded
<1> QED
  BY <1>15, <1>16, <1>20, <1>21 DEF K

-----------------------------------------------------------------------------
(* The state when an access has been added.                                *)

(* A place in the pool: after an access in all known scopes of the nest,   *)
(* where other scopes end.                                                 *)
PoolPlaced(I, p, s0) ==
  /\ p \in Places(I.pool)
  /\ \A s \in DOMAIN I.scopes :
       /\ s \in Chain(s0) => Before(I.pool, p) \in In(I, s)
       /\ s \notin Chain(s0) /\ Before(I.pool, p) \in In(I, s) => I.scopes[s].end = p

(* x is in both lists, the ranges that ended there and are not to hold x   *)
(* end at x, and the scopes of the nest know x.                            *)
ScopesAdded(I, J, x, a, s0, p, q) ==
  /\ DOMAIN J.scopes = DOMAIN I.scopes \cup Chain(s0)
  /\ \A s \in DOMAIN I.scopes :
       /\ J.scopes[s].parent = I.scopes[s].parent
       /\ J.scopes[s].begin = I.scopes[s].begin
       /\ J.scopes[s].end = IF s \notin Chain(s0) /\ I.scopes[s].end = p THEN x
                            ELSE I.scopes[s].end
       /\ DOMAIN J.scopes[s].arrays =
            DOMAIN I.scopes[s].arrays \cup (IF s \in Chain(s0) THEN {a} ELSE {})
       /\ \A b \in DOMAIN I.scopes[s].arrays :
            /\ J.scopes[s].arrays[b].begin = I.scopes[s].arrays[b].begin
            /\ J.scopes[s].arrays[b].end =
                 IF b = a /\ s \notin Chain(s0) /\ I.scopes[s].arrays[b].end = q THEN x
                 ELSE I.scopes[s].arrays[b].end
       /\ s \in Chain(s0) /\ a \notin DOMAIN I.scopes[s].arrays =>
            J.scopes[s].arrays[a] = [begin |-> x, end |-> q]
  /\ \A s \in Chain(s0) \ DOMAIN I.scopes :
       /\ J.scopes[s].parent = Outer[s] /\ J.scopes[s].begin = x /\ J.scopes[s].end = p
       /\ DOMAIN J.scopes[s].arrays = {a}
       /\ J.scopes[s].arrays[a] = [begin |-> x, end |-> q]
Assembled(I, J, x, a, s0, p, q) ==
  /\ J \in Infos /\ J.handles = I.handles \cup {a}
  /\ J.acc = Put(I.acc, x, [array |-> a, parent |-> s0])
  /\ J.pool = Inserted(I.pool, p, x) /\ J.sibs = Inserted(I.sibs, q, x)
  /\ DOMAIN J.arrays = DOMAIN I.arrays \cup {a}
  /\ \A b \in DOMAIN I.arrays : J.arrays[b] = I.arrays[b]
  /\ a \notin DOMAIN I.arrays => J.arrays[a] = [begin |-> x, end |-> q]
  /\ ScopesAdded(I, J, x, a, s0, p, q)

(* Then all the ranges are what they should be.                            *)
LEMMA AssembledGood ==
  ASSUME NEW I, Good(I), NEW x \in Ids \ DOMAIN I.acc, NEW a \in Arrays, NEW s0 \in Scopes,
         NEW p, NEW q, PoolPlaced(I, p, s0), SibsPlaced(I, q, a, s0),
         NEW J, Assembled(I, J, x, a, s0, p, q)
  PROVE  Good(J)
<1> DEFINE newp == Inserted(I.pool, p, x)
           newq == Inserted(I.sibs, q, x)
           beforep == Before(I.pool, p)
           beforeq == Before(I.sibs, q)
<1>1. /\ I.pool \in Lists /\ x \in Ids \ ToSet(I.pool) /\ ToSet(I.pool) = DOMAIN I.acc
      /\ I.sibs \in Lists /\ x \in Ids \ ToSet(I.sibs) /\ ToSet(I.sibs) = DOMAIN I.acc
      /\ p \in Places(I.pool) /\ q \in Places(I.sibs)
      /\ DOMAIN I.arrays \subseteq Arrays /\ DOMAIN I.scopes \subseteq Scopes /\ Chain(s0) \subseteq Scopes
      /\ s0 \in Chain(s0)
  BY InfoFacts, Chains DEF Good, GoodLists, PoolPlaced, SibsPlaced
<1>2. /\ newp \in Lists /\ ToSet(newp) = ToSet(I.pool) \cup {x} /\ Spans(newp, x, p, {x})
      /\ newq \in Lists /\ ToSet(newq) = ToSet(I.sibs) \cup {x} /\ Spans(newq, x, q, {x})
  BY <1>1, InsertedFacts, SpanNew
<1>3. /\ J.pool = newp /\ J.sibs = newq /\ J \in Infos
      /\ DOMAIN J.acc = DOMAIN I.acc \cup {x} /\ J.acc[x].array = a /\ J.acc[x].parent = s0
      /\ \A y \in DOMAIN I.acc : J.acc[y] = I.acc[y] /\ y # x
  <2>1. J.acc = [y \in DOMAIN I.acc \cup {x} |-> IF y = x THEN [array |-> a, parent |-> s0] ELSE I.acc[y]]
    BY DEF Assembled, Put
  <2> QED
    BY <2>1 DEF Assembled
<1>4. /\ \A s : In(J, s) = IF s \in Chain(s0) THEN In(I, s) \cup {x} ELSE In(I, s)
      /\ \A b : Of(J, b) = IF b = a THEN Of(I, b) \cup {x} ELSE Of(I, b)
      /\ \A s : x \notin In(I, s)
      /\ \A b : x \notin Of(I, b)
  BY <1>3 DEF In, Of
<1> HIDE DEF newp, newq, beforep, beforeq
<1>5. GoodLists(J)
  BY <1>1, <1>2, <1>3 DEF GoodLists
<1>6. ASSUME NEW b, NEW e, NEW X, Spans(I.pool, b, e, X)
      PROVE  /\ beforep \notin X => Spans(newp, b, e, X)
             /\ beforep \in X => Spans(newp, b, e, X \cup {x})
             /\ e = p => beforep \in X /\ Spans(newp, b, x, X)
  BY <1>1, <1>6, SpanInserted, BeforeSpan DEF newp, beforep
<1>7. ASSUME NEW b, NEW e, NEW X, Spans(I.sibs, b, e, X)
      PROVE  /\ beforeq \notin X => Spans(newq, b, e, X)
             /\ beforeq \in X => Spans(newq, b, e, X \cup {x})
             /\ e = q => beforeq \in X /\ Spans(newq, b, x, X)
  BY <1>1, <1>7, SpanInserted, BeforeSpan DEF newq, beforeq
<1>8. /\ DOMAIN I.scopes = {s \in Scopes : In(I, s) # {}}
      /\ \A s \in DOMAIN I.scopes :
           I.scopes[s].parent = Outer[s] /\ Spans(I.pool, I.scopes[s].begin, I.scopes[s].end, In(I, s))
  BY DEF Good, GoodScopes
<1>9. ScopesAdded(I, J, x, a, s0, p, q)
  BY DEF Assembled
<1>10. GoodScopes(J)
  <2>1. DOMAIN J.scopes = {s \in Scopes : In(J, s) # {}}
    <3>1. DOMAIN J.scopes = DOMAIN I.scopes \cup Chain(s0)
      BY <1>9 DEF ScopesAdded
    <3> QED
      BY <1>1, <1>4, <1>8, <3>1
  <2>2. ASSUME NEW s \in DOMAIN I.scopes
        PROVE  J.scopes[s].parent = Outer[s] /\ Spans(J.pool, J.scopes[s].begin, J.scopes[s].end, In(J, s))
    <3>1. /\ J.scopes[s].parent = I.scopes[s].parent
          /\ J.scopes[s].begin = I.scopes[s].begin
          /\ J.scopes[s].end = IF s \notin Chain(s0) /\ I.scopes[s].end = p THEN x
                               ELSE I.scopes[s].end
      BY <1>9 DEF ScopesAdded
    <3>2. /\ s \in Chain(s0) => beforep \in In(I, s)
          /\ s \notin Chain(s0) /\ beforep \in In(I, s) => I.scopes[s].end = p
      BY DEF PoolPlaced, beforep
    <3> DEFINE b == I.scopes[s].begin
               e == I.scopes[s].end
               X == In(I, s)
    <3>3. Spans(I.pool, b, e, X) /\ I.scopes[s].parent = Outer[s]
      BY <1>8
    <3> HIDE DEF b, e, X
    <3>4. /\ beforep \notin X => Spans(newp, b, e, X)
          /\ beforep \in X => Spans(newp, b, e, X \cup {x})
          /\ e = p => Spans(newp, b, x, X)
      BY <1>6, <3>3
    <3>5. J.scopes[s].begin = b /\ J.scopes[s].end = IF s \notin Chain(s0) /\ e = p THEN x ELSE e
      BY <3>1 DEF b, e
    <3>6. /\ s \in Chain(s0) => beforep \in X /\ In(J, s) = X \cup {x}
          /\ s \notin Chain(s0) => In(J, s) = X /\ (beforep \in X => e = p)
      BY <1>4, <3>2 DEF X, e
    <3>7. Spans(newp, J.scopes[s].begin, J.scopes[s].end, In(J, s))
      <4>1. CASE s \in Chain(s0)
        BY <3>4, <3>5, <3>6, <4>1
      <4>2. CASE s \notin Chain(s0)
        BY <3>4, <3>5, <3>6, <4>2
      <4> QED
        BY <4>1, <4>2
    <3> QED
      BY <1>3, <3>1, <3>3, <3>7
  <2>3. ASSUME NEW s \in Chain(s0) \ DOMAIN I.scopes
        PROVE  J.scopes[s].parent = Outer[s] /\ Spans(J.pool, J.scopes[s].begin, J.scopes[s].end, In(J, s))
    <3>1. In(J, s) = {x}
      BY <1>1, <1>4, <1>8
    <3> QED
      BY <1>2, <1>3, <1>9, <3>1 DEF ScopesAdded
  <2>4. DOMAIN J.scopes = DOMAIN I.scopes \cup Chain(s0)
    BY <1>9 DEF ScopesAdded
  <2> QED
    BY <2>1, <2>2, <2>3, <2>4 DEF GoodScopes
<1>11. /\ DOMAIN I.arrays = I.handles /\ I.handles = {b \in Arrays : Of(I, b) # {}}
       /\ \A b \in DOMAIN I.arrays : Spans(I.sibs, I.arrays[b].begin, I.arrays[b].end, Of(I, b))
  BY DEF Good, GoodArrays
<1>12. GoodArrays(J)
  <2>1. /\ DOMAIN J.arrays = DOMAIN I.arrays \cup {a} /\ J.handles = I.handles \cup {a}
        /\ \A b \in DOMAIN I.arrays : J.arrays[b] = I.arrays[b]
        /\ a \notin DOMAIN I.arrays => J.arrays[a] = [begin |-> x, end |-> q]
    BY DEF Assembled
  <2>2. DOMAIN J.arrays = J.handles /\ J.handles = {b \in Arrays : Of(J, b) # {}}
    BY <1>4, <1>11, <2>1
  <2>3. ASSUME NEW b \in DOMAIN I.arrays
        PROVE  Spans(J.sibs, J.arrays[b].begin, J.arrays[b].end, Of(J, b))
    <3>1. beforeq \in Of(I, b) <=> b = a
      BY DEF SibsPlaced, beforeq
    <3>2. J.arrays[b] = I.arrays[b] /\ Spans(I.sibs, I.arrays[b].begin, I.arrays[b].end, Of(I, b))
      BY <1>11, <2>1
    <3>3. Spans(newq, I.arrays[b].begin, I.arrays[b].end, IF b = a THEN Of(I, b) \cup {x} ELSE Of(I, b))
      BY <1>7, <3>1, <3>2
    <3> QED
      BY <1>3, <1>4, <3>2, <3>3
  <2>4. a \notin DOMAIN I.arrays => Spans(J.sibs, J.arrays[a].begin, J.arrays[a].end, Of(J, a))
    <3>1. a \notin DOMAIN I.arrays => Of(J, a) = {x}
      BY <1>4, <1>11
    <3>2. a \notin DOMAIN I.arrays => J.arrays[a].begin = x /\ J.arrays[a].end = q
      BY <2>1
    <3> QED
      BY <1>2, <1>3, <3>1, <3>2
  <2> QED
    BY <2>1, <2>2, <2>3, <2>4 DEF GoodArrays
<1>13. \A s \in DOMAIN I.scopes :
         /\ DOMAIN I.scopes[s].arrays = {b \in Arrays : Of(I, b) \cap In(I, s) # {}}
         /\ \A b \in DOMAIN I.scopes[s].arrays :
              Spans(I.sibs, I.scopes[s].arrays[b].begin, I.scopes[s].arrays[b].end, Of(I, b) \cap In(I, s))
  BY DEF Good, GoodWithin
<1>14. GoodWithin(J)
  <2> DEFINE Fine(s) ==
        /\ DOMAIN J.scopes[s].arrays = {b \in Arrays : Of(J, b) \cap In(J, s) # {}}
        /\ \A b \in DOMAIN J.scopes[s].arrays :
             Spans(J.sibs, J.scopes[s].arrays[b].begin, J.scopes[s].arrays[b].end, Of(J, b) \cap In(J, s))
  <2>1. ASSUME NEW s \in DOMAIN I.scopes PROVE Fine(s)
    <3>1. /\ DOMAIN J.scopes[s].arrays =
               DOMAIN I.scopes[s].arrays \cup (IF s \in Chain(s0) THEN {a} ELSE {})
          /\ \A b \in DOMAIN I.scopes[s].arrays :
               /\ J.scopes[s].arrays[b].begin = I.scopes[s].arrays[b].begin
               /\ J.scopes[s].arrays[b].end =
                    IF b = a /\ s \notin Chain(s0) /\ I.scopes[s].arrays[b].end = q THEN x
                    ELSE I.scopes[s].arrays[b].end
          /\ s \in Chain(s0) /\ a \notin DOMAIN I.scopes[s].arrays =>
               J.scopes[s].arrays[a] = [begin |-> x, end |-> q]
      BY <1>9 DEF ScopesAdded
    <3>2. \A b : Of(J, b) \cap In(J, s) =
                   IF b = a /\ s \in Chain(s0) THEN (Of(I, b) \cap In(I, s)) \cup {x}
                   ELSE Of(I, b) \cap In(I, s)
      BY <1>4
    <3>3. DOMAIN J.scopes[s].arrays = {b \in Arrays : Of(J, b) \cap In(J, s) # {}}
      BY <1>13, <3>1, <3>2
    <3>4. ASSUME NEW b \in DOMAIN I.scopes[s].arrays
          PROVE  Spans(J.sibs, J.scopes[s].arrays[b].begin, J.scopes[s].arrays[b].end, Of(J, b) \cap In(J, s))
      <4> DEFINE X == Of(I, b) \cap In(I, s)
                 r == I.scopes[s].arrays[b]
      <4>1. Spans(I.sibs, r.begin, r.end, X)
        BY <1>13
      <4>2. b \in DOMAIN I.arrays
        BY <1>11, <1>13
      <4>3. /\ beforeq \in Of(I, b) <=> b = a
            /\ b = a /\ s \in Chain(s0) => beforeq \in In(I, s)
            /\ b = a /\ s \notin Chain(s0) /\ beforeq \in In(I, s) => r.end = q
        BY <4>2 DEF SibsPlaced, beforeq
      <4>4. J.scopes[s].arrays[b].begin = r.begin
            /\ J.scopes[s].arrays[b].end = IF b = a /\ s \notin Chain(s0) /\ r.end = q THEN x ELSE r.end
        BY <3>1
      <4> DEFINE ee == J.scopes[s].arrays[b].end
                 bb == J.scopes[s].arrays[b].begin
      <4>5. beforeq \in X <=> beforeq \in Of(I, b) /\ beforeq \in In(I, s)
        OBVIOUS
      <4> HIDE DEF X, r, ee, bb
      <4>6. CASE b = a /\ s \in Chain(s0)
        <5>1. Spans(newq, r.begin, r.end, X \cup {x})
          BY <1>7, <4>1, <4>3, <4>5, <4>6
        <5> QED
          BY <1>3, <3>2, <4>4, <4>6, <5>1 DEF X
      <4>7. CASE b = a /\ s \notin Chain(s0)
        <5>1. Spans(newq, r.begin, IF r.end = q THEN x ELSE r.end, X)
          BY <1>7, <4>1, <4>3, <4>5, <4>7
        <5> QED
          BY <1>3, <3>2, <4>4, <4>7, <5>1 DEF X
      <4>8. CASE b # a
        <5>1. Spans(newq, r.begin, r.end, X)
          BY <1>7, <4>1, <4>3, <4>5, <4>8
        <5> QED
          BY <1>3, <3>2, <4>4, <4>8, <5>1 DEF X
      <4> QED
        BY <4>6, <4>7, <4>8
    <3>5. ASSUME s \in Chain(s0), a \notin DOMAIN I.scopes[s].arrays
          PROVE  Spans(J.sibs, J.scopes[s].arrays[a].begin, J.scopes[s].arrays[a].end, Of(J, a) \cap In(J, s))
      <4>1. Of(J, a) \cap In(J, s) = {x}
        BY <1>13, <3>2, <3>5
      <4>2. J.scopes[s].arrays[a].begin = x /\ J.scopes[s].arrays[a].end = q
        BY <3>1, <3>5
      <4> QED
        BY <1>2, <1>3, <4>1, <4>2
    <3> QED
      BY <3>1, <3>3, <3>4, <3>5
  <2>2. ASSUME NEW s \in Chain(s0) \ DOMAIN I.scopes PROVE Fine(s)
    <3>1. In(I, s) = {}
      BY <1>1, <1>8
    <3>2. \A b : Of(J, b) \cap In(J, s) = IF b = a THEN {x} ELSE {}
      BY <1>4, <3>1
    <3>3. DOMAIN J.scopes[s].arrays = {a} /\ J.scopes[s].arrays[a] = [begin |-> x, end |-> q]
      BY <1>9 DEF ScopesAdded
    <3>4. J.scopes[s].arrays[a].begin = x /\ J.scopes[s].arrays[a].end = q
      BY <3>3
    <3>5. Of(J, a) \cap In(J, s) = {x} /\ {b \in Arrays : Of(J, b) \cap In(J, s) # {}} = {a}
      BY <3>2
    <3>6. Spans(J.sibs, J.scopes[s].arrays[a].begin, J.scopes[s].arrays[a].end, Of(J, a) \cap In(J, s))
      BY <1>2, <1>3, <3>4, <3>5
    <3> QED
      BY <3>3, <3>5, <3>6
  <2>3. DOMAIN J.scopes = DOMAIN I.scopes \cup Chain(s0)
    BY <1>9 DEF ScopesAdded
  <2> QED
    BY <2>1, <2>2, <2>3 DEF GoodWithin
<1> QED
  BY <1>3, <1>5, <1>10, <1>12, <1>14 DEF Good

(* The scopes of a nest up to a scope of it.                               *)
LEMMA NestPrefix ==
  ASSUME NEW s \in Scopes, NEW i \in 1 .. Len(Nest[s]) + 1
  PROVE  ToSet(SubSeq(Nest[s], 1, i - 1)) = {Nest[s][j] : j \in 1 .. i - 1}
<1> DEFINE n == Nest[s]
           w == SubSeq(n, 1, i - 1)
<1>1. n \in Seq(Scopes) /\ Len(n) \in Nat /\ i \in 1 .. Len(n) + 1
  BY NestFacts
<1> HIDE DEF n
<1>2. 1 \in Int /\ i - 1 \in Int /\ 1 <= 1 /\ 1 <= i - 1 + 1 /\ i - 1 <= Len(n) /\ i - 1 - 1 + 1 = i - 1
  BY <1>1
<1>3. w \in Seq(Scopes) /\ Len(w) = i - 1 /\ \A j \in 1 .. i - 1 : w[j] = n[1 + j - 1]
  BY <1>1, <1>2, PartFacts
<1>4. DOMAIN w = 1 .. i - 1 /\ \A j \in 1 .. i - 1 : 1 + j - 1 = j
  BY <1>3, <1>1, LenProperties
<1> HIDE DEF w
<1>5. ToSet(w) = {n[j] : j \in 1 .. i - 1}
  BY <1>3, <1>4 DEF ToSet
<1> QED
  BY <1>5 DEF w, n

(* No scope of the nest is known: the access is first in the pool.         *)
LEMMA AddNestShape ==
  ASSUME NEW I, Good(I), NEW x \in Ids \ DOMAIN I.acc, NEW a \in Arrays, NEW s0 \in Scopes,
         NEW J, Recorded(I, J, x, a, s0), J.pool = I.pool,
         \A s \in Chain(s0) : s \notin DOMAIN I.scopes
  PROVE  \E p, q : /\ PoolPlaced(I, p, s0) /\ SibsPlaced(I, q, a, s0)
                   /\ Assembled(I, AddNest(J, x, a, Nest[s0]), x, a, s0, p, q)
<1> DEFINE p == At(I.pool, 1)
           J1 == [J EXCEPT !.pool = <<x>> \o @]
           K == AddToArrayAccesses(J1, x, a)
           N == NewScopes(K, x, Nest[s0], Len(Nest[s0]))
<1>1. /\ I.pool \in Lists /\ x \in Ids \ ToSet(I.pool) /\ ToSet(I.pool) = DOMAIN I.acc
      /\ I.sibs \in Lists /\ x \in Ids \ ToSet(I.sibs)
  BY InfoFacts DEF Good, GoodLists
<1>2. <<x>> \o I.pool = Inserted(I.pool, p, x) /\ p \in Places(I.pool) /\ Before(I.pool, p) = End
  BY <1>1, PushedFront
<1> HIDE DEF p
<1>3. /\ Inserted(I.pool, p, x) \in Lists /\ Next1(Inserted(I.pool, p, x), x) = p
      /\ p \in Ids \cup {End}
  BY <1>1, <1>2, InsertedFacts, Positions DEF Places
<1>4. /\ J1 \in Infos /\ J1.acc = J.acc /\ J1.sibs = J.sibs /\ J1.scopes = J.scopes
      /\ J1.arrays = J.arrays /\ J1.handles = J.handles /\ J1.pool = Inserted(I.pool, p, x)
  BY <1>2, <1>3 DEF Recorded, Infos
<1> HIDE DEF J1
<1>5. Recorded(I, J1, x, a, s0)
  BY <1>4 DEF Recorded
<1>6. /\ K \in Infos /\ K.acc = J1.acc /\ K.pool = J1.pool /\ K.handles = J1.handles
      /\ \E q : SibsPlaced(I, q, a, s0) /\ ArraysAdded(I, K, x, a, s0, q)
  BY <1>5, ArrayAppended
<1> HIDE DEF K
<1>7. PICK q : SibsPlaced(I, q, a, s0) /\ ArraysAdded(I, K, x, a, s0, q)
  BY <1>6
<1>8. q \in Places(I.sibs) /\ q \in Ids \cup {End} /\ K.sibs = Inserted(I.sibs, q, x) /\ Next1(K.sibs, x) = q
  BY <1>1, <1>7, InsertedFacts, Positions DEF SibsPlaced, ArraysAdded, Places
<1>9. /\ x \in DOMAIN K.acc /\ K.acc[x].array = a /\ Next1(K.pool, x) = p
      /\ DOMAIN K.scopes = DOMAIN I.scopes
  BY <1>3, <1>4, <1>5, <1>6, <1>7, RecordedFacts DEF ArraysAdded
<1>10. {Nest[s0][i] : i \in 1 .. Len(Nest[s0])} = Chain(s0) /\ Len(Nest[s0]) \in 0 .. Len(Nest[s0])
  BY NestFacts DEF Chain, ToSet
<1>11. /\ N \in Infos /\ SameBut(K, N, "scopes") /\ DOMAIN N.scopes = DOMAIN I.scopes \cup Chain(s0)
       /\ \A s \in DOMAIN I.scopes : N.scopes[s] = K.scopes[s]
       /\ \A s \in Chain(s0) \ DOMAIN I.scopes :
            /\ N.scopes[s].parent = Outer[s]
            /\ N.scopes[s].begin = x /\ N.scopes[s].end = p
            /\ DOMAIN N.scopes[s].arrays = {a}
            /\ N.scopes[s].arrays[a] = [begin |-> x, end |-> q]
  <2>1. p \in Ids \cup {End} /\ q \in Ids \cup {End}
    BY <1>3, <1>8
  <2> DEFINE n == Len(Nest[s0])
             S == {Nest[s0][i] : i \in 1 .. n}
             b == K.acc[x].array
  <2>2. /\ K \in Infos /\ x \in DOMAIN K.acc /\ n \in 0 .. Len(Nest[s0])
        /\ Next1(K.pool, x) \in Ids \cup {End} /\ Next1(K.sibs, x) \in Ids \cup {End}
    BY <1>6, <1>8, <1>9, <1>10, <2>1
  <2>3. N = NewScopes(K, x, Nest[s0], n)
    OBVIOUS
  <2> HIDE DEF N, n
  <2>4. FirstRanges(K, N, S, x, b, Next1(K.pool, x), Next1(K.sibs, x))
    BY <2>2, <2>3, NewScopesFacts
  <2>5. S = Chain(s0) /\ b = a
    BY <1>9, <1>10 DEF n
  <2> HIDE DEF S, b
  <2> QED
    BY <1>8, <1>9, <2>4, <2>5 DEF FirstRanges
<1> HIDE DEF N
<1>12. Before(I.pool, p) \notin DOMAIN I.acc
  BY <1>1, <1>2, Positions
<1>13. PoolPlaced(I, p, s0)
  BY <1>2, <1>12 DEF PoolPlaced, In
<1>14. ASSUME NEW s \in DOMAIN I.scopes PROVE I.scopes[s].end # p
  <2>1. Spans(I.pool, I.scopes[s].begin, I.scopes[s].end, In(I, s))
    BY DEF Good, GoodScopes
  <2> QED
    BY <1>1, <1>2, <1>12, <2>1, BeforeSpan DEF In
<1>15. ScopesAdded(I, N, x, a, s0, p, q)
  BY <1>7, <1>11, <1>14 DEF ScopesAdded, ArraysAdded
<1>16. Assembled(I, N, x, a, s0, p, q)
  <2>1. /\ N.acc = Put(I.acc, x, [array |-> a, parent |-> s0]) /\ N.handles = I.handles \cup {a}
        /\ N.pool = Inserted(I.pool, p, x) /\ N.sibs = Inserted(I.sibs, q, x) /\ N.arrays = K.arrays
    BY <1>4, <1>5, <1>6, <1>8, <1>11 DEF SameBut, Recorded
  <2> QED
    BY <1>7, <1>11, <1>15, <2>1 DEF Assembled, ArraysAdded
<1>17. N = AddNest(J, x, a, Nest[s0])
  BY DEF N, K, J1, AddNest
<1> QED
  BY <1>7, <1>13, <1>16, <1>17

(* The innermost known scope of the nest gets a last access.               *)
LEMMA AddWithinShape ==
  ASSUME NEW I, Good(I), NEW x \in Ids \ DOMAIN I.acc, NEW a \in Arrays, NEW s0 \in Scopes,
         NEW J, Recorded(I, J, x, a, s0), J.pool = I.pool,
         NEW n \in 1 .. Len(Nest[s0]), Nest[s0][n] \in DOMAIN I.scopes,
         \A i \in 1 .. n - 1 : Nest[s0][i] \notin DOMAIN I.scopes
  PROVE  \E p, q : /\ PoolPlaced(I, p, s0) /\ SibsPlaced(I, q, a, s0)
                   /\ Assembled(I, AddWithin(J, x, a, Nest[s0], n), x, a, s0, p, q)
<1> DEFINE o == Nest[s0][n]
           p == I.scopes[o].end
           up == StoredNest(J, o)
           holder == SelectInSeq(up, LAMBDA t : a \in DOMAIN J.scopes[t].arrays)
           visited == IF holder = 0 THEN ToSet(up) ELSE ToSet(SubSeq(up, 1, holder - 1))
           J1 == [J EXCEPT !.pool = Inserted(@, p, x)]
           K == IF holder = 0 THEN AddToArrayAccesses(J1, x, a)
                ELSE AddToScopeArray(J1, x, a, up[holder])
           L == AddToScopes(K, visited, a, [begin |-> x, end |-> Next1(K.sibs, x)])
           before == ToSet(Walked(J.pool, I.scopes[o].begin, p))
           S == ScopesOf(L, before, o)
           M == ShrunkPool(L, S, p, x)
           N == NewScopes(M, x, Nest[s0], n - 1)
<1>0. N = AddWithin(J, x, a, Nest[s0], n)
  BY DEF AddWithin, Recorded
<1>1. /\ I.pool \in Lists /\ x \in Ids \ ToSet(I.pool) /\ ToSet(I.pool) = DOMAIN I.acc
      /\ I.sibs \in Lists /\ x \in Ids \ ToSet(I.sibs) /\ x \in Ids
  BY InfoFacts DEF Good, GoodLists
<1>2. /\ o \in DOMAIN I.scopes /\ o \in Scopes /\ o \in Chain(s0) /\ Chain(o) \subseteq Chain(s0)
      /\ up = Nest[o] /\ Chain(o) \subseteq DOMAIN I.scopes
  <2>1. o \in Chain(s0) /\ o \in Scopes
    BY NestPositions
  <2>2. J.scopes = I.scopes /\ Linked(J)
    BY RecordedFacts DEF Recorded
  <2> QED
    BY <2>1, <2>2, Chains, StoredNests
<1>3. \A s \in Chain(s0) : s \in DOMAIN I.scopes <=> s \in Chain(o)
  <2>1. SUFFICES ASSUME NEW s \in Chain(s0), s \in DOMAIN I.scopes PROVE s \in Chain(o)
    BY <1>2
  <2>2. Pos(Nest[s0], s) \in 1 .. Len(Nest[s0]) /\ Nest[s0][Pos(Nest[s0], s)] = s /\ Len(Nest[s0]) \in Nat
    BY NestPositions, NestFacts
  <2>3. ~(Pos(Nest[s0], s) < n)
    BY <2>1, <2>2
  <2>4. n <= Pos(Nest[s0], s)
    BY <2>2, <2>3
  <2> QED
    BY <2>2, <2>4, Chains
<1>4. \A s \in DOMAIN I.scopes : s \in Scopes /\ Spans(I.pool, I.scopes[s].begin, I.scopes[s].end, In(I, s))
  BY InFacts DEF Good, GoodScopes
<1>5. /\ p \in Places(I.pool) /\ p \in Ids \cup {End} /\ Before(I.pool, p) \in In(I, o)
      /\ before = In(I, o)
  <2>1. Spans(I.pool, I.scopes[o].begin, p, In(I, o))
    BY <1>2, <1>4
  <2> HIDE DEF p
  <2>2. p \in Places(I.pool) /\ before = In(I, o)
    BY <1>1, <2>1, SpanWalked
  <2>3. Before(I.pool, p) \in In(I, o)
    BY <1>1, <2>1, <2>2, BeforeSpan
  <2> QED
    BY <1>1, <2>2, <2>3, Positions DEF Places
<1> DEFINE prev == Before(I.pool, p)
<1>6. /\ Inserted(I.pool, p, x) \in Lists /\ Next1(Inserted(I.pool, p, x), x) = p
  BY <1>1, <1>5, InsertedFacts
<1> HIDE DEF o, p, up, prev
<1>7. /\ J1 \in Infos /\ J1.acc = J.acc /\ J1.sibs = J.sibs /\ J1.scopes = J.scopes
      /\ J1.arrays = J.arrays /\ J1.handles = J.handles /\ J1.pool = Inserted(I.pool, p, x)
  BY <1>6 DEF Recorded, Infos
<1> HIDE DEF J1
<1>8. Recorded(I, J1, x, a, s0)
  BY <1>7 DEF Recorded
<1> DEFINE H == {i \in 1 .. Len(up) : a \in DOMAIN I.scopes[up[i]].arrays}
<1>9. holder = IF H # {} THEN Min(H) ELSE 0
  BY DEF SelectInSeq, Recorded
<1> HIDE DEF holder
<1>10. /\ Len(up) \in Nat /\ \A i \in 1 .. Len(up) : up[i] \in Chain(o)
       /\ \A s \in Chain(o) : Pos(up, s) \in 1 .. Len(up) /\ up[Pos(up, s)] = s
       /\ \A i, j \in 1 .. Len(up) : up[j] \in Chain(up[i]) <=> i <= j
       /\ ToSet(up) = Chain(o)
  BY <1>2, NestPositions, NestFacts, Chains DEF Chain
<1>11. /\ K \in Infos /\ K.acc = J1.acc /\ K.pool = J1.pool /\ K.handles = J1.handles
       /\ \E q : SibsPlaced(I, q, a, s0) /\ ArraysAdded(I, K, x, a, s0, q)
       /\ visited \subseteq Chain(o)
       /\ \A s \in Chain(o) : s \in visited \/ a \in DOMAIN I.scopes[s].arrays
  <2>1. CASE H = {}
    <3>1. K = AddToArrayAccesses(J1, x, a) /\ visited = Chain(o)
      BY <1>9, <1>10, <2>1
    <3>2. \A s \in Chain(o) : a \notin DOMAIN I.scopes[s].arrays
      BY <1>10, <2>1
    <3>3. \A s \in DOMAIN I.scopes : s \in Chain(s0) => a \notin DOMAIN I.scopes[s].arrays
      BY <1>3, <3>2
    <3> HIDE DEF K, visited
    <3> QED
      BY <1>8, <3>1, <3>3, ArrayAppended
  <2>2. CASE H # {}
    <3>1. holder \in H /\ \A i \in H : holder <= i
      BY <1>9, <1>10, <2>2, MinMax
    <3> DEFINE h == up[holder]
    <3>2. /\ K = AddToScopeArray(J1, x, a, h) /\ visited = ToSet(SubSeq(up, 1, holder - 1))
          /\ holder \in 1 .. Len(up)
      BY <3>1
    <3>3. h \in Chain(o) /\ h \in DOMAIN I.scopes /\ h \in Chain(s0) /\ a \in DOMAIN I.scopes[h].arrays
      BY <1>2, <1>10, <3>1
    <3>4. \A s \in DOMAIN I.scopes : s \in Chain(s0) /\ a \in DOMAIN I.scopes[s].arrays => s \in Chain(h)
      <4>1. SUFFICES ASSUME NEW s \in Chain(o), a \in DOMAIN I.scopes[s].arrays PROVE s \in Chain(h)
        BY <1>3
      <4>2. Pos(up, s) \in H /\ up[Pos(up, s)] = s
        BY <1>10, <4>1
      <4> QED
        BY <1>10, <3>1, <4>2
    <3>5. visited = {up[j] : j \in 1 .. holder - 1}
      <4>1. holder \in 1 .. Len(Nest[o]) + 1
        BY <1>2, <1>10, <3>2
      <4>2. o \in Scopes /\ up = Nest[o]
        BY <1>2
      <4> HIDE DEF visited
      <4>3. ToSet(SubSeq(Nest[o], 1, holder - 1)) = {Nest[o][j] : j \in 1 .. holder - 1}
        BY <4>1, <4>2, NestPrefix
      <4> QED
        BY <3>2, <4>2, <4>3
    <3>6. visited \subseteq Chain(o)
      BY <1>10, <3>2, <3>5
    <3>7. \A s \in Chain(o) : s \in visited \/ a \in DOMAIN I.scopes[s].arrays
      <4>1. SUFFICES ASSUME NEW s \in Chain(o), s \notin visited PROVE a \in DOMAIN I.scopes[s].arrays
        OBVIOUS
      <4>2. Pos(up, s) \in 1 .. Len(up) /\ up[Pos(up, s)] = s /\ Pos(up, s) \notin 1 .. holder - 1
        BY <1>10, <3>5, <4>1
      <4>3. s \in Chain(h)
        BY <1>10, <3>2, <4>2
      <4>4. Of(I, a) \cap In(I, h) \subseteq Of(I, a) \cap In(I, s) /\ Of(I, a) \cap In(I, h) # {}
        BY <1>4, <3>3, <4>3, InFacts
      <4> QED
        BY <1>2, <4>4, InFacts
    <3> HIDE DEF K, visited, h
    <3> QED
      BY <1>8, <3>2, <3>3, <3>4, <3>6, <3>7, ScopeArrayAppended
  <2> QED
    BY <2>1, <2>2
<1> HIDE DEF K, visited
<1>12. PICK q : SibsPlaced(I, q, a, s0) /\ ArraysAdded(I, K, x, a, s0, q)
  BY <1>11
<1>13. q \in Places(I.sibs) /\ q \in Ids \cup {End} /\ K.sibs = Inserted(I.sibs, q, x) /\ Next1(K.sibs, x) = q
  BY <1>1, <1>12, InsertedFacts, Positions DEF SibsPlaced, ArraysAdded, Places
<1> DEFINE v == [begin |-> x, end |-> q]
<1>14. /\ L \in Infos /\ SameBut(K, L, "scopes") /\ DOMAIN L.scopes = DOMAIN I.scopes
       /\ \A s \in DOMAIN I.scopes :
            /\ L.scopes[s].parent = K.scopes[s].parent
            /\ L.scopes[s].begin = K.scopes[s].begin
            /\ L.scopes[s].end = K.scopes[s].end
            /\ DOMAIN L.scopes[s].arrays =
                 DOMAIN K.scopes[s].arrays \cup (IF s \in visited THEN {a} ELSE {})
            /\ \A b \in DOMAIN K.scopes[s].arrays : L.scopes[s].arrays[b] = K.scopes[s].arrays[b]
            /\ s \in visited /\ a \notin DOMAIN K.scopes[s].arrays => L.scopes[s].arrays[a] = v
  <2>1. v \in Bound
    BY <1>1, <1>13 DEF Bound
  <2>2. L = AddToScopes(K, visited, a, v)
    BY <1>13
  <2>3. DOMAIN K.scopes = DOMAIN I.scopes
    BY <1>12 DEF ArraysAdded
  <2> HIDE DEF L, v
  <2>4. MoreRanges(K, L, visited, a, v)
    BY <1>11, <2>1, <2>2, AddToScopesFacts
  <2> QED
    BY <2>3, <2>4 DEF MoreRanges
<1> HIDE DEF L
<1>15. \A s \in DOMAIN I.scopes :
         /\ L.scopes[s].parent = I.scopes[s].parent
         /\ L.scopes[s].begin = I.scopes[s].begin
         /\ L.scopes[s].end = I.scopes[s].end
         /\ DOMAIN L.scopes[s].arrays = DOMAIN I.scopes[s].arrays \cup (IF s \in Chain(s0) THEN {a} ELSE {})
         /\ \A b \in DOMAIN I.scopes[s].arrays :
              /\ L.scopes[s].arrays[b].begin = I.scopes[s].arrays[b].begin
              /\ L.scopes[s].arrays[b].end =
                   IF b = a /\ s \notin Chain(s0) /\ I.scopes[s].arrays[b].end = q THEN x
                   ELSE I.scopes[s].arrays[b].end
         /\ s \in Chain(s0) /\ a \notin DOMAIN I.scopes[s].arrays => L.scopes[s].arrays[a] = v
  <2>1. SUFFICES ASSUME NEW s \in DOMAIN I.scopes
                 PROVE  /\ L.scopes[s].parent = I.scopes[s].parent
                        /\ L.scopes[s].begin = I.scopes[s].begin
                        /\ L.scopes[s].end = I.scopes[s].end
                        /\ DOMAIN L.scopes[s].arrays =
                             DOMAIN I.scopes[s].arrays \cup (IF s \in Chain(s0) THEN {a} ELSE {})
                        /\ \A b \in DOMAIN I.scopes[s].arrays :
                             /\ L.scopes[s].arrays[b].begin = I.scopes[s].arrays[b].begin
                             /\ L.scopes[s].arrays[b].end =
                                  IF b = a /\ s \notin Chain(s0) /\ I.scopes[s].arrays[b].end = q THEN x
                                  ELSE I.scopes[s].arrays[b].end
                        /\ s \in Chain(s0) /\ a \notin DOMAIN I.scopes[s].arrays => L.scopes[s].arrays[a] = v
    OBVIOUS
  <2>2. /\ K.scopes[s].parent = I.scopes[s].parent
        /\ K.scopes[s].begin = I.scopes[s].begin
        /\ K.scopes[s].end = I.scopes[s].end
        /\ DOMAIN K.scopes[s].arrays = DOMAIN I.scopes[s].arrays
        /\ \A b \in DOMAIN I.scopes[s].arrays :
             /\ K.scopes[s].arrays[b].begin = I.scopes[s].arrays[b].begin
             /\ K.scopes[s].arrays[b].end =
                  IF b = a /\ s \notin Chain(s0) /\ I.scopes[s].arrays[b].end = q THEN x
                  ELSE I.scopes[s].arrays[b].end
    BY <1>12 DEF ArraysAdded
  <2>3. s \in visited \/ (s \in Chain(s0) => a \in DOMAIN I.scopes[s].arrays)
    BY <1>3, <1>11
  <2>4. s \in visited => s \in Chain(s0)
    BY <1>2, <1>11
  <2>5. DOMAIN L.scopes[s].arrays = DOMAIN I.scopes[s].arrays \cup (IF s \in Chain(s0) THEN {a} ELSE {})
    BY <1>14, <2>2, <2>3, <2>4
  <2> QED
    BY <1>14, <2>2, <2>3, <2>5
<1>16. /\ Linked(L) /\ L.acc = J.acc /\ L.sibs = Inserted(I.sibs, q, x) /\ L.arrays = K.arrays
       /\ L.handles = J.handles /\ L.pool = Inserted(I.pool, p, x)
  <2>1. Linked(I)
    BY GoodLinked
  <2> QED
    BY <1>7, <1>11, <1>13, <1>14, <1>15, <2>1 DEF Linked, SameBut
<1>17. \A s : s \in S <=> \E y \in In(I, o) : s \in Chain(I.acc[y].parent) \ Chain(o)
  <2>1. \A y \in In(I, o) : L.acc[y] = I.acc[y]
    BY <1>16, RecordedFacts DEF In
  <2>2. S = ScopesOf(L, In(I, o), o) /\ DOMAIN L.scopes = DOMAIN I.scopes
    BY <1>5, <1>14
  <2> QED
    BY <1>2, <1>16, <2>1, <2>2, ScopesOfFacts
<1> HIDE DEF S
<1>18. /\ M \in Infos /\ SameBut(L, M, "scopes") /\ DOMAIN M.scopes = DOMAIN I.scopes
       /\ \A s \in DOMAIN I.scopes :
            /\ M.scopes[s].parent = L.scopes[s].parent
            /\ M.scopes[s].begin = L.scopes[s].begin
            /\ M.scopes[s].end = IF s \in S /\ L.scopes[s].end = p THEN x ELSE L.scopes[s].end
            /\ M.scopes[s].arrays = L.scopes[s].arrays
  BY <1>1, <1>14, ShrunkPoolFacts
<1> HIDE DEF M
<1>19. prev \in In(I, o) /\ prev \in DOMAIN I.acc
  BY <1>5 DEF prev, In
<1>20. ASSUME NEW s \in DOMAIN I.scopes, s \notin Chain(s0), prev \in In(I, s)
       PROVE  s \in S /\ I.scopes[s].end = p
  <2>1. /\ s \in Chain(I.acc[prev].parent) /\ o \in Chain(I.acc[prev].parent) /\ s \notin Chain(o)
        /\ I.acc[prev].parent \in Scopes
    BY <1>2, <1>4, <1>19, <1>20, InFacts
  <2>2. o \in Chain(s) /\ s \in S
    BY <1>17, <1>19, <2>1, Chains
  <2>3. In(I, s) \subseteq In(I, o)
    BY <1>4, <2>2, InFacts
  <2>4. /\ Spans(I.pool, I.scopes[s].begin, I.scopes[s].end, In(I, s))
        /\ Spans(I.pool, I.scopes[o].begin, p, In(I, o))
    BY <1>2, <1>4 DEF p
  <2>5. I.scopes[s].end = p
    BY <1>1, <1>5, <1>20, <2>3, <2>4, InnerEnd DEF prev
  <2> QED
    BY <2>2, <2>5
<1>21. ASSUME NEW s \in DOMAIN I.scopes
       PROVE  (s \in S /\ I.scopes[s].end = p) <=> (s \notin Chain(s0) /\ I.scopes[s].end = p)
  <2>1. I.scopes[s].end = p => prev \in In(I, s)
    BY <1>1, <1>4, <1>5, BeforeSpan DEF prev
  <2>2. s \in S => s \notin Chain(s0)
    BY <1>3, <1>17
  <2> QED
    BY <1>20, <2>1, <2>2
<1>22. PoolPlaced(I, p, s0)
  <2>1. ASSUME NEW s \in DOMAIN I.scopes, s \in Chain(s0) PROVE prev \in In(I, s)
    BY <1>2, <1>3, <1>19, <2>1, InFacts
  <2> QED
    BY <1>5, <1>20, <2>1 DEF PoolPlaced, prev
<1> DEFINE T == {Nest[s0][i] : i \in 1 .. n - 1}
<1>23. T = Chain(s0) \ DOMAIN I.scopes
  <2>1. /\ Len(Nest[s0]) \in Nat
        /\ \A s \in Chain(s0) : Pos(Nest[s0], s) \in 1 .. Len(Nest[s0]) /\ Nest[s0][Pos(Nest[s0], s)] = s
        /\ \A i \in 1 .. Len(Nest[s0]) : Nest[s0][i] \in Chain(s0)
    BY NestPositions, NestFacts
  <2>2. ASSUME NEW s \in Chain(s0), s \notin DOMAIN I.scopes PROVE s \in T
    <3>1. s \notin Chain(o)
      BY <1>2, <2>2
    <3>2. ~(n <= Pos(Nest[s0], s))
      BY <2>1, <3>1, Chains DEF o
    <3>3. Pos(Nest[s0], s) \in 1 .. n - 1
      BY <2>1, <3>2
    <3> QED
      BY <2>1, <3>3
  <2>3. ASSUME NEW i \in 1 .. n - 1 PROVE Nest[s0][i] \in Chain(s0) \ DOMAIN I.scopes
    <3>1. i \in 1 .. Len(Nest[s0])
      BY <2>1
    <3> QED
      BY <2>1, <3>1
  <2> QED
    BY <2>2, <2>3
<1>24. /\ x \in DOMAIN M.acc /\ M.acc[x].array = a /\ Next1(M.pool, x) = p /\ Next1(M.sibs, x) = q
       /\ M.acc = J.acc /\ M.pool = Inserted(I.pool, p, x) /\ M.sibs = Inserted(I.sibs, q, x)
       /\ M.arrays = K.arrays /\ M.handles = J.handles
  <2>1. /\ M.acc = J.acc /\ M.pool = Inserted(I.pool, p, x) /\ M.sibs = Inserted(I.sibs, q, x)
        /\ M.arrays = K.arrays /\ M.handles = J.handles
    BY <1>16, <1>18 DEF SameBut
  <2> QED
    BY <1>6, <1>13, <2>1, RecordedFacts
<1>25. /\ N \in Infos /\ SameBut(M, N, "scopes") /\ DOMAIN N.scopes = DOMAIN I.scopes \cup T
       /\ \A s \in DOMAIN I.scopes : N.scopes[s] = M.scopes[s]
       /\ \A s \in T \ DOMAIN I.scopes :
            /\ N.scopes[s].parent = Outer[s]
            /\ N.scopes[s].begin = x /\ N.scopes[s].end = p
            /\ DOMAIN N.scopes[s].arrays = {a}
            /\ N.scopes[s].arrays[a] = v
  <2>1. n - 1 \in 0 .. Len(Nest[s0]) /\ p \in Ids \cup {End} /\ q \in Ids \cup {End}
    BY <1>5, <1>13, NestFacts
  <2> DEFINE m == n - 1
             R == {Nest[s0][i] : i \in 1 .. m}
             b == M.acc[x].array
  <2>2. /\ M \in Infos /\ x \in DOMAIN M.acc /\ m \in 0 .. Len(Nest[s0])
        /\ Next1(M.pool, x) \in Ids \cup {End} /\ Next1(M.sibs, x) \in Ids \cup {End}
    BY <1>18, <1>24, <2>1
  <2>3. N = NewScopes(M, x, Nest[s0], m)
    OBVIOUS
  <2> HIDE DEF N, m
  <2>4. FirstRanges(M, N, R, x, b, Next1(M.pool, x), Next1(M.sibs, x))
    BY <2>2, <2>3, NewScopesFacts
  <2>5. R = T /\ b = a
    BY <1>24 DEF m
  <2> HIDE DEF R, T, b
  <2> QED
    BY <1>18, <1>24, <2>4, <2>5 DEF FirstRanges
<1> HIDE DEF N, T
<1>26. ScopesAdded(I, N, x, a, s0, p, q)
  <2>1. DOMAIN N.scopes = DOMAIN I.scopes \cup Chain(s0)
    BY <1>23, <1>25
  <2>2. ASSUME NEW s \in DOMAIN I.scopes
        PROVE  /\ N.scopes[s].parent = I.scopes[s].parent
               /\ N.scopes[s].begin = I.scopes[s].begin
               /\ N.scopes[s].end = IF s \notin Chain(s0) /\ I.scopes[s].end = p THEN x
                                    ELSE I.scopes[s].end
               /\ N.scopes[s].arrays = L.scopes[s].arrays
    BY <1>15, <1>18, <1>21, <1>25
  <2> QED
    BY <1>15, <1>23, <1>25, <2>1, <2>2 DEF ScopesAdded
<1>27. Assembled(I, N, x, a, s0, p, q)
  <2>1. /\ N.acc = Put(I.acc, x, [array |-> a, parent |-> s0]) /\ N.handles = I.handles \cup {a}
        /\ N.pool = Inserted(I.pool, p, x) /\ N.sibs = Inserted(I.sibs, q, x) /\ N.arrays = K.arrays
    BY <1>24, <1>25 DEF SameBut, Recorded
  <2> QED
    BY <1>12, <1>25, <1>26, <2>1 DEF Assembled, ArraysAdded
<1> QED
  BY <1>0, <1>12, <1>22, <1>27

(* Adding an access records it and keeps the invariant.                    *)
LEMMA AddedGood ==
  ASSUME NEW I, Good(I), NEW x \in Ids \ DOMAIN I.acc, NEW a \in Arrays, NEW s0 \in Scopes
  PROVE  LET J == Added(I, x, a, Nest[s0])
         IN Good(J) /\ J.acc = Put(I.acc, x, [array |-> a, parent |-> s0])
<1> DEFINE r == [array |-> a, parent |-> s0]
           A == Put(I.acc, x, r)
           J == [I EXCEPT !.handles = I.handles \cup {a}, !.acc = A]
           n == Nest[s0]
           known == {i \in DOMAIN n : n[i] \in DOMAIN I.scopes}
           R == Added(I, x, a, n)
<1>1. n[1] = s0 /\ Len(n) \in Nat /\ DOMAIN n = 1 .. Len(n) /\ n \in Seq(Scopes) /\ Chain(s0) = ToSet(n)
  BY NestFacts DEF Chain
<1>2. I \in Infos
  BY DEF Good
<1>3. /\ I.acc \in AccessMaps /\ DOMAIN I.acc \subseteq Ids /\ I.handles \in SUBSET Arrays
      /\ \A y \in DOMAIN I.acc : I.acc[y] \in [array : Arrays, parent : Scopes]
  <2>1. I.acc \in AccessMaps /\ DOMAIN I.acc \subseteq Ids /\ I.handles \in SUBSET Arrays
    BY <1>2, InfoFacts
  <2> QED
    BY <2>1 DEF AccessMaps
<1>4. A \in AccessMaps
  <2>1. r \in [array : Arrays, parent : Scopes]
    OBVIOUS
  <2> HIDE DEF r
  <2>2. A \in [DOMAIN I.acc \cup {x} -> [array : Arrays, parent : Scopes]]
    BY <1>3, <2>1 DEF Put
  <2> QED
    BY <1>3, <2>2 DEF AccessMaps
<1> HIDE DEF r, A, n
<1>5. /\ J \in Infos /\ J.acc = A /\ J.handles = I.handles \cup {a} /\ J.pool = I.pool
      /\ J.sibs = I.sibs /\ J.scopes = I.scopes /\ J.arrays = I.arrays
  BY <1>2, <1>3, <1>4 DEF Infos
<1>6. A = Put(I.acc, x, [array |-> a, parent |-> n[1]])
  BY <1>1 DEF A, r
<1>7. R = IF known = {} THEN AddNest(J, x, a, n) ELSE AddWithin(J, x, a, n, Min(known))
  BY <1>5, <1>6 DEF Added
<1> HIDE DEF J, R
<1>8. Recorded(I, J, x, a, s0)
  BY <1>5 DEF Recorded, A, r
<1>9. \E p, q : PoolPlaced(I, p, s0) /\ SibsPlaced(I, q, a, s0) /\ Assembled(I, R, x, a, s0, p, q)
  <2>1. CASE known = {}
    <3>1. R = AddNest(J, x, a, Nest[s0])
      BY <1>7, <2>1 DEF n
    <3>2. \A s \in Chain(s0) : s \notin DOMAIN I.scopes
      BY <1>1, <2>1 DEF ToSet
    <3> QED
      BY <1>5, <1>8, <3>1, <3>2, AddNestShape
  <2>2. CASE known # {}
    <3> DEFINE m == Min(known)
    <3>1. m \in known /\ \A i \in known : m <= i
      BY <1>1, <2>2, MinMax
    <3>2. R = AddWithin(J, x, a, Nest[s0], m)
      BY <1>7, <2>2 DEF n
    <3> HIDE DEF m
    <3>3. m \in 1 .. Len(Nest[s0]) /\ Nest[s0][m] \in DOMAIN I.scopes
      BY <1>1, <3>1 DEF n
    <3>4. \A i \in 1 .. m - 1 : Nest[s0][i] \notin DOMAIN I.scopes
      BY <1>1, <3>1 DEF n
    <3> QED
      BY <1>5, <1>8, <3>2, <3>3, <3>4, AddWithinShape
  <2> QED
    BY <2>1, <2>2
<1>10. Good(R) /\ R.acc = A
  BY <1>9, AssembledGood DEF Assembled, A, r
<1> QED
  BY <1>10 DEF R, A, r, n

-----------------------------------------------------------------------------
(* Erasing the accesses to an array.                                       *)

(* What is met when the accesses to an array are skipped.                  *)
LEMMA SkippedFacts ==
  ASSUME NEW I, Good(I), NEW v, NEW p \in Places(I.pool), NEW e \in Places(I.pool),
         Pos(I.pool, p) <= Pos(I.pool, e)
  PROVE  LET d == Skipped(I, v, p, e)
         IN  /\ d \in Places(I.pool) /\ Pos(I.pool, p) <= Pos(I.pool, d)
             /\ Pos(I.pool, d) <= Pos(I.pool, e)
             /\ d # e => d \in ToSet(I.pool) \ Of(I, v)
             /\ \A y \in ToSet(I.pool) :
                  Pos(I.pool, p) <= Pos(I.pool, y) /\ Pos(I.pool, y) < Pos(I.pool, d) => y \in Of(I, v)
<1> DEFINE l == I.pool
           w == Walked(l, p, e)
           i == SelectInSeq(w, LAMBDA x : ~IsTo(I, v, x))
           H == {j \in 1 .. Len(w) : ~IsTo(I, v, w[j])}
           d == Skipped(I, v, p, e)
<1>1. l \in Lists /\ ToSet(l) = DOMAIN I.acc
  BY InfoFacts DEF Good, GoodLists
<1>2. /\ Len(l) \in Nat /\ End \notin ToSet(l)
      /\ \A j \in 1 .. Len(l) : l[j] \in ToSet(l) /\ Pos(l, l[j]) = j
      /\ \A x \in ToSet(l) : Pos(l, x) \in 1 .. Len(l) /\ l[Pos(l, x)] = x
      /\ Pos(l, p) \in 1 .. Len(l) + 1 /\ Pos(l, e) \in 1 .. Len(l) + 1
  BY <1>1, Positions, SamePlace
<1>3. \A x \in ToSet(l) : IsTo(I, v, x) <=> x \in Of(I, v)
  BY <1>1, <1>2 DEF IsTo, Of
<1>4. Len(w) = Pos(l, e) - Pos(l, p) /\ \A j \in 1 .. Len(w) : w[j] = l[Pos(l, p) + j - 1]
  BY <1>1, WalkedFacts
<1>5. \A j \in 1 .. Len(w) : w[j] \in ToSet(l) /\ Pos(l, w[j]) = Pos(l, p) + j - 1
  <2>1. \A j \in 1 .. Len(w) : Pos(l, p) + j - 1 \in 1 .. Len(l)
    BY <1>2, <1>4
  <2> QED
    BY <1>2, <1>4, <2>1
<1>6. d = IF i = 0 THEN e ELSE w[i]
  BY DEF Skipped
<1>7. i = IF H # {} THEN Min(H) ELSE 0
  BY DEF SelectInSeq
<1> HIDE DEF w, i, d, l
<1>8. ASSUME NEW y \in ToSet(l), Pos(l, p) <= Pos(l, y), Pos(l, y) < Pos(l, e)
      PROVE  Pos(l, y) - Pos(l, p) + 1 \in 1 .. Len(w) /\ w[Pos(l, y) - Pos(l, p) + 1] = y
  <2> DEFINE j == Pos(l, y) - Pos(l, p) + 1
  <2>1. j \in 1 .. Len(w) /\ Pos(l, p) + j - 1 = Pos(l, y)
    BY <1>2, <1>4, <1>8
  <2> QED
    BY <1>2, <1>4, <2>1
<1>9. CASE H = {}
  <2>1. d = e
    BY <1>6, <1>7, <1>9
  <2>2. \A y \in ToSet(l) : Pos(l, p) <= Pos(l, y) /\ Pos(l, y) < Pos(l, e) => y \in Of(I, v)
    BY <1>3, <1>8, <1>9
  <2> QED
    BY <1>2, <2>1, <2>2 DEF l, d
<1>10. CASE H # {}
  <2>1. i \in H /\ (\A j \in H : i <= j) /\ Len(w) \in Nat
    <3>1. Len(w) \in Nat
      BY <1>2, <1>4
    <3>2. H \in SUBSET (1 .. Len(w))
      OBVIOUS
    <3>3. i = Min(H)
      BY <1>7, <1>10
    <3> HIDE DEF H
    <3> QED
      BY <1>10, <3>1, <3>2, <3>3, MinMax
  <2>2. d = w[i] /\ i \in 1 .. Len(w) /\ ~IsTo(I, v, w[i])
    BY <1>6, <2>1
  <2>3. d \in ToSet(l) \ Of(I, v) /\ Pos(l, d) = Pos(l, p) + i - 1
    BY <1>3, <1>5, <2>2
  <2>4. Pos(l, p) <= Pos(l, d) /\ Pos(l, d) <= Pos(l, e)
    BY <1>2, <1>4, <2>2, <2>3
  <2>5. ASSUME NEW y \in ToSet(l), Pos(l, p) <= Pos(l, y), Pos(l, y) < Pos(l, d)
        PROVE  y \in Of(I, v)
    <3> DEFINE j == Pos(l, y) - Pos(l, p) + 1
    <3>1. Pos(l, y) \in Int /\ Pos(l, p) \in Int /\ Pos(l, d) \in Int /\ Pos(l, e) \in Int
      BY <1>2, <2>3
    <3>2. j \in 1 .. Len(w) /\ w[j] = y
      BY <1>8, <2>4, <2>5, <3>1
    <3>3. j < i
      BY <2>2, <2>3, <2>5, <3>1
    <3>4. j \notin H
      BY <2>1, <2>2, <3>2, <3>3
    <3> QED
      BY <1>3, <3>2, <3>4
  <2> QED
    BY <2>3, <2>4, <2>5 DEF l, d, Places
<1> QED
  BY <1>9, <1>10

(* The ranges of arrays without those of v, when the accesses to v are gone. *)
LEMMA ClosedFacts ==
  ASSUME NEW I, Good(I), NEW v \in I.handles, NEW m \in ArrayMaps,
         NEW k, Thinned(I.sibs, k, Of(I, v))
  PROVE  LET c == Without(Closed(I, v, m), {v})
         IN  /\ c \in ArrayMaps /\ DOMAIN c = DOMAIN m \ {v}
             /\ \A a \in DOMAIN c : \A X \in SUBSET Of(I, a) :
                  m[a] \in Bound /\ Spans(I.sibs, m[a].begin, m[a].end, X)
                    => Spans(k, c[a].begin, c[a].end, X)
<1> DEFINE l == I.sibs
           G == Of(I, v)
           b == I.arrays[v].begin
           ev == I.arrays[v].end
           i == Pos(l, b) - 1
           p == I.acc[l[i]].array
           f == Closed(I, v, m)
           c == Without(f, {v})
<1>1. l \in Lists /\ ToSet(l) = DOMAIN I.acc
  BY InfoFacts DEF Good, GoodLists
<1>2. v \in DOMAIN I.arrays /\ I.arrays[v] \in Bound /\ Spans(l, b, ev, G)
  BY InfoFacts DEF Good, GoodArrays
<1>3. DOMAIN m \subseteq Arrays /\ \A a \in DOMAIN m : m[a] \in Bound
  BY DEF ArrayMaps
<1>4. f = IF i > 0 /\ p \in DOMAIN m /\ IsTo(I, v, m[p].end) THEN [m EXCEPT ![p].end = ev] ELSE m
  BY DEF Closed
<1>5. ev \in Ids \cup {End}
  BY <1>2 DEF Bound
<1> HIDE DEF ev, p, i, f
<1>6. /\ DOMAIN f = DOMAIN m
      /\ \A a \in DOMAIN m :
           /\ f[a] \in Bound /\ f[a].begin = m[a].begin
           /\ f[a].end = IF a = p /\ i > 0 /\ IsTo(I, v, m[a].end) THEN ev ELSE m[a].end
  <2>1. CASE i > 0 /\ p \in DOMAIN m /\ IsTo(I, v, m[p].end)
    <3> DEFINE h == [m EXCEPT ![p].end = ev]
    <3>1. DOMAIN h = DOMAIN m /\ \A a \in DOMAIN m : h[a] = IF a = p THEN [m[a] EXCEPT !.end = ev] ELSE m[a]
      BY <2>1
    <3>2. f = h
      BY <1>4, <2>1
    <3> HIDE DEF h
    <3> QED
      BY <1>3, <1>5, <2>1, <3>1, <3>2 DEF Bound
  <2>2. CASE ~(i > 0 /\ p \in DOMAIN m /\ IsTo(I, v, m[p].end))
    BY <1>3, <1>4, <2>2
  <2> QED
    BY <2>1, <2>2
<1>7. DOMAIN c = DOMAIN m \ {v} /\ \A a \in DOMAIN c : c[a] = f[a]
  BY <1>6 DEF Without
<1>8. c \in ArrayMaps
  <2>1. c \in [DOMAIN m \ {v} -> Bound]
    BY <1>6, <1>7 DEF Without
  <2> HIDE DEF c
  <2> QED
    BY <1>3, <2>1 DEF ArrayMaps
<1> HIDE DEF c
<1>9. ASSUME NEW a \in DOMAIN c, NEW X \in SUBSET Of(I, a), m[a] \in Bound,
             Spans(l, m[a].begin, m[a].end, X)
      PROVE  Spans(k, c[a].begin, c[a].end, X)
  <2> DEFINE e == m[a].end
             d == c[a].end
             bb == m[a].begin
  <2>1. X \ G = X /\ a # v /\ c[a].begin = bb
    BY <1>6, <1>7 DEF Of
  <2>2. bb \in X /\ e \in Places(l) /\ \A y \in X : Pos(l, bb) <= Pos(l, y)
    BY <1>9 DEF Spans
  <2>3. /\ d \in Places(l) \ G /\ Pos(l, e) <= Pos(l, d)
        /\ \A y \in ToSet(l) \ G : Pos(l, e) <= Pos(l, y) => Pos(l, d) <= Pos(l, y)
    <3>1. \A y \in Places(l) : Pos(l, y) \in 1 .. Len(l) + 1
      BY <1>1, SamePlace
    <3>2. Len(l) \in Nat /\ End \notin ToSet(l)
      BY <1>1, Positions
    <3>3. IsTo(I, v, e) <=> e \in G
      BY <1>1, <2>2, <3>2 DEF IsTo, Of, Places
    <3>4. d = IF a = p /\ i > 0 /\ IsTo(I, v, e) THEN ev ELSE e
      BY <1>6, <1>7
    <3> HIDE DEF d, e
    <3>5. CASE e \notin G
      <4>1. d = e
        BY <3>3, <3>4, <3>5
      <4> QED
        BY <2>2, <3>1, <3>2, <3>5, <4>1
    <3>6. CASE e \in G
      <4>1. Before(l, e) \in X /\ Before(l, e) \in ToSet(l) /\ Pos(l, e) > 1
        BY <1>1, <1>9, <2>2, BeforeSpan DEF e
      <4>2. Before(l, e) \notin G
        BY <2>1, <4>1
      <4>3. /\ ev \in Places(l) /\ b \in Places(l) /\ e \in ToSet(l)
            /\ Pos(l, b) <= Pos(l, e) /\ Pos(l, e) < Pos(l, ev)
            /\ \A y \in ToSet(l) : y \in G <=> Pos(l, b) <= Pos(l, y) /\ Pos(l, y) < Pos(l, ev)
        BY <1>2, <3>6 DEF Spans, Places
      <4> HIDE DEF G, b
      <4>4. ~(Pos(l, b) < Pos(l, e))
        BY <1>1, <1>2, <2>2, <3>1, <4>2, <4>3, BeforeSpan
      <4>5. Pos(l, e) = Pos(l, b)
        <5>1. Pos(l, e) \in 1 .. Len(l) + 1 /\ Pos(l, b) \in 1 .. Len(l) + 1
          BY <2>2, <3>1, <4>3
        <5> QED
          BY <3>2, <4>3, <4>4, <5>1
      <4>6. i > 0 /\ l[i] = Before(l, e) /\ i \in 1 .. Len(l)
        <5>1. i = Pos(l, e) - 1 /\ Pos(l, e) \in 1 .. Len(l) + 1
          BY <2>2, <3>1, <4>5 DEF i
        <5>2. i \in 1 .. Len(l)
          BY <3>2, <4>1, <5>1
        <5>3. i \in DOMAIN l
          BY <1>1, <5>2, Positions
        <5> QED
          BY <5>1, <5>2, <5>3 DEF Before, At
      <4>7. p = a
        BY <4>1, <4>6 DEF p, Of
      <4>8. d = ev
        BY <3>3, <3>4, <3>6, <4>6, <4>7
      <4>9. ev \notin G
        <5>1. ev \in ToSet(l) => ev \notin G
          BY <3>1, <3>2, <4>3
        <5>2. G \subseteq ToSet(l)
          BY <1>1 DEF G, Of
        <5> QED
          BY <5>1, <5>2
      <4>10. \A y \in ToSet(l) \ G : Pos(l, e) <= Pos(l, y) => Pos(l, ev) <= Pos(l, y)
        BY <3>1, <3>2, <4>3, <4>5 DEF Places
      <4> QED
        <5>1. Pos(l, e) \in 1 .. Len(l) + 1 /\ Pos(l, ev) \in 1 .. Len(l) + 1
          BY <2>2, <3>1, <4>3
        <5>2. Pos(l, e) <= Pos(l, ev)
          BY <3>2, <4>3, <5>1
        <5> QED
          BY <4>3, <4>8, <4>9, <4>10, <5>2
    <3> QED
      BY <3>5, <3>6
  <2> HIDE DEF d, e, bb, G
  <2>4. Spans(l, bb, e, X)
    BY <1>9 DEF bb, e
  <2>5. Thinned(l, k, G)
    BY DEF G
  <2>6. bb \in X \ G /\ \A y \in X \ G : Pos(l, bb) <= Pos(l, y)
    BY <2>1, <2>2
  <2>7. Spans(k, bb, d, X \ G)
    BY <1>1, <2>3, <2>4, <2>5, <2>6, SpanThinned
  <2> QED
    BY <2>1, <2>7 DEF d
<1> QED
  BY <1>7, <1>8, <1>9 DEF c, f

(* A scope with an access to another array is not emptied.                 *)
LEMMA NotEmptied ==
  ASSUME NEW I, Good(I), NEW v, NEW s \in DOMAIN I.scopes, NEW y \in In(I, s), y \notin Of(I, v)
  PROVE  s \notin Emptied(I, v)
<1> DEFINE l == I.pool
           b == I.scopes[s].begin
           e == I.scopes[s].end
           X == In(I, s)
<1>2. l \in Lists /\ Spans(l, b, e, X)
  BY InfoFacts DEF Good, GoodScopes
<1>4. b \in Places(l) /\ e \in Places(l) /\ Pos(l, b) < Pos(l, e)
  BY <1>2, SpanWalked
<1>5. y \in ToSet(l) /\ Pos(l, b) <= Pos(l, y) /\ Pos(l, y) < Pos(l, e)
  BY <1>2 DEF Spans
<1>6. Pos(l, b) <= Pos(l, e)
  <2>1. Len(l) \in Nat /\ Pos(l, b) \in 1 .. Len(l) + 1 /\ Pos(l, e) \in 1 .. Len(l) + 1
    BY <1>2, <1>4, Positions, SamePlace
  <2> QED
    BY <1>4, <2>1
<1>7. Skipped(I, v, b, e) # e
  <2> HIDE DEF b, e, X
  <2> QED
    BY <1>4, <1>5, <1>6, SkippedFacts
<1> QED
  BY <1>7 DEF Emptied

(* A scope that keeps some accesses keeps exact bounds in the pool.         *)
LEMMA TrimmedSpan ==
  ASSUME NEW I, Good(I), NEW v, NEW s \in DOMAIN I.scopes \ Emptied(I, v),
         NEW k, Thinned(I.pool, k, Of(I, v))
  PROVE  LET c == Skipped(I, v, I.scopes[s].begin, I.scopes[s].end)
             d == Skipped(I, v, I.scopes[s].end, End)
         IN  c \in Ids /\ d \in Ids \cup {End} /\ Spans(k, c, d, In(I, s) \ Of(I, v))
<1> DEFINE l == I.pool
           G == Of(I, v)
           X == In(I, s)
           b == I.scopes[s].begin
           e == I.scopes[s].end
           c == Skipped(I, v, b, e)
           d == Skipped(I, v, e, End)
<1>1. l \in Lists /\ ToSet(l) = DOMAIN I.acc /\ Spans(l, b, e, X) /\ c # e
  BY InfoFacts DEF Good, GoodLists, GoodScopes, Emptied
<1>2. /\ Len(l) \in Nat /\ End \notin ToSet(l) /\ Pos(l, End) = Len(l) + 1 /\ ToSet(l) \subseteq Ids
      /\ \A y \in Places(l) : Pos(l, y) \in 1 .. Len(l) + 1
      /\ End \in Places(l) /\ ToSet(l) \subseteq Places(l) /\ Places(l) \subseteq Ids \cup {End}
  BY <1>1, Positions, SamePlace DEF Places
<1>3. /\ b \in Places(l) /\ e \in Places(l) /\ Pos(l, b) < Pos(l, e)
      /\ \A y \in ToSet(l) : y \in X <=> Pos(l, b) <= Pos(l, y) /\ Pos(l, y) < Pos(l, e)
  BY <1>1, SpanWalked DEF Spans
<1> HIDE DEF b, e, X
<1>4. Pos(l, b) <= Pos(l, e) /\ Pos(l, e) <= Pos(l, End)
  BY <1>2, <1>3
<1>5. /\ c \in ToSet(l) \ G /\ Pos(l, b) <= Pos(l, c) /\ Pos(l, c) <= Pos(l, e)
      /\ \A y \in ToSet(l) : Pos(l, b) <= Pos(l, y) /\ Pos(l, y) < Pos(l, c) => y \in G
  BY <1>1, <1>3, <1>4, SkippedFacts
<1>6. /\ d \in Places(l) /\ Pos(l, e) <= Pos(l, d) /\ (d # End => d \notin G)
      /\ \A y \in ToSet(l) : Pos(l, e) <= Pos(l, y) /\ Pos(l, y) < Pos(l, d) => y \in G
  BY <1>2, <1>3, <1>4, SkippedFacts
<1>7. G \subseteq ToSet(l)
  BY <1>1 DEF Of
<1> HIDE DEF c, d, l, G
<1>8. Pos(l, c) # Pos(l, e)
  BY <1>1, <1>2, <1>3, <1>5, SamePlace
<1>9. c \in X \ G
  BY <1>2, <1>3, <1>5, <1>8
<1>10. \A y \in X \ G : Pos(l, c) <= Pos(l, y)
  <2>1. X \subseteq ToSet(l)
    BY <1>1 DEF Spans
  <2>2. ASSUME NEW y \in X \ G PROVE Pos(l, c) <= Pos(l, y)
    <3>1. Pos(l, y) \in 1 .. Len(l) + 1 /\ Pos(l, c) \in 1 .. Len(l) + 1 /\ Pos(l, b) <= Pos(l, y)
      BY <1>2, <1>3, <1>5, <2>1
    <3>2. ~(Pos(l, y) < Pos(l, c))
      BY <1>5, <2>1, <3>1
    <3> QED
      BY <1>2, <3>1, <3>2
  <2> QED
    BY <2>2
<1>11. d \in Places(l) \ G
  BY <1>2, <1>6, <1>7
<1>12. ASSUME NEW y \in ToSet(l) \ G, Pos(l, e) <= Pos(l, y) PROVE Pos(l, d) <= Pos(l, y)
  <2>1. Pos(l, y) \in 1 .. Len(l) + 1 /\ Pos(l, d) \in 1 .. Len(l) + 1 /\ ~(Pos(l, y) < Pos(l, d))
    BY <1>2, <1>6, <1>12
  <2> QED
    BY <1>2, <2>1
<1>13. Thinned(l, k, G)
  BY DEF l, G
<1>14. Spans(k, c, d, X \ G)
  BY <1>1, <1>6, <1>9, <1>10, <1>11, <1>12, <1>13, SpanThinned
<1>15. c \in Ids /\ d \in Ids \cup {End}
  BY <1>2, <1>5, <1>6
<1> QED
  BY <1>14, <1>15 DEF c, d, b, e, X, G

(* Erasing the accesses to an array keeps the invariant but for the scopes *)
(* it misses, and it misses none when every scope keeps some accesses.     *)
LEMMA ErasedKept ==
  ASSUME NEW I, Good(I), NEW v \in I.handles, NEW visit \in Visits(I, v)
  PROVE  LET J == Erased(I, v, visit)
             M == Missed(I, v, visit)
         IN  /\ Kept(J, M) /\ J.acc = Without(I.acc, Of(I, v))
             /\ Emptied(I, v) = {} => M = {}
<1> DEFINE G == Of(I, v)
           gone == Walked(I.sibs, I.arrays[v].begin, I.arrays[v].end)
           pool == WithoutAll(I.pool, gone)
           sibs == WithoutAll(I.sibs, gone)
           acc == Without(I.acc, G)
           arrays == Without(Closed(I, v, I.arrays), {v})
           scopes == [s \in DOMAIN I.scopes \ visit.hit |->
                        IF s \in visit.seen THEN Trimmed(I, v, I.scopes[s]) ELSE I.scopes[s]]
           M == Missed(I, v, visit)
           S == DOMAIN I.scopes \ (visit.hit \cup M)
           J == [I EXCEPT !.handles = I.handles \ {v}, !.scopes = scopes, !.arrays = arrays,
                          !.sibs = sibs, !.pool = pool, !.acc = acc]
<1>1. /\ I \in Infos /\ I.pool \in Lists /\ I.sibs \in Lists /\ I.arrays \in ArrayMaps
      /\ ToSet(I.pool) = DOMAIN I.acc /\ ToSet(I.sibs) = DOMAIN I.acc /\ I.handles \in SUBSET Arrays
      /\ I.acc \in AccessMaps /\ DOMAIN I.scopes \subseteq Scopes
      /\ \A a \in DOMAIN I.arrays : a \in Arrays /\ I.arrays[a] \in Bound
  BY InfoFacts DEF Good, GoodLists
<1>2. /\ DOMAIN I.arrays = I.handles /\ I.handles = {a \in Arrays : Of(I, a) # {}}
      /\ \A a \in DOMAIN I.arrays : Spans(I.sibs, I.arrays[a].begin, I.arrays[a].end, Of(I, a))
  BY DEF Good, GoodArrays
<1>3. gone \in Lists /\ ToSet(gone) = G
  <2>1. Spans(I.sibs, I.arrays[v].begin, I.arrays[v].end, G)
    BY <1>2
  <2> QED
    BY <1>1, <2>1, SpanWalked
<1>4. G \subseteq DOMAIN I.acc
  BY DEF Of
<1>5. Erased(I, v, visit) = J
  BY <1>3 DEF Erased
<1>21. /\ visit.seen \subseteq DOMAIN I.scopes \ Emptied(I, v) /\ visit.hit \subseteq Emptied(I, v)
       /\ Emptied(I, v) = {} => M = {}
  BY DEF Visits, Missed
<1>22. ASSUME NEW s \in S
       PROVE  /\ s \in DOMAIN I.scopes /\ s \in DOMAIN scopes
              /\ s \notin Emptied(I, v) /\ scopes[s] = Trimmed(I, v, I.scopes[s])
  BY <1>21 DEF Missed
<1> HIDE DEF M
<1> HIDE DEF gone, G
<1>6. Thinned(I.pool, pool, G) /\ Thinned(I.sibs, sibs, G)
  BY <1>1, <1>3, <1>4, WithoutAllFacts
<1>7. /\ pool \in Lists /\ ToSet(pool) = DOMAIN I.acc \ G
      /\ sibs \in Lists /\ ToSet(sibs) = DOMAIN I.acc \ G
  BY <1>1, <1>6 DEF Thinned
<1> HIDE DEF pool, sibs
<1>8. /\ arrays \in ArrayMaps /\ DOMAIN arrays = DOMAIN I.arrays \ {v}
      /\ \A a \in DOMAIN arrays : Spans(sibs, arrays[a].begin, arrays[a].end, Of(I, a))
  <2>1. /\ arrays \in ArrayMaps /\ DOMAIN arrays = DOMAIN I.arrays \ {v}
        /\ \A a \in DOMAIN arrays : \A X \in SUBSET Of(I, a) :
             I.arrays[a] \in Bound /\ Spans(I.sibs, I.arrays[a].begin, I.arrays[a].end, X)
               => Spans(sibs, arrays[a].begin, arrays[a].end, X)
    BY <1>1, <1>6, ClosedFacts DEF G
  <2> HIDE DEF arrays
  <2> QED
    BY <1>1, <1>2, <2>1
<1> HIDE DEF arrays
<1>9. /\ \A s \in DOMAIN I.scopes : I.scopes[s] \in ScopeRecs /\ I.scopes[s].arrays \in ArrayMaps
                                    /\ I.scopes[s].parent = Outer[s]
      /\ DOMAIN I.scopes = {s \in Scopes : In(I, s) # {}}
      /\ \A s \in DOMAIN I.scopes :
           /\ DOMAIN I.scopes[s].arrays = {a \in Arrays : Of(I, a) \cap In(I, s) # {}}
           /\ \A a \in DOMAIN I.scopes[s].arrays :
                /\ I.scopes[s].arrays[a] \in Bound
                /\ Spans(I.sibs, I.scopes[s].arrays[a].begin, I.scopes[s].arrays[a].end,
                         Of(I, a) \cap In(I, s))
  BY <1>1, InfoFacts DEF Good, GoodScopes, GoodWithin
<1>10. ASSUME NEW s \in DOMAIN I.scopes \ Emptied(I, v)
       PROVE  LET t == Trimmed(I, v, I.scopes[s])
              IN  /\ t \in ScopeRecs /\ t.parent = Outer[s]
                  /\ Spans(pool, t.begin, t.end, In(I, s) \ G)
                  /\ DOMAIN t.arrays = DOMAIN I.scopes[s].arrays \ {v}
                  /\ \A a \in DOMAIN t.arrays :
                       Spans(sibs, t.arrays[a].begin, t.arrays[a].end, Of(I, a) \cap In(I, s))
  <2> DEFINE r == I.scopes[s]
             c == Skipped(I, v, r.begin, r.end)
             d == Skipped(I, v, r.end, End)
             k == Without(Closed(I, v, r.arrays), {v})
             t == Trimmed(I, v, r)
  <2>1. c \in Ids /\ d \in Ids \cup {End} /\ Spans(pool, c, d, In(I, s) \ G)
    BY <1>6, TrimmedSpan DEF G
  <2>2. /\ k \in ArrayMaps /\ DOMAIN k = DOMAIN r.arrays \ {v}
        /\ \A a \in DOMAIN k : \A X \in SUBSET Of(I, a) :
             r.arrays[a] \in Bound /\ Spans(I.sibs, r.arrays[a].begin, r.arrays[a].end, X)
               => Spans(sibs, k[a].begin, k[a].end, X)
    BY <1>6, <1>9, ClosedFacts DEF G
  <2>3. t = [r EXCEPT !.begin = c, !.end = d, !.arrays = k]
    BY DEF Trimmed
  <2>4. r \in ScopeRecs
    BY <1>9
  <2> HIDE DEF c, d, k, t
  <2>5. t \in ScopeRecs /\ t.begin = c /\ t.end = d /\ t.arrays = k /\ t.parent = r.parent
    BY <2>1, <2>2, <2>3, <2>4 DEF ScopeRecs
  <2>6. ASSUME NEW a \in DOMAIN k PROVE Spans(sibs, k[a].begin, k[a].end, Of(I, a) \cap In(I, s))
    <3>1. Of(I, a) \cap In(I, s) \in SUBSET Of(I, a)
      OBVIOUS
    <3> QED
      BY <1>9, <2>2, <2>6, <3>1
  <2> QED
    BY <1>9, <2>1, <2>2, <2>5, <2>6 DEF t
<1>11. scopes \in ScopeMaps /\ DOMAIN scopes = DOMAIN I.scopes \ visit.hit
  <2>1. scopes \in [DOMAIN I.scopes \ visit.hit -> ScopeRecs]
    BY <1>9, <1>10, <1>21
  <2> HIDE DEF scopes
  <2> QED
    BY <1>1, <2>1 DEF ScopeMaps
<1> HIDE DEF scopes, S
<1>12. /\ acc \in AccessMaps /\ DOMAIN acc = DOMAIN I.acc \ G
       /\ \A y \in DOMAIN acc : acc[y] = I.acc[y]
  <2>1. /\ DOMAIN acc = DOMAIN I.acc \ G /\ \A y \in DOMAIN acc : acc[y] = I.acc[y]
        /\ acc = [y \in DOMAIN I.acc \ G |-> I.acc[y]]
    BY DEF Without
  <2>2. DOMAIN I.acc \subseteq Ids /\ \A y \in DOMAIN I.acc : I.acc[y] \in [array : Arrays, parent : Scopes]
    BY <1>1 DEF AccessMaps
  <2> HIDE DEF acc
  <2>3. acc \in [DOMAIN I.acc \ G -> [array : Arrays, parent : Scopes]]
    BY <2>1, <2>2
  <2> QED
    BY <2>1, <2>2, <2>3 DEF AccessMaps
<1> HIDE DEF acc
<1>13. /\ J \in Infos /\ J.handles = I.handles \ {v} /\ J.scopes = scopes /\ J.arrays = arrays
       /\ J.sibs = sibs /\ J.pool = pool /\ J.acc = acc
  BY <1>1, <1>7, <1>8, <1>11, <1>12 DEF Infos
<1> HIDE DEF J
<1>14. \A s : In(J, s) = In(I, s) \ G
  BY <1>12, <1>13 DEF In
<1>15. \A a : Of(J, a) = IF a = v THEN {} ELSE Of(I, a)
  BY <1>12, <1>13 DEF Of, G
<1>16. GoodLists(J)
  BY <1>7, <1>12, <1>13 DEF GoodLists
<1>18. GoodArrays(J)
  BY <1>1, <1>2, <1>8, <1>13, <1>15 DEF GoodArrays
<1>17. DOMAIN J.scopes \ M = S
  BY <1>11, <1>13 DEF S
<1>23. S = {s \in Scopes : In(J, s) # {}} \ M
  <2>1. ASSUME NEW s \in S PROVE In(J, s) # {}
    <3>1. Spans(pool, scopes[s].begin, scopes[s].end, In(I, s) \ G)
      BY <1>10, <1>22
    <3> QED
      BY <1>14, <3>1 DEF Spans
  <2>2. ASSUME NEW s \in Scopes, In(J, s) # {}, s \notin M PROVE s \in S
    <3>1. PICK y \in In(I, s) : y \notin Of(I, v)
      BY <1>14, <2>2 DEF G
    <3>2. s \in DOMAIN I.scopes
      BY <1>9, <3>1
    <3>3. s \notin Emptied(I, v)
      BY <3>1, <3>2, NotEmptied
    <3> QED
      BY <1>21, <2>2, <3>2, <3>3 DEF S
  <2>3. S \subseteq Scopes /\ S \cap M = {}
    BY <1>1 DEF S
  <2> QED
    BY <2>1, <2>2, <2>3
<1>19. ASSUME NEW s \in S
       PROVE  /\ J.scopes[s].parent = Outer[s]
              /\ Spans(J.pool, J.scopes[s].begin, J.scopes[s].end, In(J, s))
              /\ DOMAIN J.scopes[s].arrays = {a \in Arrays : Of(J, a) \cap In(J, s) # {}}
              /\ \A a \in DOMAIN J.scopes[s].arrays :
                   Spans(J.sibs, J.scopes[s].arrays[a].begin, J.scopes[s].arrays[a].end,
                         Of(J, a) \cap In(J, s))
  <2>1. ASSUME NEW a
        PROVE  Of(J, a) \cap In(J, s) = IF a = v THEN {} ELSE Of(I, a) \cap In(I, s)
    BY <1>14, <1>15 DEF G, Of
  <2>2. /\ s \in DOMAIN I.scopes /\ J.scopes[s].parent = Outer[s]
        /\ Spans(J.pool, J.scopes[s].begin, J.scopes[s].end, In(J, s))
        /\ DOMAIN J.scopes[s].arrays = DOMAIN I.scopes[s].arrays \ {v}
        /\ \A a \in DOMAIN J.scopes[s].arrays :
             Spans(J.sibs, J.scopes[s].arrays[a].begin, J.scopes[s].arrays[a].end, Of(I, a) \cap In(I, s))
    <3>1. s \in DOMAIN I.scopes \ Emptied(I, v) /\ J.scopes[s] = Trimmed(I, v, I.scopes[s])
      BY <1>13, <1>22
    <3> QED
      BY <1>10, <1>13, <1>14, <3>1
  <2>3. DOMAIN J.scopes[s].arrays = {a \in Arrays : Of(J, a) \cap In(J, s) # {}}
    BY <1>9, <2>1, <2>2
  <2>4. \A a \in DOMAIN J.scopes[s].arrays : Of(J, a) \cap In(J, s) = Of(I, a) \cap In(I, s)
    BY <2>1, <2>2
  <2> QED
    BY <2>2, <2>3, <2>4
<1>20. Kept(J, M) /\ J.acc = Without(I.acc, Of(I, v))
  BY <1>13, <1>16, <1>17, <1>18, <1>19, <1>23 DEF Kept, KeptScopes, acc, G
<1> QED
  BY <1>5, <1>20, <1>21 DEF M

-----------------------------------------------------------------------------
(* Copying the accesses to an array.                                       *)

(* The state after copying the accesses old, as those to m.                 *)
Copies(I, old, m) == FoldLeft(LAMBDA K, x : Copied(K, x, m), I, old)

(* Copying accesses one after another is a sequence of states.             *)
LEMMA CopiesSteps ==
  ASSUME NEW I, NEW m, NEW old \in Seq(Ids)
  PROVE  \E F : /\ F[0] = I /\ Copies(I, old, m) = F[Len(old)]
                /\ \A i \in 1 .. Len(old) : F[i] = Copied(F[i - 1], old[i], m)
<1> DEFINE n == Len(old)
           D == DOMAIN old
           Small(j) == {s \in SUBSET D : Cardinality(s) <= j}
           Right(f, X) == f = [s \in X |-> IF s = {} THEN I
                                 ELSE Copied(f[s \ {Max(s)}], old[Max(s)], m)]
           N == {j \in Nat : \E f : Right(f, Small(j))}
<1>1. n \in Nat /\ D = 1 .. n
  BY LenProperties
<1>2. IsFiniteSet(D) /\ \A s \in SUBSET D : IsFiniteSet(s) /\ Cardinality(s) \in Nat
  <2>1. IsFiniteSet(D)
    BY <1>1, FS_Interval
  <2>2. \A s \in SUBSET D : IsFiniteSet(s)
    BY <2>1, FS_Subset
  <2> HIDE DEF D
  <2> QED
    BY <2>1, <2>2, FS_CardinalityType
<1>3. \A s \in SUBSET D : s # {} => /\ Max(s) \in s /\ s \ {Max(s)} \in SUBSET D
                                     /\ Cardinality(s \ {Max(s)}) = Cardinality(s) - 1
  BY <1>1, <1>2, MinMax, FS_RemoveElement
<1>4. 0 \in N
  <2> DEFINE f == [s \in Small(0) |-> I]
  <2>1. \A s \in Small(0) : s = {}
    BY <1>2, FS_EmptySet
  <2>2. Right(f, Small(0))
    BY <2>1
  <2> QED
    BY <2>2
<1>5. ASSUME NEW j \in N PROVE j + 1 \in N
  <2>1. PICK f : Right(f, Small(j))
    OBVIOUS
  <2> DEFINE h == [s \in Small(j + 1) |-> IF s = {} THEN I
                                 ELSE Copied(f[s \ {Max(s)}], old[Max(s)], m)]
  <2>2. \A s \in Small(j + 1) : s # {} => s \ {Max(s)} \in Small(j)
    <3>1. SUFFICES ASSUME NEW s \in SUBSET D, Cardinality(s) <= j + 1, s # {}
                   PROVE  s \ {Max(s)} \in SUBSET D /\ Cardinality(s \ {Max(s)}) <= j
      OBVIOUS
    <3>2. /\ s \ {Max(s)} \in SUBSET D /\ Cardinality(s \ {Max(s)}) = Cardinality(s) - 1
          /\ Cardinality(s) \in Nat /\ j \in Nat
      BY <1>2, <1>3, <3>1
    <3> QED
      BY <3>1, <3>2
  <2>3. \A s \in Small(j) : s \in Small(j + 1)
    BY <1>2
  <2>4. \A s \in Small(j) : h[s] = f[s]
    BY <2>1, <2>3
  <2>5. Right(h, Small(j + 1))
    <3>1. \A s \in Small(j + 1) : s # {} => h[s \ {Max(s)}] = f[s \ {Max(s)}]
      BY <2>2, <2>4
    <3> HIDE DEF Small
    <3> QED
      BY <3>1
  <2>6. j + 1 \in Nat
    OBVIOUS
  <2> HIDE DEF h, Right, Small
  <2> QED
    BY <2>5, <2>6
<1> HIDE DEF Right, Small
<1>6. N = Nat
  BY <1>4, <1>5, Counting
<1>7. SUBSET D = Small(n)
  <2>1. Cardinality(D) = n
    BY <1>1, FS_Interval
  <2>2. \A s \in SUBSET D : Cardinality(s) <= Cardinality(D)
    BY <1>2, FS_Subset
  <2> QED
    BY <2>1, <2>2 DEF Small
<1>8. \E f : Right(f, SUBSET D)
  BY <1>1, <1>6, <1>7
<1> DEFINE g == CHOOSE f : Right(f, SUBSET D)
<1>9. Right(g, SUBSET D)
  BY <1>8
<1>10. Copies(I, old, m) = g[D]
  BY DEF Copies, FoldLeft, MapThenFoldSet, Right
<1> HIDE DEF g
<1> DEFINE F == [i \in 0 .. n |-> g[1 .. i]]
<1>11. F[0] = I /\ Copies(I, old, m) = F[n]
  <2>1. 1 .. 0 = {} /\ {} \in SUBSET D
    OBVIOUS
  <2>2. g[{}] = I
    BY <1>9, <2>1 DEF Right
  <2> QED
    BY <1>1, <1>10, <2>1, <2>2
<1>12. ASSUME NEW i \in 1 .. n PROVE F[i] = Copied(F[i - 1], old[i], m)
  <2>1. 1 .. i \in SUBSET D /\ 1 .. i # {} /\ i \in Nat /\ i # 0 /\ i - 1 \in 0 .. n /\ i \in 0 .. n
    <3> HIDE DEF F, D, n
    <3>1. 1 .. i \in SUBSET (1 .. n) /\ i \in 1 .. i
      BY <1>1
    <3> QED
      BY <1>1, <3>1
  <2>2. g[1 .. i] = Copied(g[1 .. (i - 1)], old[i], m)
    BY <1>9, <2>1, PrefixMax DEF Right
  <2> QED
    BY <2>1, <2>2
<1> QED
  BY <1>11, <1>12

(* J has, beside the accesses of I, a copy to m of each of those in D.      *)
HasCopies(I, J, m, D, g) ==
  /\ g \in [D -> Ids \ DOMAIN I.acc] /\ \A x, y \in D : g[x] = g[y] => x = y
  /\ DOMAIN J.acc = DOMAIN I.acc \cup {g[x] : x \in D}
  /\ \A y \in DOMAIN I.acc : J.acc[y] = I.acc[y]
  /\ \A x \in D : J.acc[g[x]].array = m /\ J.acc[g[x]].parent = I.acc[x].parent

(* A good state with such copies.                                          *)
Copying(I, J, m, D) == Good(J) /\ \E g : HasCopies(I, J, m, D, g)

(* Copying one more.                                                       *)
LEMMA OneCopied ==
  ASSUME NEW I, Good(I), NEW m \in Arrays, NEW D \in SUBSET DOMAIN I.acc,
         NEW J, Copying(I, J, m, D), NEW x \in DOMAIN I.acc \ D, Fresh(J) # {}
  PROVE  LET K == Copied(J, x, m)
         IN Copying(I, K, m, D \cup {x}) /\ Cardinality(Fresh(K)) = Cardinality(Fresh(J)) - 1
<1>0. PICK g : Good(J) /\ HasCopies(I, J, m, D, g)
  BY DEF Copying
<1> DEFINE z == Min(Fresh(J))
           s0 == I.acc[x].parent
           K == Copied(J, x, m)
           h == [y \in D \cup {x} |-> IF y = x THEN z ELSE g[y]]
<1>1. MaxAccesses \in Nat
  BY Domains
<1>2. z \in Ids \ DOMAIN J.acc /\ Fresh(J) \in SUBSET Ids
  BY <1>1, MinMax DEF Fresh, Ids
<1>3. /\ x \in DOMAIN J.acc /\ J.acc[x] = I.acc[x] /\ s0 \in Scopes
      /\ s0 \in DOMAIN J.scopes
  BY <1>0, InfoFacts, InFacts DEF HasCopies, Good
<1>4. StoredNest(J, s0) = Nest[s0]
  BY <1>0, <1>3, GoodLinked, StoredNests
<1>5. K = Added(J, z, m, Nest[s0])
  BY <1>3, <1>4 DEF Copied
<1> HIDE DEF z, s0, K
<1>6. Good(K) /\ K.acc = Put(J.acc, z, [array |-> m, parent |-> s0])
  BY <1>0, <1>2, <1>3, <1>5, AddedGood
<1>7. K.acc = [y \in DOMAIN J.acc \cup {z} |-> IF y = z THEN [array |-> m, parent |-> s0] ELSE J.acc[y]]
  BY <1>6 DEF Put
<1>8. /\ DOMAIN K.acc = DOMAIN J.acc \cup {z} /\ K.acc[z].array = m /\ K.acc[z].parent = s0
      /\ \A y \in DOMAIN J.acc : K.acc[y] = J.acc[y]
  BY <1>2, <1>7
<1>9. Fresh(K) = Fresh(J) \ {z} /\ z \in Fresh(J)
  BY <1>2, <1>8 DEF Fresh
<1>10. Cardinality(Fresh(K)) = Cardinality(Fresh(J)) - 1
  <2>1. IsFiniteSet(Ids)
    BY <1>1, FS_Interval DEF Ids
  <2>2. IsFiniteSet(Fresh(J))
    BY <1>2, <2>1, FS_Subset
  <2> QED
    BY <1>9, <2>2, FS_RemoveElement
<1>11. HasCopies(I, K, m, D \cup {x}, h)
  <2>1. /\ g \in [D -> Ids \ DOMAIN I.acc] /\ \A u, y \in D : g[u] = g[y] => u = y
        /\ DOMAIN J.acc = DOMAIN I.acc \cup {g[y] : y \in D}
        /\ \A y \in DOMAIN I.acc : J.acc[y] = I.acc[y]
        /\ \A y \in D : J.acc[g[y]].array = m /\ J.acc[g[y]].parent = I.acc[y].parent
    BY <1>0 DEF HasCopies
  <2>2. /\ DOMAIN h = D \cup {x} /\ h[x] = z /\ \A y \in D : h[y] = g[y] /\ g[y] \in DOMAIN J.acc /\ g[y] # z
    BY <1>2, <2>1
  <2>3. h \in [D \cup {x} -> Ids \ DOMAIN I.acc]
    BY <1>2, <2>1
  <2> HIDE DEF h
  <2>4. \A u, y \in D \cup {x} : h[u] = h[y] => u = y
    BY <2>1, <2>2
  <2>5. {h[y] : y \in D \cup {x}} = {g[y] : y \in D} \cup {z}
    BY <2>2
  <2>6. DOMAIN K.acc = DOMAIN I.acc \cup {h[y] : y \in D \cup {x}}
    BY <1>8, <2>1, <2>5
  <2>7. \A y \in DOMAIN I.acc : K.acc[y] = I.acc[y]
    BY <1>8, <2>1
  <2>8. \A y \in D \cup {x} : K.acc[h[y]].array = m /\ K.acc[h[y]].parent = I.acc[y].parent
    BY <1>8, <2>1, <2>2 DEF s0
  <2> QED
    BY <2>3, <2>4, <2>6, <2>7, <2>8 DEF HasCopies
<1> QED
  BY <1>6, <1>10, <1>11 DEF K, Copying

(* Copying them all.                                                       *)
LEMMA AllCopied ==
  ASSUME NEW I, Good(I), NEW m \in Arrays, NEW old \in Lists, ToSet(old) \subseteq DOMAIN I.acc,
         Cardinality(Fresh(I)) >= Len(old)
  PROVE  Copying(I, Copies(I, old, m), m, ToSet(old))
<1> DEFINE n == Len(old)
           D(i) == {old[j] : j \in 1 .. i}
<1>1. n \in Nat /\ old \in Seq(Ids) /\ ToSet(old) = D(n) /\ (\A i, j \in 1 .. n : old[i] = old[j] => i = j)
  <2>1. old \in Seq(Ids) /\ n \in Nat /\ DOMAIN old = 1 .. n
    BY Positions DEF Lists
  <2> QED
    BY <2>1 DEF ToSet, Lists, IsInjective
<1>2. PICK F : /\ F[0] = I /\ Copies(I, old, m) = F[n]
               /\ \A i \in 1 .. n : F[i] = Copied(F[i - 1], old[i], m)
  BY <1>1, CopiesSteps
<1>3. Cardinality(Fresh(I)) \in Nat
  <2>1. IsFiniteSet(Ids)
    BY Domains, FS_Interval DEF Ids
  <2>2. Fresh(I) \subseteq Ids
    BY DEF Fresh
  <2> QED
    BY <2>1, <2>2, FS_Subset, FS_CardinalityType
<1> DEFINE P(i) == /\ Copying(I, F[i], m, D(i))
                   /\ Cardinality(Fresh(F[i])) = Cardinality(Fresh(I)) - i
           S == {i \in Nat : i <= n => P(i)}
<1>4. 0 \in S
  <2>1. D(0) = {}
    OBVIOUS
  <2>2. Copying(I, I, m, {})
    <3>1. <<>> \in [{} -> Ids \ DOMAIN I.acc]
      OBVIOUS
    <3> QED
      BY <3>1 DEF HasCopies, Copying
  <2>3. Cardinality(Fresh(I)) = Cardinality(Fresh(I)) - 0
    BY <1>3
  <2> HIDE DEF D
  <2>4. P(0)
    BY <1>2, <2>1, <2>2, <2>3
  <2> HIDE DEF P
  <2> QED
    BY <2>4
<1>5. ASSUME NEW i \in S PROVE i + 1 \in S
  <2> HIDE DEF P, n
  <2>1. SUFFICES ASSUME i + 1 <= n PROVE P(i + 1)
    OBVIOUS
  <2>2. i \in Nat /\ P(i) /\ i + 1 \in 1 .. n /\ i + 1 - 1 = i
    BY <1>1, <2>1
  <2> USE DEF n
  <2>8. Copying(I, F[i], m, D(i)) /\ Cardinality(Fresh(F[i])) = Cardinality(Fresh(I)) - i
    BY <2>2 DEF P
  <2> DEFINE x == old[i + 1]
  <2>3. F[i + 1] = Copied(F[i], x, m)
    BY <1>2, <2>2
  <2>4. x \in DOMAIN I.acc \ D(i) /\ D(i) \in SUBSET DOMAIN I.acc /\ D(i + 1) = D(i) \cup {x}
    <3>1. \A j \in 1 .. i : j \in 1 .. n /\ j # i + 1
      BY <2>2, <1>1
    <3>2. x \notin D(i)
      BY <1>1, <2>2, <3>1
    <3>3. \A j \in 1 .. n : old[j] \in DOMAIN I.acc
      BY <1>1
    <3>4. D(i) \in SUBSET DOMAIN I.acc
      BY <3>1, <3>3
    <3>5. 1 .. i + 1 = (1 .. i) \cup {i + 1}
      BY <2>2
    <3>6. D(i + 1) = D(i) \cup {x}
      BY <3>5
    <3> QED
      BY <2>2, <3>2, <3>3, <3>4, <3>6
  <2>5. Fresh(F[i]) # {}
    <3>1. Cardinality(Fresh(F[i])) > 0
      BY <1>1, <1>3, <2>1, <2>2, <2>8
    <3>2. Fresh(F[i]) = {} => Cardinality(Fresh(F[i])) = 0
      BY FS_EmptySet
    <3> QED
      BY <3>1, <3>2
  <2> HIDE DEF D, x
  <2>7. /\ Copying(I, F[i + 1], m, D(i) \cup {x})
        /\ Cardinality(Fresh(F[i + 1])) = Cardinality(Fresh(F[i])) - 1
    BY <2>3, <2>4, <2>5, <2>8, OneCopied
  <2>9. Cardinality(Fresh(F[i + 1])) = Cardinality(Fresh(I)) - (i + 1)
    BY <1>3, <2>2, <2>7, <2>8
  <2> QED
    BY <2>4, <2>7, <2>9 DEF P
<1> HIDE DEF P
<1>6. S = Nat
  <2>1. S \in SUBSET Nat
    OBVIOUS
  <2> HIDE DEF S
  <2> QED
    BY <1>4, <1>5, <2>1, Counting
<1>7. P(n)
  BY <1>1, <1>6
<1> QED
  BY <1>1, <1>2, <1>7 DEF P

(* With a copy of each of its accesses to m, erasing a empties no scope.    *)
LEMMA CopiesKeepScopes ==
  ASSUME NEW I, Good(I), NEW a \in I.handles, NEW m \in Arrays \ {a},
         NEW J, Copying(I, J, m, Of(I, a))
  PROVE  a \in J.handles /\ Emptied(J, a) = {} /\ Of(J, a) = Of(I, a)
<1>1. PICK g : Good(J) /\ HasCopies(I, J, m, Of(I, a), g)
  BY DEF Copying
<1>2. /\ DOMAIN J.acc = DOMAIN I.acc \cup {g[x] : x \in Of(I, a)}
      /\ \A y \in DOMAIN I.acc : J.acc[y] = I.acc[y]
      /\ \A x \in Of(I, a) : J.acc[g[x]].array = m /\ J.acc[g[x]].parent = I.acc[x].parent
  BY <1>1 DEF HasCopies
<1>3. Of(J, a) = Of(I, a)
  BY <1>2 DEF Of
<1>4. a \in J.handles
  <2>1. Of(I, a) # {} /\ a \in Arrays
    BY DEF Good, GoodArrays
  <2> QED
    BY <1>1, <1>3, <2>1 DEF Good, GoodArrays
<1>5. ASSUME NEW s \in DOMAIN J.scopes PROVE \E y \in In(J, s) : y \notin Of(J, a)
  <2>1. PICK y \in In(J, s) : TRUE
    BY <1>1 DEF Good, GoodScopes
  <2>2. CASE y \in Of(J, a)
    <3>1. y \in Of(I, a) /\ y \in DOMAIN I.acc
      BY <1>3, <2>2 DEF Of
    <3>2. g[y] \in DOMAIN J.acc /\ J.acc[g[y]].parent = J.acc[y].parent /\ J.acc[g[y]].array = m
      BY <1>2, <3>1
    <3>3. g[y] \in In(J, s) /\ g[y] \notin Of(J, a)
      BY <2>1, <3>2 DEF In, Of
    <3> QED
      BY <3>3
  <2> QED
    BY <2>1, <2>2
<1>6. Emptied(J, a) = {}
  <2>1. Emptied(J, a) \subseteq DOMAIN J.scopes
    BY DEF Emptied
  <2> QED
    BY <1>1, <1>5, <2>1, NotEmptied
<1> QED
  BY <1>3, <1>4, <1>6

-----------------------------------------------------------------------------
(* The invariant of the specification.                                     *)

(* The invariant holds at the start.                                       *)
LEMMA KeptInit ==
  ASSUME Init
  PROVE  Kept(info, missed)
<1>1. DOMAIN <<>> = {} /\ \A S : <<>> \in [{} -> S]
  OBVIOUS
<1>2. /\ info.acc = <<>> /\ info.pool = <<>> /\ info.sibs = <<>> /\ info.scopes = <<>>
      /\ info.arrays = <<>> /\ info.handles = {}
  BY DEF Init
<1>3. <<>> \in Lists /\ ToSet(<<>>) = {}
  <2>1. <<>> \in Seq(Ids)
    OBVIOUS
  <2>2. IsInjective(<<>>)
    BY DEF IsInjective
  <2> QED
    BY <1>1, <2>1, <2>2 DEF Lists, ToSet
<1>4. <<>> \in AccessMaps /\ <<>> \in ScopeMaps /\ <<>> \in ArrayMaps
  <2>1. \A T, S : {} \in SUBSET T /\ <<>> \in [{} -> S]
    BY <1>1
  <2>2. <<>> \in AccessMaps
    BY <2>1 DEF AccessMaps
  <2>3. <<>> \in ScopeMaps
    BY <2>1 DEF ScopeMaps
  <2>4. <<>> \in ArrayMaps
    BY <2>1 DEF ArrayMaps
  <2> QED
    BY <2>2, <2>3, <2>4
<1>5. info \in Infos
  <2>1. info = [acc |-> <<>>, pool |-> <<>>, sibs |-> <<>>, scopes |-> <<>>,
                arrays |-> <<>>, handles |-> {}]
    BY DEF Init
  <2>2. \A e : e = <<>> => [acc |-> e, pool |-> e, sibs |-> e, scopes |-> e,
                             arrays |-> e, handles |-> {}] \in Infos
    BY <1>3, <1>4 DEF Infos
  <2> QED
    BY <2>1, <2>2
<1>6. \A s : In(info, s) = {} /\ Of(info, s) = {}
  BY <1>1, <1>2 DEF In, Of
<1>7. GoodLists(info) /\ GoodScopes(info) /\ GoodArrays(info) /\ GoodWithin(info)
  BY <1>1, <1>2, <1>3, <1>6 DEF GoodLists, GoodScopes, GoodArrays, GoodWithin
<1>8. Good(info) /\ missed = {}
  BY <1>5, <1>7 DEF Good, Init
<1> QED
  BY <1>8, KeptAll

(* What replacing the memory of an array leaves.                           *)
LEMMA ReplaceFacts ==
  ASSUME Good(info), NEW a \in Arrays, NEW m \in Arrays, Replace(a, m)
  PROVE  /\ m # a /\ a \in info.handles
         /\ \E J : /\ Copying(info, J, m, Of(info, a))
                   /\ \/ info' = J /\ missed' = {} /\ m \notin info.handles
                      \/ \E visit \in Visits(J, a) :
                           info' = Erased(J, a, visit) /\ missed' = Missed(J, a, visit)
<1> DEFINE r == info.arrays[a]
           old == Walked(info.sibs, r.begin, r.end)
           J == Copies(info, old, m)
<1>1. a \in info.handles /\ m # a /\ Cardinality(Fresh(info)) >= Len(old)
  BY DEF Replace
<1>2. \E v \in {a, None} : \E visit \in Visits(J, a) :
         /\ v # a => m \notin info.handles
         /\ info' = IF v = a THEN Erased(J, a, visit) ELSE J
         /\ missed' = IF v = a THEN Missed(J, a, visit) ELSE {}
  BY DEF Replace, Copies
<1>3. old \in Lists /\ ToSet(old) = Of(info, a)
  <2>1. info.sibs \in Lists /\ Spans(info.sibs, r.begin, r.end, Of(info, a))
    BY <1>1, InfoFacts DEF Good, GoodArrays
  <2> QED
    BY <2>1, SpanWalked
<1>4. Of(info, a) \subseteq DOMAIN info.acc
  BY DEF Of
<1> HIDE DEF old
<1>5. Copying(info, J, m, Of(info, a))
  BY <1>1, <1>3, <1>4, AllCopied
<1> HIDE DEF J
<1> QED
  BY <1>1, <1>2, <1>5

(* A replacement leaves a good state, whatever the handle reads of itself. *)
LEMMA GoodReplace ==
  ASSUME Good(info), NEW a \in Arrays, NEW m \in Arrays, Replace(a, m)
  PROVE  Good(info') /\ missed' = {}
<1>1. m \in Arrays \ {a} /\ a \in info.handles
  BY ReplaceFacts
<1>2. PICK J : /\ Copying(info, J, m, Of(info, a))
               /\ \/ info' = J /\ missed' = {}
                  \/ \E visit \in Visits(J, a) :
                       info' = Erased(J, a, visit) /\ missed' = Missed(J, a, visit)
  BY ReplaceFacts
<1>3. Good(J) /\ a \in J.handles /\ Emptied(J, a) = {}
  BY <1>1, <1>2, CopiesKeepScopes DEF Copying
<1>4. CASE info' = J /\ missed' = {}
  BY <1>3, <1>4
<1>5. ASSUME NEW visit \in Visits(J, a), info' = Erased(J, a, visit), missed' = Missed(J, a, visit)
      PROVE  Good(info') /\ missed' = {}
  <2>1. Kept(info', missed') /\ missed' = {}
    BY <1>3, <1>5, ErasedKept
  <2> QED
    BY <2>1, KeptAll
<1> QED
  BY <1>2, <1>4, <1>5

(* Every step keeps the invariant.                                         *)
LEMMA KeptNext ==
  ASSUME Kept(info, missed), [Next]_vars
  PROVE  Kept(info', missed')
<1>1. CASE UNCHANGED vars
  BY <1>1 DEF vars
<1>2. CASE Next
  <2>1. Good(info)
    BY <1>2, KeptAll DEF Next
  <2>2. ASSUME NEW a \in Arrays, NEW s \in Scopes, Add(a, s) PROVE Kept(info', missed')
    <3> DEFINE x == Min(Fresh(info))
    <3>1. Fresh(info) # {} /\ info' = Added(info, x, a, Nest[s]) /\ missed' = {}
      BY <1>2, <2>2 DEF Add, Next
    <3>2. x \in Ids \ DOMAIN info.acc
      BY <3>1, Domains, MinMax DEF Fresh, Ids
    <3> HIDE DEF x
    <3>3. Good(info')
      BY <2>1, <3>1, <3>2, AddedGood
    <3> QED
      BY <3>1, <3>3, KeptAll
  <2>3. ASSUME NEW a \in Arrays, Delete(a) PROVE Kept(info', missed')
    <3>1. PICK visit \in Visits(info, a) :
            info' = Erased(info, a, visit) /\ missed' = Missed(info, a, visit)
      BY <2>3 DEF Delete
    <3>2. a \in info.handles
      BY <2>3 DEF Delete
    <3> QED
      BY <2>1, <3>1, <3>2, ErasedKept
  <2>4. ASSUME NEW a \in Arrays, NEW m \in Arrays, Replace(a, m) PROVE Kept(info', missed')
    BY <2>1, <2>4, GoodReplace, KeptAll
  <2> QED
    BY <1>2, <2>2, <2>3, <2>4 DEF Next
<1> QED
  BY <1>1, <1>2

(* What the invariant says is what clients meet.                           *)
LEMMA KeptRanges ==
  ASSUME Kept(info, missed)
  PROVE  ScopeRanges /\ ArrayRanges
<1>1. /\ info.pool \in Lists /\ info.sibs \in Lists
      /\ info.handles \in SUBSET Arrays
  BY InfoFacts DEF Kept
<1>2. \A s : Inside(s) = In(info, s)
  BY DEF Inside, In, Chain
<1>3. \A a : OfArray(a) = Of(info, a)
  BY DEF OfArray, Of
<1>4. ASSUME NEW l \in Lists, NEW r, NEW X, Spans(l, r.begin, r.end, X)
      PROVE  Bounds(l, r, X)
  BY <1>4, SpanWalked DEF Bounds, Spans, Places
<1>5. ScopeRanges
  <2>1. IsInjective(info.pool)
    BY <1>1 DEF Lists
  <2>2. DOMAIN info.scopes \ missed = {s \in Scopes : Inside(s) # {}} \ missed
    BY <1>2 DEF Kept, KeptScopes
  <2>3. ASSUME NEW s \in DOMAIN info.scopes \ missed
        PROVE  Bounds(info.pool, info.scopes[s], Inside(s))
    <3>1. Spans(info.pool, info.scopes[s].begin, info.scopes[s].end, Inside(s))
      BY <1>2 DEF Kept, KeptScopes
    <3> QED
      BY <1>1, <1>4, <3>1
  <2>4. ASSUME missed = {}, NEW s \in DOMAIN info.scopes PROVE StoredNest(info, s) = Nest[s]
    <3>1. Good(info)
      BY <2>4, KeptAll
    <3> QED
      BY <3>1, GoodLinked, StoredNests
  <2> QED
    BY <2>1, <2>2, <2>3, <2>4 DEF ScopeRanges
<1>6. ArrayRanges
  <2>1. IsInjective(info.sibs)
    BY <1>1 DEF Lists
  <2>2. DOMAIN info.arrays = info.handles /\ info.handles = {a \in Arrays : OfArray(a) # {}}
    BY <1>3 DEF Kept, GoodArrays
  <2>3. ASSUME NEW a \in DOMAIN info.arrays PROVE Bounds(info.sibs, info.arrays[a], OfArray(a))
    <3>1. Spans(info.sibs, info.arrays[a].begin, info.arrays[a].end, OfArray(a))
      BY <1>3 DEF Kept, GoodArrays
    <3> QED
      BY <1>1, <1>4, <3>1
  <2>4. ASSUME NEW s \in DOMAIN info.scopes \ missed
        PROVE  LET r == info.scopes[s].arrays
               IN  /\ DOMAIN r = {a \in Arrays : OfArray(a) \cap Inside(s) # {}}
                   /\ \A a \in DOMAIN r :
                        Bounds(info.sibs, r[a], OfArray(a) \cap Inside(s))
    <3> DEFINE r == info.scopes[s].arrays
    <3>1. /\ DOMAIN r = {a \in Arrays : OfArray(a) \cap Inside(s) # {}}
          /\ \A a \in DOMAIN r :
               Spans(info.sibs, r[a].begin, r[a].end, OfArray(a) \cap Inside(s))
      BY <1>2, <1>3 DEF Kept, KeptScopes
    <3> QED
      BY <1>1, <1>4, <3>1
  <2> QED
    BY <2>1, <2>2, <2>3, <2>4 DEF ArrayRanges
<1> QED
  BY <1>5, <1>6

(* The invariant holds in every state, but for the scopes that an erase,   *)
(* which stops at an empty one, has not reached.                           *)
THEOREM AlwaysKept == Spec => []Kept(info, missed)
<1>1. Init => Kept(info, missed)
  BY KeptInit
<1>2. Kept(info, missed) /\ [Next]_vars => Kept(info, missed)'
  BY KeptNext
<1> QED
  BY <1>1, <1>2, PTL DEF Spec

(* What a client meets in a range of a scope is what the scope contains,   *)
(* if the last erase has reached it.                                       *)
THEOREM ScopeRangesHold == Spec => []ScopeRanges
<1>1. Kept(info, missed) => ScopeRanges
  BY KeptRanges
<1> QED
  BY <1>1, AlwaysKept, PTL

(* What a client meets in a range of an array, or of an array in a scope   *)
(* that the last erase has reached, is what there is.                      *)
THEOREM ArrayRangesHold == Spec => []ArrayRanges
<1>1. Kept(info, missed) => ArrayRanges
  BY KeptRanges
<1> QED
  BY <1>1, AlwaysKept, PTL

-----------------------------------------------------------------------------
(* The promise to clients.                                                 *)

(* The number of accesses to an array in a scope, by the accesses and by   *)
(* walking the range of the array in the scope.                            *)
Count(I, a, s) == Cardinality(Of(I, a) \cap In(I, s))
Counts(I) == [a \in Arrays |-> [s \in Scopes |-> Count(I, a, s)]]
Accessed(I, a, s) == s \in DOMAIN I.scopes /\ a \in DOMAIN I.scopes[s].arrays
Walks(I) == [a \in Arrays |-> [s \in Scopes |->
  IF Accessed(I, a, s)
    THEN Len(Walked(I.sibs, I.scopes[s].arrays[a].begin, I.scopes[s].arrays[a].end))
    ELSE 0]]

(* The accesses are finitely many.                                         *)
LEMMA Countable ==
  ASSUME NEW I, Good(I)
  PROVE  \A a, s : /\ IsFiniteSet(Of(I, a) \cap In(I, s)) /\ Count(I, a, s) \in Nat
                   /\ IsFiniteSet(Of(I, a))
<1>1. DOMAIN I.acc \subseteq Ids
  BY InfoFacts DEF Good
<1>2. IsFiniteSet(DOMAIN I.acc)
  <2>1. IsFiniteSet(Ids)
    BY Domains, FS_Interval DEF Ids
  <2> QED
    BY <1>1, <2>1, FS_Subset
<1>3. \A a, s : Of(I, a) \cap In(I, s) \in SUBSET DOMAIN I.acc /\ Of(I, a) \in SUBSET DOMAIN I.acc
  BY DEF Of
<1>4. \A T \in SUBSET DOMAIN I.acc : IsFiniteSet(T) /\ Cardinality(T) \in Nat
  BY <1>2, FS_Subset, FS_CardinalityType
<1> QED
  BY <1>3, <1>4 DEF Count

(* A list is as long as it has elements.                                   *)
LEMMA ListLength ==
  ASSUME NEW l \in Lists
  PROVE  Len(l) = Cardinality(ToSet(l))
<1> DEFINE n == Len(l)
<1>1. n \in Nat /\ DOMAIN l = 1 .. n /\ l \in Seq(Ids) /\ IsInjective(l)
  BY Positions DEF Lists
<1>2. l \in [1 .. n -> ToSet(l)] /\ ToSet(l) = {l[i] : i \in 1 .. n}
  <2>1. ToSet(l) = {l[i] : i \in 1 .. n}
    BY <1>1 DEF ToSet
  <2>2. l \in [1 .. n -> Ids]
    BY <1>1
  <2> QED
    BY <2>1, <2>2
<1>3. \A i, j \in 1 .. n : l[i] = l[j] => i = j
  BY <1>1 DEF IsInjective
<1>4. \A x \in ToSet(l) : \E i \in 1 .. n : l[i] = x
  BY <1>2
<1> HIDE DEF n
<1>5. l \in Bijection(1 .. n, ToSet(l))
  BY <1>2, <1>3, <1>4, Fun_IsBij
<1>6. ExistsBijection(1 .. n, ToSet(l))
  BY <1>5 DEF ExistsBijection
<1>7. Cardinality(ToSet(l)) = n
  BY <1>1, <1>6, FS_CountingElements
<1> QED
  BY <1>7 DEF n

(* Walking the range of an array in a scope counts the accesses.           *)
LEMMA WalksCount ==
  ASSUME NEW I, Good(I)
  PROVE  Walks(I) = Counts(I)
<1>1. ASSUME NEW a \in Arrays, NEW s \in Scopes
      PROVE  (IF Accessed(I, a, s)
                THEN Len(Walked(I.sibs, I.scopes[s].arrays[a].begin, I.scopes[s].arrays[a].end))
                ELSE 0) = Count(I, a, s)
  <2>1. CASE Accessed(I, a, s)
    <3> DEFINE b == I.scopes[s].arrays[a].begin
               e == I.scopes[s].arrays[a].end
               X == Of(I, a) \cap In(I, s)
    <3>1. I.sibs \in Lists /\ Spans(I.sibs, b, e, X)
      BY <2>1, InfoFacts DEF Good, GoodWithin, Accessed
    <3> HIDE DEF b, e, X
    <3>2. Len(Walked(I.sibs, b, e)) = Cardinality(X)
      BY <3>1, SpanWalked, ListLength
    <3> QED
      BY <2>1, <3>2 DEF b, e, X, Count
  <2>2. CASE ~Accessed(I, a, s)
    <3>1. Of(I, a) \cap In(I, s) = {}
      BY <2>2 DEF Good, GoodWithin, GoodScopes, Accessed
    <3> QED
      BY <2>2, <3>1, FS_EmptySet DEF Count
  <2> QED
    BY <2>1, <2>2
<1> QED
  BY <1>1 DEF Walks, Counts

(* Adding an access adds one to what the scopes around it count.           *)
LEMMA AddedCounts ==
  ASSUME NEW I, Good(I), NEW x \in Ids \ DOMAIN I.acc, NEW a \in Arrays, NEW s0 \in Scopes, NEW J,
         J.acc = Put(I.acc, x, [array |-> a, parent |-> s0])
  PROVE  \A b, s : Count(J, b, s) =
           IF b = a /\ s \in Chain(s0) THEN Count(I, b, s) + 1 ELSE Count(I, b, s)
<1>1. J.acc = [y \in DOMAIN I.acc \cup {x} |-> IF y = x THEN [array |-> a, parent |-> s0] ELSE I.acc[y]]
  BY DEF Put
<1>2. /\ DOMAIN J.acc = DOMAIN I.acc \cup {x} /\ J.acc[x].array = a /\ J.acc[x].parent = s0
      /\ \A y \in DOMAIN I.acc : J.acc[y] = I.acc[y]
  BY <1>1
<1>3. ASSUME NEW b, NEW s
      PROVE  Count(J, b, s) = IF b = a /\ s \in Chain(s0) THEN Count(I, b, s) + 1 ELSE Count(I, b, s)
  <2> DEFINE X == Of(I, b) \cap In(I, s)
             Y == Of(J, b) \cap In(J, s)
  <2>1. Y = IF b = a /\ s \in Chain(s0) THEN X \cup {x} ELSE X
    BY <1>2 DEF Of, In
  <2>2. x \notin X /\ IsFiniteSet(X)
    BY Countable DEF Of
  <2> HIDE DEF X, Y
  <2>3. Cardinality(X \cup {x}) = Cardinality(X) + 1
    BY <2>2, FS_AddElement
  <2>4. Count(I, b, s) = Cardinality(X) /\ Count(J, b, s) = Cardinality(Y)
    BY DEF X, Y, Count
  <2> QED
    BY <2>1, <2>3, <2>4
<1> QED
  BY <1>3

(* Erasing an array leaves nothing to count of it, and the rest.           *)
LEMMA ErasedCounts ==
  ASSUME NEW I, NEW v, NEW J, J.acc = Without(I.acc, Of(I, v))
  PROVE  \A b, s : Count(J, b, s) = IF b = v THEN 0 ELSE Count(I, b, s)
<1>1. /\ DOMAIN J.acc = DOMAIN I.acc \ Of(I, v)
      /\ \A y \in DOMAIN J.acc : J.acc[y] = I.acc[y]
  BY DEF Without
<1>2. ASSUME NEW b, NEW s PROVE Count(J, b, s) = IF b = v THEN 0 ELSE Count(I, b, s)
  <2>1. Of(J, b) \cap In(J, s) = IF b = v THEN {} ELSE Of(I, b) \cap In(I, s)
    BY <1>1 DEF Of, In
  <2> QED
    BY <2>1, FS_EmptySet DEF Count
<1> QED
  BY <1>2

(* Copies to m of the accesses to a add those to the accesses to m.        *)
LEMMA CopiedCounts ==
  ASSUME NEW I, Good(I), NEW a, NEW m, m # a, NEW J, Copying(I, J, m, Of(I, a))
  PROVE  \A b, s : Count(J, b, s) =
           IF b = m THEN Count(I, m, s) + Count(I, a, s) ELSE Count(I, b, s)
<1>1. PICK g : Good(J) /\ HasCopies(I, J, m, Of(I, a), g)
  BY DEF Copying
<1>2. /\ g \in [Of(I, a) -> Ids \ DOMAIN I.acc] /\ \A x, y \in Of(I, a) : g[x] = g[y] => x = y
      /\ DOMAIN J.acc = DOMAIN I.acc \cup {g[x] : x \in Of(I, a)}
      /\ \A y \in DOMAIN I.acc : J.acc[y] = I.acc[y]
      /\ \A x \in Of(I, a) : J.acc[g[x]].array = m /\ J.acc[g[x]].parent = I.acc[x].parent
  BY <1>1 DEF HasCopies
<1>3. ASSUME NEW b, NEW s
      PROVE  Count(J, b, s) = IF b = m THEN Count(I, m, s) + Count(I, a, s) ELSE Count(I, b, s)
  <2> DEFINE X == Of(I, a) \cap In(I, s)
             Z == {g[x] : x \in X}
             B == Of(I, b) \cap In(I, s)
  <2>1. Of(J, b) \cap In(J, s) = IF b = m THEN B \cup Z ELSE B
    BY <1>2 DEF Of, In
  <2>2. B \cap Z = {}
    BY <1>2 DEF Of
  <2>3. IsFiniteSet(Z) /\ Cardinality(Z) = Cardinality(X)
    <3> DEFINE f == [x \in X |-> g[x]]
    <3>1. /\ f \in [X -> Z] /\ \A x, y \in X : f[x] = f[y] => x = y
          /\ \A z \in Z : \E x \in X : f[x] = z
      BY <1>2
    <3>2. IsFiniteSet(X)
      BY Countable
    <3> HIDE DEF f, X, Z
    <3>3. f \in Bijection(X, Z)
      BY <3>1, Fun_IsBij
    <3>4. ExistsBijection(X, Z)
      BY <3>3 DEF ExistsBijection
    <3> QED
      BY <3>2, <3>4, FS_Bijection
  <2>4. IsFiniteSet(B) /\ Cardinality(B) \in Nat /\ Cardinality(X) \in Nat
    BY Countable DEF Count
  <2>5. Count(I, b, s) = Cardinality(B) /\ Count(I, a, s) = Cardinality(X)
    BY DEF Count
  <2> HIDE DEF B, Z, X
  <2>6. Cardinality(B \cup Z) = Cardinality(B) + Cardinality(X)
    <3>1. Cardinality(B \cup Z) = Cardinality(B) + Cardinality(Z) - Cardinality(B \cap Z)
      BY <2>3, <2>4, FS_Union
    <3>2. Cardinality(B \cap Z) = 0
      BY <2>2, FS_EmptySet
    <3> QED
      BY <2>3, <2>4, <3>1, <3>2
  <2> QED
    BY <2>1, <2>5, <2>6 DEF Count
<1> QED
  BY <1>3

(* What clients find, in the state and in the next one.                    *)
LEMMA FoundWalks == Found = Walks(info) /\ Found' = Walks(info')
BY DEF Found, Walks, Accessed

(* Destroying the memory of an array erases what is found of it, or ends    *)
(* the promise when it was all that some scope accesses.                   *)
LEMMA DeletePromised ==
  ASSUME Good(info), NEW a \in Arrays, Delete(a)
  PROVE  Promise!PErase(a) \/ Promise!PLose(a)
<1>0. Found = Counts(info)
  BY FoundWalks, WalksCount
<1>1. PICK visit \in Visits(info, a) :
        info' = Erased(info, a, visit) /\ missed' = Missed(info, a, visit)
  BY DEF Delete
<1>2. /\ Kept(info', missed') /\ info'.acc = Without(info.acc, Of(info, a))
      /\ missed' # {} => Emptied(info, a) # {}
  <2>1. a \in info.handles
    BY DEF Delete
  <2> QED
    BY <1>1, <2>1, ErasedKept
<1>3. CASE missed' = {}
  <2> DEFINE row == [t \in Scopes |-> 0]
  <2>1. Found' = Counts(info')
    BY <1>2, <1>3, KeptAll, FoundWalks, WalksCount
  <2>3. \A b, t : Count(info', b, t) = IF b = a THEN 0 ELSE Count(info, b, t)
    BY <1>2, ErasedCounts
  <2>4. [t \in Scopes |-> Count(info', a, t)] = row
    BY <2>3
  <2>5. \A b \in Arrays \ {a} : [t \in Scopes |-> Count(info', b, t)] = Found[b]
    BY <1>0, <2>3 DEF Counts
  <2> HIDE DEF row
  <2>6. Found' = [Found EXCEPT ![a] = row]
    BY <1>0, <2>1, <2>4, <2>5 DEF Counts
  <2> QED
    BY <1>3, <2>6 DEF Promise!PErase, row
<1>4. CASE missed' # {}
  <2>1. PICK s : s \in Emptied(info, a)
    BY <1>2, <1>4
  <2>2. s \in Scopes /\ s \in DOMAIN info.scopes /\ In(info, s) # {}
    BY <2>1 DEF Emptied, Good, GoodScopes
  <2>3. In(info, s) \subseteq Of(info, a)
    BY <2>1, <2>2, NotEmptied
  <2>4. Found[a][s] > 0
    <3>1. Of(info, a) \cap In(info, s) # {}
      BY <2>2, <2>3
    <3>2. IsFiniteSet(Of(info, a) \cap In(info, s)) /\ Count(info, a, s) \in Nat
      BY Countable
    <3>3. Count(info, a, s) # 0
      BY <3>1, <3>2, FS_EmptySet DEF Count
    <3>4. Found[a][s] = Count(info, a, s)
      BY <1>0, <2>2 DEF Counts
    <3> QED
      BY <3>2, <3>3, <3>4
  <2>5. ASSUME NEW b \in Arrays \ {a} PROVE Found[b][s] = 0
    <3>1. Of(info, b) \cap In(info, s) = {}
      BY <2>3 DEF Of
    <3>2. Count(info, b, s) = 0
      BY <3>1, FS_EmptySet DEF Count
    <3> QED
      BY <1>0, <2>2, <3>2 DEF Counts
  <2> QED
    BY <1>4, <2>2, <2>4, <2>5 DEF Promise!PLose
<1> QED
  BY <1>3, <1>4

(* Replacing the memory of an array moves what is found of it, or copies   *)
(* it when the handle was destroyed on the way.                            *)
LEMMA ReplacePromised ==
  ASSUME Good(info), NEW a \in Arrays, NEW m \in Arrays, Replace(a, m)
  PROVE  m # a /\ (Promise!PReplace(a, m) \/ Promise!PCopy(a, m))
<1>1. /\ Found = Counts(info) /\ Found' = Counts(info') /\ missed' = {}
      /\ m \in Arrays \ {a} /\ a \in info.handles
  BY GoodReplace, ReplaceFacts, FoundWalks, WalksCount
<1>2. PICK J : /\ Copying(info, J, m, Of(info, a))
               /\ \/ info' = J /\ m \notin info.handles
                  \/ \E visit \in Visits(J, a) : info' = Erased(J, a, visit)
  BY ReplaceFacts
<1>3. \A b, t : Count(J, b, t) =
                  IF b = m THEN Count(info, m, t) + Count(info, a, t) ELSE Count(info, b, t)
  BY <1>1, <1>2, CopiedCounts
<1>4. CASE info' = J /\ m \notin info.handles
  <2>1. \A t : Count(info, m, t) = 0 /\ Count(info, a, t) \in Nat
    <3>1. Of(info, m) = {}
      BY <1>4 DEF Good, GoodArrays
    <3>2. \A t : Of(info, m) \cap In(info, t) = {}
      BY <3>1
    <3> QED
      BY <3>2, FS_EmptySet, Countable DEF Count
  <2>2. \A t \in Scopes : Found[m][t] = 0
    BY <1>1, <2>1 DEF Counts
  <2>3. \A b, t : Count(info', b, t) = IF b = m THEN Count(info, a, t) ELSE Count(info, b, t)
    BY <1>3, <1>4, <2>1
  <2>4. [t \in Scopes |-> Count(info', m, t)] = Found[a]
    BY <1>1, <2>3 DEF Counts
  <2>5. \A b \in Arrays \ {m} : [t \in Scopes |-> Count(info', b, t)] = Found[b]
    BY <1>1, <2>3 DEF Counts
  <2>6. Found' = [Found EXCEPT ![m] = Found[a]]
    BY <1>1, <2>4, <2>5 DEF Counts
  <2> QED
    BY <1>1, <2>2, <2>6 DEF Promise!PCopy
<1>5. CASE \E visit \in Visits(J, a) : info' = Erased(J, a, visit)
  <2> DEFINE none == [t \in Scopes |-> 0]
             sum == [t \in Scopes |-> Found[m][t] + Found[a][t]]
  <2>3. Good(J) /\ a \in J.handles
    BY <1>1, <1>2, CopiesKeepScopes DEF Copying
  <2>4. info'.acc = Without(J.acc, Of(J, a))
    BY <1>5, <2>3, ErasedKept
  <2>5. \A b, t : Count(info', b, t) = IF b = a THEN 0 ELSE Count(J, b, t)
    BY <2>4, ErasedCounts
  <2>7. [t \in Scopes |-> Count(info', a, t)] = none
    BY <2>5
  <2>8. [t \in Scopes |-> Count(info', m, t)] = sum
    <3>1. \A t \in Scopes : Count(info', m, t) = Found[m][t] + Found[a][t]
      BY <1>1, <2>5, <1>3 DEF Counts
    <3> QED
      BY <3>1
  <2>9. \A b \in Arrays \ {a, m} : [t \in Scopes |-> Count(info', b, t)] = Found[b]
    BY <1>1, <2>5, <1>3 DEF Counts
  <2> HIDE DEF none, sum
  <2>10. Found' = [Found EXCEPT ![a] = none, ![m] = sum]
    BY <1>1, <2>7, <2>8, <2>9 DEF Counts
  <2>11. [Found EXCEPT ![a] = none][m] = Found[m]
    BY <1>1
  <2> QED
    BY <1>1, <2>10, <2>11 DEF Promise!PReplace, none, sum
<1> QED
  BY <1>1, <1>2, <1>4, <1>5

(* Every step keeps the promise.                                           *)
LEMMA StepPromised ==
  ASSUME Kept(info, missed), [Next]_vars
  PROVE  [Promise!PNext]_<<Found, (missed = {})>>
<1>0. CASE UNCHANGED vars
  BY <1>0, FoundWalks DEF vars
<1> SUFFICES ASSUME Next PROVE Promise!PNext
  BY <1>0
<1>1. Good(info) /\ Found = Counts(info) /\ missed = {}
  BY KeptAll, FoundWalks, WalksCount DEF Next
<1>3. ASSUME NEW a \in Arrays, NEW s \in Scopes, Add(a, s) PROVE Promise!PAdd(a, s)
  <2> DEFINE x == Min(Fresh(info))
             row == [t \in Scopes |-> Found[a][t] + IF t \in ToSet(Nest[s]) THEN 1 ELSE 0]
  <2>1. Fresh(info) # {} /\ info' = Added(info, x, a, Nest[s])
    BY <1>3 DEF Add
  <2>2. x \in Ids \ DOMAIN info.acc
    BY <2>1, Domains, MinMax DEF Fresh, Ids
  <2> HIDE DEF x
  <2>3. Good(info') /\ info'.acc = Put(info.acc, x, [array |-> a, parent |-> s])
    BY <1>1, <2>1, <2>2, AddedGood
  <2>8. Found' = Counts(info') /\ missed' = {}
    BY <1>1, <1>3, <2>3, FoundWalks, WalksCount DEF Add
  <2>4. \A b, t : /\ Count(info, b, t) \in Nat
                  /\ Count(info', b, t) =
                       IF b = a /\ t \in Chain(s) THEN Count(info, b, t) + 1 ELSE Count(info, b, t)
    <3> HIDE DEF row
    <3>1. \A b, t : Count(info, b, t) \in Nat
      BY <1>1, Countable
    <3>2. \A b, t : Count(info', b, t) =
                     IF b = a /\ t \in Chain(s) THEN Count(info, b, t) + 1 ELSE Count(info, b, t)
      BY <1>1, <2>2, <2>3, AddedCounts
    <3> QED
      BY <3>1, <3>2
  <2>5. [t \in Scopes |-> Count(info', a, t)] = row
    <3>1. \A t \in Scopes : Count(info', a, t) = Found[a][t] + IF t \in ToSet(Nest[s]) THEN 1 ELSE 0
      BY <1>1, <2>4 DEF Counts, Chain
    <3> QED
      BY <3>1
  <2>6. \A b \in Arrays \ {a} : [t \in Scopes |-> Count(info', b, t)] = Found[b]
    BY <1>1, <2>4 DEF Counts
  <2> HIDE DEF row
  <2>7. Found' = [Found EXCEPT ![a] = row]
    BY <1>1, <2>5, <2>6, <2>8 DEF Counts
  <2> QED
    BY <2>7, <2>8 DEF Promise!PAdd, row, ToSet, Promise!ToSet
<1>4. ASSUME NEW a \in Arrays, Delete(a) PROVE Promise!PErase(a) \/ Promise!PLose(a)
  BY <1>1, <1>4, DeletePromised
<1>5. ASSUME NEW a \in Arrays, NEW m \in Arrays, Replace(a, m)
      PROVE  m # a /\ (Promise!PReplace(a, m) \/ Promise!PCopy(a, m))
  BY <1>1, <1>5, ReplacePromised
<1> QED
  BY <1>1, <1>3, <1>4, <1>5 DEF Next, Promise!PNext

(* The lists keep the promise: clients find in every scope the accesses to *)
(* every array the scope contains, whatever is added, erased or replaced,  *)
(* until the memory is destroyed that is all some scope accesses.          *)
THEOREM AccessPromiseKept == Spec => ImplementsPromise
<1>1. Init => Promise!PInit
  <2> SUFFICES ASSUME Init PROVE Promise!PInit
    OBVIOUS
  <2>1. (\A a, s : ~Accessed(info, a, s)) /\ missed = {}
    BY DEF Init, Accessed
  <2>2. Found = Walks(info)
    BY DEF Found, Walks, Accessed
  <2> QED
    BY <2>1, <2>2 DEF Walks, Promise!PInit
<1>2. Kept(info, missed) /\ [Next]_vars => [Promise!PNext]_<<Found, (missed = {})>>
  BY StepPromised
<1> QED
  BY <1>1, <1>2, AlwaysKept, PTL DEF Spec, ImplementsPromise, Promise!PSpec
=============================================================================
