------------------------ MODULE DIMemoryHandle_proofs ------------------------
(* The handle lists stay linked and complete, nothing watches destroyed    *)
(* memory, and the lists keep the promise of MemoryHandles, for all sets   *)
(* of locations and handles.  Every operation on the lists keeps Sane,     *)
(* which adds to WellLinked that the lists have no cycles (a walk needs    *)
(* it: the iterator never follows itself) and that handles without memory  *)
(* have no links.  Noticing says who may still watch what a walk is about. *)
EXTENDS DIMemoryHandle, Naturals, WellFoundedInduction, TLAPS

(* The links from a handle to the next one go up.                          *)
Ranked(hp, r) ==
  /\ r \in [All -> Nat]
  /\ \A g \in All : hp.next[g] # Null => r[g] < r[hp.next[g]]
Acyclic(hp) == \E r : Ranked(hp, r)

(* The links, without their order.                                         *)
Unlinked(hp) ==
  \A g \in All : hp.mem[g] = Null => hp.next[g] = Null /\ hp.prev[g] = Null
Backward(hp) ==
  \A g \in All :
    hp.mem[g] # Null =>
      \/ hp.prev[g] \in Memories /\ hp.head[hp.prev[g]] = g
      \/ hp.prev[g] \in All /\ hp.next[hp.prev[g]] = g
Forward(hp) ==
  \A g \in All :
    hp.next[g] # Null =>
      hp.mem[hp.next[g]] = hp.mem[g] /\ hp.prev[hp.next[g]] = g
Headed(hp) ==
  \A m \in Memories :
    /\ m \in hp.flagged <=> hp.head[m] # Null
    /\ hp.head[m] # Null =>
         hp.mem[hp.head[m]] = m /\ hp.prev[hp.head[m]] = m

Linking(hp) == Unlinked(hp) /\ Backward(hp) /\ Forward(hp) /\ Headed(hp)
Sane(hp) == hp \in Heaps /\ Linking(hp) /\ Acyclic(hp)

-----------------------------------------------------------------------------
(* The operations on lists.                                                *)

(* What removal does, field by field.                                      *)
Removed(hp, hq, h) ==
  LET p == hp.prev[h]
      n == hp.next[h]
  IN /\ hq \in Heaps
     /\ \A g \in All :
          /\ hq.mem[g] = IF g = h THEN Null ELSE hp.mem[g]
          /\ hq.next[g] = IF g = h THEN Null
                          ELSE IF g = p THEN n ELSE hp.next[g]
          /\ hq.prev[g] = IF g = h THEN Null
                          ELSE IF g = n THEN p ELSE hp.prev[g]
     /\ \A m \in Memories : hq.head[m] = IF m = p THEN n ELSE hp.head[m]
     /\ hq.flagged = IF n = Null /\ p \in Memories
                       THEN hp.flagged \ {hp.mem[h]} ELSE hp.flagged

(* What unlinking a handle does to the fields of a heap.                   *)
LEMMA UnwatchFields ==
  ASSUME NEW hp \in Heaps, NEW h \in All, hp.mem[h] # Null
  PROVE  Removed(hp, Unwatch(hp, h), h)
PROOF
  BY Domains DEF Removed, Unwatch, RemoveFromUseList, Heaps

(* Removal keeps the links.                                                *)
LEMMA UnwatchLinking ==
  ASSUME NEW hp \in Heaps, Linking(hp), NEW h \in All, hp.mem[h] # Null
  PROVE  Linking(Unwatch(hp, h))
<1> DEFINE hq == Unwatch(hp, h)
           p == hp.prev[h]
           n == hp.next[h]
<1>1. Removed(hp, hq, h)
  BY UnwatchFields
<1> HIDE DEF hq
<1>2. /\ p \in Memories \cup All \cup {Null} /\ n \in All \cup {Null}
      /\ Null \notin Memories \cup All /\ Memories \cap All = {}
  BY Domains DEF Heaps
<1>3. Unlinked(hq)
  BY <1>1, <1>2 DEF Removed, Linking, Unlinked, Forward, Backward
<1>4. Backward(hq)
  BY <1>1, <1>2 DEF Removed, Linking, Unlinked, Forward, Backward, Heaps
<1>5. Forward(hq)
  BY <1>1, <1>2 DEF Removed, Linking, Unlinked, Forward, Backward, Heaps
<1>6. Headed(hq)
  <2> SUFFICES ASSUME NEW k \in Memories
               PROVE  /\ k \in hq.flagged <=> hq.head[k] # Null
                      /\ hq.head[k] # Null =>
                           hq.mem[hq.head[k]] = k /\ hq.prev[hq.head[k]] = k
    BY DEF Headed
  <2>1. hp.head[k] \in All \cup {Null} /\ hp.flagged \subseteq Memories
    BY DEF Heaps
  <2>2. CASE k = p
    <3>1. hp.head[k] = h /\ hp.mem[h] = k /\ k \in hp.flagged
      BY <1>2, <2>2 DEF Linking, Backward, Headed
    <3>2. hq.head[k] = n /\ (n # Null => n # h)
      BY <1>1, <1>2, <2>2, <3>1 DEF Removed, Linking, Forward
    <3> QED
      BY <1>1, <1>2, <2>2, <3>1, <3>2 DEF Removed, Linking, Forward
  <2>3. CASE k # p
    <3>1. hq.head[k] = hp.head[k] /\ hp.head[k] # h
      BY <1>1, <1>2, <2>3 DEF Removed, Linking, Headed
    <3>2. hp.head[k] # Null => hp.head[k] # n
      BY <1>2 DEF Linking, Headed, Forward
    <3>3. k \in hq.flagged <=> k \in hp.flagged
      BY <1>1, <1>2, <2>3 DEF Removed, Linking, Backward, Headed
    <3> QED
      BY <1>1, <1>2, <2>1, <3>1, <3>2, <3>3 DEF Removed, Linking, Headed
  <2> QED
    BY <2>2, <2>3
<1> QED
  BY <1>3, <1>4, <1>5, <1>6 DEF Linking, hq


(* What insertion of a handle of m does to the fields, where p points.     *)
Inserted(hp, hq, h, m, p) ==
  LET n == Pointee(hp, p)
  IN /\ hq \in Heaps
     /\ \A g \in All :
          /\ hq.mem[g] = IF g = h THEN m ELSE hp.mem[g]
          /\ hq.next[g] = IF g = h THEN n ELSE IF g = p THEN h ELSE hp.next[g]
          /\ hq.prev[g] = IF g = h THEN p ELSE IF g = n THEN h ELSE hp.prev[g]
     /\ \A k \in Memories : hq.head[k] = IF k = p THEN h ELSE hp.head[k]
     /\ hq.flagged = hp.flagged \cup {m}

(* A place in the list of m: its bucket or one of its handles.             *)
PlaceOf(hp, m, p) == p = m \/ (p \in All /\ hp.mem[p] = m /\ m \in hp.flagged)

(* Insertion keeps the links.                                              *)
LEMMA InsertLinking ==
  ASSUME NEW hp \in Heaps, Linking(hp), NEW h \in All, hp.mem[h] = Null,
         NEW m \in Memories, NEW p, PlaceOf(hp, m, p),
         NEW hq, Inserted(hp, hq, h, m, p)
  PROVE  Linking(hq)
<1> DEFINE n == Pointee(hp, p)
<1>1. /\ p \in Memories \cup All /\ n \in All \cup {Null} /\ p # h
      /\ Null \notin Memories \cup All /\ Memories \cap All = {}
  BY Domains DEF Heaps, PlaceOf, Pointee
<1>2. n # Null => n # h /\ hp.mem[n] = m /\ hp.prev[n] = p
  BY <1>1 DEF PlaceOf, Pointee, Linking, Forward, Headed
<1>3. Unlinked(hq)
  BY <1>1, <1>2 DEF Inserted, Linking, Unlinked, PlaceOf
<1>4. Backward(hq)
  BY <1>1, <1>2 DEF Inserted, Linking, Unlinked, Backward, PlaceOf, Pointee, Heaps
<1>5. Forward(hq)
  BY <1>1, <1>2 DEF Inserted, Linking, Unlinked, Forward, PlaceOf, Pointee, Heaps
<1>6. Headed(hq)
  BY <1>1, <1>2 DEF Inserted, Linking, Unlinked, Forward, Headed, PlaceOf, Pointee, Heaps
<1> QED
  BY <1>3, <1>4, <1>5, <1>6 DEF Linking

(* Removal keeps the order.                                                *)
LEMMA UnwatchAcyclic ==
  ASSUME NEW hp \in Heaps, Linking(hp), Acyclic(hp),
         NEW h \in All, hp.mem[h] # Null
  PROVE  Acyclic(Unwatch(hp, h))
<1> DEFINE hq == Unwatch(hp, h)
           p == hp.prev[h]
           n == hp.next[h]
<1>1. PICK r : Ranked(hp, r)
  BY DEF Acyclic
<1>a. Removed(hp, hq, h)
  BY UnwatchFields
<1> HIDE DEF hq
<1>2. \A g \in All : hq.next[g] = IF g = h THEN Null
                                  ELSE IF g = p THEN n ELSE hp.next[g]
  BY <1>a DEF Removed
<1>3. p \in All => hp.next[p] = h
  BY Domains DEF Linking, Backward
<1>4. n \in All \cup {Null} /\ Null \notin All
  BY Domains DEF Heaps
<1>5. Ranked(hq, r)
  <2>1. r \in [All -> Nat]
    BY <1>1 DEF Ranked
  <2>2. ASSUME NEW g \in All, hq.next[g] # Null PROVE r[g] < r[hq.next[g]]
    <3>1. CASE g = p /\ g # h
      <4>1. hq.next[g] = n /\ n # Null
        BY <1>2, <2>2, <3>1
      <4>2. r[p] < r[h] /\ r[h] < r[n]
        BY <1>1, <1>3, <1>4, <3>1, <4>1 DEF Ranked
      <4> QED
        BY <1>4, <2>1, <3>1, <4>1, <4>2
    <3>2. CASE g # p \/ g = h
      BY <1>1, <1>2, <2>2, <3>2 DEF Ranked
    <3> QED
      BY <3>1, <3>2
  <2> QED
    BY <2>1, <2>2 DEF Ranked
<1> QED
  BY <1>5 DEF Acyclic, hq

(* Insertion keeps the order: the handles behind the place move up.        *)
LEMMA InsertAcyclic ==
  ASSUME NEW hp \in Heaps, Linking(hp), Acyclic(hp),
         NEW h \in All, hp.mem[h] = Null,
         NEW m \in Memories, NEW p, PlaceOf(hp, m, p),
         NEW hq, Inserted(hp, hq, h, m, p)
  PROVE  Acyclic(hq)
<1> DEFINE n == Pointee(hp, p)
<1>1. PICK r : Ranked(hp, r)
  BY DEF Acyclic
<1>2. /\ p \in Memories \cup All /\ n \in All \cup {Null} /\ p # h
      /\ Null \notin Memories \cup All /\ Memories \cap All = {}
  BY Domains DEF Heaps, PlaceOf, Pointee
<1>3. n # Null => n # h
  BY <1>2 DEF PlaceOf, Pointee, Linking, Forward, Headed
<1>4. \A g \in All : hp.next[g] # h
  BY <1>2, Domains DEF Linking, Forward, Unlinked, Backward, Heaps
<1>5. r \in [All -> Nat]
  BY <1>1 DEF Ranked
<1>6. \A g \in All : hp.next[g] \in All \cup {Null}
  BY DEF Heaps
<1>7. CASE n = Null
  <2> DEFINE s == [g \in All |-> IF g = h
                                  THEN IF p \in All THEN r[p] + 1 ELSE 0
                                  ELSE r[g]]
  <2>1. s \in [All -> Nat]
    BY <1>5
  <2>2. ASSUME NEW g \in All, hq.next[g] # Null PROVE s[g] < s[hq.next[g]]
    <3>1. CASE g = p
      BY <1>2, <1>5, <2>2, <3>1 DEF Inserted
    <3>2. CASE g # p
      <4>1. g # h /\ hq.next[g] = hp.next[g]
        BY <1>7, <2>2, <3>2 DEF Inserted
      <4>2. r[g] < r[hp.next[g]] /\ hp.next[g] \in All /\ hp.next[g] # h
        BY <1>1, <1>4, <1>6, <2>2, <4>1 DEF Ranked
      <4> QED
        BY <4>1, <4>2
    <3> QED
      BY <3>1, <3>2
  <2>3. Ranked(hq, s)
    BY <2>1, <2>2 DEF Ranked
  <2> QED
    BY <2>3 DEF Acyclic
<1>8. CASE n # Null
  <2> DEFINE s == [g \in All |-> IF g = h THEN r[n]
                                  ELSE IF r[g] >= r[n] THEN r[g] + 1 ELSE r[g]]
  <2>1. n \in All /\ n # h /\ s \in [All -> Nat]
    BY <1>2, <1>3, <1>5, <1>8
  <2>2. ASSUME NEW g \in All, hq.next[g] # Null PROVE s[g] < s[hq.next[g]]
    <3>1. CASE g = h
      <4>1. hq.next[g] = n /\ s[n] = r[n] + 1 /\ s[g] = r[n]
        BY <1>5, <2>1, <3>1 DEF Inserted
      <4> QED
        BY <1>5, <2>1, <4>1
    <3>2. CASE g = p /\ g # h
      <4>1. hq.next[g] = h /\ hp.next[g] = n
        BY <1>2, <3>2 DEF Inserted, Pointee
      <4>2. r[g] < r[n]
        BY <1>1, <1>8, <4>1 DEF Ranked
      <4>3. s[g] = r[g] /\ s[h] = r[n]
        BY <1>5, <2>1, <3>2, <4>2
      <4> QED
        BY <4>1, <4>2, <4>3
    <3>3. CASE g # p /\ g # h
      <4>1. hq.next[g] = hp.next[g]
        BY <3>3 DEF Inserted
      <4>2. r[g] < r[hp.next[g]] /\ hp.next[g] \in All /\ hp.next[g] # h
        BY <1>1, <1>4, <1>6, <2>2, <4>1 DEF Ranked
      <4> QED
        BY <1>5, <2>1, <3>3, <4>1, <4>2
    <3> QED
      BY <3>1, <3>2, <3>3
  <2>3. Ranked(hq, s)
    BY <2>1, <2>2 DEF Ranked
  <2> QED
    BY <2>3 DEF Acyclic
<1> QED
  BY <1>7, <1>8

(* Every nonempty set of natural numbers has a least element.              *)
LEMMA LeastElement ==
  ASSUME NEW S \in SUBSET Nat, S # {}
  PROVE  \E x \in S : \A y \in S : x <= y
<1>1. PICK x \in S : \A y \in S : ~(<<y, x>> \in OpToRel(<, Nat))
  BY NatLessThanWellFounded, WFMin
<1>2. \A y \in S : ~(y < x)
  BY <1>1 DEF OpToRel
<1> QED
  BY <1>2

(* A watched location has a list: the handle of least rank begins it.      *)
LEMMA WatchedIsFlagged ==
  ASSUME NEW hp, Sane(hp), NEW h \in All, hp.mem[h] # Null
  PROVE  /\ hp.mem[h] \in Memories /\ hp.mem[h] \in hp.flagged
         /\ hp.head[hp.mem[h]] \in All
<1> DEFINE m == hp.mem[h]
           S == {g \in All : hp.mem[g] = m}
<1>1. PICK r : Ranked(hp, r)
  BY DEF Sane, Acyclic
<1>2. /\ m \in Memories /\ Null \notin Memories \cup All
      /\ Memories \cap All = {}
  BY Domains DEF Sane, Heaps
<1>3. {r[g] : g \in S} \in SUBSET Nat /\ {r[g] : g \in S} # {}
  BY <1>1 DEF Ranked
<1>4. PICK x \in {r[g] : g \in S} : \A y \in {r[g] : g \in S} : x <= y
  BY <1>3, LeastElement
<1>5. PICK f \in S : r[f] = x
  OBVIOUS
<1>6. hp.prev[f] \notin All \/ hp.next[hp.prev[f]] # f
  <2> SUFFICES ASSUME hp.prev[f] \in All, hp.next[hp.prev[f]] = f PROVE FALSE
    OBVIOUS
  <2>1. hp.mem[hp.prev[f]] = m /\ r[hp.prev[f]] < r[f]
    BY <1>1, <1>2 DEF Sane, Linking, Forward, Ranked
  <2>2. r[hp.prev[f]] \in {r[g] : g \in S}
    BY <2>1
  <2>3. r[f] <= r[hp.prev[f]] /\ r[hp.prev[f]] \in Nat /\ r[f] \in Nat
    BY <1>1, <1>4, <1>5, <2>2 DEF Ranked
  <2> QED
    BY <2>1, <2>3
<1>7. hp.prev[f] \in Memories /\ hp.head[hp.prev[f]] = f
  BY <1>2, <1>6 DEF Sane, Linking, Backward
<1>8. hp.prev[f] = m
  BY <1>2, <1>7 DEF Sane, Linking, Headed
<1> QED
  BY <1>2, <1>7, <1>8 DEF Sane, Linking, Headed

(* The handles that watch something in the heap hq are those of hp, except *)
(* that h watches m.                                                       *)
Rewatched(hp, hq, h, m) ==
  \A g \in All : hq.mem[g] = IF g = h THEN m ELSE hp.mem[g]

(* Unlinking keeps the heap well-formed.                                   *)
LEMMA UnwatchSane ==
  ASSUME NEW hp, Sane(hp), NEW h \in All
  PROVE  Sane(Unwatch(hp, h)) /\ Rewatched(hp, Unwatch(hp, h), h, Null)
<1>1. CASE hp.mem[h] # Null
  <2>1. Removed(hp, Unwatch(hp, h), h)
    BY <1>1, UnwatchFields DEF Sane
  <2>2. Linking(Unwatch(hp, h)) /\ Acyclic(Unwatch(hp, h))
    BY <1>1, UnwatchLinking, UnwatchAcyclic DEF Sane
  <2>3. Unwatch(hp, h) \in Heaps
    BY <2>1 DEF Removed
  <2>4. Rewatched(hp, Unwatch(hp, h), h, Null)
    BY <2>1 DEF Removed, Rewatched
  <2> QED
    BY <2>2, <2>3, <2>4 DEF Sane
<1>2. CASE hp.mem[h] = Null
  <2>1. Unwatch(hp, h) = [hp EXCEPT !.mem[h] = Null]
    BY <1>2 DEF Unwatch
  <2>2. [hp EXCEPT !.mem[h] = Null] = hp
    BY <1>2 DEF Sane, Heaps
  <2> QED
    BY <1>2, <2>1, <2>2 DEF Rewatched
<1> QED
  BY <1>1, <1>2

(* So does linking a handle after another,                                 *)
LEMMA InsertedSane ==
  ASSUME NEW hp, Sane(hp), NEW h \in All, hp.mem[h] = Null,
         NEW m \in Memories, NEW p, PlaceOf(hp, m, p),
         NEW hq, Inserted(hp, hq, h, m, p)
  PROVE  Sane(hq) /\ Rewatched(hp, hq, h, m)
<1>1. hp \in Heaps /\ Linking(hp) /\ Acyclic(hp)
  BY DEF Sane
<1>2. Linking(hq) /\ Acyclic(hq)
  BY <1>1, InsertLinking, InsertAcyclic
<1> QED
  BY <1>2 DEF Sane, Rewatched, Inserted

(* A handle of a flagged location is inserted without moving the table.    *)
LEMMA AddToExistingFields ==
  ASSUME NEW hp, Sane(hp), NEW h \in All, hp.mem[h] = Null,
         NEW m \in hp.flagged, NEW p, PlaceOf(hp, m, p)
  PROVE  Inserted(hp, AddToExistingUseList([hp EXCEPT !.mem[h] = m], h, p),
                  h, m, p)
<1> DEFINE hm == [hp EXCEPT !.mem[h] = m]
<1>1. /\ m \in Memories /\ p \in Memories \cup All
      /\ Pointee(hp, p) \in All \cup {Null}
  BY Domains DEF Sane, Heaps, PlaceOf, Pointee
<1>2. /\ hm \in Heaps /\ Pointee(hm, p) = Pointee(hp, p)
      /\ hm.next = hp.next /\ hm.head = hp.head /\ hm.prev = hp.prev
      /\ hm.flagged = hp.flagged
      /\ \A g \in All : hm.mem[g] = IF g = h THEN m ELSE hp.mem[g]
  BY <1>1 DEF Sane, Heaps, Pointee
<1> HIDE DEF hm
<1>3. Inserted(hp, AddToExistingUseList(hm, h, p), h, m, p)
  BY <1>1, <1>2 DEF AddToExistingUseList, Inserted, Heaps
<1> QED
  BY <1>3 DEF hm

(* A copy goes in front of what it is copied from.                         *)
LEMMA WatchLikeFields ==
  ASSUME NEW hp, Sane(hp), NEW h \in All, NEW g \in All, hp.mem[h] = Null,
         hp.mem[g] # Null
  PROVE  /\ hp.mem[g] \in Memories /\ PlaceOf(hp, hp.mem[g], hp.prev[g])
         /\ Inserted(hp, WatchLike(hp, h, g), h, hp.mem[g], hp.prev[g])
<1> DEFINE m == hp.mem[g]
           p == hp.prev[g]
<1>1. m \in Memories /\ m \in hp.flagged
  BY WatchedIsFlagged
<1>2. PlaceOf(hp, m, p)
  <2>1. CASE p \in Memories /\ hp.head[p] = g
    BY <2>1, Domains DEF Sane, Linking, Headed, PlaceOf
  <2>2. CASE p \in All /\ hp.next[p] = g
    BY <1>1, <2>2, Domains DEF Sane, Linking, Forward, PlaceOf
  <2> QED
    BY <2>1, <2>2 DEF Sane, Linking, Backward
<1>3. WatchLike(hp, h, g) = AddToExistingUseList([hp EXCEPT !.mem[h] = m], h, p)
  BY DEF WatchLike
<1> HIDE DEF m, p
<1>4. Inserted(hp, WatchLike(hp, h, g), h, m, p)
  BY <1>1, <1>2, <1>3, AddToExistingFields
<1> QED
  BY <1>1, <1>2, <1>4 DEF m, p

(* linking a handle into the list of another,                              *)
LEMMA WatchLikeSane ==
  ASSUME NEW hp, Sane(hp), NEW h \in All, NEW g \in All, hp.mem[h] = Null
  PROVE  /\ Sane(WatchLike(hp, h, g))
         /\ Rewatched(hp, WatchLike(hp, h, g), h, hp.mem[g])
<1>1. CASE hp.mem[g] = Null
  BY <1>1 DEF WatchLike, Rewatched
<1>2. CASE hp.mem[g] # Null
  BY <1>2, WatchLikeFields, InsertedSane
<1> QED
  BY <1>1, <1>2

(* The first handle of a location, whether the table moves or not.         *)
LEMMA AddToUseListFields ==
  ASSUME NEW hp, Sane(hp), NEW h \in All, hp.mem[h] = Null,
         NEW m \in Memories \ hp.flagged, NEW moves \in BOOLEAN
  PROVE  Inserted(hp, AddToUseList([hp EXCEPT !.mem[h] = m], h, moves), h, m, m)
<1> DEFINE hm == [hp EXCEPT !.mem[h] = m]
           base == IF moves THEN Moved(hm) ELSE hm
           added == [AddToExistingUseList(base, h, m)
                       EXCEPT !.flagged = @ \cup {m}]
           hq == AddToUseList(hm, h, moves)
<1>1. /\ Null \notin Memories \cup All /\ Memories \cap All = {}
      /\ hp.head[m] = Null
  BY Domains DEF Sane, Linking, Headed
<1>2. /\ hm \in Heaps /\ hm.next = hp.next /\ hm.head = hp.head
      /\ hm.prev = hp.prev /\ hm.flagged = hp.flagged /\ hm.mem[h] = m
      /\ \A g \in All : hm.mem[g] = IF g = h THEN m ELSE hp.mem[g]
  BY DEF Sane, Heaps
<1> HIDE DEF hm
<1>3. /\ base \in Heaps /\ base.next = hp.next /\ base.head = hp.head
      /\ base.mem = hm.mem /\ base.flagged = hp.flagged
      /\ \A g \in All :
           base.prev[g] = IF moves /\ hp.prev[g] \in Memories THEN Null
                          ELSE hp.prev[g]
  BY <1>1, <1>2 DEF Moved, Heaps
<1> HIDE DEF base
<1>4. /\ added \in Heaps /\ added.mem = hm.mem
      /\ added.flagged = hp.flagged \cup {m}
      /\ \A g \in All :
           /\ added.next[g] = IF g = h THEN Null ELSE hp.next[g]
           /\ added.prev[g] = IF g = h THEN m ELSE base.prev[g]
      /\ \A k \in Memories : added.head[k] = IF k = m THEN h ELSE hp.head[k]
  <2> DEFINE ex == AddToExistingUseList(base, h, m)
  <2>1. Pointee(base, m) = Null
    BY <1>1, <1>3 DEF Pointee
  <2>2. /\ ex.next = [g \in All |-> IF g = h THEN Null
                                    ELSE IF g = m THEN h ELSE hp.next[g]]
        /\ ex.head = [k \in Memories |-> IF k = m THEN h ELSE hp.head[k]]
        /\ ex.prev = [g \in All |-> IF g = h THEN m
                                    ELSE IF g = Null THEN h ELSE base.prev[g]]
        /\ ex.mem = hm.mem /\ ex.flagged = hp.flagged
    BY <1>3, <2>1 DEF AddToExistingUseList, Heaps
  <2>3. ex \in Heaps
    <3>1. ex.next \in [All -> All \cup {Null}]
      BY <2>2 DEF Sane, Heaps
    <3>2. ex.head \in [Memories -> All \cup {Null}]
      BY <2>2 DEF Sane, Heaps
    <3>3. ex.prev \in [All -> Memories \cup All \cup {Null}]
      BY <1>3, <2>2 DEF Heaps
    <3>4. ex = [base EXCEPT !.next = ex.next, !.head = ex.head, !.prev = ex.prev]
      BY <1>3 DEF AddToExistingUseList, Heaps
    <3> HIDE DEF ex
    <3> QED
      BY <1>3, <3>1, <3>2, <3>3, <3>4 DEF Heaps
  <2> HIDE DEF ex
  <2>4. added = [ex EXCEPT !.flagged = @ \cup {m}]
    BY DEF ex
  <2>5. /\ added \in Heaps /\ added.mem = ex.mem /\ added.next = ex.next
        /\ added.prev = ex.prev /\ added.head = ex.head
        /\ added.flagged = ex.flagged \cup {m}
    BY <2>3, <2>4 DEF Heaps
  <2> QED
    BY <1>1, <2>2, <2>5
<1>5. hq = IF moves /\ Buckets(added) # {m} THEN Fixed(added) ELSE added
  BY <1>2 DEF AddToUseList, base
<1> HIDE DEF added, hq
<1> DEFINE Fields ==
             /\ hq \in Heaps /\ hq.mem = hm.mem
             /\ hq.flagged = hp.flagged \cup {m}
             /\ hq.next = added.next /\ hq.head = added.head
             /\ \A g \in All : hq.prev[g] = IF g = h THEN m ELSE hp.prev[g]
<1>b. ASSUME Fields PROVE Inserted(hp, hq, h, m, m)
  <2>1. Pointee(hp, m) = Null
    BY <1>1 DEF Pointee
  <2>2. ASSUME NEW g \in All
        PROVE  /\ hq.mem[g] = IF g = h THEN m ELSE hp.mem[g]
               /\ hq.next[g] = IF g = h THEN Null
                               ELSE IF g = m THEN h ELSE hp.next[g]
               /\ hq.prev[g] = IF g = h THEN m
                               ELSE IF g = Null THEN h ELSE hp.prev[g]
    BY <1>1, <1>2, <1>4, <1>b
  <2>3. \A k \in Memories : hq.head[k] = IF k = m THEN h ELSE hp.head[k]
    BY <1>4, <1>b
  <2> QED
    BY <1>b, <2>1, <2>2, <2>3 DEF Inserted
<1>6. \A g \in All : hp.prev[g] \in Memories =>
        hp.head[hp.prev[g]] = g /\ hp.prev[g] # m /\ g # h
  BY <1>1 DEF Sane, Linking, Unlinked, Backward
<1>7. \A g \in All, k \in Memories : hp.head[k] = g => hp.prev[g] = k
  BY <1>1 DEF Sane, Linking, Headed
<1>8. CASE ~moves
  <2>1. hq = added
    BY <1>5, <1>8
  <2> QED
    <3>1. Fields
      BY <1>3, <1>4, <1>8, <2>1
    <3> QED
      BY <1>b, <3>1 DEF hq, hm
<1>9. CASE moves /\ Buckets(added) = {m}
  <2>1. hq = added
    BY <1>5, <1>9
  <2>2. ASSUME NEW g \in All, g # h PROVE hp.prev[g] \notin Memories
    <3> SUFFICES ASSUME hp.prev[g] \in Memories PROVE FALSE
      OBVIOUS
    <3>1. added.head[hp.prev[g]] = g
      BY <1>4, <1>6
    <3>2. hp.prev[g] \in Buckets(added)
      BY <1>1, <3>1 DEF Buckets
    <3> QED
      BY <1>6, <1>9, <3>2
  <2>3. \A g \in All : hq.prev[g] = IF g = h THEN m ELSE hp.prev[g]
    BY <1>3, <1>4, <2>1, <2>2
  <2> QED
    <3>1. Fields
      BY <1>4, <2>1, <2>3
    <3> QED
      BY <1>b, <3>1 DEF hq, hm
<1>10. CASE moves /\ Buckets(added) # {m}
  <2>1. hq = Fixed(added)
    BY <1>5, <1>10
  <2>2. ASSUME NEW g \in All
        PROVE  hq.prev[g] = IF g = h THEN m ELSE hp.prev[g]
    <3>1. hq.prev[g] = IF \E k \in Memories : added.head[k] = g
                         THEN CHOOSE k \in Memories : added.head[k] = g
                         ELSE added.prev[g]
      BY <1>4, <2>1 DEF Fixed, Heaps
    <3>2. CASE g = h
      <4>1. added.head[m] = g
        BY <1>4, <3>2
      <4>2. ASSUME NEW k \in Memories, added.head[k] = g PROVE k = m
        <5>1. hp.mem[g] = Null
          BY <3>2
        <5>2. hp.head[k] = g => FALSE
          BY <1>1, <5>1 DEF Sane, Linking, Headed
        <5> QED
          BY <1>4, <4>2, <5>2
      <4> QED
        BY <3>1, <3>2, <4>1, <4>2
    <3>3. CASE g # h /\ hp.prev[g] \in Memories
      <4>1. added.head[hp.prev[g]] = g
        BY <1>4, <1>6, <3>3
      <4>2. ASSUME NEW k \in Memories, added.head[k] = g
            PROVE  k = hp.prev[g]
        BY <1>4, <1>7, <3>3, <4>2
      <4> QED
        BY <3>1, <3>3, <4>1, <4>2
    <3>4. CASE g # h /\ hp.prev[g] \notin Memories
      <4>1. ~\E k \in Memories : added.head[k] = g
        BY <1>4, <1>7, <3>4
      <4> QED
        BY <1>3, <1>4, <3>1, <3>4, <4>1
    <3> QED
      BY <3>2, <3>3, <3>4
  <2>3. /\ hq.mem = added.mem /\ hq.next = added.next
        /\ hq.head = added.head /\ hq.flagged = added.flagged
    BY <1>4, <2>1 DEF Fixed, Heaps
  <2>4. hq \in Heaps
    <3>1. Fixed(added).prev \in [All -> Memories \cup All \cup {Null}]
      BY <1>4 DEF Fixed, Heaps
    <3> QED
      BY <1>4, <2>1, <3>1 DEF Fixed, Heaps
  <2> QED
    <3>1. Fields
      BY <1>4, <2>2, <2>3, <2>4
    <3> QED
      BY <1>b, <3>1 DEF hq, hm
<1> QED
  BY <1>8, <1>9, <1>10 DEF hq, hm

(* A handle of a location goes to the front of its list.                   *)
LEMMA WatchFields ==
  ASSUME NEW hp, Sane(hp), NEW h \in All, hp.mem[h] = Null,
         NEW m \in Memories, NEW moves \in BOOLEAN
  PROVE  PlaceOf(hp, m, m) /\ Inserted(hp, Watch(hp, h, m, moves), h, m, m)
<1> DEFINE hm == [hp EXCEPT !.mem[h] = m]
<1>1. PlaceOf(hp, m, m)
  BY DEF PlaceOf
<1>2. Watch(hp, h, m, moves) = AddToUseList(hm, h, moves)
  BY Domains DEF Watch
<1>3. CASE m \in hp.flagged
  <2>1. hm.mem[h] = m /\ m \in hm.flagged
    BY <1>3 DEF Sane, Heaps
  <2> HIDE DEF hm
  <2>2. AddToUseList(hm, h, moves) = AddToExistingUseList(hm, h, m)
    BY <2>1 DEF AddToUseList
  <2>3. Watch(hp, h, m, moves)
          = AddToExistingUseList([hp EXCEPT !.mem[h] = m], h, m)
    BY <1>2, <2>2 DEF hm
  <2> QED
    BY <1>1, <1>3, <2>3, AddToExistingFields
<1>4. CASE m \notin hp.flagged
  BY <1>1, <1>2, <1>4, AddToUseListFields
<1> QED
  BY <1>3, <1>4

(* adding a handle to the list of a location,                              *)
LEMMA WatchSane ==
  ASSUME NEW hp, Sane(hp), NEW h \in All, hp.mem[h] = Null,
         NEW m \in Memories \cup {Null}, NEW moves \in BOOLEAN
  PROVE  /\ Sane(Watch(hp, h, m, moves))
         /\ Rewatched(hp, Watch(hp, h, m, moves), h, m)
<1>1. CASE m = Null
  BY <1>1 DEF Watch, Rewatched
<1>2. CASE m \in Memories
  BY <1>2, WatchFields, InsertedSane
<1> QED
  BY <1>1, <1>2

(* assigning a location to a handle,                                       *)
LEMMA AssignSane ==
  ASSUME NEW hp, Sane(hp), NEW h \in All,
         NEW m \in Memories \cup {Null}, NEW moves \in BOOLEAN
  PROVE  /\ Sane(Assign(hp, h, m, moves))
         /\ Rewatched(hp, Assign(hp, h, m, moves), h, m)
<1>1. CASE hp.mem[h] = m
  BY <1>1 DEF Assign, Rewatched
<1>2. CASE hp.mem[h] # m
  <2> DEFINE un == Unwatch(hp, h)
  <2>1. Sane(un) /\ Rewatched(hp, un, h, Null)
    BY UnwatchSane
  <2> HIDE DEF un
  <2>2. un.mem[h] = Null
    BY <2>1 DEF Rewatched
  <2>3. Sane(Watch(un, h, m, moves)) /\ Rewatched(un, Watch(un, h, m, moves), h, m)
    BY <2>1, <2>2, WatchSane
  <2>4. Assign(hp, h, m, moves) = Watch(un, h, m, moves)
    BY <1>2 DEF Assign, un
  <2> QED
    BY <2>1, <2>3, <2>4 DEF Rewatched
<1> QED
  BY <1>1, <1>2

(* and assigning one handle to another.                                    *)
LEMMA AssignLikeSane ==
  ASSUME NEW hp, Sane(hp), NEW h \in All, NEW g \in All
  PROVE  /\ Sane(AssignLike(hp, h, g))
         /\ Rewatched(hp, AssignLike(hp, h, g), h, hp.mem[g])
<1>1. CASE hp.mem[h] = hp.mem[g]
  BY <1>1 DEF AssignLike, Rewatched
<1>2. CASE hp.mem[h] # hp.mem[g]
  <2> DEFINE un == Unwatch(hp, h)
             hq == WatchLike(un, h, g)
  <2>1. Sane(un) /\ Rewatched(hp, un, h, Null)
    BY UnwatchSane
  <2> HIDE DEF un
  <2>2. un.mem[h] = Null /\ un.mem[g] = hp.mem[g]
    BY <1>2, <2>1 DEF Rewatched
  <2>3. Sane(hq) /\ Rewatched(un, hq, h, un.mem[g])
    BY <2>1, <2>2, WatchLikeSane
  <2>4. AssignLike(hp, h, g) = hq
    BY <1>2 DEF AssignLike, un
  <2> HIDE DEF hq
  <2> QED
    BY <2>1, <2>2, <2>3, <2>4 DEF Rewatched
<1> QED
  BY <1>1, <1>2

(* A copy is followed by what it has been copied from.                     *)
LEMMA WatchLikeNext ==
  ASSUME NEW hp, Sane(hp), NEW h \in All, NEW g \in All, hp.mem[g] # Null
  PROVE  WatchLike(hp, h, g).next[h] = g
<1> DEFINE hm == [hp EXCEPT !.mem[h] = hp.mem[g]]
<1>1. WatchLike(hp, h, g) = AddToExistingUseList(hm, h, hp.prev[g])
  BY DEF WatchLike
<1>2. hm \in Heaps /\ hm.next = hp.next /\ hm.head = hp.head
  BY DEF Sane, Heaps
<1>3. Pointee(hm, hp.prev[g]) = g
  BY <1>2, Domains DEF Sane, Linking, Backward, Pointee
<1> HIDE DEF hm
<1>4. AddToExistingUseList(hm, h, hp.prev[g]).next[h] = g
  BY <1>2, <1>3 DEF AddToExistingUseList, Heaps
<1> QED
  BY <1>1, <1>4

(* Nothing follows itself.                                                 *)
LEMMA NextIsAnother ==
  ASSUME NEW hp, Sane(hp), NEW h \in All
  PROVE  hp.next[h] # h
<1>1. PICK r : Ranked(hp, r)
  BY DEF Sane, Acyclic
<1>2. h # Null
  BY Domains
<1> QED
  BY <1>1, <1>2 DEF Ranked

(* The iterator leaves its list and comes back behind the next handle.     *)
LEMMA PassFields ==
  ASSUME NEW hp, Sane(hp), NEW h \in All, NEW e \in All,
         hp.mem[h] # Null, hp.next[h] = e
  PROVE  LET hq == AddToExistingUseListAfter(RemoveFromUseList(hp, h), h, e)
             un == Unwatch(hp, h)
         IN /\ hp.mem[h] \in Memories /\ PlaceOf(un, hp.mem[h], e)
            /\ Inserted(un, hq, h, hp.mem[h], e)
<1> DEFINE un == Unwatch(hp, h)
           m == hp.mem[h]
           hq == AddToExistingUseList([un EXCEPT !.mem[h] = m], h, e)
<1>1. Sane(un) /\ Rewatched(hp, un, h, Null)
  BY UnwatchSane
<1>2. e # h /\ hp.mem[e] = m /\ Null \notin All
  BY NextIsAnother, Domains DEF Sane, Linking, Forward
<1>3. RemoveFromUseList(hp, h) = [un EXCEPT !.mem[h] = m]
  <2> DEFINE re == RemoveFromUseList(hp, h)
  <2>1. un = [re EXCEPT !.mem[h] = Null]
    BY DEF Unwatch
  <2>2. re = [hp EXCEPT !.next = re.next, !.head = re.head,
                        !.prev = re.prev, !.flagged = re.flagged]
    BY DEF RemoveFromUseList, Sane, Heaps
  <2>3. re.mem = hp.mem
    BY DEF RemoveFromUseList, Sane, Heaps
  <2> HIDE DEF re, un
  <2>4. [un EXCEPT !.mem[h] = m] = re
    BY <2>1, <2>2, <2>3 DEF Sane, Heaps
  <2> QED
    BY <2>4 DEF re
<1> HIDE DEF un, hq
<1>4. un.mem[e] = m /\ un.mem[h] = Null
  BY <1>1, <1>2 DEF Rewatched
<1>5. m \in un.flagged /\ m \in Memories
  BY <1>1, <1>4, WatchedIsFlagged
<1>6. PlaceOf(un, m, e)
  BY <1>4, <1>5 DEF PlaceOf
<1>7. Inserted(un, hq, h, m, e)
  BY <1>1, <1>4, <1>5, <1>6, AddToExistingFields DEF hq
<1> QED
  BY <1>3, <1>5, <1>6, <1>7 DEF hq, un, AddToExistingUseListAfter

(* So does moving a handle behind the one after it, which is how a walk    *)
(* moves on.                                                               *)
LEMMA PassSane ==
  ASSUME NEW hp, Sane(hp), NEW h \in All, NEW e \in All,
         hp.mem[h] # Null, hp.next[h] = e
  PROVE  LET hq == AddToExistingUseListAfter(RemoveFromUseList(hp, h), h, e)
         IN Sane(hq) /\ Rewatched(hp, hq, h, hp.mem[h])
<1> DEFINE un == Unwatch(hp, h)
           m == hp.mem[h]
           hq == AddToExistingUseListAfter(RemoveFromUseList(hp, h), h, e)
<1>1. Sane(un) /\ Rewatched(hp, un, h, Null)
  BY UnwatchSane
<1>2. m \in Memories /\ PlaceOf(un, m, e) /\ Inserted(un, hq, h, m, e)
  BY PassFields
<1> HIDE DEF un, hq
<1>3. Sane(hq) /\ Rewatched(un, hq, h, m)
  BY <1>1, <1>2, InsertedSane DEF Rewatched
<1>4. Rewatched(hp, hq, h, m)
  BY <1>1, <1>3 DEF Rewatched
<1> QED
  BY <1>3, <1>4 DEF hq

-----------------------------------------------------------------------------
(* The invariant.                                                          *)

(* Who watches: handles that live, and what exists.                        *)
Watching ==
  /\ \A h \in Handles \ live : heap.mem[h] = Null
  /\ \A h \in Handles : heap.mem[h] \in exists \cup {Null}

(* A walk is over an existing location; between callbacks its entry is     *)
(* what follows the iterator.                                              *)
Walking ==
  /\ walk.of = Null => walk = NoWalk
  /\ walk.of # Null => walk.of \in exists
  /\ walk.by \in exists \cup {Null}
  /\ walk.of # Null /\ ~walk.calling => walk.entry = heap.next[Itr]
  /\ walk.of = Null => heap.next[Itr] = Null

Inv == TypeOK /\ Sane(heap) /\ Watching /\ Walking

(* The invariant holds at the start.                                       *)
LEMMA InitInv == Init => Inv
<1> SUFFICES ASSUME Init PROVE Inv
  OBVIOUS
<1>1. heap \in Heaps
  BY DEF Init, Heaps
<1>2. Linking(heap)
  BY Domains DEF Init, Linking, Unlinked, Backward, Forward, Headed
<1>3. Ranked(heap, [h \in All |-> 0])
  BY DEF Init, Ranked
<1>4. Acyclic(heap)
  BY <1>3 DEF Acyclic
<1> QED
  BY <1>1, <1>2, <1>4 DEF Init, Inv, Sane, TypeOK, Watching, Walking, NoWalk, All

(* The program changes one handle between the walks or in a callback.      *)
LEMMA OneHandle ==
  ASSUME Inv, NEW h \in Handles, NEW m \in exists \cup {Null},
         Sane(heap'), Rewatched(heap, heap', h, m),
         h \in live' \/ m = Null, live' \subseteq Handles,
         live \ {h} \subseteq live',
         walk.of = Null \/ walk.calling,
         UNCHANGED <<exists, walk, aborted>>
  PROVE  Inv'
<1>1. h # Itr /\ h \in All /\ Itr \in All /\ Null \notin Memories
  BY Domains DEF All
<1>2. heap'.mem[Itr] = heap.mem[Itr]
  BY <1>1 DEF Rewatched
<1>3. TypeOK'
  BY <1>2 DEF Inv, TypeOK, Sane
<1>4. Watching'
  <2>1. \A g \in Handles : heap'.mem[g] = IF g = h THEN m ELSE heap.mem[g]
    BY DEF Rewatched, All
  <2> QED
    BY <2>1 DEF Inv, Watching
<1>5. Walking'
  <2>1. walk.of = Null => heap'.next[Itr] = Null
    BY <1>1, <1>2 DEF Inv, TypeOK, Sane, Linking, Unlinked
  <2> QED
    BY <2>1 DEF Inv, Walking, NoWalk
<1> QED
  BY <1>3, <1>4, <1>5 DEF Inv

(* Nobody watches what is not flagged.                                     *)
LEMMA FreeToGo ==
  ASSUME Inv, NEW hp, Sane(hp), NEW m \in Memories, m \notin hp.flagged
  PROVE  \A h \in All : hp.mem[h] # m
BY WatchedIsFlagged, Domains

(* Starting to tell the handles of a location keeps the invariant.         *)
LEMMA StartInv ==
  ASSUME Inv, NEW m \in Memories, NEW by \in Memories \cup {Null}, Start(m, by)
  PROVE  Inv'
<1> DEFINE e == heap.head[m]
<1>1. /\ Itr \in All /\ Itr \notin Handles /\ Null \notin Memories \cup All
      /\ walk.of = Null /\ heap.mem[Itr] = Null /\ Sane(heap)
      /\ m \in exists /\ by \in exists \cup {Null}
  BY Domains DEF All, Start, Idle, NoWalk, Inv, TypeOK
<1>2. e \in All /\ heap.mem[e] = m
  BY <1>1 DEF Start, Sane, Linking, Headed, Heaps
<1>3. e \in Handles
  BY <1>1, <1>2 DEF All
<1>4. heap' = WatchLike(heap, Itr, e) /\ UNCHANGED <<exists, live, aborted>>
      /\ walk' = [of |-> m, by |-> by, entry |-> e, calling |-> FALSE]
  BY DEF Start
<1> HIDE DEF e
<1>5. Sane(heap') /\ Rewatched(heap, heap', Itr, m)
  BY <1>1, <1>2, <1>4, WatchLikeSane
<1>6. heap'.next[Itr] = e
  BY <1>1, <1>2, <1>4, WatchLikeNext
<1>7. TypeOK'
  BY <1>1, <1>3, <1>4, <1>5 DEF Inv, TypeOK, Sane, Rewatched
<1>8. Watching'
  <2>1. \A g \in Handles : heap'.mem[g] = heap.mem[g]
    BY <1>1, <1>5 DEF Rewatched, All
  <2> QED
    BY <1>4, <2>1 DEF Inv, Watching
<1>9. Walking'
  BY <1>1, <1>4, <1>6 DEF Walking
<1> QED
  BY <1>5, <1>7, <1>8, <1>9 DEF Inv

(* The iterator has passed over the entry.                                 *)
LEMMA PassedSane ==
  ASSUME Inv, Visiting
  PROVE  /\ Sane(Passed) /\ Rewatched(heap, Passed, Itr, walk.of)
         /\ walk.entry \in live /\ walk.entry # Itr /\ walk.entry \in All
         /\ walk.of \in Memories /\ Itr \in All
<1>1. /\ Sane(heap) /\ Itr \in All /\ walk.entry \in Handles
      /\ walk.entry = heap.next[Itr] /\ heap.mem[Itr] = walk.of
      /\ walk.of # Null /\ walk.of \in Memories /\ walk.entry # Null
  BY DEF Inv, TypeOK, Walking, Visiting, All
<1>2. walk.entry \in All /\ walk.entry # Itr
  BY <1>1, Domains DEF All
<1>3. heap.mem[walk.entry] # Null
  BY <1>1 DEF Sane, Linking, Forward
<1>4. walk.entry \in live
  BY <1>1, <1>3 DEF Inv, Watching
<1>5. Sane(Passed) /\ Rewatched(heap, Passed, Itr, heap.mem[Itr])
  BY <1>1, <1>2, PassSane DEF Passed
<1> QED
  BY <1>1, <1>2, <1>4, <1>5

(* A step of a walk.                                                       *)
LEMMA VisitInv ==
  ASSUME Inv, Visiting, Sane(heap'), heap'.mem[Itr] = walk.of,
         \A g \in Handles :
           heap'.mem[g] \in {heap.mem[g]} \cup
             (IF g \in live THEN exists \cup {Null} ELSE {}),
         \/ walk' = [walk EXCEPT !.entry = heap'.next[Itr]]
         \/ walk' = [walk EXCEPT !.calling = TRUE],
         UNCHANGED <<exists, live, aborted>>
  PROVE  Inv'
<1>1. Itr \in All /\ walk.of \in Memories /\ Null \notin Memories /\ walk.of # Null
  BY Domains, PassedSane DEF All
<1>2. heap'.next[Itr] \in Handles \cup {Null}
  <2>1. heap'.next[Itr] \in All \cup {Null}
    BY <1>1 DEF Sane, Heaps
  <2>2. heap'.next[Itr] # Itr
    BY <1>1, NextIsAnother
  <2> QED
    BY <2>1, <2>2 DEF All
<1>3. TypeOK'
  BY <1>1, <1>2 DEF Inv, TypeOK, Sane
<1>4. Watching'
  BY DEF Inv, Watching
<1>5. Walking'
  BY <1>1 DEF Inv, Walking, TypeOK, NoWalk
<1> QED
  BY <1>3, <1>4, <1>5 DEF Inv

(* So does ending it.                                                      *)
LEMMA FinishInv ==
  ASSUME Inv, Finish
  PROVE  Inv'
<1>1. /\ Itr \in All /\ Itr \notin Handles /\ Sane(heap)
      /\ walk.of \in Memories /\ Null \notin Memories
  BY Domains DEF Finish, Ending, Inv, TypeOK, All
<1>2. Sane(heap') /\ Rewatched(heap, heap', Itr, Null)
  BY <1>1, UnwatchSane DEF Finish
<1>3. heap'.mem[Itr] = Null /\ heap'.next[Itr] = Null
  BY <1>1, <1>2 DEF Rewatched, Sane, Linking, Unlinked
<1>4. walk' = NoWalk /\ UNCHANGED <<live, aborted>> /\ exists' \subseteq exists
  BY DEF Finish
<1>5. TypeOK'
  BY <1>2, <1>3, <1>4 DEF Inv, TypeOK, NoWalk, Sane
<1>6. \A g \in Handles : heap'.mem[g] = heap.mem[g]
  BY <1>1, <1>2 DEF Rewatched, All
<1>7. Watching'
  <2>1. CASE walk.by = Null
    <3>1. walk.of \notin heap'.flagged /\ exists' = exists \ {walk.of}
      BY <2>1 DEF Finish, Forgotten
    <3>2. \A g \in All : heap'.mem[g] # walk.of
      BY <1>1, <1>2, <3>1, FreeToGo
    <3> QED
      BY <1>4, <1>6, <3>1, <3>2 DEF Inv, Watching, All
  <2>2. CASE walk.by # Null
    BY <1>4, <1>6, <2>2 DEF Finish, Inv, Watching
  <2> QED
    BY <2>1, <2>2
<1>8. Walking'
  BY <1>3, <1>4 DEF Walking, NoWalk
<1> QED
  BY <1>2, <1>5, <1>7, <1>8 DEF Inv

(* Every step keeps the invariant.                                         *)
LEMMA NextInv == Inv /\ [Next]_vars => Inv'
<1> SUFFICES ASSUME Inv, [Next]_vars PROVE Inv'
  OBVIOUS
<1>1. CASE UNCHANGED vars
  BY <1>1 DEF vars, Inv, TypeOK, Watching, Walking
<1>2. ASSUME NEW m \in Memories, Allocate(m) PROVE Inv'
  BY <1>2 DEF Allocate, Inv, TypeOK, Watching, Walking
<1>3. ASSUME NEW m \in Memories, DeleteUnwatched(m) PROVE Inv'
  <2>1. \A h \in All : heap.mem[h] # m
    BY <1>3, FreeToGo DEF DeleteUnwatched, Inv
  <2>2. Watching'
    BY <1>3, <2>1 DEF DeleteUnwatched, Inv, Watching, All
  <2>3. Walking'
    BY <1>3 DEF DeleteUnwatched, Idle, NoWalk, Inv, Walking
  <2> QED
    BY <1>3, <2>2, <2>3 DEF DeleteUnwatched, Inv, TypeOK
<1>4. ASSUME NEW h \in Handles, NEW m \in Memories \cup {Null},
             NEW moves \in MayMove(m),
             Construct(h, m, moves) \/ SetMemory(h, m, moves)
      PROVE  Inv'
  <2>a. moves \in BOOLEAN
    BY DEF MayMove
  <2>1. /\ h \in All /\ Sane(heap)
        /\ m \in exists \cup {Null}
        /\ walk.of = Null \/ walk.calling
        /\ h \in live' /\ live' \subseteq Handles /\ live \subseteq live'
        /\ UNCHANGED <<exists, walk, aborted>>
    BY <1>4 DEF All, Inv, TypeOK, Construct, SetMemory, MayCreate,
                Idle, InCallback, NoWalk
  <2>2. Sane(heap') /\ Rewatched(heap, heap', h, m)
    <3>1. CASE Construct(h, m, moves)
      <4>1. heap.mem[h] = Null /\ heap' = Watch(heap, h, m, moves)
        BY <3>1 DEF Construct, Inv, Watching
      <4> QED
        BY <2>a, <2>1, <4>1, WatchSane
    <3>2. CASE SetMemory(h, m, moves)
      BY <2>a, <2>1, <3>2, AssignSane DEF SetMemory
    <3> QED
      BY <1>4, <3>1, <3>2
  <2> QED
    BY <2>1, <2>2, OneHandle
<1>5. ASSUME NEW h \in Handles, NEW g \in Handles, Copy(h, g) \/ SetHandle(h, g)
      PROVE  Inv'
  <2>1. /\ h \in All /\ g \in All /\ Sane(heap)
        /\ heap.mem[g] \in exists \cup {Null}
        /\ walk.of = Null \/ walk.calling
        /\ h \in live' /\ live' \subseteq Handles /\ live \subseteq live'
        /\ UNCHANGED <<exists, walk, aborted>>
    BY <1>5 DEF All, Inv, TypeOK, Watching, Copy, SetHandle, MayCreate,
                Idle, InCallback, NoWalk
  <2>2. Sane(heap') /\ Rewatched(heap, heap', h, heap.mem[g])
    <3>1. CASE Copy(h, g)
      <4>1. heap.mem[h] = Null /\ heap' = WatchLike(heap, h, g)
        BY <3>1 DEF Copy, Inv, Watching
      <4> QED
        BY <2>1, <4>1, WatchLikeSane
    <3>2. CASE SetHandle(h, g)
      BY <2>1, <3>2, AssignLikeSane DEF SetHandle
    <3> QED
      BY <1>5, <3>1, <3>2
  <2> QED
    BY <2>1, <2>2, OneHandle
<1>6. ASSUME NEW h \in Handles, Destroy(h) PROVE Inv'
  <2>1. /\ h \in All /\ Sane(heap)
        /\ walk.of = Null \/ walk.calling
        /\ live' = live \ {h} /\ live' \subseteq Handles
        /\ UNCHANGED <<exists, walk, aborted>>
    BY <1>6 DEF All, Inv, TypeOK, Destroy, Idle, InCallback, NoWalk
  <2>2. Sane(heap') /\ Rewatched(heap, heap', h, Null)
    BY <1>6, <2>1, UnwatchSane DEF Destroy
  <2> QED
    BY <2>1, <2>2, OneHandle
<1>7. ASSUME NEW m \in Memories, NEW by \in Memories \cup {Null}, Start(m, by)
      PROVE  Inv'
  BY <1>7, StartInv
<1>8. CASE VisitAssert \/ VisitCallback
  <2>1. /\ Visiting /\ heap' = Passed /\ UNCHANGED <<exists, live, aborted>>
        /\ \/ walk' = [walk EXCEPT !.entry = heap'.next[Itr]]
           \/ walk' = [walk EXCEPT !.calling = TRUE]
    BY <1>8 DEF VisitAssert, VisitCallback
  <2>2. Sane(heap') /\ Rewatched(heap, heap', Itr, walk.of) /\ Itr \in All
    BY <2>1, PassedSane
  <2>3. /\ heap'.mem[Itr] = walk.of
        /\ \A g \in Handles : heap'.mem[g] = heap.mem[g]
    BY <2>2, Domains DEF Rewatched, All
  <2> QED
    BY <2>1, <2>2, <2>3, VisitInv
<1>9. ASSUME NEW moves \in MayMove(walk.by), VisitWeak(moves) PROVE Inv'
  <2> DEFINE e == walk.entry
  <2>1. /\ Visiting /\ heap' = Assign(Passed, e, walk.by, moves)
        /\ UNCHANGED <<exists, live, aborted>>
        /\ walk' = [walk EXCEPT !.entry = heap'.next[Itr]]
    BY <1>9 DEF VisitWeak
  <2>2. /\ Sane(Passed) /\ Rewatched(heap, Passed, Itr, walk.of)
        /\ e \in live /\ e # Itr /\ e \in All /\ Itr \in All
    BY <2>1, PassedSane
  <2>3. moves \in BOOLEAN /\ walk.by \in Memories \cup {Null}
        /\ walk.by \in exists \cup {Null}
    BY DEF MayMove, Inv, TypeOK, Walking
  <2>4. Sane(heap') /\ Rewatched(Passed, heap', e, walk.by)
    BY <2>1, <2>2, <2>3, AssignSane
  <2>5. /\ heap'.mem[Itr] = walk.of
        /\ \A g \in Handles :
             heap'.mem[g] = IF g = e THEN walk.by ELSE heap.mem[g]
    BY <2>2, <2>4, Domains DEF Rewatched, All
  <2> HIDE DEF e
  <2> QED
    BY <2>1, <2>2, <2>3, <2>4, <2>5, VisitInv
<1>10. CASE Return
  <2>1. /\ walk' = [walk EXCEPT !.entry = heap.next[Itr], !.calling = FALSE]
        /\ UNCHANGED <<exists, live, heap, aborted>> /\ Itr \in All
    BY <1>10 DEF Return, All
  <2>2. heap.next[Itr] \in Handles \cup {Null}
    <3>1. heap.next[Itr] \in All \cup {Null}
      BY <2>1 DEF Inv, Sane, Heaps
    <3>2. heap.next[Itr] # Itr
      BY <2>1, NextIsAnother DEF Inv
    <3> QED
      BY <3>1, <3>2 DEF All
  <2>3. TypeOK'
    BY <2>1, <2>2 DEF Inv, TypeOK
  <2>4. walk.of # Null
    BY <1>10 DEF Return, InCallback, Inv, Walking, NoWalk
  <2>5. Walking'
    BY <2>1, <2>4 DEF Inv, TypeOK, Walking
  <2> QED
    BY <2>1, <2>3, <2>5 DEF Inv, Watching
<1>11. CASE Finish
  BY <1>11, FinishInv
<1>12. CASE Abort
  BY <1>12 DEF Abort, Inv, TypeOK, Watching, Walking
<1> QED
  BY <1>1, <1>2, <1>3, <1>4, <1>5, <1>6, <1>7, <1>8, <1>9, <1>10, <1>11, <1>12
     DEF Next

(* The variables keep their types, and the iterator is in a list exactly   *)
(* during a walk.                                                          *)
THEOREM TypeCorrect == Spec => []TypeOK
<1>1. Spec => []Inv
  BY InitInv, NextInv, PTL DEF Spec
<1>2. Inv => TypeOK
  BY DEF Inv
<1> QED
  BY <1>1, <1>2, PTL

(* "List invariant broken!" is never reached, wherever the table moves.    *)
THEOREM ListsStayLinked == Spec => []WellLinked
<1>1. Spec => []Inv
  BY InitInv, NextInv, PTL DEF Spec
<1>2. Inv => WellLinked
  <2> SUFFICES ASSUME Inv PROVE WellLinked
    OBVIOUS
  <2>1. Sane(heap) /\ Linked \subseteq All /\ Null \notin Memories \cup All
        /\ Memories \cap All = {}
    BY Domains DEF Inv, TypeOK, Linked, All
  <2>2. \A h \in All : heap.mem[h] # Null =>
          heap.prev[h] # Null /\ Pointee(heap, heap.prev[h]) = h
    BY <2>1 DEF Sane, Linking, Backward, Pointee
  <2>3. \A h \in All : heap.next[h] # Null =>
          /\ heap.prev[heap.next[h]] = h
          /\ heap.mem[heap.next[h]] = heap.mem[h]
    BY <2>1 DEF Sane, Linking, Forward
  <2>4. \A m \in Memories :
          /\ m \in heap.flagged <=> heap.head[m] # Null
          /\ heap.head[m] # Null => /\ heap.mem[heap.head[m]] = m
                                    /\ heap.prev[heap.head[m]] = m
    BY <2>1 DEF Sane, Linking, Headed
  <2> QED
    BY <2>1, <2>2, <2>3, <2>4 DEF WellLinked
<1> QED
  BY <1>1, <1>2, PTL

(* No handle is left with a destroyed location.                            *)
THEOREM HandlesFollow == Spec => []NothingDangles
<1>1. Spec => []Inv
  BY InitInv, NextInv, PTL DEF Spec
<1>2. Inv => NothingDangles
  BY DEF Inv, TypeOK, Watching, NothingDangles
<1> QED
  BY <1>1, <1>2, PTL

-----------------------------------------------------------------------------
(* What a walk still has in front of it.                                   *)

(* The handles of a heap from h on, as From gives them for the heap.       *)
FromIn(hp, h) ==
  LET Closed(S) == \A g \in S : hp.next[g] \in S \cup {Null}
  IN IF h = Null THEN {}
     ELSE {g \in All : \A S \in SUBSET All : h \in S /\ Closed(S) => g \in S}

ClosedIn(hp, S) == \A g \in S : hp.next[g] \in S \cup {Null}

(* From is FromIn of the current heap.                                     *)
LEMMA FromIsIn == \A h : From(h) = FromIn(heap, h)
BY DEF From, FromIn

(* It is the least set with h that contains the next ones.                 *)
LEMMA FromLeast ==
  ASSUME NEW hp \in Heaps, NEW h \in All
  PROVE  /\ FromIn(hp, h) \subseteq All /\ h \in FromIn(hp, h)
         /\ ClosedIn(hp, FromIn(hp, h))
         /\ \A S \in SUBSET All : h \in S /\ ClosedIn(hp, S) => FromIn(hp, h) \subseteq S
<1>1. h # Null /\ \A g \in All : hp.next[g] \in All \cup {Null}
  BY Domains DEF Heaps
<1>2. FromIn(hp, h) =
        {g \in All : \A S \in SUBSET All : h \in S /\ ClosedIn(hp, S) => g \in S}
  BY <1>1 DEF FromIn, ClosedIn
<1>3. ClosedIn(hp, FromIn(hp, h))
  BY <1>1, <1>2 DEF ClosedIn
<1> QED
  BY <1>2, <1>3

(* h, and what follows it.                                                 *)
LEMMA FromStep ==
  ASSUME NEW hp \in Heaps, NEW h \in All
  PROVE  FromIn(hp, h) = {h} \cup FromIn(hp, hp.next[h])
<1> DEFINE n == hp.next[h]
<1>1. n \in All \cup {Null} /\ Null \notin All
  BY Domains DEF Heaps
<1>2. CASE n = Null
  <2>1. ClosedIn(hp, {h}) /\ FromIn(hp, n) = {}
    BY <1>2 DEF ClosedIn, FromIn
  <2> QED
    BY <2>1, FromLeast
<1>3. CASE n \in All
  <2>1. n \in FromIn(hp, h)
    BY <1>1, <1>3, FromLeast DEF ClosedIn
  <2>2. FromIn(hp, n) \subseteq FromIn(hp, h)
    BY <1>3, <2>1, FromLeast
  <2>3. ClosedIn(hp, {h} \cup FromIn(hp, n))
    BY <1>3, FromLeast DEF ClosedIn
  <2>4. {h} \cup FromIn(hp, n) \in SUBSET All
    BY <1>3, FromLeast
  <2>5. FromIn(hp, h) \subseteq {h} \cup FromIn(hp, n)
    BY <2>3, <2>4, FromLeast
  <2> QED
    BY <2>2, <2>5, FromLeast
<1> QED
  BY <1>1, <1>2, <1>3

(* Everything in a list watches the same location.                         *)
LEMMA FromWatches ==
  ASSUME NEW hp, Sane(hp), NEW h \in All
  PROVE  \A g \in FromIn(hp, h) : g \in All /\ hp.mem[g] = hp.mem[h]
<1> DEFINE S == {g \in All : hp.mem[g] = hp.mem[h]}
<1>1. hp \in Heaps /\ ClosedIn(hp, S)
  BY Domains DEF Sane, Linking, Forward, Heaps, ClosedIn
<1> QED
  BY <1>1, FromLeast

(* Nothing comes after itself.                                             *)
LEMMA FromHasNoCycle ==
  ASSUME NEW hp, Sane(hp), NEW h \in All
  PROVE  h \notin FromIn(hp, hp.next[h])
<1>1. hp \in Heaps /\ hp.next[h] \in All \cup {Null} /\ Null \notin All
  BY Domains DEF Sane, Heaps
<1>2. CASE hp.next[h] = Null
  BY <1>2 DEF FromIn
<1>3. CASE hp.next[h] \in All
  <2>1. PICK r : Ranked(hp, r)
    BY DEF Sane, Acyclic
  <2> DEFINE S == {g \in All : r[g] > r[h]}
  <2>2. r \in [All -> Nat]
    BY <2>1 DEF Ranked
  <2>3. hp.next[h] \in S
    BY <1>1, <1>3, <2>1, <2>2 DEF Ranked
  <2>4. ASSUME NEW g \in S PROVE hp.next[g] \in S \cup {Null}
    <3>1. CASE hp.next[g] # Null
      <4>1. hp.next[g] \in All /\ r[g] < r[hp.next[g]]
        BY <1>1, <2>1, <3>1 DEF Ranked, Heaps
      <4>2. r[h] \in Nat /\ r[g] \in Nat /\ r[hp.next[g]] \in Nat /\ r[g] > r[h]
        BY <2>2, <4>1
      <4> QED
        BY <4>1, <4>2
    <3> QED
      BY <3>1
  <2>5. ClosedIn(hp, S)
    BY <2>4 DEF ClosedIn
  <2>6. FromIn(hp, hp.next[h]) \subseteq S
    BY <1>1, <1>3, <2>3, <2>5, FromLeast
  <2>7. h \notin S
    BY <2>2
  <2> QED
    BY <2>6, <2>7
<1> QED
  BY <1>1, <1>2, <1>3

(* The list of a location has all handles that watch it: of those left     *)
(* out, none has the least rank.                                           *)
LEMMA FromHead ==
  ASSUME NEW hp, Sane(hp), NEW m \in Memories
  PROVE  FromIn(hp, hp.head[m]) = {h \in All : hp.mem[h] = m}
<1> DEFINE W == {h \in All : hp.mem[h] = m}
<1>1. hp \in Heaps /\ Null \notin Memories \cup All /\ Memories \cap All = {}
  BY Domains DEF Sane
<1>2. CASE hp.head[m] = Null
  <2>1. W = {}
    BY <1>1, <1>2, WatchedIsFlagged
  <2> QED
    BY <1>2, <2>1 DEF FromIn
<1>3. CASE hp.head[m] # Null
  <2>1. hp.head[m] \in All /\ hp.mem[hp.head[m]] = m
    BY <1>1, <1>3 DEF Heaps, Sane, Linking, Headed
  <2>2. FromIn(hp, hp.head[m]) \subseteq W
    BY <2>1, FromWatches
  <2> DEFINE F == FromIn(hp, hp.head[m])
  <2>3. hp.head[m] \in F /\ ClosedIn(hp, F)
    BY <1>1, <2>1, FromLeast
  <2> HIDE DEF F
  <2>4. ASSUME W \ F # {} PROVE FALSE
    <3>1. PICK r : Ranked(hp, r)
      BY DEF Sane, Acyclic
    <3>2. r \in [All -> Nat]
      BY <3>1 DEF Ranked
    <3>3. {r[g] : g \in W \ F} \in SUBSET Nat /\ {r[g] : g \in W \ F} # {}
      BY <2>4, <3>2
    <3>4. PICK x \in {r[g] : g \in W \ F} : \A y \in {r[g] : g \in W \ F} : x <= y
      BY <3>3, LeastElement
    <3>5. PICK f \in W \ F : r[f] = x
      OBVIOUS
    <3>6. hp.mem[f] = m /\ f \in All
      OBVIOUS
    <3>7. CASE hp.prev[f] \in Memories /\ hp.head[hp.prev[f]] = f
      <4>1. hp.prev[f] = m
        BY <1>1, <3>6, <3>7 DEF Sane, Linking, Headed
      <4> QED
        BY <2>3, <3>7, <4>1
    <3>8. CASE hp.prev[f] \in All /\ hp.next[hp.prev[f]] = f
      <4> DEFINE p == hp.prev[f]
      <4>1. hp.mem[p] = m /\ r[p] < r[f]
        BY <1>1, <3>1, <3>6, <3>8 DEF Sane, Linking, Forward, Ranked
      <4>2. p \in F
        <5>1. SUFFICES ASSUME p \notin F PROVE FALSE
          OBVIOUS
        <5>2. r[p] \in {r[g] : g \in W \ F}
          BY <3>8, <4>1, <5>1
        <5>3. r[f] <= r[p] /\ r[f] \in Nat /\ r[p] \in Nat
          BY <3>2, <3>4, <3>5, <3>8, <5>2
        <5> QED
          BY <4>1, <5>3
      <4> QED
        BY <1>1, <2>3, <3>8, <4>2 DEF ClosedIn
    <3> QED
      BY <1>1, <3>6, <3>7, <3>8 DEF Sane, Linking, Backward
  <2> QED
    BY <2>2, <2>4 DEF F
<1> QED
  BY <1>2, <1>3

(* A list is missing nobody.                                               *)
THEOREM ListsHoldAllWatchers == Spec => []ListsComplete
<1>1. Spec => []Inv
  BY InitInv, NextInv, PTL DEF Spec
<1>2. Inv => ListsComplete
  BY FromHead, FromIsIn DEF Inv, ListsComplete
<1> QED
  BY <1>1, <1>2, PTL

-----------------------------------------------------------------------------
(* How the list operations change what is in front of the iterator.        *)

Untold(hp) == FromIn(hp, hp.next[Itr])

(* The handles still to be told are those behind the iterator, all of its  *)
(* location.                                                               *)
LEMMA UntoldFacts ==
  ASSUME NEW hp, Sane(hp)
  PROVE  /\ Itr \in All /\ Itr \notin Untold(hp)
         /\ FromIn(hp, Itr) = {Itr} \cup Untold(hp)
         /\ \A g \in Untold(hp) : g \in Handles /\ hp.mem[g] = hp.mem[Itr]
<1>1. Itr \in All /\ hp \in Heaps
  BY DEF All, Sane
<1>2. Itr \notin Untold(hp) /\ FromIn(hp, Itr) = {Itr} \cup Untold(hp)
  BY <1>1, FromHasNoCycle, FromStep DEF Untold
<1>3. \A g \in FromIn(hp, Itr) : g \in All /\ hp.mem[g] = hp.mem[Itr]
  BY <1>1, FromWatches
<1> QED
  BY <1>1, <1>2, <1>3 DEF All

(* A removed handle disappears from the lists it is in.                    *)
LEMMA FromRemoved ==
  ASSUME NEW hp, Sane(hp), NEW h \in All, hp.mem[h] # Null,
         NEW s \in All, s # h
  PROVE  FromIn(Unwatch(hp, h), s) = FromIn(hp, s) \ {h}
<1> DEFINE hq == Unwatch(hp, h)
           p == hp.prev[h]
           n == hp.next[h]
           F == FromIn(hp, s)
<1>1. Removed(hp, hq, h)
  BY UnwatchFields DEF Sane
<1>2. hp \in Heaps /\ hq \in Heaps /\ Null \notin All
  BY <1>1, Domains DEF Removed, Sane
<1> HIDE DEF hq
<1>3. \A g \in All : hq.next[g] = IF g = h THEN Null ELSE IF g = p THEN n ELSE hp.next[g]
  BY <1>1 DEF Removed
<1>4. /\ \A g \in All : hp.next[g] = h => g = p
      /\ p \in All => hp.next[p] = h
      /\ n # h /\ n \in All \cup {Null}
  BY <1>2, NextIsAnother, Domains DEF Sane, Linking, Forward, Backward, Heaps
<1>5. F \subseteq All /\ s \in F /\ ClosedIn(hp, F)
  BY <1>2, FromLeast
<1>6. FromIn(hq, s) \subseteq F \ {h}
  <2>1. ASSUME NEW g \in F \ {h} PROVE hq.next[g] \in (F \ {h}) \cup {Null}
    <3>1. CASE g = p
      <4>1. hp.next[p] = h /\ h \in F
        BY <1>2, <1>4, <1>5, <3>1 DEF ClosedIn
      <4>2. n \in F \cup {Null}
        BY <1>5, <4>1 DEF ClosedIn
      <4> QED
        BY <1>3, <1>4, <1>5, <3>1, <4>2
    <3>2. CASE g # p
      BY <1>3, <1>4, <1>5, <3>2 DEF ClosedIn
    <3> QED
      BY <3>1, <3>2
  <2>2. ClosedIn(hq, F \ {h})
    BY <2>1 DEF ClosedIn
  <2>3. F \ {h} \in SUBSET All /\ s \in F \ {h}
    BY <1>5
  <2> HIDE DEF F
  <2> QED
    BY <1>2, <2>2, <2>3, FromLeast
<1>7. F \subseteq FromIn(hq, s) \cup {h}
  <2> DEFINE S == FromIn(hq, s)
  <2>1. S \subseteq All /\ s \in S /\ ClosedIn(hq, S)
    BY <1>2, FromLeast
  <2> HIDE DEF S
  <2>2. CASE p \in S /\ p # h
    <3>1. n \in S \cup {Null}
      BY <1>3, <2>1, <2>2 DEF ClosedIn
    <3>2. ASSUME NEW g \in S \cup {h} PROVE hp.next[g] \in S \cup {h} \cup {Null}
      BY <1>3, <1>4, <2>1, <2>2, <3>1, <3>2 DEF ClosedIn
    <3>3. ClosedIn(hp, S \cup {h})
      BY <3>2 DEF ClosedIn
    <3>4. S \cup {h} \in SUBSET All /\ s \in S \cup {h}
      BY <2>1
    <3> QED
      BY <1>2, <3>3, <3>4, FromLeast DEF S
  <2>3. CASE p \notin S \/ p = h
    <3>1. ASSUME NEW g \in S \ {h} PROVE hp.next[g] \in (S \ {h}) \cup {Null}
      <4>1. g # p
        BY <2>3
      <4> QED
        BY <1>3, <1>4, <2>1, <4>1 DEF ClosedIn
    <3>2. ClosedIn(hp, S \ {h})
      BY <3>1 DEF ClosedIn
    <3>3. S \ {h} \in SUBSET All /\ s \in S \ {h}
      BY <2>1
    <3>4. F \subseteq S \ {h}
      BY <1>2, <3>2, <3>3, FromLeast
    <3> QED
      BY <3>4 DEF S
  <2> QED
    BY <2>2, <2>3
<1> QED
  BY <1>6, <1>7 DEF hq

(* An inserted handle appears in the lists its place is in.                *)
LEMMA FromInserted ==
  ASSUME NEW hp, Sane(hp), NEW h \in All, hp.mem[h] = Null,
         NEW m \in Memories, NEW p, PlaceOf(hp, m, p),
         NEW hq, Inserted(hp, hq, h, m, p), NEW s \in All, s # h
  PROVE  FromIn(hq, s) = IF p \in FromIn(hp, s) THEN FromIn(hp, s) \cup {h}
                         ELSE FromIn(hp, s)
<1> DEFINE F == FromIn(hp, s)
           n == Pointee(hp, p)
<1>1. hp \in Heaps /\ hq \in Heaps /\ Null \notin All /\ Memories \cap All = {}
  BY Domains DEF Inserted, Sane
<1>2. \A g \in All : hq.next[g] = IF g = h THEN n ELSE IF g = p THEN h ELSE hp.next[g]
  BY DEF Inserted
<1>3. F \subseteq All /\ s \in F /\ ClosedIn(hp, F)
  BY <1>1, FromLeast
<1>4. p # h /\ (p \in All => n = hp.next[p]) /\ \A g \in All : hp.next[g] # h
  BY <1>1, Domains DEF PlaceOf, Pointee, Sane, Linking, Unlinked, Forward, Heaps
<1>5. h \notin F
  <2>1. ClosedIn(hp, All \ {h})
    BY <1>1, <1>4 DEF ClosedIn, Heaps
  <2> QED
    BY <1>1, <2>1, FromLeast
<1> HIDE DEF F, n
<1>6. CASE p \in F
  <2>1. ClosedIn(hq, F \cup {h})
    BY <1>2, <1>3, <1>4, <1>5, <1>6 DEF ClosedIn
  <2>2. F \cup {h} \in SUBSET All /\ s \in F \cup {h}
    BY <1>3
  <2>3. FromIn(hq, s) \subseteq F \cup {h}
    BY <1>1, <2>1, <2>2, FromLeast
  <2> DEFINE S == FromIn(hq, s)
  <2>4. S \subseteq All /\ s \in S /\ ClosedIn(hq, S)
    BY <1>1, FromLeast
  <2> HIDE DEF S
  <2>5. ASSUME NEW g \in S \ {h} PROVE hp.next[g] \in (S \ {h}) \cup {Null}
    <3>1. CASE g = p
      <4>1. hq.next[p] = h
        BY <1>2, <1>4, <2>4, <3>1
      <4>2. h \in S
        BY <1>1, <2>4, <3>1, <4>1 DEF ClosedIn
      <4>3. n \in S \cup {Null}
        BY <1>2, <2>4, <4>2 DEF ClosedIn
      <4> QED
        BY <1>4, <2>4, <3>1, <4>3
    <3>2. CASE g # p
      BY <1>2, <1>4, <2>4, <3>2 DEF ClosedIn
    <3> QED
      BY <3>1, <3>2
  <2>6. ClosedIn(hp, S \ {h})
    BY <2>5 DEF ClosedIn
  <2>7. S \ {h} \in SUBSET All /\ s \in S \ {h}
    BY <2>4
  <2>8. F \subseteq S
    BY <1>1, <2>6, <2>7, FromLeast DEF F
  <2>9. h \in S
    BY <1>1, <1>2, <1>4, <1>6, <2>4, <2>8 DEF ClosedIn
  <2> QED
    BY <1>6, <2>3, <2>8, <2>9 DEF S, F
<1>7. CASE p \notin F
  <2>1. ClosedIn(hq, F)
    BY <1>2, <1>3, <1>5, <1>7 DEF ClosedIn
  <2>2. FromIn(hq, s) \subseteq F
    BY <1>1, <1>3, <2>1, FromLeast
  <2> DEFINE S == FromIn(hq, s)
  <2>3. S \subseteq All /\ s \in S /\ ClosedIn(hq, S)
    BY <1>1, FromLeast
  <2>4. ClosedIn(hp, S)
    BY <1>2, <1>5, <1>7, <2>2, <2>3 DEF ClosedIn
  <2>5. F \subseteq S
    BY <1>1, <2>3, <2>4, FromLeast DEF F
  <2> QED
    BY <1>7, <2>2, <2>5 DEF F
<1> QED
  BY <1>6, <1>7 DEF F

(* Whoever is in front of the iterator has a predecessor there.            *)
LEMMA FromBack ==
  ASSUME NEW hp, Sane(hp), NEW s \in All, NEW g \in FromIn(hp, s), g # s
  PROVE  hp.prev[g] \in FromIn(hp, s)
<1> DEFINE F == FromIn(hp, s)
           S == {s} \cup {x \in F : hp.prev[x] \in F}
<1>1. hp \in Heaps /\ Null \notin All
  BY Domains DEF Sane
<1>2. F \subseteq All /\ s \in F /\ ClosedIn(hp, F)
  BY <1>1, FromLeast
<1> HIDE DEF F
<1>3. ClosedIn(hp, S)
  BY <1>1, <1>2 DEF ClosedIn, Sane, Linking, Forward
<1>4. S \in SUBSET All /\ s \in S
  BY <1>2
<1> HIDE DEF S
<1>5. F \subseteq S
  BY <1>1, <1>3, <1>4, FromLeast DEF F
<1> QED
  BY <1>5 DEF S, F

(* An iterator outside the lists has nothing in front of it.               *)
LEMMA UntoldNothing ==
  ASSUME NEW hp, Sane(hp), hp.mem[Itr] = Null
  PROVE  Untold(hp) = {}
BY DEF Sane, Linking, Unlinked, All, Untold, FromIn

(* A destroyed handle is not told any more.                                *)
LEMMA UntoldUnwatch ==
  ASSUME NEW hp, Sane(hp), NEW h \in Handles
  PROVE  Untold(Unwatch(hp, h)) = Untold(hp) \ {h}
<1> DEFINE hq == Unwatch(hp, h)
<1>1. h \in All /\ Itr \in All /\ h # Itr
  BY Domains DEF All
<1>2. Sane(hq)
  BY <1>1, UnwatchSane
<1>3. CASE hp.mem[h] # Null
  <2>1. FromIn(hq, Itr) = FromIn(hp, Itr) \ {h}
    BY <1>1, <1>3, FromRemoved
  <2> HIDE DEF hq
  <2> QED
    BY <1>1, <1>2, <2>1, UntoldFacts DEF hq
<1>4. CASE hp.mem[h] = Null
  <2>1. hq = hp
    BY <1>1, <1>4 DEF Unwatch, Sane, Heaps
  <2>2. h \notin Untold(hp)
    BY <1>4, UntoldFacts, UntoldNothing
  <2> QED
    BY <2>1, <2>2
<1> QED
  BY <1>3, <1>4

(* A new handle of a location is not told of what happens to it.           *)
LEMMA UntoldWatch ==
  ASSUME NEW hp, Sane(hp), NEW h \in Handles, hp.mem[h] = Null,
         NEW m \in Memories \cup {Null}, NEW moves \in BOOLEAN
  PROVE  Untold(Watch(hp, h, m, moves)) = Untold(hp)
<1> DEFINE hq == Watch(hp, h, m, moves)
<1>1. h \in All /\ Itr \in All /\ h # Itr
  BY Domains DEF All
<1>2. Sane(hq)
  BY <1>1, WatchSane
<1>3. CASE m = Null
  BY <1>3 DEF Watch
<1>4. CASE m \in Memories
  <2>1. PlaceOf(hp, m, m) /\ Inserted(hp, hq, h, m, m)
    BY <1>1, <1>4, WatchFields
  <2>2. m \notin FromIn(hp, Itr)
    BY <1>1, <1>4, FromLeast, Domains DEF Sane
  <2> HIDE DEF hq
  <2>3. FromIn(hq, Itr) = FromIn(hp, Itr)
    BY <1>1, <1>4, <2>1, <2>2, FromInserted
  <2> QED
    BY <1>1, <1>2, <2>3, UntoldFacts DEF hq
<1> QED
  BY <1>3, <1>4

(* A copy of a handle that will be told is told, any other is not.         *)
LEMMA UntoldWatchLike ==
  ASSUME NEW hp, Sane(hp), NEW h \in Handles, hp.mem[h] = Null,
         NEW g \in Handles
  PROVE  Untold(WatchLike(hp, h, g)) =
           IF g \in Untold(hp) THEN Untold(hp) \cup {h} ELSE Untold(hp)
<1> DEFINE hq == WatchLike(hp, h, g)
           p == hp.prev[g]
<1>1. h \in All /\ g \in All /\ Itr \in All /\ h # Itr /\ g # Itr
  BY Domains DEF All
<1>2. Sane(hq)
  BY <1>1, WatchLikeSane
<1>3. CASE hp.mem[g] = Null
  <2>1. g \notin Untold(hp)
    BY <1>3, UntoldFacts, UntoldNothing
  <2> QED
    BY <1>3, <2>1 DEF WatchLike
<1>4. CASE hp.mem[g] # Null
  <2>1. /\ hp.mem[g] \in Memories /\ PlaceOf(hp, hp.mem[g], p)
        /\ Inserted(hp, hq, h, hp.mem[g], p)
    BY <1>1, <1>4, WatchLikeFields
  <2>2. FromIn(hq, Itr) = IF p \in FromIn(hp, Itr) THEN FromIn(hp, Itr) \cup {h}
                          ELSE FromIn(hp, Itr)
    BY <1>1, <2>1, FromInserted
  <2>3. p \in FromIn(hp, Itr) => g \in Untold(hp)
    <3> SUFFICES ASSUME p \in FromIn(hp, Itr) PROVE g \in Untold(hp)
      OBVIOUS
    <3>1. FromIn(hp, Itr) \subseteq All /\ ClosedIn(hp, FromIn(hp, Itr))
      BY <1>1, FromLeast DEF Sane
    <3>2. hp.next[p] = g
      BY <1>1, <1>4, <3>1, Domains DEF Sane, Linking, Backward
    <3>3. g \in FromIn(hp, Itr)
      BY <1>1, <3>1, <3>2, Domains DEF ClosedIn
    <3> QED
      BY <1>1, <3>3, UntoldFacts
  <2>4. g \in Untold(hp) => p \in FromIn(hp, Itr)
    BY <1>1, UntoldFacts, FromBack
  <2> HIDE DEF hq, p
  <2>5. h \notin Untold(hp)
    BY <1>1, <1>4, UntoldFacts, UntoldNothing
  <2> QED
    BY <1>1, <1>2, <2>2, <2>3, <2>4, UntoldFacts DEF hq
<1> QED
  BY <1>3, <1>4

(* A handle that turns to another location is not told any more.           *)
LEMMA UntoldAssign ==
  ASSUME NEW hp, Sane(hp), NEW h \in Handles \ Untold(hp),
         NEW m \in Memories \cup {Null}, NEW moves \in BOOLEAN
  PROVE  Untold(Assign(hp, h, m, moves)) = Untold(hp)
<1> DEFINE un == Unwatch(hp, h)
<1>1. Sane(un) /\ un.mem[h] = Null
  BY UnwatchSane DEF All, Rewatched
<1>a. Untold(un) = Untold(hp)
  BY UntoldUnwatch
<1> HIDE DEF un
<1>2. Untold(Watch(un, h, m, moves)) = Untold(hp)
  BY <1>1, <1>a, UntoldWatch
<1> QED
  BY <1>2 DEF Assign, un

(* The iterator passes over the handle in front of it.                     *)
LEMMA UntoldPassed ==
  ASSUME NEW hp, Sane(hp), NEW e \in All, hp.mem[Itr] # Null, hp.next[Itr] = e
  PROVE  Untold(AddToExistingUseListAfter(RemoveFromUseList(hp, Itr), Itr, e))
           = Untold(hp) \ {e}
<1> DEFINE hq == AddToExistingUseListAfter(RemoveFromUseList(hp, Itr), Itr, e)
           un == Unwatch(hp, Itr)
           m == hp.mem[Itr]
<1>1. Itr \in All /\ e # Itr
  BY NextIsAnother DEF All
<1>2. Sane(un) /\ Rewatched(hp, un, Itr, Null)
  BY <1>1, UnwatchSane
<1>3. m \in Memories /\ PlaceOf(un, m, e) /\ Inserted(un, hq, Itr, m, e)
  BY <1>1, PassFields
<1>4. Sane(hq)
  BY <1>1, PassSane
<1>5. FromIn(un, e) = FromIn(hp, e) \ {Itr}
  BY <1>1, FromRemoved
<1>6. FromIn(hp, e) = Untold(hp)
  BY DEF Untold
<1> HIDE DEF un, hq, m
<1>7. e \in FromIn(un, e)
  BY <1>2, FromLeast DEF Sane
<1>8. FromIn(hq, e) = FromIn(un, e) \cup {Itr}
  BY <1>1, <1>2, <1>3, <1>7, FromInserted DEF Rewatched
<1>9. hq.next[e] = Itr
  BY <1>1, <1>3 DEF Inserted
<1>10. FromIn(hq, e) = {e} \cup FromIn(hq, Itr) /\ e \notin FromIn(hq, Itr)
  BY <1>4, <1>9, FromStep, FromHasNoCycle DEF Sane
<1>11. FromIn(hq, Itr) = {Itr} \cup Untold(hq) /\ Itr \notin Untold(hq)
       /\ Itr \notin Untold(hp)
  BY <1>4, UntoldFacts
<1>12. FromIn(hq, e) = Untold(hp) \cup {Itr}
  BY <1>5, <1>6, <1>8, <1>11
<1>13. Untold(hq) = FromIn(hq, e) \ {e, Itr}
  BY <1>10, <1>11
<1> QED
  BY <1>11, <1>12, <1>13 DEF hq

(* A walk begins in front of all handles of the location.                  *)
LEMMA UntoldStart ==
  ASSUME NEW hp, Sane(hp), NEW m \in Memories, hp.head[m] # Null,
         hp.mem[Itr] = Null
  PROVE  Untold(WatchLike(hp, Itr, hp.head[m])) = {h \in Handles : hp.mem[h] = m}
<1> DEFINE e == hp.head[m]
           hq == WatchLike(hp, Itr, e)
<1>1. /\ Itr \in All /\ e \in All /\ e # Itr /\ hp.mem[e] = m /\ hp.prev[e] = m
      /\ Null \notin Memories
  BY Domains DEF Sane, Linking, Headed, Heaps, All
<1>2. PlaceOf(hp, m, m) /\ Inserted(hp, hq, Itr, m, m)
  BY <1>1, WatchLikeFields
<1>3. hq.next[Itr] = e
  BY <1>1, WatchLikeNext
<1>4. FromIn(hp, e) = {h \in All : hp.mem[h] = m}
  BY FromHead
<1> HIDE DEF hq, e
<1>5. m \notin FromIn(hp, e)
  BY <1>1, <1>4, Domains
<1>6. FromIn(hq, e) = FromIn(hp, e)
  BY <1>1, <1>2, <1>5, FromInserted
<1>7. Untold(hq) = {h \in All : hp.mem[h] = m}
  BY <1>3, <1>4, <1>6 DEF Untold
<1> QED
  BY <1>1, <1>7 DEF All, hq, e

-----------------------------------------------------------------------------
(* Who has been told.                                                      *)

(* Who still watches what a walk is about, and is not in front of the      *)
(* iterator, is an asserting handle, or one whose owner has been called    *)
(* and is at work, or may keep it as the location is only replaced.        *)
Told(h) ==
  \/ Kind[h] = "assert"
  \/ walk.calling /\ h = walk.entry
  \/ walk.by # Null /\ Kind[h] = "callback"

Noticing ==
  /\ walk.of # Null => walk.by # walk.of
  /\ walk.calling => /\ walk.of # Null /\ walk.entry \in Handles
                     /\ Kind[walk.entry] = "callback"
  /\ walk.of # Null =>
       \A h \in Handles : heap.mem[h] = walk.of => h \in Untold(heap) \/ Told(h)

NInv == Inv /\ Noticing

(* What is in front of the iterator after a step, and who watches what.    *)

(* When no list is walked no handle is still to be told.                   *)
LEMMA NoWalkUntold ==
  ASSUME Inv, walk.of = Null
  PROVE  Untold(heap) = {}
BY UntoldNothing DEF Inv, TypeOK

(* Constructing a handle keeps the invariant of the walk;                  *)
LEMMA ConstructStep ==
  ASSUME Inv, NEW h \in Handles, NEW m \in Memories \cup {Null},
         NEW moves \in MayMove(m), Construct(h, m, moves)
  PROVE  /\ Untold(heap') = Untold(heap)
         /\ \A g \in Handles : heap'.mem[g] = IF g = h THEN m ELSE heap.mem[g]
<1>1. /\ heap.mem[h] = Null /\ heap' = Watch(heap, h, m, moves)
      /\ moves \in BOOLEAN /\ Sane(heap) /\ h \in All
  BY DEF Construct, Inv, Watching, MayMove, All
<1>2. Rewatched(heap, heap', h, m)
  BY <1>1, WatchSane
<1> QED
  BY <1>1, <1>2, UntoldWatch DEF Rewatched, All

(* so does copying one,                                                    *)
LEMMA CopyStep ==
  ASSUME Inv, NEW h \in Handles, NEW g \in Handles, Copy(h, g)
  PROVE  /\ Untold(heap') = IF g \in Untold(heap) THEN Untold(heap) \cup {h}
                            ELSE Untold(heap)
         /\ \A k \in Handles :
              heap'.mem[k] = IF k = h THEN heap.mem[g] ELSE heap.mem[k]
<1>1. /\ heap.mem[h] = Null /\ heap' = WatchLike(heap, h, g)
      /\ Sane(heap) /\ h \in All /\ g \in All
  BY DEF Copy, Inv, Watching, All
<1>2. Rewatched(heap, heap', h, heap.mem[g])
  BY <1>1, WatchLikeSane
<1> QED
  BY <1>1, <1>2, UntoldWatchLike DEF Rewatched, All

(* destroying one,                                                         *)
LEMMA DestroyStep ==
  ASSUME Inv, NEW h \in Handles, Destroy(h)
  PROVE  /\ Untold(heap') = Untold(heap) \ {h}
         /\ \A g \in Handles : heap'.mem[g] = IF g = h THEN Null ELSE heap.mem[g]
<1>1. heap' = Unwatch(heap, h) /\ Sane(heap) /\ h \in All
  BY DEF Destroy, Inv, All
<1>2. Rewatched(heap, heap', h, Null)
  BY <1>1, UnwatchSane
<1> QED
  BY <1>1, <1>2, UntoldUnwatch DEF Rewatched, All

(* assigning one,                                                          *)
LEMMA SetStep ==
  ASSUME Inv, NEW h \in Handles
  PROVE  /\ \A m \in Memories \cup {Null} : \A moves \in MayMove(m) :
              SetMemory(h, m, moves) =>
                \A k \in Handles : heap'.mem[k] = IF k = h THEN m ELSE heap.mem[k]
         /\ \A g \in Handles :
              SetHandle(h, g) =>
                \A k \in Handles :
                  heap'.mem[k] = IF k = h THEN heap.mem[g] ELSE heap.mem[k]
<1>1. h \in All /\ Handles \subseteq All /\ Sane(heap)
  BY DEF Inv, All
<1>2. ASSUME NEW m \in Memories \cup {Null}, NEW moves \in MayMove(m),
             SetMemory(h, m, moves)
      PROVE  Rewatched(heap, heap', h, m)
  <2>1. moves \in BOOLEAN /\ heap' = Assign(heap, h, m, moves)
    BY <1>2 DEF MayMove, SetMemory
  <2> QED
    BY <1>1, <2>1, AssignSane
<1>3. ASSUME NEW g \in Handles, SetHandle(h, g)
      PROVE  Rewatched(heap, heap', h, heap.mem[g])
  BY <1>1, <1>3, AssignLikeSane DEF SetHandle
<1> QED
  BY <1>1, <1>2, <1>3 DEF Rewatched

(* starting a walk,                                                        *)
LEMMA StartStep ==
  ASSUME Inv, NEW m \in Memories, NEW by \in Memories \cup {Null}, Start(m, by)
  PROVE  /\ Untold(heap') = {h \in Handles : heap.mem[h] = m}
         /\ \A g \in Handles : heap'.mem[g] = heap.mem[g]
<1>1. /\ Itr \in All /\ Sane(heap) /\ heap.mem[Itr] = Null
      /\ heap.head[m] # Null /\ heap.head[m] \in All /\ heap.mem[heap.head[m]] = m
      /\ heap' = WatchLike(heap, Itr, heap.head[m])
  BY DEF All, Start, Idle, NoWalk, Inv, TypeOK, Sane, Linking, Headed, Heaps
<1>2. Rewatched(heap, heap', Itr, m)
  BY <1>1, WatchLikeSane
<1> QED
  BY <1>1, <1>2, UntoldStart, Domains DEF Rewatched, All

(* moving past a handle, which was still to be told and is alive,          *)
LEMMA PassedStep ==
  ASSUME Inv, Visiting
  PROVE  /\ walk.entry \in Untold(heap) /\ walk.entry \in live
         /\ walk.entry \in Handles
         /\ Untold(Passed) = Untold(heap) \ {walk.entry}
         /\ \A g \in Handles : Passed.mem[g] = heap.mem[g]
         /\ Sane(Passed)
<1>1. /\ walk.entry = heap.next[Itr] /\ Sane(heap) /\ heap.mem[Itr] # Null
      /\ walk.entry \in Handles
  BY DEF Inv, TypeOK, Walking, Visiting
<1>2. /\ walk.entry \in All /\ walk.entry \in live
      /\ Rewatched(heap, Passed, Itr, walk.of) /\ Sane(Passed)
  BY PassedSane
<1>3. walk.entry \in Untold(heap)
  BY <1>1, <1>2, FromLeast DEF Untold, Sane
<1>4. Untold(Passed) = Untold(heap) \ {walk.entry}
  BY <1>1, <1>2, UntoldPassed DEF Passed
<1> QED
  BY <1>1, <1>2, <1>3, <1>4, Domains DEF Rewatched, All

(* visiting a weak handle,                                                 *)
LEMMA VisitWeakStep ==
  ASSUME Inv, NEW moves \in MayMove(walk.by), VisitWeak(moves)
  PROVE  /\ Untold(heap') = Untold(heap) \ {walk.entry}
         /\ \A g \in Handles :
              heap'.mem[g] = IF g = walk.entry THEN walk.by ELSE heap.mem[g]
<1> DEFINE e == walk.entry
<1>1. /\ Visiting /\ heap' = Assign(Passed, e, walk.by, moves)
      /\ moves \in BOOLEAN /\ walk.by \in Memories \cup {Null}
  BY DEF VisitWeak, MayMove, Inv, TypeOK
<1>2. /\ Sane(Passed) /\ e \in Handles \ Untold(Passed)
      /\ Untold(Passed) = Untold(heap) \ {e}
      /\ \A g \in Handles : Passed.mem[g] = heap.mem[g]
  BY <1>1, PassedStep
<1> HIDE DEF e
<1>3. Untold(heap') = Untold(Passed)
  BY <1>1, <1>2, UntoldAssign
<1>4. Rewatched(Passed, heap', e, walk.by)
  BY <1>1, <1>2, AssignSane DEF All
<1> QED
  BY <1>2, <1>3, <1>4 DEF e, Rewatched, All

(* ending a walk,                                                          *)
LEMMA FinishStep ==
  ASSUME Inv, Finish
  PROVE  /\ Untold(heap) = {} /\ Untold(heap') = {}
         /\ \A g \in Handles : heap'.mem[g] = heap.mem[g]
<1>1. Itr \in All /\ Sane(heap) /\ heap' = Unwatch(heap, Itr) /\ heap.next[Itr] = Null
  BY DEF Finish, Ending, Inv, Walking, All
<1>2. Sane(heap') /\ Rewatched(heap, heap', Itr, Null)
  BY <1>1, UnwatchSane
<1>3. Untold(heap) = {}
  BY <1>1 DEF Untold, FromIn
<1>4. Untold(heap') = {}
  BY <1>1, <1>2, UntoldNothing DEF Rewatched
<1> QED
  BY <1>2, <1>3, <1>4, Domains DEF Rewatched, All

(* and every step of the program.                                          *)
LEMMA NextNoticing ==
  ASSUME NInv, [Next]_vars
  PROVE  Noticing'
<1>1. Inv /\ Noticing
  BY DEF NInv
<1>2. Inv'
  BY <1>1, NextInv
<1>3. CASE walk'.of = Null
  BY <1>2, <1>3 DEF Noticing, Inv, Walking, NoWalk
<1>4. CASE UNCHANGED <<heap, walk>>
  BY <1>1, <1>4 DEF Noticing, Told
<1>5. ASSUME NEW h \in Handles, NEW m \in Memories \cup {Null},
             NEW moves \in MayMove(m), Construct(h, m, moves), walk'.of # Null
      PROVE  Noticing'
  <2>1. m = walk.by /\ walk' = walk
    BY <1>5 DEF Construct, MayCreate, Idle, NoWalk
  <2> QED
    BY <1>1, <1>5, <2>1, ConstructStep DEF Noticing, Told
<1>6. ASSUME NEW h \in Handles, NEW g \in Handles, Copy(h, g), walk'.of # Null
      PROVE  Noticing'
  <2>1. walk' = walk /\ walk.by # Null /\ Kind[h] = Kind[g] /\ walk.calling
    BY <1>6 DEF Copy, MayCreate, InCallback, Idle, NoWalk
  <2>2. \A k \in Handles :
          heap'.mem[k] = walk.of => k \in Untold(heap') \/ Told(k)
    <3> SUFFICES ASSUME NEW k \in Handles, heap'.mem[k] = walk.of,
                        k \notin Untold(heap')
                 PROVE  Told(k)
      OBVIOUS
    <3>1. CASE k = h
      <4>1. heap.mem[g] = walk.of /\ g \notin Untold(heap)
        BY <1>1, <1>6, <3>1, CopyStep
      <4>2. Told(g)
        BY <1>1, <1>6, <2>1, <4>1 DEF Noticing
      <4> QED
        BY <1>1, <2>1, <3>1, <4>2 DEF Told, Noticing
    <3>2. CASE k # h
      BY <1>1, <1>6, <2>1, <3>2, CopyStep DEF Noticing
    <3> QED
      BY <3>1, <3>2
  <2> QED
    BY <1>1, <2>1, <2>2 DEF Noticing, Told
<1>7. ASSUME NEW h \in Handles, Destroy(h), walk'.of # Null
      PROVE  Noticing'
  <2>1. walk' = walk
    BY <1>7 DEF Destroy
  <2> QED
    BY <1>1, <1>7, <2>1, DestroyStep DEF Noticing, Told
<1>8. ASSUME NEW m \in Memories, NEW by \in Memories \cup {Null}, Start(m, by)
      PROVE  Noticing'
  <2>1. walk' = [of |-> m, by |-> by, entry |-> heap.head[m], calling |-> FALSE]
        /\ by # m
    BY <1>8, Domains DEF Start
  <2> QED
    BY <1>1, <1>8, <2>1, StartStep DEF Noticing
<1>9. CASE VisitAssert
  <2>1. /\ Visiting /\ heap' = Passed /\ Kind[walk.entry] = "assert"
        /\ walk'.of = walk.of /\ walk'.by = walk.by /\ ~walk.calling
        /\ ~walk'.calling
    BY <1>1, <1>9 DEF VisitAssert, Visiting, Inv, TypeOK
  <2> QED
    BY <1>1, <2>1, PassedStep DEF Noticing, Told
<1>10. ASSUME NEW moves \in MayMove(walk.by), VisitWeak(moves) PROVE Noticing'
  <2>1. walk'.of = walk.of /\ walk'.by = walk.by /\ ~walk.calling
        /\ ~walk'.calling
    BY <1>1, <1>10 DEF VisitWeak, Visiting, Inv, TypeOK
  <2> QED
    BY <1>1, <1>10, <2>1, VisitWeakStep DEF Noticing, Told
<1>11. CASE VisitCallback
  <2>1. /\ Visiting /\ heap' = Passed /\ Kind[walk.entry] = "callback"
        /\ walk'.of = walk.of /\ walk'.by = walk.by /\ ~walk.calling
        /\ walk'.calling /\ walk'.entry = walk.entry /\ walk.of # Null
    BY <1>1, <1>11 DEF VisitCallback, Visiting, Inv, TypeOK
  <2> QED
    BY <1>1, <2>1, PassedStep DEF Noticing, Told
<1>12. CASE Return
  <2>1. /\ heap' = heap /\ walk'.of = walk.of /\ walk'.by = walk.by /\ walk.calling
        /\ ~walk'.calling
        /\ walk.by = Null => walk.entry \notin live
    BY <1>1, <1>12 DEF Return, InCallback, Inv, TypeOK
  <2>2. walk.by = Null /\ walk.of # Null => heap.mem[walk.entry] # walk.of
    BY <1>1, <2>1 DEF Noticing, Inv, Watching
  <2> QED
    BY <1>1, <2>1, <2>2 DEF Noticing, Told
<1>13. ASSUME NEW h \in Handles, NEW m \in Memories \cup {Null},
              NEW moves \in MayMove(m), SetMemory(h, m, moves)
       PROVE  walk'.of = Null
  BY <1>13 DEF SetMemory, Idle, NoWalk
<1>14. ASSUME NEW h \in Handles, NEW g \in Handles, SetHandle(h, g)
       PROVE  walk'.of = Null
  BY <1>14 DEF SetHandle, Idle, NoWalk
<1>15. CASE Finish
  BY <1>3, <1>15 DEF Finish, NoWalk
<1> QED
  BY <1>3, <1>4, <1>5, <1>6, <1>7, <1>8, <1>9, <1>10, <1>11, <1>12, <1>13, <1>14,
     <1>15 DEF Next, vars, Allocate, DeleteUnwatched, Abort

(* The invariant of the walk always holds.                                 *)
LEMMA NoticingAlways == Spec => []NInv
<1>1. Init => NInv
  BY InitInv DEF Init, NInv, Noticing, NoWalk
<1>2. NInv /\ [Next]_vars => NInv'
  BY NextInv, NextNoticing DEF NInv
<1> QED
  BY <1>1, <1>2, PTL DEF Spec

(* At the end of a walk everybody has been told.                           *)
LEMMA ForgottenAssert ==
  ASSUME NInv, Ending, ~Forgotten
  PROVE  /\ walk.by = Null
         /\ \E h \in live : heap.mem[h] = walk.of /\ Kind[h] = "assert"
<1>1. /\ Itr \in All /\ Sane(heap) /\ heap.next[Itr] = Null
      /\ walk.of \in Memories /\ ~walk.calling /\ Null \notin Memories
  BY Domains DEF NInv, Ending, Inv, TypeOK, Walking, All
<1>2. Untold(heap) = {}
  BY <1>1 DEF Untold, FromIn
<1>3. \A h \in Handles : heap.mem[h] = walk.of =>
        /\ h \in live
        /\ Kind[h] = "assert" \/ (walk.by # Null /\ Kind[h] = "callback")
  BY <1>1, <1>2 DEF NInv, Noticing, Told, Inv, Watching
<1>4. walk.by = Null
  BY <1>3 DEF Forgotten, NInv, Inv, TypeOK
<1>5. PICK g \in Handles : heap.mem[g] = walk.of
  <2> DEFINE hq == Unwatch(heap, Itr)
  <2>1. Sane(hq) /\ Rewatched(heap, hq, Itr, Null)
    BY <1>1, UnwatchSane
  <2>2. walk.of \in hq.flagged
    BY <1>4 DEF Forgotten
  <2> HIDE DEF hq
  <2>3. hq.head[walk.of] \in All /\ hq.mem[hq.head[walk.of]] = walk.of
    BY <1>1, <2>1, <2>2 DEF Sane, Linking, Headed, Heaps
  <2> QED
    BY <1>1, <2>1, <2>3 DEF Rewatched, All
<1> QED
  BY <1>3, <1>4, <1>5

(* The program stops in a walk only under an asserting handle of a         *)
(* destroyed location: nobody else can be left when it ends.               *)
THEOREM StopsOnlyForAssert == Spec => []StopsForAssert
<1>1. Init => StopsForAssert
  BY DEF Init, StopsForAssert
<1>2. NInv /\ StopsForAssert /\ [Next]_vars => StopsForAssert'
  <2> SUFFICES ASSUME NInv, StopsForAssert, [Next]_vars, aborted'
               PROVE  StopsForAssert'
    BY DEF StopsForAssert
  <2>1. CASE Abort
    BY <2>1, ForgottenAssert DEF Abort, StopsForAssert
  <2>2. CASE ~Abort
    <3>1. UNCHANGED vars
      BY <2>2 DEF Next, vars, Allocate, DeleteUnwatched, Construct, SetMemory,
                  Copy, SetHandle, Destroy, Start, VisitAssert, VisitWeak,
                  VisitCallback, Return, Finish, Idle, InCallback, MayCreate,
                  Visiting, Ending
    <3> QED
      BY <3>1 DEF vars, StopsForAssert
  <2> QED
    BY <2>1, <2>2
<1> QED
  BY <1>1, <1>2, NoticingAlways, PTL DEF Spec

-----------------------------------------------------------------------------
(* The lists implement the promise of MemoryHandles.                       *)

Watches == [h \in live |-> heap.mem[h]]
Notice == [of |-> walk.of, by |-> walk.by]
Calling == IF walk.calling THEN walk.entry ELSE Null

(* The handles to tell, as the promise has them, in both states of a step. *)
LEMMA ToTell ==
  /\ From(heap.next[Itr]) = Untold(heap)
  /\ (From(heap.next[Itr]))' = Untold(heap')
BY DEF From, Untold, FromIn

(* What a step may change of what the promise tells of, and how.           *)
Keeps(h, m) ==
  /\ live' = live \cup {h}
  /\ \A g \in Handles : heap'.mem[g] = IF g = h THEN m ELSE heap.mem[g]

(* When one handle gets a location and the others keep theirs, the promise *)
(* sees just that.                                                         *)
LEMMA KeepsWith ==
  ASSUME live \subseteq Handles, NEW h \in Handles, NEW m, Keeps(h, m)
  PROVE  Watches' = Promise!With(h, m)
BY DEF Watches, Keeps, Promise!With, Promise!Live

(* When no handle changes its location the promise sees nothing.           *)
LEMMA SameWatches ==
  ASSUME live \subseteq Handles, live' = live,
         \A g \in Handles : heap'.mem[g] = heap.mem[g]
  PROVE  Watches' = Watches
BY DEF Watches

(* Between the walks the promise is quiet, and in a callback it calls.     *)
LEMMA Moments ==
  ASSUME NInv
  PROVE  /\ walk = NoWalk => Promise!Quiet /\ Calling = Null /\ Untold(heap) = {}
         /\ walk.of # Null => ~Promise!Quiet
         /\ walk.calling => Calling # Null /\ walk.of # Null
         /\ ~walk.calling => Calling = Null
         /\ walk.of = Null => walk = NoWalk
BY NoWalkUntold, Domains
   DEF NInv, Inv, TypeOK, Walking, Noticing, NoWalk, Promise!Quiet,
       Promise!NoNotice, Calling, All

(* Each step is a step of the promise or a stutter: starting a walk,       *)
LEMMA StartRefines ==
  ASSUME NInv, NInv', NEW m \in Memories, NEW by \in Memories \cup {Null},
         Start(m, by)
  PROVE  Promise!Announce(m, by)
<1>1. /\ walk = NoWalk /\ m \in exists /\ m # by /\ by \in Memories \cup {Null}
      /\ UNCHANGED <<exists, live>> /\ Inv /\ live \subseteq Handles
      /\ walk' = [of |-> m, by |-> by, entry |-> heap.head[m], calling |-> FALSE]
  BY Domains DEF Start, Idle, NInv, Inv, TypeOK
<1>2. /\ Untold(heap') = {h \in Handles : heap.mem[h] = m}
      /\ \A g \in Handles : heap'.mem[g] = heap.mem[g]
  BY <1>1, StartStep
<1>3. Promise!Quiet /\ Calling = Null
  BY <1>1, Moments
<1>4. Watches' = Watches
  BY <1>1, <1>2, SameWatches
<1>5. {h \in Handles : heap.mem[h] = m} = Promise!Watchers(m)
  BY <1>1, Domains DEF Promise!Watchers, Promise!Live, Inv, Watching
<1>6. Calling' = Null /\ Notice' = [of |-> m, by |-> by]
  BY <1>1 DEF Calling, Notice
<1> QED
  BY <1>1, <1>2, <1>3, <1>4, <1>5, <1>6, ToTell
     DEF Promise!Announce, Watches, Notice, Calling

(* visiting a handle,                                                      *)
LEMMA VisitRefines ==
  ASSUME NInv, NInv',
         VisitAssert \/ VisitCallback \/ \E moves \in MayMove(walk.by) : VisitWeak(moves)
  PROVE  \E e \in Handles : \/ Promise!TellAssert(e) \/ Promise!TellWeak(e)
                             \/ Promise!TellCallback(e)
<1>a. PICK e \in Handles : e = walk.entry
  BY PassedStep DEF VisitAssert, VisitCallback, VisitWeak, NInv
<1>1. Visiting /\ Inv /\ UNCHANGED <<exists, live>> /\ live \subseteq Handles
      /\ ~walk.calling /\ Notice' = Notice
  BY DEF VisitAssert, VisitCallback, VisitWeak, NInv, Inv, TypeOK, Visiting, Notice
<1>2. /\ e \in Untold(heap) /\ e \in live /\ e \in Handles /\ e # Null
      /\ Calling = Null /\ walk.of # Null
  BY <1>a, <1>1, PassedStep DEF Calling, Visiting
<1>3. CASE VisitAssert
  <2>1. heap' = Passed /\ Kind[e] = "assert" /\ ~walk'.calling
    BY <1>a, <1>1, <1>3 DEF VisitAssert, NInv, Inv, TypeOK
  <2>2. Untold(heap') = Untold(heap) \ {e}
        /\ \A g \in Handles : heap'.mem[g] = heap.mem[g]
    BY <1>a, <1>1, <2>1, PassedStep
  <2>3. Watches' = Watches /\ Calling' = Calling
    BY <1>1, <1>2, <2>1, <2>2, SameWatches DEF Calling
  <2>4. Promise!TellAssert(e)
    BY <1>1, <1>2, <2>1, <2>2, <2>3, ToTell
       DEF Promise!TellAssert, Watches, Notice, Calling
  <2> QED
    BY <2>4
<1>4. CASE VisitCallback
  <2>1. heap' = Passed /\ Kind[e] = "callback" /\ walk'.calling /\ walk'.entry = e
    BY <1>a, <1>1, <1>4 DEF VisitCallback, NInv, Inv, TypeOK
  <2>2. Untold(heap') = Untold(heap) \ {e}
        /\ \A g \in Handles : heap'.mem[g] = heap.mem[g]
    BY <1>a, <1>1, <2>1, PassedStep
  <2>3. Watches' = Watches /\ Calling' = e
    BY <1>1, <1>2, <2>1, <2>2, SameWatches DEF Calling
  <2>4. Promise!TellCallback(e)
    BY <1>1, <1>2, <2>1, <2>2, <2>3, ToTell
       DEF Promise!TellCallback, Watches, Notice, Calling
  <2> QED
    BY <2>4
<1>5. ASSUME NEW moves \in MayMove(walk.by), VisitWeak(moves)
      PROVE  Promise!TellWeak(e)
  <2>1. Kind[e] = "weak" /\ ~walk'.calling
    BY <1>a, <1>1, <1>5 DEF VisitWeak, NInv, Inv, TypeOK
  <2>2. /\ Untold(heap') = Untold(heap) \ {e}
        /\ \A g \in Handles :
             heap'.mem[g] = IF g = e THEN walk.by ELSE heap.mem[g]
    BY <1>a, <1>1, <1>5, VisitWeakStep
  <2>3. Keeps(e, walk.by)
    BY <1>1, <1>2, <2>2 DEF Keeps
  <2>4. Watches' = Promise!With(e, walk.by)
    BY <1>1, <1>2, <2>3, KeepsWith
  <2>5. Calling' = Calling
    BY <1>2, <2>1 DEF Calling
  <2> QED
    BY <1>1, <1>2, <2>1, <2>2, <2>4, <2>5, ToTell
       DEF Promise!TellWeak, Watches, Notice, Calling
<1> QED
  BY <1>3, <1>4, <1>5

(* an operation on one handle,                                             *)
LEMMA OneHandleRefines ==
  ASSUME NInv, NInv', NEW h \in Handles
  PROVE  /\ \A m \in Memories \cup {Null} : \A moves \in MayMove(m) :
              /\ Construct(h, m, moves) => Promise!Watch(h, m)
              /\ SetMemory(h, m, moves) => Promise!Rewatch(h, m)
         /\ \A g \in Handles :
              /\ Copy(h, g) => Promise!WatchLike(h, g)
              /\ SetHandle(h, g) =>
                   \E m \in Memories \cup {Null} : Promise!Rewatch(h, m)
         /\ Destroy(h) => Promise!Destroy(h)
<1>1. /\ Inv /\ live \subseteq Handles /\ DOMAIN Watches = live
      /\ \A g \in Handles : heap.mem[g] \in exists \cup {Null}
      /\ \A g \in live : Watches[g] = heap.mem[g]
  BY DEF NInv, Inv, TypeOK, Watching, Watches
<1>2. MayCreate \/ Idle \/ InCallback => Promise!MayChange
  BY Moments DEF MayCreate, Idle, InCallback, Promise!MayChange, Calling
<1>3. ASSUME UNCHANGED walk PROVE UNCHANGED <<Notice, Calling>>
  BY <1>3 DEF Notice, Calling
<1>4. ASSUME NEW m \in Memories \cup {Null}, NEW moves \in MayMove(m),
             Construct(h, m, moves)
      PROVE  Promise!Watch(h, m)
  <2>1. Untold(heap') = Untold(heap) /\ Watches' = Promise!With(h, m)
    BY <1>1, <1>4, ConstructStep, KeepsWith DEF Keeps, Construct
  <2>2. /\ MayCreate /\ h \notin live /\ m \in exists \cup {Null}
        /\ UNCHANGED <<exists, walk>> /\ (InCallback => m = walk.by)
    BY <1>4 DEF Construct
  <2>3. ~Promise!Quiet => m # walk.of
    BY <2>2, Moments DEF MayCreate, Idle, NInv, Noticing, InCallback
  <2> QED
    BY <1>1, <1>2, <1>3, <2>1, <2>2, <2>3, ToTell
       DEF Promise!Watch, Promise!Live, Watches, Notice, Calling
<1>5. ASSUME NEW m \in Memories \cup {Null}, NEW moves \in MayMove(m),
             SetMemory(h, m, moves)
      PROVE  Promise!Rewatch(h, m)
  <2>1. /\ walk = NoWalk /\ walk' = walk /\ live' = live /\ exists' = exists
        /\ h \in live /\ m \in exists \cup {Null}
    BY <1>5 DEF SetMemory, Idle
  <2>2. Untold(heap) = {} /\ Untold(heap') = {} /\ Promise!Quiet
    <3>1. Inv' /\ walk'.of = Null
      BY <2>1 DEF NInv, NoWalk
    <3> QED
      BY <2>1, <3>1, Moments, UntoldNothing DEF Inv, TypeOK
  <2>3. Watches' = Promise!With(h, m)
    BY <1>1, <1>5, <2>1, SetStep, KeepsWith DEF Keeps
  <2> QED
    BY <1>1, <1>3, <2>1, <2>2, <2>3, ToTell
       DEF Promise!Rewatch, Promise!Live, Watches, Notice, Calling
<1>6. ASSUME NEW g \in Handles, Copy(h, g) PROVE Promise!WatchLike(h, g)
  <2>1. /\ Untold(heap') = IF g \in Untold(heap) THEN Untold(heap) \cup {h}
                           ELSE Untold(heap)
        /\ Watches' = Promise!With(h, heap.mem[g])
    BY <1>1, <1>6, CopyStep, KeepsWith DEF Keeps, Copy
  <2>2. /\ MayCreate /\ h \notin live /\ g \in live /\ Kind[h] = Kind[g]
        /\ UNCHANGED <<exists, walk>>
    BY <1>6 DEF Copy
  <2> QED
    BY <1>1, <1>2, <1>3, <2>1, <2>2, ToTell
       DEF Promise!WatchLike, Promise!Live, Watches, Notice, Calling
<1>7. ASSUME NEW g \in Handles, SetHandle(h, g)
      PROVE  \E m \in Memories \cup {Null} : Promise!Rewatch(h, m)
  <2>a. PICK m \in Memories \cup {Null} : m = heap.mem[g]
    BY <1>1 DEF NInv, Inv, TypeOK
  <2>1. /\ walk = NoWalk /\ walk' = walk /\ live' = live /\ exists' = exists
        /\ h \in live
    BY <1>7 DEF SetHandle, Idle
  <2>2. Untold(heap) = {} /\ Untold(heap') = {} /\ Promise!Quiet
    <3>1. Inv' /\ walk'.of = Null
      BY <2>1 DEF NInv, NoWalk
    <3> QED
      BY <2>1, <3>1, Moments, UntoldNothing DEF Inv, TypeOK
  <2>3. Watches' = Promise!With(h, m)
    BY <1>1, <1>7, <2>a, <2>1, SetStep, KeepsWith DEF Keeps
  <2>4. Promise!Rewatch(h, m)
    BY <1>1, <1>3, <2>a, <2>1, <2>2, <2>3, ToTell
       DEF Promise!Rewatch, Promise!Live, Watches, Notice, Calling
  <2> QED
    BY <2>4
<1>8. ASSUME Destroy(h) PROVE Promise!Destroy(h)
  <2>1. /\ Untold(heap') = Untold(heap) \ {h} /\ h \in live
        /\ live' = live \ {h} /\ UNCHANGED <<exists, walk>>
        /\ Idle \/ InCallback
        /\ \A g \in live \ {h} : heap'.mem[g] = heap.mem[g]
    BY <1>1, <1>8, DestroyStep DEF Destroy
  <2>2. Watches' = Promise!Without(h)
    BY <1>1, <2>1 DEF Watches, Promise!Without, Promise!Live
  <2> QED
    BY <1>1, <1>2, <1>3, <2>1, <2>2, ToTell
       DEF Promise!Destroy, Promise!Live, Watches, Notice, Calling
<1> QED
  BY <1>4, <1>5, <1>6, <1>7, <1>8

(* the return of a callback,                                               *)
LEMMA ReturnRefines ==
  ASSUME NInv, Return
  PROVE  Promise!Return
<1>1. /\ Calling # Null /\ Calling' = Null /\ UNCHANGED <<exists, live, heap>>
      /\ Notice' = Notice
  BY Moments DEF Return, InCallback, Calling, Notice, NInv, Inv, TypeOK
<1> QED
  BY <1>1, ToTell DEF Promise!Return, Watches, Notice, Calling

(* the end of a walk,                                                      *)
LEMMA FinishRefines ==
  ASSUME NInv, Finish
  PROVE  Promise!Finish
<1>1. /\ Inv /\ walk' = NoWalk /\ live' = live /\ live \subseteq Handles
      /\ ~walk.calling /\ walk.of # Null /\ walk.of \in Memories
      /\ exists' = IF walk.by = Null THEN exists \ {walk.of} ELSE exists
      /\ Itr \in All /\ Sane(heap)
  BY DEF NInv, Inv, TypeOK, Finish, Ending, All
<1>2. Untold(heap) = {} /\ Untold(heap') = {} /\ Watches' = Watches
  BY <1>1, FinishStep, SameWatches
<1>3. Calling = Null /\ Calling' = Null /\ ~Promise!Quiet
      /\ Notice' = Promise!NoNotice
  BY <1>1, Moments DEF Calling, Notice, NoWalk, Promise!NoNotice
<1>4. walk.by = Null => Promise!Watchers(walk.of) = {}
  <2>1. Sane(Unwatch(heap, Itr)) /\ Rewatched(heap, Unwatch(heap, Itr), Itr, Null)
    BY <1>1, UnwatchSane
  <2>2. walk.by = Null => \A h \in All : Unwatch(heap, Itr).mem[h] # walk.of
    BY <1>1, <2>1, FreeToGo DEF Finish, Forgotten
  <2> QED
    BY <1>1, <2>1, <2>2, Domains DEF Promise!Watchers, Promise!Live, Rewatched, All
<1> QED
  BY <1>1, <1>2, <1>3, <1>4, ToTell DEF Promise!Finish, Watches, Notice, Calling

(* and so every step.                                                      *)
LEMMA NextRefines ==
  ASSUME NInv, NInv', [Next]_vars
  PROVE  [Promise!Next]_(Promise!vars)
<1>1. CASE UNCHANGED vars
  BY <1>1, ToTell DEF vars, Promise!vars, Untold
<1>2. ASSUME NEW m \in Memories, Allocate(m) PROVE Promise!Allocate(m)
  <2>1. /\ Promise!Quiet /\ m \notin exists /\ exists' = exists \cup {m}
        /\ UNCHANGED <<Watches, Notice, Calling>> /\ heap' = heap
    BY <1>2, Moments DEF Allocate, Idle, Watches, Notice, Calling
  <2> QED
    BY <2>1, ToTell DEF Promise!Allocate, Watches, Notice, Calling
<1>3. ASSUME NEW m \in Memories, DeleteUnwatched(m) PROVE Promise!Free(m)
  <2>1. /\ Promise!Quiet /\ m \in exists /\ exists' = exists \ {m}
        /\ UNCHANGED <<Watches, Notice, Calling>> /\ heap' = heap
    BY <1>3, Moments DEF DeleteUnwatched, Idle, Watches, Notice, Calling
  <2>2. Promise!Watchers(m) = {}
    BY <1>3, FreeToGo DEF DeleteUnwatched, Promise!Watchers, Promise!Live, NInv, Inv,
                          TypeOK, All
  <2> QED
    BY <2>1, <2>2, ToTell DEF Promise!Free, Watches, Notice, Calling
<1>4. CASE Abort
  BY <1>4, ToTell DEF Abort, Promise!vars, Untold
<1>5. ASSUME NEW h \in Handles, NEW m \in Memories \cup {Null},
             NEW moves \in MayMove(m),
             Construct(h, m, moves) \/ SetMemory(h, m, moves)
      PROVE  Promise!Next
  BY <1>5, OneHandleRefines DEF Promise!Next
<1>6. ASSUME NEW h \in Handles, NEW g \in Handles, Copy(h, g) \/ SetHandle(h, g)
      PROVE  Promise!Next
  <2>2. CASE Copy(h, g)
    <3>1. Promise!WatchLike(h, g)
      BY <2>2, OneHandleRefines
    <3> QED
      BY <3>1 DEF Promise!Next
  <2>3. CASE SetHandle(h, g)
    <3>1. \E m \in Memories \cup {Null} : Promise!Rewatch(h, m)
      BY <2>3, OneHandleRefines
    <3> QED
      BY <3>1 DEF Promise!Next
  <2> QED
    BY <1>6, <2>2, <2>3
<1>7. ASSUME NEW h \in Handles, Destroy(h) PROVE Promise!Next
  BY <1>7, OneHandleRefines DEF Promise!Next
<1>8. CASE VisitAssert \/ VisitCallback \/ \E moves \in MayMove(walk.by) : VisitWeak(moves)
  <2>1. \E e \in Handles : \/ Promise!TellAssert(e) \/ Promise!TellWeak(e)
                           \/ Promise!TellCallback(e)
    BY <1>8, VisitRefines
  <2> QED
    BY <2>1 DEF Promise!Next
<1>9. ASSUME NEW m \in Memories, NEW by \in Memories \cup {Null}, Start(m, by)
      PROVE  Promise!Next
  BY <1>9, StartRefines DEF Promise!Next
<1>10. CASE Return \/ Finish
  BY <1>10, ReturnRefines, FinishRefines DEF Promise!Next
<1> QED
  BY <1>1, <1>2, <1>3, <1>4, <1>5, <1>6, <1>7, <1>8, <1>9, <1>10
     DEF Next, Promise!Next

(* The lists keep the promise of the handles: each step of the program is  *)
(* one of the promise, or changes nothing of what it tells of.  Everybody  *)
(* who watches a location when a walk begins, or is copied from one that   *)
(* has not been told, is told once.                                        *)
THEOREM PromiseKept == Spec => ImplementsPromise
<1>1. Init => Promise!Init
  <2> SUFFICES ASSUME Init PROVE Promise!Init
    OBVIOUS
  <2>1. From(heap.next[Itr]) = {} /\ exists = {} /\ Watches = [h \in {} |-> Null]
    BY DEF Init, From, All, Watches
  <2>2. Calling = Null /\ Notice = Promise!NoNotice
    BY DEF Init, NoWalk, Calling, Notice, Promise!NoNotice
  <2> QED
    BY <2>1, <2>2 DEF Promise!Init, Watches, Notice, Calling
<1>2. NInv /\ NInv' /\ [Next]_vars => [Promise!Next]_(Promise!vars)
  BY NextRefines
<1> QED
  BY <1>1, <1>2, NoticingAlways, PTL DEF Spec, ImplementsPromise, Promise!Spec
=============================================================================
