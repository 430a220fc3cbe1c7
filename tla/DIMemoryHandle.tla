--------------------------- MODULE DIMemoryHandle ---------------------------
(* Handles of metadata-level memory.  The handles of a location form an    *)
(* intrusive list, each one knowing the pointer that points to it: the     *)
(* 'next' field of its predecessor, or the bucket of the location in a     *)
(* hash table of list heads, which moves when the table grows.  Destroying *)
(* or replacing a location walks its list with a handle of its own as an   *)
(* iterator, because the callbacks it runs create and destroy handles.     *)
CONSTANTS Memories, Handles,
          Kind,  \* "assert", "weak" or "callback", for every handle
          Itr,   \* the iterator of a walk
          Null

All == Handles \cup {Itr}

ASSUME Domains ==
  /\ Memories \cap All = {} /\ Null \notin Memories \cup All
  /\ Itr \notin Handles
  /\ Kind \in [Handles -> {"assert", "weak", "callback"}]

VARIABLES
  exists,   \* memory locations
  live,     \* handles that have been constructed and not destroyed
  heap,     \* mMemory, mPrevPair, mNext, the table, hasMemoryHandle()
  walk,     \* what is destroyed or replaced, by what, the entry visited,
            \* whether its callback is running
  aborted   \* llvm_unreachable() has been reached

vars == <<exists, live, heap, walk, aborted>>

(* mPrevPair points to the bucket of a location or to the 'next' field of  *)
(* a handle, and is Null in a handle without memory and when it is stale.  *)
Heaps == [mem : [All -> Memories \cup {Null}],
          prev : [All -> Memories \cup All \cup {Null}],
          next : [All -> All \cup {Null}],
          head : [Memories -> All \cup {Null}],
          flagged : SUBSET Memories]

NoWalk == [of |-> Null, by |-> Null, entry |-> Null, calling |-> FALSE]

TypeOK ==
  /\ exists \subseteq Memories /\ live \subseteq Handles
  /\ heap \in Heaps
  /\ walk \in [of : Memories \cup {Null}, by : Memories \cup {Null},
               entry : Handles \cup {Null}, calling : BOOLEAN]
  /\ aborted \in BOOLEAN
  /\ heap.mem[Itr] = walk.of

Init ==
  /\ exists = {} /\ live = {} /\ walk = NoWalk /\ aborted = FALSE
  /\ heap = [mem |-> [h \in All |-> Null], prev |-> [h \in All |-> Null],
             next |-> [h \in All |-> Null], head |-> [m \in Memories |-> Null],
             flagged |-> {}]

-----------------------------------------------------------------------------
(* The lists.                                                              *)

Pointee(hp, p) == IF p \in Memories THEN hp.head[p] ELSE hp.next[p]

(* h is inserted where p points: before the pointee.                       *)
AddToExistingUseList(hp, h, p) ==
  LET n == Pointee(hp, p)
  IN [hp EXCEPT
       !.next = [g \in All |-> IF g = h THEN n
                               ELSE IF g = p THEN h ELSE hp.next[g]],
       !.head = [m \in Memories |-> IF m = p THEN h ELSE hp.head[m]],
       !.prev = [g \in All |-> IF g = h THEN p
                               ELSE IF g = n THEN h ELSE hp.prev[g]]]

AddToExistingUseListAfter(hp, h, node) == AddToExistingUseList(hp, h, node)

(* The table is reallocated: pointers to its buckets are stale.            *)
Moved(hp) ==
  [hp EXCEPT !.prev =
     [g \in All |-> IF hp.prev[g] \in Memories THEN Null ELSE hp.prev[g]]]

(* "Okay, reallocation did happen.  Fix the Prev Pointers."                *)
Fixed(hp) ==
  [hp EXCEPT !.prev =
     [g \in All |-> IF \E m \in Memories : hp.head[m] = g
                      THEN CHOOSE m \in Memories : hp.head[m] = g
                      ELSE hp.prev[g]]]

Buckets(hp) == {m \in Memories : hp.head[m] # Null}

(* Mutant: a handle that opens a list leaves the stale pointers alone.     *)
AddToUseList_NoFix(hp, h, moves) ==
  LET m == hp.mem[h]
  IN IF m \in hp.flagged THEN AddToExistingUseList(hp, h, m)
     ELSE [AddToExistingUseList(IF moves THEN Moved(hp) ELSE hp, h, m)
             EXCEPT !.flagged = @ \cup {m}]

(* The first handle of a location inserts a bucket, for which the table    *)
(* may have to move.                                                       *)
AddToUseList(hp, h, moves) ==
  LET m == hp.mem[h]
      added == [AddToExistingUseList(IF moves THEN Moved(hp) ELSE hp, h, m)
                  EXCEPT !.flagged = @ \cup {m}]
  IN IF m \in hp.flagged THEN AddToExistingUseList(hp, h, m)
     ELSE IF moves /\ Buckets(added) # {m} THEN Fixed(added) ELSE added

(* Mutant: the rest of the list is lost.                                   *)
RemoveFromUseList_Cut(hp, h) ==
  LET p == hp.prev[h]
  IN [hp EXCEPT
       !.next = [g \in All |-> IF g \in {h, p} THEN Null ELSE hp.next[g]],
       !.head = [m \in Memories |-> IF m = p THEN Null ELSE hp.head[m]],
       !.prev = [g \in All |-> IF g = h THEN Null ELSE hp.prev[g]],
       !.flagged = IF p \in Memories THEN @ \ {hp.mem[h]} ELSE @]

(* What p points to is skipped; the bucket of an empty list is erased.     *)
(* (Links of a handle outside the lists are never read: they are Null.)    *)
RemoveFromUseList(hp, h) ==
  LET p == hp.prev[h]
      n == hp.next[h]
  IN [hp EXCEPT
       !.next = [g \in All |-> IF g = h THEN Null
                               ELSE IF g = p THEN n ELSE hp.next[g]],
       !.head = [m \in Memories |-> IF m = p THEN n ELSE hp.head[m]],
       !.prev = [g \in All |-> IF g = h THEN Null
                               ELSE IF g = n THEN p ELSE hp.prev[g]],
       !.flagged = IF n = Null /\ p \in Memories THEN @ \ {hp.mem[h]} ELSE @]

Unwatch(hp, h) ==
  [(IF hp.mem[h] # Null THEN RemoveFromUseList(hp, h) ELSE hp)
     EXCEPT !.mem[h] = Null]

(* The constructor from a location, in a handle that watches nothing.      *)
Watch(hp, h, m, moves) ==
  IF m = Null THEN hp ELSE AddToUseList([hp EXCEPT !.mem[h] = m], h, moves)

(* The copy constructor.                                                   *)
WatchLike(hp, h, g) ==
  IF hp.mem[g] = Null THEN hp
  ELSE AddToExistingUseList([hp EXCEPT !.mem[h] = hp.mem[g]], h, hp.prev[g])

(* Assignment of a location.                                               *)
Assign(hp, h, m, moves) ==
  IF hp.mem[h] = m THEN hp ELSE Watch(Unwatch(hp, h), h, m, moves)

(* Assignment of a handle.                                                 *)
AssignLike(hp, h, g) ==
  IF hp.mem[h] = hp.mem[g] THEN hp ELSE WatchLike(Unwatch(hp, h), h, g)

(* The table moves only when a bucket is inserted.                         *)
MayMove(m) == IF m \in Memories \ heap.flagged THEN BOOLEAN ELSE {FALSE}

-----------------------------------------------------------------------------
(* What the program does with handles and locations between the walks, and *)
(* what the owner of a callback handle does during one.                    *)

Idle == walk = NoWalk /\ ~aborted
InCallback == walk.calling /\ ~aborted

(* The owner of a handle to a destroyed location only destroys handles;    *)
(* that of a replaced one also watches its replacement and moves handles.  *)
MayCreate == Idle \/ (InCallback /\ walk.by # Null)

Allocate(m) ==
  /\ Idle /\ m \notin exists
  /\ exists' = exists \cup {m}
  /\ UNCHANGED <<live, heap, walk, aborted>>

Construct(h, m, moves) ==
  /\ MayCreate /\ h \notin live /\ m \in exists \cup {Null}
  /\ InCallback => m = walk.by
  /\ live' = live \cup {h}
  /\ heap' = Watch(heap, h, m, moves)
  /\ UNCHANGED <<exists, walk, aborted>>

(* Mutant: a copy becomes the first of the list.                           *)
Copy_First(h, g) ==
  /\ MayCreate /\ h \notin live /\ g \in live /\ Kind[h] = Kind[g]
  /\ live' = live \cup {h}
  /\ heap' = Watch(heap, h, heap.mem[g], FALSE)
  /\ UNCHANGED <<exists, walk, aborted>>

Copy(h, g) ==
  /\ MayCreate /\ h \notin live /\ g \in live /\ Kind[h] = Kind[g]
  /\ live' = live \cup {h}
  /\ heap' = WatchLike(heap, h, g)
  /\ UNCHANGED <<exists, walk, aborted>>

SetMemory(h, m, moves) ==
  /\ Idle /\ h \in live /\ m \in exists \cup {Null}
  /\ heap' = Assign(heap, h, m, moves)
  /\ UNCHANGED <<exists, live, walk, aborted>>

SetHandle(h, g) ==
  /\ Idle /\ h \in live /\ g \in live
  /\ Kind[h] = Kind[g] /\ Kind[h] # "assert"
  /\ heap' = AssignLike(heap, h, g)
  /\ UNCHANGED <<exists, live, walk, aborted>>

Destroy(h) ==
  /\ Idle \/ InCallback
  /\ h \in live
  /\ live' = live \ {h}
  /\ heap' = Unwatch(heap, h)
  /\ UNCHANGED <<exists, walk, aborted>>

-----------------------------------------------------------------------------
(* ~DIMemory() and replaceAllUsesWith().                                   *)

DeleteUnwatched(m) ==
  /\ Idle /\ m \in exists /\ m \notin heap.flagged
  /\ exists' = exists \ {m}
  /\ UNCHANGED <<live, heap, walk, aborted>>

(* The iterator is a copy of the first entry.                              *)
Start(m, by) ==
  /\ Idle /\ m \in exists \cap heap.flagged
  /\ by \in (exists \ {m}) \cup {Null}
  /\ heap' = WatchLike(heap, Itr, heap.head[m])
  /\ walk' = [of |-> m, by |-> by, entry |-> heap.head[m], calling |-> FALSE]
  /\ UNCHANGED <<exists, live, aborted>>

Visiting == walk.of # Null /\ walk.entry # Null /\ ~walk.calling /\ ~aborted

(* The iterator passes over the entry.                                     *)
Passed ==
  AddToExistingUseListAfter(RemoveFromUseList(heap, Itr), Itr, walk.entry)

VisitAssert ==
  /\ Visiting /\ Kind[walk.entry] = "assert"
  /\ heap' = Passed
  /\ walk' = [walk EXCEPT !.entry = heap'.next[Itr]]
  /\ UNCHANGED <<exists, live, aborted>>

(* Mutant: weak handles are told nothing.                                  *)
VisitWeak_Skip(moves) ==
  /\ Visiting /\ Kind[walk.entry] = "weak"
  /\ heap' = Passed
  /\ walk' = [walk EXCEPT !.entry = heap'.next[Itr]]
  /\ UNCHANGED <<exists, live, aborted>>

VisitWeak(moves) ==
  /\ Visiting /\ Kind[walk.entry] = "weak"
  /\ heap' = Assign(Passed, walk.entry, walk.by, moves)
  /\ walk' = [walk EXCEPT !.entry = heap'.next[Itr]]
  /\ UNCHANGED <<exists, live, aborted>>

VisitCallback ==
  /\ Visiting /\ Kind[walk.entry] = "callback"
  /\ heap' = Passed
  /\ walk' = [walk EXCEPT !.calling = TRUE]
  /\ UNCHANGED <<exists, live, aborted>>

(* "All implementations must remove the reference from this object to the  *)
(* DIMemory that's being destroyed": they destroy the handle.              *)
Return ==
  /\ InCallback
  /\ walk.by = Null => walk.entry \notin live
  /\ walk' = [walk EXCEPT !.entry = heap.next[Itr], !.calling = FALSE]
  /\ UNCHANGED <<exists, live, heap, aborted>>

Ending == walk.of # Null /\ walk.entry = Null /\ ~walk.calling /\ ~aborted

(* Mutant: the iterator stays in the list.                                 *)
Finish_KeepIterator ==
  /\ Ending /\ walk' = NoWalk
  /\ exists' = IF walk.by = Null THEN exists \ {walk.of} ELSE exists
  /\ UNCHANGED <<live, heap, aborted>>

(* Mutant: nobody checks that there are no handles left.                   *)
Finish_Unchecked ==
  /\ Ending
  /\ heap' = Unwatch(heap, Itr) /\ walk' = NoWalk
  /\ exists' = IF walk.by = Null THEN exists \ {walk.of} ELSE exists
  /\ UNCHANGED <<live, aborted>>

(* The iterator is destroyed and nobody else watches what is destroyed, no *)
(* weak handle what is replaced.                                           *)
Forgotten ==
  IF walk.by = Null
    THEN walk.of \notin Unwatch(heap, Itr).flagged
    ELSE \A h \in live : Kind[h] = "weak" => heap.mem[h] # walk.of

Finish ==
  /\ Ending /\ Forgotten
  /\ heap' = Unwatch(heap, Itr) /\ walk' = NoWalk
  /\ exists' = IF walk.by = Null THEN exists \ {walk.of} ELSE exists
  /\ UNCHANGED <<live, aborted>>

(* llvm_unreachable(): in a walk that ends with forgotten handles.         *)
Abort ==
  /\ Ending /\ ~Forgotten /\ aborted' = TRUE
  /\ UNCHANGED <<exists, live, heap, walk>>

Next ==
  \/ \E m \in Memories : Allocate(m) \/ DeleteUnwatched(m)
  \/ \E h \in Handles, m \in Memories \cup {Null} : \E moves \in MayMove(m) :
       Construct(h, m, moves) \/ SetMemory(h, m, moves)
  \/ \E h, g \in Handles : Copy(h, g) \/ SetHandle(h, g)
  \/ \E h \in Handles : Destroy(h)
  \/ \E m \in Memories, by \in Memories \cup {Null} : Start(m, by)
  \/ VisitAssert
  \/ \E moves \in MayMove(walk.by) : VisitWeak(moves)
  \/ VisitCallback
  \/ Return
  \/ Finish
  \/ Abort

Spec == Init /\ [][Next]_vars

-----------------------------------------------------------------------------
(* Properties.                                                             *)

Linked == live \cup (IF walk.of = Null THEN {} ELSE {Itr})

(* "List invariant broken!"  The pointer a handle knows points to it, the  *)
(* next handle knows its predecessor and watches the same location; a      *)
(* location is flagged when it has a list.  Moving the table and changing  *)
(* lists under a walk keep that.                                           *)
WellLinked ==
  /\ \A h \in Linked :
       heap.mem[h] # Null =>
         /\ heap.prev[h] # Null /\ Pointee(heap, heap.prev[h]) = h
         /\ heap.next[h] # Null =>
              /\ heap.prev[heap.next[h]] = h
              /\ heap.mem[heap.next[h]] = heap.mem[h]
  /\ \A m \in Memories :
       /\ m \in heap.flagged <=> heap.head[m] # Null
       /\ heap.head[m] # Null => /\ heap.mem[heap.head[m]] = m
                                 /\ heap.prev[heap.head[m]] = m

(* Handles from h on: they are in every set that contains h and, with a    *)
(* handle, the next one.                                                   *)
From(h) ==
  LET Closed(S) == \A g \in S : heap.next[g] \in S \cup {Null}
  IN IF h = Null THEN {}
     ELSE {g \in All : \A S \in SUBSET All : h \in S /\ Closed(S) => g \in S}

(* The list of a location consists of the handles that watch it: a walk    *)
(* misses none.                                                            *)
ListsComplete ==
  \A m \in Memories : From(heap.head[m]) = {h \in All : heap.mem[h] = m}

(* A handle watches only what exists: it is never left with a destroyed    *)
(* location, which might be recycled under it.                             *)
NothingDangles == \A h \in live : heap.mem[h] \in exists \cup {Null}

(* The program stops in a walk only if a location is destroyed under an    *)
(* asserting handle.                                                       *)
StopsForAssert ==
  aborted => /\ walk.by = Null
             /\ \E h \in live : heap.mem[h] = walk.of /\ Kind[h] = "assert"

(* The lists implement the promise: handles told of a location are those   *)
(* in front of the iterator, and every one is told exactly once.           *)
Promise == INSTANCE MemoryHandles WITH
  watches <- [h \in live |-> heap.mem[h]],
  notice <- [of |-> walk.of, by |-> walk.by],
  untold <- From(heap.next[Itr]),
  calling <- IF walk.calling THEN walk.entry ELSE Null
ImplementsPromise == Promise!Spec
=============================================================================
