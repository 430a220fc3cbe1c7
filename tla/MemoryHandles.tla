--------------------------- MODULE MemoryHandles ---------------------------
(* What the handles of metadata-level memory promise.  A handle watches at *)
(* most one memory location.  When a location is destroyed or replaced,    *)
(* every handle that watches it is told once: a weak handle forgets the    *)
(* destroyed location and follows the replaced one, an asserting handle    *)
(* ignores both, and the owner of a callback handle is free to destroy and *)
(* to create handles.  A location disappears unwatched, or the program     *)
(* stops.                                                                  *)
CONSTANTS Memories, Handles, Kind, Null

VARIABLES
  exists,   \* locations
  watches,  \* for every handle that exists, what it watches
  notice,   \* the location handles are being told about, and what replaces it
  untold,   \* handles that have not been told
  calling   \* the callback handle whose owner is at work

vars == <<exists, watches, notice, untold, calling>>

NoNotice == [of |-> Null, by |-> Null]
Live == DOMAIN watches
Watchers(m) == {h \in Live : watches[h] = m}
Without(h) == [g \in Live \ {h} |-> watches[g]]
With(h, m) == [g \in Live \cup {h} |-> IF g = h THEN m ELSE watches[g]]

Init ==
  /\ exists = {} /\ watches = [h \in {} |-> Null]
  /\ notice = NoNotice /\ untold = {} /\ calling = Null

Quiet == notice = NoNotice
(* Handles are created and destroyed by the program, and by the owner of a *)
(* callback handle.                                                        *)
MayChange == Quiet \/ calling # Null

Allocate(m) ==
  /\ Quiet /\ m \notin exists
  /\ exists' = exists \cup {m}
  /\ UNCHANGED <<watches, notice, untold, calling>>

(* Nobody begins to watch what handles are being told about, but a copy of *)
(* a handle that will be told is told as well.                             *)
Watch(h, m) ==
  /\ MayChange /\ h \notin Live /\ m \in exists \cup {Null}
  /\ ~Quiet => m # notice.of
  /\ watches' = With(h, m)
  /\ UNCHANGED <<exists, notice, untold, calling>>

WatchLike(h, g) ==
  /\ MayChange /\ h \notin Live /\ g \in Live /\ Kind[h] = Kind[g]
  /\ watches' = With(h, watches[g])
  /\ untold' = IF g \in untold THEN untold \cup {h} ELSE untold
  /\ UNCHANGED <<exists, notice, calling>>

Rewatch(h, m) ==
  /\ Quiet /\ h \in Live /\ m \in exists \cup {Null}
  /\ watches' = With(h, m)
  /\ UNCHANGED <<exists, notice, untold, calling>>

Destroy(h) ==
  /\ MayChange /\ h \in Live
  /\ watches' = Without(h) /\ untold' = untold \ {h}
  /\ UNCHANGED <<exists, notice, calling>>

Announce(m, new) ==
  /\ Quiet /\ m \in exists /\ m # new
  /\ notice' = [of |-> m, by |-> new] /\ untold' = Watchers(m)
  /\ UNCHANGED <<exists, watches, calling>>

TellAssert(h) ==
  /\ calling = Null /\ h \in untold /\ Kind[h] = "assert"
  /\ untold' = untold \ {h}
  /\ UNCHANGED <<exists, watches, notice, calling>>

TellWeak(h) ==
  /\ calling = Null /\ h \in untold /\ Kind[h] = "weak"
  /\ untold' = untold \ {h} /\ watches' = With(h, notice.by)
  /\ UNCHANGED <<exists, notice, calling>>

TellCallback(h) ==
  /\ calling = Null /\ h \in untold /\ Kind[h] = "callback"
  /\ untold' = untold \ {h} /\ calling' = h
  /\ UNCHANGED <<exists, watches, notice>>

Return ==
  /\ calling # Null /\ calling' = Null
  /\ UNCHANGED <<exists, watches, notice, untold>>

(* Everybody has been told.  A destroyed location is no longer watched.    *)
Finish ==
  /\ ~Quiet /\ calling = Null /\ untold = {} /\ notice' = NoNotice
  /\ \/ notice.by # Null /\ exists' = exists
     \/ /\ notice.by = Null /\ Watchers(notice.of) = {}
        /\ exists' = exists \ {notice.of}
  /\ UNCHANGED <<watches, untold, calling>>

(* A location nobody watches is destroyed in silence.                      *)
Free(m) ==
  /\ Quiet /\ m \in exists /\ Watchers(m) = {}
  /\ exists' = exists \ {m}
  /\ UNCHANGED <<watches, notice, untold, calling>>

Next ==
  \/ \E m \in Memories : Allocate(m) \/ Free(m)
  \/ \E m \in Memories, new \in Memories \cup {Null} : Announce(m, new)
  \/ \E h \in Handles, m \in Memories \cup {Null} : Watch(h, m) \/ Rewatch(h, m)
  \/ \E h, g \in Handles : WatchLike(h, g)
  \/ \E h \in Handles :
       Destroy(h) \/ TellAssert(h) \/ TellWeak(h) \/ TellCallback(h)
  \/ Return
  \/ Finish

Spec == Init /\ [][Next]_vars
=============================================================================
