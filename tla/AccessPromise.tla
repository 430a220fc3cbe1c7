---------------------------- MODULE AccessPromise ----------------------------
(* What a list of array accesses promises its clients: in every scope they *)
(* find the accesses to every array the scope contains, no more and no     *)
(* fewer, whatever is added, erased or replaced meanwhile.  The promise is *)
(* kept until the memory of an array is destroyed that is all some scope   *)
(* accesses.                                                               *)
EXTENDS Naturals, SequencesExt

CONSTANTS Arrays, Scopes,
          Nest   \* of a scope: the scopes around it, from itself outwards

VARIABLES found,  \* the number of accesses to an array found in a scope
          kept    \* the promise has not ended

PInit == found = [a \in Arrays |-> [s \in Scopes |-> 0]] /\ kept = TRUE

PAdd(a, s) ==
  /\ found' = [found EXCEPT ![a] =
                 [t \in Scopes |-> @[t] + IF t \in ToSet(Nest[s]) THEN 1 ELSE 0]]
  /\ kept' = TRUE

PErase(a) == found' = [found EXCEPT ![a] = [s \in Scopes |-> 0]] /\ kept' = TRUE

(* Nothing is promised of what is found next.                              *)
PLose(a) ==
  /\ \E s \in Scopes :
       found[a][s] > 0 /\ \A b \in Arrays \ {a} : found[b][s] = 0
  /\ kept' = FALSE

(* The accesses to a become accesses to m.                                 *)
PReplace(a, m) ==
  /\ found' = [found EXCEPT ![a] = [s \in Scopes |-> 0],
                            ![m] = [s \in Scopes |-> @[s] + found[a][s]]]
  /\ kept' = TRUE

(* An array not accessed so far gets the accesses to a, which remain.      *)
PCopy(a, m) ==
  /\ \A s \in Scopes : found[m][s] = 0
  /\ found' = [found EXCEPT ![m] = found[a]]
  /\ kept' = TRUE

PNext ==
  /\ kept
  /\ \/ \E a \in Arrays, s \in Scopes : PAdd(a, s)
     \/ \E a \in Arrays : PErase(a) \/ PLose(a)
     \/ \E a \in Arrays : \E m \in Arrays \ {a} : PReplace(a, m) \/ PCopy(a, m)

PSpec == PInit /\ [][PNext]_<<found, kept>>
=============================================================================
