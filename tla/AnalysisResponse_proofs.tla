---------------------- MODULE AnalysisResponse_proofs ----------------------
(* Proofs about the response pass: type correctness, that a client no      *)
(* request of which is refused always gets results for the function it     *)
(* asked about, and that an answer has everything asked for or nothing.    *)
EXTENDS AnalysisResponse, Recursion, SequenceTheorems

(* What a provider contains is an analysis, and all that is asked for.     *)
LEMMA ProviderType ==
  ASSUME NEW ids, IsProvided(ids)
  PROVE  Provider(ids) \subseteq Analyses
<1> DEFINE Fitting == {i \in DOMAIN Providers : ToSet(ids) \subseteq Providers[i]}
           First(i) == /\ ToSet(ids) \subseteq Providers[i]
                       /\ \A j \in DOMAIN Providers :
                            ToSet(ids) \subseteq Providers[j] => i <= j
<1>1. Fitting \in SUBSET Nat /\ Fitting # {}
  BY Domains DEF IsProvided
<1>2. \E i \in Fitting : \A j \in Fitting : i <= j
  BY <1>1, LeastNat
<1>3. \E i \in DOMAIN Providers : First(i)
  BY <1>2
<1>4. \E i \in DOMAIN Providers : First(i) /\ Provider(ids) = Providers[i]
  BY <1>3 DEF Provider
<1> QED
  BY <1>4 DEF Analyses, Provided

(* What the loop over the cache has found after n of the analyses.         *)
LookedUp(ids, n, r) ==
  /\ r \in [response : Seq(Analyses), cached : SUBSET Analyses, missed : BOOLEAN]
  /\ r.missed => r.response = <<>>
  /\ ~r.missed => /\ Len(r.response) = n
                  /\ \A i \in 1 .. n : r.response[i] = ids[i]

(* One pass of the loop.                                                   *)
LEMMA LookedFacts ==
  ASSUME NEW ids, NEW n \in Nat, NEW r, LookedUp(ids, n, r)
  PROVE  LookedUp(ids, n + 1, Looked(r, ids[n + 1]))
<1> DEFINE V == [response : Seq(Analyses), cached : SUBSET Analyses, missed : BOOLEAN]
           id == ids[n + 1]
           q == Append(r.response, id)
<1>0. r \in V /\ r.response \in Seq(Analyses) /\ r.cached \subseteq Analyses /\ r.missed \in BOOLEAN
  BY DEF LookedUp
<1> HIDE DEF id
<1>1. CASE r.missed
  <2>1. Looked(r, id) = r
    BY <1>1 DEF Looked
  <2> QED
    BY <1>1, <2>1 DEF LookedUp, id
<1>2. CASE ~r.missed /\ id \in r.cached
  <2>1. Looked(r, id) = [r EXCEPT !.response = q]
    BY <1>2 DEF Looked
  <2>2. /\ q \in Seq(Analyses) /\ Len(q) = n + 1 /\ q[n + 1] = id
        /\ \A i \in 1 .. n : q[i] = ids[i]
    <3>1. id \in Analyses /\ Len(r.response) = n /\ \A i \in 1 .. n : r.response[i] = ids[i]
      BY <1>0, <1>2 DEF LookedUp
    <3> QED
      BY <1>0, <3>1, AppendProperties
  <2>3. \A i \in 1 .. n + 1 : q[i] = ids[i]
    BY <2>2 DEF id
  <2> HIDE DEF q
  <2>4. /\ [r EXCEPT !.response = q] \in V /\ [r EXCEPT !.response = q].response = q
        /\ ~[r EXCEPT !.response = q].missed
    BY <1>0, <1>2, <2>2
  <2> QED
    BY <2>1, <2>2, <2>3, <2>4 DEF LookedUp, id
<1>3. CASE ~r.missed /\ id \notin r.cached
  <2>1. Looked(r, id) = [response |-> <<>>, cached |-> {}, missed |-> TRUE]
    BY <1>3 DEF Looked
  <2>2. <<>> \in Seq(Analyses)
    OBVIOUS
  <2> QED
    BY <2>1, <2>2 DEF LookedUp, id
<1> QED
  BY <1>0, <1>1, <1>2, <1>3

(* The loop over the cache finds everything asked for, each address in its *)
(* place, or nothing.                                                      *)
LEMMA LookingFacts ==
  ASSUME activeIDs \subseteq Analyses, NEW ids \in Seq(Analyses)
  PROVE  Looking(ids).cached \subseteq Analyses /\ Looking(ids).response \in {<<>>, ids}
<1> DEFINE start == [response |-> <<>>, cached |-> activeIDs, missed |-> FALSE]
           V == [response : Seq(Analyses), cached : SUBSET Analyses, missed : BOOLEAN]
           next == [z \in Nat \X V |-> Looked(z[2], ids[z[1]])]
<1>1. start \in V /\ LookedUp(ids, 0, start)
  <2>1. <<>> \in Seq(Analyses) /\ Len(<<>>) = 0
    OBVIOUS
  <2> QED
    BY <2>1 DEF LookedUp
<1>2. \A k \in Nat, r \in V : next[<<k, r>>] = Looked(r, ids[k])
  OBVIOUS
<1>3. ASSUME NEW k \in Nat, NEW r \in V PROVE Looked(r, ids[k]) \in V
  <2>1. <<>> \in Seq(Analyses)
    OBVIOUS
  <2>2. ASSUME ids[k] \in r.cached PROVE Append(r.response, ids[k]) \in Seq(Analyses)
    BY <2>2, AppendProperties
  <2> QED
    BY <2>1, <2>2 DEF Looked
<1> HIDE DEF V, next, start
<1>4. Continues(V, next)
  BY <1>2, <1>3 DEF Continues
<1>5. PICK f : IsSequence(f, V, start, next)
  BY <1>1, <1>4, NatRecursion
<1>6. f = [n \in Nat |-> IF n = 0 THEN start ELSE Looked(f[n - 1], ids[n])]
  <2>1. f \in [Nat -> V] /\ f[0] = start /\ \A k \in Nat \ {0} : f[k] = next[<<k, f[k - 1]>>]
    BY <1>5 DEF IsSequence
  <2>2. \A k \in Nat : k # 0 => k - 1 \in Nat
    OBVIOUS
  <2>3. \A k \in Nat : f[k] = IF k = 0 THEN start ELSE Looked(f[k - 1], ids[k])
    BY <1>2, <2>1, <2>2
  <2> QED
    BY <2>1, <2>3
<1>7. PICK G : /\ G = [n \in Nat |-> IF n = 0 THEN start ELSE Looked(G[n - 1], ids[n])]
               /\ Looking(ids) = G[Len(ids)]
  BY <1>6 DEF Looking, start
<1> DEFINE S == {n \in Nat : LookedUp(ids, n, G[n])}
<1>8. 0 \in S
  <2>1. G[0] = start
    BY <1>7
  <2> QED
    BY <1>1, <2>1
<1>9. ASSUME NEW n \in S PROVE n + 1 \in S
  <2>1. n \in Nat /\ n + 1 \in Nat /\ n + 1 # 0 /\ (n + 1) - 1 = n /\ LookedUp(ids, n, G[n])
    OBVIOUS
  <2>2. G[n + 1] = Looked(G[n], ids[n + 1])
    BY <1>7, <2>1
  <2> QED
    BY <2>1, <2>2, LookedFacts
<1>10. S = Nat
  <2> HIDE DEF S
  <2>1. S \in SUBSET Nat
    BY DEF S
  <2> QED
    BY <1>8, <1>9, <2>1, Counting
<1>11. Len(ids) \in Nat /\ LookedUp(ids, Len(ids), Looking(ids))
  BY <1>7, <1>10, LenProperties
<1> DEFINE r == Looking(ids)
<1> HIDE DEF r
<1>12. CASE ~r.missed
  <2>1. r.response \in Seq(Analyses) /\ Len(r.response) = Len(ids)
        /\ \A i \in 1 .. Len(ids) : r.response[i] = ids[i]
    BY <1>11, <1>12 DEF LookedUp, r
  <2>2. r.response = ids
    BY <2>1, SeqEqual
  <2> QED
    BY <1>11, <2>2 DEF LookedUp, r
<1>13. CASE r.missed
  BY <1>11, <1>13 DEF LookedUp, r
<1> QED
  BY <1>12, <1>13

(* So does the cache, when it is looked at at all.                         *)
LEMMA LookupFacts ==
  ASSUME activeIDs \subseteq Analyses, NEW ids \in Seq(Analyses), NEW f
  PROVE  /\ Lookup(f, ids).cached \subseteq Analyses /\ Lookup(f, ids).response \in {<<>>, ids}
         /\ Found(f, ids) => activeFunc = f /\ Lookup(f, ids).response = ids
BY LookingFacts DEF Lookup, Found

(* What is asked for is a list of analyses.                                *)
LEMMA AskedFor ==
  /\ \A ids \in ModuleRequests : ids \in Seq(Analyses)
  /\ client \in Clients => \A ids \in client : ids \in Seq(Analyses) /\ ids \in Requests
  /\ \A ids \in Seq(Analyses) : ToSet(ids) \subseteq Analyses
<1>1. \A ids \in Seq(Analyses) : ToSet(ids) \subseteq Analyses
  <2> SUFFICES ASSUME NEW ids \in Seq(Analyses) PROVE ToSet(ids) \subseteq Analyses
    OBVIOUS
  <2>1. \A i \in DOMAIN ids : ids[i] \in Analyses
    BY ElementOfSeq
  <2> QED
    BY <2>1 DEF ToSet
<1> QED
  BY <1>1, Domains DEF Requests

(* The variables keep their types.                                         *)
THEOREM TypeCorrect == Spec => []TypeOK
<1>1. Init => TypeOK
  <2>1. {} \subseteq Analyses /\ <<>> \in Seq(Analyses)
    OBVIOUS
  <2>2. [func |-> NoFunc, ids |-> <<>>, given |-> <<>>]
          \in [func : Functions \cup {NoFunc}, ids : Seq(Analyses), given : Seq(Analyses)]
    BY <2>1
  <2> QED
    BY <2>1, <2>2, Zenon DEF Init, TypeOK
<1>2. TypeOK /\ [Next]_vars => TypeOK'
  <2> SUFFICES ASSUME TypeOK, [Next]_vars PROVE TypeOK'
    OBVIOUS
  <2>1. CASE Release \/ UNCHANGED vars
    BY <2>1 DEF TypeOK, Release, vars
  <2>2. ASSUME NEW ids \in ModuleRequests, RequestModule(ids) PROVE TypeOK'
    BY <2>2, AskedFor DEF TypeOK, RequestModule, Answered
  <2>3. ASSUME NEW f \in Functions, NEW ids \in client,
               \/ RequestUnknownFunction(f, ids)
               \/ RequestCached(f, ids)
               \/ RequestListed(f, ids)
               \/ RequestProvided(f, ids)
               \/ RequestUnavailable(f, ids)
        PROVE  TypeOK'
    <3>1. /\ ids \in Seq(Analyses) /\ ToSet(ids) \subseteq Analyses /\ <<>> \in Seq(Analyses)
          /\ Lookup(f, ids).cached \subseteq Analyses /\ Lookup(f, ids).response \in Seq(Analyses)
      <4>1. ids \in Seq(Analyses) /\ ToSet(ids) \subseteq Analyses /\ <<>> \in Seq(Analyses)
        BY AskedFor DEF TypeOK
      <4> QED
        BY <4>1, LookupFacts DEF TypeOK
    <3>2. CASE RequestUnknownFunction(f, ids)
      BY <3>1, <3>2 DEF TypeOK, RequestUnknownFunction, Answered
    <3>3. CASE RequestCached(f, ids)
      BY <3>1, <3>3 DEF TypeOK, RequestCached, Answered
    <3>4. CASE RequestListed(f, ids)
      BY <3>1, <3>4 DEF TypeOK, RequestListed, Answered
    <3>5. CASE RequestProvided(f, ids)
      <4>1. Provider(ids) \subseteq Analyses
        BY <3>5, ProviderType DEF RequestProvided
      <4> QED
        BY <3>1, <3>5, <4>1 DEF TypeOK, RequestProvided, Answered
    <3>6. CASE RequestUnavailable(f, ids)
      BY <3>1, <3>6 DEF TypeOK, RequestUnavailable, Answered
    <3> QED
      BY <2>3, <3>2, <3>3, <3>4, <3>5, <3>6
  <2> QED
    BY <2>1, <2>2, <2>3 DEF Next
<1> QED
  BY <1>1, <1>2, PTL DEF Spec

-----------------------------------------------------------------------------
(* Answers for the right function.                                         *)

(* The cache is for the function whose results the passes hold, unless a   *)
(* request was refused.                                                    *)
CacheIsFresh == ~refused => activeFunc = content

(* Every answer about a function gives results for this function until the *)
(* client asks for what the server does not have; the cache is never stale *)
(* before.                                                                 *)
THEOREM AnswersRightFunction == Spec => []RightFunction
<1> DEFINE Inv == CacheIsFresh /\ RightFunction
<1>1. Init => Inv
  BY DEF Init, CacheIsFresh, RightFunction
<1>2. Inv /\ [Next]_vars => Inv'
  <2> SUFFICES ASSUME Inv, [Next]_vars PROVE Inv'
    OBVIOUS
  <2>1. CASE Release \/ UNCHANGED vars
    BY <2>1 DEF Release, vars, CacheIsFresh, RightFunction
  <2>2. ASSUME NEW ids \in ModuleRequests, RequestModule(ids) PROVE Inv'
    BY <2>2 DEF RequestModule, Answered, CacheIsFresh, RightFunction
  <2>3. ASSUME NEW f \in Functions, NEW ids \in client,
               \/ RequestUnknownFunction(f, ids)
               \/ RequestCached(f, ids)
        PROVE  Inv'
    BY <2>3 DEF RequestUnknownFunction, RequestCached, Found, Lookup, Answered,
                CacheIsFresh, RightFunction
  <2>4. ASSUME NEW f \in Functions, NEW ids \in client,
               \/ RequestListed(f, ids)
               \/ RequestProvided(f, ids)
        PROVE  Inv'
    BY <2>4 DEF RequestListed, RequestProvided, Answered, CacheIsFresh,
                RightFunction
  <2>5. ASSUME NEW f \in Functions, NEW ids \in client,
               RequestUnavailable(f, ids)
        PROVE  Inv'
    BY <2>5 DEF RequestUnavailable, CacheIsFresh, RightFunction
  <2> QED
    BY <2>1, <2>2, <2>3, <2>4, <2>5 DEF Next
<1> QED
  BY <1>1, <1>2, PTL DEF Spec

(* Some pass of the list or some provider can answer every request.        *)
AllAvailable == \A ids \in Requests : IsListed(ids) \/ IsProvided(ids)

(* A client that asks only for what the server has is never refused, so    *)
(* all its answers are for the right function.                             *)
THEOREM NeverRefused ==
  ASSUME AllAvailable
  PROVE  Spec => [](~refused)
<1> DEFINE Inv == client \in Clients /\ ~refused
<1>1. Init => Inv
  BY DEF Init
<1>2. Inv /\ [Next]_vars => Inv'
  <2> SUFFICES ASSUME Inv, [Next]_vars PROVE Inv'
    OBVIOUS
  <2>1. CASE Release \/ UNCHANGED vars
    BY <2>1 DEF Release, vars
  <2>2. ASSUME NEW ids \in ModuleRequests, RequestModule(ids) PROVE Inv'
    BY <2>2 DEF RequestModule
  <2>3. ASSUME NEW f \in Functions, NEW ids \in client,
               \/ RequestUnknownFunction(f, ids)
               \/ RequestCached(f, ids)
               \/ RequestListed(f, ids)
               \/ RequestProvided(f, ids)
        PROVE  Inv'
    BY <2>3 DEF RequestUnknownFunction, RequestCached, RequestListed,
                RequestProvided
  <2>4. ASSUME NEW f \in Functions, NEW ids \in client,
               RequestUnavailable(f, ids)
        PROVE  FALSE
    <3>1. ids \in Requests
      BY DEF Requests
    <3> QED
      BY <2>4, <3>1, AllAvailable DEF AllAvailable, RequestUnavailable
  <2> QED
    BY <2>1, <2>2, <2>3, <2>4 DEF Next
<1> QED
  BY <1>1, <1>2, PTL DEF Spec

-----------------------------------------------------------------------------
(* Complete answers.                                                       *)

(* An answer gives the addresses of all analyses asked for, each in its    *)
(* place, or none: also when the cache has some of them only.              *)
THEOREM AnswersComplete == Spec => []AllOrNothing
<1>1. Init => AllOrNothing
  BY DEF Init, AllOrNothing
<1>2. TypeOK /\ AllOrNothing /\ [Next]_vars => AllOrNothing'
  <2> SUFFICES ASSUME TypeOK, AllOrNothing, [Next]_vars PROVE AllOrNothing'
    OBVIOUS
  <2>1. CASE Release \/ UNCHANGED vars
    BY <2>1 DEF Release, vars, AllOrNothing
  <2>2. ASSUME NEW ids \in ModuleRequests, RequestModule(ids)
        PROVE  AllOrNothing'
    BY <2>2 DEF RequestModule, Answered, AllOrNothing
  <2>3. ASSUME NEW f \in Functions, NEW ids \in client,
               \/ RequestUnknownFunction(f, ids)
               \/ RequestListed(f, ids)
               \/ RequestProvided(f, ids)
               \/ RequestUnavailable(f, ids)
        PROVE  AllOrNothing'
    BY <2>3 DEF RequestUnknownFunction, RequestListed,
                RequestProvided, RequestUnavailable, Answered, AllOrNothing
  <2>4. ASSUME NEW f \in Functions, NEW ids \in client, RequestCached(f, ids)
        PROVE  AllOrNothing'
    <3>1. Lookup(f, ids).response \in {<<>>, ids}
      BY AskedFor, LookupFacts DEF TypeOK
    <3> QED
      BY <2>4, <3>1 DEF RequestCached, Answered, AllOrNothing
  <2> QED
    BY <2>1, <2>2, <2>3, <2>4 DEF Next
<1> QED
  BY <1>1, <1>2, TypeCorrect, PTL DEF Spec
=============================================================================
