-------------------------- MODULE AnalysisResponse --------------------------
(* How the response pass of an analysis server answers requests.  A        *)
(* module-level request is answered by passes that have already run.  A    *)
(* request about a function is answered from a cache of the results for    *)
(* the active function, from a pass of the response list, or from the      *)
(* first provider that contains everything asked for.  A request is a list *)
(* of analyses and an answer a list of addresses of pass objects, each     *)
(* named here by the analysis it is of.  The function passes the response  *)
(* pass requires live in one on-the-fly pass manager, which runs all of    *)
(* them for a function whenever one is asked for, so an address tells      *)
(* nothing about the function its pass was last run for.                   *)
EXTENDS Naturals, SequencesExt

CONSTANTS Functions,      \* functions of the client's module
          Cloned,         \* those the server's module has a clone of
          NoFunc,         \* stands for "no function" in a request
          Listed,         \* function passes in the response list
          Providers,      \* providers of the list, each the set of its analyses
          ModuleRequests, \* lists of module-level analyses the client asks for
          Clients         \* clients, each the lists of function-level analyses it
                          \* asks for at once

Requests == UNION Clients
Provided == UNION {Providers[i] : i \in DOMAIN Providers}
Analyses ==
  Listed \cup Provided \cup UNION {ToSet(ids) : ids \in Requests \cup ModuleRequests}

ASSUME Domains ==
  /\ Cloned \subseteq Functions /\ NoFunc \notin Functions
  /\ Providers \in Seq(SUBSET Provided)
  /\ Requests \cup ModuleRequests \subseteq Seq(Analyses) /\ <<>> \notin Requests

VARIABLES
  client,     \* the client of this server
  listening,  \* WaitForRequest
  activeFunc, \* ActiveFunc: the clone the cache is meant for
  activeIDs,  \* ActiveIDs: analyses whose address is cached
  content,    \* the function the on-the-fly passes have last been run for
  answer,     \* the last answer: function and analyses asked for, addresses given
  ran,        \* the last request has run the on-the-fly passes
  refused     \* history: some request was for what nobody provides

vars == <<client, listening, activeFunc, activeIDs, content, answer, ran, refused>>

TypeOK ==
  /\ client \in Clients
  /\ listening \in BOOLEAN /\ ran \in BOOLEAN /\ refused \in BOOLEAN
  /\ activeFunc \in Cloned \cup {NoFunc} /\ content \in Cloned \cup {NoFunc}
  /\ activeIDs \subseteq Analyses
  /\ answer \in [func : Functions \cup {NoFunc}, ids : Seq(Analyses),
                 given : Seq(Analyses)]

Init ==
  /\ client \in Clients
  /\ listening = TRUE
  /\ activeFunc = NoFunc /\ activeIDs = {} /\ content = NoFunc
  /\ answer = [func |-> NoFunc, ids |-> <<>>, given |-> <<>>]
  /\ ran = FALSE /\ refused = FALSE

Answered(f, ids, given) ==
  answer' = [func |-> f, ids |-> ids, given |-> given]

(* Mutant: a miss ends the loop with the addresses found so far.           *)
Looked_Partial(r, id) ==
  IF r.missed THEN r
  ELSE IF id \in r.cached THEN [r EXCEPT !.response = Append(@, id)]
  ELSE [r EXCEPT !.cached = {}, !.missed = TRUE]

(* One pass of the loop over the analyses asked for: its address is in the *)
(* cache, or the response and the cache are cleared and the loop ends.     *)
Looked(r, id) ==
  IF r.missed THEN r
  ELSE IF id \in r.cached THEN [r EXCEPT !.response = Append(@, id)]
  ELSE [response |-> <<>>, cached |-> {}, missed |-> TRUE]

(* The addresses found for a list of analyses, and the cache left.         *)
Looking(ids) ==
  LET look[n \in Nat] ==
        IF n = 0 THEN [response |-> <<>>, cached |-> activeIDs, missed |-> FALSE]
        ELSE Looked(look[n - 1], ids[n])
  IN look[Len(ids)]

(* Mutant: the cache is looked up whatever the active function is.         *)
Lookup_AnyFunction(f, ids) == Looking(ids)

(* "Check whether we already have required analysis."  The cache is for    *)
(* the active function, yet remains when another one becomes active.       *)
Lookup(f, ids) ==
  IF activeFunc = f THEN Looking(ids)
  ELSE [response |-> <<>>, cached |-> activeIDs, missed |-> FALSE]

Found(f, ids) == Lookup(f, ids).response # <<>>

(* A single analysis of the response list is run by itself.                *)
IsListed(ids) == Len(ids) = 1 /\ ids[1] \in Listed

(* The first provider that contains all the analyses.                      *)
IsProvided(ids) == \E i \in DOMAIN Providers : ToSet(ids) \subseteq Providers[i]
Provider(ids) ==
  Providers[CHOOSE i \in DOMAIN Providers :
    /\ ToSet(ids) \subseteq Providers[i]
    /\ \A j \in DOMAIN Providers : ToSet(ids) \subseteq Providers[j] => i <= j]

(* 'Release' ends the loop.                                                *)
Release ==
  /\ listening' = FALSE /\ ran' = FALSE
  /\ UNCHANGED <<client, activeFunc, activeIDs, content, answer, refused>>

(* A module-level request: findImplPass() finds each of the passes.        *)
RequestModule(ids) ==
  /\ Answered(NoFunc, ids, ids) /\ ran' = FALSE
  /\ UNCHANGED <<client, listening, activeFunc, activeIDs, content, refused>>

(* Mutant: the function of the client becomes the active one although it   *)
(* has no clone.                                                           *)
RequestUnknownFunction_Activate(f, ids) ==
  /\ f \notin Cloned
  /\ activeFunc' = f
  /\ Answered(f, ids, <<>>) /\ ran' = FALSE
  /\ UNCHANGED <<client, listening, activeIDs, content, refused>>

(* OriginalToClone has no clone of the function: an empty answer.          *)
RequestUnknownFunction(f, ids) ==
  /\ f \notin Cloned
  /\ Answered(f, ids, <<>>) /\ ran' = FALSE
  /\ UNCHANGED <<client, listening, activeFunc, activeIDs, content, refused>>

(* What the loop over the cache has found is the answer.                   *)
RequestCached(f, ids) ==
  /\ f \in Cloned /\ Found(f, ids)
  /\ activeFunc' = f /\ activeIDs' = Lookup(f, ids).cached
  /\ Answered(f, ids, Lookup(f, ids).response) /\ ran' = FALSE
  /\ UNCHANGED <<client, listening, content, refused>>

(* findImplPass() runs the on-the-fly manager for the function and the     *)
(* address of the pass is cached.                                          *)
RequestListed(f, ids) ==
  /\ f \in Cloned /\ ~Found(f, ids) /\ IsListed(ids)
  /\ activeFunc' = f /\ content' = f /\ ran' = TRUE
  /\ activeIDs' = Lookup(f, ids).cached \cup ToSet(ids)
  /\ Answered(f, ids, ids)
  /\ UNCHANGED <<client, listening, refused>>

(* Mutant: only the analyses asked for are cached.                         *)
RequestProvided_CacheAsked(f, ids) ==
  /\ f \in Cloned /\ ~Found(f, ids) /\ ~IsListed(ids) /\ IsProvided(ids)
  /\ activeFunc' = f /\ content' = f /\ ran' = TRUE
  /\ activeIDs' = Lookup(f, ids).cached \cup ToSet(ids)
  /\ Answered(f, ids, ids)
  /\ UNCHANGED <<client, listening, refused>>

(* getAnalysis<T>(CloneF) runs the manager; the addresses of everything    *)
(* the provider contains are cached.                                       *)
RequestProvided(f, ids) ==
  /\ f \in Cloned /\ ~Found(f, ids) /\ ~IsListed(ids) /\ IsProvided(ids)
  /\ activeFunc' = f /\ content' = f /\ ran' = TRUE
  /\ activeIDs' = Lookup(f, ids).cached \cup Provider(ids)
  /\ Answered(f, ids, ids)
  /\ UNCHANGED <<client, listening, refused>>

(* Nobody provides all the analyses: an empty answer, although the         *)
(* function has become the active one.                                     *)
RequestUnavailable(f, ids) ==
  /\ f \in Cloned /\ ~Found(f, ids) /\ ~IsListed(ids) /\ ~IsProvided(ids)
  /\ activeFunc' = f /\ activeIDs' = Lookup(f, ids).cached
  /\ Answered(f, ids, <<>>) /\ ran' = FALSE /\ refused' = TRUE
  /\ UNCHANGED <<client, listening, content>>

Next ==
  /\ listening
  /\ \/ Release
     \/ \E ids \in ModuleRequests : RequestModule(ids)
     \/ \E f \in Functions, ids \in client :
          \/ RequestUnknownFunction(f, ids)
          \/ RequestCached(f, ids)
          \/ RequestListed(f, ids)
          \/ RequestProvided(f, ids)
          \/ RequestUnavailable(f, ids)

Spec == Init /\ [][Next]_vars

-----------------------------------------------------------------------------
(* Properties.                                                             *)

(* "returns related analysis results": the passes whose addresses an       *)
(* answer gives hold the results for the function it was asked for, unless *)
(* an earlier request was refused.                                         *)
RightFunction ==
  ~refused /\ answer.func # NoFunc /\ answer.given # <<>> =>
    content = answer.func

(* getAnalysis() of the client casts the addresses in the order it asked   *)
(* for them, and accepts an answer only with as many addresses as it       *)
(* needs: an answer gives them all, each in its place, or none, also when  *)
(* the cache has some of them only.                                        *)
AllOrNothing == answer.given \in {<<>>, answer.ids}

(* Running the on-the-fly passes invalidates all the results they held, so *)
(* they are never run again for the function whose results they hold: a    *)
(* client no request of which is refused may go on asking about one        *)
(* function and keep what it has got.                                      *)
KeepsResults == [][ran' => content' # content \/ refused]_vars
=============================================================================
