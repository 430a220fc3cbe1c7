----------------------- MODULE AnalysisServer_proofs -----------------------
(* Proofs that the client/server analysis protocol is type correct, free   *)
(* of races on shared data and of unexpected messages, and that it frees   *)
(* the shared data in time, for every pair of pipelines that satisfies the *)
(* assumptions of AnalysisServer.                                          *)
EXTENDS AnalysisServer, TLAPS, FiniteSetTheorems

-----------------------------------------------------------------------------
(* Counting synchronisation points.                                        *)

(* The count of points before a position is a natural number.              *)
LEMMA SyncsType ==
  ASSUME NEW script, NEW kinds, NEW i \in Nat
  PROVE  /\ SyncsBefore(script, kinds, i) \in Nat
         /\ IsFiniteSet({k \in 1..(i - 1) : k \in DOMAIN script
                                             /\ script[k] \in kinds})
<1> DEFINE S == {k \in 1..(i - 1) : k \in DOMAIN script /\ script[k] \in kinds}
<1>1. IsFiniteSet(1..(i - 1))
  BY FS_Interval
<1>2. IsFiniteSet(S)
  BY <1>1, FS_Subset
<1>3. Cardinality(S) \in Nat
  BY <1>2, FS_CardinalityType
<1> QED
  BY <1>2, <1>3 DEF SyncsBefore

(* No point is before the first position.                                  *)
LEMMA SyncsFirst ==
  ASSUME NEW script, NEW kinds
  PROVE  SyncsBefore(script, kinds, 1) = 0
<1>1. {k \in 1..(1 - 1) : k \in DOMAIN script /\ script[k] \in kinds} = {}
  OBVIOUS
<1> QED
  BY <1>1, FS_EmptySet DEF SyncsBefore

(* Leaving a position adds one exactly when its operation is a point.      *)
LEMMA SyncsStep ==
  ASSUME NEW script, NEW kinds, NEW i \in Nat \ {0}, i \in DOMAIN script
  PROVE  SyncsBefore(script, kinds, i + 1) =
           SyncsBefore(script, kinds, i) + (IF script[i] \in kinds THEN 1 ELSE 0)
<1> DEFINE S(j) == {k \in 1..(j - 1) : k \in DOMAIN script /\ script[k] \in kinds}
<1>1. IsFiniteSet(S(i)) /\ Cardinality(S(i)) \in Nat
  BY SyncsType DEF SyncsBefore
<1>2. i \notin S(i)
  OBVIOUS
<1>3. CASE script[i] \in kinds
  <2>1. S(i + 1) = S(i) \cup {i}
    BY <1>3
  <2>2. Cardinality(S(i) \cup {i}) = Cardinality(S(i)) + 1
    BY <1>1, <1>2, FS_AddElement
  <2> QED
    BY <1>3, <2>1, <2>2 DEF SyncsBefore
<1>4. CASE script[i] \notin kinds
  <2>1. S(i + 1) = S(i)
    BY <1>4
  <2> QED
    BY <1>1, <1>4, <2>1 DEF SyncsBefore
<1> QED
  BY <1>3, <1>4

(* The count never decreases along the script.                             *)
LEMMA SyncsMonotone ==
  ASSUME NEW script, NEW kinds, NEW i \in Nat, NEW j \in Nat, i <= j
  PROVE  SyncsBefore(script, kinds, i) <= SyncsBefore(script, kinds, j)
<1> DEFINE S(n) == {k \in 1..(n - 1) : k \in DOMAIN script /\ script[k] \in kinds}
<1>1. IsFiniteSet(S(j))
  BY SyncsType
<1>2. S(i) \in SUBSET S(j)
  OBVIOUS
<1>3. Cardinality(S(i)) <= Cardinality(S(j))
  BY <1>1, <1>2, FS_Subset
<1> QED
  BY <1>3 DEF SyncsBefore

(* The same facts for the epochs of the two threads.                       *)
LEMMA Epochs ==
  /\ ClientEpoch(1) = 0 /\ ServerEpoch(1) = 0
  /\ \A i \in Nat : ClientEpoch(i) \in Nat /\ ServerEpoch(i) \in Nat
  /\ \A i \in Nat, j \in Nat :
       i <= j => ClientEpoch(i) <= ClientEpoch(j) /\ ServerEpoch(i) <= ServerEpoch(j)
  /\ \A i \in DOMAIN ClientScript :
       ClientEpoch(i + 1) = ClientEpoch(i)
                              + (IF ClientScript[i] \in ClientSync THEN 1 ELSE 0)
  /\ \A i \in DOMAIN ServerScript :
       ServerEpoch(i + 1) = ServerEpoch(i)
                              + (IF ServerScript[i] \in ServerSync THEN 1 ELSE 0)
<1>1. /\ \A i \in DOMAIN ClientScript : i \in Nat \ {0}
      /\ \A i \in DOMAIN ServerScript : i \in Nat \ {0}
  BY Scripts
<1>2. ClientEpoch(1) = 0 /\ ServerEpoch(1) = 0
  BY SyncsFirst DEF ClientEpoch, ServerEpoch
<1>3. \A i \in Nat : ClientEpoch(i) \in Nat /\ ServerEpoch(i) \in Nat
  BY SyncsType DEF ClientEpoch, ServerEpoch
<1>4. \A i \in Nat, j \in Nat :
       i <= j => ClientEpoch(i) <= ClientEpoch(j) /\ ServerEpoch(i) <= ServerEpoch(j)
  BY SyncsMonotone DEF ClientEpoch, ServerEpoch
<1>5. \A i \in DOMAIN ClientScript :
       ClientEpoch(i + 1) = ClientEpoch(i)
                              + (IF ClientScript[i] \in ClientSync THEN 1 ELSE 0)
  BY <1>1, SyncsStep DEF ClientEpoch
<1>6. \A i \in DOMAIN ServerScript :
       ServerEpoch(i + 1) = ServerEpoch(i)
                              + (IF ServerScript[i] \in ServerSync THEN 1 ELSE 0)
  BY <1>1, SyncsStep DEF ServerEpoch
<1> QED
  BY <1>2, <1>3, <1>4, <1>5, <1>6

-----------------------------------------------------------------------------
(* The inductive invariant.                                                *)

(* The server thread exists from the start pass on.                        *)
Started == sst = "off" <=> cpos <= StartPos

(* One message at most is under way, and only while the client is blocked. *)
Channel ==
  /\ ~calling => req = "none" /\ resp = "none"
  /\ calling => ClientOp \in Calls /\ (req = "none" <=> resp # "none")
  /\ req # "none" => req = RequestOf(ClientOp)
  /\ sst = "answer" => req # "none" /\ ServerOp \in ServerSync
  /\ resp = "notify" => ClientOp \in ClientSync
  /\ resp = "data" => ClientOp = "Request" /\ ServerOp = "Respond"

(* Results are in use only in a request stage the server still listens to. *)
Stage ==
  /\ got > 0 => ClientOp = "Request" /\ ServerOp = "Respond"
  /\ calling /\ ClientOp = "Request" => got < MaxRequests

(* The server is ahead by the point it has opened and the client has not   *)
(* yet left, and never otherwise.                                          *)
Lockstep ==
  ServerEpoch(spos) = ClientEpoch(cpos) + (IF resp = "notify" THEN 1 ELSE 0)

ClosedIff == closed <=> cpos > ClosePos

(* Past a final clearing of the mapping, no handle of client memory is in it. *)
Dropped ==
  \A d \in DOMAIN ServerScript :
    /\ ServerScript[d] = "DropMatcher"
    /\ \A j \in DOMAIN ServerScript : ServerScript[j] = "Match" => j < d
    /\ spos > d
    => "origin" \notin handles

IInv == /\ TypeOK /\ Started /\ Channel /\ Stage /\ Lockstep
        /\ ClosedIff /\ Dropped

(* The operations at the positions of the two threads.                     *)
LEMMA Positions ==
  ASSUME TypeOK
  PROVE  /\ cpos \in Nat \ {0} /\ spos \in Nat \ {0}
         /\ ClientOp # "end" => cpos \in DOMAIN ClientScript
                                 /\ ClientScript[cpos] = ClientOp
         /\ ServerOp # "end" => spos \in DOMAIN ServerScript
                                 /\ ServerScript[spos] = ServerOp
         /\ DOMAIN ClientScript = 1..Len(ClientScript)
         /\ DOMAIN ServerScript = 1..Len(ServerScript)
         /\ Len(ClientScript) \in Nat /\ Len(ServerScript) \in Nat
         /\ StartPos \in Nat /\ ClosePos \in Nat
BY Scripts, StartAndClose DEF TypeOK, ClientOp, ServerOp, Op

(* The initial state satisfies the invariant.                              *)
LEMMA InitIInv == Init => IInv
<1> SUFFICES ASSUME Init PROVE IInv
  OBVIOUS
<1>1. TypeOK
  <2>1. /\ Len(ClientScript) \in Nat /\ Len(ServerScript) \in Nat
        /\ MaxRequests \in Nat
    BY Scripts
  <2>2. 1 \in 1..(Len(ClientScript) + 1) /\ 1 \in 1..(Len(ServerScript) + 1)
        /\ 0 \in 0..MaxRequests
    BY <2>1
  <2> QED
    BY <2>2, Zenon DEF Init, TypeOK
<1>2. Channel /\ Stage
  BY DEF Init, Channel, Stage
<1>3. Started /\ ClosedIff
  BY StartAndClose, <1>1, Positions DEF Init, Started, ClosedIff
<1>4. Lockstep
  BY Epochs DEF Init, Lockstep
<1>5. Dropped
  BY DEF Init, Dropped
<1> QED
  BY <1>1, <1>2, <1>3, <1>4, <1>5 DEF IInv

(* Stuttering preserves it.                                                *)
LEMMA StutterIInv == IInv /\ UNCHANGED vars => IInv'
BY DEF IInv, vars, TypeOK, Started, Channel, Stage, Lockstep, ClosedIff,
       Dropped, ClientOp, ServerOp, Op, ClientEpoch, ServerEpoch, SyncsBefore

(* A client pass that is no call, the start pass included, preserves it.   *)
LEMMA ClientWorkIInv == IInv /\ (ClientStart \/ ClientPass) => IInv'
<1> SUFFICES ASSUME IInv, ClientStart \/ ClientPass PROVE IInv'
  OBVIOUS
<1> USE DEF IInv
<1>1. /\ cpos \in DOMAIN ClientScript /\ ClientScript[cpos] = ClientOp
      /\ ClientOp \notin Calls /\ cpos' = cpos + 1
      /\ ClientOp = "Start" <=> cpos = StartPos
      /\ cpos # ClosePos
  BY Positions, StartAndClose
     DEF ClientStart, ClientPass, Calls, ClientSync
<1>2. /\ UNCHANGED <<calling, got, spos, req, resp, closed, handles>>
      /\ sst' = IF ClientOp = "Start" THEN "run" ELSE sst
  BY DEF ClientStart, ClientPass
<1>3. ~calling /\ got = 0 /\ resp = "none" /\ req = "none"
  BY <1>1 DEF Channel, Stage, TypeOK, Calls
<1>4. ServerOp' = ServerOp
  BY <1>2 DEF ServerOp
<1>5. TypeOK'
  BY <1>1, <1>2, Positions DEF TypeOK
<1>6. Started'
  BY <1>1, <1>2, Positions DEF Started, TypeOK
<1>7. sst' # "answer"
  BY <1>2, <1>3 DEF Channel
<1>8. Channel' /\ Stage'
  BY <1>2, <1>3, <1>7 DEF Channel, Stage
<1>9. Lockstep'
  <2>1. ClientEpoch(cpos + 1) = ClientEpoch(cpos)
    BY <1>1, Epochs, Positions DEF Calls
  <2> QED
    BY <1>1, <1>2, <1>3, <2>1 DEF Lockstep, ServerEpoch, ClientEpoch, SyncsBefore
<1>10. ClosedIff'
  BY <1>1, <1>2, Positions DEF ClosedIff
<1>11. Dropped'
  BY <1>2 DEF Dropped
<1> QED
  BY <1>5, <1>6, <1>8, <1>9, <1>10, <1>11

(* Sending a message preserves it.                                         *)
LEMMA ClientCallIInv == IInv /\ ClientCall => IInv'
<1> SUFFICES ASSUME IInv, ClientCall PROVE IInv'
  OBVIOUS
<1> USE DEF IInv
<1>1. /\ ClientOp' = ClientOp /\ ServerOp' = ServerOp
      /\ ClientOp \in Calls /\ ~calling /\ calling' = TRUE
      /\ req' = RequestOf(ClientOp)
      /\ UNCHANGED <<cpos, got, spos, sst, resp, closed, handles>>
  BY DEF ClientCall, ClientOp, ServerOp
<1>2. req' \in {"wait", "release", "get"} /\ resp = "none" /\ sst # "answer"
  BY <1>1 DEF RequestOf, Channel
<1>3. TypeOK'
  BY <1>1, <1>2 DEF TypeOK
<1>4. Channel' /\ Stage'
  BY <1>1, <1>2 DEF Channel, Stage, ClientCall
<1>5. Started' /\ ClosedIff' /\ Dropped'
  BY <1>1 DEF Started, ClosedIff, Dropped
<1>6. Lockstep'
  BY <1>1 DEF Lockstep, ServerEpoch, ClientEpoch, SyncsBefore
<1> QED
  BY <1>3, <1>4, <1>5, <1>6

(* Receiving a response preserves it.                                      *)
LEMMA ClientReceiveIInv == IInv /\ ClientReceive => IInv'
<1> SUFFICES ASSUME IInv, ClientReceive PROVE IInv'
  OBVIOUS
<1> USE DEF IInv
<1>1. /\ calling /\ resp # "none" /\ ~calling' /\ resp' = "none"
      /\ req = "none" /\ sst # "answer"
      /\ UNCHANGED <<spos, sst, req, handles>> /\ ServerOp' = ServerOp
  BY DEF ClientReceive, Channel, ServerOp
<1>2. /\ cpos \in DOMAIN ClientScript /\ ClientScript[cpos] = ClientOp
      /\ ClientOp \in Calls /\ StartPos < cpos /\ cpos <= ClosePos
      /\ ClientOp = "Close" <=> cpos = ClosePos
  <2>1. ClientOp \in Calls /\ ClientOp # "end"
    BY <1>1 DEF Channel, Calls, ClientSync
  <2> QED
    BY <2>1, Positions, StartAndClose
<1>3. /\ Channel' /\ Dropped'
  BY <1>1 DEF Channel, Dropped
<1>4. CASE ClientOp = "Request"
  <2>1. /\ resp = "data" /\ got < MaxRequests /\ ServerOp = "Respond"
    BY <1>1, <1>4 DEF Channel, Stage, TypeOK, ClientSync
  <2>2. got' = got + 1 /\ UNCHANGED <<cpos, closed>> /\ ClientOp' = ClientOp
    BY <1>4 DEF ClientReceive, ClientOp
  <2>3. TypeOK'
    <3>1. got \in 0..MaxRequests /\ MaxRequests \in Nat
      BY Scripts DEF TypeOK
    <3>2. got' \in 0..MaxRequests
      BY <2>1, <2>2, <3>1
    <3>3. calling' \in BOOLEAN /\ closed' \in BOOLEAN
      BY <2>2, Zenon DEF ClientReceive, TypeOK
    <3> QED
      BY <1>1, <2>2, <3>2, <3>3 DEF TypeOK
  <2>4. Stage'
    BY <1>1, <1>4, <2>1, <2>2 DEF Stage
  <2>5. Lockstep'
    BY <1>1, <2>1, <2>2 DEF Lockstep, ServerEpoch, ClientEpoch, SyncsBefore
  <2>6. Started' /\ ClosedIff'
    BY <1>1, <2>2 DEF Started, ClosedIff
  <2> QED
    BY <1>3, <2>3, <2>4, <2>5, <2>6
<1>5. CASE ClientOp # "Request"
  <2>1. resp = "notify" /\ ClientOp \in ClientSync /\ got = 0
    BY <1>1, <1>2, <1>5 DEF Channel, TypeOK, Calls, Stage
  <2>2. cpos' = cpos + 1 /\ closed' = (ClientOp = "Close") /\ got' = got
    BY <1>5, <2>1 DEF ClientReceive
  <2>3. TypeOK'
    <3>1. cpos' \in 1..(Len(ClientScript) + 1)
      BY <1>2, <2>2, Positions
    <3>2. closed' \in BOOLEAN /\ calling' \in BOOLEAN
      BY <2>2, Zenon DEF ClientReceive
    <3> QED
      BY <1>1, <2>2, <3>1, <3>2 DEF TypeOK
  <2>4. Stage'
    BY <1>1, <2>1, <2>2 DEF Stage
  <2>5. Lockstep'
    <3>1. ClientEpoch(cpos + 1) = ClientEpoch(cpos) + 1
      BY <1>2, <2>1, Epochs
    <3>2. ClientEpoch(cpos) \in Nat /\ ServerEpoch(spos) \in Nat
      BY Epochs, Positions
    <3>3. ServerEpoch(spos) = ClientEpoch(cpos + 1)
      BY <2>1, <3>1, <3>2 DEF Lockstep
    <3> QED
      BY <1>1, <2>2, <3>2, <3>3 DEF Lockstep, ServerEpoch, ClientEpoch, SyncsBefore
  <2>6. Started'
    BY <1>1, <1>2, <2>2, Positions DEF Started
  <2>7. ClosedIff'
    <3>1. closed' <=> ClientOp = "Close"
      BY <2>2, Zenon
    <3>2. ClientOp = "Close" <=> cpos' > ClosePos
      BY <1>2, <2>2, Positions
    <3> QED
      BY <3>1, <3>2 DEF ClosedIff
  <2> QED
    BY <1>3, <2>3, <2>4, <2>5, <2>6, <2>7
<1> QED
  BY <1>4, <1>5

(* The end of a request stage preserves it.                                *)
LEMMA ClientRequestsDoneIInv == IInv /\ ClientRequestsDone => IInv'
<1> SUFFICES ASSUME IInv, ClientRequestsDone PROVE IInv'
  OBVIOUS
<1> USE DEF IInv
<1>1. /\ ~calling /\ cpos' = cpos + 1 /\ got' = 0 /\ ServerOp' = ServerOp
      /\ UNCHANGED <<calling, spos, sst, req, resp, closed, handles>>
      /\ req = "none" /\ resp = "none" /\ sst # "answer"
  BY DEF ClientRequestsDone, ServerOp, Channel
<1>2. /\ cpos \in DOMAIN ClientScript /\ ClientScript[cpos] = "Request"
      /\ StartPos < cpos /\ cpos < ClosePos
  BY Positions, StartAndClose DEF ClientRequestsDone, Calls
<1>3. TypeOK'
  <2>1. cpos' \in 1..(Len(ClientScript) + 1) /\ got' \in 0..MaxRequests
    BY <1>1, <1>2, Positions, Scripts
  <2> QED
    BY <1>1, <2>1 DEF TypeOK
<1>4. Channel' /\ Stage' /\ Dropped'
  BY <1>1 DEF Channel, Stage, Dropped
<1>5. Started' /\ ClosedIff'
  BY <1>1, <1>2, Positions DEF Started, ClosedIff
<1>6. Lockstep'
  <2>1. ClientEpoch(cpos) \in Nat /\ ClientScript[cpos] \notin ClientSync
    BY <1>2, Epochs, Positions DEF ClientSync
  <2>2. ClientEpoch(cpos + 1) = ClientEpoch(cpos)
    BY <1>2, <2>1, Epochs
  <2> QED
    BY <1>1, <2>2 DEF Lockstep, ServerEpoch, ClientEpoch, SyncsBefore
<1> QED
  BY <1>3, <1>4, <1>5, <1>6

(* A silent step of the server preserves it.                               *)
LEMMA ServerPassIInv == IInv /\ ServerPass => IInv'
<1> SUFFICES ASSUME IInv, ServerPass PROVE IInv'
  OBVIOUS
<1> USE DEF IInv
<1>1. /\ sst = "run" /\ spos' = spos + 1 /\ ClientOp' = ClientOp
      /\ UNCHANGED <<cpos, calling, got, sst, req, resp, closed>>
      /\ ServerOp \in ServerOps \ ServerSync
  BY DEF ServerPass, ClientOp
<1>2. spos \in DOMAIN ServerScript /\ ServerScript[spos] = ServerOp
  <2>1. "end" \notin ServerOps
    BY DEF ServerOps, ServerSync
  <2> QED
    BY <1>1, <2>1, Positions
<1>3. got = 0 /\ resp # "data"
  BY <1>1 DEF Stage, Channel, TypeOK, ServerSync
<1>4. handles' \subseteq handles \cup {"weak", "origin"}
      /\ (ServerOp # "Match" => handles' \subseteq handles \cup {"weak"})
      /\ (ServerOp = "DropMatcher" => "origin" \notin handles')
  BY DEF ServerPass
<1>5. TypeOK'
  BY <1>1, <1>2, <1>4, Positions DEF TypeOK
<1>6. Channel' /\ Stage' /\ Started' /\ ClosedIff'
  BY <1>1, <1>3 DEF Channel, Stage, Started, ClosedIff
<1>7. Lockstep'
  <2>1. ServerEpoch(spos + 1) = ServerEpoch(spos)
    BY <1>1, <1>2, Epochs, Positions
  <2> QED
    BY <1>1, <2>1 DEF Lockstep, ServerEpoch, ClientEpoch, SyncsBefore
<1>8. Dropped'
  <2> SUFFICES ASSUME NEW d \in DOMAIN ServerScript,
                      ServerScript[d] = "DropMatcher", spos' > d,
                      \A j \in DOMAIN ServerScript : ServerScript[j] = "Match" => j < d
               PROVE  "origin" \notin handles'
    BY DEF Dropped
  <2>1. d <= spos /\ d \in Nat
    BY <1>1, Positions
  <2>2. ServerOp # "Match"
    BY <1>2, <2>1, Positions
  <2>3. CASE d = spos
    BY <1>2, <1>4, <2>3
  <2>4. CASE d # spos
    BY <1>4, <2>1, <2>2, <2>4, Positions DEF Dropped
  <2> QED
    BY <2>3, <2>4
<1> QED
  BY <1>5, <1>6, <1>7, <1>8

(* Taking a request preserves it.                                          *)
LEMMA ServerTakeIInv == IInv /\ ServerTake => IInv'
<1> SUFFICES ASSUME IInv, ServerTake PROVE IInv'
  OBVIOUS
<1> USE DEF IInv, ServerTake
<1>1. ClientOp' = ClientOp /\ ServerOp' = ServerOp
  BY DEF ClientOp, ServerOp
<1>2. TypeOK' /\ Stage' /\ Started' /\ ClosedIff' /\ Dropped'
  BY <1>1 DEF TypeOK, Stage, Started, ClosedIff, Dropped
<1>3. Channel'
  BY <1>1 DEF Channel
<1>4. Lockstep'
  BY DEF Lockstep, ServerEpoch, ClientEpoch, SyncsBefore
<1> QED
  BY <1>2, <1>3, <1>4

(* A reply that ends a pass of the server preserves it.                    *)
LEMMA ServerAdvanceIInv == IInv /\ (ServerNotify \/ ServerReleased) => IInv'
<1> SUFFICES ASSUME IInv, ServerNotify \/ ServerReleased PROVE IInv'
  OBVIOUS
<1> USE DEF IInv
<1>1. /\ ClientOp' = ClientOp /\ spos' = spos + 1 /\ resp' = "notify"
      /\ req' = "none" /\ sst' = "run" /\ sst = "answer"
      /\ UNCHANGED <<cpos, calling, got, closed, handles>>
      /\ ServerOp \in ServerSync /\ req \in {"wait", "release"}
  BY DEF ServerNotify, ServerReleased, Reply, ClientOp, ServerSync
<1>2. spos \in DOMAIN ServerScript /\ ServerScript[spos] = ServerOp
  BY <1>1, Positions DEF ServerSync
<1>3. calling /\ resp = "none" /\ ClientOp \in ClientSync
  BY <1>1 DEF Channel, RequestOf, Calls
<1>4. TypeOK'
  BY <1>1, <1>2, Positions DEF TypeOK
<1>5. Channel'
  BY <1>1, <1>3 DEF Channel
<1>6. Stage'
  BY <1>1, <1>3 DEF Stage, ClientSync
<1>7. Started' /\ ClosedIff'
  BY <1>1 DEF Started, ClosedIff
<1>8. Lockstep'
  <2>1. ServerEpoch(spos + 1) = ServerEpoch(spos) + 1
    BY <1>1, <1>2, Epochs
  <2>2. ServerEpoch(spos) = ClientEpoch(cpos) /\ ClientEpoch(cpos) \in Nat
    BY <1>3, Epochs, Positions DEF Lockstep
  <2>3. ServerEpoch(spos + 1) = ClientEpoch(cpos) + 1
    BY <2>1, <2>2
  <2> QED
    BY <1>1, <2>3 DEF Lockstep, ServerEpoch, ClientEpoch, SyncsBefore
<1>9. Dropped'
  <2>1. ServerOp # "DropMatcher"
    BY <1>1 DEF ServerSync
  <2>2. \A d \in DOMAIN ServerScript :
          spos' > d /\ ServerScript[d] = "DropMatcher" => spos > d
    BY <1>1, <1>2, <2>1, Positions
  <2> QED
    BY <1>1, <2>2 DEF Dropped
<1> QED
  BY <1>4, <1>5, <1>6, <1>7, <1>8, <1>9

(* A reply with data preserves it.                                         *)
LEMMA ServerDataIInv == IInv /\ ServerData => IInv'
<1> SUFFICES ASSUME IInv, ServerData PROVE IInv'
  OBVIOUS
<1> USE DEF IInv
<1>1. /\ ClientOp' = ClientOp /\ ServerOp' = ServerOp /\ resp' = "data"
      /\ req' = "none" /\ sst' = "run" /\ req = "get" /\ sst = "answer"
      /\ UNCHANGED <<cpos, calling, got, spos, closed, handles>>
      /\ ServerOp = "Respond"
  BY DEF ServerData, Reply, ClientOp, ServerOp
<1>2. calling /\ resp = "none" /\ ClientOp = "Request"
  BY <1>1 DEF Channel, RequestOf, Calls, ClientSync
<1>3. TypeOK'
  BY <1>1 DEF TypeOK
<1>4. Channel' /\ Stage' /\ Started' /\ ClosedIff' /\ Dropped'
  BY <1>1, <1>2 DEF Channel, Stage, Started, ClosedIff, Dropped
<1>5. Lockstep'
  BY <1>1, <1>2 DEF Lockstep, ServerEpoch, ClientEpoch, SyncsBefore
<1> QED
  BY <1>3, <1>4, <1>5

(* The invariant is inductive.                                             *)
THEOREM Inductive == Spec => []IInv
<1>1. IInv /\ [Next]_vars => IInv'
  BY StutterIInv, ClientWorkIInv, ClientCallIInv, ClientReceiveIInv,
     ClientRequestsDoneIInv, ServerPassIInv, ServerTakeIInv,
     ServerAdvanceIInv, ServerDataIInv
     DEF Next, ClientNext, ServerNext
<1> QED
  BY InitIInv, <1>1, PTL DEF Spec

-----------------------------------------------------------------------------
(* What follows from the invariant.                                        *)

(* The variables of both threads keep their types.                         *)
THEOREM TypeCorrect == Spec => []TypeOK
BY Inductive, PTL DEF IInv

(* No pass receives a message it does not expect.                          *)
LEMMA ExpectedMessages == IInv => NoUnexpectedMessage
<1> SUFFICES ASSUME IInv PROVE NoUnexpectedMessage
  OBVIOUS
<1> USE DEF IInv
<1>1. ASSUME sst = "answer" PROVE req \in Accepts(ServerOp)
  <2>1. /\ req = RequestOf(ClientOp) /\ ClientOp \in Calls /\ resp = "none"
        /\ ServerOp \in ServerSync
    BY <1>1 DEF Channel
  <2>2. /\ cpos \in DOMAIN ClientScript /\ ClientScript[cpos] = ClientOp
        /\ spos \in DOMAIN ServerScript /\ ServerScript[spos] = ServerOp
    BY <2>1, Positions DEF Calls, ClientSync, ServerSync
  <2>3. ServerEpoch(spos) = ClientEpoch(cpos)
    BY <2>1, Epochs, Positions DEF Lockstep
  <2> QED
    BY <2>1, <2>2, <2>3, Matching
<1>2. ASSUME resp # "none" PROVE resp = "data" <=> ClientOp = "Request"
  BY <1>2 DEF Channel, TypeOK, ClientSync
<1> QED
  BY <1>1, <1>2 DEF NoUnexpectedMessage

(* Neither thread ever receives a message that its current pass declares   *)
(* unreachable or asserts not to get.                                      *)
THEOREM MessagesExpected == Spec => []NoUnexpectedMessage
BY Inductive, ExpectedMessages, PTL

(* While the connection is open the threads use disjoint data.             *)
LEMMA DisjointUse == IInv => NoRaceWhileConnected
<1> SUFFICES ASSUME IInv, ~closed, NEW r, r \in ClientUses, r \in ServerUses
             PROVE  FALSE
  BY DEF NoRaceWhileConnected
<1> USE DEF IInv
<1>1. /\ ~calling /\ sst = "run" /\ r \in Touches(ServerOp)
      /\ ServerEpoch(spos) = ClientEpoch(cpos)
  <2>1. ~calling /\ sst # "off"
    BY DEF ClientUses, ServerUses
  <2>2. sst = "run"
    BY <2>1 DEF Channel, TypeOK
  <2>3. resp # "notify"
    BY <2>1 DEF Channel
  <2>4. ClientEpoch(cpos) \in Nat
    BY Positions, Epochs
  <2> QED
    BY <2>1, <2>2, <2>3, <2>4 DEF ServerUses, Lockstep
<1>2. ServerOp \notin ServerSync /\ ServerOp # "end"
  BY <1>1 DEF Touches, ServerSync
<1>3. r \in Touches(ClientOp)
  BY <1>1, <1>2 DEF ClientUses, Stage, ServerSync, TypeOK
<1>4. ClientOp # "end" /\ ClientOp # "Start" /\ ClientOp # "Close"
  BY <1>3 DEF Touches
<1>5. /\ cpos \in DOMAIN ClientScript /\ ClientScript[cpos] = ClientOp
      /\ spos \in DOMAIN ServerScript /\ ServerScript[spos] = ServerOp
  BY <1>2, <1>4, Positions
<1>6. StartPos < cpos /\ cpos < ClosePos
  <2>1. StartPos < cpos
    BY <1>1, Positions DEF Started
  <2>2. cpos <= ClosePos /\ cpos # ClosePos
    BY <1>4, <1>5, StartAndClose, Positions DEF ClosedIff
  <2> QED
    BY <2>1, <2>2, Positions
<1> QED
  BY <1>1, <1>3, <1>5, <1>6, Disjointness

(* Metadata-level memory and analysis results are never used by the two    *)
(* threads at once before the connection is closed.                        *)
THEOREM RaceFree == Spec => []NoRaceWhileConnected
BY Inductive, DisjointUse, PTL

(* When the client has closed the connection the server has passed every   *)
(* synchronisation point, so the mapping has been cleared.                 *)
LEMMA FreedInTime == IInv => FreedBeforeClose
<1> SUFFICES ASSUME IInv, closed PROVE FreedBeforeClose
  BY DEF FreedBeforeClose
<1> USE DEF IInv
<1>1. cpos > ClosePos /\ cpos \in Nat /\ spos \in Nat /\ ClosePos \in Nat
      /\ spos <= Len(ServerScript) + 1 /\ Len(ServerScript) \in Nat
  BY Positions DEF ClosedIff, TypeOK
<1>2. ClientOp \notin Calls
  <2>1. ASSUME ClientOp \in Calls PROVE FALSE
    <3>1. cpos \in DOMAIN ClientScript /\ ClientScript[cpos] \in Calls
      BY <2>1, Positions DEF Calls, ClientSync
    <3>2. cpos <= ClosePos
      BY <3>1, StartAndClose
    <3> QED
      BY <1>1, <3>2
  <2> QED
    BY <2>1
<1>3. resp = "none"
  BY <1>2 DEF Channel
<1>4. ServerEpoch(spos) = ClientEpoch(cpos) /\ ClientEpoch(cpos) \in Nat
  BY <1>1, <1>3, Epochs DEF Lockstep
<1>5. ClientEpoch(ClosePos + 1) <= ServerEpoch(spos)
      /\ ClientEpoch(ClosePos + 1) \in Nat
  <2>1. ClosePos + 1 \in Nat /\ ClosePos + 1 <= cpos
    BY <1>1
  <2> QED
    BY <1>1, <1>4, <2>1, Epochs
<1>6. "origin" \notin handles
  <2>1. PICK d \in DOMAIN ServerScript :
          /\ ServerScript[d] = "DropMatcher"
          /\ ServerEpoch(d) < ClientEpoch(ClosePos + 1)
          /\ \A j \in DOMAIN ServerScript : ServerScript[j] = "Match" => j < d
    BY DroppedBeforeClose
  <2>2. d \in Nat /\ ServerEpoch(d) \in Nat /\ ServerEpoch(spos) \in Nat
    <3>1. d \in Nat
      BY <2>1, Positions
    <3> QED
      BY <1>1, <3>1, Epochs
  <2>3. ServerEpoch(d) < ServerEpoch(spos)
    BY <1>5, <2>1, <2>2
  <2>4. ~(spos <= d)
    <3>1. ASSUME spos <= d PROVE ServerEpoch(spos) <= ServerEpoch(d)
      BY <1>1, <2>2, <3>1, Epochs
    <3> QED
      BY <2>2, <2>3, <3>1
  <2>5. spos > d
    BY <1>1, <2>2, <2>4
  <2> QED
    BY <2>1, <2>5 DEF Dropped
<1>7. ASSUME NEW j \in DOMAIN ServerScript, j >= spos,
             ServerScript[j] \in ServerSync
      PROVE  FALSE
  <2>1. j \in Nat /\ j <= Len(ServerScript) /\ spos <= j
    BY <1>1, <1>7, Positions
  <2>2. ServerEpoch(j + 1) = ServerEpoch(j) + 1
    BY <1>7, Epochs
  <2>3. /\ ServerEpoch(spos) <= ServerEpoch(j)
        /\ ServerEpoch(j + 1) <= ServerEpoch(Len(ServerScript) + 1)
    <3>1. /\ j + 1 \in Nat /\ Len(ServerScript) + 1 \in Nat
          /\ j + 1 <= Len(ServerScript) + 1
      BY <1>1, <2>1
    <3> QED
      BY <1>1, <2>1, <3>1, Epochs
  <2>4. ServerEpoch(j) \in Nat /\ ServerEpoch(spos) \in Nat
    BY <1>1, <2>1, Epochs
  <2> QED
    BY <1>5, <2>2, <2>3, <2>4, SamePoints
<1> QED
  BY <1>6, <1>7 DEF FreedBeforeClose

(* The protocol keeps the promise of AnalysisServer.h: shared data are     *)
(* freed before the connection is closed.                                  *)
THEOREM SharedDataFreed == Spec => []FreedBeforeClose
BY Inductive, FreedInTime, PTL

-----------------------------------------------------------------------------
(* The threads implement the barrier.                                      *)

(* A step of the server opens a point only when the client is at it.       *)
LEMMA ServerStepRefines ==
  IInv /\ ServerNext => Barrier!Next \/ UNCHANGED <<ServerEpoch(spos), ClientEpoch(cpos)>>
<1> SUFFICES ASSUME IInv, ServerNext
             PROVE  Barrier!Next \/ UNCHANGED <<ServerEpoch(spos), ClientEpoch(cpos)>>
  OBVIOUS
<1> USE DEF IInv
<1>1. CASE ServerNotify \/ ServerReleased
  <2>1. /\ spos' = spos + 1 /\ cpos' = cpos /\ resp = "none"
        /\ ServerOp \in ServerSync
    BY <1>1 DEF ServerNotify, ServerReleased, Reply, Channel
  <2>2. spos \in DOMAIN ServerScript /\ ServerScript[spos] \in ServerSync
    BY <2>1, Positions DEF ServerSync
  <2>3. ServerEpoch(spos + 1) = ServerEpoch(spos) + 1
    BY <2>2, Epochs
  <2>4. ServerEpoch(spos) = ClientEpoch(cpos) /\ ServerEpoch(spos) \in Nat
    BY SMTT(30), <2>1, Positions, Epochs DEF Lockstep
  <2>5. /\ ServerEpoch(spos + 1) <= ServerEpoch(Len(ServerScript) + 1)
        /\ ServerEpoch(Len(ServerScript) + 1) \in Nat
    <3>1. /\ spos + 1 \in Nat /\ Len(ServerScript) + 1 \in Nat
          /\ spos + 1 <= Len(ServerScript) + 1
      BY <2>2, Positions
    <3> QED
      BY <3>1, Epochs
  <2>6. ServerEpoch(spos) < ServerEpoch(Len(ServerScript) + 1)
    BY <2>3, <2>4, <2>5
  <2>7. ServerEpoch(spos)' = ServerEpoch(spos) + 1
        /\ ClientEpoch(cpos)' = ClientEpoch(cpos)
    BY <2>1, <2>3 DEF ServerEpoch, ClientEpoch, SyncsBefore
  <2> QED
    BY <2>4, <2>6, <2>7 DEF Barrier!Next, Barrier!Open
<1>2. CASE ServerPass
  <2>1. /\ spos' = spos + 1 /\ cpos' = cpos
        /\ ServerOp \in ServerOps \ ServerSync
    BY <1>2 DEF ServerPass
  <2>2. spos \in DOMAIN ServerScript /\ ServerScript[spos] \notin ServerSync
    BY <2>1, Positions DEF ServerOps, ServerSync
  <2>3. ServerEpoch(spos + 1) = ServerEpoch(spos)
    BY <2>2, Positions, Epochs
  <2> QED
    BY <2>1, <2>3 DEF ServerEpoch, ClientEpoch, SyncsBefore
<1>3. CASE ServerTake \/ ServerData
  BY <1>3 DEF ServerTake, ServerData, Reply, ServerEpoch, ClientEpoch, SyncsBefore
<1> QED
  BY <1>1, <1>2, <1>3 DEF ServerNext

(* A step of the client leaves a point only when the server has opened it. *)
LEMMA ClientStepRefines ==
  IInv /\ ClientNext => Barrier!Next \/ UNCHANGED <<ServerEpoch(spos), ClientEpoch(cpos)>>
<1> SUFFICES ASSUME IInv, ClientNext
             PROVE  Barrier!Next \/ UNCHANGED <<ServerEpoch(spos), ClientEpoch(cpos)>>
  OBVIOUS
<1> USE DEF IInv
<1>1. CASE ClientStart \/ ClientPass \/ ClientRequestsDone
  <2>1. /\ spos' = spos /\ cpos' = cpos + 1
        /\ ClientOp # "end" /\ ClientOp \notin ClientSync
    BY <1>1 DEF ClientStart, ClientPass, ClientRequestsDone, ClientSync
  <2>2. cpos \in DOMAIN ClientScript /\ ClientScript[cpos] \notin ClientSync
    BY <2>1, Positions
  <2>3. ClientEpoch(cpos + 1) = ClientEpoch(cpos)
    BY <2>2, Positions, Epochs
  <2> QED
    BY <2>1, <2>3 DEF ServerEpoch, ClientEpoch, SyncsBefore
<1>2. CASE ClientReceive
  <2>1. CASE cpos' = cpos
    BY <1>2, <2>1 DEF ClientReceive, ServerEpoch, ClientEpoch, SyncsBefore
  <2>2. CASE cpos' # cpos
    <3>1. /\ cpos' = cpos + 1 /\ spos' = spos /\ resp = "notify"
      BY <1>2, <2>2 DEF ClientReceive
    <3>2. ClientOp \in ClientSync /\ ClientOp # "end"
      BY <3>1 DEF Channel, ClientSync
    <3>3. cpos \in DOMAIN ClientScript /\ ClientScript[cpos] \in ClientSync
      BY <3>2, Positions
    <3>4. ClientEpoch(cpos + 1) = ClientEpoch(cpos) + 1
      BY <3>3, Epochs
    <3>5. ServerEpoch(spos) = ClientEpoch(cpos) + 1 /\ ClientEpoch(cpos) \in Nat
      BY <3>1, Positions, Epochs DEF Lockstep
    <3>6. ClientEpoch(cpos)' = ClientEpoch(cpos) + 1
          /\ ServerEpoch(spos)' = ServerEpoch(spos)
      BY <3>1, <3>4 DEF ServerEpoch, ClientEpoch, SyncsBefore
    <3>7. ClientEpoch(cpos) < ServerEpoch(spos)
      BY <3>5
    <3> QED
      BY <3>6, <3>7 DEF Barrier!Next, Barrier!Pass
  <2> QED
    BY <2>1, <2>2
<1>3. CASE ClientCall
  BY <1>3 DEF ClientCall, ServerEpoch, ClientEpoch, SyncsBefore
<1> QED
  BY <1>1, <1>2, <1>3 DEF ClientNext

(* Every behaviour of the two threads is a behaviour of the barrier, but   *)
(* for its fairness.                                                       *)
THEOREM BarrierImplemented ==
  Spec => Barrier!Init
          /\ [][Barrier!Next]_<<ServerEpoch(spos), ClientEpoch(cpos)>>
<1>1. Init => Barrier!Init
  BY Epochs DEF Init, Barrier!Init
<1>2. IInv /\ [Next]_vars
        => [Barrier!Next]_<<ServerEpoch(spos), ClientEpoch(cpos)>>
  <2>1. UNCHANGED vars => UNCHANGED <<ServerEpoch(spos), ClientEpoch(cpos)>>
    BY DEF vars, ServerEpoch, ClientEpoch, SyncsBefore
  <2> QED
    BY <2>1, ServerStepRefines, ClientStepRefines DEF Next
<1> QED
  BY <1>1, <1>2, Inductive, PTL DEF Spec
=============================================================================
