--------------------------- MODULE AnalysisServer ---------------------------
(* The client/server analysis protocol.  A client thread runs a legacy     *)
(* pass manager over the original module; one of its passes starts an      *)
(* analysis server in a second thread, which clones the module and runs a  *)
(* pass manager of its own.  The two managers are fixed sequences of       *)
(* passes, here ClientScript and ServerScript; the passes that exchange    *)
(* messages keep them in step, and everything else they run is described   *)
(* by the shared data it uses.                                             *)
EXTENDS Naturals, Sequences, FiniteSets

CONSTANTS ClientScript,  \* passes of the client's manager, in order
          ServerScript,  \* what the server thread runs, in order
          MaxRequests    \* requests the client sends in one "Request" stage

ClientSync == {"Wait", "Release", "Close"}
ServerSync == {"Notify", "Respond"}
Calls == ClientSync \cup {"Request"}

ClientOps == Calls \cup {"Estimate", "Start", "Local", "DestroyEnv"}
ServerOps == ServerSync \cup
  {"Clone", "Match", "Analyze", "InitProvider", "DropMatcher", "Teardown"}

(* Shared data.  ClientEnv is the client's metadata memory environment     *)
(* with its list of handles, Mapping the client-to-server memory mapping   *)
(* (handles of both environments), ServerData the results of server passes.*)
Touches(op) ==
  CASE op \in {"Estimate", "Request"} -> {"ClientModule", "ClientEnv"}
    [] op = "Local"        -> {"ClientModule"}
    [] op = "DestroyEnv"   -> {"ClientEnv"}
    [] op = "Clone"        -> {"ClientModule", "ClientEnv", "ServerData"}
    [] op \in {"Match", "Analyze"} -> {"ServerData", "Mapping", "ClientEnv"}
    [] op = "InitProvider" -> {"ServerData"}
    [] op = "DropMatcher"  -> {"Mapping", "ClientEnv"}
    [] op = "Teardown"     -> {"ServerData", "Mapping", "ClientEnv"}
    [] OTHER -> {}
Answering == {"ServerData", "Mapping", "ClientEnv"}

(* The synchronisation points a thread has left when it is at position i.  *)
SyncsBefore(script, kinds, i) ==
  Cardinality({k \in 1..(i - 1) : k \in DOMAIN script /\ script[k] \in kinds})
ClientEpoch(i) == SyncsBefore(ClientScript, ClientSync, i)
ServerEpoch(i) == SyncsBefore(ServerScript, ServerSync, i)

(* The message a client pass sends.                                        *)
RequestOf(op) == CASE op \in {"Wait", "Close"} -> "wait"
                   [] op = "Release" -> "release"
                   [] OTHER -> "get"
(* The messages a server pass can answer; any other is unreachable code.   *)
Accepts(op) == CASE op = "Notify"  -> {"wait"}
                 [] op = "Respond" -> {"release", "get"}
                 [] OTHER -> {}

StartPos == CHOOSE i \in DOMAIN ClientScript : ClientScript[i] = "Start"
ClosePos == CHOOSE i \in DOMAIN ClientScript : ClientScript[i] = "Close"

(***************************************************************************)
(* What the pipelines of the repository have in common.  AnalysisServer.h  *)
(* states it as the steps a user of the class has to take.                 *)
(***************************************************************************)
ASSUME Scripts ==
  /\ ClientScript \in Seq(ClientOps)
  /\ ServerScript \in Seq(ServerOps)
  /\ MaxRequests \in Nat

ASSUME StartAndClose ==
  /\ StartPos \in DOMAIN ClientScript /\ ClosePos \in DOMAIN ClientScript
  /\ \A i \in DOMAIN ClientScript :
       /\ ClientScript[i] = "Start" <=> i = StartPos
       /\ ClientScript[i] = "Close" <=> i = ClosePos
       /\ ClientScript[i] \in Calls => StartPos < i /\ i <= ClosePos

(* The passes that meet: a release meets the response pass, a wait meets a *)
(* notification, and requests are sent while the response pass listens.    *)
ASSUME Matching ==
  \A i \in DOMAIN ClientScript, j \in DOMAIN ServerScript :
    /\ ServerScript[j] \in ServerSync
    /\ ClientScript[i] \in Calls
    /\ ClientEpoch(i) = ServerEpoch(j)
    => RequestOf(ClientScript[i]) \in Accepts(ServerScript[j])

(* What runs between the same two synchronisation points is disjoint.      *)
ASSUME Disjointness ==
  \A i \in DOMAIN ClientScript, j \in DOMAIN ServerScript :
    /\ StartPos < i /\ i < ClosePos
    /\ ClientEpoch(i) = ServerEpoch(j)
    => Touches(ClientScript[i]) \cap Touches(ServerScript[j]) = {}

(* The mapping is dropped for good before the last notification.           *)
ASSUME DroppedBeforeClose ==
  \E d \in DOMAIN ServerScript :
    /\ ServerScript[d] = "DropMatcher"
    /\ ServerEpoch(d) < ClientEpoch(ClosePos + 1)
    /\ \A j \in DOMAIN ServerScript : ServerScript[j] = "Match" => j < d

(* Every synchronisation point of one side has its partner on the other.   *)
ASSUME SamePoints ==
  ServerEpoch(Len(ServerScript) + 1) = ClientEpoch(ClosePos + 1)

VARIABLES
  cpos,    \* position of the client in its script
  calling, \* the client is blocked in a callback of its socket
  got,     \* answers received in the current "Request" stage
  spos,    \* position of the server thread in its script
  sst,     \* server thread: "off", "run" or "answer" (processing a request)
  req,     \* the request on its way to the server, or "none"
  resp,    \* the response on its way to the client, or "none"
  closed,  \* the client has closed the connection
  handles  \* what the server thread keeps that refers to ClientEnv

vars == <<cpos, calling, got, spos, sst, req, resp, closed, handles>>

Op(script, i) == IF i \in DOMAIN script THEN script[i] ELSE "end"
ClientOp == Op(ClientScript, cpos)
ServerOp == Op(ServerScript, spos)

TypeOK ==
  /\ cpos \in 1..(Len(ClientScript) + 1)
  /\ calling \in BOOLEAN
  /\ got \in 0..MaxRequests
  /\ spos \in 1..(Len(ServerScript) + 1)
  /\ sst \in {"off", "run", "answer"}
  /\ req \in {"none", "wait", "release", "get"}
  /\ resp \in {"none", "notify", "data"}
  /\ closed \in BOOLEAN
  /\ handles \subseteq {"weak", "origin"}

Init ==
  /\ cpos = 1 /\ calling = FALSE /\ got = 0
  /\ spos = 1 /\ sst = "off"
  /\ req = "none" /\ resp = "none" /\ closed = FALSE /\ handles = {}

(***************************************************************************)
(* The client thread.                                                      *)
(***************************************************************************)

(* AnalysisServer::runOnModule on the client: connect the socket and start *)
(* the thread; both sides are connected when it returns.                   *)
ClientStart ==
  /\ ClientOp = "Start"
  /\ sst' = "run" /\ cpos' = cpos + 1
  /\ UNCHANGED <<calling, got, spos, req, resp, closed, handles>>

(* A client pass that sends no message, or the destruction of the storage. *)
ClientPass ==
  /\ ClientOp \in {"Estimate", "Local", "DestroyEnv"}
  /\ cpos' = cpos + 1
  /\ UNCHANGED <<calling, got, spos, sst, req, resp, closed, handles>>

(* Mutant: the close pass releases the server instead of waiting for it.   *)
ClientCall_CloseReleases ==
  /\ ClientOp \in Calls
  /\ ~calling
  /\ ClientOp = "Request" => got < MaxRequests
  /\ calling' = TRUE
  /\ req' = IF ClientOp = "Close" THEN "release" ELSE RequestOf(ClientOp)
  /\ UNCHANGED <<cpos, got, spos, sst, resp, closed, handles>>

(* wait(), release() or getAnalysis() sends its message and blocks.        *)
ClientCall ==
  /\ ClientOp \in Calls
  /\ ~calling
  /\ ClientOp = "Request" => got < MaxRequests
  /\ calling' = TRUE /\ req' = RequestOf(ClientOp)
  /\ UNCHANGED <<cpos, got, spos, sst, resp, closed, handles>>

(* Mutant: the callback returns before the response and its kind is not    *)
(* looked at.                                                              *)
ClientReceive_Async ==
  /\ calling
  /\ calling' = FALSE /\ resp' = "none"
  /\ IF ClientOp = "Request"
     THEN got' = got + 1 /\ UNCHANGED <<cpos, closed>>
     ELSE /\ cpos' = cpos + 1
          /\ closed' = (ClientOp = "Close")
          /\ UNCHANGED got
  /\ UNCHANGED <<spos, sst, req, handles>>

(* send() sets the kind of the response.  The loops of wait() and          *)
(* release() end when it is a notification and repeat otherwise;           *)
(* getAnalysis() hands data over to the pass that asked for them.  The     *)
(* close pass closes the connection after its wait().                      *)
ClientReceive ==
  /\ calling /\ resp # "none"
  /\ calling' = FALSE /\ resp' = "none"
  /\ IF ClientOp = "Request"
     THEN got' = got + 1 /\ UNCHANGED <<cpos, closed>>
     ELSE IF resp = "notify"
     THEN /\ cpos' = cpos + 1
          /\ closed' = (ClientOp = "Close")
          /\ UNCHANGED got
     ELSE UNCHANGED <<cpos, closed, got>>
  /\ UNCHANGED <<spos, sst, req, handles>>

(* The passes that send requests are over, after any number of requests.   *)
ClientRequestsDone ==
  /\ ClientOp = "Request" /\ ~calling
  /\ cpos' = cpos + 1 /\ got' = 0
  /\ UNCHANGED <<calling, spos, sst, req, resp, closed, handles>>

(***************************************************************************)
(* The server thread.                                                      *)
(***************************************************************************)

(* Mutant: the pass added by prepareToClose() does not clear the mapping.  *)
ServerPass_KeepMapping ==
  /\ sst = "run"
  /\ ServerOp \in ServerOps \ ServerSync
  /\ spos' = spos + 1
  /\ handles' \in
       CASE ServerOp = "Clone" -> {handles, handles \cup {"weak"}}
         [] ServerOp = "Match" -> IF "weak" \in handles
                                  THEN {handles, handles \cup {"origin"}}
                                  ELSE {handles}
         [] ServerOp = "Teardown" -> {{}}
         [] OTHER -> {handles}
  /\ UNCHANGED <<cpos, calling, got, sst, req, resp, closed>>

(* A step of the server that exchanges no message.  initializeServer()     *)
(* keeps weak handles of the client memory it finds, the matcher pass adds *)
(* those it recognises to the mapping, the pass added by prepareToClose()  *)
(* clears the mapping, and the passes of the server manager, destroyed     *)
(* with it, release the weak handles.                                      *)
ServerPass ==
  /\ sst = "run"
  /\ ServerOp \in ServerOps \ ServerSync
  /\ spos' = spos + 1
  /\ handles' \in
       CASE ServerOp = "Clone" -> {handles, handles \cup {"weak"}}
         [] ServerOp = "Match" -> IF "weak" \in handles
                                  THEN {handles, handles \cup {"origin"}}
                                  ELSE {handles}
         [] ServerOp = "DropMatcher" -> {handles \ {"origin"}}
         [] ServerOp = "Teardown" -> {{}}
         [] OTHER -> {handles}
  /\ UNCHANGED <<cpos, calling, got, sst, req, resp, closed>>

(* answer() returns with a request of the client.                          *)
ServerTake ==
  /\ sst = "run" /\ ServerOp \in ServerSync /\ req # "none"
  /\ sst' = "answer"
  /\ UNCHANGED <<cpos, calling, got, spos, req, resp, closed, handles>>

(* Mutant: the server returns the request as its response.                 *)
Reply_Echo(response, advance) ==
  /\ resp' = req /\ req' = "none" /\ sst' = "run"
  /\ spos' = IF advance THEN spos + 1 ELSE spos
  /\ UNCHANGED <<cpos, calling, got, closed, handles>>

(* The server replies; `advance` tells whether its pass is over.           *)
Reply(response, advance) ==
  /\ resp' = response /\ req' = "none" /\ sst' = "run"
  /\ spos' = IF advance THEN spos + 1 ELSE spos
  /\ UNCHANGED <<cpos, calling, got, closed, handles>>

(* Mutant: the client is notified without being asked for it.              *)
ServerNotify_Unasked ==
  sst = "run" /\ ServerOp = "Notify" /\ Reply("notify", TRUE)

(* AnalysisNotifyClientPass: only 'wait' is expected.                      *)
ServerNotify ==
  sst = "answer" /\ ServerOp = "Notify" /\ req = "wait" /\ Reply("notify", TRUE)

(* Mutant: the response pass keeps listening after a release.              *)
ServerReleased_KeepListening ==
  sst = "answer" /\ ServerOp = "Respond" /\ req = "release"
  /\ Reply("notify", FALSE)

(* AnalysisResponsePass: 'release' ends the loop.                          *)
ServerReleased ==
  sst = "answer" /\ ServerOp = "Respond" /\ req = "release"
  /\ Reply("notify", TRUE)

(* AnalysisResponsePass: a request of analysis results is answered.        *)
ServerData ==
  sst = "answer" /\ ServerOp = "Respond" /\ req = "get" /\ Reply("data", FALSE)

ClientNext == ClientStart \/ ClientPass \/ ClientCall \/ ClientReceive
              \/ ClientRequestsDone
ServerNext == ServerPass \/ ServerTake \/ ServerNotify \/ ServerReleased
              \/ ServerData

Next == ClientNext \/ ServerNext

Spec == Init /\ [][Next]_vars /\ WF_vars(ClientNext) /\ WF_vars(ServerNext)

-----------------------------------------------------------------------------
(* Properties.                                                             *)

ClientUses == IF calling THEN {}
              ELSE IF ClientOp = "Request" /\ got > 0
              THEN Touches("Request") \cup {"ServerData", "Mapping"}
              ELSE Touches(ClientOp)
ServerUses == IF sst = "off" THEN {}
              ELSE IF sst = "answer"
              THEN IF req = "get" THEN Answering ELSE {}
              ELSE Touches(ServerOp)

(* "Metadata-level memory mapping is a shared resource and synchronization *)
(* is necessary": as long as the connection is open, the two threads never *)
(* use the same data at the same time, whatever passes they are in.        *)
NoRaceWhileConnected == ~closed => ClientUses \cap ServerUses = {}

(* No pass of the server receives a request it declares unreachable, and   *)
(* no client pass receives a response of a kind it does not wait for.      *)
NoUnexpectedMessage ==
  /\ sst = "answer" => req \in Accepts(ServerOp)
  /\ resp # "none" => (resp = "data" <=> ClientOp = "Request")

(* "Before this pass all shared data should be freed": once the connection *)
(* is closed the mapping holds no handle of client memory, and no pass of  *)
(* the server will listen to the closed connection.                        *)
FreedBeforeClose ==
  closed => /\ "origin" \notin handles
            /\ \A j \in DOMAIN ServerScript :
                 j >= spos => ServerScript[j] \notin ServerSync

(* Both threads reach the end of their pass managers: nobody waits for     *)
(* ever for a message of the other.                                        *)
BothFinish ==
  <>(cpos > Len(ClientScript) /\ spos > Len(ServerScript))

(* The threads implement a barrier with one point per message pass.        *)
Barrier == INSTANCE EpochBarrier
             WITH Points <- ServerEpoch(Len(ServerScript) + 1),
                  opened <- ServerEpoch(spos), passed <- ClientEpoch(cpos)
ImplementsBarrier == Barrier!Spec
=============================================================================
