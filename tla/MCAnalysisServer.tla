-------------------------- MODULE MCAnalysisServer --------------------------
(* The pipelines of the repository as scripts of AnalysisServer.           *)
EXTENDS AnalysisServer

(* AnalysisServer::runOnModule: what the server thread runs around the     *)
(* passes of a particular server.                                          *)
RunServer(serverPasses) ==
  <<"Clone", "Match", "Notify">> \o serverPasses
    \o <<"DropMatcher", "Notify", "Teardown">>

(* The APC based parallelization, whose server has two response stages.    *)
APCClient ==
  <<"Estimate", "Start", "Wait", "Local", "Wait", "Request", "Release",
    "Wait", "Request", "Release", "Close", "DestroyEnv">>
APCServer ==
  RunServer(<<"Analyze", "Notify", "InitProvider", "Respond",
              "Analyze", "Notify", "InitProvider", "Respond">>)
=============================================================================
