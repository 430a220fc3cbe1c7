------------------------- MODULE MCAnalysisResponse -------------------------
(* The response lists of the repository's servers, and the requests of     *)
(* their clients.                                                          *)
EXTENDS AnalysisResponse

CONSTANTS f1, f2, f3, f4, f5, f6, f7,
          DIEstimateMemory, DIDependency, Delinearization, DominatorTree,
          EstimateMemory, ProviderPass,
          ClientServerMatcher, ClonedMemoryMatcher, ArrayAccess

MCFunctions == {f1, f2, f3, f4, f5, f6, f7}
MCCloned == {f1, f2, f3, f4, f5, f6}

MCModuleRequests ==
  {<<ClientServerMatcher>>, <<ClientServerMatcher, ClonedMemoryMatcher>>,
   <<ClientServerMatcher, ClonedMemoryMatcher, ArrayAccess>>}

(* DVMHMemoryServerProvider; the default server's has two of its analyses. *)
DefaultListed == {ProviderPass}
APCProviders ==
  <<{Delinearization, DominatorTree, EstimateMemory, DIEstimateMemory,
     DIDependency}>>

(* The clients of the default server, the APC passes, a client that        *)
(* accesses a provider as a whole, and one that also asks for what no      *)
(* server has, together with what the cache may have.                      *)
DefaultRequests == {<<DIEstimateMemory, DIDependency>>, <<DIEstimateMemory>>}
APCRequests ==
  {<<Delinearization, DominatorTree, EstimateMemory, DIEstimateMemory>>,
   <<DIEstimateMemory, DIDependency>>, <<DIEstimateMemory>>}
MCClients ==
  {DefaultRequests, APCRequests, {<<ProviderPass>>},
   DefaultRequests \cup {<<DIDependency, ArrayAccess>>}}
=============================================================================
