SPECIFICATION Spec
CONSTANTS
  f1 = f1
  f2 = f2
  f3 = f3
  f4 = f4
  f5 = f5
  f6 = f6
  f7 = f7
  NoFunc = NoFunc
  DIEstimateMemory = DIEstimateMemory
  DIDependency = DIDependency
  Delinearization = Delinearization
  DominatorTree = DominatorTree
  EstimateMemory = EstimateMemory
  ProviderPass = ProviderPass
  ClientServerMatcher = ClientServerMatcher
  ClonedMemoryMatcher = ClonedMemoryMatcher
  ArrayAccess = ArrayAccess
  Functions <- MCFunctions
  Cloned <- MCCloned
  Listed <- DefaultListed
  Providers <- APCProviders
  ModuleRequests <- MCModuleRequests
  Clients <- MCClients
\* The pass ends after a release.
CHECK_DEADLOCK FALSE
INVARIANTS TypeOK RightFunction AllOrNothing
PROPERTY KeepsResults
