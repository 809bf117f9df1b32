CONSTANTS
  MaxCluster = 4
  ClusterSize = 2
  RootEntries = 2
  SizeLimit = 32
  WORD = 64
  Cases <- AllCases
SPECIFICATION FairSpec
INVARIANTS TablesSound CleanExit
PROPERTIES HealthyPasses Terminates
