CONSTANTS
  MaxCluster = 5
  ClusterSize = 2
  RootEntries = 2
  SizeLimit = 32
  WORD = 64
  Cases <- LostCases
SPECIFICATION FairSpec
INVARIANT NothingLostAtExit
