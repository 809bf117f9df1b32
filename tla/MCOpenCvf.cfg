CONSTANTS
  Procs = {1, 2}
  Files <- AllFiles
  Extensions = {"000", "001"}
  MaxFragment = 2
  HostClusters = {2, 3, 4, 5}
  ClusterSize = 2
  HostDataStart = 9
  IoErrors = TRUE
SPECIFICATION FairSpec
INVARIANTS TypeOK WriterGuarded TranslationRight TablesFit
PROPERTY EveryOpenReturns
