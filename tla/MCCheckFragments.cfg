CONSTANTS
  v1 = v1
  v2 = v2
  v3 = v3
  DataStart = 4
  DataEnd = 8
  SectPerClust = 3
  NearArea = 3
  Version = "DRVSP3"
  FastBitfatAlloc = FALSE
  NoExactSearch = FALSE
  Clusters = {c2, c3, c4}
  Payloads = {v1, v2}
  Length <- Lengths
  CompressedSizes <- NoCompression
  NearHints = {0}
  NoFragWrite = FALSE
  IoErrors = FALSE
  Crashes = FALSE
  Zeros = Zeros
  Damaged = Damaged
  None = None
  ListErrors = TRUE
SPECIFICATION CheckSpec
INVARIANTS LayoutSound
PROPERTIES NoSilentLoss StoreSpec SuccessMeansConsistent
SYMMETRY ClusterSymmetry
