CONSTANTS
  v1 = v1
  v2 = v2
  v3 = v3
  DataStart = 4
  DataEnd = 6
  SectPerClust = 2
  NearArea = 3
  Version = "DRVSP"
  FastBitfatAlloc = FALSE
  NoExactSearch = FALSE
  Clusters = {c2, c3, c4}
  Payloads = {v1, v2}
  Length <- Lengths
  CompressedSizes <- Shrinks
  NearHints = {0}
  NoFragWrite = FALSE
  IoErrors = TRUE
  Crashes = TRUE
  Zeros = Zeros
  Damaged = Damaged
  None = None
  ListErrors = TRUE
SPECIFICATION CheckSpec
INVARIANTS UsedMarked NoCrosslink CallKeepsToItsSectors
PROPERTIES RepairSucceeds SuccessMeansConsistent StoreBesideRepairs
SYMMETRY ClusterSymmetry
