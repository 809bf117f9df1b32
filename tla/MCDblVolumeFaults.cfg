CONSTANTS
  v1 = v1
  v2 = v2
  v3 = v3
  DataStart = 4
  DataEnd = 9
  SectPerClust = 3
  NearArea = 3
  Version = "DRVSP3"
  FastBitfatAlloc = FALSE
  NoExactSearch = FALSE
  Clusters = {c2, c3}
  Payloads = {v3}
  Length <- Lengths
  CompressedSizes <- NoCompression
  NearHints = {0}
  NoFragWrite = FALSE
  IoErrors = TRUE
  Crashes = TRUE
  Zeros = Zeros
  Damaged = Damaged
  None = None
SPECIFICATION Spec
INVARIANTS TypeOK FreeCountExact
SYMMETRY ClusterSymmetry
