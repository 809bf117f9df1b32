CONSTANTS
  v1 = v1
  v2 = v2
  DataStart = 4
  DataEnd = 6
  SectPerClust = 3
  NearArea = 3
  Version = "STAC4"
  FastBitfatAlloc = FALSE
  NoExactSearch = FALSE
  LastCluster = 3
  SectorSize = 3
  Payloads = {v1, v2}
  Length <- Lengths
  CompressedLengths <- Shrinks
  Zeros = Zeros
  Damaged = Damaged
  Volumes <- MCVolumes
  NearHints = {0}
  IoErrors = TRUE
  Crashes = TRUE
  None = None
SPECIFICATION Spec
INVARIANTS LayoutSound OnlyLostIsIrreparable
PROPERTIES OthersUntouched WrittenReadsBack SuccessMeansExact CallsAccount
