CONSTANTS
  DataStart = 3
  DataEnd = 11
  SectPerClust = 2
  NearArea = 3
  Version = "DRVSP3"
  FastBitfatAlloc = FALSE
  NoExactSearch = FALSE
  NearHints = {0, 6}
SPECIFICATION Spec
INVARIANTS SearchIsTheLoops NeverHandsOutUsedSectors FindsWhatFits FragmentsUseEverySector
