CONSTANTS
  SectorSize = 32
  Formats <- MCFormats
  FatStart = 40
  MdfatStart = 2
  DataStart = 60
  DataEnd = 64
  Dcluster = 9
  SectPerClust = 8
  CacheSize = 2
  Clusters = {10, 20, 21, 64}
  Sectors <- MCSectors
  FatValues <- MCFatValues
  Mdes <- MCMdes
  Bits <- MCBits
  Content <- MCContent
  MaxCalls = 3
SPECIFICATION Spec
INVARIANTS EntriesKept CacheSound CopiesAgree FreeIsUnused
CHECK_DEADLOCK FALSE
