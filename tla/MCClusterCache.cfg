CONSTANTS
  Procs = {"p1", "p2", "p3"}
  Clusters = {1, 2, 3}
  MaxErrors = 1
  MaxRetries = 2
  MaxVersion = 2
CONSTANT Setups <- Users
SPECIFICATION FairSpec
INVARIANTS SlotsSound OneSlotPerCluster NothingLost
PROPERTIES OldestUnused 
