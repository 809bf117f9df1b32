CONSTANTS
  Procs = {"p1", "p2"}
  Clusters = {1, 2, 3}
  MaxErrors = 1
  MaxRetries = 2
  MaxVersion = 3
CONSTANT Setups <- SharedFiles
SPECIFICATION Spec
PROPERTY WritesInOrder
