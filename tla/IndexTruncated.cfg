SPECIFICATION Spec
CONSTANTS
  Trees <- MCTrees
  Readers = {r1}
  NoFile = NoFile
  Null = Null
  Depth = 3
  MaxLeaves = 1
  MaxNodes = 0
INVARIANT SuccessMeansComplete
CHECK_DEADLOCK FALSE
