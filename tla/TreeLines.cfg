SPECIFICATION Spec
CONSTANTS
  TqTreeLevel = 3
  Width = 16
  Points <- MCPoints
  Lines <- MCLines
  Rings <- None
  MaxInserts = 1
  Coordinates = {0, 1, 3, 4, 8, 9, 13, 16}
  BendCoordinates = {2, 5, 8}
  RingCoordinates = {}
INVARIANT NothingLost
INVARIANT NothingInvented
CHECK_DEADLOCK FALSE
