SPECIFICATION Spec
CONSTANTS
  TqTreeLevel = 3
  Width = 16
  Points <- None
  Lines <- MCLines
  Rings <- None
  MaxInserts = 1
  Coordinates = {1, 3, 8, 13}
  BendCoordinates = {}
  RingCoordinates = {}
INVARIANT SegmentsLeaveATrace
CHECK_DEADLOCK FALSE
