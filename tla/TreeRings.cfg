SPECIFICATION Spec
CONSTANTS
  TqTreeLevel = 3
  Width = 16
  Points <- None
  Lines <- None
  Rings <- MCRings
  MaxInserts = 2
  Coordinates = {}
  BendCoordinates = {}
  RingCoordinates = {0, 3, 8, 14}
INVARIANT TypeOK
INVARIANT RingsPainted
INVARIANT NothingElsePainted
INVARIANT RimLostOnlyInside
CHECK_DEADLOCK FALSE
