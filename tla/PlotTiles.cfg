SPECIFICATION PlotSpec
CONSTANTS
  TqTreeLevel = 3
  Width = 16
  Points <- MCPoints
  Lines <- MCLines
  Rings <- MCRings
  MaxInserts = 2
  TileBits = 1
  Zooms = {1, 2}
INVARIANT PlotTypeOK
INVARIANT NodesFound
INVARIANT GreatestMark
INVARIANT ObjectsShow
INVARIANT NothingFarAway
INVARIANT InteriorLostOnlyBesideRim
CHECK_DEADLOCK FALSE
