SPECIFICATION OutageFairSpec
CONSTANTS
  NoTile = NoTile
  Garbage = Garbage
  Handlers = {h1, h2}
  Workers = {w1, w2}
  Tiles = {t1}
  Plottable = {t1}
  TTL = 1
  ScoreDangles = FALSE
  MaxFaults = 1
  Backlog = 1
  MaxOutages = 1
INVARIANT OutageTypeOK
INVARIANT ConnectedNoLostWakeup
INVARIANT ImmortalBySnapshot
PROPERTY EndsOrStrands
CHECK_DEADLOCK FALSE
