SPECIFICATION LeaseSpec
CONSTANTS
  Handlers = {h1, h2}
  Workers = {w1, w2}
  Tiles = {a, b, u}
  Plottable = {a, b}
  NoTile = NoTile
  Garbage = Garbage
  TTL = 2
  ScoreDangles = TRUE
  MaxFaults = 2
  Backlog = 1
INVARIANT TypeOK
INVARIANT NoLostWakeup
INVARIANT NoImmortalTile
INVARIANT WokenFindsTile
INVARIANT OwnPictureOrGarbage
CHECK_DEADLOCK FALSE
SYMMETRY Symmetry
