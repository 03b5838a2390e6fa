SPECIFICATION FairSpec
CONSTANTS
  Handlers = {h1, h2}
  Workers = {w1, w2}
  Tiles = {a, b}
  Plottable = {a, b}
  NoTile = NoTile
  Garbage = Garbage
  TTL = 1
  ScoreDangles = FALSE
  MaxFaults = 2
  Backlog = 1
PROPERTY StrandedOnlyByDrop
CHECK_DEADLOCK FALSE
