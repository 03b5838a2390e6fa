SPECIFICATION LeaseFairSpec
CONSTANTS
  Handlers = {h1, h2}
  Workers = {w1, w2}
  Tiles = {a, b}
  Plottable = {a, b}
  NoTile = NoTile
  Garbage = Garbage
  TTL = 2
  ScoreDangles = FALSE
  MaxFaults = 0
  Backlog = 2
PROPERTY AnswersSpec
PROPERTY AnswersFairSpec
