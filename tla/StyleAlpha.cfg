SPECIFICATION Spec
CONSTANT
  Scale = 100
INVARIANT StyleTypeOK
INVARIANT OpaqueBelowRange
PROPERTY FadesInRange
PROPERTY CoverageShows
