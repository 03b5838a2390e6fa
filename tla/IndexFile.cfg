SPECIFICATION Spec
CONSTANTS
  Trees <- MCTrees
  Readers = {r1}
  NoFile = NoFile
  Null = Null
  Depth = 3
  MaxLeaves = 2
  MaxNodes = 3
INVARIANT TypeOK
INVARIANT ReadsWhatIsThere
INVARIANT RoundTrip
PROPERTY CompleteIndexStays
CHECK_DEADLOCK FALSE
