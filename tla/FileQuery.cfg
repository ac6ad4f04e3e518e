CONSTANTS
  Align = 4
  Args <- MCArgs
  CurrentDirs = {3, 4, 5, 6}
  MaxStreams = 4
  StreamsPerIncrement = 1
  MaxChanges = 1
SPECIFICATION FairSpec
INVARIANTS
  BuffersFit
  ShownTruthfully
  StreamsListed
PROPERTIES
  QueryLeavesFileAlone
  Returns
