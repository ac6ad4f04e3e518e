SPECIFICATION FairSpec
CONSTANTS
  top = top
  sub = sub
  Looped = TRUE
  Dirs <- MCDirs
  Root = top
  Entries <- MCEntries
  Flags <- MCFlags
  MaxDepth = 3
\* The process may be gone after RtlCreateUnicodeString(NULL).
CHECK_DEADLOCK FALSE
INVARIANTS
  ResourcesHeld
  DepthFirstOnce
  CutsTold
PROPERTIES
  WalkReturns
