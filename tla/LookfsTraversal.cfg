SPECIFICATION FairSpec
CONSTANTS
  cwd = cwd
  full = full
  sub = sub
  empty = empty
  MaxArguments = 2
  Dirs <- MCDirs
  Cwd = cwd
  Entries <- MCEntries
  CommandLines <- MCCommandLines
  AttributeFailureBound = 1
INVARIANTS
  FindersHeld
  ErrorReachesExitCode
  LookedAtAsListed
PROPERTIES
  Ends
