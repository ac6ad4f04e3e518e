SPECIFICATION Spec
CONSTANTS
  cwd = cwd
  full = full
  sub = sub
  empty = empty
  MaxArguments = 1
  Dirs <- MCDirs
  Cwd = cwd
  Entries <- MCEntries
  CommandLines <- MCCommandLines
  AttributeFailureBound = 1
INVARIANTS
  AllSeen
