CONSTANTS
  Threads = {t1, t2}
  Handles = {h1}
  NoThread = NoThread
  Entries = 3
  Ntdlls <- MCNtdlls
  DefaultSize = 1
  InitSizes = {0, 2}
  MaxSize = 2
  HandleSize = 1
  MaxErrors = 1
  MaxAllocated = 2
SPECIFICATION FairSpec
INVARIANTS
  SharedSafely
  CountersAddUp
  NullCallOnlyUninitialised
  StatusSettled
PROPERTIES
  LockGivenBack
