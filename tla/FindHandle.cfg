CONSTANTS
  Listings <- MCListings
  InitialSizes <- MCInitialSizes
  LargeBufferSize = 3
  MaxBufferSize = 8
  InfoSize = 2
  HandleSize = 1
  FreeFailBound = 8
  MaxEntries = 4
  EntrySizes = {2, 5}
SPECIFICATION FairSpec
INVARIANTS
  TypeOK
  InOrderOnce
  NothingSkippedInBuffer
  CompleteIfFits
  FailureIsReported
  NameTerminatedInFirstBuffer
  BufferAccounted
PROPERTIES
  KeepsPromise
  CallReturns
