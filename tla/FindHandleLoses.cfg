CONSTANTS
  Listings <- MCListings
  InitialSizes <- MCInitialSizes
  LargeBufferSize = 3
  MaxBufferSize = 8
  InfoSize = 2
  HandleSize = 1
  FreeFailBound = 0
  MaxEntries = 3
  EntrySizes = {2, 5}
SPECIFICATION Spec
INVARIANT AllEntriesDelivered
