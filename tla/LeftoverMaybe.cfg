\* Does a value declared by will_return_maybe never cause a failure?
SPECIFICATION Spec
CONSTANTS
  ByteBits = 2
  Mocks = {"mock"}
  Parameters = {"parameter"}
  Callees = {"open", "close"}
  Counts <- MCCounts
  Addresses = {1, 2, 3}
  Results <- MCResults
  XmlFiles = {"first", "second", "third"}
  Programs <- MCPrograms
  Comparisons <- MCComparisons
INVARIANTS
  MaybeNeverFails
