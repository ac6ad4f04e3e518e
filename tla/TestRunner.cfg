\* The test runners of cmocka, over the small programs of MCTestRunner.
SPECIFICATION Spec
CONSTANTS
  ByteBits = 2
  Mocks = {"mock"}
  Parameters = {"parameter"}
  Callees = {"open", "close"}
  Counts <- MCCounts
  Addresses = {1, 2, 3}
  Results <- MCResults
  XmlFiles = {"first", "second", "third"}
  Programs <- MCPrograms
  Comparisons <- MCComparisons
INVARIANTS
  MocksAsDeclared
  NoLeakPasses
  AssertionsMeanIt
  AccidentsExplained
  OutcomesCounted
  ReportsTruthful
PROPERTIES
  TestsKeptApart
