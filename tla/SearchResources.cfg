CONSTANTS
  RootPaths <- MCRootPaths
  DirNames = {"C:", "d"}
  SubNames = {"s"}
  MaxHandles = 3
  MaxLost = 6
SPECIFICATION Spec
INVARIANTS
  HandlesOwned
  RecursionConsistent
PROPERTIES
  DamageKnown
