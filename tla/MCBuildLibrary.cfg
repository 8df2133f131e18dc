CONSTANTS
  b1 = b1  b2 = b2  b3 = b3
  app = app
  Builds = {b1, b2, b3}
  Groups = {app}
  GroupOf <- MCGroupOf
  KeepPerGroup = 1
  AgeRule = TRUE
  Sweeps = {1, 2}
  MaxFaults = 1
SPECIFICATION LibraryFairSpec
INVARIANTS NewestAreKept StatusMatchesFile
PROPERTIES ReferencedStays DanglingIsRepaired
CHECK_DEADLOCK FALSE
