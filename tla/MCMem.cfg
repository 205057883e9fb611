SPECIFICATION FairSpec
CONSTANTS
  r1 = r1
  r2 = r2
  r3 = r3
  r4 = r4
  Capacity = 3
  MemCallers <- MCCallers
  Sizes <- MCSizes
INVARIANTS
  TypeOK
  BudgetExact
  WaiterHasWaker
PROPERTY
  LargeRequestProceeds
