SPECIFICATION FairSpec
CONSTANTS
  Layout <- MCLayout
  Blocks <- MCBlocks
  MaxWindow = 1
  BoundaryCap = 1
  CommitBatch = 2
  Failures <- AllFailures
INVARIANTS
  TypeOK
  CommittedIsStoredUnlessFaulted
  CommitsExact
PROPERTY
  JoinReturnsOrOrphaned
