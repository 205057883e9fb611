SPECIFICATION FairSpec
CONSTANTS
  Size <- MCSize
  ChunkSize = 2
  DiffCap = 1
  Blocks <- MCBlocks
  Diffs <- MCDiffs
  Failures <- AllFailures
INVARIANTS
  TypeOK
  BlocksDisjoint
  CompleteUnlessDiffFailed
PROPERTY
  SyncTerminates
