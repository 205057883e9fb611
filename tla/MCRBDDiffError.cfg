SPECIFICATION Spec
CONSTANTS
  Size <- MCSize
  ChunkSize = 2
  DiffCap = 1
  Blocks <- MCBlocks
  Diffs <- MCDiffs
  Failures <- DiffFailure
INVARIANT
  SignalMeansComplete
