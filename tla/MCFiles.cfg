SPECIFICATION Spec
CONSTANTS
  p = p
  q = q
  s1 = s1
  s2 = s2
  r1 = r1
  r2 = r2
  b1 = b1
  b2 = b2
  b3 = b3
  Committer = Committer
  NoFile = NoFile
  NoChunk = NoChunk
  Paths <- MCPaths
  Streams <- MCStreams
  Blocks <- MCBlocks
  PathOf <- MCPathOf
  Readers <- MCReaders
  Chunks <- MCChunks
  FileOf <- MCFileOf
SYMMETRY Interchangeable
INVARIANTS
  TypeOK
  HandleUsable
  CommitMeansDurable
  NoHandleLeak
CHECK_DEADLOCK FALSE
