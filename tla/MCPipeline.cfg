SPECIFICATION FairSpec
CONSTANTS
  r1 = r1
  r2 = r2
  s1 = s1
  s2 = s2
  MaxWindow = 1
  LastReqID = 2
  ReqIDs <- MCReqIDs
  Capacity = 2
  MemCallers <- MCReaders
  Senders <- MCSenders
  Pools <- TwoOfEither
  Kind <- MCKind
  Size <- MCSize
  ChanBuf = 2
  BatchMaxCount = 2
  BatchMaxBytes = 1
  Faults <- AllFaults
INVARIANTS
  TypeOK
  OneOwner
  MemoryExact
PROPERTIES
  PipelineKeepsPromise
  RunReturnsOrStalls
