SPECIFICATION FairSpec
CONSTANTS
  r1 = r1
  r2 = r2
  s1 = s1
  s2 = s2
  MaxWindow = 2
  LastReqID = 5
  ReqIDs <- MCReqIDs
  Capacity = 20
  MemCallers <- MCReaders
  Senders <- MCSenders
  Pools <- TwoReaders
  Kind <- MCKind
  Size <- MCSize
  ChanBuf = 2
  BatchMaxCount = 2
  BatchMaxBytes = 4
  Faults <- NoFaults
PROPERTY RunTerminates
CHECK_DEADLOCK FALSE
