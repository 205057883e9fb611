SPECIFICATION ClientFairSpec
CONSTANTS
  MaxWindow = 2
  LastReqID = 6
  ReqIDs <- MCReqIDs
INVARIANTS
  ClientTypeOK
  WatermarkExact
  NoLostWakeup
PROPERTIES
  RingImplementsWindow
  ParkedProceeds
CHECK_DEADLOCK FALSE
