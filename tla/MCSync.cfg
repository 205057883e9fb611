SPECIFICATION FairSpec
CONSTANTS
  f1 = f1
  f2 = f2
  s1 = s1
  g1 = g1
  g2 = g2
  d1 = d1
  w1 = w1
  w2 = w2
  Listing <- MCListing
  Kind <- MCKind
  Workers <- MCWorkers
  ExitCodes <- MCExitCodes
  ChanCap = 1
  RsyncBatch = 2
  DeleteBatch = 2
  MaxRetries = 3
INVARIANTS
  TypeOK
  EntryOwned
  DoneMeansApplied
PROPERTIES
  SyncReturns
