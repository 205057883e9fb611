SPECIFICATION FairSpec
CONSTANTS
  a = a
  b = b
  x = x
  y = y
  k1 = k1
  k2 = k2
  Sources <- MCSources
  NoSource = NoSource
  Callers <- MCCallers
  Keys <- MCKeys
  MaxConns = 3
  NoEntry = NoEntry
INVARIANTS
  TypeOK
  OneSourceWrites
  NothingLeftRunning
  PoolExact
PROPERTY NothingWaitsForever
