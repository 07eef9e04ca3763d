SPECIFICATION FairSpec
CONSTANTS
  Clients = {c1}
  Writers = {w1}
  ticker = ticker
  MaxStatus = 2
  MaxLogs = 1
  MaxBackups = 1
INVARIANT TypeOK
INVARIANT NothingMissed
PROPERTY StatusConverges
PROPERTY GoneIsForgotten
