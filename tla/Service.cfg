SPECIFICATION FairSpec
CONSTANTS
  MaxGen = 2
  Manuals = {m1, m2}
INVARIANT TypeOK
INVARIANT NoOrphan
INVARIANT NoOverlapWithoutDashboard
INVARIANT OnceStatus
PROPERTY ShutdownEnds
PROPERTY OnceEnds
