SPECIFICATION FairSpec
CONSTANTS
  Ticks = {t1, t2, t3}
  Callers = {c1}
INVARIANT TypeOK
INVARIANT MutualExclusion
INVARIANT FlagMeansInside
PROPERTY FlagIsReleased
PROPERTY FiringsDrain
PROPERTY ImplementsSingleFlight
