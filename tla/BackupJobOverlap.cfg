SPECIFICATION FairSpec
CONSTANTS
  Jobs = {j1, j2}
  MaxTime = 2
  Overlap = TRUE
  RemovalMayFail = FALSE
INVARIANT TypeOK
INVARIANT SuccessIsStored
INVARIANT FilesAreOwned
INVARIANT StatusSettles
PROPERTY CancelledStoresNothing
PROPERTY CancelledJobsEnd
PROPERTY KeepsPromise
