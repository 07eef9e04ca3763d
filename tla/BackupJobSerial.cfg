SPECIFICATION Spec
CONSTANTS
  Jobs = {j1, j2, j3}
  MaxTime = 1
  Overlap = FALSE
  RemovalMayFail = TRUE
SYMMETRY Symmetry
INVARIANT SerialIntegrity
