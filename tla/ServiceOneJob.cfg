SPECIFICATION Spec
CONSTANTS
  MaxGen = 2
  Manuals = {m1, m2}
INVARIANT AtMostOneJob
