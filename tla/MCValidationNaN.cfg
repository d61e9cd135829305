\* Solvers that may also compute NaN.
SPECIFICATION ValSpec
CONSTANTS
  Box <- MCBox
  RhsCount = 1
  Offsets <- MCOffsetsNaN
  NaN = NaN
INVARIANTS
  PassedIsAccurate
