\* Solvers that compute numbers, right or wrong.
SPECIFICATION ValSpec
CONSTANTS
  Box <- MCBox
  RhsCount = 2
  Offsets <- MCOffsets
  NaN = NaN
INVARIANTS
  PassedIsAccurate
  AccurateIsPassed
