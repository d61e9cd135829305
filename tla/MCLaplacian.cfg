\* Every way to cut the rows into ranges and to order them.
SPECIFICATION LapSpec
CONSTANTS
  Lines = {1, 2, 7}
  Boxes <- MCBoxes
  Rhs = {0, 2}
INVARIANTS
  CountsMatchEdges
  MatrixIsLaplacian
  AssertedPropertiesHold
  RhsMatchesMatrix
