\* Every forwarding method, callback and exception, with data and matrices to tell apart.
SPECIFICATION TcSpec
CONSTANTS
  u = u
  v = v
  x = x
  y = y
  None = "no method"
  Data <- MCData
  Matrices <- MCMatrices
  MaxSteps = 6
INVARIANTS
  TraceTellsTheCall
PROPERTIES
  DirectSpec
