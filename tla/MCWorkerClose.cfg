\* The one step of a file write whose failure nobody looks at.
SPECIFICATION WorkerSpec
CONSTANTS
  Paths <- MCPaths
  DiskFaults = {"close"}
  RogueExits = {1, 10}
  Capacity = 4
  MaxDepth = 2
  MaxEvents = 6
INVARIANTS
  ExitZeroMeansTrace
