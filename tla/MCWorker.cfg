\* Every fault that stop() can see; the plugin may end the process.
SPECIFICATION WorkerSpec
CONSTANTS
  Paths <- MCPaths
  DiskFaults = {"open", "write"}
  RogueExits = {1, 10}
  Capacity = 4
  MaxDepth = 2
  MaxEvents = 6
INVARIANTS
  WorkerTypeOK
  ExitZeroMeansTrace
  FailureKeepsTrace
  SlicesClosed
PROPERTIES
  TraceWrittenOnce
