\* The program with its workers and their traces.
SPECIFICATION MCSpec
CONSTANTS
  a = a
  b = b
  Benchmarks <- MCBenchmarks
  Selections <- MCSelections
  Checked <- MCChecked
  Paths <- MCPaths
  NoPath = "no path"
  TraceOut = "one"
  SafePath <- MCSafePath
  ExitCodes <- MCExitCodes
  CrashSignals <- MCCrashSignals
  DiskFaults = {"open", "write"}
  RogueExits = {0, 3}
  Capacity = 2
  MaxDepth = 1
  MaxEvents = 2
INVARIANTS
  GymTypeOK
  PassedHasTrace
PROPERTIES
  VerdictsFollowTheWorker
  TracesKept
  OrchestratorSpec
