\* A parent that inherits SIGCHLD ignored loses its workers to the kernel.
SPECIFICATION FairSpec
CONSTANTS
  a = a
  b = b
  c = c
  Benchmarks <- MCBenchmarks
  Selections <- MCShortSelections
  Checked <- MCChecked
  Paths <- MCPaths
  NoPath = "no path"
  TraceOut = "one"
  SafePath <- MCSafePath
  ExitCodes <- MCExitCodes
  CrashSignals <- MCCrashSignals
PROPERTIES
  WorkersRecorded
