\* --trace-out beside --output-dir.
SPECIFICATION Spec
CONSTANTS
  a = a
  b = b
  c = c
  Benchmarks <- MCBenchmarks
  Selections <- MCShortSelections
  Checked <- MCChecked
  Paths <- MCPaths
  NoPath = "no path"
  TraceOut = "one"
  SafePath <- MCSafePath
  ExitCodes <- MCExitCodes
  CrashSignals <- MCCrashSignals
INVARIANTS
  TraceOutNeedsOneBenchmark
