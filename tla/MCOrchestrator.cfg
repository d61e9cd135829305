\* Safety and progress of the orchestrator, over every option set and SIGCHLD disposition.
SPECIFICATION FairSpec
CONSTANTS
  a = a
  b = b
  c = c
  Benchmarks <- MCBenchmarks
  Selections <- MCSelections
  Checked <- MCChecked
  Paths <- MCPaths
  NoPath = "no path"
  TraceOut = "one"
  SafePath <- MCSafePath
  ExitCodes <- MCExitCodes
  CrashSignals <- MCCrashSignals
INVARIANTS
  TypeOK
  VerdictsHonest
  NoWorkerLeft
  TracesNotShared
PROPERTIES
  SignalsHitTheWorker
  SuiteSpec
  WorkerJudged
  RunEnds
