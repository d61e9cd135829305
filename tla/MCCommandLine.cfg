\* Every link order, and every command line of the five kinds.
SPECIFICATION CliSpec
CONSTANTS
  Linked <- MCLinked
  Names <- MCNames
  Tags <- MCTags
  CommandLines <- MCCommandLines
  Dashed <- MCDashed
  Number <- MCNumber
  DefaultDir = "tmp"
  TraceFile <- MCTraceFile
INVARIANTS
  SelectionExact
  OrderKept
  ParsedAsWritten
  WorkerGetsWhatWasMeant
