--------------------------- MODULE MCOrchestrator ---------------------------
(***************************************************************************)
(* A small instance of Orchestrator: three benchmarks, two of which share  *)
(* a safe name and two of which ask check_support, and selections with     *)
(* none, one, several and repeated benchmarks.                             *)
(***************************************************************************)
EXTENDS Orchestrator

CONSTANTS a, b, c

MCBenchmarks == {a, b, c}
MCSelections == {<<>>, <<a>>, <<b>>, <<a, b>>, <<c, a>>, <<b, c>>, <<a, a>>}
MCShortSelections == {<<a>>, <<b, c>>}
MCChecked == {a, c}
MCPaths == {"one", "ab", "c"}
MCSafePath == [x \in MCBenchmarks |-> IF x = c THEN "c" ELSE "ab"]
MCExitCodes == {0, 1, UnsupportedExit, 127}
MCCrashSignals == {SIGKILL, 11}

=============================================================================
