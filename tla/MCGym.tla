------------------------------- MODULE MCGym -------------------------------
(* Two benchmarks whose names have the same safe form, run once, twice and  *)
(* together; the small buffer and call bounds of one worker.                *)
EXTENDS Gym

CONSTANTS a, b

MCBenchmarks == {a, b}
MCSelections == {<<a>>, <<a, b>>, <<b, b>>}
MCChecked == {a}
MCPaths == {"one", "a", "b"}
MCSafePath == [x \in MCBenchmarks |-> IF x = a THEN "a" ELSE "b"]
MCExitCodes == {0, 1, 3, ExecFailed, UnsupportedExit}
MCCrashSignals == {11}

\* Without a worker its path says nothing, an earlier file is never read, no
\* worker starts without --solver, and --output-dir only overrides --trace-out:
\* fixing the four loses no behaviour that the properties could tell apart.
MCInit ==
  /\ GymInit
  /\ options.solver /\ ~options.outputDir
  /\ path = TraceOut
  /\ files = [p \in Paths |-> W!OldFile]

MCSpec == MCInit /\ [][GymNext]_gymVars

=============================================================================
