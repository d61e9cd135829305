-------------------------------- MODULE Gym --------------------------------
(***************************************************************************)
(* The whole program: the orchestrator of module Orchestrator, the workers *)
(* of module Worker, one after the other, and the trace files they share.  *)
(* A step of one process leaves the other alone, except where they meet:   *)
(* fork/execv, and the end of the worker, which the kernel turns into the  *)
(* wait status that run_child reads.                                       *)
(***************************************************************************)
EXTENDS Orchestrator

CONSTANTS DiskFaults, RogueExits, Capacity, MaxDepth, MaxEvents

VARIABLES wpc, path, me, exc, session, stopped, open, buffer, data, files,
          code, emitted, faulted,
          returned   \* history: the workers that returned from main

W == INSTANCE Worker

workerVars == <<wpc, path, me, exc, session, stopped, open, buffer, data, files,
                code, emitted, faulted>>
gymVars == <<vars, workerVars, returned>>

\* _exit(127) in the child when execv returns.
ExecFailed == 127

\* What the orchestrator reads is what a worker may end with.
ASSUME GymAssumption ==
  /\ W!WorkerAssumption
  /\ {W!ExitCodeOf(k) : k \in W!Exceptions} \cup RogueExits \cup {ExecFailed} \subseteq ExitCodes
-----------------------------------------------------------------------------
\* trace_path is computed once, before the loop.
MutantLaunch ==
  Fork /\ W!Exec(Len(results) + 1, TracePath(selected[1])) /\ UNCHANGED returned

\* The worker gets the number of its result and the path of its trace.
Launch ==
  Fork /\ W!Exec(Len(results) + 1, TracePath(Current)) /\ UNCHANGED returned

OrchestratorAlone ==
  /\ \/ Startup
     \/ ReportUnsupported \/ IterationThrows \/ RunChild \/ Summarise
     \/ DeadlinePasses \/ OrchestratorDies
  /\ UNCHANGED <<workerVars, returned>>

\* The worker does not reject the arguments run_child built: see the property
\* WorkerGetsWhatWasMeant of module CommandLine.
WorkerAlone == W!Internal /\ UNCHANGED <<vars, returned>>

\* Without _exit the child goes on as an orchestrator that has no worker to wait
\* for: waitpid fails, and main returns 2.
MutantExecFails ==
  wpc = "main" /\ W!Vanish /\ WorkerExits(2) /\ UNCHANGED returned

ExecFails ==
  wpc = "main" /\ W!Vanish /\ WorkerExits(ExecFailed) /\ UNCHANGED returned

WorkerReturns ==
  /\ W!Return
  /\ WorkerExits(W!ExitCodeOf(exc))
  /\ returned' = returned \cup {me}

PluginExits(c) == W!PluginExits(c) /\ WorkerExits(c) /\ UNCHANGED returned

WorkerKilled ==
  /\ TermKills \/ KillKills \/ \E s \in CrashSignals : WorkerCrashes(s)
  /\ W!Vanish
  /\ UNCHANGED returned

GymInit == Init /\ W!WorkerInit /\ returned = {}

GymNext ==
  \/ Launch \/ OrchestratorAlone
  \/ WorkerAlone
  \/ ExecFails \/ WorkerReturns \/ WorkerKilled
  \/ \E c \in RogueExits : PluginExits(c)
  \/ Terminated /\ UNCHANGED <<workerVars, returned>>

GymSpec == GymInit /\ [][GymNext]_gymVars
-----------------------------------------------------------------------------
(* Properties.                                                             *)

\* The wait status and the process agree: the worker has code to run exactly
\* while the kernel says it is running, and it is the worker of the result that
\* will be pushed back next.
GymTypeOK ==
  /\ W!WorkerTypeOK
  /\ child = "running" <=> wpc \notin {"idle", "gone"}
  /\ pc \in InRunChild => me = Len(results) + 1 /\ path = TracePath(Current)

\* A worker of this run still to come, or running, that writes the same file.
WrittenAgain(k) ==
  \/ \E j \in k + 1..Len(results) : results[j].trace = results[k].trace
  \/ me > k /\ path = results[k].trace

\* Every benchmark reported as passed has its own trace, whole, in the file that
\* the log names, until a later worker of this run is given the same file; or the
\* plugin ended the worker with exit(0), which the orchestrator cannot tell.
PassedHasTrace ==
  \A k \in 1..Len(results) :
    results[k].status = "passed" /\ k \in returned /\ ~WrittenAgain(k)
      => /\ files[results[k].trace].what = "whole"
         /\ files[results[k].trace].by = k

\* What run_worker told by its exit code, if it was not too late.
Told(verdict) ==
  CASE verdict = "passed" -> exc = "none" /\ session = "stopped"
    [] verdict = "unsupported" -> exc = "unsupported"
    [] verdict = "failed" -> exc \in {"std", "other"}
    [] OTHER -> verdict = "timed_out"

\* A verdict of the worker's is the one that run_worker came to: "passed" only
\* after validation and stop(), "unsupported" only for a benchmark that said so.
\* Of a worker that did not return, the verdict is the plugin's exit code, or
\* "failed" because there was no program to execute.
VerdictsFollowTheWorker ==
  [][Len(results') > Len(results) /\ pc \in InRunChild =>
       LET verdict == results'[Len(results')].status IN
         IF me \in returned THEN Told(verdict)
         ELSE \/ verdict \in {"crashed", "timed_out"}
              \/ end.code \in RogueExits
              \/ verdict = "failed" /\ end.code = ExecFailed]_gymVars

\* No whole trace of this run is damaged, by its own worker or by another,
\* except by a later worker that was given the same file.
TracesKept ==
  [][\A p \in Paths :
       files[p].what = "whole" /\ files'[p] # files[p] => me' > files[p].by]_gymVars

\* The workers of module Worker end only in ways the orchestrator's
\* specification allows for.
OrchestratorSpec == Spec

=============================================================================
