---------------------------- MODULE Orchestrator ----------------------------
(***************************************************************************)
(* run_orchestrator and run_child: one parent process that forks a worker  *)
(* per selected benchmark, polls it, signals it when its deadline passes,  *)
(* reaps it and turns its wait status into a verdict.                      *)
(*                                                                         *)
(* Three parties interleave here: the orchestrator (program counter pc),   *)
(* the current worker as the kernel sees it (child, end), and the clock    *)
(* (expired).  What a worker does before it ends is left open; module      *)
(* Worker says it.                                                         *)
(***************************************************************************)
EXTENDS Naturals, Sequences

CONSTANTS
  Benchmarks,    \* the registered benchmarks
  Selections,    \* the sequences that select_benchmarks can return
  Checked,       \* the benchmarks with a non-empty support_requirements list
  Paths,         \* trace files
  NoPath,        \* the default-constructed path of a child_result
  TraceOut,      \* the file named by --trace-out
  SafePath,      \* [Benchmarks -> Paths]: output_dir / shell_safe_name(name)
  ExitCodes,     \* the exit codes a worker process may end with
  CrashSignals   \* the signals a worker may die from that nobody here sent

SIGKILL == 9
SIGTERM == 15

\* worker_unsupported_exit_code
UnsupportedExit == 10

ASSUME OrchestratorAssumption ==
  /\ Selections \subseteq Seq(Benchmarks)
  /\ Checked \subseteq Benchmarks
  /\ TraceOut \in Paths /\ NoPath \notin Paths
  /\ SafePath \in [Benchmarks -> Paths]
  /\ ExitCodes \subseteq Nat
  /\ CrashSignals \subseteq Nat

VARIABLES
  options,         \* cli_options: which of the options were given; rigid
  sigchldIgnored,  \* SIGCHLD is inherited as SIG_IGN, the kernel reaps; rigid
  pc,              \* where the orchestrator is
  selected,        \* the selected benchmarks
  results,         \* std::vector<child_result>
  exit,            \* "running", or how the orchestrator process ended
  child,           \* the current worker: "none", "running", "zombie", "reaped"
  end,             \* the wait status of the current worker
  sent,            \* the signals sent to the current worker's pid
  expired,         \* steady_clock::now() >= deadline
  fates            \* history: what really happened behind each result

configVars == <<options, sigchldIgnored>>
childVars == <<child, end, sent, expired>>
vars == <<options, sigchldIgnored, pc, selected, results, exit,
          child, end, sent, expired, fates>>

Options == [solver : BOOLEAN, outputDir : BOOLEAN, traceOut : BOOLEAN,
            timeout : BOOLEAN]

Status == {"passed", "unsupported", "failed", "crashed", "timed_out"}

Results == [benchmark : Benchmarks, status : Status, trace : Paths \cup {NoPath}]

StillAlive == [how |-> "alive", code |-> 0]
Ends == [how : {"alive", "exited", "signaled"}, code : Nat]

Fates == [launched : BOOLEAN, end : Ends, sent : SUBSET {SIGTERM, SIGKILL},
          expired : BOOLEAN]

NeverLaunched ==
  [launched |-> FALSE, end |-> StillAlive, sent |-> {}, expired |-> FALSE]

\* The locations inside run_child.
InRunChild == {"poll", "deadline", "grace", "kill", "killwait"}
-----------------------------------------------------------------------------
(* Options and paths.                                                      *)

\* --output-dir wins over --trace-out.
SingleTracePath == ~options.outputDir /\ options.traceOut

TracePath(b) == IF SingleTracePath THEN TraceOut ELSE SafePath[b]

\* Any number of workers may be given the one file.
MutantAcceptable(s) == TRUE

\* --trace-out needs a single selected benchmark.
Acceptable(s) == SingleTracePath => Len(s) = 1

Current == selected[Len(results) + 1]

MoreToRun == Len(results) < Len(selected)
-----------------------------------------------------------------------------
(* Verdicts.                                                               *)

\* The status of a child_result without its default, and no branch sets it.
MutantUnsetVerdict(e) == IF e.how = "exited" /\ e.code = 0 THEN "passed" ELSE "unset"

\* WEXITSTATUS read without WIFEXITED: it is 0 for a worker that a signal ended.
MutantVerdictOf(e) ==
  CASE e.how = "signaled" \/ e.code = 0 -> "passed"
    [] e.code = UnsupportedExit -> "unsupported"
    [] OTHER -> "failed"

\* WIFEXITED and WIFSIGNALED on the reaped wait status.
VerdictOf(e) ==
  IF e.how = "exited"
    THEN CASE e.code = 0 -> "passed"
           [] e.code = UnsupportedExit -> "unsupported"
           [] OTHER -> "failed"
    ELSE "crashed"

\* results.push_back of the result run_child returned, next loop iteration.
Record(status) ==
  /\ results' = Append(results,
       [benchmark |-> Current, status |-> status, trace |-> TracePath(Current)])
  /\ fates' = Append(fates,
       [launched |-> TRUE, end |-> end, sent |-> sent, expired |-> expired])
  /\ pc' = "loop"

\* An exception that main catches: usage on stdout, exit code 2.
Throw == exit' = "error" /\ pc' = "done"
-----------------------------------------------------------------------------
(* Before the loop.                                                        *)

\* "run requires --solver", or select_benchmarks meets an unknown name.
RejectOptions ==
  /\ pc = "start"
  /\ Throw
  /\ UNCHANGED <<configVars, selected, results, childVars, fates>>

\* select_benchmarks and the choice of output directory.
Select(s) ==
  /\ pc = "start"
  /\ options.solver
  /\ selected' = s
  /\ IF s = <<>> THEN exit' = "success" /\ pc' = "done"
     ELSE IF ~Acceptable(s) THEN Throw
     ELSE pc' = "setup" /\ UNCHANGED exit
  /\ UNCHANGED <<configVars, results, childVars, fates>>

\* create_directories, then load_context_from_shared_object.
SetUp ==
  /\ pc = "setup"
  /\ \/ pc' = "loop" /\ UNCHANGED exit
     \/ Throw
  /\ UNCHANGED <<configVars, selected, results, childVars, fates>>
-----------------------------------------------------------------------------
(* One loop iteration up to the fork.                                      *)

\* benchmark_supported asks the plugin about each requirement until one is
\* refused; without requirements it is true.
MayBeUnsupported(b) == b \in Checked

\* check_support says no: a verdict without a worker.
ReportUnsupported ==
  /\ pc = "loop" /\ MoreToRun
  /\ MayBeUnsupported(Current)
  /\ results' = Append(results,
       [benchmark |-> Current, status |-> "unsupported", trace |-> NoPath])
  /\ fates' = Append(fates, NeverLaunched)
  /\ UNCHANGED <<configVars, pc, selected, exit, childVars>>

\* check_support says yes, or there is nothing to ask; fork succeeds.
Fork ==
  /\ pc = "loop" /\ MoreToRun
  /\ child' = "running"
  /\ end' = StillAlive
  /\ sent' = {}
  /\ expired' = FALSE
  /\ pc' = "poll"
  /\ UNCHANGED <<configVars, selected, results, exit, fates>>

\* check_support throws, or fork fails.
IterationThrows ==
  /\ pc = "loop" /\ MoreToRun
  /\ Throw
  /\ UNCHANGED <<configVars, selected, results, childVars, fates>>
-----------------------------------------------------------------------------
(* run_child, parent side.  waitpid blocks when there is no timeout, and   *)
(* is WNOHANG otherwise; sleeping is the time between two actions.         *)

\* waitpid returned the pid.
PollReaps ==
  /\ pc = "poll"
  /\ child = "zombie"
  /\ child' = "reaped"
  /\ Record(VerdictOf(end))
  /\ UNCHANGED <<configVars, selected, exit, end, sent, expired>>

\* waitpid returned 0, which only WNOHANG can.
PollFindsRunning ==
  /\ pc = "poll"
  /\ child = "running"
  /\ options.timeout
  /\ pc' = "deadline"
  /\ UNCHANGED <<configVars, selected, results, exit, childVars, fates>>

\* waitpid returned -1: ECHILD, the kernel has already reaped the worker.
PollThrows ==
  /\ pc = "poll"
  /\ child = "reaped"
  /\ Throw
  /\ UNCHANGED <<configVars, selected, results, childVars, fates>>

DeadlineAhead ==
  /\ pc = "deadline"
  /\ ~expired
  /\ pc' = "poll"
  /\ UNCHANGED <<configVars, selected, results, exit, childVars, fates>>

SendTerm ==
  /\ pc = "deadline"
  /\ expired
  /\ sent' = sent \cup {SIGTERM}
  /\ pc' = "grace"
  /\ UNCHANGED <<configVars, selected, results, exit, child, end, expired, fates>>

\* After the grace sleep waitpid(WNOHANG) is not 0: gone, whatever its status.
GraceReaps ==
  /\ pc = "grace"
  /\ child # "running"
  /\ child' = "reaped"
  /\ Record("timed_out")
  /\ UNCHANGED <<configVars, selected, exit, end, sent, expired>>

\* What the second waitpid says is not looked at.
MutantGraceOver ==
  /\ pc = "grace"
  /\ child' = IF child = "zombie" THEN "reaped" ELSE child
  /\ pc' = "kill"
  /\ UNCHANGED <<configVars, selected, results, exit, end, sent, expired, fates>>

GraceOver ==
  /\ pc = "grace"
  /\ child = "running"
  /\ pc' = "kill"
  /\ UNCHANGED <<configVars, selected, results, exit, childVars, fates>>

\* The second signal is SIGTERM again.
MutantSendKill ==
  /\ pc = "kill"
  /\ sent' = sent \cup {SIGTERM}
  /\ pc' = "killwait"
  /\ UNCHANGED <<configVars, selected, results, exit, child, end, expired, fates>>

SendKill ==
  /\ pc = "kill"
  /\ sent' = sent \cup {SIGKILL}
  /\ pc' = "killwait"
  /\ UNCHANGED <<configVars, selected, results, exit, child, end, expired, fates>>

\* No waitpid after SIGKILL.
MutantKillReaps ==
  /\ pc = "killwait"
  /\ UNCHANGED child
  /\ Record("timed_out")
  /\ UNCHANGED <<configVars, selected, exit, end, sent, expired>>

\* The blocking waitpid after SIGKILL; its result is ignored.
KillReaps ==
  /\ pc = "killwait"
  /\ child # "running"
  /\ child' = "reaped"
  /\ Record("timed_out")
  /\ UNCHANGED <<configVars, selected, exit, end, sent, expired>>
-----------------------------------------------------------------------------
(* After the loop.                                                         *)

\* Only failed workers make the run fail.
MutantSummarise ==
  /\ pc = "loop"
  /\ ~MoreToRun
  /\ exit' = IF \A k \in 1..Len(results) : results[k].status # "failed"
               THEN "success" ELSE "failure"
  /\ pc' = "done"
  /\ UNCHANGED <<configVars, selected, results, childVars, fates>>

Summarise ==
  /\ pc = "loop"
  /\ ~MoreToRun
  /\ exit' = IF \A k \in 1..Len(results) :
                  results[k].status \in {"passed", "unsupported"}
               THEN "success" ELSE "failure"
  /\ pc' = "done"
  /\ UNCHANGED <<configVars, selected, results, childVars, fates>>
-----------------------------------------------------------------------------
(* The worker, the clock and the rest of the world.                        *)

\* The kernel keeps a zombie unless SIGCHLD is ignored.
Die(e) ==
  /\ child = "running"
  /\ child' = IF sigchldIgnored THEN "reaped" ELSE "zombie"
  /\ end' = e
  /\ UNCHANGED <<configVars, pc, selected, results, exit, sent, expired, fates>>

\* return from main, _exit(127) after a failed execv, or exit in the plugin.
WorkerExits(c) == Die([how |-> "exited", code |-> c])

\* A crash, or a signal from somewhere else.
WorkerCrashes(s) == Die([how |-> "signaled", code |-> s])

\* A worker may block or handle SIGTERM, never SIGKILL.
TermKills == SIGTERM \in sent /\ Die([how |-> "signaled", code |-> SIGTERM])

KillKills == SIGKILL \in sent /\ Die([how |-> "signaled", code |-> SIGKILL])

DeadlinePasses ==
  /\ pc \in {"poll", "deadline"}
  /\ options.timeout
  /\ ~expired
  /\ expired' = TRUE
  /\ UNCHANGED <<configVars, pc, selected, results, exit, child, end, sent, fates>>

\* The plugin crashes inside check_support, or a signal ends the orchestrator;
\* the current worker, if any, goes on without a parent.
OrchestratorDies ==
  /\ pc # "done"
  /\ exit' = "signaled"
  /\ pc' = "done"
  /\ UNCHANGED <<configVars, selected, results, childVars, fates>>

\* The process is gone and so is its last worker.
Terminated == pc = "done" /\ child # "running" /\ UNCHANGED vars
-----------------------------------------------------------------------------
Init ==
  /\ options \in Options
  /\ sigchldIgnored \in BOOLEAN
  /\ pc = "start"
  /\ selected = <<>>
  /\ results = <<>>
  /\ exit = "running"
  /\ child = "none"
  /\ end = StillAlive
  /\ sent = {}
  /\ expired = FALSE
  /\ fates = <<>>

Startup == RejectOptions \/ (\E s \in Selections : Select(s)) \/ SetUp

RunChild ==
  \/ PollReaps \/ PollFindsRunning \/ PollThrows
  \/ DeadlineAhead \/ SendTerm
  \/ GraceReaps \/ GraceOver \/ SendKill \/ KillReaps

Loop == ReportUnsupported \/ Fork \/ IterationThrows \/ RunChild \/ Summarise

WorkerEnds ==
  \/ \E c \in ExitCodes : WorkerExits(c)
  \/ \E s \in CrashSignals : WorkerCrashes(s)
  \/ TermKills \/ KillKills

Next ==
  Startup \/ Loop \/ WorkerEnds \/ DeadlinePasses \/ OrchestratorDies \/ Terminated

Spec == Init /\ [][Next]_vars

\* Where plugin code runs in the orchestrator's own process: while it is loaded,
\* and in check_support.
InPlugin == pc = "setup" \/ (pc = "loop" /\ MoreToRun /\ MayBeUnsupported(Current))

OwnStep == ~InPlugin /\ (Startup \/ Loop)

\* The orchestrator is scheduled, the clock moves and SIGKILL is delivered.
\* Nothing obliges a worker to end, or plugin code to return.
Fairness == WF_vars(OwnStep) /\ WF_vars(DeadlinePasses) /\ WF_vars(KillKills)

FairSpec == Spec /\ Fairness
-----------------------------------------------------------------------------
(* Properties.                                                             *)

TypeOK ==
  /\ options \in Options
  /\ sigchldIgnored \in BOOLEAN
  /\ pc \in {"start", "setup", "loop", "done"} \cup InRunChild
  /\ selected \in Seq(Benchmarks)
  /\ results \in Seq(Results)
  /\ exit \in {"running", "success", "failure", "error", "signaled"}
  /\ child \in {"none", "running", "zombie", "reaped"}
  /\ end \in Ends
  /\ sent \in SUBSET {SIGTERM, SIGKILL}
  /\ expired \in BOOLEAN
  /\ fates \in Seq(Fates)

\* Every verdict tells what became of its worker, and is given only after the
\* worker is gone.  "passed" and "failed" need an exit, "crashed" a signal this
\* program did not send, "timed_out" a deadline that passed and a SIGTERM; only
\* a benchmark that asks check_support is judged without a worker.
Honest(r, f) ==
  /\ f.launched => f.end.how # "alive"
  /\ ~f.launched => r.status = "unsupported" /\ r.benchmark \in Checked
  /\ r.status = "timed_out" <=> SIGTERM \in f.sent
  /\ SIGTERM \in f.sent => f.expired /\ options.timeout
  /\ r.status \in {"passed", "failed"} => f.end.how = "exited"
  /\ r.status = "crashed" => f.end.how = "signaled"
  /\ r.status = "passed" => f.end.code = 0
  /\ r.status = "unsupported" /\ f.launched => f.end.code = UnsupportedExit

VerdictsHonest ==
  /\ Len(fates) = Len(results)
  /\ \A k \in 1..Len(results) :
       Honest(results[k], fates[k]) /\ results[k].benchmark = selected[k]

\* Between two benchmarks, and when the run ends by itself, on every path out of
\* run_child, no earlier worker is still running or left unreaped: two workers
\* never overlap, so they never write a trace file at the same time.
NoWorkerLeft ==
  pc \in {"loop", "done"} /\ exit # "signaled" => child \notin {"running", "zombie"}

\* A signal is sent only while the worker's pid is certainly still the worker's
\* (running or unreaped), however the worker's end interleaves with the polling
\* and the grace period, unless the kernel reaps by itself.
SignalsHitTheWorker ==
  [][~sigchldIgnored /\ ~ (sent' \subseteq sent) => child \in {"running", "zombie"}]_vars

\* Two workers of one run are given the same trace file only if the same
\* benchmark was selected twice or two names have the same safe form.
TracesNotShared ==
  \A j, k \in 1..Len(results) :
    results[j].trace = results[k].trace /\ results[j].trace # NoPath
      => \/ j = k
         \/ SafePath[results[j].benchmark] = SafePath[results[k].benchmark]

\* run_child waits no longer than it has to: with a timeout it returns even for a
\* worker that hangs or ignores SIGTERM, and without one as soon as the worker
\* is gone, whatever moment of the polling it chose for that.
WorkerJudged ==
  (pc \in InRunChild /\ (options.timeout \/ child # "running")) ~> pc \in {"loop", "done"}

\* With a timeout the whole run comes to its end, unless it hangs for ever in
\* the plugin code that runs in the orchestrator itself.
RunEnds == options.timeout => <>(pc = "done") \/ <>[]InPlugin

\* "The orchestrator records failed, crashed, and timed-out workers and continues
\* running the remaining benchmarks": run_child ends with a new result.
WorkersRecorded ==
  [][exit' # "signaled" /\ pc \in InRunChild /\ pc' \notin InRunChild
       => Len(results') = Len(results) + 1]_vars

\* "--trace-out can only be used with a single selected benchmark".
TraceOutNeedsOneBenchmark ==
  options.traceOut /\ Len(selected) > 1 => pc = "done"
-----------------------------------------------------------------------------
(* The promise of the run as a whole.                                      *)

Suite == INSTANCE SuiteRun WITH
  plan <- selected,
  verdicts <- [k \in 1..Len(results) |-> results[k].status],
  outcome <- exit

SuiteSpec == Suite!Spec

=============================================================================
