------------------------------ MODULE SuiteRun ------------------------------
(***************************************************************************)
(* What `sparse-solver-gym run` promises to its caller, with the workers,  *)
(* signals and timeouts left out: the selected benchmarks receive exactly  *)
(* one verdict each, in order, and the process exit code tells whether     *)
(* every supported benchmark passed.  A run may also be aborted (an        *)
(* exception that reaches main, or a signal); then it claims nothing.      *)
(*                                                                         *)
(* Orchestrator implements this specification.                             *)
(***************************************************************************)
EXTENDS Naturals, Sequences

CONSTANT Selections   \* the sequences that select_benchmarks can return

VARIABLES
  plan,      \* the selected benchmarks, empty until they are selected
  verdicts,  \* one status per benchmark judged so far
  outcome    \* "running", or how the process ended

suiteVars == <<plan, verdicts, outcome>>

\* enum class child_status
Status == {"passed", "unsupported", "failed", "crashed", "timed_out"}

\* The statuses that leave all_supported_benchmarks_passed true.
Harmless == {"passed", "unsupported"}

Init ==
  /\ plan = <<>>
  /\ verdicts = <<>>
  /\ outcome = "running"

\* Selecting nothing is a success without verdicts.
Begin(s) ==
  /\ outcome = "running"
  /\ plan = <<>>
  /\ plan' = s
  /\ outcome' \in IF s = <<>> THEN {"success"} ELSE {"running", "error"}
  /\ UNCHANGED verdicts

Judge(v) ==
  /\ outcome = "running"
  /\ Len(verdicts) < Len(plan)
  /\ verdicts' = Append(verdicts, v)
  /\ UNCHANGED <<plan, outcome>>

Finish ==
  /\ outcome = "running"
  /\ plan # <<>>
  /\ Len(verdicts) = Len(plan)
  /\ outcome' = IF \A k \in 1..Len(verdicts) : verdicts[k] \in Harmless
                  THEN "success" ELSE "failure"
  /\ UNCHANGED <<plan, verdicts>>

Abort ==
  /\ outcome = "running"
  /\ outcome' \in {"error", "signaled"}
  /\ UNCHANGED <<plan, verdicts>>

Next ==
  \/ \E s \in Selections : Begin(s)
  \/ \E v \in Status : Judge(v)
  \/ Finish
  \/ Abort

Spec == Init /\ [][Next]_suiteVars

=============================================================================
