------------------------- MODULE OrchestratorProofs -------------------------
(***************************************************************************)
(* Proofs about module Orchestrator, for every set of benchmarks, every    *)
(* selection and every behaviour of the workers.                           *)
(*                                                                         *)
(* The safety properties are not inductive: what a verdict may say depends *)
(* on where in run_child the orchestrator stands.  IInv adds, for every    *)
(* location, what is known there of the worker, its wait status, the       *)
(* signals sent and the deadline.                                          *)
(***************************************************************************)
EXTENDS Orchestrator, SequenceTheorems, TLAPS

\* The run as a whole: results never outnumber the selected benchmarks, each
\* comes with its history, and the process has an outcome only when it ended.
Progress ==
  /\ Len(fates) = Len(results)
  /\ Len(results) <= Len(selected)
  /\ exit = "running" <=> pc # "done"
  /\ pc = "start" => selected = <<>>
  /\ pc \in {"start", "setup"} => results = <<>>
  /\ pc \notin {"start", "done"} => selected # <<>>
  /\ pc \in InRunChild => MoreToRun

\* No worker outside run_child; inside, one that only the kernel itself can
\* have reaped; and a wait status exactly for a worker that ended.
WorkerKnown ==
  /\ pc \in {"start", "setup", "loop"} => child \in {"none", "reaped"}
  /\ pc \in InRunChild =>
       /\ child # "none"
       /\ ~sigchldIgnored => child # "reaped"
       /\ child # "running" => end.how # "alive"
  /\ pc = "done" /\ exit # "signaled" => child \in {"none", "reaped"}

\* No signal before the deadline; SIGTERM, and only with a timeout, after it.
SignalsKnown ==
  /\ pc \in {"poll", "deadline"} => sent = {}
  /\ pc \in {"grace", "kill", "killwait"} => SIGTERM \in sent /\ expired
  /\ pc \in InRunChild /\ expired => options.timeout

\* A single trace file means a single benchmark, and every result carries the
\* path that this run gives its benchmark.
TracesKnown ==
  /\ pc \notin {"start", "done"} \/ results # <<>> => Acceptable(selected)
  /\ \A k \in 1..Len(results) :
       results[k].trace \in {NoPath, TracePath(results[k].benchmark)}

IInv ==
  /\ TypeOK /\ Progress /\ WorkerKnown /\ SignalsKnown /\ TracesKnown
  /\ VerdictsHonest
-----------------------------------------------------------------------------
(* One more result.                                                        *)

\* The current benchmark is one of the registered ones.
LEMMA CurrentIsBenchmark ==
  ASSUME TypeOK, MoreToRun
  PROVE  Current \in Benchmarks /\ Len(results) + 1 \in 1..Len(selected)
BY DEF TypeOK, MoreToRun, Current

\* The trace of a benchmark is a file of this run.
LEMMA TracePathIsPath ==
  ASSUME NEW b \in Benchmarks
  PROVE  TracePath(b) \in Paths
BY OrchestratorAssumption DEF OrchestratorAssumption, TracePath

\* push_back of an honest result for the current benchmark keeps everything that
\* is said about the results.
LEMMA PushBack ==
  ASSUME IInv, MoreToRun, Acceptable(selected),
         NEW r \in Results, NEW f \in Fates, Honest(r, f),
         r.benchmark = Current, r.trace \in {NoPath, TracePath(Current)},
         results' = Append(results, r), fates' = Append(fates, f),
         UNCHANGED <<options, selected>>
  PROVE  /\ results' \in Seq(Results) /\ fates' \in Seq(Fates)
         /\ Len(results') = Len(results) + 1
         /\ Len(fates') = Len(results')
         /\ Len(results') <= Len(selected)
         /\ VerdictsHonest'
         /\ TracesKnown'
<1>1. /\ results \in Seq(Results) /\ fates \in Seq(Fates)
      /\ selected \in Seq(Benchmarks)
      /\ Len(fates) = Len(results)
  BY DEF IInv, TypeOK, Progress
<1>2. /\ results' \in Seq(Results) /\ fates' \in Seq(Fates)
      /\ Len(results') = Len(results) + 1 /\ Len(fates') = Len(results) + 1
      /\ Len(results) \in Nat
  BY <1>1
<1>3. Len(results') <= Len(selected)
  BY <1>1, <1>2 DEF MoreToRun
<1>4. ASSUME NEW k \in 1..Len(results')
      PROVE  \/ k = Len(results) + 1 /\ results'[k] = r /\ fates'[k] = f
             \/ /\ k \in 1..Len(results)
                /\ results'[k] = results[k] /\ fates'[k] = fates[k]
  BY <1>1, <1>2
<1>5. ASSUME NEW x \in Results, NEW h
      PROVE  Honest(x, h)' <=> Honest(x, h)
  BY DEF Honest
<1>6. VerdictsHonest'
  <2>1. ASSUME NEW k \in 1..Len(results')
        PROVE  /\ Honest(results'[k], fates'[k])
               /\ results'[k].benchmark = selected[k]
    <3>1. CASE k = Len(results) + 1 /\ results'[k] = r /\ fates'[k] = f
      BY <3>1 DEF Current
    <3>2. CASE /\ k \in 1..Len(results)
               /\ results'[k] = results[k] /\ fates'[k] = fates[k]
      BY <3>2 DEF IInv, VerdictsHonest
    <3> QED BY <1>4, <3>1, <3>2
  <2> QED BY <1>2, <2>1 DEF VerdictsHonest, Honest
<1>7. TracesKnown'
  <2>1. ASSUME NEW k \in 1..Len(results')
        PROVE  results'[k].trace \in {NoPath, TracePath(results'[k].benchmark)}
    BY <1>4 DEF IInv, TracesKnown
  <2>2. \A b : TracePath(b)' = TracePath(b)
    BY DEF TracePath, SingleTracePath
  <2>3. Acceptable(selected)'
    BY DEF Acceptable, SingleTracePath
  <2> QED BY <2>1, <2>2, <2>3 DEF TracesKnown
<1> QED BY <1>2, <1>3, <1>6, <1>7
-----------------------------------------------------------------------------
(* The inductive invariant.                                                *)

LEMMA InitInvariant == Init => IInv
<1> SUFFICES ASSUME Init PROVE IInv
  OBVIOUS
<1>1. TypeOK
  <2>1. /\ selected \in Seq(Benchmarks) /\ results \in Seq(Results)
        /\ fates \in Seq(Fates)
    BY DEF Init
  <2>2. end \in Ends
    BY DEF Init, StillAlive, Ends
  <2> QED BY <2>1, <2>2 DEF Init, TypeOK
<1>2. Progress /\ WorkerKnown /\ SignalsKnown
  BY DEF Init, Progress, WorkerKnown, SignalsKnown, InRunChild
<1>3. TracesKnown /\ VerdictsHonest
  BY DEF Init, TracesKnown, VerdictsHonest
<1> QED BY <1>1, <1>2, <1>3 DEF IInv

\* A step that adds no result, and keeps the options and a selection once made,
\* keeps what is said about the results.
LEMMA ResultsUntouched ==
  ASSUME IInv, UNCHANGED <<results, fates, options>>,
         selected' = selected \/ results = <<>>,
         pc' \notin {"start", "done"} => Acceptable(selected')
  PROVE  TracesKnown' /\ VerdictsHonest'
<1>1. CASE results = <<>>
  BY <1>1 DEF IInv, Progress, TracesKnown, VerdictsHonest, Acceptable, SingleTracePath
<1>2. CASE selected' = selected /\ results # <<>>
  BY <1>2 DEF IInv, TracesKnown, VerdictsHonest, Acceptable, Honest,
              TracePath, SingleTracePath
<1> QED BY <1>1, <1>2

LEMMA StartupInvariant == IInv /\ Startup => IInv'
<1> SUFFICES ASSUME IInv, Startup PROVE IInv'
  OBVIOUS
<1> USE DEF IInv, configVars, childVars, Throw
<1>1. CASE RejectOptions
  <2>1. TypeOK' /\ Progress' /\ WorkerKnown' /\ SignalsKnown'
    BY <1>1 DEF RejectOptions, TypeOK, Progress, WorkerKnown, SignalsKnown,
                InRunChild, MoreToRun
  <2>2. TracesKnown' /\ VerdictsHonest'
    BY <1>1, ResultsUntouched DEF RejectOptions
  <2> QED BY <2>1, <2>2
<1>2. ASSUME NEW s \in Selections, Select(s)
      PROVE  IInv'
  <2>1. s \in Seq(Benchmarks)
    BY OrchestratorAssumption DEF OrchestratorAssumption
  <2>2. TypeOK'
    BY <1>2, <2>1 DEF Select, TypeOK
  <2>3. Progress'
    BY <1>2, <2>1 DEF Select, TypeOK, Progress, InRunChild
  <2>4. WorkerKnown' /\ SignalsKnown'
    BY <1>2 DEF Select, WorkerKnown, SignalsKnown, InRunChild
  <2>5. TracesKnown' /\ VerdictsHonest'
    <3>1. results = <<>>
      BY <1>2 DEF Select, Progress
    <3>2. pc' \notin {"start", "done"} => Acceptable(selected')
      BY <1>2 DEF Select
    <3> QED BY <1>2, <3>1, <3>2, ResultsUntouched DEF Select
  <2> QED BY <2>2, <2>3, <2>4, <2>5
<1>3. CASE SetUp
  <2>1. TypeOK' /\ Progress' /\ WorkerKnown' /\ SignalsKnown'
    BY <1>3 DEF SetUp, TypeOK, Progress, WorkerKnown, SignalsKnown, InRunChild,
                MoreToRun
  <2>2. TracesKnown' /\ VerdictsHonest'
    BY <1>3, ResultsUntouched DEF SetUp, TracesKnown
  <2> QED BY <2>1, <2>2
<1> QED BY <1>1, <1>2, <1>3 DEF Startup

\* The steps of run_child.  Where a result is pushed back the facts of the
\* location say that it is honest.
LEMMA RecordInvariant ==
  ASSUME IInv, pc \in InRunChild, NEW status \in Status, Record(status),
         child' = "reaped", UNCHANGED <<configVars, selected, exit, end, sent, expired>>,
         Honest([benchmark |-> Current, status |-> status,
                 trace |-> TracePath(Current)],
                [launched |-> TRUE, end |-> end, sent |-> sent,
                 expired |-> expired])
  PROVE  IInv'
<1> DEFINE r == [benchmark |-> Current, status |-> status,
                 trace |-> TracePath(Current)]
           f == [launched |-> TRUE, end |-> end, sent |-> sent,
                 expired |-> expired]
<1>1. MoreToRun /\ Acceptable(selected)
  BY DEF IInv, Progress, TracesKnown, InRunChild
<1>2. r \in Results
  BY <1>1, CurrentIsBenchmark, TracePathIsPath DEF IInv, Results
<1>3. f \in Fates
  BY DEF IInv, TypeOK, Fates
<1>4. results' = Append(results, r) /\ fates' = Append(fates, f) /\ pc' = "loop"
  BY DEF Record
<1>5. /\ results' \in Seq(Results) /\ fates' \in Seq(Fates)
      /\ Len(results') = Len(results) + 1
      /\ Len(fates') = Len(results')
      /\ Len(results') <= Len(selected)
      /\ VerdictsHonest' /\ TracesKnown'
  <2> HIDE DEF f
  <2>1. Honest(r, f)
    BY DEF f
  <2> HIDE DEF r
  <2>2. r.benchmark = Current /\ r.trace \in {NoPath, TracePath(Current)}
    BY DEF r
  <2> QED BY <1>1, <1>2, <1>3, <1>4, <2>1, <2>2, PushBack DEF configVars
<1>6. TypeOK'
  BY <1>4, <1>5 DEF IInv, TypeOK, configVars
<1>7. Progress'
  BY <1>4, <1>5 DEF IInv, Progress, InRunChild
<1>8. WorkerKnown' /\ SignalsKnown'
  BY <1>4 DEF IInv, WorkerKnown, SignalsKnown, InRunChild
<1> QED BY <1>5, <1>6, <1>7, <1>8 DEF IInv

LEMMA RunChildInvariant == IInv /\ RunChild => IInv'
<1> SUFFICES ASSUME IInv, RunChild PROVE IInv'
  OBVIOUS
<1>1. CASE PollReaps
  <2>1. /\ end.how # "alive" /\ sent = {} /\ end.how \in {"exited", "signaled"}
    BY <1>1 DEF PollReaps, IInv, TypeOK, Ends, WorkerKnown, SignalsKnown, InRunChild
  <2>2. VerdictOf(end) \in Status
    BY DEF VerdictOf, Status
  <2>3. Honest([benchmark |-> Current, status |-> VerdictOf(end),
                trace |-> TracePath(Current)],
               [launched |-> TRUE, end |-> end, sent |-> sent,
                expired |-> expired])
    BY <2>1 DEF Honest, VerdictOf
  <2> QED BY <1>1, <2>2, <2>3, RecordInvariant DEF PollReaps, InRunChild
<1>2. CASE GraceReaps \/ KillReaps
  <2>1. end.how # "alive" /\ SIGTERM \in sent /\ expired /\ options.timeout
    BY <1>2 DEF GraceReaps, KillReaps, IInv, WorkerKnown, SignalsKnown, InRunChild
  <2>2. Honest([benchmark |-> Current, status |-> "timed_out",
                trace |-> TracePath(Current)],
               [launched |-> TRUE, end |-> end, sent |-> sent,
                expired |-> expired])
    BY <2>1 DEF Honest
  <2> QED BY <1>2, <2>2, RecordInvariant DEF GraceReaps, KillReaps, InRunChild, Status
<1>3. CASE PollFindsRunning \/ DeadlineAhead \/ GraceOver
  <2> USE <1>3 DEF PollFindsRunning, DeadlineAhead, GraceOver, configVars, childVars,
                   IInv, InRunChild
  <2>1. TypeOK'
    BY DEF TypeOK
  <2>2. Progress' /\ WorkerKnown' /\ SignalsKnown'
    BY DEF Progress, WorkerKnown, SignalsKnown, MoreToRun
  <2>3. TracesKnown' /\ VerdictsHonest'
    BY ResultsUntouched DEF TracesKnown
  <2> QED BY <2>1, <2>2, <2>3
<1>4. CASE SendTerm \/ SendKill
  <2> USE <1>4 DEF SendTerm, SendKill, configVars, IInv, InRunChild
  <2>1. TypeOK'
    BY DEF TypeOK
  <2>2. Progress' /\ WorkerKnown'
    BY DEF Progress, WorkerKnown, MoreToRun
  <2>3. SignalsKnown'
    BY DEF SignalsKnown
  <2>4. TracesKnown' /\ VerdictsHonest'
    BY ResultsUntouched DEF TracesKnown
  <2> QED BY <2>1, <2>2, <2>3, <2>4
<1>5. CASE PollThrows
  <2> USE <1>5 DEF PollThrows, Throw, configVars, childVars, IInv, InRunChild
  <2>1. TypeOK' /\ Progress'
    BY DEF TypeOK, Progress, MoreToRun
  <2>2. WorkerKnown' /\ SignalsKnown'
    BY DEF WorkerKnown, SignalsKnown
  <2>3. TracesKnown' /\ VerdictsHonest'
    BY ResultsUntouched DEF TracesKnown
  <2> QED BY <2>1, <2>2, <2>3
<1> QED BY <1>1, <1>2, <1>3, <1>4, <1>5 DEF RunChild

LEMMA LoopInvariant == IInv /\ Loop => IInv'
<1> SUFFICES ASSUME IInv, Loop PROVE IInv'
  OBVIOUS
<1>1. CASE ReportUnsupported
  <2> DEFINE r == [benchmark |-> Current, status |-> "unsupported", trace |-> NoPath]
  <2>1. /\ MoreToRun /\ pc = "loop" /\ pc' = pc /\ Current \in Checked
        /\ results' = Append(results, r) /\ fates' = Append(fates, NeverLaunched)
        /\ UNCHANGED <<options, sigchldIgnored, selected, exit, child, end, sent,
                       expired>>
    BY <1>1 DEF ReportUnsupported, MayBeUnsupported, configVars, childVars
  <2>2. r \in Results
    BY <2>1, CurrentIsBenchmark DEF IInv, Results, Status
  <2>3. NeverLaunched \in Fates
    BY DEF NeverLaunched, Fates, StillAlive, Ends
  <2>4. Honest(r, NeverLaunched)
    BY <2>1 DEF Honest, NeverLaunched
  <2>5. r.benchmark = Current /\ r.trace \in {NoPath, TracePath(Current)}
    OBVIOUS
  <2>6. Acceptable(selected)
    BY <2>1 DEF IInv, TracesKnown
  <2> HIDE DEF r
  <2>7. /\ results' \in Seq(Results) /\ fates' \in Seq(Fates)
        /\ Len(results') = Len(results) + 1
        /\ Len(fates') = Len(results')
        /\ Len(results') <= Len(selected)
        /\ VerdictsHonest' /\ TracesKnown'
    BY <2>1, <2>2, <2>3, <2>4, <2>5, <2>6, PushBack
  <2>8. TypeOK'
    BY <2>1, <2>7 DEF IInv, TypeOK
  <2>9. Progress' /\ WorkerKnown' /\ SignalsKnown'
    BY <2>1, <2>7 DEF IInv, Progress, WorkerKnown, SignalsKnown, InRunChild
  <2> QED BY <2>7, <2>8, <2>9 DEF IInv
<1>2. CASE Fork
  <2> USE <1>2 DEF Fork, configVars, IInv, InRunChild, StillAlive
  <2>1. TypeOK'
    BY DEF TypeOK, Ends
  <2>2. Progress' /\ WorkerKnown' /\ SignalsKnown'
    BY DEF Progress, WorkerKnown, SignalsKnown, MoreToRun
  <2>3. TracesKnown' /\ VerdictsHonest'
    BY ResultsUntouched DEF TracesKnown
  <2> QED BY <2>1, <2>2, <2>3
<1>3. CASE IterationThrows \/ Summarise
  <2> USE <1>3 DEF IterationThrows, Summarise, Throw, configVars, childVars, IInv,
                   InRunChild
  <2>1. TypeOK' /\ Progress'
    BY DEF TypeOK, Progress, MoreToRun
  <2>2. WorkerKnown' /\ SignalsKnown'
    BY DEF WorkerKnown, SignalsKnown
  <2>3. TracesKnown' /\ VerdictsHonest'
    BY ResultsUntouched DEF TracesKnown
  <2> QED BY <2>1, <2>2, <2>3
<1> QED BY <1>1, <1>2, <1>3, RunChildInvariant DEF Loop

\* The worker, the clock, and the end of the orchestrator.
LEMMA WorldInvariant ==
  IInv /\ (WorkerEnds \/ DeadlinePasses \/ OrchestratorDies) => IInv'
<1> SUFFICES ASSUME IInv, WorkerEnds \/ DeadlinePasses \/ OrchestratorDies
             PROVE  IInv'
  OBVIOUS
<1> USE DEF configVars, childVars, IInv, InRunChild
<1>1. ASSUME NEW e \in Ends, e.how # "alive", Die(e)
      PROVE  IInv'
  <2> USE <1>1 DEF Die
  <2>1. TypeOK'
    BY DEF TypeOK
  <2>2. Progress' /\ WorkerKnown' /\ SignalsKnown'
    BY DEF TypeOK, Progress, WorkerKnown, SignalsKnown, MoreToRun
  <2>3. TracesKnown' /\ VerdictsHonest'
    BY ResultsUntouched DEF TracesKnown
  <2> QED BY <2>1, <2>2, <2>3
<1>2. CASE WorkerEnds
  <2>1. \A n \in Nat : [how |-> "exited", code |-> n] \in Ends
                      /\ [how |-> "signaled", code |-> n] \in Ends
    BY DEF Ends
  <2>2. CASE \E c \in ExitCodes : WorkerExits(c)
    BY <2>1, <2>2, <1>1, OrchestratorAssumption
    DEF WorkerExits, OrchestratorAssumption
  <2>3. CASE \E s \in CrashSignals : WorkerCrashes(s)
    BY <2>1, <2>3, <1>1, OrchestratorAssumption
    DEF WorkerCrashes, OrchestratorAssumption
  <2>4. CASE TermKills \/ KillKills
    BY <2>1, <2>4, <1>1 DEF TermKills, KillKills, SIGTERM, SIGKILL
  <2> QED BY <1>2, <2>2, <2>3, <2>4 DEF WorkerEnds
<1>3. CASE DeadlinePasses
  <2> USE <1>3 DEF DeadlinePasses
  <2>1. TypeOK' /\ Progress'
    BY DEF TypeOK, Progress, MoreToRun
  <2>2. WorkerKnown' /\ SignalsKnown'
    BY DEF WorkerKnown, SignalsKnown
  <2>3. TracesKnown' /\ VerdictsHonest'
    BY ResultsUntouched DEF TracesKnown
  <2> QED BY <2>1, <2>2, <2>3
<1>4. CASE OrchestratorDies
  <2> USE <1>4 DEF OrchestratorDies
  <2>1. TypeOK' /\ Progress'
    BY DEF TypeOK, Progress, MoreToRun
  <2>2. WorkerKnown' /\ SignalsKnown'
    BY DEF WorkerKnown, SignalsKnown
  <2>3. TracesKnown' /\ VerdictsHonest'
    BY ResultsUntouched DEF TracesKnown
  <2> QED BY <2>1, <2>2, <2>3
<1> QED BY <1>2, <1>3, <1>4

LEMMA StutterInvariant == IInv /\ UNCHANGED vars => IInv'
<1> SUFFICES ASSUME IInv, UNCHANGED vars PROVE IInv'
  OBVIOUS
<1> USE DEF vars, IInv
<1>1. TypeOK' /\ Progress' /\ WorkerKnown' /\ SignalsKnown'
  BY DEF TypeOK, Progress, WorkerKnown, SignalsKnown, MoreToRun
<1>2. TracesKnown' /\ VerdictsHonest'
  BY ResultsUntouched DEF TracesKnown
<1> QED BY <1>1, <1>2

LEMMA NextInvariant == IInv /\ [Next]_vars => IInv'
BY StartupInvariant, LoopInvariant, WorldInvariant, StutterInvariant
DEF Next, Terminated

\* The inductive invariant holds in every reachable state.
THEOREM Invariance == Spec => []IInv
BY InitInvariant, NextInvariant, PTL DEF Spec
-----------------------------------------------------------------------------
(* The properties of the orchestrator.                                     *)

\* Every variable keeps its type.
THEOREM TypeCorrect == Spec => []TypeOK
BY Invariance, PTL DEF IInv

\* Every verdict tells what became of its worker, for whatever a worker does
\* and however its end interleaves with the polling and the signals.
THEOREM VerdictsAreHonest == Spec => []VerdictsHonest
BY Invariance, PTL DEF IInv

\* Workers never overlap, and none is left behind by a run that ends by itself.
THEOREM NoWorkerIsLeft == Spec => []NoWorkerLeft
<1>1. IInv => NoWorkerLeft
  BY DEF IInv, WorkerKnown, NoWorkerLeft
<1> QED BY <1>1, Invariance, PTL

\* Two workers of a run share a trace file only for the names' sake.
THEOREM TracesAreNotShared == Spec => []TracesNotShared
<1>1. IInv => TracesNotShared
  <2> SUFFICES ASSUME IInv,
                      NEW j \in 1..Len(results), NEW k \in 1..Len(results),
                      results[j].trace = results[k].trace,
                      results[j].trace # NoPath
               PROVE  \/ j = k
                      \/ SafePath[results[j].benchmark] = SafePath[results[k].benchmark]
    BY DEF TracesNotShared
  <2>1. /\ results[j].trace = TracePath(results[j].benchmark)
        /\ results[k].trace = TracePath(results[k].benchmark)
    BY DEF IInv, TracesKnown
  <2>2. CASE SingleTracePath
    <3>1. results # <<>>
      OBVIOUS
    <3>2. Len(selected) = 1 /\ Len(results) <= Len(selected) /\ Len(results) \in Nat
      BY <2>2, <3>1 DEF IInv, TracesKnown, Acceptable, Progress, TypeOK
    <3> QED BY <3>2
  <2>3. CASE ~SingleTracePath
    BY <2>1, <2>3 DEF TracePath
  <2> QED BY <2>2, <2>3
<1> QED BY <1>1, Invariance, PTL

\* No signal is ever sent to a pid that may have been given to somebody else.
THEOREM SignalsAlwaysHitTheWorker == Spec => SignalsHitTheWorker
<1>1. IInv /\ [Next]_vars
        => [~sigchldIgnored /\ ~ (sent' \subseteq sent)
              => child \in {"running", "zombie"}]_vars
  <2> SUFFICES ASSUME IInv, Next, ~sigchldIgnored, ~ (sent' \subseteq sent)
               PROVE  child \in {"running", "zombie"}
    BY DEF vars
  <2>1. CASE pc \in InRunChild
    BY <2>1 DEF IInv, TypeOK, WorkerKnown
  <2>2. CASE pc \notin InRunChild
    <3>1. sent' = sent \/ sent' = {}
      BY <2>2 DEF Next, Startup, Loop, RunChild, WorkerEnds, RejectOptions, Select,
         SetUp, ReportUnsupported, Fork, IterationThrows, Summarise, PollReaps,
         PollFindsRunning, PollThrows, DeadlineAhead, SendTerm, GraceReaps, GraceOver,
         SendKill, KillReaps, WorkerExits, WorkerCrashes, TermKills, KillKills, Die,
         DeadlinePasses, OrchestratorDies, Terminated, InRunChild, childVars, vars
    <3> QED BY <3>1
  <2> QED BY <2>1, <2>2
<1> QED BY <1>1, Invariance, PTL DEF Spec, SignalsHitTheWorker
-----------------------------------------------------------------------------
(* The orchestrator implements SuiteRun.                                   *)

\* The verdicts of the abstract specification.
Verdicts(rs) == [k \in 1..Len(rs) |-> rs[k].status]

LEMMA VerdictsOfAppend ==
  ASSUME NEW rs \in Seq(Results), NEW r \in Results
  PROVE  Verdicts(Append(rs, r)) = Append(Verdicts(rs), r.status)
<1>1. \A x \in Results : x.status \in Status
  BY DEF Results
<1>2. Len(rs) \in Nat /\ \A k \in 1..Len(rs) : rs[k].status \in Status
  BY <1>1
<1>3. Verdicts(rs) \in [1..Len(rs) -> Status]
  BY <1>2 DEF Verdicts
<1>4. Verdicts(rs) \in Seq(Status) /\ Len(Verdicts(rs)) = Len(rs)
  BY <1>2, <1>3
<1>5. r.status \in Status
  BY <1>1
<1>6. /\ Len(Append(rs, r)) = Len(rs) + 1
      /\ \A k \in 1..Len(rs) : Append(rs, r)[k] = rs[k]
      /\ Append(rs, r)[Len(rs) + 1] = r
  BY AppendProperties
<1>7. /\ Append(Verdicts(rs), r.status) \in Seq(Status)
      /\ Len(Append(Verdicts(rs), r.status)) = Len(rs) + 1
      /\ \A k \in 1..Len(rs) : Append(Verdicts(rs), r.status)[k] = rs[k].status
      /\ Append(Verdicts(rs), r.status)[Len(rs) + 1] = r.status
  <2> DEFINE v == Verdicts(rs)
             x == r.status
  <2>1. \A k \in 1..Len(rs) : v[k] = rs[k].status
    BY DEF Verdicts
  <2>2. v \in Seq(Status) /\ Len(v) = Len(rs) /\ x \in Status
    BY <1>4, <1>5
  <2> HIDE DEF v, x
  <2>3. /\ Append(v, x) \in Seq(Status) /\ Len(Append(v, x)) = Len(v) + 1
        /\ \A k \in 1..Len(v) : Append(v, x)[k] = v[k]
        /\ Append(v, x)[Len(v) + 1] = x
    BY <2>2, AppendProperties
  <2> QED BY <2>1, <2>2, <2>3 DEF v, x
<1>8. DOMAIN Append(Verdicts(rs), r.status) = 1..Len(rs) + 1
  BY <1>7, LenProperties
<1>9. Append(Verdicts(rs), r.status)
        = [k \in 1..Len(rs) + 1 |-> Append(Verdicts(rs), r.status)[k]]
  BY <1>7, <1>8, LenProperties
<1>10. ASSUME NEW k \in 1..Len(rs) + 1
       PROVE  Append(rs, r)[k].status = Append(Verdicts(rs), r.status)[k]
  <2>1. k \in 1..Len(rs) \/ k = Len(rs) + 1
    BY <1>2
  <2> QED BY <2>1, <1>6, <1>7
<1>11. Verdicts(Append(rs, r)) = [k \in 1..Len(rs) + 1 |-> Append(rs, r)[k].status]
  BY <1>6 DEF Verdicts
<1> QED BY <1>9, <1>10, <1>11

LEMMA SuiteInit == Init => Suite!Init
BY DEF Init, Suite!Init

\* What a step that gives a verdict means for SuiteRun.
LEMMA SuiteJudge ==
  ASSUME IInv, pc # "done", MoreToRun, NEW r \in Results,
         results' = Append(results, r), UNCHANGED <<selected, exit>>
  PROVE  Suite!Next
<1>1. exit = "running" /\ results \in Seq(Results) /\ r.status \in Status
  BY DEF IInv, Progress, TypeOK, Results
<1>2. Len(Verdicts(results)) = Len(results)
  BY <1>1 DEF Verdicts
<1>3. Verdicts(results') = Append(Verdicts(results), r.status)
  BY <1>1, VerdictsOfAppend
<1>4. Suite!Judge(r.status)
  BY <1>1, <1>2, <1>3 DEF Suite!Judge, Verdicts, MoreToRun
<1> QED BY <1>1, <1>4 DEF Suite!Next, Suite!Status, Status

LEMMA SuiteStep == IInv /\ [Next]_vars => [Suite!Next]_(Suite!suiteVars)
<1> SUFFICES ASSUME IInv, [Next]_vars
             PROVE  Suite!Next \/ UNCHANGED Suite!suiteVars
  OBVIOUS
<1> USE DEF configVars, childVars, Throw
<1>1. CASE RejectOptions \/ IterationThrows \/ PollThrows \/ OrchestratorDies
  <2>1. exit = "running"
    BY <1>1 DEF RejectOptions, IterationThrows, PollThrows, OrchestratorDies, IInv,
                Progress
  <2>2. Suite!Abort
    BY <1>1, <2>1 DEF RejectOptions, IterationThrows, PollThrows, OrchestratorDies,
                      Suite!Abort
  <2> QED BY <2>2 DEF Suite!Next
<1>2. ASSUME NEW s \in Selections, Select(s)
      PROVE  Suite!Next
  <2>1. exit = "running" /\ selected = <<>>
    BY <1>2 DEF Select, IInv, Progress
  <2>2. Suite!Begin(s)
    BY <1>2, <2>1 DEF Select, Suite!Begin
  <2> QED BY <2>2 DEF Suite!Next
<1>3. CASE SetUp
  <2>1. exit = "running"
    BY <1>3 DEF SetUp, IInv, Progress
  <2>2. Suite!Abort \/ UNCHANGED Suite!suiteVars
    BY <1>3, <2>1 DEF SetUp, Suite!Abort, Suite!suiteVars
  <2> QED BY <2>2 DEF Suite!Next
<1>4. CASE ReportUnsupported
  <2>1. [benchmark |-> Current, status |-> "unsupported", trace |-> NoPath] \in Results
    BY <1>4, CurrentIsBenchmark DEF ReportUnsupported, MayBeUnsupported, IInv, Results, Status
  <2> QED BY <1>4, <2>1, SuiteJudge DEF ReportUnsupported, MayBeUnsupported
<1>5. CASE PollReaps \/ GraceReaps \/ KillReaps
  <2>1. PICK status \in Status : Record(status)
    BY <1>5 DEF PollReaps, GraceReaps, KillReaps, VerdictOf, Status
  <2>2. MoreToRun /\ pc # "done"
    BY <1>5 DEF PollReaps, GraceReaps, KillReaps, IInv, Progress, InRunChild
  <2>3. [benchmark |-> Current, status |-> status, trace |-> TracePath(Current)]
          \in Results
    BY <2>2, CurrentIsBenchmark, TracePathIsPath DEF IInv, Results
  <2> QED BY <1>5, <2>1, <2>2, <2>3, SuiteJudge
          DEF Record, PollReaps, GraceReaps, KillReaps
<1>6. CASE Summarise
  <2>1. /\ exit = "running" /\ selected # <<>> /\ Len(results) = Len(selected)
    BY <1>6 DEF Summarise, MoreToRun, IInv, Progress, TypeOK
  <2>2. Len(Verdicts(results)) = Len(results)
    BY DEF IInv, TypeOK, Verdicts
  <2>3. \A k \in 1..Len(results) : Verdicts(results)[k] = results[k].status
    BY DEF Verdicts
  <2>4. Suite!Finish
    BY <1>6, <2>1, <2>2, <2>3 DEF Summarise, Suite!Finish, Suite!Harmless, Verdicts
  <2> QED BY <2>4 DEF Suite!Next
<1>7. CASE \/ Fork \/ PollFindsRunning \/ DeadlineAhead \/ SendTerm \/ GraceOver
           \/ SendKill \/ WorkerEnds \/ DeadlinePasses \/ UNCHANGED vars
  BY <1>7 DEF Fork, PollFindsRunning, DeadlineAhead, SendTerm, GraceOver, SendKill,
              WorkerEnds, WorkerExits, WorkerCrashes, TermKills, KillKills, Die,
              DeadlinePasses, vars, Suite!suiteVars
<1> QED BY <1>1, <1>2, <1>3, <1>4, <1>5, <1>6, <1>7
        DEF Next, Startup, Loop, RunChild, Terminated

\* Whatever the workers do, the run as a whole gives every selected benchmark
\* one verdict, in order, and its exit code tells whether they all passed.
THEOREM ImplementsSuiteRun == Spec => SuiteSpec
<1>1. Init => Suite!Init
  BY SuiteInit
<1>2. IInv /\ [Next]_vars => [Suite!Next]_(Suite!suiteVars)
  BY SuiteStep
<1> QED BY <1>1, <1>2, Invariance, PTL DEF Spec, SuiteSpec, Suite!Spec
=============================================================================
