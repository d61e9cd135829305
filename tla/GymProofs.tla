------------------------------ MODULE GymProofs ------------------------------
(***************************************************************************)
(* Proofs about the whole program, for all benchmarks, selections, plugins *)
(* and disk faults.                                                        *)
(*                                                                         *)
(* The invariant joins those of the two processes (IInv and WInv) by what  *)
(* the kernel knows of both: which result the running worker is for, and   *)
(* how the wait status tells the way in which it ended.                    *)
(***************************************************************************)
EXTENDS Gym, OrchestratorProofs

WP == INSTANCE WorkerProofs

\* The running worker is the one of the next result.
WorkerLinked ==
  /\ child = "running" <=> wpc \notin {"idle", "gone"}
  /\ child = "running" \/ pc \in InRunChild
       => me = Len(results) + 1 /\ path = TracePath(Current)
  /\ pc \in {"start", "setup", "loop"} => me <= Len(results)
  /\ me # 0 /\ me <= Len(results) => results[me].trace = path

\* The wait status tells the exit code of run_worker, or that it did not return.
StatusLinked ==
  /\ returned \subseteq 1..me
  /\ me \in returned <=> wpc = "gone" /\ code # WP!NoCode
  /\ pc \in InRunChild /\ child # "running" =>
       IF me \in returned THEN end = [how |-> "exited", code |-> code]
       ELSE \/ end.how = "signaled"
            \/ end.how = "exited" /\ end.code \in RogueExits \cup {ExecFailed}

GInv == IInv /\ WP!WInv /\ WorkerLinked /\ StatusLinked
-----------------------------------------------------------------------------
(* The two instances of module Worker are the same.                        *)

LEMMA SameWorker ==
  /\ W!WorkerInit <=> WP!WorkerInit
  /\ W!Internal <=> WP!Internal
  /\ W!Return <=> WP!Return
  /\ W!Vanish <=> WP!Vanish
  /\ W!WorkerTypeOK <=> WP!WorkerTypeOK
  /\ W!WorkerAssumption <=> WP!WorkerAssumption
  /\ \A w, p : W!Exec(w, p) <=> WP!Exec(w, p)
  /\ \A c : W!PluginExits(c) <=> WP!PluginExits(c)
  /\ \A k : W!ExitCodeOf(k) = WP!ExitCodeOf(k)
<1>1. W!WorkerInit <=> WP!WorkerInit
  BY DEF W!WorkerInit, WP!WorkerInit, W!NoFile, WP!NoFile, W!OldFile, WP!OldFile,
         W!NoCode, WP!NoCode
<1>2. W!Internal <=> WP!Internal
  BY DEF W!Internal, WP!Internal, W!StartSession, WP!StartSession, W!LoadSolver,
         WP!LoadSolver, W!Throw, WP!Throw, W!BeginCall, WP!BeginCall, W!EndSlice,
         WP!EndSlice, W!RunReturns, WP!RunReturns, W!DestroySession,
         WP!DestroySession, W!ReadBack, WP!ReadBack, W!OpenOutput, WP!OpenOutput,
         W!WriteOutput, WP!WriteOutput, W!StopThrows, WP!StopThrows, W!CloseOutput,
         WP!CloseOutput, W!Emit, WP!Emit, W!Newest, WP!Newest, W!traceVars,
         WP!traceVars, W!Exceptions, WP!Exceptions, W!CutFile, WP!CutFile,
         W!WholeFile, WP!WholeFile, W!Written, WP!Written, W!Front, WP!Front,
         W!Last, WP!Last
<1>3. (\A k : W!ExitCodeOf(k) = WP!ExitCodeOf(k))
  BY DEF W!ExitCodeOf, WP!ExitCodeOf
<1>4. W!Return <=> WP!Return
  BY DEF W!Return, WP!Return, W!ExitCodeOf, WP!ExitCodeOf, W!traceVars, WP!traceVars
<1>5. (W!Vanish <=> WP!Vanish) /\ \A c : W!PluginExits(c) <=> WP!PluginExits(c)
  BY DEF W!PluginExits, WP!PluginExits, W!Vanish, WP!Vanish, W!traceVars, WP!traceVars
<1>6. \A w, p : W!Exec(w, p) <=> WP!Exec(w, p)
  BY DEF W!Exec, WP!Exec, W!NoCode, WP!NoCode
<1>7. W!WorkerTypeOK <=> WP!WorkerTypeOK
  BY DEF W!WorkerTypeOK, WP!WorkerTypeOK, W!Exceptions, WP!Exceptions, W!Slices,
         WP!Slices, W!Events, WP!Events, W!Contents, WP!Contents, W!NoCode, WP!NoCode
<1>8. W!WorkerAssumption <=> WP!WorkerAssumption
  BY DEF W!WorkerAssumption, WP!WorkerAssumption
<1> QED BY <1>1, <1>2, <1>3, <1>4, <1>5, <1>6, <1>7, <1>8

LEMMA WorkerAssumptionHolds == WP!WorkerAssumption
BY SameWorker, GymAssumption DEF GymAssumption
-----------------------------------------------------------------------------
(* The composition implements the orchestrator.                            *)

\* The worker ends as the orchestrator's specification allows.
LEMMA ExitCodesAllowed ==
  /\ W!ExitCodeOf(exc) \in ExitCodes
  /\ RogueExits \subseteq ExitCodes
  /\ ExecFailed \in ExitCodes
<1>1. \E k \in W!Exceptions : W!ExitCodeOf(exc) = W!ExitCodeOf(k)
  <2>1. CASE exc \in {"none", "unsupported"}
    BY <2>1 DEF W!Exceptions
  <2>2. CASE exc \notin {"none", "unsupported"}
    BY <2>2 DEF W!Exceptions, W!ExitCodeOf
  <2> QED BY <2>1, <2>2
<1> QED BY <1>1, GymAssumption DEF GymAssumption

LEMMA OrchestratorStep == [GymNext]_gymVars => [Next]_vars
<1> SUFFICES ASSUME [GymNext]_gymVars PROVE [Next]_vars
  OBVIOUS
<1>1. CASE Launch
  BY <1>1 DEF Launch, Next, Loop
<1>2. CASE OrchestratorAlone
  BY <1>2 DEF OrchestratorAlone, Next, Loop
<1>3. CASE WorkerAlone
  BY <1>3 DEF WorkerAlone
<1>4. CASE ExecFails \/ WorkerReturns \/ \E c \in RogueExits : PluginExits(c)
  BY <1>4, ExitCodesAllowed DEF ExecFails, WorkerReturns, PluginExits, Next, WorkerEnds
<1>5. CASE WorkerKilled
  BY <1>5 DEF WorkerKilled, Next, WorkerEnds
<1>6. CASE Terminated \/ UNCHANGED gymVars
  BY <1>6 DEF Terminated, gymVars
<1> QED BY <1>1, <1>2, <1>3, <1>4, <1>5, <1>6 DEF GymNext

\* Workers that run as module Worker says only do to the orchestrator what its own
\* specification expects of them.
THEOREM ImplementsOrchestrator == GymSpec => OrchestratorSpec
<1>1. GymInit => Init
  BY DEF GymInit
<1> QED BY <1>1, OrchestratorStep, PTL DEF GymSpec, OrchestratorSpec, Spec

\* So what is proved of the orchestrator holds of the whole program.
THEOREM WholeProgramIsHonest ==
  GymSpec => []VerdictsHonest /\ []NoWorkerLeft /\ []TracesNotShared /\ SuiteSpec
BY ImplementsOrchestrator, VerdictsAreHonest, NoWorkerIsLeft, TracesAreNotShared,
   ImplementsSuiteRun, PTL DEF OrchestratorSpec
-----------------------------------------------------------------------------
(* The invariant of the composition.                                       *)

LEMMA GymInitInvariant == GymInit => GInv
<1> SUFFICES ASSUME GymInit PROVE GInv
  OBVIOUS
<1>1. IInv /\ WP!WInv
  BY InitInvariant, SameWorker, WP!WorkerInitInvariant, WorkerAssumptionHolds DEF GymInit
<1>2. WorkerLinked /\ StatusLinked
  BY SameWorker DEF GymInit, Init, WP!WorkerInit, WorkerLinked, StatusLinked, InRunChild
<1> QED BY <1>1, <1>2 DEF GInv

\* What the orchestrator does between a fork and the next, seen from the worker.
LEMMA OrchestratorFrame ==
  ASSUME IInv, OrchestratorAlone
  PROVE  /\ child' = "running" <=> child = "running"
         /\ UNCHANGED <<options, end, workerVars, returned>>
         /\ pc' \in InRunChild =>
              pc \in InRunChild /\ UNCHANGED <<selected, results>>
         /\ child = "running" => UNCHANGED <<selected, results>>
         /\ \/ UNCHANGED results /\ ~ (pc \in InRunChild /\ pc' \in {"start", "setup", "loop"})
            \/ /\ pc = "loop" /\ pc' = "loop" /\ MoreToRun
               /\ results' = Append(results, [benchmark |-> Current,
                                             status |-> "unsupported", trace |-> NoPath])
            \/ /\ pc \in InRunChild /\ pc' = "loop" /\ child # "running" /\ MoreToRun
               /\ \E v \in {VerdictOf(end), "timed_out"} :
                    results' = Append(results, [benchmark |-> Current, status |-> v,
                                                trace |-> TracePath(Current)])
         /\ pc' \in {"start", "setup", "loop"} =>
              pc \in {"start", "setup", "loop"} \cup InRunChild
<1> USE DEF OrchestratorAlone, configVars, childVars, Throw, InRunChild, IInv, WorkerKnown, Progress
<1>1. CASE Startup
  BY <1>1 DEF Startup, RejectOptions, Select, SetUp
<1>2. CASE ReportUnsupported
  BY <1>2 DEF ReportUnsupported
<1>3. CASE IterationThrows \/ Summarise \/ DeadlinePasses \/ OrchestratorDies
  BY <1>3 DEF IterationThrows, Summarise, DeadlinePasses, OrchestratorDies
<1>4. CASE PollReaps \/ GraceReaps \/ KillReaps
  BY <1>4 DEF PollReaps, GraceReaps, KillReaps, Record
<1>5. CASE PollFindsRunning \/ PollThrows \/ DeadlineAhead \/ SendTerm \/ GraceOver \/ SendKill
  BY <1>5 DEF PollFindsRunning, PollThrows, DeadlineAhead, SendTerm, GraceOver, SendKill
<1> QED BY <1>1, <1>2, <1>3, <1>4, <1>5 DEF RunChild

LEMMA OrchestratorAloneInvariant ==
  ASSUME GInv, OrchestratorAlone
  PROVE  WorkerLinked' /\ StatusLinked'
<1> USE DEF GInv
<1>1. /\ results \in Seq(Results) /\ Len(results) \in Nat
      /\ me \in Nat /\ selected \in Seq(Benchmarks)
  BY DEF IInv, TypeOK, WP!WInv, WP!WorkerTypeOK
<1>2. UNCHANGED <<wpc, path, me, code, returned, options, end>>
  BY OrchestratorFrame DEF workerVars
<1>3. StatusLinked'
  BY <1>2, OrchestratorFrame DEF StatusLinked
<1>4. WorkerLinked'
  <2>1. child' = "running" <=> wpc' \notin {"idle", "gone"}
    BY <1>2, OrchestratorFrame DEF WorkerLinked
  <2>2. child' = "running" \/ pc' \in InRunChild
          => me' = Len(results') + 1 /\ path' = TracePath(Current)'
    BY <1>2, OrchestratorFrame DEF WorkerLinked, TracePath, SingleTracePath, Current
  <2>3. CASE UNCHANGED results
    BY <1>2, <2>1, <2>2, <2>3, OrchestratorFrame DEF WorkerLinked
  <2>4. ASSUME NEW r \in Results, results' = Append(results, r),
               me <= Len(results) \/ (me = Len(results) + 1 /\ r.trace = path)
        PROVE  WorkerLinked'
    <3>1. /\ Len(results') = Len(results) + 1
          /\ \A k \in 1..Len(results) : results'[k] = results[k]
          /\ results'[Len(results) + 1] = r
      BY <1>1, <2>4
    <3>2. me' <= Len(results')
      BY <1>1, <1>2, <2>4, <3>1
    <3>3. me' # 0 => results'[me'].trace = path'
      BY <1>1, <1>2, <2>4, <3>1 DEF WorkerLinked
    <3> QED BY <2>1, <2>2, <3>2, <3>3 DEF WorkerLinked
  <2>5. CASE ~ UNCHANGED results
    <3>1. pc \in InRunChild \cup {"loop"}
      BY <2>5, OrchestratorFrame
    <3>2. PICK v, t : /\ results' = Append(results, [benchmark |-> Current, status |-> v, trace |-> t])
                      /\ v \in Status /\ t \in {NoPath, TracePath(Current)}
                      /\ pc \in InRunChild => t = TracePath(Current)
      <4>1. VerdictOf(end) \in Status /\ "timed_out" \in Status /\ "unsupported" \in Status
        BY DEF VerdictOf, Status
      <4> QED BY <2>5, <4>1, OrchestratorFrame DEF InRunChild
    <3>3. Current \in Benchmarks /\ TracePath(Current) \in Paths
      <4>1. MoreToRun
        BY <2>5, OrchestratorFrame
      <4> QED BY <4>1, CurrentIsBenchmark, TracePathIsPath DEF IInv
    <3> DEFINE r == [benchmark |-> Current, status |-> v, trace |-> t]
    <3>4. r \in Results /\ r.trace = t
      BY <3>2, <3>3 DEF Results
    <3>5. results' = Append(results, r)
      BY <3>2
    <3> HIDE DEF r
    <3>6. me <= Len(results) \/ (me = Len(results) + 1 /\ r.trace = path)
      BY <3>1, <3>2, <3>4 DEF WorkerLinked
    <3> QED BY <2>4, <3>4, <3>5, <3>6
  <2> QED BY <2>3, <2>5
<1> QED BY <1>3, <1>4

LEMMA LaunchInvariant ==
  ASSUME GInv, Launch
  PROVE  WP!WInv' /\ WorkerLinked' /\ StatusLinked'
<1> DEFINE w == Len(results) + 1
<1>1. /\ Fork /\ WP!Exec(w, TracePath(Current)) /\ UNCHANGED returned
      /\ me \in Nat /\ w \in Nat /\ Len(results) \in Nat
  BY SameWorker DEF Launch, GInv, IInv, TypeOK, WP!WInv, WP!WorkerTypeOK
<1>2. w > me
  BY <1>1 DEF Fork, GInv, WorkerLinked
<1>3. TracePath(Current) \in Paths
  BY <1>1, CurrentIsBenchmark, TracePathIsPath DEF Fork, GInv, IInv
<1>4. WP!WInv'
  BY <1>1, <1>2, <1>3, WP!ExecInvariant, WorkerAssumptionHolds DEF GInv
<1>5. WorkerLinked'
  BY <1>1, <1>2 DEF Fork, WP!Exec, WorkerLinked, TracePath, SingleTracePath, Current,
                    configVars, InRunChild
<1>6. StatusLinked'
  <2>1. returned \subseteq 1..me
    BY DEF GInv, StatusLinked
  <2>2. me' = w /\ wpc' = "main" /\ child' = "running" /\ returned' = returned
    BY <1>1 DEF Fork, WP!Exec
  <2>3. me' \notin returned' /\ returned' \subseteq 1..me'
    BY <1>1, <1>2, <2>1, <2>2
  <2> QED BY <2>2, <2>3 DEF StatusLinked
<1> QED BY <1>4, <1>5, <1>6

\* The worker works, and the orchestrator does not.
LEMMA WorkerAloneInvariant ==
  ASSUME GInv, WorkerAlone
  PROVE  WP!WInv' /\ WorkerLinked' /\ StatusLinked'
<1>1. WP!Internal /\ UNCHANGED <<vars, returned>>
  BY SameWorker DEF WorkerAlone
<1>2. WP!WInv'
  BY <1>1, WP!ProcessInvariant, WorkerAssumptionHolds DEF GInv
<1>3. UNCHANGED <<me, path, code>> /\ {wpc, wpc'} \cap {"idle", "gone"} = {}
  BY <1>1 DEF WP!Internal, WP!StartSession, WP!LoadSolver, WP!Throw, WP!BeginCall, WP!EndSlice,
              WP!RunReturns, WP!DestroySession, WP!ReadBack, WP!OpenOutput, WP!WriteOutput,
              WP!StopThrows, WP!CloseOutput
<1>4. UNCHANGED <<options, pc, selected, results, child, end, returned>>
  BY <1>1 DEF vars
<1>5. WorkerLinked'
  BY <1>3, <1>4 DEF GInv, WorkerLinked, TracePath, SingleTracePath, Current
<1>6. StatusLinked'
  BY <1>3, <1>4 DEF GInv, StatusLinked
<1> QED BY <1>2, <1>5, <1>6

\* The worker ends, and the kernel knows how.
LEMMA WorkerEndsInvariant ==
  ASSUME GInv,
         ExecFails \/ WorkerReturns \/ WorkerKilled \/ \E c \in RogueExits : PluginExits(c)
  PROVE  WP!WInv' /\ WorkerLinked' /\ StatusLinked'
<1>1. PICK e : Die(e)
  BY DEF ExecFails, WorkerReturns, WorkerKilled, PluginExits, WorkerExits, WorkerCrashes,
         TermKills, KillKills
<1>2. /\ child = "running" /\ child' # "running"
      /\ UNCHANGED <<options, pc, selected, results>>
  BY <1>1 DEF Die, configVars
<1>3. wpc' = "gone" /\ UNCHANGED <<me, path, files>>
  BY SameWorker DEF ExecFails, WorkerReturns, WorkerKilled, PluginExits,
                    WP!Return, WP!Vanish, WP!PluginExits
<1>4. WP!WInv'
  <2>1. WP!Return \/ WP!Vanish
    BY SameWorker DEF ExecFails, WorkerReturns, WorkerKilled, PluginExits, WP!PluginExits
  <2> QED BY <2>1, WP!EndInvariant, WorkerAssumptionHolds DEF GInv
<1>5. WorkerLinked'
  BY <1>2, <1>3 DEF GInv, WorkerLinked, TracePath, SingleTracePath, Current
<1>6. me \in Nat /\ me \in 1..me /\ code = WP!NoCode /\ me \notin returned
  <2>1. me = Len(results) + 1 /\ Len(results) \in Nat /\ wpc # "gone"
    BY <1>2 DEF GInv, WorkerLinked, IInv, TypeOK
  <2> QED BY <2>1 DEF GInv, StatusLinked, WP!WInv, WP!EndKnown
<1>7. CASE WorkerReturns
  <2>1. /\ WP!Return /\ WorkerExits(WP!ExitCodeOf(exc)) /\ returned' = returned \cup {me}
    BY <1>7, SameWorker DEF WorkerReturns
  <2>2. code' = WP!ExitCodeOf(exc) /\ code' # WP!NoCode
    BY <2>1 DEF WP!Return, WP!ExitCodeOf, WP!NoCode
  <2>3. end' = [how |-> "exited", code |-> code']
    BY <2>1, <2>2 DEF WorkerExits, Die
  <2>4. StatusLinked'
    BY <1>3, <1>6, <2>1, <2>2, <2>3 DEF GInv, StatusLinked
  <2> QED BY <1>4, <1>5, <2>4
<1>8. CASE ExecFails \/ WorkerKilled \/ \E c \in RogueExits : PluginExits(c)
  <2>1. UNCHANGED <<code, returned>>
    BY <1>8, SameWorker DEF ExecFails, WorkerKilled, PluginExits, WP!Vanish, WP!PluginExits
  <2>2. \/ end'.how = "signaled"
        \/ end'.how = "exited" /\ end'.code \in RogueExits \cup {ExecFailed}
    BY <1>8 DEF ExecFails, WorkerKilled, PluginExits, WorkerExits, WorkerCrashes, TermKills,
                KillKills, Die
  <2>3. StatusLinked'
    BY <1>3, <1>6, <2>1, <2>2 DEF GInv, StatusLinked
  <2> QED BY <1>4, <1>5, <2>3
<1> QED BY <1>7, <1>8

LEMMA GymStutter ==
  ASSUME GInv, UNCHANGED gymVars
  PROVE  WP!WInv' /\ WorkerLinked' /\ StatusLinked'
<1>1. UNCHANGED WP!wvars /\ UNCHANGED vars /\ UNCHANGED returned
  BY DEF gymVars, workerVars, WP!wvars
<1>2. WP!WInv'
  BY <1>1, WP!WorkerStutter, WorkerAssumptionHolds DEF GInv
<1> QED
  BY <1>1, <1>2 DEF GInv, WorkerLinked, StatusLinked, TracePath, SingleTracePath, Current,
                    vars, WP!wvars

LEMMA GymNextInvariant == GInv /\ [GymNext]_gymVars => GInv'
<1> SUFFICES ASSUME GInv, [GymNext]_gymVars PROVE GInv'
  OBVIOUS
<1>1. IInv'
  BY OrchestratorStep, NextInvariant DEF GInv
<1>2. CASE OrchestratorAlone
  <2>1. UNCHANGED WP!wvars
    BY <1>2, OrchestratorFrame DEF workerVars, WP!wvars, GInv
  <2>2. WP!WInv'
    BY <2>1, WP!WorkerStutter, WorkerAssumptionHolds DEF GInv
  <2> QED BY <1>1, <1>2, <2>2, OrchestratorAloneInvariant DEF GInv
<1>3. CASE Terminated /\ UNCHANGED <<workerVars, returned>>
  BY <1>1, <1>3, GymStutter DEF Terminated, gymVars, GInv
<1>4. CASE UNCHANGED gymVars
  BY <1>1, <1>4, GymStutter DEF GInv
<1> QED
  BY <1>1, <1>2, <1>3, <1>4, LaunchInvariant, WorkerAloneInvariant, WorkerEndsInvariant
     DEF GymNext, GInv

THEOREM GymInvariance == GymSpec => []GInv
<1>1. GymInit => GInv
  BY GymInitInvariant
<1>2. GInv /\ [GymNext]_gymVars => GInv'
  BY GymNextInvariant
<1> QED BY <1>1, <1>2, PTL DEF GymSpec

\* The kernel, the worker and the orchestrator agree on which worker is running.
THEOREM GymTypeCorrect == GymSpec => []GymTypeOK
<1>1. GInv => GymTypeOK
  BY SameWorker DEF GInv, WP!WInv, WorkerLinked, GymTypeOK
<1> QED BY <1>1, GymInvariance, PTL
-----------------------------------------------------------------------------
(* The properties.                                                         *)

\* Who touches the files.
LEMMA FilesTouched ==
  ASSUME GInv, [GymNext]_gymVars
  PROVE  UNCHANGED files \/ WorkerAlone
BY SameWorker, OrchestratorFrame
   DEF GInv, GymNext, Launch, ExecFails, WorkerReturns, WorkerKilled, PluginExits, Terminated,
       gymVars, workerVars, WP!Exec, WP!Return, WP!Vanish, WP!PluginExits

\* A whole trace changes only when a later worker writes the same file.
THEOREM TracesAreKept == GymSpec => TracesKept
<1> DEFINE Keeps == \A p \in Paths :
             files[p].what = "whole" /\ files'[p] # files[p] => me' > files[p].by
<1>1. GInv /\ [GymNext]_gymVars => [Keeps]_gymVars
  <2> SUFFICES ASSUME GInv, [GymNext]_gymVars,
                      NEW p \in Paths, files[p].what = "whole", files'[p] # files[p]
               PROVE  me' > files[p].by
    OBVIOUS
  <2>1. WP!Internal
    BY FilesTouched, SameWorker DEF WorkerAlone
  <2>2. me' = me /\ files[p].by < me
    BY <2>1, WP!WholeTraceChanges, WorkerAssumptionHolds DEF GInv
  <2>3. me \in Nat /\ files[p].by \in Nat
    BY DEF GInv, WP!WInv, WP!WorkerTypeOK, WP!Contents
  <2> QED BY <2>2, <2>3
<1> QED BY <1>1, GymInvariance, PTL DEF GymSpec, TracesKept

\* The result that run_child returns, and the wait status behind it.
LEMMA VerdictKnown ==
  ASSUME GInv, [GymNext]_gymVars, Len(results') > Len(results), pc \in InRunChild
  PROVE  /\ OrchestratorAlone /\ child # "running"
         /\ \E v \in {VerdictOf(end), "timed_out"} :
              /\ results' = Append(results, [benchmark |-> Current, status |-> v,
                                           trace |-> TracePath(Current)])
              /\ Len(results') = Len(results) + 1
              /\ results'[Len(results')].status = v
<1>1. results \in Seq(Results) /\ Len(results) \in Nat
  BY DEF GInv, IInv, TypeOK
<1>2. results' # results
  BY <1>1
<1>3. OrchestratorAlone
  BY <1>2 DEF GymNext, Launch, Fork, WorkerAlone, ExecFails, WorkerReturns, WorkerKilled,
              PluginExits, WorkerExits, WorkerCrashes, TermKills, KillKills, Die, Terminated,
              gymVars, vars, configVars
<1>4. child # "running"
  BY <1>2, <1>3, OrchestratorFrame DEF GInv
<1>5. PICK v \in {VerdictOf(end), "timed_out"} :
         results' = Append(results, [benchmark |-> Current, status |-> v,
                                     trace |-> TracePath(Current)])
  BY <1>2, <1>3, OrchestratorFrame DEF GInv, InRunChild
<1>6. Len(results') = Len(results) + 1 /\ results'[Len(results')].status = v
  BY <1>1, <1>5
<1> QED BY <1>3, <1>4, <1>5, <1>6

\* A verdict is what run_worker told, the plugin's own exit code, or no program.
THEOREM VerdictsFollow == GymSpec => VerdictsFollowTheWorker
<1> DEFINE Follows ==
      Len(results') > Len(results) /\ pc \in InRunChild =>
        LET verdict == results'[Len(results')].status IN
          IF me \in returned THEN Told(verdict)
          ELSE \/ verdict \in {"crashed", "timed_out"}
               \/ end.code \in RogueExits
               \/ verdict = "failed" /\ end.code = ExecFailed
<1>1. GInv /\ [GymNext]_gymVars => [Follows]_gymVars
  <2> SUFFICES ASSUME GInv, [GymNext]_gymVars,
                      Len(results') > Len(results), pc \in InRunChild
               PROVE  LET verdict == results'[Len(results')].status IN
                        IF me \in returned THEN Told(verdict)
                        ELSE \/ verdict \in {"crashed", "timed_out"}
                             \/ end.code \in RogueExits
                             \/ verdict = "failed" /\ end.code = ExecFailed
    OBVIOUS
  <2>1. child # "running"
    BY VerdictKnown
  <2>2. PICK v \in {VerdictOf(end), "timed_out"} : results'[Len(results')].status = v
    BY VerdictKnown
  <2>3. CASE me \in returned
    <3>1. end = [how |-> "exited", code |-> WP!ExitCodeOf(exc)]
      BY <2>1, <2>3 DEF GInv, StatusLinked, WP!WInv, WP!EndKnown, WP!Returned
    <3>2. /\ exc \in {"none", "unsupported", "std", "other"}
          /\ exc = "none" => session = "stopped"
      BY <2>3 DEF GInv, StatusLinked, WP!WInv, WP!WorkerTypeOK, WP!Exceptions, WP!EndKnown,
                  WP!SessionKnown, WP!Returned
    <3>3. VerdictOf(end) = CASE exc = "none" -> "passed"
                             [] exc = "unsupported" -> "unsupported"
                             [] OTHER -> "failed"
      BY <3>1, <3>2 DEF VerdictOf, WP!ExitCodeOf, UnsupportedExit
    <3> QED BY <2>2, <2>3, <3>2, <3>3 DEF Told
  <2>4. CASE me \notin returned
    <3>1. \/ end.how = "signaled"
          \/ end.how = "exited" /\ end.code \in RogueExits \cup {ExecFailed}
      BY <2>1, <2>4 DEF GInv, StatusLinked
    <3> QED BY <2>2, <2>4, <3>1 DEF VerdictOf, ExecFailed, UnsupportedExit
  <2> QED BY <2>3, <2>4
<1> QED BY <1>1, GymInvariance, PTL DEF GymSpec, VerdictsFollowTheWorker

PassedKnown ==
  /\ PassedHasTrace
  /\ \A k \in 1..Len(results) : results[k].status = "passed" => results[k].trace \in Paths

\* More results, and a file that is still the one of the last worker, take nothing
\* away from the passed results so far.
LEMMA PassedKept ==
  ASSUME GInv, PassedKnown, UNCHANGED <<files, path, me, returned>>,
         NEW r \in Results, results' = Append(results, r),
         r.status = "passed" =>
           /\ r.trace \in Paths
           /\ Len(results) + 1 \in returned =>
                files[r.trace].what = "whole" /\ files[r.trace].by = Len(results) + 1
  PROVE  PassedKnown'
<1>1. /\ results \in Seq(Results) /\ Len(results) \in Nat
      /\ results' \in Seq(Results) /\ Len(results') = Len(results) + 1
      /\ \A k \in 1..Len(results) : results'[k] = results[k]
      /\ results'[Len(results) + 1] = r
  BY DEF GInv, IInv, TypeOK
<1>2. ASSUME NEW k \in 1..Len(results'), results'[k].status = "passed"
      PROVE  /\ results'[k].trace \in Paths
             /\ k \in returned' /\ ~WrittenAgain(k)' =>
                  files'[results'[k].trace].what = "whole" /\ files'[results'[k].trace].by = k
  <2>1. CASE k = Len(results) + 1
    BY <1>1, <1>2, <2>1
  <2>2. CASE k \in 1..Len(results)
    <3>1. results'[k] = results[k]
      BY <1>1, <2>2
    <3>2. WrittenAgain(k) => WrittenAgain(k)'
      <4>1. ASSUME NEW j \in k + 1..Len(results), results[j].trace = results[k].trace
            PROVE  j \in k + 1..Len(results') /\ results'[j].trace = results'[k].trace
        BY <1>1, <2>2, <3>1, <4>1
      <4> QED BY <3>1, <4>1 DEF WrittenAgain
    <3> QED BY <1>2, <2>2, <3>1, <3>2 DEF PassedKnown, PassedHasTrace
  <2> QED BY <1>1, <2>1, <2>2
<1> QED BY <1>2 DEF PassedKnown, PassedHasTrace

\* No result yet, or no new one, and files that only the running worker touches.
LEMMA PassedUntouched ==
  ASSUME PassedKnown, UNCHANGED results,
         \A k \in 1..Len(results) :
           /\ k \in returned' => k \in returned
           /\ WrittenAgain(k) => WrittenAgain(k)'
           /\ results[k].trace \in Paths /\ ~WrittenAgain(k)'
                => files'[results[k].trace] = files[results[k].trace]
  PROVE  PassedKnown'
BY DEF PassedKnown, PassedHasTrace

LEMMA PassedNext ==
  ASSUME "close" \notin DiskFaults, GInv, PassedKnown, [GymNext]_gymVars
  PROVE  PassedKnown'
<1> USE DEF GInv
<1>1. /\ results \in Seq(Results) /\ Len(results) \in Nat /\ me \in Nat
      /\ path \in Paths /\ files \in [Paths -> WP!Contents]
  BY DEF IInv, TypeOK, WP!WInv, WP!WorkerTypeOK
<1>2. CASE OrchestratorAlone /\ UNCHANGED results
  <2>1. UNCHANGED <<files, path, me, returned>>
    BY <1>2, OrchestratorFrame DEF workerVars
  <2> QED BY <1>2, <2>1, PassedUntouched DEF WrittenAgain
<1>3. CASE OrchestratorAlone /\ ~ UNCHANGED results
  <2>1. UNCHANGED <<files, path, me, returned>>
    BY <1>3, OrchestratorFrame DEF workerVars
  <2>2. MoreToRun /\ pc \in InRunChild \cup {"loop"}
    BY <1>3, OrchestratorFrame
  <2>3. Current \in Benchmarks /\ TracePath(Current) \in Paths
    BY <2>2, CurrentIsBenchmark, TracePathIsPath DEF IInv
  <2>4. CASE pc = "loop"
    <3> DEFINE r == [benchmark |-> Current, status |-> "unsupported", trace |-> NoPath]
    <3>1. r \in Results /\ r.status # "passed" /\ results' = Append(results, r)
      BY <1>3, <2>3, <2>4, OrchestratorFrame DEF Results, Status, InRunChild
    <3> HIDE DEF r
    <3> QED BY <2>1, <3>1, PassedKept
  <2>5. CASE pc \in InRunChild
    <3>1. PICK v \in {VerdictOf(end), "timed_out"} :
             results' = Append(results, [benchmark |-> Current, status |-> v,
                                         trace |-> TracePath(Current)])
      BY <1>3, <2>5, OrchestratorFrame DEF InRunChild
    <3> DEFINE r == [benchmark |-> Current, status |-> v, trace |-> TracePath(Current)]
    <3>2. VerdictOf(end) \in Status /\ "timed_out" \in Status
      BY DEF VerdictOf, Status
    <3>3. r \in Results /\ r.status = v /\ r.trace = path /\ results' = Append(results, r)
      BY <2>3, <2>5, <3>1, <3>2 DEF Results, WorkerLinked
    <3>4. child # "running" /\ me = Len(results) + 1
      BY <1>3, <2>5, OrchestratorFrame DEF WorkerLinked
    <3> HIDE DEF r
    <3>5. ASSUME v = "passed", me \in returned
          PROVE  files[path].what = "whole" /\ files[path].by = me
      <4>1. end = [how |-> "exited", code |-> code] /\ wpc = "gone" /\ code # WP!NoCode
        BY <2>5, <3>4, <3>5 DEF StatusLinked
      <4>2. code = 0
        BY <3>5, <4>1 DEF VerdictOf
      <4>3. files[path] = WP!WholeFile(me, WP!Kept)
        <5>1. exc = "none"
          BY <4>1, <4>2 DEF WP!WInv, WP!WorkerTypeOK, WP!EndKnown, WP!Returned,
                            WP!ExitCodeOf, WP!Exceptions
        <5> QED BY <4>1, <5>1 DEF WP!WInv, WP!EndKnown, WP!FilesKnown, WP!Returned
      <4> QED BY <4>3 DEF WP!WholeFile
    <3> QED BY <1>1, <2>1, <3>3, <3>4, <3>5, PassedKept
  <2> QED BY <2>2, <2>4, <2>5
<1>4. CASE Launch
  <2>1. /\ UNCHANGED <<files, results, returned>> /\ me' = Len(results) + 1
        /\ me <= Len(results)
    BY <1>4, SameWorker DEF Launch, Fork, WP!Exec, WorkerLinked
  <2>2. ASSUME NEW k \in 1..Len(results), WrittenAgain(k)
        PROVE  WrittenAgain(k)'
    <3>1. CASE me > k /\ path = results[k].trace
      <4>1. me \in k + 1..Len(results) /\ results[me].trace = results[k].trace
        BY <1>1, <2>1, <3>1 DEF WorkerLinked
      <4> QED BY <2>1, <4>1 DEF WrittenAgain
    <3> QED BY <2>1, <2>2, <3>1 DEF WrittenAgain
  <2> QED BY <2>1, <2>2, PassedUntouched
<1>5. CASE WorkerAlone
  <2>1. /\ WP!Internal /\ UNCHANGED <<results, returned, child>> /\ wpc \notin {"idle", "gone"}
    BY <1>5, SameWorker
       DEF WorkerAlone, vars, WP!Internal, WP!StartSession, WP!LoadSolver, WP!Throw, WP!BeginCall,
           WP!EndSlice, WP!RunReturns, WP!DestroySession, WP!ReadBack, WP!OpenOutput,
           WP!WriteOutput, WP!StopThrows, WP!CloseOutput
  <2>2. me = Len(results) + 1
    BY <2>1 DEF WorkerLinked
  <2>3. /\ UNCHANGED <<path, me>>
        /\ \A p \in Paths : p # path => files'[p] = files[p]
    BY <1>1, <2>1 DEF WP!Internal, WP!StartSession, WP!LoadSolver, WP!Throw, WP!BeginCall,
           WP!EndSlice, WP!RunReturns, WP!DestroySession, WP!ReadBack, WP!OpenOutput,
           WP!WriteOutput, WP!StopThrows, WP!CloseOutput, WP!Written
  <2>4. ASSUME NEW k \in 1..Len(results)
        PROVE  /\ WrittenAgain(k)' <=> WrittenAgain(k)
               /\ path = results[k].trace => WrittenAgain(k)
    BY <1>1, <2>1, <2>2, <2>3 DEF WrittenAgain
  <2> QED BY <2>1, <2>3, <2>4, PassedUntouched
<1>6. CASE ExecFails \/ WorkerReturns \/ WorkerKilled \/ \E c \in RogueExits : PluginExits(c)
  <2>1. /\ UNCHANGED <<files, path, me>> /\ wpc \notin {"idle", "gone"}
        /\ returned' \subseteq returned \cup {me}
    BY <1>6, SameWorker DEF ExecFails, WorkerReturns, WorkerKilled, PluginExits,
                            WP!Return, WP!Vanish, WP!PluginExits
  <2>2. UNCHANGED results
    BY <1>6 DEF ExecFails, WorkerReturns, WorkerKilled, PluginExits, WorkerExits,
                WorkerCrashes, TermKills, KillKills, Die
  <2>3. me = Len(results) + 1
    BY <2>1 DEF WorkerLinked
  <2> QED BY <1>1, <2>1, <2>2, <2>3, PassedUntouched DEF WrittenAgain
<1>7. CASE (Terminated /\ UNCHANGED <<workerVars, returned>>) \/ UNCHANGED gymVars
  <2>1. UNCHANGED <<files, path, me, returned, results>>
    BY <1>7 DEF Terminated, gymVars, vars, workerVars
  <2> QED BY <2>1, PassedUntouched DEF WrittenAgain
<1> QED BY <1>2, <1>3, <1>4, <1>5, <1>6, <1>7 DEF GymNext

\* Where closing a file does not fail, a benchmark is reported as passed only if its
\* trace is in the file named, or if the plugin itself made the worker exit with 0.
THEOREM PassedHaveTraces ==
  ASSUME "close" \notin DiskFaults
  PROVE  GymSpec => []PassedHasTrace
<1>1. GymInit => PassedKnown
  BY DEF GymInit, Init, PassedKnown, PassedHasTrace
<1>2. GInv /\ GInv' /\ PassedKnown /\ [GymNext]_gymVars => PassedKnown'
  BY PassedNext
<1>3. PassedKnown => PassedHasTrace
  BY DEF PassedKnown
<1> QED BY <1>1, <1>2, <1>3, GymInvariance, PTL DEF GymSpec

=============================================================================
