------------------------------- MODULE Worker -------------------------------
(***************************************************************************)
(* A worker process: run_worker, the perfetto_trace_session it owns, and   *)
(* the trace file.  The session records while the benchmark runs, stop()   *)
(* reads it back and writes it, and the destructor calls stop() again when *)
(* an exception unwinds past a session that has not been stopped.          *)
(*                                                                         *)
(* The scoped slices of TRACE_EVENT form the stack open: benchmark.run at  *)
(* the bottom, the SSI calls and callbacks of the benchmark above it.      *)
(***************************************************************************)
EXTENDS Naturals, Sequences, SequencesExt, FiniteSets

CONSTANTS
  Paths,         \* trace files
  DiskFaults,    \* the steps of a file write that may fail: a subset of
                 \* {"open", "write", "close"}
  RogueExits,    \* the codes a plugin may end the process with by itself
  Capacity,      \* events the trace buffer holds before it drops the oldest
  MaxDepth,      \* bound: nesting of slices
  MaxEvents      \* bound: events of one benchmark before it stops calling

ASSUME WorkerAssumption ==
  /\ DiskFaults \subseteq {"open", "write", "close"}
  /\ RogueExits \subseteq Nat
  /\ Capacity \in Nat \ {0}
  /\ MaxDepth \in Nat /\ MaxEvents \in Nat

VARIABLES
  wpc,       \* where run_worker is; "idle" and "gone" without a process
  path,      \* --trace-out
  me,        \* which worker of the run this is
  exc,       \* the exception in flight
  session,   \* "none", "recording" or "stopped"
  stopped,   \* perfetto_trace_session::stopped_
  open,      \* the stack of open slices
  buffer,    \* the recorded events that were not read back yet
  data,      \* trace_data, the local of stop()
  files,     \* the file system: Paths -> contents
  code,      \* the exit code, when the process returned from main
  emitted,   \* history: all the events recorded by this worker
  faulted    \* history: a step of a file write has failed

traceVars == <<session, stopped, open, buffer, data, emitted>>
wvars == <<wpc, path, me, exc, session, stopped, open, buffer, data, files,
           code, emitted, faulted>>

Exceptions == {"none", "unsupported", "std", "other"}
Slices == {"run", "call"}
Events == {"begin", "end"} \X Slices

\* A file is absent, left by an earlier run, cut short, or whole.
Contents == [what : {"absent", "old", "cut", "whole"}, by : Nat, events : Seq(Events)]

NoFile == [what |-> "absent", by |-> 0, events |-> <<>>]
OldFile == [what |-> "old", by |-> 0, events |-> <<>>]
CutFile(w) == [what |-> "cut", by |-> w, events |-> <<>>]
WholeFile(w, s) == [what |-> "whole", by |-> w, events |-> s]

NoCode == 256  \* not an exit code

\* The ring buffer of the trace config: the newest Capacity events.
Newest(s) == IF Len(s) > Capacity THEN Tail(s) ELSE s

Emit(e) ==
  IF session = "recording"
    THEN /\ buffer' = Newest(Append(buffer, e))
         /\ emitted' = Append(emitted, e)
    ELSE UNCHANGED <<buffer, emitted>>
-----------------------------------------------------------------------------
(* From exec to the benchmark.                                             *)

\* fork and execv with the arguments run_child built.
Exec(w, p) ==
  /\ wpc' = "main" /\ path' = p /\ me' = w
  /\ exc' = "none" /\ session' = "none" /\ stopped' = FALSE
  /\ open' = <<>> /\ buffer' = <<>> /\ data' = <<>> /\ code' = NoCode
  /\ emitted' = <<>> /\ faulted' = FALSE
  /\ UNCHANGED files

\* validate_worker_options, or no benchmark of that name.
RejectArguments ==
  /\ wpc = "main"
  /\ exc' = "std"
  /\ wpc' = "leave"
  /\ UNCHANGED <<path, me, traceVars, files, code, faulted>>

StartSession ==
  /\ wpc = "main"
  /\ session' = "recording"
  /\ wpc' = "load"
  /\ UNCHANGED <<path, me, exc, stopped, open, buffer, data, files, code,
                 emitted, faulted>>

\* load_context_from_shared_object and make_tracing_context succeed, and the
\* benchmark.run slice opens.
LoadSolver ==
  /\ wpc = "load"
  /\ open' = <<"run">>
  /\ Emit(<<"begin", "run">>)
  /\ wpc' = "run"
  /\ UNCHANGED <<path, me, exc, session, stopped, data, files, code, faulted>>

Throw(k) ==
  /\ wpc \in {"load", "run"}
  /\ exc' = k
  /\ wpc' = "unwind"
  /\ UNCHANGED <<path, me, traceVars, files, code, faulted>>
-----------------------------------------------------------------------------
(* benchmark->run.                                                         *)

\* A traced SSI call, or a callback inside one.
BeginCall ==
  /\ wpc = "run"
  /\ Len(open) <= MaxDepth /\ Len(emitted) < MaxEvents
  /\ open' = Append(open, "call")
  /\ Emit(<<"begin", "call">>)
  /\ UNCHANGED <<wpc, path, me, exc, session, stopped, data, files, code, faulted>>

\* Slices are closed by the normal return only.
MutantEndSlice ==
  /\ \/ wpc = "run" /\ Len(open) > 1
     \/ wpc = "unwind" /\ open # <<>>
  /\ open' = Front(open)
  /\ IF wpc = "run" THEN Emit(<<"end", Last(open)>>) ELSE UNCHANGED <<buffer, emitted>>
  /\ UNCHANGED <<wpc, path, me, exc, session, stopped, data, files, code, faulted>>

\* A scope ends, by returning or because an exception unwinds it.  The slices of
\* scopes that end after the session has stopped are not recorded.
EndSlice ==
  /\ \/ wpc = "run" /\ Len(open) > 1
     \/ wpc = "unwind" /\ open # <<>>
  /\ open' = Front(open)
  /\ Emit(<<"end", Last(open)>>)
  /\ UNCHANGED <<wpc, path, me, exc, session, stopped, data, files, code, faulted>>

\* benchmark->run returned; trace.stop() follows while benchmark.run is open.
RunReturns ==
  /\ wpc = "run"
  /\ open = <<"run">>
  /\ wpc' = "stop"
  /\ UNCHANGED <<path, me, exc, traceVars, files, code, faulted>>

\* The destructor does not stop the session.
MutantDestroySession ==
  /\ wpc = "unwind"
  /\ open = <<>>
  /\ wpc' = "leave"
  /\ UNCHANGED <<path, me, exc, traceVars, files, code, faulted>>

\* ~perfetto_trace_session, on every way out of the try block.
DestroySession ==
  /\ wpc = "unwind"
  /\ open = <<>>
  /\ wpc' = IF stopped THEN "leave" ELSE "stop"
  /\ UNCHANGED <<path, me, exc, traceVars, files, code, faulted>>
-----------------------------------------------------------------------------
(* perfetto_trace_session::stop, called by the body (no exception in flight) *)
(* or by the destructor.                                                   *)

\* Flush, StopBlocking and ReadTraceBlocking, which empties the buffer.
ReadBack ==
  /\ wpc = "stop"
  /\ session' = "stopped"
  /\ data' = buffer
  /\ buffer' = <<>>
  /\ wpc' = "open"
  /\ UNCHANGED <<path, me, exc, stopped, open, files, code, emitted, faulted>>

\* The stream constructor truncates the file.
OpenOutput ==
  /\ wpc = "open"
  /\ files' = [files EXCEPT ![path] = CutFile(me)]
  /\ wpc' = "write"
  /\ UNCHANGED <<path, me, exc, traceVars, code, faulted>>

Written == [files EXCEPT ![path] = WholeFile(me, data)]

\* stopped_ is not set.
MutantWriteOutput ==
  /\ wpc = "write"
  /\ files' \in {files, Written}
  /\ wpc' = "close"
  /\ UNCHANGED <<path, me, exc, traceVars, code, faulted>>

\* output.write hands the data on or leaves it in the stream; stopped_ is set.
WriteOutput ==
  /\ wpc = "write"
  /\ files' \in {files, Written}
  /\ stopped' = TRUE
  /\ wpc' = "close"
  /\ UNCHANGED <<path, me, exc, session, open, buffer, data, code, emitted,
                 faulted>>

\* stop() logs the failure and returns.
MutantStopThrows ==
  /\ wpc \in {"open", "write"} \cap DiskFaults
  /\ faulted' = TRUE
  /\ wpc' = "leave"
  /\ UNCHANGED <<path, me, exc, traceVars, files, code>>

\* Opening or writing failed: stop() throws.  The destructor catches it.
StopThrows ==
  /\ wpc \in {"open", "write"} \cap DiskFaults
  /\ faulted' = TRUE
  /\ IF exc = "none"
       THEN exc' = "std" /\ wpc' = "unwind"
       ELSE wpc' = "leave" /\ UNCHANGED exc
  /\ UNCHANGED <<path, me, traceVars, files, code>>

\* The stream's destructor flushes and closes, and reports nothing.
CloseOutput ==
  /\ wpc = "close"
  /\ \/ files' = Written /\ UNCHANGED faulted
     \/ "close" \in DiskFaults /\ faulted' = TRUE /\ UNCHANGED files
  /\ wpc' = IF exc = "none" THEN "unwind" ELSE "leave"
  /\ UNCHANGED <<path, me, exc, traceVars, code>>
-----------------------------------------------------------------------------
(* The end of the process.                                                 *)

\* catch (...) forgotten among the handlers' results.
MutantExitCodeOf(k) == CASE k = "unsupported" -> 10 [] k = "std" -> 1 [] OTHER -> 0

\* The handlers return -1.
MutantNegativeExit(k) == CASE k = "none" -> 0 [] k = "unsupported" -> 10 [] OTHER -> 0 - 1

\* return 0 and the three handlers of run_worker.
ExitCodeOf(k) == CASE k = "none" -> 0
                   [] k = "unsupported" -> 10
                   [] OTHER -> 1

\* run_worker returns, and main with it.
Return ==
  /\ wpc = "leave"
  /\ code' = ExitCodeOf(exc)
  /\ wpc' = "gone"
  /\ UNCHANGED <<path, me, exc, traceVars, files, faulted>>

\* Plugin code calls exit, or a signal ends the process: nothing unwinds.
Vanish ==
  /\ wpc \notin {"idle", "gone"}
  /\ wpc' = "gone"
  /\ UNCHANGED <<path, me, exc, traceVars, files, code, faulted>>

\* In its constructors, its methods or, while scopes unwind, its destructors.
PluginExits(c) == wpc \in {"load", "run", "unwind"} /\ c \in RogueExits /\ Vanish
-----------------------------------------------------------------------------
WorkerInit ==
  /\ wpc = "idle" /\ path \in Paths /\ me = 0
  /\ exc = "none" /\ session = "none" /\ stopped = FALSE
  /\ open = <<>> /\ buffer = <<>> /\ data = <<>> /\ code = NoCode
  /\ files \in [Paths -> {NoFile, OldFile}]
  /\ emitted = <<>> /\ faulted = FALSE

\* What the process does by itself, short of ending.
Internal ==
  \/ StartSession \/ LoadSolver
  \/ \E k \in Exceptions \ {"none"} : Throw(k)
  \/ BeginCall \/ EndSlice \/ RunReturns \/ DestroySession
  \/ ReadBack \/ OpenOutput \/ WriteOutput \/ StopThrows \/ CloseOutput

Ends == Return \/ (\E c \in RogueExits : PluginExits(c)) \/ Vanish

\* One worker, started once.
WorkerNext ==
  \/ wpc = "idle" /\ \E p \in Paths : Exec(1, p)
  \/ RejectArguments \/ Internal \/ Ends
  \/ wpc = "gone" /\ UNCHANGED wvars

WorkerSpec == WorkerInit /\ [][WorkerNext]_wvars
-----------------------------------------------------------------------------
(* Properties.                                                             *)

WorkerTypeOK ==
  /\ wpc \in {"idle", "main", "load", "run", "unwind", "stop", "open", "write",
              "close", "leave", "gone"}
  /\ path \in Paths /\ me \in Nat
  /\ exc \in Exceptions
  /\ session \in {"none", "recording", "stopped"}
  /\ stopped \in BOOLEAN
  /\ open \in Seq(Slices)
  /\ buffer \in Seq(Events) /\ data \in Seq(Events) /\ emitted \in Seq(Events)
  /\ files \in [Paths -> Contents]
  /\ code \in 0..NoCode
  /\ faulted \in BOOLEAN

\* The events of a benchmark that the trace buffer still holds at the end.
Kept == IF Len(emitted) > Capacity
          THEN SubSeq(emitted, Len(emitted) - Capacity + 1, Len(emitted))
          ELSE emitted

Returned == wpc = "gone" /\ code # NoCode

\* Exit code 0 is a promise about the file: the worker's own trace is there,
\* with every event the buffer held when the benchmark returned.
ExitZeroMeansTrace ==
  Returned /\ code = 0 => files[path] = WholeFile(me, Kept)

\* A benchmark that throws (a failed validation, an unsupported problem) still
\* leaves its trace, written by the destructor, unless the disk failed.
FailureKeepsTrace ==
  Returned /\ session # "none" /\ ~faulted => files[path] = WholeFile(me, Kept)

Count(s, e) == Cardinality({i \in 1..Len(s) : s[i] = e})

\* In what a worker records, every SSI call and callback that begins also ends,
\* whether it returned or was unwound.  benchmark.run is closed in the trace of
\* a benchmark that threw, and is never closed in the trace of one that
\* returned, because stop() runs inside its scope.
SlicesClosed ==
  wpc = "leave" /\ session # "none" /\ ~faulted =>
    /\ Count(emitted, <<"begin", "call">>) = Count(emitted, <<"end", "call">>)
    /\ Count(emitted, <<"begin", "run">>) - Count(emitted, <<"end", "run">>)
         = IF exc = "none" THEN 1 ELSE 0

\* A trace that this worker has written out is final: unwinding never runs
\* stop() again, which would replace it by the empty remains of the buffer.
TraceWrittenOnce ==
  [][\A p \in Paths : files[p].what = "whole" /\ files[p].by = me'
       => files'[p] = files[p]]_wvars

=============================================================================
