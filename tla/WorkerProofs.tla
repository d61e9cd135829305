---------------------------- MODULE WorkerProofs ----------------------------
(***************************************************************************)
(* Proofs about module Worker, for every capacity of the trace buffer,     *)
(* every nesting of slices and every set of disk faults.                   *)
(*                                                                         *)
(* What the trace file holds depends on what was read back into the local  *)
(* of stop(), that on the buffer, and that on what was recorded; WInv says *)
(* at which place of run_worker each of the three is to be trusted.  It is *)
(* stated for a worker of any number, for module GymProofs.                *)
(***************************************************************************)
EXTENDS Worker, SequenceTheorems, FiniteSetTheorems, TLAPS

\* The places before a stop() that succeeds.
Unwritten ==
  \/ wpc \in {"idle", "main", "load", "run", "stop", "open", "write"}
  \/ wpc = "unwind" /\ ~stopped

\* What is known of the exception, the exit code and the disk.
EndKnown ==
  /\ wpc = "idle" => me = 0
  /\ wpc # "gone" => code = NoCode
  /\ wpc \in {"idle", "main", "load", "run"} => ~faulted
  /\ exc = "none" /\ wpc \in {"unwind", "leave"} => stopped
  /\ exc = "none" /\ "close" \notin DiskFaults => ~faulted
  /\ Returned => code = ExitCodeOf(exc) /\ (exc = "none" => stopped)

\* The session is stopped once, unless the disk failed.
SessionKnown ==
  /\ stopped => session = "stopped" /\ wpc \in {"close", "unwind", "leave", "gone"}
  /\ wpc = "close" => stopped
  /\ wpc = "main" => session = "none"
  /\ wpc \in {"load", "run"} => session = "recording"
  /\ wpc \in {"unwind", "stop"} /\ ~stopped /\ ~faulted => session = "recording"
  /\ wpc \in {"open", "write", "close"} => session = "stopped"
  /\ wpc = "leave" \/ Returned => stopped \/ faulted \/ session = "none"

\* From the recorded events through the buffer to the data of stop().
DataKnown ==
  /\ session = "none" => buffer = <<>> /\ emitted = <<>>
  /\ session = "recording" => buffer = Kept
  /\ wpc \in {"open", "write", "close"} /\ ~faulted => data = Kept

\* From the data to the file.  An earlier worker has a smaller number.
FilesKnown ==
  /\ \A p \in Paths : files[p].by <= me
  /\ Unwritten => \A p \in Paths : ~ (files[p].what = "whole" /\ files[p].by = me)
  /\ wpc = "write" => files[path].what = "cut"
  /\ wpc = "close" => files[path].what = "cut" \/ files[path] = WholeFile(me, data)
  /\ stopped /\ ~faulted /\ (wpc \in {"unwind", "leave"} \/ Returned)
       => files[path] = WholeFile(me, Kept)

WInv == WorkerTypeOK /\ EndKnown /\ SessionKnown /\ DataKnown /\ FilesKnown
-----------------------------------------------------------------------------
(* The ring buffer.                                                        *)

\* What a buffer keeps of the events s.
KeptOf(s) == IF Len(s) > Capacity THEN SubSeq(s, Len(s) - Capacity + 1, Len(s)) ELSE s

LEMMA KeptOfType ==
  ASSUME NEW s \in Seq(Events)
  PROVE  /\ KeptOf(s) \in Seq(Events)
         /\ Len(KeptOf(s)) = IF Len(s) > Capacity THEN Capacity ELSE Len(s)
         /\ \A i \in 1..Len(KeptOf(s)) : KeptOf(s)[i] = s[Len(s) - Len(KeptOf(s)) + i]
<1>1. Capacity \in Nat \ {0} /\ Len(s) \in Nat
  BY WorkerAssumption DEF WorkerAssumption
<1>2. CASE Len(s) > Capacity
  <2>1. \A i \in Len(s) - Capacity + 1 .. Len(s) : s[i] \in Events
    BY <1>1, <1>2
  <2>2. /\ KeptOf(s) \in Seq(Events) /\ Len(KeptOf(s)) = Capacity
        /\ \A i \in 1..Capacity : KeptOf(s)[i] = s[Len(s) - Capacity + 1 + i - 1]
    BY <1>1, <1>2, <2>1, SubSeqProperties DEF KeptOf
  <2> QED BY <1>1, <1>2, <2>2
<1>3. CASE ~ (Len(s) > Capacity)
  BY <1>1, <1>3 DEF KeptOf
<1> QED BY <1>2, <1>3

\* Recording one more event and dropping the oldest keeps the newest of all.
LEMMA NewestKept ==
  ASSUME NEW s \in Seq(Events), NEW e \in Events
  PROVE  Newest(Append(KeptOf(s), e)) = KeptOf(Append(s, e))
<1> DEFINE k == KeptOf(s)
           a == Append(s, e)
           n == Newest(Append(k, e))
<1>1. Capacity \in Nat \ {0} /\ Len(s) \in Nat
  BY WorkerAssumption DEF WorkerAssumption
<1>2. /\ k \in Seq(Events)
      /\ Len(k) = IF Len(s) > Capacity THEN Capacity ELSE Len(s)
      /\ \A i \in 1..Len(k) : k[i] = s[Len(s) - Len(k) + i]
  BY KeptOfType
<1>3. /\ a \in Seq(Events) /\ Len(a) = Len(s) + 1
      /\ \A i \in 1..Len(a) : a[i] = IF i = Len(s) + 1 THEN e ELSE s[i]
  BY AppendProperties, <1>1
<1>4. /\ KeptOf(a) \in Seq(Events)
      /\ Len(KeptOf(a)) = IF Len(a) > Capacity THEN Capacity ELSE Len(a)
      /\ \A i \in 1..Len(KeptOf(a)) : KeptOf(a)[i] = a[Len(a) - Len(KeptOf(a)) + i]
  BY <1>3, KeptOfType
<1>5. /\ Append(k, e) \in Seq(Events) /\ Len(Append(k, e)) = Len(k) + 1
      /\ Append(k, e) # <<>>
      /\ \A i \in 1..Len(k) + 1 : Append(k, e)[i] = IF i = Len(k) + 1 THEN e ELSE k[i]
  BY <1>1, <1>2, AppendProperties
<1>6. CASE Len(s) < Capacity
  <2>1. n = Append(k, e) /\ k = s /\ KeptOf(a) = a
    BY <1>1, <1>2, <1>3, <1>5, <1>6 DEF Newest, KeptOf
  <2> QED BY <2>1
<1>7. CASE ~ (Len(s) < Capacity)
  <2>1. Len(k) = Capacity /\ Len(KeptOf(a)) = Capacity
    BY <1>1, <1>2, <1>3, <1>4, <1>7
  <2>2. n = Tail(Append(k, e))
    BY <1>1, <1>5, <2>1 DEF Newest
  <2>3. /\ n \in Seq(Events) /\ Len(n) = Capacity
        /\ \A i \in 1..Capacity : n[i] = Append(k, e)[i + 1]
    BY <1>1, <1>5, <2>1, <2>2, HeadTailProperties
  <2>4. ASSUME NEW i \in 1..Capacity
        PROVE  n[i] = KeptOf(a)[i]
    <3>1. n[i] = IF i = Capacity THEN e ELSE k[i + 1]
      BY <1>1, <1>5, <2>1, <2>3
    <3>2. KeptOf(a)[i] = a[Len(s) + 1 - Capacity + i]
      BY <1>3, <1>4, <2>1
    <3>3. CASE i = Capacity
      BY <1>1, <1>3, <3>1, <3>2, <3>3
    <3>4. CASE i # Capacity
      <4>1. k[i + 1] = s[Len(s) - Capacity + i + 1]
        <5>1. i + 1 \in 1..Len(k) /\ i \in Int
          BY <1>1, <2>1, <3>4
        <5>2. k[i + 1] = s[Len(s) - Len(k) + (i + 1)]
          BY <1>2, <5>1
        <5> QED BY <1>1, <2>1, <5>1, <5>2
      <4>2. a[Len(s) + 1 - Capacity + i] = s[Len(s) + 1 - Capacity + i]
        BY <1>1, <1>3, <1>7, <3>4
      <4> QED BY <1>1, <3>1, <3>2, <3>4, <4>1, <4>2
    <3> QED BY <3>3, <3>4
  <2> QED BY <1>4, <2>1, <2>3, <2>4, SeqEqual
<1> QED BY <1>1, <1>6, <1>7

\* Recording keeps the types and the newest events.
LEMMA EmitKeeps ==
  ASSUME WorkerTypeOK, session = "recording" => buffer = Kept, NEW e \in Events, Emit(e)
  PROVE  /\ buffer' \in Seq(Events) /\ emitted' \in Seq(Events)
         /\ session = "recording" => buffer' = Kept'
         /\ session # "recording" => UNCHANGED <<buffer, emitted>>
<1>1. Kept = KeptOf(emitted) /\ Kept' = KeptOf(emitted')
  BY DEF Kept, KeptOf
<1>2. emitted \in Seq(Events) /\ buffer \in Seq(Events)
  BY DEF WorkerTypeOK
<1>3. CASE session = "recording"
  <2>1. emitted' = Append(emitted, e) /\ buffer' = Newest(Append(KeptOf(emitted), e))
    BY <1>1, <1>3 DEF Emit
  <2>2. emitted' \in Seq(Events)
    BY <1>2, <2>1, AppendProperties
  <2>3. buffer' = KeptOf(emitted')
    BY <1>2, <2>1, NewestKept
  <2> QED BY <1>1, <1>3, <2>2, <2>3, KeptOfType
<1>4. CASE session # "recording"
  BY <1>2, <1>4 DEF Emit
<1> QED BY <1>3, <1>4
-----------------------------------------------------------------------------
(* The invariant.                                                          *)

LEMMA WorkerInitInvariant == WorkerInit => WInv
<1> SUFFICES ASSUME WorkerInit PROVE WInv
  OBVIOUS
<1>1. <<>> \in Seq(Events) /\ <<>> \in Seq(Slices)
  OBVIOUS
<1>2. \A p \in Paths : files[p] \in {NoFile, OldFile}
  BY DEF WorkerInit
<1>3. NoFile \in Contents /\ OldFile \in Contents
  BY <1>1 DEF NoFile, OldFile, Contents
<1>4. WorkerTypeOK
  <2>1. files \in [Paths -> Contents]
    BY <1>3 DEF WorkerInit
  <2>2. code \in 0..NoCode
    BY DEF WorkerInit, NoCode
  <2> QED BY <1>1, <2>1, <2>2 DEF WorkerInit, WorkerTypeOK, Exceptions
<1>5. FilesKnown
  BY <1>2 DEF WorkerInit, FilesKnown, NoFile, OldFile, Unwritten, Returned
<1> QED
  BY <1>4, <1>5 DEF WorkerInit, WInv, EndKnown, SessionKnown, DataKnown, Returned

\* The parts of the invariant that speak of places, of what was recorded and of
\* the file; the lemmas below expand them together.
LEMMA StartInvariant ==
  ASSUME WInv,
         \/ RejectArguments \/ StartSession
         \/ \E k \in Exceptions \ {"none"} : Throw(k)
         \/ RunReturns \/ DestroySession
  PROVE  WInv'
<1> USE DEF WInv, WorkerTypeOK, EndKnown, SessionKnown, DataKnown, FilesKnown, Unwritten,
            Returned, Kept, traceVars, WholeFile
<1>1. CASE RejectArguments
  BY <1>1 DEF RejectArguments, Exceptions
<1>2. CASE StartSession
  BY <1>2, WorkerAssumption DEF StartSession, WorkerAssumption
<1>3. CASE \E k \in Exceptions \ {"none"} : Throw(k)
  BY <1>3 DEF Throw
<1>4. CASE RunReturns
  BY <1>4 DEF RunReturns
<1>5. CASE DestroySession
  BY <1>5 DEF DestroySession
<1> QED BY <1>1, <1>2, <1>3, <1>4, <1>5

LEMMA RecordInvariant ==
  ASSUME WInv, LoadSolver \/ BeginCall \/ EndSlice
  PROVE  WInv'
<1>1. PICK e \in Events : Emit(e)
  <2>1. CASE LoadSolver
    BY <2>1 DEF LoadSolver, Events, Slices
  <2>2. CASE BeginCall
    BY <2>2 DEF BeginCall, Events, Slices
  <2>3. CASE EndSlice
    <3>1. open \in Seq(Slices) /\ open # <<>>
      BY <2>3 DEF EndSlice, WInv, WorkerTypeOK
    <3>2. Last(open) \in Slices
      BY <3>1 DEF Last
    <3> QED BY <2>3, <3>2 DEF EndSlice, Events
  <2> QED BY <2>1, <2>2, <2>3
<1>2. /\ buffer' \in Seq(Events) /\ emitted' \in Seq(Events)
      /\ session = "recording" => buffer' = Kept'
      /\ session # "recording" => UNCHANGED <<buffer, emitted>>
  BY <1>1, EmitKeeps DEF WInv, DataKnown
<1>3. open' \in Seq(Slices)
  <2>1. CASE LoadSolver
    BY <2>1 DEF LoadSolver, Slices
  <2>2. CASE BeginCall
    BY <2>2 DEF BeginCall, Slices, WInv, WorkerTypeOK
  <2>3. CASE EndSlice
    <3>1. open \in Seq(Slices) /\ open # <<>>
      BY <2>3 DEF EndSlice, WInv, WorkerTypeOK
    <3>2. Front(open) \in Seq(Slices)
      BY <3>1, SubSeqProperties DEF Front
    <3> QED BY <2>3, <3>2 DEF EndSlice
  <2> QED BY <2>1, <2>2, <2>3
<1>4. /\ UNCHANGED <<path, me, exc, session, stopped, data, files, code, faulted>>
      /\ wpc' = IF wpc = "load" THEN "run" ELSE wpc
      /\ wpc \in {"load", "run", "unwind"}
  BY DEF LoadSolver, BeginCall, EndSlice
<1>5. WorkerTypeOK'
  BY <1>2, <1>3, <1>4 DEF WInv, WorkerTypeOK
<1>6. EndKnown' /\ SessionKnown'
  BY <1>4 DEF WInv, EndKnown, SessionKnown, Returned
<1>7. DataKnown'
  BY <1>2, <1>4 DEF WInv, SessionKnown, DataKnown
<1>8. FilesKnown'
  <2>1. stopped => Kept' = Kept
    BY <1>2 DEF WInv, SessionKnown, Kept
  <2> QED BY <1>4, <2>1 DEF WInv, FilesKnown, Unwritten, Returned, WholeFile
<1> QED BY <1>5, <1>6, <1>7, <1>8 DEF WInv

LEMMA StopInvariant ==
  ASSUME WInv, ReadBack \/ OpenOutput \/ WriteOutput \/ StopThrows \/ CloseOutput
  PROVE  WInv'
<1> USE DEF WInv, EndKnown, SessionKnown, DataKnown, FilesKnown, Unwritten, Returned,
            Kept, traceVars
<1>1. CASE ReadBack
  BY <1>1 DEF ReadBack, WorkerTypeOK, WholeFile
<1>2. CASE OpenOutput
  <2>1. files' \in [Paths -> Contents]
    BY <1>2 DEF OpenOutput, WorkerTypeOK, CutFile, Contents
  <2>2. WorkerTypeOK'
    BY <1>2, <2>1 DEF OpenOutput, WorkerTypeOK
  <2>3. FilesKnown'
    BY <1>2, <2>1 DEF OpenOutput, WorkerTypeOK, CutFile, WholeFile
  <2> QED BY <1>2, <2>2, <2>3 DEF OpenOutput, WorkerTypeOK
<1>3. Written \in [Paths -> Contents]
  BY DEF WorkerTypeOK, Written, WholeFile, Contents
<1>4. CASE WriteOutput
  <2>1. WorkerTypeOK'
    BY <1>3, <1>4 DEF WriteOutput, WorkerTypeOK
  <2>2. FilesKnown'
    BY <1>3, <1>4 DEF WriteOutput, WorkerTypeOK, Written, WholeFile
  <2> QED BY <1>4, <2>1, <2>2 DEF WriteOutput, WorkerTypeOK
<1>5. CASE StopThrows
  BY <1>5 DEF StopThrows, WorkerTypeOK, WholeFile, Exceptions
<1>6. CASE CloseOutput
  <2>1. WorkerTypeOK'
    BY <1>3, <1>6 DEF CloseOutput, WorkerTypeOK
  <2>2. path \in Paths /\ me \in Nat /\ files \in [Paths -> Contents]
    BY DEF WorkerTypeOK
  <2>3. /\ \A p \in Paths \ {path} : files'[p] = files[p]
        /\ files'[path] \in {files[path], WholeFile(me, data)}
        /\ ~faulted' => files'[path] = WholeFile(me, data)
    BY <1>6, <2>2 DEF CloseOutput, Written
  <2>4. WholeFile(me, data).by = me
    BY DEF WholeFile
  <2>5. \A p \in Paths : files'[p].by <= me
    BY <2>2, <2>3, <2>4
  <2>6. faulted' \/ (~faulted /\ data = Kept)
    BY <1>6 DEF CloseOutput, WorkerTypeOK
  <2>7. stopped' /\ wpc' \in {"unwind", "leave"} /\ UNCHANGED <<path, me, Kept>>
    BY <1>6 DEF CloseOutput
  <2>8. ~faulted' => files'[path'] = WholeFile(me', Kept')
    BY <2>3, <2>6, <2>7
  <2>9. FilesKnown'
    BY <2>5, <2>7, <2>8 DEF WholeFile
  <2> QED BY <1>6, <2>1, <2>9 DEF CloseOutput, WorkerTypeOK
<1> QED BY <1>1, <1>2, <1>4, <1>5, <1>6

LEMMA EndInvariant ==
  ASSUME WInv, Return \/ Vanish
  PROVE  WInv'
<1> USE DEF WInv, WorkerTypeOK, EndKnown, SessionKnown, DataKnown, FilesKnown, Unwritten,
            Returned, Kept, traceVars, WholeFile
<1>1. CASE Return
  <2>1. code' = ExitCodeOf(exc) /\ code' \in 0..NoCode /\ code' # NoCode
    BY <1>1 DEF Return, ExitCodeOf, NoCode
  <2> QED BY <1>1, <2>1 DEF Return, ExitCodeOf
<1>2. CASE Vanish
  BY <1>2 DEF Vanish
<1> QED BY <1>1, <1>2

\* A process starts with a number that no file carries yet.
LEMMA ExecInvariant ==
  ASSUME WInv, NEW w \in Nat, w > me, NEW p \in Paths, Exec(w, p)
  PROVE  WInv'
<1>1. <<>> \in Seq(Events) /\ <<>> \in Seq(Slices)
  OBVIOUS
<1>2. WorkerTypeOK'
  <2>1. code' \in 0..NoCode
    BY DEF Exec, NoCode
  <2> QED BY <1>1, <2>1 DEF Exec, WInv, WorkerTypeOK, Exceptions
<1>3. FilesKnown'
  <2>1. \A q \in Paths : files[q].by \in Nat /\ files[q].by <= me
    BY DEF WInv, WorkerTypeOK, Contents, FilesKnown
  <2>2. \A q \in Paths : files'[q].by <= me' /\ files'[q].by # me'
    BY <2>1 DEF Exec, WInv, WorkerTypeOK
  <2> QED BY <2>2 DEF Exec, FilesKnown, Unwritten, Returned
<1> QED
  BY <1>2, <1>3 DEF Exec, WInv, EndKnown, SessionKnown, DataKnown, Returned

LEMMA WorkerStutter == WInv /\ UNCHANGED wvars => WInv'
BY DEF wvars, WInv, WorkerTypeOK, EndKnown, SessionKnown, DataKnown, FilesKnown, Unwritten,
       Returned, Kept, WholeFile

\* Everything a process does by itself.
LEMMA ProcessInvariant ==
  WInv /\ (RejectArguments \/ Internal \/ Ends) => WInv'
BY StartInvariant, RecordInvariant, StopInvariant, EndInvariant
   DEF Internal, Ends, PluginExits

LEMMA WorkerNextInvariant == WInv /\ [WorkerNext]_wvars => WInv'
<1> SUFFICES ASSUME WInv, [WorkerNext]_wvars PROVE WInv'
  OBVIOUS
<1>1. CASE wpc = "idle" /\ \E p \in Paths : Exec(1, p)
  <2>1. PICK p \in Paths : Exec(1, p)
    BY <1>1
  <2>2. 1 \in Nat /\ 1 > me
    BY <1>1 DEF WInv, EndKnown
  <2> QED BY <2>1, <2>2, ExecInvariant
<1>2. CASE RejectArguments \/ Internal \/ Ends
  BY <1>2, ProcessInvariant
<1>3. CASE UNCHANGED wvars
  BY <1>3, WorkerStutter
<1> QED BY <1>1, <1>2, <1>3 DEF WorkerNext

THEOREM WorkerInvariance == WorkerSpec => []WInv
<1>1. WorkerInit => WInv
  BY WorkerInitInvariant
<1>2. WInv /\ [WorkerNext]_wvars => WInv'
  BY WorkerNextInvariant
<1> QED BY <1>1, <1>2, PTL DEF WorkerSpec
-----------------------------------------------------------------------------
(* The properties.                                                         *)

\* The types of the worker's state.
THEOREM WorkerTypeCorrect == WorkerSpec => []WorkerTypeOK
<1>1. WInv => WorkerTypeOK
  BY DEF WInv
<1> QED BY <1>1, WorkerInvariance, PTL

\* What a process does to a whole trace: nothing, unless an earlier worker left it.
LEMMA WholeTraceChanges ==
  ASSUME WInv, RejectArguments \/ Internal \/ Ends, NEW p \in Paths,
         files[p].what = "whole", files'[p] # files[p]
  PROVE  me' = me /\ files[p].by < me
<1>1. /\ files \in [Paths -> Contents] /\ path \in Paths /\ me \in Nat
      /\ files[p].by \in Nat /\ files[p].by <= me
  BY DEF WInv, WorkerTypeOK, FilesKnown, Contents
<1>2. OpenOutput \/ WriteOutput \/ CloseOutput
  BY DEF Internal, Ends, RejectArguments, StartSession, LoadSolver, Throw, BeginCall, EndSlice,
         RunReturns, DestroySession, ReadBack, StopThrows, Return, PluginExits, Vanish
<1>3. UNCHANGED me
  BY <1>2 DEF OpenOutput, WriteOutput, CloseOutput
<1>4. CASE OpenOutput
  BY <1>1, <1>3, <1>4 DEF OpenOutput, WInv, FilesKnown, Unwritten
<1>5. CASE WriteOutput
  BY <1>1, <1>3, <1>5 DEF WriteOutput, Written, WInv, FilesKnown, Unwritten
<1>6. ~CloseOutput
  BY <1>1 DEF CloseOutput, Written, WInv, FilesKnown
<1> QED BY <1>2, <1>4, <1>5, <1>6

\* Once whole, the trace of a worker stays as it is: no second stop() replaces it.
THEOREM TraceIsWrittenOnce == WorkerSpec => TraceWrittenOnce
<1> DEFINE Kept1 == \A p \in Paths : files[p].what = "whole" /\ files[p].by = me'
                                     => files'[p] = files[p]
<1>1. WInv /\ [WorkerNext]_wvars => [Kept1]_wvars
  <2> SUFFICES ASSUME WInv, WorkerNext PROVE Kept1 \/ UNCHANGED wvars
    OBVIOUS
  <2>1. CASE wpc = "idle" /\ \E p \in Paths : Exec(1, p)
    BY <2>1 DEF Exec
  <2>2. CASE RejectArguments \/ Internal \/ Ends
    <3> SUFFICES ASSUME NEW p \in Paths, files[p].what = "whole", files[p].by = me',
                        files'[p] # files[p]
                 PROVE  FALSE
      OBVIOUS
    <3>1. me' = me /\ files[p].by < me
      BY <2>2, WholeTraceChanges
    <3> QED BY <3>1 DEF WInv, WorkerTypeOK
  <2> QED BY <2>1, <2>2 DEF WorkerNext
<1> QED BY <1>1, WorkerInvariance, PTL DEF WorkerSpec, TraceWrittenOnce

\* A benchmark that fails still leaves its trace, unless the disk failed.
THEOREM FailureLeavesTrace == WorkerSpec => []FailureKeepsTrace
<1>1. WInv => FailureKeepsTrace
  BY DEF WInv, SessionKnown, FilesKnown, FailureKeepsTrace
<1> QED BY <1>1, WorkerInvariance, PTL

\* Where closing a file does not fail, exit code 0 promises the trace.
THEOREM ExitZeroHasTrace ==
  ASSUME "close" \notin DiskFaults
  PROVE  WorkerSpec => []ExitZeroMeansTrace
<1>1. WInv => ExitZeroMeansTrace
  <2> SUFFICES ASSUME WInv, Returned, code = 0 PROVE files[path] = WholeFile(me, Kept)
    BY DEF ExitZeroMeansTrace
  <2>1. exc = "none"
    BY DEF WInv, WorkerTypeOK, EndKnown, ExitCodeOf, Exceptions
  <2>2. stopped /\ ~faulted
    BY <2>1 DEF WInv, EndKnown
  <2> QED BY <2>2 DEF WInv, FilesKnown
<1> QED BY <1>1, WorkerInvariance, PTL

-----------------------------------------------------------------------------
(* Slices.                                                                 *)

LEMMA CountType ==
  ASSUME NEW s \in Seq(Events), NEW e
  PROVE  IsFiniteSet({i \in 1..Len(s) : s[i] = e}) /\ Count(s, e) \in Nat
<1>1. IsFiniteSet(1..Len(s))
  BY FS_Interval
<1>2. IsFiniteSet({i \in 1..Len(s) : s[i] = e})
  BY <1>1, FS_Subset
<1> QED BY <1>2, FS_CardinalityType DEF Count

LEMMA CountEmpty == \A e : Count(<<>>, e) = 0
<1> TAKE e
<1>1. {i \in 1..Len(<<>>) : <<>>[i] = e} = {}
  OBVIOUS
<1> QED BY <1>1, FS_EmptySet DEF Count

LEMMA CountAppend ==
  ASSUME NEW s \in Seq(Events), NEW d \in Events, NEW e
  PROVE  Count(Append(s, d), e) = Count(s, e) + (IF d = e THEN 1 ELSE 0)
<1> DEFINE t == Append(s, d)
           At(u) == {i \in 1..Len(u) : u[i] = e}
<1>1. Len(s) \in Nat /\ Len(t) = Len(s) + 1 /\ t[Len(t)] = d /\ \A i \in 1..Len(s) : t[i] = s[i]
  OBVIOUS
<1>2. IsFiniteSet(At(s)) /\ Cardinality(At(s)) \in Nat
  BY CountType DEF Count
<1>3. CASE d = e
  <2>1. At(t) = At(s) \cup {Len(t)} /\ Len(t) \notin At(s)
    BY <1>1, <1>3
  <2>2. Cardinality(At(t)) = Cardinality(At(s)) + 1
    <3> HIDE DEF At, t
    <3> QED BY <2>1, <1>2, FS_AddElement
  <2> QED BY <2>2, <1>3 DEF Count
<1>4. CASE d # e
  <2>1. At(t) = At(s)
    BY <1>1, <1>4
  <2>2. Cardinality(At(t)) = Cardinality(At(s)) + 0
    <3> HIDE DEF At, t
    <3> QED BY <2>1, <1>2
  <2> QED BY <2>2, <1>4 DEF Count
<1> QED BY <1>3, <1>4

\* The slices of a kind that have begun and not ended, in what was recorded.
Unended(kind, n) == Count(emitted, <<"begin", kind>>) = Count(emitted, <<"end", kind>>) + n

\* What the stack of open slices looks like.
OpenKnown ==
  /\ wpc \in {"main", "load"} => open = <<>>
  /\ wpc = "run" => open # <<>>
  /\ wpc \in {"main", "load", "run"} => exc = "none"
  /\ wpc = "stop" /\ exc = "none" => open = <<"run">>
  /\ wpc = "stop" /\ exc # "none" => open = <<>>
  /\ \A k \in 1..Len(open) : open[k] = IF k = 1 THEN "run" ELSE "call"

\* While the session records, the slices without an end are those of the stack;
\* stop() freezes their number.
SlicesKnown ==
  /\ session = "recording" =>
       /\ Unended("run", IF open = <<>> THEN 0 ELSE 1)
       /\ Unended("call", IF open = <<>> THEN 0 ELSE Len(open) - 1)
  /\ session = "stopped" /\ ~faulted =>
       Unended("run", IF exc = "none" THEN 1 ELSE 0) /\ Unended("call", 0)

SInv == OpenKnown /\ SlicesKnown

LEMMA SlicesRecorded ==
  ASSUME WInv, SInv, LoadSolver \/ BeginCall \/ EndSlice
  PROVE  SInv'
<1>1. open \in Seq(Slices) /\ emitted \in Seq(Events) /\ Len(open) \in Nat
  BY DEF WInv, WorkerTypeOK
<1>2. \A d \in Events : \A e : Count(Append(emitted, d), e) =
                                  Count(emitted, e) + (IF d = e THEN 1 ELSE 0)
  BY <1>1, CountAppend
<1>3. \A e : Count(emitted, e) \in Nat
  BY <1>1, CountType
<1>4. {<<"begin", "run">>, <<"end", "run">>, <<"begin", "call">>, <<"end", "call">>} \subseteq Events
  BY DEF Events, Slices
<1>5. CASE LoadSolver
  <2>1. session = "recording" /\ open = <<>> /\ open' = <<"run">> /\ wpc' = "run" /\ exc = "none"
    BY <1>5 DEF LoadSolver, WInv, SessionKnown, SInv, OpenKnown
  <2>2. emitted' = Append(emitted, <<"begin", "run">>) /\ UNCHANGED <<session, exc, faulted>>
    BY <1>5, <2>1 DEF LoadSolver, Emit
  <2>3. Unended("run", 1)' /\ Unended("call", 0)'
    BY <1>2, <1>3, <1>4, <2>1, <2>2 DEF SInv, SlicesKnown, Unended
  <2>4. Len(open') = 1 /\ open' # <<>> /\ open'[1] = "run"
    BY <2>1
  <2>5. OpenKnown'
    BY <2>1, <2>2, <2>4 DEF OpenKnown
  <2>6. SlicesKnown'
    BY <2>1, <2>2, <2>3, <2>4 DEF SlicesKnown, Unended
  <2> QED BY <2>5, <2>6 DEF SInv
<1>6. CASE BeginCall
  <2>1. session = "recording" /\ wpc = "run" /\ open # <<>> /\ open' = Append(open, "call")
    BY <1>6 DEF BeginCall, WInv, SessionKnown, SInv, OpenKnown
  <2>2. /\ emitted' = Append(emitted, <<"begin", "call">>)
        /\ UNCHANGED <<wpc, session, exc, faulted>>
    BY <1>6, <2>1 DEF BeginCall, Emit
  <2>3. /\ open' # <<>> /\ Len(open') = Len(open) + 1
        /\ \A n \in 1..Len(open') : open'[n] = IF n = 1 THEN "run" ELSE "call"
    BY <1>1, <2>1 DEF SInv, OpenKnown
  <2>4. Unended("run", 1) /\ Unended("call", Len(open) - 1)
    BY <2>1 DEF SInv, SlicesKnown, Unended
  <2>5. Unended("run", 1)' /\ Unended("call", Len(open) - 1)'
    <3>1. \A what \in {"begin", "end"}, kind \in {"run", "call"} :
            Count(emitted', <<what, kind>>) = Count(emitted, <<what, kind>>)
              + (IF what = "begin" /\ kind = "call" THEN 1 ELSE 0)
      BY <1>2, <1>4, <2>2
    <3> QED BY <1>1, <1>3, <2>3, <2>4, <3>1 DEF Unended
  <2>6. OpenKnown'
    BY <2>1, <2>2, <2>3 DEF SInv, OpenKnown
  <2>7. SlicesKnown'
    BY <2>1, <2>2, <2>3, <2>5 DEF SlicesKnown, Unended
  <2> QED BY <2>6, <2>7 DEF SInv
<1>7. CASE EndSlice
  <2>1. /\ wpc \in {"run", "unwind"} /\ open # <<>> /\ open' = Front(open)
        /\ wpc = "run" => Len(open) > 1
        /\ UNCHANGED <<wpc, session, exc, faulted>> /\ Emit(<<"end", Last(open)>>)
    BY <1>1, <1>7 DEF EndSlice
  <2>2. /\ Len(open) \in Nat \ {0} /\ Len(open') = Len(open) - 1
        /\ \A n \in 1..Len(open') : open'[n] = open[n]
        /\ open' = <<>> <=> Len(open) = 1
    <3>1. Len(open) \in Nat \ {0} /\ \A n \in 1..Len(open) - 1 : open[n] \in Slices
      BY <1>1, <2>1
    <3>2. open' = SubSeq(open, 1, Len(open) - 1)
      BY <2>1 DEF Front
    <3>3. Len(open) - 1 \in Int /\ 1 \in Int
      BY <3>1
    <3>4. /\ open' \in Seq(Slices)
          /\ Len(open') = IF 1 <= Len(open) - 1 THEN (Len(open) - 1) - 1 + 1 ELSE 0
          /\ \A n \in 1..(Len(open) - 1) - 1 + 1 : open'[n] = open[1 + n - 1]
      BY ONLY <3>1, <3>2, <3>3, SubSeqProperties
    <3>5. Len(open') = Len(open) - 1
      <4>1. \A n \in Nat \ {0} : (IF 1 <= n - 1 THEN (n - 1) - 1 + 1 ELSE 0) = n - 1
        OBVIOUS
      <4> QED BY <3>1, <3>4, <4>1
    <3>6. \A n \in 1..Len(open') : open'[n] = open[n]
      BY <3>1, <3>4, <3>5
    <3> QED BY <3>1, <3>4, <3>5, <3>6
  <2>3. Last(open) = IF Len(open) = 1 THEN "run" ELSE "call"
    <3>1. Len(open) \in 1..Len(open)
      BY <2>2
    <3> QED BY <3>1 DEF SInv, OpenKnown, Last
  <2>4. OpenKnown'
    BY <2>1, <2>2 DEF SInv, OpenKnown
  <2>5. CASE session = "recording"
    <3>1. emitted' = Append(emitted, <<"end", Last(open)>>)
      BY <2>1, <2>5 DEF Emit
    <3>2. Unended("run", 1) /\ Unended("call", Len(open) - 1)
      BY <2>1, <2>5 DEF SInv, SlicesKnown, Unended
    <3>3. CASE Len(open) = 1
      <4>1. Unended("run", 0)' /\ Unended("call", 0)'
        BY <1>2, <1>3, <1>4, <2>3, <3>1, <3>2, <3>3 DEF Unended
      <4> QED BY <2>1, <2>2, <2>4, <2>5, <3>3, <4>1 DEF SInv, SlicesKnown, Unended
    <3>4. CASE Len(open) > 1
      <4>1. Unended("run", 1)' /\ Unended("call", Len(open) - 1)'
        <5>1. \A what \in {"begin", "end"}, kind \in {"run", "call"} :
                Count(emitted', <<what, kind>>) = Count(emitted, <<what, kind>>)
                  + (IF what = "end" /\ kind = "call" THEN 1 ELSE 0)
          <6>1. Last(open) = "call"
            BY <2>2, <2>3, <3>4
          <6>2. emitted' = Append(emitted, <<"end", "call">>)
            BY <3>1, <6>1
          <6> QED BY <1>2, <1>4, <6>2
        <5> QED BY <1>3, <2>2, <3>2, <3>4, <5>1 DEF Unended
      <4> QED BY <2>1, <2>2, <2>4, <2>5, <3>4, <4>1 DEF SInv, SlicesKnown, Unended
    <3> QED BY <2>2, <3>3, <3>4
  <2>6. CASE session # "recording"
    <3>1. UNCHANGED emitted
      BY <2>1, <2>6 DEF Emit
    <3> QED BY <2>1, <2>4, <2>6, <3>1 DEF SInv, SlicesKnown, Unended
  <2> QED BY <2>5, <2>6
<1> QED BY <1>5, <1>6, <1>7

LEMMA SlicesNext == WInv /\ SInv /\ [WorkerNext]_wvars => SInv'
<1> SUFFICES ASSUME WInv, SInv, [WorkerNext]_wvars PROVE SInv'
  OBVIOUS
<1> USE DEF SInv, OpenKnown, SlicesKnown, Unended, traceVars
<1>1. CASE wpc = "idle" /\ \E p \in Paths : Exec(1, p)
  BY <1>1 DEF Exec
<1>2. CASE LoadSolver \/ BeginCall \/ EndSlice
  BY <1>2, SlicesRecorded
<1>3. CASE StartSession
  BY <1>3, CountEmpty DEF StartSession, WInv, SessionKnown, DataKnown
<1>4. CASE RejectArguments \/ \E k \in Exceptions \ {"none"} : Throw(k)
  BY <1>4 DEF RejectArguments, Throw, WInv, SessionKnown
<1>5. CASE RunReturns \/ DestroySession
  BY <1>5 DEF RunReturns, DestroySession, WInv, EndKnown
<1>6. CASE ReadBack
  <2>1. /\ wpc = "stop" /\ wpc' = "open" /\ session' = "stopped"
        /\ UNCHANGED <<open, exc, emitted, faulted>>
    BY <1>6 DEF ReadBack
  <2>2. ~faulted => session = "recording"
    BY <2>1 DEF WInv, SessionKnown
  <2>3. Len(<<"run">>) = 1 /\ <<"run">> # <<>>
    OBVIOUS
  <2>4. CASE exc = "none" /\ ~faulted
    <3>1. open # <<>> /\ Len(open) - 1 = 0
      BY <2>1, <2>3, <2>4
    <3>2. Unended("run", 1) /\ Unended("call", 0)
      BY <2>2, <2>4, <3>1
    <3> QED BY <2>1, <2>4, <3>2
  <2>5. CASE exc # "none" /\ ~faulted
    BY <2>1, <2>2, <2>5
  <2> QED BY <2>1, <2>4, <2>5
<1>7. CASE OpenOutput \/ WriteOutput \/ StopThrows \/ CloseOutput
  BY <1>7 DEF OpenOutput, WriteOutput, StopThrows, CloseOutput, WInv, SessionKnown
<1>8. CASE Ends \/ UNCHANGED wvars
  BY <1>8 DEF Ends, Return, PluginExits, Vanish, wvars
<1> QED BY <1>1, <1>2, <1>3, <1>4, <1>5, <1>6, <1>7, <1>8 DEF WorkerNext, Internal

\* Every traced call that begins ends, in every trace of every length; the slice
\* benchmark.run does exactly if the benchmark threw.
THEOREM SlicesAreClosed == WorkerSpec => []SlicesClosed
<1>1. WorkerInit => SInv
  BY DEF WorkerInit, SInv, OpenKnown, SlicesKnown
<1>2. WInv /\ SInv => SlicesClosed
  <2> SUFFICES ASSUME WInv, SInv, wpc = "leave", session # "none", ~faulted
               PROVE  SlicesClosed
    BY DEF SlicesClosed
  <2>1. session = "stopped"
    BY DEF WInv, SessionKnown
  <2>2. \A e : Count(emitted, e) \in Nat
    BY CountType DEF WInv, WorkerTypeOK
  <2> QED BY <2>1, <2>2 DEF SInv, SlicesKnown, Unended, SlicesClosed
<1> QED BY <1>1, <1>2, SlicesNext, WorkerInvariance, PTL DEF WorkerSpec

=============================================================================
