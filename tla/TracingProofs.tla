---------------------------- MODULE TracingProofs ----------------------------
(***************************************************************************)
(* Proofs about the tracing wrappers.                                      *)
(*                                                                         *)
(* First TracedCalls: tracing is invisible and the trace is complete, for  *)
(* all data, any number of callbacks in a call and exceptions anywhere.    *)
(*                                                                         *)
(* Then TracingSolver, for any number of objects: the plugin's objects     *)
(* stay alive while they are used, see no wrapper, have one wrapper each,  *)
(* and nothing keeps itself alive.  The invariant says of every kind of    *)
(* object what it is built on and what keeps it; it holds between any two  *)
(* calls into the plugin, so also when the second throws.                  *)
(***************************************************************************)
EXTENDS TracedCalls, TracingSolver, FoldProofs, SequenceTheorems

\* The wrappers hand over a function for each callback, in its place.
InPlace(methods) ==
  \A m \in DOMAIN methods :
    /\ Len(methods[m]) \in Nat
    /\ \A n \in 1..Len(methods[m]) : methods[m][n].callback = n

\* A call of the method m as the benchmark makes it, and everything that the plugin
\* sends or is sent.
BenchmarkCalls(m) == [kind : {"call"}, data : Arguments(m)]
PluginMessages ==
  [kind : {"call", "value", "exception"}, data : Data \cup SolveArguments(Matrices)]

\* Where the call is, what was given to the plugin, and what is on its way.
CallKnown ==
  /\ at \in {"benchmark", "method", "plugin", "lambda", "callback"}
  /\ IF at = "method" /\ msg.kind = "call" THEN msg \in BenchmarkCalls(method)
                                          ELSE msg \in PluginMessages
  /\ at # "benchmark" => method \in DOMAIN Forwarding
  /\ at \in {"plugin", "lambda", "callback"} => given = Forwarding[method]
  /\ at \in {"lambda", "callback"} => chosen \in 1..Len(given)
  /\ at = "lambda" => given[chosen].slice # "none"

\* The trace is ahead of what happened by the slice that a wrapper has just opened,
\* and behind it by the one that it is about to close.
TraceKnown ==
  /\ at \in {"benchmark", "plugin", "callback"} => events = happened
  /\ at = "method" => IF msg.kind = "call"
                        THEN happened = <<>> /\ events = <<<<"begin", method>>>>
                        ELSE happened = Append(events, <<"end", method>>)
  /\ at = "lambda" => IF msg.kind = "call"
                        THEN events = Append(happened, <<"begin", given[chosen].slice>>)
                        ELSE happened = Append(events, <<"end", given[chosen].slice>>)

TcInv == CallKnown /\ TraceKnown
-----------------------------------------------------------------------------
(* The methods.                                                            *)

LEMMA ClassesInPlace == \A class \in Classes : InPlace(class)
<1>1. InPlace(MatrixMethods)
  BY DEF InPlace, MatrixMethods, Around, Itself
<1>2. InPlace(ProblemMethods) /\ InPlace(NumericMethods) /\ InPlace(ContextMethods)
  BY DEF InPlace, ProblemMethods, NumericMethods, ContextMethods
<1>3. InPlace(GraphMethods)
  BY DEF InPlace, GraphMethods, Around
<1>4. InPlace(SparseMatrixMethods)
  BY DEF InPlace, SparseMatrixMethods, Around
<1> QED BY <1>1, <1>2, <1>3, <1>4 DEF Classes

LEMMA ForwardingInPlace == InPlace(Forwarding) /\ DOMAIN Forwarding = Methods
<1>1. DOMAIN Forwarding = Methods
  BY DEF Forwarding
<1>2. ASSUME NEW m \in Methods
      PROVE  \E class \in Classes : m \in DOMAIN class /\ Forwarding[m] = class[m]
  <2>1. \E class \in Classes : m \in DOMAIN class
    BY DEF Methods
  <2> QED BY <2>1 DEF Forwarding
<1> QED BY <1>1, <1>2, ClassesInPlace DEF InPlace
-----------------------------------------------------------------------------
(* The invariant.                                                          *)

\* Everything that is not a call of solve is data for both sides.
LEMMA MessagesOfBoth == Messages \subseteq PluginMessages
BY DEF Messages, PluginMessages

\* Unwrapping a matrix gives the matrix that was meant, and no wrapper.
LEMMA UnwrapMeans ==
  ASSUME NEW o \in Matrices \cup Wrappers
  PROVE  Unwrap(o) \in Matrices /\ Unwrap(o) = Meant(o)
<1>1. CASE o \in Wrappers
  <2>1. PICK m \in Matrices : o = [inner |-> m]
    BY <1>1 DEF Wrappers
  <2>2. Unwrap(o) = m
    BY <1>1, <2>1 DEF Unwrap
  <2>3. \A x \in Matrices : o = x \/ o = [inner |-> x] => x = m
    <3> SUFFICES ASSUME NEW x \in Matrices, o = x \/ o = [inner |-> x] PROVE x = m
      OBVIOUS
    <3>1. o # x
      BY <1>1, TcAssumption DEF TcAssumption
    <3>2. o = [inner |-> x] /\ o.inner = m
      BY <2>1, <3>1
    <3> QED BY <3>2
  <2> QED BY <2>1, <2>2, <2>3 DEF Meant
<1>2. CASE o \notin Wrappers
  <2>1. o \in Matrices /\ Unwrap(o) = o
    BY <1>2 DEF Unwrap
  <2>2. \A x \in Matrices : o # [inner |-> x]
    BY <1>2 DEF Wrappers
  <2> QED BY <2>1, <2>2 DEF Meant
<1> QED BY <1>1, <1>2

\* What the plugin receives is what was sent, and has no wrapper.
LEMMA ForwardedIsSent ==
  ASSUME at = "method", msg.kind = "call", msg \in BenchmarkCalls(method)
  PROVE  /\ Forwarded(msg) = Sent
         /\ Forwarded(msg) \in PluginMessages /\ Forwarded(msg).kind = "call"
<1>1. CASE method = Solving
  <2>1. /\ msg.data.rhs \in Matrices \cup Wrappers
        /\ msg.data.solution \in Matrices \cup Wrappers
    BY <1>1 DEF BenchmarkCalls, Arguments, SolveArguments
  <2> QED BY <1>1, <2>1, UnwrapMeans DEF Forwarded, Sent, PluginMessages, SolveArguments
<1>2. CASE method # Solving
  BY <1>2 DEF Forwarded, Sent, PluginMessages, BenchmarkCalls, Arguments
<1> QED BY <1>1, <1>2

LEMMA TcInitInvariant == TcInit => TcInv
BY MessagesOfBoth DEF TcInit, TcInv, CallKnown, TraceKnown

LEMMA TcNextInvariant == TcInv /\ [TcNext]_tcVars => TcInv'
<1> SUFFICES ASSUME TcInv, [TcNext]_tcVars PROVE TcInv'
  OBVIOUS
<1> USE MessagesOfBoth DEF TcInv, CallKnown, TraceKnown, Begin, End, Happens
<1>1. ASSUME NEW m \in Methods, Enter(m)
      PROVE  TcInv'
  <2>1. msg' \in BenchmarkCalls(m) /\ msg'.kind = "call" /\ method' = m
    BY <1>1 DEF Enter, BenchmarkCalls
  <2> QED BY <1>1, <2>1, ForwardingInPlace DEF Enter, BenchmarkCalls
<1>2. CASE Forward
  <2>1. msg' \in PluginMessages /\ msg'.kind = "call"
    BY <1>2, ForwardedIsSent DEF Forward
  <2> QED BY <1>2, <2>1 DEF Forward
<1>3. ASSUME NEW n \in 1..Len(given), PluginCallsBack(n)
      PROVE  TcInv'
  BY <1>3 DEF PluginCallsBack
<1>4. CASE CallBenchmark
  BY <1>4 DEF CallBenchmark
<1>5. CASE CallbackAnswers
  BY <1>5 DEF CallbackAnswers
<1>6. CASE LeaveLambda
  BY <1>6 DEF LeaveLambda
<1>7. CASE PluginAnswers
  BY <1>7 DEF PluginAnswers
<1>8. CASE Leave
  BY <1>8 DEF Leave
<1>9. CASE UNCHANGED tcVars
  BY <1>9 DEF tcVars, BenchmarkCalls
<1> QED BY <1>1, <1>2, <1>3, <1>4, <1>5, <1>6, <1>7, <1>8, <1>9 DEF TcNext

THEOREM TcInvariance == TcSpec => []TcInv
<1>1. TcInit => TcInv
  BY TcInitInvariant
<1>2. TcInv /\ [TcNext]_tcVars => TcInv'
  BY TcNextInvariant
<1> QED BY <1>1, <1>2, PTL DEF TcSpec

\* The trace of a finished call is what happened in it.
THEOREM TraceIsComplete == TcSpec => []TraceTellsTheCall
<1>1. TcInv => TraceTellsTheCall
  BY DEF TcInv, TraceKnown, TraceTellsTheCall
<1> QED BY <1>1, TcInvariance, PTL
-----------------------------------------------------------------------------
(* The refinement.                                                         *)

LEMMA DirectInit == TcInit => Direct!CallsInit
BY DEF TcInit, Direct!CallsInit, Direct!Answers, Direct!Messages, Messages,
       Side, Called, CalledBack, Sent

\* Each step of a wrapper carries a call or an answer one place further; a function
\* that is handed over unwrapped carries it all the way at once.
LEMMA DirectStep == TcInv /\ [TcNext]_tcVars => [Direct!CallsNext]_(Direct!callVars)
<1> SUFFICES ASSUME TcInv, [TcNext]_tcVars PROVE Direct!CallsNext \/ UNCHANGED Direct!callVars
  OBVIOUS
<1> USE TcAssumption, ForwardingInPlace
    DEF TcInv, CallKnown, TcAssumption, Side, Called, CalledBack, Direct!CallsNext, Direct!callVars,
        Direct!To, Direct!Messages, Direct!Answers, Direct!Idle, Direct!InCallback, Messages,
        PluginMessages, Sent
<1>1. ASSUME NEW m \in Methods, Enter(m)
      PROVE  Direct!Call
  <2>1. /\ at' = "method" /\ method' = m /\ msg'.kind = "call"
        /\ msg' \in [kind : {"call"}, data : Arguments(m)]
    BY <1>1 DEF Enter
  <2>2. Sent' \in PluginMessages /\ Sent'.kind = "call"
    <3>1. CASE m = Solving
      <4>1. /\ msg'.data.rhs \in Matrices \cup Wrappers
            /\ msg'.data.solution \in Matrices \cup Wrappers
        BY <2>1, <3>1 DEF Arguments, SolveArguments
      <4> QED BY <2>1, <3>1, <4>1, UnwrapMeans DEF SolveArguments
    <3>2. CASE m # Solving
      BY <2>1, <3>2 DEF Arguments
    <3> QED BY <3>1, <3>2
  <2> QED BY <1>1, <2>1, <2>2 DEF Enter, Direct!Call
<1>2. CASE Forward
  <2>1. Sent' = Sent
    BY <1>2, ForwardedIsSent DEF Forward
  <2> QED BY <1>2, <2>1 DEF Forward, Direct!Deliver
<1>3. ASSUME NEW n \in 1..Len(given), PluginCallsBack(n)
      PROVE  Direct!CallBack
  <2>1. given[n].callback = n /\ Len(given) = Len(Forwarding[method])
    BY <1>3 DEF PluginCallsBack, InPlace
  <2> QED BY <1>3, <2>1 DEF PluginCallsBack, Direct!CallBack
<1>4. CASE CallBenchmark
  <2>1. given[chosen].callback = chosen
    BY <1>4 DEF CallBenchmark, InPlace
  <2> QED BY <1>4, <2>1 DEF CallBenchmark, Direct!Deliver
<1>5. CASE CallbackAnswers
  <2>1. given[chosen].callback # 0
    BY <1>5 DEF CallbackAnswers, InPlace
  <2> QED BY <1>5, <2>1 DEF CallbackAnswers, Direct!CallbackAnswers
<1>6. CASE LeaveLambda
  BY <1>6 DEF LeaveLambda, Direct!Deliver
<1>7. CASE PluginAnswers
  BY <1>7 DEF PluginAnswers, Direct!PluginAnswers
<1>8. CASE Leave
  BY <1>8 DEF Leave, Direct!Deliver
<1>9. CASE UNCHANGED tcVars
  BY <1>9 DEF tcVars
<1> QED BY <1>1, <1>2, <1>3, <1>4, <1>5, <1>6, <1>7, <1>8, <1>9 DEF TcNext

\* Tracing is invisible to the benchmark and to the plugin.
THEOREM TracingIsInvisible == TcSpec => DirectSpec
<1>1. TcInit => Direct!CallsInit
  BY DirectInit
<1>2. TcInv /\ [TcNext]_tcVars => [Direct!CallsNext]_(Direct!callVars)
  BY DirectStep
<1> QED BY <1>1, <1>2, TcInvariance, PTL DEF TcSpec, DirectSpec, Direct!CallsSpec
-----------------------------------------------------------------------------
(* The heap. *)

Refs == [side : {"plugin", "traced", "own"}, kind : Kinds, n : Nat]

Objects == [wraps : Refs \cup {Null}, base : Seq(Refs), owners : Seq(Refs),
            cache : [Parts -> Refs \cup {Null}]]

Of(o, side, kind) == o.side = side /\ o.kind = kind

\* Inner in the heap h.
InnerIn(h, o) == IF h[o].wraps # Null THEN h[o].wraps ELSE o

Typed(h) ==
  /\ IsFiniteSet(DOMAIN h)
  /\ DOMAIN h \subseteq Refs
  /\ h \in [DOMAIN h -> Objects]

HasContexts(h) ==
  /\ PluginContext \in DOMAIN h
  /\ TracedContext \in DOMAIN h /\ h[TracedContext].wraps = PluginContext

\* What an object is built on and, if it is a wrapper, what the object behind it is
\* built on.
Shape(h, o) ==
  /\ o.side = "traced" => h[o].wraps \in DOMAIN h /\ Of(h[o].wraps, "plugin", o.kind)
  /\ o.side # "traced" => h[o].wraps = Null
  /\ o.side = "own" => o.kind \in {"matrix", "sparse"}
  /\ o.kind = "context" => o.n = 1
  /\ ~Of(o, "plugin", "numeric") => h[o].owners = h[o].base
  /\ o.side = "own" \/ o.kind = "context" => h[o].base = <<>>
  /\ o.side # "own" /\ o.kind \in {"matrix", "graph", "problem"}
       => h[o].base = <<Ref(o.side, "context", 1)>>
  /\ o.side # "own" /\ o.kind \in {"sparse", "symbolic"} =>
       \E g \in DOMAIN h :
         /\ Of(g, o.side, "graph")
         /\ h[o].base = <<g>>
         /\ o.side = "traced" => h[h[o].wraps].base = <<h[g].wraps>>
  /\ Of(o, "plugin", "numeric") =>
       \E s, m \in DOMAIN h :
         /\ Of(s, "plugin", "symbolic") /\ m.kind = "sparse" /\ m.side # "plugin"
         /\ h[o].base = <<s, InnerIn(h, m)>>
         /\ h[o].owners = <<s, m>>
  /\ Of(o, "traced", "numeric") =>
       \E s, m \in DOMAIN h :
         /\ Of(s, "traced", "symbolic") /\ m.kind = "sparse" /\ m.side # "plugin"
         /\ h[o].base = <<s, m>>
         /\ h[h[o].wraps].base = <<h[s].wraps, InnerIn(h, m)>>

\* What a problem has cached: parts of its own side, on its own graph, and a wrapper
\* only for a part that the plugin's problem has cached.
CacheShape(h, o) ==
  \A part \in Parts :
    h[o].cache[part] # Null =>
      /\ o.kind = "problem" /\ o.side # "own"
      /\ h[o].cache[part] \in DOMAIN h /\ Of(h[o].cache[part], o.side, part)
      /\ o.side = "plugin" /\ part # "graph" =>
           /\ h[o].cache["graph"] # Null
           /\ h[h[o].cache[part]].base = <<h[o].cache["graph"]>>
      /\ o.side = "traced" => h[h[o].cache[part]].wraps = h[h[o].wraps].cache[part]

WrappedOnce(h) ==
  \A o, p \in DOMAIN h : h[o].wraps = h[p].wraps /\ h[o].wraps # Null => o = p

CachedOnce(h) ==
  \A o, p \in DOMAIN h, part \in Parts :
    h[o].cache[part] = h[p].cache[part] /\ h[o].cache[part] # Null /\ o.side = p.side => o = p

\* The only wrapper of a part that a plugin's problem has cached is the one that the
\* wrapper of that problem has cached.
WrapperCached(h) ==
  \A p, w \in DOMAIN h, part \in Parts :
    p.side = "plugin" /\ h[p].cache[part] # Null /\ h[w].wraps = h[p].cache[part]
      => \E t \in DOMAIN h : h[t].wraps = p /\ h[t].cache[part] = w

HeapInv(h) ==
  /\ Typed(h)
  /\ HasContexts(h)
  /\ \A o \in DOMAIN h : Shape(h, o) /\ CacheShape(h, o)
  /\ WrappedOnce(h)
  /\ CachedOnce(h)
  /\ WrapperCached(h)

\* The bound on the objects of a kind.
Bounded(h) == \A o \in DOMAIN h : o.n <= Limit[o.kind]

TrInv ==
  /\ HeapInv(heap)
  /\ handles \subseteq DOMAIN heap
  /\ TracedContext \in handles
  /\ \A o \in handles : o.side # "plugin"
-----------------------------------------------------------------------------
(* Names of objects.                                                       *)

LEMMA RefFields ==
  ASSUME NEW side \in {"plugin", "traced", "own"}, NEW kind \in Kinds, NEW n \in Nat
  PROVE  /\ Ref(side, kind, n) \in Refs
         /\ Ref(side, kind, n).side = side /\ Ref(side, kind, n).kind = kind
         /\ Ref(side, kind, n).n = n
BY DEF Ref, Refs

LEMMA ContextFields ==
  /\ PluginContext \in Refs /\ Of(PluginContext, "plugin", "context")
  /\ TracedContext \in Refs /\ Of(TracedContext, "traced", "context")
  /\ PluginContext # TracedContext /\ Null \notin Refs
  /\ Ref("plugin", "context", 1) = PluginContext /\ Ref("traced", "context", 1) = TracedContext
  /\ PluginContext.n = 1 /\ TracedContext.n = 1
BY RefFields, TracingAssumption DEF PluginContext, TracedContext, Of, Kinds, TracingAssumption, Refs, Ref

LEMMA FreshIsNew ==
  ASSUME NEW h, DOMAIN h \subseteq Refs, Bounded(h),
         NEW side \in {"plugin", "traced", "own"}, NEW kind \in Kinds
  PROVE  /\ Fresh(h, side, kind) \in Refs \ DOMAIN h
         /\ Of(Fresh(h, side, kind), side, kind)
<1> DEFINE New(n) == Ref(side, kind, n) \notin DOMAIN h
           T == {n \in Nat \ {0} : New(n)}
<1>1. Limit[kind] \in Nat
  BY TracingAssumption DEF TracingAssumption
<1>2. Limit[kind] + 1 \in T
  BY <1>1, RefFields DEF Bounded
<1>3. PICK n \in T : \A m \in T : n <= m
  <2>1. T \in SUBSET Nat
    OBVIOUS
  <2> HIDE DEF T
  <2> QED BY <1>2, <2>1, LeastNumber
<1>4. n \in 1..Limit[kind] + 1 /\ n \in Nat
  BY <1>1, <1>2, <1>3
<1>5. \A m \in 1..n - 1 : ~New(m)
  BY <1>3, <1>4
<1>6. Ref(side, kind, n).n = n
  BY <1>4, RefFields
<1>7. \E o \in {Ref(side, kind, m) : m \in 1..Limit[kind] + 1} :
        /\ o \notin DOMAIN h
        /\ \A m \in 1..o.n - 1 : Ref(side, kind, m) \in DOMAIN h
  BY <1>3, <1>4, <1>5, <1>6
<1>8. /\ Fresh(h, side, kind) \in {Ref(side, kind, m) : m \in 1..Limit[kind] + 1}
      /\ Fresh(h, side, kind) \notin DOMAIN h
  BY <1>7 DEF Fresh
<1>9. PICK m \in 1..Limit[kind] + 1 : Fresh(h, side, kind) = Ref(side, kind, m)
  BY <1>8
<1> QED BY <1>1, <1>8, <1>9, RefFields DEF Of
-----------------------------------------------------------------------------
(* What a new object leaves alone.                                         *)

\* h2 has the object o more than h, and the objects of h are built as they were.
OneMore(h, h2, o) ==
  /\ o \notin DOMAIN h
  /\ DOMAIN h2 = DOMAIN h \cup {o}
  /\ \A x \in DOMAIN h : /\ h2[x].wraps = h[x].wraps
                        /\ h2[x].base = h[x].base
                        /\ h2[x].owners = h[x].owners

LEMMA OldShape ==
  ASSUME NEW h, NEW h2, NEW o, HeapInv(h), OneMore(h, h2, o), NEW x \in DOMAIN h
  PROVE  Shape(h2, x)
<1>1. Shape(h, x) /\ Typed(h) /\ x \in Refs
  BY DEF HeapInv, Typed
<1>2. x.side # "own" /\ x.kind \in {"sparse", "symbolic"} =>
       \E g \in DOMAIN h2 :
         /\ Of(g, x.side, "graph")
         /\ h2[x].base = <<g>>
         /\ x.side = "traced" => h2[h2[x].wraps].base = <<h2[g].wraps>>
  BY <1>1 DEF Shape, OneMore
<1>3. \A m \in DOMAIN h : InnerIn(h2, m) = InnerIn(h, m)
  BY DEF InnerIn, OneMore
<1>4. Of(x, "plugin", "numeric") =>
       \E s, m \in DOMAIN h2 :
         /\ Of(s, "plugin", "symbolic") /\ m.kind = "sparse" /\ m.side # "plugin"
         /\ h2[x].base = <<s, InnerIn(h2, m)>>
         /\ h2[x].owners = <<s, m>>
  BY <1>1, <1>3 DEF Shape, OneMore
<1>5. Of(x, "traced", "numeric") =>
       \E s, m \in DOMAIN h2 :
         /\ Of(s, "traced", "symbolic") /\ m.kind = "sparse" /\ m.side # "plugin"
         /\ h2[x].base = <<s, m>>
         /\ h2[h2[x].wraps].base = <<h2[s].wraps, InnerIn(h2, m)>>
  BY <1>1, <1>3 DEF Shape, OneMore, Of
<1>6. x.side = "traced" => h2[x].wraps \in DOMAIN h2 /\ Of(h2[x].wraps, "plugin", x.kind)
  BY <1>1 DEF Shape, OneMore
<1> QED BY <1>1, <1>2, <1>4, <1>5, <1>6 DEF Shape, OneMore

LEMMA WrapsInHeap ==
  ASSUME NEW h, HeapInv(h), NEW x \in DOMAIN h, h[x].wraps # Null
  PROVE  x.side = "traced" /\ h[x].wraps \in DOMAIN h /\ Of(h[x].wraps, "plugin", x.kind)
BY DEF HeapInv, Shape

LEMMA RememberFields ==
  ASSUME NEW h, Typed(h), NEW p \in DOMAIN h, NEW part \in Parts, NEW o
  PROVE  /\ DOMAIN Remember(h, p, part, o) = DOMAIN h
         /\ \A x \in DOMAIN h :
              /\ Remember(h, p, part, o)[x].wraps = h[x].wraps
              /\ Remember(h, p, part, o)[x].base = h[x].base
              /\ Remember(h, p, part, o)[x].owners = h[x].owners
              /\ \A q \in Parts :
                   Remember(h, p, part, o)[x].cache[q]
                     = IF x = p /\ q = part THEN o ELSE h[x].cache[q]
         /\ o \in Refs => Remember(h, p, part, o) \in [DOMAIN h -> Objects]
<1>1. \A x \in DOMAIN h : h[x] \in Objects
  BY DEF Typed
<1>2. DOMAIN h[p].cache = Parts
  BY <1>1 DEF Objects
<1> QED BY <1>1, <1>2 DEF Remember, Objects, Typed

LEMMA ObjectFields ==
  ASSUME NEW wraps \in Refs \cup {Null}, NEW base \in Seq(Refs)
  PROVE  /\ Object(wraps, base) \in Objects
         /\ Object(wraps, base).wraps = wraps
         /\ Object(wraps, base).base = base /\ Object(wraps, base).owners = base
         /\ Object(wraps, base).cache = NoParts
         /\ \A part \in Parts : NoParts[part] = Null
BY DEF Object, Objects, NoParts

\* An object that no object points to yet is put into the heap: a plugin's object, a
\* matrix of the benchmark, or the wrapper of an object that has none and that no
\* problem has cached.
LEMMA AddObject ==
  ASSUME NEW h, HeapInv(h), NEW o \in Refs \ DOMAIN h, NEW object \in Objects,
         object.cache = NoParts,
         Shape(Put(h, o, object), o),
         object.wraps # Null =>
           /\ object.wraps \in DOMAIN h
           /\ \A x \in DOMAIN h :
                /\ h[x].wraps # object.wraps
                /\ \A part \in Parts : h[x].cache[part] # object.wraps
  PROVE  HeapInv(Put(h, o, object))
<1> DEFINE h2 == Put(h, o, object)
<1>1. /\ DOMAIN h2 = DOMAIN h \cup {o} /\ h2[o] = object
      /\ \A x \in DOMAIN h : h2[x] = h[x]
  BY DEF Put
<1>2. OneMore(h, h2, o)
  BY <1>1 DEF OneMore
<1>3. Shape(h2, o)
  OBVIOUS
<1> HIDE DEF h2
<1>4. Typed(h2)
  <2>1. IsFiniteSet(DOMAIN h2) /\ DOMAIN h2 \subseteq Refs
    BY <1>1, FS_AddElement DEF HeapInv, Typed
  <2>2. \A x \in DOMAIN h2 : h2[x] \in Objects
    BY <1>1 DEF HeapInv, Typed
  <2>3. h2 = [x \in DOMAIN h2 |-> h2[x]]
    BY DEF h2, Put
  <2> QED BY <2>1, <2>2, <2>3 DEF Typed
<1>5. HasContexts(h2)
  BY <1>1 DEF HeapInv, HasContexts
<1>6. \A part \in Parts : h2[o].cache[part] = Null
  BY <1>1 DEF NoParts
<1>7. \A x \in DOMAIN h2 : Shape(h2, x)
  BY <1>1, <1>2, <1>3, OldShape
<1>8. ASSUME NEW x \in DOMAIN h2 PROVE CacheShape(h2, x)
  <2>1. CASE x = o
    BY <2>1, <1>6 DEF CacheShape
  <2>2. CASE x # o
    <3>1. x \in DOMAIN h /\ h2[x] = h[x] /\ CacheShape(h, x) /\ Shape(h, x)
      BY <2>2, <1>1 DEF HeapInv
    <3> QED BY <3>1, <1>1 DEF CacheShape, Shape
  <2> QED BY <2>1, <2>2
<1>9. WrappedOnce(h2)
  BY <1>1 DEF WrappedOnce, HeapInv
<1>10. CachedOnce(h2)
  BY <1>1, <1>6 DEF CachedOnce, HeapInv
<1>11. WrapperCached(h2)
  <2> SUFFICES ASSUME NEW p \in DOMAIN h2, NEW w \in DOMAIN h2, NEW part \in Parts,
                      p.side = "plugin", h2[p].cache[part] # Null,
                      h2[w].wraps = h2[p].cache[part]
               PROVE  \E t \in DOMAIN h2 : h2[t].wraps = p /\ h2[t].cache[part] = w
    BY DEF WrapperCached
  <2>1. p \in DOMAIN h /\ h2[p] = h[p]
    BY <1>1, <1>6
  <2>2. w \in DOMAIN h /\ h2[w] = h[w]
    BY <1>1, <2>1
  <2> QED BY <1>1, <2>1, <2>2 DEF HeapInv, WrapperCached
<1> QED BY <1>4, <1>5, <1>7, <1>8, <1>9, <1>10, <1>11 DEF HeapInv, h2

\* A problem makes a part that it has not cached, or the wrapper of a part that the
\* plugin's problem has cached.
LEMMA AddPart ==
  ASSUME NEW h, HeapInv(h), NEW p \in DOMAIN h, p.kind = "problem", p.side # "own",
         NEW part \in Parts, h[p].cache[part] = Null,
         NEW o \in Refs \ DOMAIN h, Of(o, p.side, part),
         NEW object \in Objects, object.cache = NoParts,
         Shape(Put(Remember(h, p, part, o), o, object), o),
         p.side = "plugin" /\ part # "graph" =>
           h[p].cache["graph"] # Null /\ object.base = <<h[p].cache["graph"]>>,
         p.side = "traced" =>
           object.wraps # Null /\ object.wraps = h[h[p].wraps].cache[part]
  PROVE  HeapInv(Put(Remember(h, p, part, o), o, object))
<1> DEFINE h1 == Remember(h, p, part, o)
           h2 == Put(h1, o, object)
<1>1. /\ DOMAIN h1 = DOMAIN h
      /\ \A x \in DOMAIN h :
           /\ h1[x].wraps = h[x].wraps /\ h1[x].base = h[x].base
           /\ h1[x].owners = h[x].owners
           /\ \A q \in Parts :
                h1[x].cache[q] = IF x = p /\ q = part THEN o ELSE h[x].cache[q]
      /\ h1 \in [DOMAIN h -> Objects]
  BY RememberFields DEF HeapInv
<1> HIDE DEF h1
<1>2. /\ DOMAIN h2 = DOMAIN h \cup {o} /\ h2[o] = object
      /\ \A x \in DOMAIN h :
           /\ h2[x] \in Objects
           /\ h2[x].wraps = h[x].wraps /\ h2[x].base = h[x].base
           /\ h2[x].owners = h[x].owners
           /\ \A q \in Parts :
                h2[x].cache[q] = IF x = p /\ q = part THEN o ELSE h[x].cache[q]
  BY <1>1 DEF Put
<1>3. OneMore(h, h2, o)
  BY <1>2 DEF OneMore
<1>4. Shape(h2, o)
  BY DEF h1
<1>5. h2 = [x \in DOMAIN h2 |-> h2[x]]
  BY DEF Put
<1> HIDE DEF h2
<1>6. /\ DOMAIN h \subseteq Refs /\ Null \notin Refs /\ o \notin DOMAIN h
      /\ \A x \in DOMAIN h : Shape(h, x) /\ CacheShape(h, x) /\ h[x] \in Objects
      /\ WrappedOnce(h) /\ CachedOnce(h) /\ WrapperCached(h)
  BY ContextFields DEF HeapInv, Typed
<1>7. \A q \in Parts : h2[o].cache[q] = Null
  BY <1>2 DEF NoParts
<1>8. Typed(h2)
  <2>1. IsFiniteSet(DOMAIN h2) /\ DOMAIN h2 \subseteq Refs
    BY <1>2, FS_AddElement DEF HeapInv, Typed
  <2> QED BY <1>2, <1>5, <2>1 DEF Typed
<1>9. HasContexts(h2)
  BY <1>2 DEF HeapInv, HasContexts
<1>10. \A x \in DOMAIN h2 : Shape(h2, x)
  BY <1>2, <1>3, <1>4, OldShape
<1>11. p.side \in {"plugin", "traced"} /\ h[p].wraps \in DOMAIN h \cup {Null}
  BY <1>6 DEF Refs, Shape
<1>12. p.side = "traced" => o.side = "traced" /\ object.wraps \in DOMAIN h
  BY <1>6, <1>11 DEF Of, CacheShape, Shape
<1>13. p.side = "plugin" => object.wraps = Null
  BY <1>2, <1>4 DEF Of, Shape
<1>14. ASSUME p.side = "traced", NEW y \in DOMAIN h, h[y].wraps = object.wraps PROVE FALSE
  <2>1. h[p].wraps \in DOMAIN h /\ h[p].wraps.side = "plugin"
    BY <1>6, <1>14 DEF Shape, Of
  <2>2. PICK t \in DOMAIN h : h[t].wraps = h[p].wraps /\ h[t].cache[part] = y
    BY <1>6, <1>14, <2>1 DEF WrapperCached
  <2>3. t = p
    BY <1>6, <2>1, <2>2 DEF WrappedOnce
  <2> QED BY <1>6, <2>2, <2>3
<1>15. WrappedOnce(h2)
  <2> SUFFICES ASSUME NEW x \in DOMAIN h2, NEW y \in DOMAIN h2,
                      h2[x].wraps = h2[y].wraps, h2[x].wraps # Null
               PROVE  x = y
    BY DEF WrappedOnce
  <2>1. CASE x \in DOMAIN h /\ y \in DOMAIN h
    BY <1>2, <1>6, <2>1 DEF WrappedOnce
  <2>2. CASE x = o \/ y = o
    BY <1>2, <1>11, <1>13, <1>14, <2>2
  <2> QED BY <1>2, <2>1, <2>2
<1>16. CachedOnce(h2)
  <2> SUFFICES ASSUME NEW x \in DOMAIN h2, NEW y \in DOMAIN h2, NEW q \in Parts,
                      h2[x].cache[q] = h2[y].cache[q], h2[x].cache[q] # Null,
                      x.side = y.side
               PROVE  x = y
    BY DEF CachedOnce
  <2>1. x \in DOMAIN h /\ y \in DOMAIN h
    BY <1>2, <1>7
  <2>2. CASE q = part /\ (x = p \/ y = p)
    BY <1>2, <1>6, <2>1, <2>2 DEF CacheShape
  <2>3. CASE ~ (q = part /\ (x = p \/ y = p))
    BY <1>2, <1>6, <2>1, <2>3 DEF CachedOnce
  <2> QED BY <2>2, <2>3
<1>17. ASSUME NEW x \in DOMAIN h2 PROVE CacheShape(h2, x)
  <2> SUFFICES ASSUME NEW q \in Parts, h2[x].cache[q] # Null
               PROVE  /\ x.kind = "problem" /\ x.side # "own"
                      /\ h2[x].cache[q] \in DOMAIN h2 /\ Of(h2[x].cache[q], x.side, q)
                      /\ x.side = "plugin" /\ q # "graph" =>
                           /\ h2[x].cache["graph"] # Null
                           /\ h2[h2[x].cache[q]].base = <<h2[x].cache["graph"]>>
                      /\ x.side = "traced" =>
                           h2[h2[x].cache[q]].wraps = h2[h2[x].wraps].cache[q]
    BY DEF CacheShape
  <2>1. x \in DOMAIN h
    BY <1>2, <1>7
  <2>2. "graph" \in Parts
    BY DEF Parts
  <2>3. x.side = "traced" => h[x].wraps \in DOMAIN h
    BY <1>6, <2>1 DEF Shape
  <2>4. CASE x = p /\ q = part
    <3>1. h2[x].cache[q] = o /\ h2[o] = object
      BY <1>2, <2>1, <2>4
    <3>2. x.side = "plugin" /\ q # "graph" =>
            h2[x].cache["graph"] # Null /\ object.base = <<h2[x].cache["graph"]>>
      BY <1>2, <2>1, <2>2, <2>4
    <3>3. x.side = "traced" => h2[h2[x].wraps].cache[q] = h[h[x].wraps].cache[q]
      <4> SUFFICES ASSUME x.side = "traced" PROVE h2[h2[x].wraps].cache[q] = h[h[x].wraps].cache[q]
        OBVIOUS
      <4>1. h2[x].wraps = h[x].wraps /\ h[x].wraps \in DOMAIN h /\ h[x].wraps.side = "plugin"
        BY <1>2, <1>6, <2>1, <2>3 DEF Shape, Of
      <4>2. h[x].wraps # p
        BY <2>4, <4>1
      <4> QED BY <1>2, <4>1, <4>2
    <3> QED BY <1>2, <2>4, <3>1, <3>2, <3>3
  <2>5. CASE ~ (x = p /\ q = part)
    <3>1. h2[x].cache[q] = h[x].cache[q] /\ h[x].cache[q] # Null
      BY <1>2, <2>1, <2>5
    <3>2. /\ x.kind = "problem" /\ x.side # "own"
          /\ h[x].cache[q] \in DOMAIN h /\ Of(h[x].cache[q], x.side, q)
          /\ x.side = "plugin" /\ q # "graph" =>
               /\ h[x].cache["graph"] # Null
               /\ h[h[x].cache[q]].base = <<h[x].cache["graph"]>>
          /\ x.side = "traced" => h[h[x].cache[q]].wraps = h[h[x].wraps].cache[q]
      BY <1>6, <2>1, <3>1 DEF CacheShape
    <3>3. x.side = "plugin" /\ q # "graph" => h2[x].cache["graph"] = h[x].cache["graph"]
      BY <1>2, <2>1, <2>2, <3>2
    <3>4. x.side = "traced" => h[h[x].wraps].cache[q] # Null
      <4> SUFFICES ASSUME x.side = "traced" PROVE h[h[x].wraps].cache[q] # Null
        OBVIOUS
      <4>1. Shape(h, h[x].cache[q]) /\ h[x].cache[q].side = "traced"
        BY <1>6, <3>2 DEF Of
      <4> QED BY <1>6, <3>2, <4>1 DEF Shape
    <3>5. x.side = "traced" => h2[h2[x].wraps].cache[q] = h[h[x].wraps].cache[q]
      BY <1>2, <2>1, <2>3, <3>4
    <3> QED BY <1>2, <3>1, <3>2, <3>3, <3>5
  <2> QED BY <2>4, <2>5
<1>18. WrapperCached(h2)
  <2> SUFFICES ASSUME NEW q \in DOMAIN h2, NEW w \in DOMAIN h2, NEW other \in Parts,
                      q.side = "plugin", h2[q].cache[other] # Null,
                      h2[w].wraps = h2[q].cache[other]
               PROVE  \E t \in DOMAIN h2 : h2[t].wraps = q /\ h2[t].cache[other] = w
    BY DEF WrapperCached
  <2>1. q \in DOMAIN h
    BY <1>2, <1>7
  <2>2. ~ (q = p /\ other = part)
    <3>1. \A x \in DOMAIN h2 : h2[x].wraps # o
      BY <1>2, <1>6, <1>12, <1>13, <1>11 DEF Shape
    <3> QED BY <1>2, <2>1, <3>1
  <2>3. h2[q].cache[other] = h[q].cache[other]
    BY <1>2, <2>1, <2>2
  <2>4. CASE w = o
    <3>1. p.side = "traced" /\ object.wraps = h[h[p].wraps].cache[part]
      BY <1>2, <1>11, <1>13, <2>4
    <3>2. h[p].wraps \in DOMAIN h /\ h[p].wraps.side = "plugin"
      BY <1>6, <3>1 DEF Shape, Of
    <3>3. h[q].cache[other] = h[h[p].wraps].cache[part]
      BY <1>2, <2>3, <2>4, <3>1
    <3>4. other = part
      BY <1>6, <2>1, <2>3, <3>2, <3>3 DEF CacheShape, Of
    <3>5. q = h[p].wraps
      BY <1>6, <2>1, <2>3, <3>2, <3>3, <3>4 DEF CachedOnce
    <3> QED BY <1>2, <2>4, <3>4, <3>5
  <2>5. CASE w # o
    <3>1. w \in DOMAIN h /\ h[w].wraps = h[q].cache[other]
      BY <1>2, <2>3, <2>5
    <3>2. PICK t \in DOMAIN h : h[t].wraps = q /\ h[t].cache[other] = w
      BY <1>6, <2>1, <2>3, <3>1 DEF WrapperCached
    <3>3. ~ (t = p /\ other = part)
      BY <1>6, <3>1, <3>2
    <3> QED BY <1>2, <3>2, <3>3
  <2> QED BY <2>4, <2>5
<1> QED BY <1>8, <1>9, <1>10, <1>15, <1>16, <1>17, <1>18 DEF HeapInv, h1, h2
-----------------------------------------------------------------------------
(* What the operations build.                                              *)

\* The objects of h are there in h2 as well, built as they were, and what a problem
\* has cached is not made again.
Grows(h, h2) ==
  /\ DOMAIN h \subseteq DOMAIN h2
  /\ \A x \in DOMAIN h :
       /\ h2[x].wraps = h[x].wraps /\ h2[x].base = h[x].base
       /\ \A part \in Parts :
            h[x].cache[part] # Null => h2[x].cache[part] = h[x].cache[part]

LEMMA GrowsOn ==
  ASSUME NEW h, NEW h2, NEW h3, Grows(h, h2), Grows(h2, h3)
  PROVE  Grows(h, h3)
BY DEF Grows

\* h2 has the object o more, which p has cached as its part.
Adds(h, h2, p, part, o, object) ==
  /\ Grows(h, h2)
  /\ DOMAIN h2 = DOMAIN h \cup {o}
  /\ h2[p].cache[part] = o
  /\ h2[o] = object
  /\ \A x \in DOMAIN h : x # p => h2[x] = h[x]
  /\ \A q \in Parts : q # part => h2[p].cache[q] = h[p].cache[q]

LEMMA AddPartGrows ==
  ASSUME NEW h, Typed(h), NEW p \in DOMAIN h, NEW part \in Parts, h[p].cache[part] = Null,
         NEW o \in Refs \ DOMAIN h, NEW object \in Objects
  PROVE  Adds(h, Put(Remember(h, p, part, o), o, object), p, part, o, object)
<1> DEFINE h1 == Remember(h, p, part, o)
<1>1. /\ DOMAIN h1 = DOMAIN h
      /\ \A x \in DOMAIN h :
           /\ h1[x].wraps = h[x].wraps /\ h1[x].base = h[x].base
           /\ \A q \in Parts :
                h1[x].cache[q] = IF x = p /\ q = part THEN o ELSE h[x].cache[q]
  BY RememberFields
<1>6. \A x \in DOMAIN h : x # p => h1[x] = h[x]
  BY DEF Remember
<1> HIDE DEF h1
<1>2. /\ DOMAIN Put(h1, o, object) = DOMAIN h \cup {o}
      /\ Put(h1, o, object)[o] = object
      /\ \A x \in DOMAIN h : Put(h1, o, object)[x] = h1[x]
  BY <1>1 DEF Put
<1>3. Put(h1, o, object)[p].cache[part] = o
  BY <1>1, <1>2
<1>4. Grows(h, Put(h1, o, object))
  BY <1>1, <1>2 DEF Grows
<1>5. \A q \in Parts : q # part => Put(h1, o, object)[p].cache[q] = h[p].cache[q]
  BY <1>1, <1>2
<1> QED BY <1>6, <1>2, <1>3, <1>4, <1>5 DEF h1, Adds

LEMMA PluginGraphInv ==
  ASSUME NEW h, HeapInv(h), Bounded(h), NEW p \in DOMAIN h, Of(p, "plugin", "problem")
  PROVE  /\ HeapInv(PluginGraph(h, p))
         /\ Grows(h, PluginGraph(h, p))
         /\ PluginGraph(h, p)[p].cache["graph"] # Null
         /\ \A x \in DOMAIN h : x # p => PluginGraph(h, p)[x] = h[x]
<1> DEFINE g == Fresh(h, "plugin", "graph")
           object == Object(Null, h[p].base)
           h2 == Put(Remember(h, p, "graph", g), g, object)
<1>1. "graph" \in Parts /\ "graph" \in Kinds
  BY DEF Parts, Kinds
<1>2. CASE h[p].cache["graph"] # Null
  BY <1>2 DEF PluginGraph, Grows
<1>3. CASE h[p].cache["graph"] = Null
  <2>1. g \in Refs \ DOMAIN h /\ Of(g, "plugin", "graph") /\ g # Null
    BY <1>1, FreshIsNew, ContextFields DEF HeapInv, Typed
  <2>2. h[p].base = <<PluginContext>>
    BY ContextFields DEF HeapInv, Shape, Of
  <2>3. <<PluginContext>> \in Seq(Refs)
    BY ContextFields
  <2>4. /\ object \in Objects /\ object.wraps = Null /\ object.base = <<PluginContext>>
        /\ object.owners = <<PluginContext>> /\ object.cache = NoParts
    BY <2>2, <2>3, ObjectFields
  <2> HIDE DEF g, object
  <2>5. Adds(h, h2, p, "graph", g, object)
    <3>1. Typed(h)
      BY DEF HeapInv
    <3> QED BY <1>1, <1>3, <2>1, <2>4, <3>1, AddPartGrows
  <2>6. Shape(h2, g)
    BY <2>1, <2>4, <2>5, ContextFields DEF Shape, Of, Adds
  <2>7. HeapInv(h2)
    BY <1>1, <1>3, <2>1, <2>4, <2>6, AddPart DEF Of
  <2>8. PluginGraph(h, p) = h2
    BY <1>3 DEF PluginGraph, g, object
  <2> QED BY <2>1, <2>5, <2>7, <2>8 DEF Adds
<1> QED BY <1>2, <1>3

\* An object more, and a heap without the object, stay within the bound.
LEMMA BoundedBefore ==
  ASSUME NEW h, NEW h2, DOMAIN h \subseteq DOMAIN h2, Bounded(h2)
  PROVE  Bounded(h)
BY DEF Bounded

LEMMA PluginPartInv ==
  ASSUME NEW h, HeapInv(h), NEW p \in DOMAIN h, Of(p, "plugin", "problem"),
         NEW part \in Parts \ {"graph"}, Bounded(PluginPart(h, p, part)), Bounded(h)
  PROVE  /\ HeapInv(PluginPart(h, p, part))
         /\ Grows(h, PluginPart(h, p, part))
         /\ PluginPart(h, p, part)[p].cache["graph"] # Null
         /\ PluginPart(h, p, part)[p].cache[part] # Null
         /\ \A x \in DOMAIN h : x # p => PluginPart(h, p, part)[x] = h[x]
<1> DEFINE hg == PluginGraph(h, p)
           g == hg[p].cache["graph"]
           made == Fresh(hg, "plugin", part)
           new == Object(Null, <<g>>)
           h2 == Put(Remember(hg, p, part, made), made, new)
<1>1. /\ HeapInv(hg) /\ Grows(h, hg) /\ g # Null /\ p \in DOMAIN hg
      /\ \A x \in DOMAIN h : x \in DOMAIN hg /\ (x # p => hg[x] = h[x])
  BY PluginGraphInv DEF Grows
<1>2. part \in {"sparse", "symbolic"} /\ part \in Parts /\ part \in Kinds /\ "graph" \in Parts
  BY DEF Parts, Kinds
<1> HIDE DEF hg
<1>3. CASE hg[p].cache[part] # Null
  <2>1. PluginPart(h, p, part) = hg
    BY <1>3 DEF PluginPart, hg
  <2> QED BY <1>1, <1>3, <2>1
<1>4. CASE hg[p].cache[part] = Null
  <2>1. PluginPart(h, p, part) = h2
    BY <1>4 DEF PluginPart, hg
  <2>2. Typed(hg)
    BY <1>1 DEF HeapInv
  <2>3. DOMAIN h2 = DOMAIN hg \cup {made}
    BY <2>2, <1>1 DEF Put, Remember
  <2>4. Bounded(hg)
    BY <2>1, <2>3, BoundedBefore
  <2>5. made \in Refs \ DOMAIN hg /\ Of(made, "plugin", part) /\ made # Null
    BY <1>2, <2>2, <2>4, FreshIsNew, ContextFields DEF Typed
  <2>6. g \in DOMAIN hg /\ Of(g, "plugin", "graph") /\ g \in Refs
    BY <1>1, <1>2, <2>2 DEF HeapInv, CacheShape, Of, Typed
  <2>7. /\ new \in Objects /\ new.wraps = Null /\ new.base = <<g>>
        /\ new.owners = <<g>> /\ new.cache = NoParts
    <3>1. <<g>> \in Seq(Refs)
      BY <2>6
    <3> QED BY <3>1, ObjectFields
  <2> HIDE DEF g, made, new
  <2>8. Adds(hg, h2, p, part, made, new)
    BY <1>1, <1>2, <1>4, <2>2, <2>5, <2>7, AddPartGrows
  <2>9. Shape(h2, made)
    BY <1>2, <2>3, <2>5, <2>6, <2>7, <2>8 DEF Shape, Of, Adds
  <2>10. g = hg[p].cache["graph"]
    BY DEF g
  <2>11. HeapInv(h2)
    BY <1>1, <1>2, <1>4, <2>5, <2>7, <2>9, <2>10, AddPart DEF Of
  <2>12. h2[p].cache["graph"] # Null
    BY <1>1, <1>2, <2>8 DEF Grows, Adds, g
  <2> QED BY <1>1, <2>1, <2>5, <2>8, <2>11, <2>12, GrowsOn DEF Adds
<1> QED BY <1>3, <1>4

LEMMA AddWrapperInv ==
  ASSUME NEW h, HeapInv(h), Bounded(h), NEW p \in DOMAIN h, Of(p, "traced", "problem"),
         NEW part \in Parts, h[p].cache[part] = Null,
         h[h[p].wraps].cache[part] # Null, NEW base,
         part = "graph" => base = <<TracedContext>>,
         part # "graph" => h[p].cache["graph"] # Null /\ base = <<h[p].cache["graph"]>>
  PROVE  /\ HeapInv(AddWrapper(h, p, part, base))
         /\ Grows(h, AddWrapper(h, p, part, base))
         /\ AddWrapper(h, p, part, base)[p].cache[part] # Null
         /\ \A q \in Parts :
              q # part => AddWrapper(h, p, part, base)[p].cache[q] = h[p].cache[q]
<1> DEFINE w == Fresh(h, "traced", part)
           P == h[p].wraps
           i == h[P].cache[part]
           g == h[p].cache["graph"]
           new == Object(i, base)
           h2 == Put(Remember(h, p, part, w), w, new)
<1>1. part \in Kinds /\ "graph" \in Parts /\ Typed(h)
      /\ (part # "graph" => part \in {"sparse", "symbolic"})
  BY DEF Parts, Kinds, HeapInv
<1>2. w \in Refs \ DOMAIN h /\ Of(w, "traced", part) /\ w # Null
  BY <1>1, FreshIsNew, ContextFields DEF Typed
<1>3. P \in DOMAIN h /\ Of(P, "plugin", "problem") /\ CacheShape(h, P) /\ CacheShape(h, p)
  BY DEF HeapInv, Shape, Of
<1>4. i \in DOMAIN h /\ Of(i, "plugin", part) /\ i \in Refs /\ i # Null
  BY <1>1, <1>3, ContextFields DEF CacheShape, Of, Typed
<1>5. part # "graph" =>
        /\ g \in DOMAIN h /\ Of(g, "traced", "graph") /\ g \in Refs
        /\ h[i].base = <<h[g].wraps>>
  BY <1>1, <1>3, <1>4 DEF CacheShape, Of, Typed
<1>6. base \in Seq(Refs)
  <2>1. CASE part = "graph"
    <3>1. <<TracedContext>> \in Seq(Refs)
      BY ContextFields
    <3> QED BY <2>1, <3>1
  <2>2. CASE part # "graph"
    <3>1. base = <<g>> /\ g \in Refs
      BY <1>5, <2>2
    <3> QED BY <3>1
  <2> QED BY <2>1, <2>2
<1>7. /\ new \in Objects /\ new.wraps = i /\ new.base = base
      /\ new.owners = base /\ new.cache = NoParts
  BY <1>4, <1>6, ObjectFields
<1> HIDE DEF w, new
<1>8. Adds(h, h2, p, part, w, new)
  BY <1>1, <1>2, <1>7, AddPartGrows
<1>9. Shape(h2, w)
  <2>1. CASE part = "graph"
    BY <1>2, <1>4, <1>7, <1>8, <2>1, ContextFields DEF Shape, Of, Adds
  <2>2. CASE part # "graph"
    <3>1. h2[w].wraps = i /\ h2[w].base = <<g>> /\ h2[w].owners = <<g>>
      BY <1>7, <1>8, <2>2 DEF Adds
    <3>2. g \in DOMAIN h2 /\ Of(g, "traced", "graph") /\ h2[h2[w].wraps].base = <<h2[g].wraps>>
      BY <1>4, <1>5, <1>8, <2>2, <3>1 DEF Adds, Grows
    <3> QED BY <1>1, <1>2, <1>4, <1>8, <2>2, <3>1, <3>2 DEF Shape, Of, Adds
  <2> QED BY <2>1, <2>2
<1>10. p.kind = "problem" /\ p.side = "traced" /\ Of(w, p.side, part)
  BY <1>2 DEF Of
<1>11. HeapInv(h2)
  BY <1>2, <1>4, <1>7, <1>9, <1>10, AddPart
<1>12. AddWrapper(h, p, part, base) = h2
  BY DEF AddWrapper, w, new
<1> QED BY <1>2, <1>8, <1>11, <1>12 DEF Adds

\* The domains grow, whatever the heap is.
LEMMA BuildersGrow ==
  ASSUME NEW h, NEW p, NEW part, NEW base
  PROVE  /\ DOMAIN h \subseteq DOMAIN AddWrapper(h, p, part, base)
         /\ DOMAIN h \subseteq DOMAIN PluginGraph(h, p)
         /\ DOMAIN PluginGraph(h, p) \subseteq DOMAIN PluginPart(h, p, part)
         /\ DOMAIN h \subseteq DOMAIN TracedGraph(h, p)
<1>1. \A x, q, c, o : DOMAIN Remember(x, q, c, o) = DOMAIN x
  BY DEF Remember
<1>2. \A x, o, v : DOMAIN x \subseteq DOMAIN Put(x, o, v)
  BY DEF Put
<1>3. \A x, q, c, b : DOMAIN x \subseteq DOMAIN AddWrapper(x, q, c, b)
  BY <1>1, <1>2 DEF AddWrapper
<1>4. \A x, q : DOMAIN x \subseteq DOMAIN PluginGraph(x, q)
  BY <1>1, <1>2 DEF PluginGraph
<1>5. DOMAIN PluginGraph(h, p) \subseteq DOMAIN PluginPart(h, p, part)
  BY <1>1, <1>2 DEF PluginPart
<1>6. DOMAIN h \subseteq DOMAIN TracedGraph(h, p)
  BY <1>3, <1>4 DEF TracedGraph
<1> QED BY <1>3, <1>4, <1>5, <1>6

LEMMA TracedGraphInv ==
  ASSUME NEW h, HeapInv(h), NEW p \in DOMAIN h, Of(p, "traced", "problem"),
         Bounded(TracedGraph(h, p))
  PROVE  /\ HeapInv(TracedGraph(h, p))
         /\ Grows(h, TracedGraph(h, p))
         /\ TracedGraph(h, p)[p].cache["graph"] # Null
         /\ \A q \in Parts \ {"graph"} : TracedGraph(h, p)[p].cache[q] = h[p].cache[q]
<1> DEFINE P == h[p].wraps
           hg == PluginGraph(h, P)
<1>1. P \in DOMAIN h /\ Of(P, "plugin", "problem")
  BY DEF HeapInv, Shape, Of
<1>2. CASE h[p].cache["graph"] # Null
  BY <1>2 DEF TracedGraph, Grows
<1>3. CASE h[p].cache["graph"] = Null
  <2>1. TracedGraph(h, p) = AddWrapper(hg, p, "graph", h[p].base)
    BY <1>3 DEF TracedGraph
  <2>2. Bounded(h) /\ Bounded(hg)
    BY <2>1, BuildersGrow, BoundedBefore
  <2>3. HeapInv(hg) /\ Grows(h, hg) /\ hg[P].cache["graph"] # Null
    BY <1>1, <2>2, PluginGraphInv
  <2>4. p \in DOMAIN hg /\ hg[p].wraps = P
    BY <2>3 DEF Grows
  <2>5. h[p].base = <<TracedContext>> /\ "graph" \in Parts
    BY ContextFields DEF HeapInv, Shape, Of, Parts
  <2>6. p # P /\ hg[p] = h[p]
    BY <1>1, <2>2, PluginGraphInv DEF Of
  <2>7. /\ HeapInv(TracedGraph(h, p)) /\ Grows(hg, TracedGraph(h, p))
        /\ TracedGraph(h, p)[p].cache["graph"] # Null
        /\ \A q \in Parts \ {"graph"} : TracedGraph(h, p)[p].cache[q] = h[p].cache[q]
    BY <1>3, <2>1, <2>2, <2>3, <2>4, <2>5, <2>6, AddWrapperInv
  <2> QED BY <2>3, <2>7, GrowsOn
<1> QED BY <1>2, <1>3

LEMMA TracedPartInv ==
  ASSUME NEW h, HeapInv(h), NEW p \in DOMAIN h, Of(p, "traced", "problem"),
         NEW part \in Parts \ {"graph"}, Bounded(TracedPart(h, p, part))
  PROVE  /\ HeapInv(TracedPart(h, p, part))
         /\ Grows(h, TracedPart(h, p, part))
         /\ TracedPart(h, p, part)[p].cache[part] # Null
<1> DEFINE P == h[p].wraps
           hg == TracedGraph(h, p)
           hp == PluginPart(hg, P, part)
           base == <<hg[p].cache["graph"]>>
<1>1. P \in DOMAIN h /\ Of(P, "plugin", "problem")
  BY DEF HeapInv, Shape, Of
<1>2. CASE h[p].cache[part] # Null
  BY <1>2 DEF TracedPart, Grows
<1>3. CASE h[p].cache[part] = Null
  <2>1. TracedPart(h, p, part) = AddWrapper(hp, p, part, base)
    BY <1>3 DEF TracedPart
  <2>2. Bounded(hp) /\ Bounded(PluginGraph(hg, P)) /\ Bounded(hg) /\ Bounded(h)
    <3>1. Bounded(hp)
      BY <2>1, BuildersGrow, BoundedBefore
    <3>2. Bounded(PluginGraph(hg, P))
      BY <3>1, BuildersGrow, BoundedBefore
    <3>3. Bounded(hg)
      BY <3>2, BuildersGrow, BoundedBefore
    <3>4. Bounded(h)
      BY <3>3, BuildersGrow, BoundedBefore
    <3> QED BY <3>1, <3>2, <3>3, <3>4
  <2>3. /\ HeapInv(hg) /\ Grows(h, hg) /\ hg[p].cache["graph"] # Null
        /\ hg[p].cache[part] = Null
    BY <1>3, <2>2, TracedGraphInv
  <2>4. P \in DOMAIN hg /\ p \in DOMAIN hg /\ hg[p].wraps = P /\ p # P
    BY <1>1, <2>3 DEF Grows, Of
  <2>5. /\ HeapInv(hp) /\ Grows(hg, hp) /\ hp[P].cache[part] # Null
        /\ hp[p] = hg[p]
    BY <1>1, <2>2, <2>3, <2>4, PluginPartInv
  <2>6. p \in DOMAIN hp /\ hp[p].wraps = P /\ hp[p].cache[part] = Null
        /\ hp[p].cache["graph"] # Null /\ base = <<hp[p].cache["graph"]>>
    BY <2>3, <2>4, <2>5 DEF Grows
  <2> HIDE DEF hp, base
  <2>7. /\ HeapInv(AddWrapper(hp, p, part, base)) /\ Grows(hp, AddWrapper(hp, p, part, base))
        /\ AddWrapper(hp, p, part, base)[p].cache[part] # Null
    BY <2>2, <2>5, <2>6, AddWrapperInv
  <2> QED BY <2>1, <2>3, <2>5, <2>7, GrowsOn
<1> QED BY <1>2, <1>3
-----------------------------------------------------------------------------
(* What dies.                                                              *)

LEMMA ShortToSet ==
  /\ ToSet(<<>>) = {}
  /\ \A a : ToSet(<<a>>) = {a}
  /\ \A a, b : ToSet(<<a, b>>) = {a, b}
BY DEF ToSet

\* What an object keeps, and what it is built on, is alive.
LEMMA KeepsAlive ==
  ASSUME NEW h, HeapInv(h), NEW o \in DOMAIN h
  PROVE  /\ Keeps(h[o]) \subseteq DOMAIN h
         /\ ToSet(h[o].base) \subseteq DOMAIN h
<1>1. /\ Shape(h, o) /\ CacheShape(h, o) /\ o \in Refs
      /\ HasContexts(h)
  BY DEF HeapInv, Typed
<1>2. \A part \in Parts : h[o].cache[part] \in DOMAIN h \cup {Null}
  BY <1>1 DEF CacheShape
<1>3. h[o].wraps \in DOMAIN h \cup {Null}
  BY <1>1 DEF Shape
<1>4. /\ ToSet(<<>>) = {}
      /\ \A a : ToSet(<<a>>) = {a}
      /\ \A a, b : ToSet(<<a, b>>) = {a, b}
  BY ShortToSet
<1>5. ToSet(h[o].owners) \subseteq DOMAIN h /\ ToSet(h[o].base) \subseteq DOMAIN h
  <2>1. CASE o.side = "own" \/ o.kind = "context"
    BY <1>1, <1>4, <2>1 DEF Shape, Of
  <2>2. CASE o.side # "own" /\ o.kind \in {"matrix", "graph", "problem"}
    <3>1. Ref(o.side, "context", 1) \in DOMAIN h
      BY <1>1, <2>2, ContextFields DEF HasContexts, Refs
    <3>2. h[o].base = <<Ref(o.side, "context", 1)>> /\ h[o].owners = h[o].base
      BY <1>1, <2>2 DEF Shape, Of
    <3> QED BY <1>4, <3>1, <3>2
  <2>3. CASE o.side # "own" /\ o.kind \in {"sparse", "symbolic"}
    <3>1. h[o].owners = h[o].base
      BY <1>1, <2>3 DEF Shape, Of
    <3>2. PICK g \in DOMAIN h : h[o].base = <<g>>
      BY <1>1, <2>3 DEF Shape
    <3> QED BY <1>4, <3>1, <3>2
  <2>4. CASE Of(o, "plugin", "numeric")
    <3>1. PICK s, m \in DOMAIN h : /\ h[o].base = <<s, InnerIn(h, m)>>
                                   /\ h[o].owners = <<s, m>>
      BY <1>1, <2>4 DEF Shape
    <3>2. InnerIn(h, m) \in DOMAIN h
      BY WrapsInHeap DEF InnerIn
    <3> QED BY <1>4, <3>1, <3>2
  <2>5. CASE Of(o, "traced", "numeric")
    <3>1. PICK s, m \in DOMAIN h : h[o].base = <<s, m>>
      BY <1>1, <2>5 DEF Shape
    <3>2. h[o].owners = h[o].base
      BY <1>1, <2>5 DEF Shape, Of
    <3> QED BY <1>4, <3>1, <3>2
  <2> QED BY <1>1, <2>1, <2>2, <2>3, <2>4, <2>5 DEF Refs, Kinds, Of
<1> QED BY <1>2, <1>3, <1>5 DEF Keeps

\* What each object keeps alive.
Links(h) == [o \in DOMAIN h |-> Keeps(h[o])]

LEMMA KeptIsClosure ==
  ASSUME NEW h, HeapInv(h), NEW roots \in SUBSET DOMAIN h
  PROVE  Kept(h, roots) = Closure(DOMAIN h, Links(h), roots)
<1> DEFINE D == DOMAIN h
           IsClosure(f) ==
             f = [S \in SUBSET D |->
                    IF Reached(Links(h), S) = S THEN S ELSE f[Reached(Links(h), S)]]
<1>1. Links(h) \in [D -> SUBSET D]
  BY KeepsAlive DEF Links
<1>2. IsFiniteSet(D)
  BY DEF HeapInv, Typed
<1>3. \E f : IsClosure(f)
  <2> DEFINE next == Links(h)
  <2> HIDE DEF D, next
  <2>1. next \in [D -> SUBSET D]
    BY <1>1 DEF next
  <2>2. PICK f : f = [S \in SUBSET D |->
                        IF Reached(next, S) = S THEN S ELSE f[Reached(next, S)]]
    BY <2>1, ClosureExists
  <2>3. IsClosure(f)
    BY <2>2 DEF next
  <2> QED BY <2>3
<1>4. \A f : IsClosure(f) => \A S \in SUBSET D : f[S] = Closure(D, Links(h), S)
  <2> HIDE DEF D
  <2> QED BY <1>1, <1>2, ClosureIsUnique
<1>5. \A S \in SUBSET D : Reached(Links(h), S) = S \cup UNION {Keeps(h[o]) : o \in S}
  BY DEF Reached, Links
<1>6. Kept(h, roots) = (CHOOSE f : IsClosure(f))[roots]
  BY <1>5 DEF Kept
<1> QED BY <1>3, <1>4, <1>6

\* An object keeps objects of lower height only; a wrapper is higher than what it wraps.
Level == [context |-> 0, matrix |-> 2, graph |-> 2, sparse |-> 4, symbolic |-> 4,
          problem |-> 6, numeric |-> 6]
Height(o) == Level[o.kind] + (IF o.side = "traced" THEN 1 ELSE 0)

LEMMA Heights ==
  ASSUME NEW o \in Refs
  PROVE  /\ Height(o) \in Nat /\ Level[o.kind] \in Nat
         /\ o.kind \in {"context"} => Height(o) \in {0, 1}
         /\ o.kind \in {"matrix", "graph"} => Height(o) \in {2, 3}
         /\ o.kind \in {"sparse", "symbolic"} => Height(o) \in {4, 5}
         /\ o.kind \in {"problem", "numeric"} => Height(o) \in {6, 7}
<1>1. o.kind \in Kinds
  BY DEF Refs
<1>2. /\ Level["context"] = 0 /\ Level["matrix"] = 2 /\ Level["graph"] = 2
      /\ Level["sparse"] = 4 /\ Level["symbolic"] = 4
      /\ Level["problem"] = 6 /\ Level["numeric"] = 6
  BY DEF Level
<1> QED BY <1>1, <1>2 DEF Height, Kinds

LEMMA KeepsLower ==
  ASSUME NEW h, HeapInv(h), NEW o \in DOMAIN h, NEW q \in Keeps(h[o])
  PROVE  /\ Height(q) < Height(o)
         /\ q.kind = "problem" => h[o].wraps = q
<1>1. /\ Shape(h, o) /\ CacheShape(h, o) /\ o \in Refs /\ q \in Refs
      /\ q \in DOMAIN h
  BY KeepsAlive DEF HeapInv, Typed
<1>2. /\ ToSet(<<>>) = {}
      /\ \A a : ToSet(<<a>>) = {a}
      /\ \A a, b : ToSet(<<a, b>>) = {a, b}
  BY ShortToSet
<1>3. \/ q \in ToSet(h[o].owners)
      \/ q = h[o].wraps
      \/ \E part \in Parts : q = h[o].cache[part]
  BY DEF Keeps
<1>4. q # Null
  BY DEF Keeps
<1>5. CASE q = h[o].wraps
  <2>1. o.side = "traced" /\ q.side = "plugin" /\ q.kind = o.kind
    BY <1>4, <1>5, WrapsInHeap DEF Of
  <2> QED BY <1>1, <1>5, <2>1, Heights DEF Height
<1>6. CASE \E part \in Parts : q = h[o].cache[part]
  <2>1. o.kind = "problem" /\ q.kind \in Parts
    BY <1>1, <1>4, <1>6 DEF CacheShape, Of
  <2>2. q.kind \in {"graph", "sparse", "symbolic"}
    BY <2>1 DEF Parts
  <2> QED BY <1>1, <2>1, <2>2, Heights
<1>7. CASE q \in ToSet(h[o].owners)
  <2>1. CASE o.side = "own" \/ o.kind = "context"
    <3>1. h[o].owners = <<>>
      BY <1>1, <2>1 DEF Shape, Of
    <3> QED BY <1>2, <1>7, <3>1
  <2>2. CASE o.side # "own" /\ o.kind \in {"matrix", "graph", "problem"}
    <3>1. h[o].owners = <<Ref(o.side, "context", 1)>>
      BY <1>1, <2>2 DEF Shape, Of
    <3>2. q.kind = "context"
      BY <1>2, <1>7, <3>1 DEF Ref
    <3> QED BY <1>1, <2>2, <3>2, Heights
  <2>3. CASE o.side # "own" /\ o.kind \in {"sparse", "symbolic"}
    <3>1. h[o].owners = h[o].base
      BY <1>1, <2>3 DEF Shape, Of
    <3>2. PICK g \in DOMAIN h : g.kind = "graph" /\ h[o].base = <<g>>
      BY <1>1, <2>3 DEF Shape, Of
    <3>3. q.kind = "graph"
      BY <1>2, <1>7, <3>1, <3>2
    <3> QED BY <1>1, <2>3, <3>3, Heights
  <2>4. CASE Of(o, "plugin", "numeric")
    <3>1. PICK s, m \in DOMAIN h :
            s.kind = "symbolic" /\ m.kind = "sparse" /\ h[o].owners = <<s, m>>
      BY <1>1, <2>4 DEF Shape, Of
    <3>2. q.kind \in {"symbolic", "sparse"}
      BY <1>2, <1>7, <3>1
    <3> QED BY <1>1, <2>4, <3>2, Heights DEF Of
  <2>5. CASE Of(o, "traced", "numeric")
    <3>1. PICK s, m \in DOMAIN h :
            s.kind = "symbolic" /\ m.kind = "sparse" /\ h[o].base = <<s, m>>
      BY <1>1, <2>5 DEF Shape, Of
    <3>2. h[o].owners = h[o].base
      BY <1>1, <2>5 DEF Shape, Of
    <3>3. q.kind \in {"symbolic", "sparse"}
      BY <1>2, <1>7, <3>1, <3>2
    <3> QED BY <1>1, <2>5, <3>3, Heights DEF Of
  <2> QED BY <1>1, <2>1, <2>2, <2>3, <2>4, <2>5 DEF Refs, Kinds, Of
<1> QED BY <1>3, <1>5, <1>6, <1>7

\* The heap after the unreferenced objects have died.
Rest(h, hs) == [o \in Kept(h, hs) |-> h[o]]

LEMMA RestInv ==
  ASSUME NEW h, HeapInv(h), NEW hs \in SUBSET DOMAIN h, TracedContext \in hs,
         \A o \in hs : o.side # "plugin"
  PROVE  /\ HeapInv(Rest(h, hs))
         /\ hs \subseteq DOMAIN Rest(h, hs)
         /\ DOMAIN Rest(h, hs) \subseteq DOMAIN h
<1> DEFINE K == Kept(h, hs)
           k == Rest(h, hs)
           next == Links(h)
           Owners(o) == ToSet(h[o].owners)
<1>1. next \in [DOMAIN h -> SUBSET DOMAIN h] /\ \A o \in DOMAIN h : next[o] = Keeps(h[o])
  BY KeepsAlive DEF Links
<1>2. K = Closure(DOMAIN h, next, hs)
  BY KeptIsClosure
<1>3. DOMAIN k = K /\ \A o \in K : k[o] = h[o]
  BY DEF Rest
<1> HIDE DEF K, k, next, Owners
<1>4. /\ hs \subseteq K /\ K \subseteq DOMAIN h /\ ClosedUnder(next, K)
      /\ \A U \in SUBSET DOMAIN h : hs \subseteq U /\ ClosedUnder(next, U) => K \subseteq U
  BY <1>1, <1>2, ClosureIsClosed
<1>5. \A o \in K : o \in DOMAIN h /\ Keeps(h[o]) \subseteq K
  BY <1>1, <1>4 DEF ClosedUnder
<1>6. /\ \A o \in DOMAIN h : Shape(h, o) /\ CacheShape(h, o) /\ h[o] \in Objects
      /\ DOMAIN h \subseteq Refs /\ IsFiniteSet(DOMAIN h) /\ Null \notin Refs
      /\ WrappedOnce(h) /\ CachedOnce(h) /\ WrapperCached(h) /\ HasContexts(h)
  BY ContextFields DEF HeapInv, Typed
<1>7. \A o \in K : /\ h[o].wraps # Null => h[o].wraps \in K
                  /\ \A part \in Parts : h[o].cache[part] # Null => h[o].cache[part] \in K
  BY <1>5 DEF Keeps
<1>7a. ASSUME NEW o \in K PROVE Owners(o) \subseteq K
  <2>1. Null \notin ToSet(h[o].owners)
    <3>1. h[o].owners \in Seq(Refs)
      BY <1>5, <1>6 DEF Objects
    <3> QED BY <1>6, <3>1 DEF ToSet
  <2> QED BY <1>5, <2>1 DEF Keeps, Owners
<1>8. Typed(k)
  <2>1. IsFiniteSet(K) /\ K \subseteq Refs
    BY <1>4, <1>6, FS_Subset
  <2>2. \A o \in K : k[o] \in Objects
    BY <1>3, <1>5, <1>6
  <2>3. k = [o \in DOMAIN k |-> k[o]]
    BY DEF k, Rest
  <2> QED BY <1>3, <2>1, <2>2, <2>3 DEF Typed
<1>9. HasContexts(k)
  <2>1. TracedContext \in K /\ h[TracedContext].wraps = PluginContext
    BY <1>4, <1>6 DEF HasContexts
  <2>2. PluginContext \in K
    BY <1>6, <1>7, <2>1, ContextFields
  <2> QED BY <1>3, <2>1, <2>2 DEF HasContexts
<1>10. ASSUME NEW o \in K PROVE Shape(k, o)
  <2>1. Shape(h, o) /\ o \in DOMAIN h /\ k[o] = h[o]
    BY <1>3, <1>5, <1>6
  <2>2. /\ ToSet(<<>>) = {}
        /\ \A a : ToSet(<<a>>) = {a}
        /\ \A a, b : ToSet(<<a, b>>) = {a, b}
    BY ShortToSet
  <2>9. Owners(o) \subseteq K
    BY <1>7a
  <2>3. o.side = "traced" => h[o].wraps \in K /\ k[h[o].wraps] = h[h[o].wraps]
    BY <1>3, <1>6, <1>7, <2>1 DEF Shape
  <2>4. \A m \in K : InnerIn(k, m) = InnerIn(h, m)
    BY <1>3 DEF InnerIn
  <2>5. o.side # "own" /\ o.kind \in {"sparse", "symbolic"} =>
          \E g \in DOMAIN k :
            /\ Of(g, o.side, "graph")
            /\ k[o].base = <<g>>
            /\ o.side = "traced" => k[k[o].wraps].base = <<k[g].wraps>>
    <3> SUFFICES ASSUME o.side # "own", o.kind \in {"sparse", "symbolic"}
                 PROVE  \E g \in DOMAIN k :
                          /\ Of(g, o.side, "graph")
                          /\ k[o].base = <<g>>
                          /\ o.side = "traced" => k[k[o].wraps].base = <<k[g].wraps>>
      OBVIOUS
    <3>1. PICK g \in DOMAIN h :
            /\ Of(g, o.side, "graph") /\ h[o].base = <<g>>
            /\ o.side = "traced" => h[h[o].wraps].base = <<h[g].wraps>>
      BY <2>1 DEF Shape
    <3>2. h[o].owners = h[o].base
      BY <2>1 DEF Shape, Of
    <3>3. g \in K
      <4>1. Owners(o) = {g}
        BY <2>2, <3>1, <3>2 DEF Owners
      <4> QED BY <2>9, <4>1
    <3> QED BY <1>3, <2>1, <2>3, <3>1, <3>3
  <2>6. Of(o, "plugin", "numeric") =>
          \E s, m \in DOMAIN k :
            /\ Of(s, "plugin", "symbolic") /\ m.kind = "sparse" /\ m.side # "plugin"
            /\ k[o].base = <<s, InnerIn(k, m)>>
            /\ k[o].owners = <<s, m>>
    <3> SUFFICES ASSUME Of(o, "plugin", "numeric")
                 PROVE  \E s, m \in DOMAIN k :
                          /\ Of(s, "plugin", "symbolic") /\ m.kind = "sparse" /\ m.side # "plugin"
                          /\ k[o].base = <<s, InnerIn(k, m)>>
                          /\ k[o].owners = <<s, m>>
      OBVIOUS
    <3>1. PICK s, m \in DOMAIN h :
            /\ Of(s, "plugin", "symbolic") /\ m.kind = "sparse" /\ m.side # "plugin"
            /\ h[o].base = <<s, InnerIn(h, m)>>
            /\ h[o].owners = <<s, m>>
      BY <2>1 DEF Shape
    <3>2. s \in K /\ m \in K
      <4>1. Owners(o) = {s, m}
        BY <2>2, <3>1 DEF Owners
      <4> QED BY <2>9, <4>1
    <3> QED BY <1>3, <2>1, <2>4, <3>1, <3>2
  <2>7. Of(o, "traced", "numeric") =>
          \E s, m \in DOMAIN k :
            /\ Of(s, "traced", "symbolic") /\ m.kind = "sparse" /\ m.side # "plugin"
            /\ k[o].base = <<s, m>>
            /\ k[k[o].wraps].base = <<k[s].wraps, InnerIn(k, m)>>
    <3> SUFFICES ASSUME Of(o, "traced", "numeric")
                 PROVE  \E s, m \in DOMAIN k :
                          /\ Of(s, "traced", "symbolic") /\ m.kind = "sparse" /\ m.side # "plugin"
                          /\ k[o].base = <<s, m>>
                          /\ k[k[o].wraps].base = <<k[s].wraps, InnerIn(k, m)>>
      OBVIOUS
    <3>1. PICK s, m \in DOMAIN h :
            /\ Of(s, "traced", "symbolic") /\ m.kind = "sparse" /\ m.side # "plugin"
            /\ h[o].base = <<s, m>>
            /\ h[h[o].wraps].base = <<h[s].wraps, InnerIn(h, m)>>
      BY <2>1 DEF Shape
    <3>2. h[o].owners = h[o].base
      BY <2>1 DEF Shape, Of
    <3>3. s \in K /\ m \in K
      <4>1. Owners(o) = {s, m}
        BY <2>2, <3>1, <3>2 DEF Owners
      <4> QED BY <2>9, <4>1
    <3> QED BY <1>3, <2>1, <2>3, <2>4, <3>1, <3>3 DEF Of
  <2>8. o.side = "traced" => k[o].wraps \in DOMAIN k /\ Of(k[o].wraps, "plugin", o.kind)
    BY <1>3, <2>1, <2>3 DEF Shape
  <2> QED BY <2>1, <2>5, <2>6, <2>7, <2>8 DEF Shape
<1>11. ASSUME NEW o \in K PROVE CacheShape(k, o)
  <2> SUFFICES ASSUME NEW part \in Parts, k[o].cache[part] # Null
               PROVE  /\ o.kind = "problem" /\ o.side # "own"
                      /\ k[o].cache[part] \in DOMAIN k /\ Of(k[o].cache[part], o.side, part)
                      /\ o.side = "plugin" /\ part # "graph" =>
                           /\ k[o].cache["graph"] # Null
                           /\ k[k[o].cache[part]].base = <<k[o].cache["graph"]>>
                      /\ o.side = "traced" =>
                           k[k[o].cache[part]].wraps = k[k[o].wraps].cache[part]
    BY DEF CacheShape
  <2>1. CacheShape(h, o) /\ Shape(h, o) /\ k[o] = h[o] /\ "graph" \in Parts
    BY <1>3, <1>5, <1>6 DEF Parts
  <2>2. k[o].cache[part] \in K /\ k[k[o].cache[part]] = h[h[o].cache[part]]
    BY <1>3, <1>7, <2>1
  <2>3. o.side = "traced" => k[k[o].wraps] = h[h[o].wraps]
    BY <1>3, <1>6, <1>7, <2>1 DEF Shape
  <2> QED BY <1>3, <2>1, <2>2, <2>3 DEF CacheShape
<1>12. WrappedOnce(k)
  BY <1>3, <1>4, <1>6 DEF WrappedOnce
<1>13. CachedOnce(k)
  BY <1>3, <1>4, <1>6 DEF CachedOnce
<1>14. WrapperCached(k)
  <2> SUFFICES ASSUME NEW p \in K, NEW w \in K, NEW part \in Parts, p.side = "plugin",
                      k[p].cache[part] # Null, k[w].wraps = k[p].cache[part]
               PROVE  \E t \in K : k[t].wraps = p /\ k[t].cache[part] = w
    BY <1>3 DEF WrapperCached
  <2>1. h[p].cache[part] # Null /\ h[w].wraps = h[p].cache[part] /\ p \in DOMAIN h /\ w \in DOMAIN h
    BY <1>3, <1>4
  <2>2. PICK t \in DOMAIN h : h[t].wraps = p /\ h[t].cache[part] = w
    BY <1>6, <2>1 DEF WrapperCached
  <2>3. p.kind = "problem" /\ p # Null
    BY <1>6, <2>1 DEF CacheShape
  <2>4. ASSUME t \notin K PROVE FALSE
    <3> DEFINE U == K \ {p}
    <3>1. U \in SUBSET DOMAIN h /\ hs \subseteq U
      BY <1>4
    <3>2. ASSUME NEW o \in U PROVE next[o] \subseteq U
      <4>1. o \in K /\ o \in DOMAIN h /\ next[o] = Keeps(h[o]) /\ Keeps(h[o]) \subseteq K
        BY <1>1, <1>5, <3>2
      <4>2. p \notin Keeps(h[o])
        <5>1. SUFFICES ASSUME p \in Keeps(h[o]) PROVE FALSE
          OBVIOUS
        <5>2. h[o].wraps = p
          BY <2>3, <4>1, <5>1, KeepsLower
        <5>3. o = t
          BY <1>6, <2>2, <2>3, <4>1, <5>2 DEF WrappedOnce
        <5> QED BY <2>4, <4>1, <5>3
      <4> QED BY <4>1, <4>2
    <3>3. K \subseteq U
      BY <1>4, <3>1, <3>2 DEF ClosedUnder
    <3> QED BY <3>3
  <2> QED BY <1>3, <2>2, <2>4
<1> QED BY <1>3, <1>4, <1>8, <1>9, <1>10, <1>11, <1>12, <1>13, <1>14 DEF HeapInv, k
-----------------------------------------------------------------------------
(* The steps.                                                              *)

LEMMA BecomesInv ==
  ASSUME NEW h, HeapInv(h), NEW hs \in SUBSET DOMAIN h, TracedContext \in hs,
         \A o \in hs : o.side # "plugin", Becomes(h, hs)
  PROVE  TrInv'
<1>1. heap' = Rest(h, hs) /\ handles' = hs
  BY DEF Becomes, Rest
<1>2. /\ HeapInv(Rest(h, hs)) /\ hs \subseteq DOMAIN Rest(h, hs)
      /\ DOMAIN Rest(h, hs) \subseteq DOMAIN h
  BY RestInv
<1>3. HeapInv(heap') /\ handles' \subseteq DOMAIN heap'
  BY <1>1, <1>2
<1> QED BY <1>1, <1>3 DEF TrInv

\* A step stays within the bound, so it begins there.
LEMMA BecomesBounded ==
  ASSUME NEW h, NEW hs, Becomes(h, hs), DOMAIN heap \subseteq DOMAIN h
  PROVE  Bounded(heap)
BY DEF Becomes, Bounded

\* An object of the plugin and its wrapper.
LEMMA MakeInv ==
  ASSUME TrInv, NEW parent \in handles, NEW kind \in Kinds, Make(parent, kind)
  PROVE  TrInv'
<1> DEFINE i == Fresh(heap, "plugin", kind)
           w == Fresh(heap, "traced", kind)
           parents == heap[parent].wraps
           made == Object(Null, <<parents>>)
           wrapper == Object(i, <<parent>>)
           h1 == Put(heap, i, made)
           h2 == Put(h1, w, wrapper)
<1>1. /\ HeapInv(heap) /\ handles \subseteq DOMAIN heap /\ Typed(heap)
      /\ parent \in DOMAIN heap /\ Shape(heap, parent) /\ parent \in Refs
  BY DEF TrInv, HeapInv, Typed
<1>2. /\ parent.side = "traced" /\ <<parent.kind, kind>> \in Offers
      /\ Becomes(h2, handles \cup {w})
  BY DEF Make
<1>2a. Bounded(heap)
  <2>1. DOMAIN heap \subseteq DOMAIN h2
    BY DEF Put
  <2> QED BY <1>2, <2>1, BecomesBounded
<1>3. /\ i \in Refs \ DOMAIN heap /\ Of(i, "plugin", kind)
      /\ w \in Refs \ DOMAIN heap /\ Of(w, "traced", kind)
  BY <1>1, <1>2a, FreshIsNew DEF Typed
<1>4. parents \in DOMAIN heap /\ Of(parents, "plugin", parent.kind) /\ parents \in Refs
  BY <1>1, <1>2 DEF Shape, Typed
<1>5. /\ made \in Objects /\ made.wraps = Null /\ made.base = <<parents>>
      /\ made.owners = <<parents>> /\ made.cache = NoParts
  <2>1. <<parents>> \in Seq(Refs)
    BY <1>4
  <2> QED BY <2>1, ObjectFields
<1>6. /\ wrapper \in Objects /\ wrapper.wraps = i /\ wrapper.base = <<parent>>
      /\ wrapper.owners = <<parent>> /\ wrapper.cache = NoParts
  <2>1. <<parent>> \in Seq(Refs)
    BY <1>1
  <2> QED BY <1>3, <2>1, ObjectFields
<1>7. \/ /\ parent.kind = "context" /\ kind \in {"matrix", "graph", "problem"}
         /\ parent = TracedContext /\ parents = PluginContext
      \/ parent.kind = "graph" /\ kind \in {"sparse", "symbolic"}
  <2>1. CASE parent.kind = "context"
    <3>1. parent.n = 1 /\ parents.n = 1 /\ parents.kind = "context"
      BY <1>1, <1>4, <2>1 DEF HeapInv, Shape, Of
    <3>2. parent = TracedContext /\ parents = PluginContext
      BY <1>1, <1>2, <1>4, <2>1, <3>1 DEF Refs, Of, TracedContext, PluginContext, Ref
    <3> QED BY <1>2, <2>1, <3>2 DEF Offers
  <2>2. CASE parent.kind # "context"
    BY <1>2, <2>2 DEF Offers
  <2> QED BY <2>1, <2>2
<1> HIDE DEF i, w, made, wrapper
<1>8. /\ DOMAIN h1 = DOMAIN heap \cup {i} /\ h1[i] = made
      /\ \A x \in DOMAIN heap : h1[x] = heap[x]
  BY <1>3 DEF Put
<1>9. Shape(h1, i)
  BY <1>3, <1>4, <1>5, <1>7, <1>8, ContextFields DEF Shape, Of
<1>10. HeapInv(h1)
  BY <1>1, <1>3, <1>5, <1>9, AddObject
<1> HIDE DEF h1
<1>11. /\ DOMAIN h2 = DOMAIN h1 \cup {w} /\ h2[w] = wrapper /\ w \notin DOMAIN h1
       /\ \A x \in DOMAIN h1 : h2[x] = h1[x]
  BY <1>3, <1>8 DEF Put, Of
<1>12. Shape(h2, w)
  BY <1>1, <1>2, <1>3, <1>4, <1>5, <1>6, <1>7, <1>8, <1>11, ContextFields DEF Shape, Of
<1>13. i # Null /\ i \in DOMAIN h1
  BY <1>3, <1>8, ContextFields
<1>14. ASSUME NEW x \in DOMAIN h1 PROVE h1[x].wraps # i /\ \A part \in Parts : h1[x].cache[part] # i
  <2>1. CASE x = i
    BY <1>5, <1>8, <1>13, <2>1 DEF NoParts
  <2>2. CASE x # i
    <3>1. x \in DOMAIN heap /\ h1[x] = heap[x] /\ Shape(heap, x) /\ CacheShape(heap, x)
      BY <1>1, <1>8, <2>2 DEF HeapInv
    <3> QED BY <1>3, <1>13, <3>1 DEF Shape, CacheShape
  <2> QED BY <2>1, <2>2
<1>15. HeapInv(h2)
  BY <1>3, <1>6, <1>10, <1>11, <1>12, <1>13, <1>14, AddObject
<1>16. /\ handles \cup {w} \in SUBSET DOMAIN h2 /\ TracedContext \in handles \cup {w}
       /\ \A o \in handles \cup {w} : o.side # "plugin"
  BY <1>1, <1>3, <1>8, <1>11 DEF TrInv, Of
<1> QED BY <1>2, <1>15, <1>16, BecomesInv DEF h1, i, w, made, wrapper

\* The benchmark's problems are wrappers, so are its symbolics and its numerics.
LEMMA HandleIsTraced ==
  ASSUME TrInv, NEW o \in handles, o.kind \notin {"matrix", "sparse"}
  PROVE  o \in DOMAIN heap /\ o \in Refs /\ o.side = "traced"
BY DEF TrInv, HeapInv, Typed, Shape, Refs

LEMMA MakePartInv ==
  ASSUME TrInv, NEW p \in handles, NEW part \in Parts, MakePart(p, part)
  PROVE  TrInv'
<1> DEFINE h == After(p, part)
           made == h[p].cache[part]
<1>1. p.kind = "problem" /\ Becomes(h, handles \cup {made}) /\ Bounded(h)
  BY DEF MakePart, Becomes, Bounded
<1>2. Of(p, "traced", "problem") /\ p \in DOMAIN heap /\ HeapInv(heap)
  BY <1>1, HandleIsTraced DEF Of, TrInv
<1>3. HeapInv(h) /\ Grows(heap, h) /\ made # Null
  <2>1. CASE part = "graph"
    BY <1>1, <1>2, <2>1, TracedGraphInv DEF After
  <2>2. CASE part # "graph"
    BY <1>1, <1>2, <2>2, TracedPartInv DEF After
  <2> QED BY <2>1, <2>2
<1> HIDE DEF h
<1>4. p \in DOMAIN h /\ CacheShape(h, p)
  BY <1>2, <1>3 DEF Grows, HeapInv
<1>5. made \in DOMAIN h /\ made.side = "traced"
  BY <1>2, <1>3, <1>4 DEF CacheShape, Of
<1>6. /\ handles \cup {made} \in SUBSET DOMAIN h /\ TracedContext \in handles \cup {made}
      /\ \A o \in handles \cup {made} : o.side # "plugin"
  BY <1>3, <1>5 DEF TrInv, Grows
<1> QED BY <1>1, <1>3, <1>6, BecomesInv

LEMMA MakePartThrowsInv ==
  ASSUME TrInv, NEW p \in handles, NEW part \in Parts, MakePartThrows(p, part)
  PROVE  TrInv'
<1> DEFINE P == heap[p].wraps
           hg == TracedGraph(heap, p)
<1>1. p.kind = "problem"
  BY DEF MakePartThrows
<1>2. Of(p, "traced", "problem") /\ p \in DOMAIN heap /\ HeapInv(heap)
  BY <1>1, HandleIsTraced DEF Of, TrInv
<1>3. P \in DOMAIN heap /\ Of(P, "plugin", "problem")
  BY <1>2 DEF HeapInv, Shape, Of
<1>4. ASSUME NEW h, HeapInv(h), Grows(heap, h), Becomes(h, handles) PROVE TrInv'
  <2>1. handles \in SUBSET DOMAIN h /\ TracedContext \in handles
        /\ \A o \in handles : o.side # "plugin"
    BY <1>4 DEF TrInv, Grows
  <2> QED BY <1>4, <2>1, BecomesInv
<1>5. CASE Becomes(hg, handles)
  <2>1. Bounded(hg)
    BY <1>5 DEF Becomes, Bounded
  <2> QED BY <1>2, <1>4, <1>5, <2>1, TracedGraphInv
<1>6. CASE part # "graph" /\ Becomes(PluginPart(heap, P, part), handles)
  <2>1. Bounded(PluginPart(heap, P, part))
    BY <1>6 DEF Becomes, Bounded
  <2>2. Bounded(PluginGraph(heap, P))
    BY <2>1, BuildersGrow, BoundedBefore
  <2>3. Bounded(heap)
    BY <2>2, BuildersGrow, BoundedBefore
  <2> QED BY <1>2, <1>3, <1>4, <1>6, <2>1, <2>3, PluginPartInv
<1>7. CASE part # "graph" /\ Becomes(PluginPart(hg, P, part), handles)
  <2>1. Bounded(PluginPart(hg, P, part))
    BY <1>7 DEF Becomes, Bounded
  <2>2. Bounded(PluginGraph(hg, P))
    BY <2>1, BuildersGrow, BoundedBefore
  <2>3. Bounded(hg)
    BY <2>2, BuildersGrow, BoundedBefore
  <2>4. HeapInv(hg) /\ Grows(heap, hg)
    BY <1>2, <2>3, TracedGraphInv
  <2>5. P \in DOMAIN hg
    BY <1>3, <2>4 DEF Grows
  <2>6. HeapInv(PluginPart(hg, P, part)) /\ Grows(hg, PluginPart(hg, P, part))
    BY <1>3, <1>7, <2>1, <2>3, <2>4, <2>5, PluginPartInv
  <2> QED BY <1>4, <1>7, <2>4, <2>6, GrowsOn
<1>8. CASE Becomes(PluginGraph(heap, P), handles)
  <2>1. Bounded(PluginGraph(heap, P))
    BY <1>8 DEF Becomes, Bounded
  <2>2. Bounded(heap)
    BY <2>1, BuildersGrow, BoundedBefore
  <2> QED BY <1>2, <1>3, <1>4, <1>8, <2>2, PluginGraphInv
<1> QED BY <1>5, <1>6, <1>7, <1>8 DEF MakePartThrows

LEMMA MakeNumericInv ==
  ASSUME TrInv, NEW s \in handles, NEW m \in handles, MakeNumeric(s, m)
  PROVE  TrInv'
<1> DEFINE i == Fresh(heap, "plugin", "numeric")
           w == Fresh(heap, "traced", "numeric")
           S == heap[s].wraps
           M == Inner(m)
           made == [Object(Null, <<S, M>>) EXCEPT !.owners = <<S, m>>]
           wrapper == [Object(Null, <<s, m>>) EXCEPT !.wraps = i]
           h1 == Put(heap, i, made)
           h2 == Put(h1, w, wrapper)
<1>1. /\ HeapInv(heap) /\ handles \subseteq DOMAIN heap /\ Typed(heap)
      /\ s \in DOMAIN heap /\ m \in DOMAIN heap /\ DOMAIN heap \subseteq Refs
      /\ m.side # "plugin"
  BY DEF TrInv, HeapInv, Typed
<1>2. /\ s.kind = "symbolic" /\ m.kind = "sparse" /\ Becomes(h2, handles \cup {w})
  BY DEF MakeNumeric, NewNumeric
<1>2a. Bounded(heap)
  <2>1. DOMAIN heap \subseteq DOMAIN h2
    BY DEF Put
  <2> QED BY <1>2, <2>1, BecomesBounded
<1>3. Of(s, "traced", "symbolic")
  BY <1>2, HandleIsTraced DEF Of
<1>4. "numeric" \in Kinds
  BY DEF Kinds
<1>5. /\ i \in Refs \ DOMAIN heap /\ Of(i, "plugin", "numeric")
      /\ w \in Refs \ DOMAIN heap /\ Of(w, "traced", "numeric")
  BY <1>1, <1>2a, <1>4, FreshIsNew
<1>6. S \in DOMAIN heap /\ Of(S, "plugin", "symbolic")
  BY <1>1, <1>3 DEF HeapInv, Shape, Of
<1>7. M \in DOMAIN heap /\ M = InnerIn(heap, m)
  BY <1>1, WrapsInHeap DEF Inner, InnerIn
<1>8. /\ made \in Objects /\ made.wraps = Null /\ made.base = <<S, M>>
      /\ made.owners = <<S, m>> /\ made.cache = NoParts
  <2>1. <<S, M>> \in Seq(Refs) /\ <<S, m>> \in Seq(Refs)
    BY <1>1, <1>6, <1>7
  <2> QED BY <2>1, ObjectFields DEF Object, Objects
<1>9. /\ wrapper \in Objects /\ wrapper.wraps = i /\ wrapper.base = <<s, m>>
      /\ wrapper.owners = <<s, m>> /\ wrapper.cache = NoParts
  <2>1. <<s, m>> \in Seq(Refs)
    BY <1>1
  <2> QED BY <1>5, <2>1, ObjectFields DEF Object, Objects
<1> HIDE DEF i, w, made, wrapper, M
<1>10. /\ DOMAIN h1 = DOMAIN heap \cup {i} /\ h1[i] = made
       /\ \A x \in DOMAIN heap : h1[x] = heap[x]
  BY <1>5 DEF Put
<1>11. Shape(h1, i)
  <2>1. InnerIn(h1, m) = M
    BY <1>1, <1>7, <1>10 DEF InnerIn
  <2>2. \E s2, m2 \in DOMAIN h1 :
          /\ Of(s2, "plugin", "symbolic") /\ m2.kind = "sparse" /\ m2.side # "plugin"
          /\ h1[i].base = <<s2, InnerIn(h1, m2)>>
          /\ h1[i].owners = <<s2, m2>>
    BY <1>1, <1>2, <1>6, <1>8, <1>10, <2>1
  <2> QED BY <1>5, <1>8, <1>10, <2>2 DEF Shape, Of
<1>12. HeapInv(h1)
  BY <1>1, <1>5, <1>8, <1>11, AddObject
<1> HIDE DEF h1
<1>13. /\ DOMAIN h2 = DOMAIN h1 \cup {w} /\ h2[w] = wrapper /\ w \notin DOMAIN h1
       /\ \A x \in DOMAIN h1 : h2[x] = h1[x]
  BY <1>5, <1>10 DEF Put, Of
<1>14. Shape(h2, w)
  <2>1. InnerIn(h2, m) = M /\ h2[s].wraps = S
    BY <1>1, <1>7, <1>10, <1>13 DEF InnerIn
  <2>2. h2[h2[w].wraps].base = <<S, M>>
    BY <1>8, <1>9, <1>10, <1>13
  <2>3. \E s2, m2 \in DOMAIN h2 :
          /\ Of(s2, "traced", "symbolic") /\ m2.kind = "sparse" /\ m2.side # "plugin"
          /\ h2[w].base = <<s2, m2>>
          /\ h2[h2[w].wraps].base = <<h2[s2].wraps, InnerIn(h2, m2)>>
    BY <1>1, <1>2, <1>3, <1>9, <1>10, <1>13, <2>1, <2>2
  <2> QED BY <1>5, <1>9, <1>10, <1>13, <2>3 DEF Shape, Of
<1>15. i # Null /\ i \in DOMAIN h1
  BY <1>5, <1>10, ContextFields
<1>16. ASSUME NEW x \in DOMAIN h1 PROVE h1[x].wraps # i /\ \A part \in Parts : h1[x].cache[part] # i
  <2>1. CASE x = i
    BY <1>8, <1>10, <1>15, <2>1 DEF NoParts
  <2>2. CASE x # i
    <3>1. x \in DOMAIN heap /\ h1[x] = heap[x] /\ Shape(heap, x) /\ CacheShape(heap, x)
      BY <1>1, <1>10, <2>2 DEF HeapInv
    <3> QED BY <1>5, <1>15, <3>1 DEF Shape, CacheShape
  <2> QED BY <2>1, <2>2
<1>17. HeapInv(h2)
  BY <1>5, <1>9, <1>12, <1>13, <1>14, <1>15, <1>16, AddObject
<1>18. /\ handles \cup {w} \in SUBSET DOMAIN h2 /\ TracedContext \in handles \cup {w}
       /\ \A o \in handles \cup {w} : o.side # "plugin"
  BY <1>1, <1>5, <1>10, <1>13 DEF TrInv, Of
<1> QED BY <1>2, <1>17, <1>18, BecomesInv DEF h1, i, w, made, wrapper, M

LEMMA OwnMatrixInv ==
  ASSUME TrInv, NEW kind \in {"matrix", "sparse"}, OwnMatrix(kind)
  PROVE  TrInv'
<1> DEFINE o == Fresh(heap, "own", kind)
           made == Object(Null, <<>>)
           h == Put(heap, o, made)
<1>1. Becomes(h, handles \cup {o})
  BY DEF OwnMatrix
<1>2. HeapInv(heap) /\ DOMAIN heap \subseteq Refs /\ kind \in Kinds
  BY DEF TrInv, HeapInv, Typed, Kinds
<1>2a. Bounded(heap)
  <2>1. DOMAIN heap \subseteq DOMAIN h
    BY DEF Put
  <2> QED BY <1>1, <2>1, BecomesBounded
<1>3. o \in Refs \ DOMAIN heap /\ Of(o, "own", kind)
  BY <1>2, <1>2a, FreshIsNew
<1>4. /\ made \in Objects /\ made.wraps = Null /\ made.base = <<>>
      /\ made.owners = <<>> /\ made.cache = NoParts
  <2>1. <<>> \in Seq(Refs)
    OBVIOUS
  <2> QED BY <2>1, ObjectFields
<1> HIDE DEF o, made
<1>5. DOMAIN h = DOMAIN heap \cup {o} /\ h[o] = made
  BY DEF Put
<1>6. Shape(h, o)
  BY <1>3, <1>4, <1>5 DEF Shape, Of
<1>7. HeapInv(h)
  BY <1>2, <1>3, <1>4, <1>6, AddObject
<1>8. /\ handles \cup {o} \in SUBSET DOMAIN h /\ TracedContext \in handles \cup {o}
      /\ \A x \in handles \cup {o} : x.side # "plugin"
  BY <1>3, <1>5 DEF TrInv, Of
<1> QED BY <1>1, <1>7, <1>8, BecomesInv DEF o, made

LEMMA DropInv ==
  ASSUME TrInv, NEW o \in handles, Drop(o)
  PROVE  TrInv'
<1>1. o # TracedContext /\ Becomes(heap, handles \ {o})
  BY DEF Drop
<1>2. /\ HeapInv(heap) /\ handles \ {o} \in SUBSET DOMAIN heap
      /\ TracedContext \in handles \ {o} /\ \A x \in handles \ {o} : x.side # "plugin"
  BY <1>1 DEF TrInv
<1> QED BY <1>1, <1>2, BecomesInv

LEMMA InitInv ==
  ASSUME TrInit
  PROVE  TrInv
<1>1. /\ DOMAIN heap = {PluginContext, TracedContext}
      /\ heap[PluginContext] = Object(Null, <<>>)
      /\ heap[TracedContext] = Object(PluginContext, <<>>)
      /\ handles = {TracedContext}
  BY ContextFields DEF TrInit
<1>2. /\ \A wraps \in Refs \cup {Null} :
           /\ Object(wraps, <<>>) \in Objects /\ Object(wraps, <<>>).wraps = wraps
           /\ Object(wraps, <<>>).base = <<>> /\ Object(wraps, <<>>).owners = <<>>
           /\ \A part \in Parts : Object(wraps, <<>>).cache[part] = Null
  <2>1. <<>> \in Seq(Refs)
    OBVIOUS
  <2> QED BY <2>1, ObjectFields
<1>3. /\ heap[PluginContext].wraps = Null /\ heap[TracedContext].wraps = PluginContext
      /\ \A o \in DOMAIN heap :
           /\ heap[o] \in Objects /\ heap[o].base = <<>> /\ heap[o].owners = <<>>
           /\ \A part \in Parts : heap[o].cache[part] = Null
  BY <1>1, <1>2, ContextFields
<1>4. Typed(heap)
  <2>1. IsFiniteSet({PluginContext, TracedContext})
    <3>1. IsFiniteSet({PluginContext}) /\ {PluginContext, TracedContext} = {PluginContext} \cup {TracedContext}
      BY FS_Singleton
    <3> QED BY <3>1, FS_AddElement
  <2>2. heap = [o \in DOMAIN heap |-> heap[o]]
    BY DEF TrInit
  <2> QED BY <1>1, <1>3, <2>1, <2>2, ContextFields DEF Typed
<1>5. HasContexts(heap)
  BY <1>1, <1>3 DEF HasContexts
<1>6. \A o \in DOMAIN heap : Shape(heap, o) /\ CacheShape(heap, o)
  BY <1>1, <1>3, ContextFields DEF Shape, CacheShape, Of
<1>7. WrappedOnce(heap) /\ CachedOnce(heap) /\ WrapperCached(heap)
  BY <1>1, <1>3, ContextFields DEF WrappedOnce, CachedOnce, WrapperCached
<1> QED BY <1>1, <1>4, <1>5, <1>6, <1>7, ContextFields DEF TrInv, HeapInv, Of

LEMMA NextInv ==
  ASSUME TrInv, [TrNext]_trVars
  PROVE  TrInv'
<1>1. CASE UNCHANGED trVars
  BY <1>1 DEF trVars, TrInv, HeapInv, Typed, HasContexts, Shape, CacheShape, WrappedOnce,
              CachedOnce, WrapperCached, Bounded, InnerIn
<1>2. ASSUME NEW o \in handles, NEW kind \in Kinds, Make(o, kind) PROVE TrInv'
  BY <1>2, MakeInv
<1>3. ASSUME NEW o \in handles, NEW part \in Parts, MakePart(o, part) PROVE TrInv'
  BY <1>3, MakePartInv
<1>4. ASSUME NEW o \in handles, NEW part \in Parts, MakePartThrows(o, part) PROVE TrInv'
  BY <1>4, MakePartThrowsInv
<1>5. ASSUME NEW o \in handles, Drop(o) PROVE TrInv'
  BY <1>5, DropInv
<1>6. ASSUME NEW o \in handles, NEW m \in handles, MakeNumeric(o, m) PROVE TrInv'
  BY <1>6, MakeNumericInv
<1>7. ASSUME NEW f, NEW rhs, NEW solution, Solve(f, rhs, solution) PROVE TrInv'
  BY <1>7 DEF Solve, TrInv
<1>8. ASSUME NEW kind \in {"matrix", "sparse"}, OwnMatrix(kind) PROVE TrInv'
  BY <1>8, OwnMatrixInv
<1> QED BY <1>1, <1>2, <1>3, <1>4, <1>5, <1>6, <1>7, <1>8 DEF TrNext
-----------------------------------------------------------------------------
(* Theorems.                                                               *)

\* The invariant above holds in every state, for every number of objects.
THEOREM TrInvariant == TrSpec => []TrInv
BY InitInv, NextInv, PTL DEF TrSpec

\* No object of the plugin, and no wrapper, is freed while a living one points to it.
THEOREM NeverDangles == TrSpec => []NoDangling
<1>1. TrInv => NoDangling
  BY KeepsAlive DEF TrInv, NoDangling
<1> QED BY <1>1, TrInvariant, PTL

\* A matrix that the benchmark holds is alive, and so is the object behind it, which
\* is no wrapper.
LEMMA InnerIsPlain ==
  ASSUME TrInv, NEW o \in handles
  PROVE  Inner(o) \in DOMAIN heap /\ heap[Inner(o)].wraps = Null
<1>1. o \in DOMAIN heap /\ HeapInv(heap)
  BY DEF TrInv
<1>2. CASE heap[o].wraps = Null
  BY <1>1, <1>2 DEF Inner
<1>3. CASE heap[o].wraps # Null
  <2>1. Inner(o) \in DOMAIN heap /\ Inner(o).side = "plugin"
    BY <1>1, <1>3, WrapsInHeap DEF Inner, Of
  <2> QED BY <1>1, <2>1 DEF HeapInv, Shape
<1> QED BY <1>2, <1>3

LEMMA SolveOfPlain ==
  ASSUME TrInv, NEW f \in handles, NEW rhs \in handles, NEW solution \in handles,
         Solve(f, rhs, solution)
  PROVE  SolvesItsOwn'
<1>1. f.kind = "numeric"
  BY DEF Solve
<1>2. f \in DOMAIN heap /\ f \in Refs /\ f.side = "traced" /\ HeapInv(heap)
  BY <1>1, HandleIsTraced DEF TrInv
<1>3. heap[f].wraps \in DOMAIN heap /\ heap[f].wraps.side = "plugin"
  BY <1>2 DEF HeapInv, Shape, Of
<1>4. heap[heap[f].wraps].wraps = Null
  BY <1>2, <1>3 DEF HeapInv, Shape
<1>5. /\ Inner(rhs) \in DOMAIN heap /\ heap[Inner(rhs)].wraps = Null
      /\ Inner(solution) \in DOMAIN heap /\ heap[Inner(solution)].wraps = Null
  BY InnerIsPlain
<1>6. passed' = <<heap[f].wraps, Inner(rhs), Inner(solution)>> /\ heap' = heap
  BY DEF Solve
<1>7. \A k \in 1..Len(passed') : passed'[k] \in {heap[f].wraps, Inner(rhs), Inner(solution)}
  BY <1>6
<1> QED BY <1>3, <1>4, <1>5, <1>6, <1>7 DEF SolvesItsOwn

LEMMA SolvesItsOwnKept ==
  ASSUME TrInv, SolvesItsOwn, [TrNext]_trVars
  PROVE  SolvesItsOwn'
<1>1. CASE UNCHANGED trVars
  BY <1>1 DEF trVars, SolvesItsOwn
<1>2. CASE passed' = <<>>
  BY <1>2 DEF SolvesItsOwn
<1>3. ASSUME NEW f \in handles, NEW rhs \in handles, NEW solution \in handles,
             Solve(f, rhs, solution)
      PROVE  SolvesItsOwn'
  BY <1>3, SolveOfPlain
<1>4. ASSUME TrNext, ~ \E f, rhs, solution \in handles : Solve(f, rhs, solution)
      PROVE  passed' = <<>>
  BY <1>4 DEF TrNext, Make, MakePart, MakePartThrows, MakeNumeric, NewNumeric, OwnMatrix, Drop
<1> QED BY <1>1, <1>2, <1>3, <1>4

\* A wrapper and the object behind it are built on the same objects, unwrapped, and
\* the plugin never solves with a wrapper or with an object that was freed.
THEOREM PluginNeverSeesWrappers == TrSpec => []PluginSeesItsOwn
<1>1. TrInv => BuiltOnItsOwn
  <2> SUFFICES ASSUME TrInv, NEW o \in DOMAIN heap, heap[o].wraps # Null
               PROVE  heap[heap[o].wraps].base
                        = [k \in 1..Len(heap[o].base) |-> Inner(heap[o].base[k])]
    BY DEF BuiltOnItsOwn
  <2> DEFINE i == heap[o].wraps
             Unwrapped(b) == [k \in 1..Len(b) |-> Inner(b[k])]
  <2>1. /\ Shape(heap, o) /\ Shape(heap, i) /\ o \in Refs
        /\ o.side = "traced" /\ Of(i, "plugin", o.kind) /\ HasContexts(heap)
    BY WrapsInHeap DEF TrInv, HeapInv, Typed
  <2>2. /\ Unwrapped(<<>>) = <<>>
        /\ \A a : Unwrapped(<<a>>) = <<Inner(a)>>
        /\ \A a, b : Unwrapped(<<a, b>>) = <<Inner(a), Inner(b)>>
    OBVIOUS
  <2>3. \A x \in DOMAIN heap : Inner(x) = InnerIn(heap, x)
    BY DEF Inner, InnerIn
  <2>4. CASE o.kind = "context"
    <3>1. heap[o].base = <<>> /\ heap[i].base = <<>>
      BY <2>1, <2>4 DEF Shape, Of
    <3> QED BY <2>2, <3>1
  <2>5. CASE o.kind \in {"matrix", "graph", "problem"}
    <3>1. heap[o].base = <<TracedContext>> /\ heap[i].base = <<PluginContext>>
      BY <2>1, <2>5, ContextFields DEF Shape, Of
    <3>2. Inner(TracedContext) = PluginContext
      BY <2>1, ContextFields DEF HasContexts, Inner
    <3> QED BY <2>2, <3>1, <3>2
  <2>6. CASE o.kind \in {"sparse", "symbolic"}
    <3>1. PICK g \in DOMAIN heap :
            /\ Of(g, "traced", "graph") /\ heap[o].base = <<g>>
            /\ heap[i].base = <<heap[g].wraps>>
      BY <2>1, <2>6 DEF Shape
    <3>2. heap[g].wraps # Null
      BY <3>1, ContextFields DEF TrInv, HeapInv, Shape, Typed, Of
    <3>3. Inner(g) = heap[g].wraps
      BY <3>2 DEF Inner
    <3> QED BY <2>2, <3>1, <3>3
  <2>7. CASE o.kind = "numeric"
    <3>1. PICK s, m \in DOMAIN heap :
            /\ Of(s, "traced", "symbolic") /\ heap[o].base = <<s, m>>
            /\ heap[i].base = <<heap[s].wraps, InnerIn(heap, m)>>
      BY <2>1, <2>7 DEF Shape, Of
    <3>2. heap[s].wraps # Null
      BY <3>1, ContextFields DEF TrInv, HeapInv, Shape, Typed, Of
    <3>3. Inner(s) = heap[s].wraps /\ Inner(m) = InnerIn(heap, m)
      BY <2>3, <3>2 DEF Inner
    <3> QED BY <2>2, <3>1, <3>3
  <2> QED BY <2>1, <2>4, <2>5, <2>6, <2>7 DEF Refs, Kinds
<1>2. TrInit => SolvesItsOwn
  BY DEF TrInit, SolvesItsOwn
<1>3. TrInv /\ SolvesItsOwn /\ [TrNext]_trVars => SolvesItsOwn'
  BY SolvesItsOwnKept
<1>4. TrSpec => []SolvesItsOwn
  BY <1>2, <1>3, TrInvariant, PTL DEF TrSpec
<1>5. BuiltOnItsOwn /\ SolvesItsOwn => PluginSeesItsOwn
  BY DEF PluginSeesItsOwn
<1> QED BY <1>1, <1>4, <1>5, TrInvariant, PTL

\* An object of the plugin has one wrapper.
THEOREM OneWrapperEach == TrSpec => []OneWrapper
<1>1. TrInv => OneWrapper
  BY DEF TrInv, HeapInv, WrappedOnce, OneWrapper
<1> QED BY <1>1, TrInvariant, PTL

\* No object keeps itself alive, directly or through others.
THEOREM NothingEverLeaks == TrSpec => []NothingLeaks
<1>1. TrInv => NothingLeaks
  <2> SUFFICES ASSUME TrInv, NEW o \in DOMAIN heap
               PROVE  o \notin Kept(heap, Keeps(heap[o]))
    BY DEF NothingLeaks
  <2> DEFINE D == DOMAIN heap
             roots == Keeps(heap[o])
             next == Links(heap)
             Lower == {q \in D : Height(q) < Height(o)}
  <2>1. HeapInv(heap) /\ roots \in SUBSET D /\ \A q \in D : q \in Refs
    BY KeepsAlive DEF TrInv, HeapInv, Typed
  <2>2. next \in [D -> SUBSET D] /\ \A q \in D : next[q] = Keeps(heap[q])
    BY <2>1, KeepsAlive DEF Links
  <2>3. Kept(heap, roots) = Closure(D, next, roots)
    BY <2>1, KeptIsClosure
  <2>4. roots \subseteq Lower
    BY <2>1, KeepsLower
  <2>5. ClosedUnder(next, Lower)
    <3> SUFFICES ASSUME NEW q \in Lower, NEW r \in next[q] PROVE r \in Lower
      BY DEF ClosedUnder
    <3>1. r \in Keeps(heap[q]) /\ q \in D /\ r \in D
      BY <2>2
    <3>2. Height(r) < Height(q)
      BY <2>1, <3>1, KeepsLower
    <3>3. Height(r) \in Nat /\ Height(q) \in Nat /\ Height(o) \in Nat
      BY <2>1, <3>1, Heights
    <3> QED BY <3>1, <3>2, <3>3
  <2>6. Lower \in SUBSET D
    OBVIOUS
  <2>7. o \notin Lower
    BY <2>1, Heights
  <2> HIDE DEF D, roots, next, Lower
  <2>8. Closure(D, next, roots) \subseteq Lower
    BY <2>1, <2>2, <2>4, <2>5, <2>6, ClosureIsClosed
  <2> QED BY <2>3, <2>7, <2>8 DEF roots
<1> QED BY <1>1, TrInvariant, PTL

=============================================================================
