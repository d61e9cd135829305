----------------------------- MODULE TracedCalls -----------------------------
(***************************************************************************)
(* The forwarding methods of the tracing wrappers: each opens a slice and  *)
(* calls the method of the wrapped object.  Most hand the plugin a lambda  *)
(* in the place of each callback, which opens a slice of its own and calls *)
(* the callback; solve unwraps the two matrices it is given.  A slice ends *)
(* with its scope, by a return or by an exception.  The methods that make  *)
(* objects are in TracingSolver.                                           *)
(***************************************************************************)
EXTENDS Naturals, Sequences

CONSTANTS
  None,      \* no method
  Data,      \* arguments other than objects, views, results and exceptions
  Matrices,  \* the matrices of the plugin, and of classes of the benchmark
  MaxSteps   \* bound: what happens in one call before the plugin stops calling back

VARIABLES
  at,        \* "benchmark", "method" (of a wrapper), "plugin", "lambda" (of a
             \* wrapper) or "callback" (of the benchmark)
  method,    \* the method called last
  given,     \* the functions the plugin was given, by position
  chosen,    \* the position that the plugin calls
  msg,       \* what was handed over last
  events,    \* the trace: begins and ends of slices since the method was called
  happened   \* history: what began and ended in the plugin and in the callbacks
             \* that have a slice

tcVars == <<at, method, given, chosen, msg, events, happened>>

Messages == [kind : {"call", "value", "exception"}, data : Data]

\* tracing_matrix_t: a wrapper holds the plugin's matrix.
Wrappers == [inner : Matrices]

\* The arguments of solve, which are objects of one or the other class.
SolveArguments(objects) == [rhs : objects, solution : objects]
-----------------------------------------------------------------------------
(* The methods, and the functions they hand to the plugin: the lambda around *)
(* the callback that the benchmark gave as the n-th, or that callback.     *)

Around(n, slice) == [callback |-> n, slice |-> slice]
Itself(n) == [callback |-> n, slice |-> "none"]

MatrixMethods ==
  [m \in {"matrix.nrows", "matrix.ncols", "matrix.dtype", "matrix.preallocate",
          "matrix.borrow_matrix_view", "matrix.build_from_host", "matrix.read_to_host",
          "matrix.build_from_placement", "matrix.read_to_placement"} |->
     CASE m = "matrix.build_from_host" -> <<Around(1, "matrix.build_from_host.callback")>>
       [] m = "matrix.read_to_host" -> <<Around(1, "matrix.read_to_host.callback")>>
       [] m \in {"matrix.build_from_placement", "matrix.read_to_placement"} -> <<Itself(1)>>
       [] OTHER -> <<>>]

ProblemMethods ==
  [m \in {"sparse_problem.properties", "sparse_problem.assert_properties",
          "sparse_problem.compute_missing_properties"} |-> <<>>]

GraphMethods ==
  [m \in {"graph.itype", "graph.nrows", "graph.ncols", "graph.nedges",
          "graph.borrow_compressed_graph_view", "graph.build_from_host"} |->
     IF m = "graph.build_from_host"
       THEN <<Around(1, "graph.count_builder"), Around(2, "graph.edge_builder")>>
       ELSE <<>>]

SparseMatrixMethods ==
  [m \in {"sparse_matrix.nrows", "sparse_matrix.ncols", "sparse_matrix.dtype",
          "sparse_matrix.borrow_sparse_values_view", "sparse_matrix.build_from_host",
          "sparse_matrix.read_to_host"} |->
     CASE m = "sparse_matrix.build_from_host" -> <<Around(1, "sparse_matrix.value_builder")>>
       [] m = "sparse_matrix.read_to_host" -> <<Around(1, "sparse_matrix.value_reader")>>
       [] OTHER -> <<>>]

NumericMethods ==
  [m \in {"numeric_factorization.dtype", "numeric_factorization.solve"} |-> <<>>]

ContextMethods == [m \in {"context.check_support"} |-> <<>>]

Classes ==
  {MatrixMethods, ProblemMethods, GraphMethods, SparseMatrixMethods, NumericMethods,
   ContextMethods}

Methods == UNION {DOMAIN class : class \in Classes}

\* The functions that a method hands to the plugin.
Forwarding == [m \in Methods |-> (CHOOSE class \in Classes : m \in DOMAIN class)[m]]

\* The method that is given objects.
Solving == "numeric_factorization.solve"

\* What the benchmark may pass to the method m.
Arguments(m) == IF m = Solving THEN SolveArguments(Matrices \cup Wrappers) ELSE Data

ASSUME TcAssumption ==
  /\ None \notin Methods /\ MaxSteps \in Nat
  /\ Matrices \cap Wrappers = {}
-----------------------------------------------------------------------------
(* The steps.                                                              *)

Begin(slice) == events' = Append(events, <<"begin", slice>>)
End(slice) == events' = Append(events, <<"end", slice>>)
Happens(what, who) == happened' = Append(happened, <<what, who>>)

\* The benchmark calls a method of a wrapper.
Enter(m) ==
  /\ at = "benchmark"
  /\ at' = "method"
  /\ method' = m
  /\ given' = <<>>
  /\ msg' \in [kind : {"call"}, data : Arguments(m)]
  /\ events' = <<<<"begin", m>>>>
  /\ happened' = <<>>
  /\ UNCHANGED chosen

\* dynamic_cast to the wrapper class and inner(); anything else passes through.
Unwrap(o) == IF o \in Wrappers THEN o.inner ELSE o

\* The solution is handed over as it came.
MutantForwarded(call) ==
  IF method # Solving THEN call
  ELSE [kind |-> "call", data |-> [rhs |-> Unwrap(call.data.rhs),
                                   solution |-> call.data.solution]]

\* What the plugin receives for a call of the benchmark.
Forwarded(call) ==
  IF method # Solving THEN call
  ELSE [kind |-> "call", data |-> [rhs |-> Unwrap(call.data.rhs),
                                   solution |-> Unwrap(call.data.solution)]]

Forward ==
  /\ at = "method" /\ msg.kind = "call"
  /\ at' = "plugin"
  /\ given' = Forwarding[method]
  /\ msg' = Forwarded(msg)
  /\ Happens("begin", method)
  /\ UNCHANGED <<method, chosen, events>>

\* The plugin calls the n-th function it was given.
PluginCallsBack(n) ==
  /\ at = "plugin" /\ Len(happened) < MaxSteps
  /\ chosen' = n
  /\ msg' \in Messages /\ msg'.kind = "call"
  /\ IF given[n].slice # "none"
       THEN at' = "lambda" /\ Begin(given[n].slice) /\ UNCHANGED happened
       ELSE at' = "callback" /\ UNCHANGED <<events, happened>>
  /\ UNCHANGED <<method, given>>

CallBenchmark ==
  /\ at = "lambda" /\ msg.kind = "call"
  /\ at' = "callback"
  /\ Happens("begin", given[chosen].slice)
  /\ UNCHANGED <<method, given, chosen, msg, events>>

\* The callback returns or throws, into the lambda or into the plugin.
CallbackAnswers ==
  /\ at = "callback"
  /\ msg' \in Messages /\ msg'.kind # "call"
  /\ IF given[chosen].slice # "none"
       THEN at' = "lambda" /\ Happens("end", given[chosen].slice)
       ELSE at' = "plugin" /\ UNCHANGED happened
  /\ UNCHANGED <<method, given, chosen, events>>

\* A slice that is closed by hand, after the call.
MutantLeaveLambda ==
  /\ at = "lambda" /\ msg.kind # "call"
  /\ at' = "plugin"
  /\ IF msg.kind = "value" THEN End(given[chosen].slice) ELSE UNCHANGED events
  /\ UNCHANGED <<method, given, chosen, msg, happened>>

LeaveLambda ==
  /\ at = "lambda" /\ msg.kind # "call"
  /\ at' = "plugin"
  /\ End(given[chosen].slice)
  /\ UNCHANGED <<method, given, chosen, msg, happened>>

PluginAnswers ==
  /\ at = "plugin"
  /\ at' = "method"
  /\ msg' \in Messages /\ msg'.kind # "call"
  /\ Happens("end", method)
  /\ UNCHANGED <<method, given, chosen, events>>

Leave ==
  /\ at = "method" /\ msg.kind # "call"
  /\ at' = "benchmark"
  /\ End(method)
  /\ UNCHANGED <<method, given, chosen, msg, happened>>

TcInit ==
  /\ at = "benchmark" /\ method = None /\ given = <<>> /\ chosen = 0
  /\ msg \in Messages /\ msg.kind # "call"
  /\ events = <<>> /\ happened = <<>>

TcNext ==
  \/ \E m \in Methods : Enter(m)
  \/ Forward
  \/ \E n \in 1..Len(given) : PluginCallsBack(n)
  \/ CallBenchmark \/ CallbackAnswers \/ LeaveLambda \/ PluginAnswers \/ Leave

TcSpec == TcInit /\ [][TcNext]_tcVars
-----------------------------------------------------------------------------
(* Properties.                                                             *)

\* The trace of a call tells what happened in it, neither more nor less and in
\* the same order: every stay in the plugin and in every callback, ended by
\* an exception or not, except the callbacks of the two placement methods,
\* which have no slice.
TraceTellsTheCall ==
  at = "benchmark" => events = happened

\* What is left of a state without the wrappers: in a wrapper, a call or an answer
\* is on its way.
Side == CASE at = "method" -> IF msg.kind = "call" THEN "to plugin" ELSE "to benchmark"
          [] at = "lambda" -> IF msg.kind = "call" THEN "to benchmark" ELSE "to plugin"
          [] at = "plugin" -> "plugin"
          [] OTHER -> "benchmark"

Called == IF at = "benchmark" \/ (at = "method" /\ msg.kind # "call") THEN None ELSE method

CalledBack == CASE at = "callback" -> given[chosen].callback
                [] at = "lambda" /\ msg.kind = "call" -> chosen
                [] OTHER -> 0

\* The matrix that the benchmark speaks of, by its wrapper or by itself.
Meant(o) == CHOOSE x \in Matrices : o = x \/ o = [inner |-> x]

\* The message without wrappers, which it is to be when the plugin receives it.
Sent ==
  IF at = "method" /\ msg.kind = "call" /\ method = Solving
    THEN [kind |-> "call", data |-> [rhs |-> Meant(msg.data.rhs),
                                     solution |-> Meant(msg.data.solution)]]
    ELSE msg

Direct == INSTANCE SolverCalls WITH
  Arity <- [m \in Methods |-> Len(Forwarding[m])],
  Data <- Data \cup SolveArguments(Matrices),
  side <- Side, method <- Called, callback <- CalledBack, msg <- Sent

\* Whatever a benchmark and a plugin do to each other through the wrappers they
\* could do without them: each call and callback arrives once, at the function
\* meant, with the data that was sent, and so does each answer or exception; and
\* the plugin is asked to solve with the matrices that the benchmark means, its
\* own ones unwrapped, each in its role.
DirectSpec == Direct!CallsSpec

=============================================================================
