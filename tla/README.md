# sparse-solver-gym: specifications and proofs

TLA+ specifications of `sparse-solver-gym`, the test suite for sparse linear
solvers, model-checked with TLC; every safety property that a run checks is also
proved with TLAPS, for all values of the constants.
Source references are to the repository root (`src/sparse_solver_gym/...`,
`src/benchmarks/...`).

## The system

`sparse-solver-gym run --solver plugin.so` loads a solver plugin through the
sparse solver interface (SSI), runs every selected benchmark in a process of its
own, and reports one verdict per benchmark.

| component | state it keeps | operations | interacts with |
|---|---|---|---|
| command line (`cli.cpp`, `main.cpp`) | `cli_options` | `parse_cli`; `main` maps exceptions to exit code 2 | everything, once in the process of the user and once in every worker |
| registry and selection (`benchmark.cpp`) | the vector of registered benchmarks | `add` from static constructors, `find`, `select_benchmarks` | orchestrator, worker |
| orchestrator (`orchestrator.cpp`) | the results so far; the pid and deadline of the current worker | `run_orchestrator`, `run_child` (fork, poll, SIGTERM, SIGKILL, reap, classify) | workers through fork/exec, signals and wait status; the plugin through `check_support` |
| worker (`worker.cpp`) | one benchmark run | `run_worker`; three handlers turn exceptions into exit codes 1 and 10 | trace session, tracing wrappers, benchmark |
| trace session (`perfetto_trace.cpp`) | `stopped_`, the recorded events, the output file | constructor, `stop`, destructor | worker; the file system |
| tracing wrappers (`tracing_solver.cpp`) | reference-counted objects, the parts a problem caches | every SSI method: open a slice, forward, unwrap arguments, wrap results | benchmark above, plugin below |
| benchmarks (`laplacian_1d.cpp`, `laplacian_3d_streaming.cpp`, `laplacian_common.hpp`) | right-hand sides, expected solutions, worst metrics | builders called back by the plugin; `validate_solution` | tracing wrappers |

What is hard to test here:

* **two processes and a clock**: a worker may end at any instant between a poll,
  the deadline test, SIGTERM, the grace sleep and SIGKILL;
* **failure of one step of several**: a trace that cannot be opened, written or
  closed; a benchmark that throws through open slices; a plugin that throws while
  a wrapper is half made; a kill in the middle of a write;
* **two sides that must agree**: exception, exit code and verdict; count builder
  and edge builder; host stencil and matrix; the name the orchestrator passes and
  the benchmark the worker finds;
* **a program that calls itself**: what `run_child` writes into an argument vector,
  `parse_cli` must read back in the worker as it was meant;
* **order and repetition**: stopping a session twice, benchmarks selected twice,
  registration order, pointers dropped in any order;
* **numeric edges**: NaN, the faces and corners of a grid, a full trace buffer.

`PROJECT.json` lists each of these at its line with the properties that would catch it
going wrong. Five have none, and say why: a plugin that crashes or hangs in
`check_support`, inside the orchestrator; trace files that collide because a benchmark is
named twice or two names have one safe form; the events that a full trace buffer drops;
an orchestrator that dies while a worker runs; and callbacks that a plugin keeps. The
first four are in the models, but the code promises nothing about them, so the properties
exempt them.

## The modules

| module | models | checked by |
|---|---|---|
| `SuiteRun` | the promise of a run to its caller: one verdict per selected benchmark, in order, and an exit code that follows from them | refined by `Orchestrator` |
| `Orchestrator` | `run_orchestrator` and `run_child`, the kernel's view of the worker, the clock | `MCOrchestrator`, `OrchestratorProofs` |
| `Worker` | `run_worker`, `perfetto_trace_session`, the trace file | `MCWorker`, `WorkerProofs` |
| `Gym` | the two composed: orchestrator, workers one after the other, their files; refines `Orchestrator` | `MCGym`, `GymProofs` |
| `Selection` | static registration, `find` and `select_benchmarks` | `MCCommandLine`, `CommandLineProofs` |
| `CommandLine` | `main`, `parse_cli`, the argument vector of the worker and its second parse; uses `Selection` | `MCCommandLine`, `CommandLineProofs` |
| `SolverCalls` | a benchmark and a plugin that talk to each other without wrappers | refined by `TracedCalls` |
| `TracedCalls` | the wrappers' forwarding methods, their lambdas and their slices | `MCTracedCalls`, `TracingProofs` |
| `TracingSolver` | the wrappers that make objects, as a heap of reference-counted objects | `MCTracingSolver`, `TracingProofs` |
| `Grid` | the pure arithmetic: index, coordinates, degrees, neighbours, stencils, manufactured solutions | the next two, `GridProofs` |
| `Laplacian` | the builders of both benchmarks, as callbacks of the plugin | `MCLaplacian`, `LaplacianProofs` |
| `Validation` | the loop over right-hand sides, `validate_solution`, the final decision | `MCValidation`, `LaplacianProofs` |
| `FoldProofs` | nothing: the facts about loops, sums and reachability that the proofs share | |

### How the modules correspond to the code

**Orchestrator.** `pc` is the location in `run_orchestrator` and `run_child`:
`start`, `setup`, `loop`, then `poll` (the `waitpid` at line 105), `deadline` (the
test at 115), `grace` (after the sleep, before the `waitpid` at 118), `kill` (119),
`killwait` (120), `done`. `child` is the worker as the kernel sees it: `running`,
`zombie`, `reaped`; `end` its wait status. Signals sent are collected in `sent`;
delivery is an action of the kernel (`TermKills`, `KillKills`), so SIGTERM may be
ignored. `expired` is the clock passing the deadline. Sleeping is the time between
two actions. `options` and `sigchldIgnored` are rigid and chosen in `Init`:
`execv` and shells pass an ignored SIGCHLD on, and then the kernel reaps workers
by itself. Every exception ends in `Throw`, for nothing between its source and
`main` catches it. `fates` is a history variable: what really happened behind each
result. `shell_safe_name` and the path join are the constant `SafePath`, an
arbitrary function from benchmarks to paths, so that collisions are included.

**Worker.** `wpc` is the location in `run_worker` or `stop()`; `exc` the exception in
flight; `open` the stack of TRACE_EVENT scopes, `benchmark.run` at the bottom.
`EndSlice` is the end of a scope on both paths, return and unwinding. The destructor
of the session is a step of every path out of the try block, before the handler
(`leave`). A plugin may end the process (`PluginExits`) when it is loaded, in a
benchmark, and in the destructors of its objects while the worker unwinds. A file
write is three steps: the stream constructor truncates, `write` hands over the data or
leaves it in the stream, the stream's destructor writes the rest; each can fail if
`DiskFaults` says so. The trace buffer keeps the newest `Capacity` events. `Vanish` is
every end without unwinding.

**Gym** takes both modules as they are. They meet in `Launch` (fork and exec) and
in the end of the worker (`ExecFails`, `WorkerReturns`, `PluginExits`,
`WorkerKilled`), where the step of the worker and the wait status it leaves are one
step. The history variable `returned` has the workers whose `main` returned: a
plugin may end the process with any code of `RogueExits`, 0 among them, and the
orchestrator cannot tell. `RejectArguments` is no step of `Gym`: that the worker
accepts the arguments built for it is `WorkerGetsWhatWasMeant` of `CommandLine`.

**CommandLine, Selection.** `Register` takes the pending registrations in any
order, the order that linking leaves open. `argv` is the vector of this process and
`opts` the `cli_options` made of it; `mpc` is the place in `main`. `ParseOptions` folds
`ParseOption` over the pairs of an option and a value, as `Filtered` folds the loop that
copies the benchmarks with the tags. `Launch` is fork, `execv`, the
child's static initialisation and its `parse_cli`: from that step on the state is the
child's, with the same registry, and `meant` remembers what the parent forked it
for. Words are strings; `Number` is `std::stoi` on the words it accepts (`5s` is 5),
`TraceFile` the path join.

**TracedCalls, SolverCalls.** `at` is where control is: in the benchmark, in a method
of a wrapper, in the plugin, in a lambda of a wrapper, in a callback. The table
`Forwarding` has every method of the six wrapper classes that makes no object, with
the functions it hands to the plugin, in their order: lambdas around a callback
(`Around`), or the callback itself for the two placement methods (`Itself`).
`numeric_factorization.solve` is the one method here that is given objects, each a
wrapper or a matrix of another class: `Forwarded` hands the plugin what `Unwrap`, the
`dynamic_cast` and `inner()` of the code, makes of each. `events` is the trace of the
current call; `happened` is a history of what began and ended on the other side of the
wrappers. The refinement mapping forgets the wrappers: control in one of them is a
message on its way (`Side`, `Called`, `CalledBack`), and a message to `solve` on its
way has the matrices that the benchmark means (`Sent`, `Meant`), whatever wraps them.
Each step is then a step of `SolverCalls`, which delivers at once or later and
delivers what was sent, or a stutter. What arrives at the plugin is read as it is, so
a wrapper that reaches it, or a right-hand side in the place of the solution, is no
step of `SolverCalls`.

**TracingSolver.** An object has the pointer it wraps, the pointers handed to its SSI
base class, the owners these keep alive, and the cached parts. `Becomes` drops what
nothing keeps. `MakePartThrows` is a plugin or an allocation that throws: in
`make_shared<tracing_sparse_matrix_t>(make_graph(), inner_->make_sparse_matrix(),
...)` the language leaves the order of the two calls open, so the plugin may have made
its graph only, the graph may be wrapped, the part may be made and have no wrapper, or
both. `passed` has what the last `solve` handed to the plugin, which
`PluginSeesItsOwn` reads. A plugin's problem is assumed to make each part once and to
need its graph for the others.

**Laplacian, Validation, Grid.** The plugin calls builders and readers for any
ranges of rows in any order; each row is asked once, counts before edges before
values (the plugin's side of SSI). `counts`, `edges`, `values` and `rhs` are the
plugin's storage, as functions on the rows that were built so far; `Filled` is that
storage after a builder has set some rows, and `Entry` reads the finished matrix.
Grid sizes, the number of right-hand sides and their indices are constants of the
modules instead of 16, 20x20x20 and 100. Values are counted in hundredths, so that
every manufactured value is an integer.

## The runs

| run | question | bounds and why they are enough |
|---|---|---|
| `orchestrator` | Are verdicts honest, do workers never overlap, does a signal only ever hit the worker, are trace files shared only by collision, is `SuiteRun` implemented? Is every worker judged, and does a run with a timeout end? | selections of 0 to 2 of three benchmarks, one repeated, two with one safe name; all option sets; exit codes 0, 1, 10, 127; signals 9 and 11. Workers are run one at a time and share nothing but `results`, so two cover every hand-over |
| `sigchld` (violation) | Is every worker that ended recorded? | one and two benchmarks |
| `trace_out` (violation) | Is `--trace-out` refused with several benchmarks? | as above |
| `worker` | What do the exit code and the file say of each other; are slices closed; is a written trace final? | nesting 2, up to 6 events, buffer of 4, so the buffer overflows |
| `worker_close` (violation) | Does exit code 0 still mean a trace when the stream fails on closing? | the same |
| `gym` | Does a passed verdict mean a whole trace; does each verdict follow from what its worker met; are traces kept; is `Orchestrator` implemented? | one or two workers, one benchmark run twice; plugins that exit with 0 or 3; one call per benchmark, buffer of 2. Larger call bounds only repeat `worker` |
| `command_line` | Is a command line read as it was written; is exactly the right set selected, in the right order; does each worker get what was meant for it? | all subsets and link orders of four registrations, two under one name; every sequence of up to 4 filters, 3 paths or worker options, and 4 words in any order |
| `traced_calls` | Does a trace tell the call; could benchmark and plugin tell that they are traced? | every method; two data values, so that a wrong one is noticed; two matrices, each bare or wrapped, in either role of `solve`; up to three callbacks with a slice in one call, also of different functions |
| `tracing_solver` | Are the plugin's objects kept alive, made and solved with unwrapped, wrapped once, and freed? | one object of each kind per side, two graphs, one matrix of the benchmark's own: the longest chain of pointers has one object of each kind |
| `laplacian` | Do counts match edges, is the matrix the Laplacian, are the asserted properties true, does the right-hand side match? | lines of 1, 2 and 7 rows, boxes with 1 to 9 rows incl. boxes flat in each direction; all cuts into ranges. Every row of a larger box has the neighbourhood of some row of these, except an interior point with six neighbours, which the proofs include |
| `validation` | Does a benchmark pass exactly if every row of every solution is right? | three rows, two right-hand sides, errors of either sign per row; every order and omission of reader ranges |
| `validation_nan` (violation) | The same when the solver may return NaN | one right-hand side |

Deadlock is checked in every run; the specifications have a stuttering step where
the program has ended.

`MCGym` narrows the initial states (`MCInit`): the path of a worker that does not
exist yet, the contents of files that nothing reads, and two options that change
nothing there are fixed. The proofs about `Gym` do not.

**Fairness.** Only `orchestrator` and `sigchld` assume any (`Fairness`): weak
fairness of `OwnStep`, the orchestrator's steps in its own code (a single-threaded
loop with finite sleeps is scheduled); of `DeadlinePasses` (`steady_clock` advances);
and of `KillKills` (no process can block SIGKILL). Nothing obliges a worker to end by
itself, SIGTERM to be effective, or plugin code to return: `OwnStep` leaves out the
two places where it runs inside the orchestrator (`InPlugin`, loading the solver and
`check_support`). Under these, `WorkerJudged` says that `run_child` returns, with a
timeout always and without one once the worker is gone; `RunEnds` says that a run
with a timeout ends unless it stays in plugin code. Without a timeout a hanging
worker blocks the run, and neither property promises more.

## What the runs found

* `WorkersRecorded` fails. README.md:33-35 says that the orchestrator "records
  failed, crashed, and timed-out workers and continues running the remaining
  benchmarks". Started with SIGCHLD ignored, `waitpid` returns ECHILD,
  orchestrator.cpp:112 throws, and the run is over with exit code 2 and the usage
  text, without the verdicts collected so far.
* `TraceOutNeedsOneBenchmark` fails. The message at orchestrator.cpp:256 and
  README.md:31 restrict `--trace-out` to one benchmark; beside `--output-dir` it is
  not looked at.
* `ExitZeroMeansTrace` fails when the data is lost at closing: `stop()` checks the
  stream after `write` only (perfetto_trace.cpp:77-81), so a full disk can leave
  exit code 0, the verdict passed and a cut trace.
* `PassedIsAccurate` fails for NaN: `std::max(error_inf, NaN)` keeps `error_inf`
  (laplacian_common.hpp:46,50), and a solution of NaN passes both benchmarks.

Two more things the models make visible without contradicting a document: the slice
`benchmark.run` has no end in the trace of a benchmark that returns, because
`trace.stop()` runs inside its scope (`SlicesClosed` states it); and a plugin that
calls `exit(0)` in a worker passes without a trace, so `PassedHasTrace` speaks of the
workers that returned and `VerdictsFollowTheWorker` has the rogue code as a case of
its own.

## What is proved

A theorem holds for every value of the constants that its module's assumption
admits; the runs show the same formulas on small instances.

| module | theorems | assumption |
|---|---|---|
| `OrchestratorProofs` | `TypeCorrect`, `VerdictsAreHonest`, `NoWorkerIsLeft`, `TracesAreNotShared`; `SignalsAlwaysHitTheWorker`; `ImplementsSuiteRun` (every behaviour of `Orchestrator` is one of `SuiteRun`) | selections are sequences of benchmarks, `--trace-out` and safe names denote paths, codes are numbers |
| `WorkerProofs` | `WorkerTypeCorrect`, `TraceIsWrittenOnce`, `FailureLeavesTrace`, `SlicesAreClosed`; `ExitZeroHasTrace` if closing a file does not fail | any positive buffer capacity, any bounds, any set of disk faults |
| `GymProofs` | `ImplementsOrchestrator`, and through it `WholeProgramIsHonest`; `GymTypeCorrect`, `TracesAreKept`, `VerdictsFollow`; `PassedHaveTraces` if closing a file does not fail | both of the above, and `ExitCodes` has every code a worker can end with |
| `TracingProofs` | of `TracedCalls`: `TraceIsComplete`; `TracingIsInvisible` (every behaviour of `TracedCalls` is one of `SolverCalls`) | `None` is no method, no matrix is itself a wrapper; any data, any matrices, any number of callbacks |
| | of `TracingSolver`: `NeverDangles`, `PluginNeverSeesWrappers`, `OneWrapperEach`, `NothingEverLeaks`, all from `TrInvariant` | `Null` is no object; any number of objects |
| `CommandLineProofs` | `SelectionIsAlwaysExact`, `OrderIsAlwaysKept`, `AlwaysParsedAsWritten`, `WorkerAlwaysGetsWhatWasMeant`, all from `CliInvariance` | command lines of any length; names of benchmarks and paths of trace files are not empty and do not begin with `--`, unless the user's directory does, which `parse_cli` refuses, or `TMPDIR`, which is left out |
| `GridProofs` | `CoordinatesOfRow`, `RowOfCoordinates` (index and coordinates are inverse), `NeighboursAreAdjacent`, `LineNeighboursAreAdjacent`, `GridIsConnected` | none: every line and box |
| `LaplacianProofs` | of `Laplacian`: `CountsAlwaysMatch`, `MatrixIsRight`, `AssertedPropertiesAlwaysHold`, `RhsAlwaysMatches` | any lines and boxes with at least one row |
| | of `Validation`: `AccurateAlwaysPasses`; `PassedIsAlwaysAccurate` if no error is NaN | any box with at least one row, any number of right-hand sides, any errors |
| `FoldProofs` | `ClosureIsUnique` (what a recursion over ever larger sets computes) | none |

"If closing a file does not fail" is the hypothesis `"close" \notin DiskFaults`,
without which the run `worker_close` refutes the statement; "if no error is NaN" is
`NaN \notin Offsets`, without which `validation_nan` does.

**The arguments.** None of the invariants is inductive by itself.

* *Orchestrator.* Whether a verdict is honest depends on where in `run_child` it is
  given. `IInv` adds what holds at each location: `Progress` (how many results there
  are and when the process has an outcome), `WorkerKnown` (no worker outside
  `run_child`; inside, one that only the kernel can have reaped), `SignalsKnown` (no
  signal before the deadline, SIGTERM after it) and `TracesKnown` (a single trace
  file means a single benchmark). The proof goes by the groups of `Next`;
  `PushBack` and `RecordInvariant` are the one place where `results` and `fates`
  grow. `SuiteStep` maps each step to a step of `SuiteRun` or a stutter.
* *Worker.* That exit code 0 means a trace is a chain through the program, and `WInv`
  has a part for each link: `EndKnown` (exception, exit code and disk), `SessionKnown`
  (stopped once, unless the disk failed), `DataKnown` (the buffer has the newest
  events, and `stop()` took them), `FilesKnown` (nothing whole before the write, the
  data after it). `KeptOf...` lemmas are about the ring buffer. `SInv` for
  `SlicesClosed` relates the number of begins and ends recorded to the open slices
  (`CountAppend`, from the cardinality theorems).
* *Gym.* `GInv` is `IInv`, `WInv`, `WorkerLinked` (a worker has code to run exactly
  while the kernel says so, and is the one of the next result) and `StatusLinked`
  (the wait status is the exit code of a worker that returned, and otherwise a
  signal, a rogue code or 127). Each step of `Gym` is a step of `Orchestrator`, with
  the worker's own steps as stutters.
* *Traced calls.* `TcInv` is `CallKnown` (the functions given are those of the table,
  in their order) and `TraceKnown` (the trace is ahead of what happened by the slice
  just opened, or behind it by the one about to be closed). That tracing is invisible to
  `solve` too rests on `UnwrapMeans` (the one `dynamic_cast` gives the matrix that was
  meant, and no wrapper) and `ForwardedIsSent`, the step in which a call reaches the plugin.
* *Traced objects.* `TrInv` says of each kind of object, on the plugin's side, of the
  wrappers and of the benchmark's own, what it wraps, what it is built on, what keeps
  it alive and which wrapper the problem has cached. It holds between any two calls
  into the plugin, so a call that throws in the middle, in either evaluation order,
  keeps it. Pointers only lead from younger kinds to older ones, which is why nothing
  reaches itself and dropping what nothing keeps is the least closed set of `Kept`
  (`ClosureIsUnique`). `SolvesItsOwn` is proved beside it: `solve` takes the pointers out of
  handles that `TrInv` knows to be alive (`InnerIsPlain`), and no other step hands any over.
* *Command line.* `Listed` is what the loops have in common: a sequence has the elements
  at a set of places, in their order. `FilteredIsListed` shows it of the selection, and
  counting follows by a bijection (`ListedTimes`). For `parse_cli`, `AsFar` is the loop
  invariant: after m pairs the options are what these pairs say, or `Rejected`
  (`ParsesAsWritten`). That a worker gets what was meant is then a fact about one
  vector, `WorkerArgsParse`, and about `Find`: names in the registry are unique
  (`SelInv`), so the child finds the very registration.
* *Grid and Laplacian.* The division and remainder of `coordinates` are undone by
  `index`; from that, the neighbours visited are exactly the adjacent points, each
  once, and `degree` counts them. `LInv` says that whatever is stored is what the
  builders set and that nothing is built before what it depends on, for any cut into
  ranges. The boxes are of any size, so 20x20x20 is included. The sum over a row's
  neighbours is a count (`OffDiagonal` is at most the degree less one), a row at the
  boundary makes it strict, and a set of rows that is not all of them has an edge out of
  it, because every row but the first has a lower neighbour (`GridIsConnected`). For
  `RhsAlwaysMatches` the loop of the host and the product with the stored row are
  compared step by step: row by row the summands are the same.
* *Validation.* `VInv` says that a row which was read holds what the solver offered and
  that the worst metric so far is 0 as long as every row was right. For
  `PassedIsAlwaysAccurate`, `NInv` adds the converse for numbers: the maximum is 0 only
  if all errors are, and a row that was never presented has one, for it keeps the 0 of
  the vector and no expected value is 0 (`FilledIsPresented`). The first half is what
  fails for NaN.

**Induction over data.** The provers cannot instantiate a lemma about an operator, which
the library's induction theorems are. `FoldProofs` states what is needed about sets and
functions instead, from the well-foundedness of the finite subsets of a set: a set of
numbers that has 0 and with each number the next has all up to n (`UpTo`); a fold has the
outcome of the loop it stands for (`FoldExists`, `FoldSteps`, `OutcomeUnique`); a sum of
zeros and ones is a count (`SumIsUnique`).

**Only model-checked**: liveness (`WorkerJudged`, `RunEnds`), which needs fairness and
ENABLED, out of the prover's reach; and the four runs that show a violation.

## What is not modelled

* the text of logs and usage, the formatting of reasons (`print_usage`,
  `support_reason`, `status_name`): no state that anything reads;
* rounding: an error above 1.0e-8 is one that is not 0; infinities;
* what `shell_safe_name` makes of characters: any function from names to paths;
* `default_output_dir`, whose name contains time and pid; two runs at once, and so
  the worker that goes on after its orchestrator died;
* signals that interrupt `waitpid` (EINTR): this program installs no handler;
* categories and arguments of trace events; the loss of events inside the SDK other
  than by the buffer's size;
* the internals of a plugin and of Perfetto; a plugin that keeps a callback beyond
  the call it was given to.

## Plan

Done, in this order: orchestrator, worker, composition, wrappers, selection, problem
construction, validation, the proofs about the orchestrator; then the command line
and its second parse in the worker, liveness of the whole run, the forwarding methods
and their refinement, plugins that exit by themselves, and the proofs about worker,
composition, forwarding, grid and matrix; then the lemmas about folds, sums and
reachability, and with them the proofs about the objects of the wrappers, the asserted
properties, the right-hand side, the validation, the selection and the command line.

Next: the part of the liveness argument that needs no fairness, a measure of the run
that every step of the orchestrator's own decreases, as an action property with a proof.

Worth doing if the code grows: a model of two runs that share an output directory,
once the code promises something about it; infinities in `Validation`, should its
comparison of norms change.
