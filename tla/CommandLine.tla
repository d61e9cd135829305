----------------------------- MODULE CommandLine -----------------------------
(***************************************************************************)
(* main and parse_cli: from an argument vector to a command, and, for each *)
(* benchmark that run selects, through the argument vector that run_child  *)
(* builds to the command of the worker.  fork and execv turn the process   *)
(* into its own child, which parses again; the parent is module            *)
(* Orchestrator.  Linking fixes the order of the registry, so the child    *)
(* has the same one.                                                       *)
(***************************************************************************)
EXTENDS Selection, Integers

CONSTANTS
  CommandLines,    \* argument vectors of the shell, argv[0] first
  Dashed,          \* the words that begin with --
  Number,          \* std::stoi on the words on which it does not throw
  DefaultDir,      \* default_output_dir()
  TraceFile(_, _)  \* output_dir / (shell_safe_name(name) + ".pftrace")

\* The output directories that the user can ask for, and the default one.
Directories ==
  ((UNION {ToSet(args) : args \in CommandLines}) \cup {DefaultDir}) \ (Dashed \cup {""})

\* The names of benchmarks are literals of the program.  The path of a trace file
\* begins as its directory does; the default directory is a temporary one, which is
\* relative only if the environment says so.
ASSUME CommandLineAssumption ==
  /\ CommandLines \subseteq Seq(STRING)
  /\ "" \notin Dashed /\ DefaultDir \notin Dashed \cup {""}
  /\ DOMAIN Number \cap Dashed = {} /\ \A word \in DOMAIN Number : Number[word] \in Int
  /\ \A b \in Linked :
       /\ b.name \in STRING \ (Dashed \cup {""})
       /\ \A dir \in Directories : TraceFile(dir, b.name) \in STRING \ (Dashed \cup {""})

VARIABLES
  mpc,     \* "start", "parsed", "output", "launch", "working" or "exited"
  argv,    \* the arguments of this process
  opts,    \* cli_options
  status,  \* the exit code
  meant    \* history: what the parent forked this process for

cliVars == <<mpc, argv, opts, status, meant>>
allVars == <<selVars, cliVars>>

\* The default member initialisers of cli_options.
NoOptions == [cmd |-> "help", executable |-> "", solver |-> "", outputDir |-> "",
              trace |-> "", workerBenchmark |-> "", timeout |-> 0,
              names |-> <<>>, tags |-> <<>>]

\* parse_cli throws.
Rejected == [NoOptions EXCEPT !.cmd = "rejected"]

\* A worker has a solver, for run needs one.
NothingMeant == [solver |-> "", benchmark |-> <<>>, trace |-> ""]
Forked == meant # NothingMeant
-----------------------------------------------------------------------------
(* parse_cli.                                                              *)

\* Whatever follows an option is its value.
MutantHasValue(i, args) == i < Len(args)

\* require_value: the next word is there and is no option.
HasValue(i, args) == i < Len(args) /\ args[i + 1] \notin Dashed

\* std::stoi does not throw and the number is not negative.
Accepted(value) == value \in DOMAIN Number /\ Number[value] >= 0

\* One iteration of the loop, which consumes an option and its value.
ParseOption(o, i, args) ==
  LET option == args[i]
      value == args[i + 1]
  IN  IF o.cmd = "rejected" \/ ~HasValue(i, args) THEN Rejected
      ELSE CASE option = "--solver" -> [o EXCEPT !.solver = value]
             [] option = "--tag" -> [o EXCEPT !.tags = Append(@, value)]
             [] option = "--benchmark" -> [o EXCEPT !.names = Append(@, value)]
             [] option = "--output-dir" -> [o EXCEPT !.outputDir = value]
             [] option = "--trace-out" -> [o EXCEPT !.trace = value]
             [] option = "--worker-benchmark" -> [o EXCEPT !.workerBenchmark = value]
             [] option = "--timeout-seconds" /\ Accepted(value) ->
                  [o EXCEPT !.timeout = Number[value]]
             [] OTHER -> Rejected

\* The loop.
ParseOptions(o, args) ==
  FoldLeft(LAMBDA parsed, i : ParseOption(parsed, i, args), o,
           [n \in 1..(Len(args) - 1) \div 2 |-> 2 * n + 1])

ParseCli(args) ==
  IF Len(args) < 2 \/ args[2] \in {"help", "--help", "-h"}
    THEN IF args = <<>> THEN NoOptions ELSE [NoOptions EXCEPT !.executable = args[1]]
  ELSE IF args[2] \notin {"list", "run", "worker"} THEN Rejected
  ELSE ParseOptions([NoOptions EXCEPT !.executable = args[1], !.cmd = args[2]], args)
-----------------------------------------------------------------------------
(* main.                                                                   *)

Exit(n) == mpc' = "exited" /\ status' = n

\* An exception of parse_cli, or help.
Parse(args) ==
  /\ mpc = "start" /\ spc = "static" /\ pending = {}
  /\ argv' = args
  /\ opts' = ParseCli(args)
  /\ CASE opts'.cmd = "rejected" -> Exit(2)
       [] opts'.cmd = "help" -> Exit(0)
       [] OTHER -> mpc' = "parsed" /\ UNCHANGED status
  /\ UNCHANGED <<selVars, meant>>

\* run_orchestrator throws before it selects.
RunNeedsSolver ==
  /\ mpc = "parsed" /\ opts.cmd = "run" /\ opts.solver = ""
  /\ Exit(2)
  /\ UNCHANGED <<selVars, argv, opts, meant>>

\* list_benchmarks, and the selection of run_orchestrator.
ListOrRun ==
  /\ mpc = "parsed"
  /\ opts.cmd \in {"list", "run"} /\ (opts.cmd = "run" => opts.solver # "")
  /\ SelectBenchmarks([names |-> opts.names, tags |-> opts.tags])
  /\ CASE spc' = "error" -> Exit(2)
       [] opts.cmd = "list" \/ selection' = <<>> -> Exit(0)
       [] OTHER -> mpc' = "output" /\ UNCHANGED status
  /\ UNCHANGED <<argv, opts, meant>>

\* The single trace file of --trace-out, which --output-dir overrides.
SingleTrace == opts.outputDir = "" /\ opts.trace # ""

ChooseOutput ==
  /\ mpc = "output"
  /\ IF SingleTrace /\ Len(selection) # 1
       THEN Exit(2)
       ELSE mpc' = "launch" /\ UNCHANGED status
  /\ UNCHANGED <<selVars, argv, opts, meant>>
-----------------------------------------------------------------------------
(* run_child and run_worker.                                               *)

TraceOf(b) ==
  IF SingleTrace THEN opts.trace
  ELSE TraceFile(IF opts.outputDir = "" THEN DefaultDir ELSE opts.outputDir, b.name)

WorkerArgs(b) ==
  <<opts.executable, "worker", "--solver", opts.solver, "--worker-benchmark", b.name,
    "--trace-out", TraceOf(b)>>

\* fork, execv, static initialisation and main of the child.
Launch(b) ==
  /\ mpc = "launch"
  /\ argv' = WorkerArgs(b)
  /\ opts' = ParseCli(argv')
  /\ IF opts'.cmd = "rejected" THEN Exit(2) ELSE mpc' = "parsed" /\ UNCHANGED status
  /\ meant' = [solver |-> opts.solver, benchmark |-> b, trace |-> TraceOf(b)]
  /\ spc' = "static"
  /\ filter' = NoFilter /\ selection' = <<>>
  /\ UNCHANGED <<pending, registry>>

\* validate_worker_options, and find; a worker reports an exception with 1.
RunWorker ==
  /\ mpc = "parsed" /\ opts.cmd = "worker"
  /\ IF "" \in {opts.solver, opts.workerBenchmark, opts.trace} \/ ~Known(opts.workerBenchmark)
       THEN Exit(1)
       ELSE mpc' = "working" /\ UNCHANGED status
  /\ UNCHANGED <<selVars, argv, opts, meant>>

\* Terminated by a static constructor, exited, or on to module Worker.
CliEnded ==
  /\ spc = "terminated" \/ mpc \in {"exited", "working"}
  /\ UNCHANGED allVars

CliInit ==
  /\ SelInit
  /\ mpc = "start" /\ argv = <<>> /\ opts = NoOptions /\ status = 0
  /\ meant = NothingMeant

CliNext ==
  \/ mpc = "start" /\ (\E b \in Linked : Register(b)) /\ UNCHANGED cliVars
  \/ \E args \in CommandLines : Parse(args)
  \/ RunNeedsSolver \/ ListOrRun \/ ChooseOutput
  \/ \E b \in ToSet(selection) : Launch(b)
  \/ RunWorker \/ CliEnded

CliSpec == CliInit /\ [][CliNext]_allVars
-----------------------------------------------------------------------------
(* Properties.                                                             *)

\* Where an option stands in an argument vector; its value is the next word.
Places(option, args) == {k \in 3..Len(args) : k % 2 = 1 /\ args[k] = option}

OptionNames == {"--solver", "--tag", "--benchmark", "--output-dir", "--trace-out",
                "--worker-benchmark", "--timeout-seconds"}

\* A command line is a command and pairs of an option and a value that is no
\* option; nothing that is missing, misspelt or out of place is taken for
\* something else.
WellFormed(args) ==
  /\ args[2] \in {"list", "run", "worker"}
  /\ Len(args) % 2 = 0
  /\ \A k \in 3..Len(args) :
       IF k % 2 = 0 THEN args[k] \notin Dashed ELSE args[k] \in OptionNames
  /\ \A k \in Places("--timeout-seconds", args) : Accepted(args[k + 1])

\* The last value of an option counts, also if it is empty.
LastValue(option, args) ==
  LET at == Places(option, args) IN IF at = {} THEN "" ELSE args[Max(at) + 1]

\* What an argument vector says, told without the loop of parse_cli: names and tags
\* add up in their order.
AsWritten(o, args) ==
  /\ o.cmd = args[2] /\ o.executable = args[1]
  /\ o.solver = LastValue("--solver", args)
  /\ o.outputDir = LastValue("--output-dir", args)
  /\ o.trace = LastValue("--trace-out", args)
  /\ o.workerBenchmark = LastValue("--worker-benchmark", args)
  /\ o.timeout = IF Places("--timeout-seconds", args) = {} THEN 0
                  ELSE Number[LastValue("--timeout-seconds", args)]
  /\ Listed(o.names, Tail(args), Places("--benchmark", args))
  /\ Listed(o.tags, Tail(args), Places("--tag", args))

\* parse_cli accepts the well-formed argument vectors and makes of them what they
\* say; a command line that is not well-formed is refused as a whole.
ParsedAsWritten ==
  mpc # "start" /\ Len(argv) > 1 /\ argv[2] \notin {"help", "--help", "-h"} =>
    IF WellFormed(argv) THEN AsWritten(opts, argv) ELSE opts = Rejected

\* Whatever the user's command line and the link order, the worker that is forked
\* for a selected benchmark accepts its arguments and understands by them the
\* solver, the very registration and the trace file that its parent meant.
WorkerGetsWhatWasMeant ==
  Forked /\ mpc # "parsed" =>
    /\ mpc = "working"
    /\ meant = [solver |-> opts.solver, benchmark |-> Find(opts.workerBenchmark),
                trace |-> opts.trace]

=============================================================================
