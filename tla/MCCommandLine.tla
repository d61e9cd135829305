---------------------------- MODULE MCCommandLine ----------------------------
(* Four registrations, two of them under one name, and command lines of five *)
(* kinds: filters, paths, repeated options, calls of the worker, and words   *)
(* in any order.                                                             *)
EXTENDS CommandLine

x == "x"
y == "y"
z == "z"

MCNames == {x, y, z}
MCTags == {"light", "fp64"}
MCLinked ==
  {[id |-> 1, name |-> x, tags |-> MCTags], [id |-> 2, name |-> y, tags |-> {"light"}],
   [id |-> 3, name |-> z, tags |-> {}], [id |-> 4, name |-> y, tags |-> {"fp64"}]}

MCNumber == [w \in {"0", "5", "5s", "-1"} |-> CASE w = "0" -> 0 [] w = "-1" -> -1 [] OTHER -> 5]
MCTraceFile(dir, name) == dir \o "/" \o name

Pairs(options, values) == options \X values

\* Up to n of the pairs, one after the other.
Lines(pairs, n) == {FlattenSeq(s) : s \in BoundedSeq(pairs, n)}

Solver == <<"--solver", "s">>

FilterLines ==
  Lines(Pairs({"--benchmark"}, {x, y}) \cup Pairs({"--tag"}, MCTags), 4)
    \cup Lines({<<"--benchmark", "w">>, <<"--benchmark", z>>, <<"--tag", "light">>}, 2)

PathLines ==
  Lines(Pairs({"--output-dir", "--trace-out"}, {"", "p", "q"})
          \cup {<<"--benchmark", x>>, <<"--solver", "t">>, <<"--solver", "">>}, 3)

WorkerLines ==
  Lines({<<"--worker-benchmark", x>>, <<"--worker-benchmark", "w">>, <<"--trace-out", "p">>,
         <<"--trace-out", "">>, Solver}, 3)

OddLines ==
  BoundedSeq({"--solver", "--tag", "--timeout-seconds", "--help", "5s", "-1", "s"}, 4)

MCCommandLines ==
  {<<>>, <<"gym">>, <<"gym", "help", "--solver">>, <<"gym", "-h">>, <<"gym", "play">>}
    \cup {<<"gym", "run">> \o Solver \o args : args \in FilterLines \cup PathLines}
    \cup {<<"gym", "list">> \o args : args \in FilterLines}
    \cup {<<"gym", "worker">> \o args : args \in WorkerLines}
    \cup {<<"gym", "run">> \o args : args \in OddLines}

MCDashed == {"--solver", "--tag", "--benchmark", "--output-dir", "--trace-out",
             "--worker-benchmark", "--timeout-seconds", "--help"}

=============================================================================
