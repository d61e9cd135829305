------------------------------ MODULE Selection ------------------------------
(***************************************************************************)
(* The benchmark registry and select_benchmarks.  Static initialisation    *)
(* registers the linked benchmarks, in an order that the linker chooses;   *)
(* main then selects some of them by name and by tag.  Module CommandLine  *)
(* is the program around them.                                             *)
(***************************************************************************)
EXTENDS Naturals, Sequences, FiniteSets, SequencesExt, FiniteSetsExt

CONSTANTS
  Linked,     \* the benchmark_registration objects of the program
  Names,      \* benchmark names, and names given to --benchmark
  Tags        \* tags

ASSUME SelectionAssumption ==
  Linked \subseteq [id : Nat, name : Names, tags : SUBSET Tags]

VARIABLES
  spc,       \* "static", "main", "selected", "error" or "terminated"
  pending,   \* registrations still to be constructed
  registry,  \* benchmark_registry::benchmarks_
  filter,    \* the benchmark_filter of the command line
  selection  \* what select_benchmarks returned

selVars == <<spc, pending, registry, filter, selection>>

NoFilter == [names |-> <<>>, tags |-> <<>>]
-----------------------------------------------------------------------------
(* benchmark_registry.                                                     *)

\* find returns the first registration of that name, or a null pointer.
Found(name) == {k \in DOMAIN registry : registry[k].name = name}

Known(name) == Found(name) # {}

Find(name) == registry[Min(Found(name))]

\* A registration of a name that is taken replaces nothing and is no error.
MutantAdd(b) ==
  /\ spc' = spc
  /\ registry' = Append(registry, b)

\* Throwing from a static constructor ends the program.
Add(b) ==
  IF Known(b.name)
    THEN spc' = "terminated" /\ UNCHANGED registry
    ELSE registry' = Append(registry, b) /\ UNCHANGED spc

Register(b) ==
  /\ spc = "static"
  /\ b \in pending
  /\ pending' = pending \ {b}
  /\ Add(b)
  /\ UNCHANGED <<filter, selection>>
-----------------------------------------------------------------------------
(* select_benchmarks.                                                      *)

\* The registry is filtered by name: its order, and each benchmark once.
MutantNamed(names) == SelectSeq(registry, LAMBDA b : b.name \in ToSet(names))

\* registry.find for each name of the command line, in its order.
Named(names) == [k \in 1..Len(names) |-> Find(names[k])]

\* One tag is enough.
MutantMatches(b, tags) == tags = <<>> \/ \E t \in ToSet(tags) : t \in b.tags

\* matches_all_tags; without tags there is nothing to match.
Matches(b, tags) == \A t \in ToSet(tags) : t \in b.tags

\* The loop over the selected benchmarks that copies those with the tags.
Filtered(selected, tags) ==
  FoldLeft(LAMBDA filtered, b : IF Matches(b, tags) THEN Append(filtered, b) ELSE filtered,
           <<>>, selected)

\* main with a command line; a name that is not registered is an error.
SelectBenchmarks(f) ==
  /\ spc = "static" /\ pending = {}
  /\ filter' = f
  /\ IF \E name \in ToSet(f.names) : ~Known(name)
       THEN spc' = "error" /\ UNCHANGED selection
       ELSE /\ spc' = "selected"
            /\ selection' = Filtered(IF f.names = <<>> THEN registry ELSE Named(f.names), f.tags)
  /\ UNCHANGED <<pending, registry>>

SelInit ==
  /\ spc = "static"
  /\ pending \in SUBSET Linked
  /\ registry = <<>>
  /\ filter = NoFilter
  /\ selection = <<>>
-----------------------------------------------------------------------------
(* Properties.                                                             *)

\* How often x is in the sequence s.
Times(x, s) == Cardinality({k \in DOMAIN s : s[k] = x})

\* "the default behavior is to just run all benchmarks", "Tag filters currently
\* use AND semantics": whatever the link order, a benchmark is selected exactly
\* if it is linked in, named if names are given, and has all the tags; and as
\* often as it is named, or once.
SelectionExact ==
  spc = "selected" =>
    \A b \in ToSet(registry) :
      Times(b, selection) = IF ~ (ToSet(filter.tags) \subseteq b.tags) THEN 0
                            ELSE IF filter.names = <<>> THEN 1
                            ELSE Times(b.name, filter.names)

\* s is made of the elements of t at the places in the set "at", in their order.
Listed(s, t, at) ==
  \E place \in [DOMAIN s -> at] :
    /\ \A k, n \in DOMAIN s : k < n => place[k] < place[n]
    /\ \A p \in at : \E k \in DOMAIN s : place[k] = p
    /\ \A k \in DOMAIN s : s[k] = t[place[k]]

\* The verdicts are reported in the order the user gave: two named benchmarks
\* never change places, with or without tags.
OrderKept ==
  spc = "selected" /\ filter.names # <<>> =>
    \E at \in SUBSET DOMAIN filter.names :
      Listed([k \in DOMAIN selection |-> selection[k].name], filter.names, at)

=============================================================================
