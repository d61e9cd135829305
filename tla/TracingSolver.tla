---------------------------- MODULE TracingSolver ----------------------------
(***************************************************************************)
(* The tracing wrappers between a benchmark and a solver plugin, as a heap *)
(* of reference-counted objects.  The benchmark holds wrappers; a wrapper  *)
(* keeps the plugin's object that it forwards to, and hands it the         *)
(* plugin's own objects where the benchmark passed wrappers.  Any call     *)
(* into the plugin may throw, and the benchmark may drop its pointers in   *)
(* any order.                                                              *)
(*                                                                         *)
(* Forwarded calls that make no object and pass none (nrows, preallocate,  *)
(* build_from_host, ...) leave this state alone; they are in TracedCalls.  *)
(***************************************************************************)
EXTENDS Naturals, Sequences, SequencesExt, FiniteSets

CONSTANTS
  Limit,  \* bound: the objects of each kind that live at once, per side
  Null    \* the null pointer

Kinds == {"context", "matrix", "graph", "problem", "sparse", "symbolic", "numeric"}

\* The parts of a problem that its wrapper caches: graph_, matrix_, symbolic_.
Parts == {"graph", "sparse", "symbolic"}

ASSUME TracingAssumption ==
  /\ Limit \in [Kinds -> Nat]
  /\ Null \notin [side : {"plugin", "traced", "own"}, kind : Kinds, n : Nat]

VARIABLES
  heap,     \* the objects alive
  handles,  \* the objects to which the benchmark holds a pointer
  passed    \* the objects of the latest solve, as the plugin received them

trVars == <<heap, handles, passed>>
-----------------------------------------------------------------------------
(* Objects.  base are the pointers given to the SSI base class, owners the  *)
(* objects that these pointers keep alive: the same, but for an alias.      *)

Ref(side, kind, n) == [side |-> side, kind |-> kind, n |-> n]

PluginContext == Ref("plugin", "context", 1)
TracedContext == Ref("traced", "context", 1)

NoParts == [part \in Parts |-> Null]

\* The heap with one object more.
Put(h, o, object) == [x \in DOMAIN h \cup {o} |-> IF x = o THEN object ELSE h[x]]

\* The problem p remembers its part o.
Remember(h, p, part, o) == [h EXCEPT ![p].cache[part] = o]

Object(wraps, base) ==
  [wraps |-> wraps, base |-> base, owners |-> base, cache |-> NoParts]

Fresh(h, side, kind) ==
  CHOOSE o \in {Ref(side, kind, n) : n \in 1..Limit[kind] + 1} :
    /\ o \notin DOMAIN h
    /\ \A n \in 1..o.n - 1 : Ref(side, kind, n) \in DOMAIN h

Keeps(o) ==
  (ToSet(o.owners) \cup {o.wraps} \cup {o.cache[part] : part \in Parts}) \ {Null}

\* What the objects in roots keep alive, themselves included.
Kept(h, roots) ==
  LET closure[S \in SUBSET DOMAIN h] ==
        LET next == S \cup UNION {Keeps(h[o]) : o \in S}
        IN  IF next = S THEN S ELSE closure[next]
  IN  closure[roots]

\* The operation leaves the objects h, of which the unreferenced ones die.
Becomes(h, hs) ==
  /\ \A o \in DOMAIN h : o.n <= Limit[o.kind]
  /\ handles' = hs
  /\ heap' = [o \in Kept(h, hs) |-> h[o]]

\* dynamic_cast to the wrapper class and inner(); anything else passes through.
Inner(o) == IF heap[o].wraps # Null THEN heap[o].wraps ELSE o
-----------------------------------------------------------------------------
(* The plugin.  A problem makes each of its parts once, and its graph when *)
(* one of the other parts needs it.                                        *)

PluginGraph(h, p) ==
  LET g == Fresh(h, "plugin", "graph")
  IN  IF h[p].cache["graph"] # Null THEN h
      ELSE Put(Remember(h, p, "graph", g), g, Object(Null, h[p].base))

PluginPart(h, p, part) ==
  LET hg == PluginGraph(h, p)
      o == Fresh(hg, "plugin", part)
  IN  IF hg[p].cache[part] # Null THEN hg
      ELSE Put(Remember(hg, p, part, o), o, Object(Null, <<hg[p].cache["graph"]>>))
-----------------------------------------------------------------------------
(* tracing_context_t and tracing_graph_t: a new wrapper for each call.     *)

Offers == {<<"context", "matrix">>, <<"context", "graph">>, <<"context", "problem">>,
           <<"graph", "sparse">>, <<"graph", "symbolic">>}

Make(parent, kind) ==
  /\ parent.side = "traced" /\ <<parent.kind, kind>> \in Offers
  /\ LET inner == Fresh(heap, "plugin", kind)
         wrapper == Fresh(heap, "traced", kind)
     IN  Becomes(Put(Put(heap, inner, Object(Null, <<heap[parent].wraps>>)),
                     wrapper, Object(inner, <<parent>>)),
                 handles \cup {wrapper})
  /\ passed' = <<>>
-----------------------------------------------------------------------------
(* tracing_sparse_problem_t: each part is made and wrapped once.           *)

\* The wrapper keeps the problem it came from.
MutantAddWrapper(h, p, part, base) ==
  LET w == Fresh(h, "traced", part)
  IN  Put(Remember(h, p, part, w), w,
          [Object(h[h[p].wraps].cache[part], base) EXCEPT !.owners = Append(base, p)])

\* make_shared of a wrapper for the part that the plugin has made.
AddWrapper(h, p, part, base) ==
  LET w == Fresh(h, "traced", part)
  IN  Put(Remember(h, p, part, w), w, Object(h[h[p].wraps].cache[part], base))

\* graph_ is not tested for nullptr.
MutantTracedGraph(h, p) ==
  AddWrapper(PluginGraph(h, h[p].wraps), p, "graph", h[p].base)

TracedGraph(h, p) ==
  IF h[p].cache["graph"] # Null THEN h
  ELSE AddWrapper(PluginGraph(h, h[p].wraps), p, "graph", h[p].base)

TracedPart(h, p, part) ==
  IF h[p].cache[part] # Null THEN h
  ELSE LET hg == TracedGraph(h, p)
       IN  AddWrapper(PluginPart(hg, h[p].wraps, part), p, part, <<hg[p].cache["graph"]>>)

After(p, part) == IF part = "graph" THEN TracedGraph(heap, p) ELSE TracedPart(heap, p, part)

MakePart(p, part) ==
  /\ p.kind = "problem"
  /\ Becomes(After(p, part), handles \cup {After(p, part)[p].cache[part]})
  /\ passed' = <<>>

\* A call into the plugin throws, or an allocation.  make_graph() and the plugin's
\* make function are arguments of one call, so the build evaluates them in either
\* order: the plugin has made its graph at most, the graph has been wrapped, the
\* part has been made and stays without wrapper, or both.
MakePartThrows(p, part) ==
  /\ p.kind = "problem"
  /\ heap[p].cache[part] = Null
  /\ \/ Becomes(PluginGraph(heap, heap[p].wraps), handles)
     \/ /\ part # "graph"
        /\ \/ Becomes(TracedGraph(heap, p), handles)
           \/ Becomes(PluginPart(heap, heap[p].wraps, part), handles)
           \/ Becomes(PluginPart(TracedGraph(heap, p), heap[p].wraps, part), handles)
  /\ passed' = <<>>
-----------------------------------------------------------------------------
(* tracing_symbolic_t and tracing_numeric_factorization_t.                 *)

NewNumeric(inner, wrapper) ==
  LET i == Fresh(heap, "plugin", "numeric")
      w == Fresh(heap, "traced", "numeric")
  IN  /\ Becomes(Put(Put(heap, i, inner), w, [wrapper EXCEPT !.wraps = i]),
                 handles \cup {w})
      /\ passed' = <<>>

\* The wrapper's matrix is given to the plugin as it is.
MutantMakeNumeric(s, m) ==
  /\ s.kind = "symbolic" /\ m.kind = "sparse"
  /\ NewNumeric(Object(Null, <<heap[s].wraps, m>>), Object(Null, <<s, m>>))

\* &inner() goes into a pointer that owns nothing, here and in the base class.
MutantLooseNumeric(s, m) ==
  /\ s.kind = "symbolic" /\ m.kind = "sparse"
  /\ NewNumeric([Object(Null, <<heap[s].wraps, Inner(m)>>) EXCEPT !.owners = <<heap[s].wraps>>],
                [Object(Null, <<s, Inner(m)>>) EXCEPT !.owners = <<s>>])

\* The plugin receives its own matrix, as an alias that owns the wrapper.
MakeNumeric(s, m) ==
  /\ s.kind = "symbolic" /\ m.kind = "sparse"
  /\ NewNumeric([Object(Null, <<heap[s].wraps, Inner(m)>>)
                   EXCEPT !.owners = <<heap[s].wraps, m>>],
                Object(Null, <<s, m>>))

\* The right-hand side is handed over as it came.
MutantSolve(f, rhs, solution) ==
  /\ f.kind = "numeric" /\ rhs.kind = "matrix" /\ solution.kind = "matrix"
  /\ passed' = <<heap[f].wraps, rhs, Inner(solution)>>
  /\ UNCHANGED <<heap, handles>>

Solve(f, rhs, solution) ==
  /\ f.kind = "numeric" /\ rhs.kind = "matrix" /\ solution.kind = "matrix"
  /\ passed' = <<heap[f].wraps, Inner(rhs), Inner(solution)>>
  /\ UNCHANGED <<heap, handles>>
-----------------------------------------------------------------------------
(* The benchmark.                                                          *)

\* A matrix class of the benchmark's own; one at a time is a bound.
OwnMatrix(kind) ==
  /\ \A o \in handles : o.side = "traced"
  /\ LET o == Fresh(heap, "own", kind)
     IN  Becomes(Put(heap, o, Object(Null, <<>>)), handles \cup {o})
  /\ passed' = <<>>

Drop(o) ==
  /\ o # TracedContext
  /\ Becomes(heap, handles \ {o})
  /\ passed' = <<>>

TrInit ==
  /\ heap = [o \in {PluginContext, TracedContext} |->
               Object(IF o = TracedContext THEN PluginContext ELSE Null, <<>>)]
  /\ handles = {TracedContext}
  /\ passed = <<>>

TrNext ==
  \/ \E o \in handles :
       \/ \E kind \in Kinds : Make(o, kind)
       \/ \E part \in Parts : MakePart(o, part) \/ MakePartThrows(o, part)
       \/ Drop(o)
  \/ \E o, m \in handles : MakeNumeric(o, m)
  \/ \E f, rhs, solution \in handles : Solve(f, rhs, solution)
  \/ \E kind \in {"matrix", "sparse"} : OwnMatrix(kind)

TrSpec == TrInit /\ [][TrNext]_trVars
-----------------------------------------------------------------------------
(* Properties.                                                             *)

\* Whatever the order in which the benchmark drops its pointers, no object is
\* freed while a living object points to it, aliases included.
NoDangling ==
  \A o \in DOMAIN heap :
    (ToSet(heap[o].base) \cup Keeps(heap[o])) \subseteq DOMAIN heap

BuiltOnItsOwn ==
  \A o \in DOMAIN heap :
    heap[o].wraps # Null =>
      heap[heap[o].wraps].base = [k \in 1..Len(heap[o].base) |-> Inner(heap[o].base[k])]

SolvesItsOwn ==
  \A k \in 1..Len(passed) : passed[k] \in DOMAIN heap /\ heap[passed[k]].wraps = Null

\* The plugin sees the objects it would see without tracing: what its objects
\* are built on is what the wrappers are built on, unwrapped, so a factorization
\* is made of the plugin's own matrix, also after calls that threw half-way; and
\* what it is given to solve with are living objects and no wrappers.
PluginSeesItsOwn == BuiltOnItsOwn /\ SolvesItsOwn

\* Two pointers of the benchmark to one object of the plugin are equal: a problem
\* asked again, also after a call that threw, answers with the same wrapper.
OneWrapper ==
  \A o, p \in DOMAIN heap :
    heap[o].wraps = heap[p].wraps /\ heap[o].wraps # Null => o = p

\* No object keeps itself alive: reference counting frees everything that the
\* benchmark has dropped.
NothingLeaks ==
  \A o \in DOMAIN heap : o \notin Kept(heap, Keeps(heap[o]))

=============================================================================
