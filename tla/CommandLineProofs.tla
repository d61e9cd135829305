-------------------------- MODULE CommandLineProofs --------------------------
(***************************************************************************)
(* Proofs about CommandLine and Selection, for any registrations, any link *)
(* order and any command lines: what is selected, in which order, what     *)
(* parse_cli makes of an argument vector, and that a worker understands    *)
(* what its parent meant.                                                  *)
(***************************************************************************)
EXTENDS CommandLine, FoldProofs

\* The words of a command line.  They are all strings, which the provers know of no
\* particular one.
Words == STRING \cup {"", "worker", "--solver", "--worker-benchmark", "--trace-out"}

(* Parts of sequences.                                                     *)

LEMMA MinIsIn ==
  ASSUME NEW T \in SUBSET Nat, T # {}
  PROVE  Min(T) \in T /\ \A y \in T : Min(T) <= y
BY LeastNumber DEF Min

LEMMA ListedNothing ==
  ASSUME NEW t
  PROVE  Listed(<<>>, t, {})
<1> DEFINE place == [k \in DOMAIN <<>> |-> k]
<1>1. DOMAIN <<>> = {} /\ place \in [DOMAIN <<>> -> {}]
  OBVIOUS
<1> QED BY <1>1 DEF Listed

LEMMA ListedMore ==
  ASSUME NEW S, NEW s \in Seq(S), NEW t, NEW at \in SUBSET Nat, Listed(s, t, at),
         NEW p \in Nat, \A q \in at : q < p, NEW v \in S, v = t[p]
  PROVE  Listed(Append(s, v), t, at \cup {p})
<1> DEFINE n == Len(s)
           more == Append(s, v)
           D == DOMAIN more
<1>1. n \in Nat /\ DOMAIN s = 1..n /\ D = 1..(n + 1) /\ more[n + 1] = v
      /\ \A k \in 1..n : more[k] = s[k]
  OBVIOUS
<1>2. PICK place \in [DOMAIN s -> at] :
        /\ \A k, m \in DOMAIN s : k < m => place[k] < place[m]
        /\ \A q \in at : \E k \in DOMAIN s : place[k] = q
        /\ \A k \in DOMAIN s : s[k] = t[place[k]]
  BY DEF Listed
<1> DEFINE new == [k \in D |-> IF k = n + 1 THEN p ELSE place[k]]
<1> HIDE DEF more, n, D
<1>3. ASSUME NEW k \in D, k # n + 1 PROVE k \in DOMAIN s /\ place[k] \in at /\ place[k] \in Nat
  <2>1. k \in 1..n
    BY <1>1, <1>3
  <2>2. k \in DOMAIN s
    BY <1>1, <2>1
  <2> QED BY <1>2, <2>2
<1>4. new \in [D -> at \cup {p}]
  BY <1>3
<1>5. ASSUME NEW k \in D, NEW m \in D, k < m PROVE new[k] < new[m]
  <2>1. k # n + 1 /\ k \in 1..n /\ k \in DOMAIN s
    BY <1>1, <1>5
  <2>2. CASE m = n + 1
    BY <1>3, <2>1, <2>2
  <2>3. CASE m # n + 1
    BY <1>2, <1>3, <1>5, <2>1, <2>3
  <2> QED BY <2>2, <2>3
<1>6. ASSUME NEW q \in at \cup {p} PROVE \E k \in D : new[k] = q
  <2>1. CASE q = p
    <3>1. n + 1 \in D /\ new[n + 1] = p
      BY <1>1
    <3> QED BY <2>1, <3>1
  <2>2. CASE q \in at
    <3>1. PICK k \in DOMAIN s : place[k] = q
      BY <1>2, <2>2
    <3>2. k \in D /\ k # n + 1
      BY <1>1
    <3> QED BY <3>1, <3>2
  <2> QED BY <2>1, <2>2
<1>7. ASSUME NEW k \in D PROVE more[k] = t[new[k]]
  <2>1. CASE k = n + 1
    BY <1>1, <2>1
  <2>2. CASE k # n + 1
    <3>1. k \in 1..n /\ k \in DOMAIN s
      BY <1>1, <2>2
    <3> QED BY <1>1, <1>2, <2>2, <3>1
  <2> QED BY <2>1, <2>2
<1> HIDE DEF new
<1> QED BY <1>4, <1>5, <1>6, <1>7 DEF Listed, D, more

\* An element is listed as often as it is at the places that are listed.
LEMMA ListedTimes ==
  ASSUME NEW S, NEW s \in Seq(S), NEW t, NEW at \in SUBSET Nat, Listed(s, t, at), NEW x
  PROVE  Times(x, s) = Cardinality({p \in at : t[p] = x})
<1> DEFINE A == {k \in DOMAIN s : s[k] = x}
           B == {p \in at : t[p] = x}
<1>1. PICK place \in [DOMAIN s -> at] :
        /\ \A k, n \in DOMAIN s : k < n => place[k] < place[n]
        /\ \A p \in at : \E k \in DOMAIN s : place[k] = p
        /\ \A k \in DOMAIN s : s[k] = t[place[k]]
  BY DEF Listed
<1>2. DOMAIN s = 1..Len(s) /\ Len(s) \in Nat
  OBVIOUS
<1> DEFINE f == [k \in A |-> place[k]]
<1>3. f \in [A -> B]
  BY <1>1
<1>4. ASSUME NEW k \in A, NEW n \in A, f[k] = f[n] PROVE k = n
  <2>1. k \in 1..Len(s) /\ n \in 1..Len(s) /\ place[k] = place[n] /\ place[k] \in Nat
    BY <1>1, <1>2, <1>4
  <2>2. ~ (k < n) /\ ~ (n < k)
    BY <1>1, <1>2, <2>1
  <2> QED BY <1>2, <2>1, <2>2
<1>5. \A p \in B : \E k \in A : f[k] = p
  BY <1>1
<1>6. f \in Bijection(A, B)
  <2> HIDE DEF f, A, B
  <2>1. IsInjective(f)
    BY <1>3, <1>4 DEF IsInjective
  <2> QED BY <1>3, <1>5, <2>1 DEF Bijection, Injection, Surjection
<1>7. ExistsBijection(A, B)
  BY <1>6 DEF ExistsBijection
<1>8. IsFiniteSet(A)
  <2>1. IsFiniteSet(DOMAIN s)
    BY <1>2, FS_Interval
  <2> QED BY <2>1, FS_Subset
<1> HIDE DEF A, B
<1>9. Cardinality(A) = Cardinality(B)
  BY <1>7, <1>8, FS_Bijection
<1> QED BY <1>9 DEF A, B, Times
-----------------------------------------------------------------------------
(* Selection.                                                              *)

\* One iteration of the loop that keeps the benchmarks with the tags.
FilterStep(S, list, tags) ==
  [p \in Seq(S) \X DOMAIN list |->
     IF Matches(list[p[2]], tags) THEN Append(p[1], list[p[2]]) ELSE p[1]]

LEMMA FilteredSteps ==
  ASSUME NEW S, NEW list \in Seq(S), NEW tags
  PROVE  Outcome(Seq(S), <<>>, FilterStep(S, list, tags), Len(list), Filtered(list, tags))
<1> DEFINE n == Len(list)
           D == DOMAIN list
           base == <<>>
           V == Seq(S)
           Solves(f) == f = [s \in SUBSET D |->
                               IF s = {} THEN base
                               ELSE IF Matches(list[Max(s)], tags)
                                 THEN Append(f[s \ {Max(s)}], list[Max(s)])
                                 ELSE f[s \ {Max(s)}]]
           step == FilterStep(S, list, tags)
<1>1. n \in Nat /\ D = 1..n /\ \A i \in D : list[i] \in S
  OBVIOUS
<1>2. base \in V /\ step \in [V \X D -> V]
  BY <1>1 DEF FilterStep
<1>3. Filtered(list, tags) = (CHOOSE f : Solves(f))[D]
  BY DEF Filtered, FoldLeft, MapThenFoldSet
<1>4. ASSUME NEW s \in SUBSET D, s # {}
      PROVE  /\ Max(s) \in D
             /\ \A u \in V : step[<<u, Max(s)>>] = IF Matches(list[Max(s)], tags)
                                                     THEN Append(u, list[Max(s)]) ELSE u
  <2>1. Max(s) \in D
    BY <1>1, <1>4, MaxIsIn
  <2> QED BY <1>1, <2>1 DEF FilterStep
<1> HIDE DEF D, n, step, base, V
<1>5. \E f : Solves(f)
  <2>1. PICK f \in [SUBSET D -> V] : Folds(f, base, step, n)
    BY <1>1, <1>2, FoldExists
  <2>2. \A s \in SUBSET D : s # {} => step[<<f[s \ {Max(s)}], Max(s)>>]
                                        = IF Matches(list[Max(s)], tags)
                                            THEN Append(f[s \ {Max(s)}], list[Max(s)])
                                            ELSE f[s \ {Max(s)}]
    BY <1>4
  <2>3. Solves(f)
    BY <1>1, <2>1, <2>2 DEF Folds
  <2> HIDE DEF Solves
  <2> QED BY <2>3
<1>6. PICK f : Solves(f) /\ Filtered(list, tags) = f[D]
  BY <1>3, <1>5
<1>7. Agrees(f, V, base, step, n)
  BY <1>1, <1>4, <1>6 DEF Agrees
<1> HIDE DEF Solves
<1>8. Outcome(V, base, step, n, f[1..n])
  BY <1>1, <1>2, <1>7, FoldSteps
<1> QED BY <1>1, <1>6, <1>8 DEF n, step, base, V

\* The loop lists the benchmarks that have the tags, in their order.
LEMMA FilteredIsListed ==
  ASSUME NEW S, NEW list \in Seq(S), NEW tags
  PROVE  /\ Filtered(list, tags) \in Seq(S)
         /\ Listed(Filtered(list, tags), list, {k \in DOMAIN list : Matches(list[k], tags)})
<1> DEFINE n == Len(list)
           step == FilterStep(S, list, tags)
           At(m) == {k \in 1..m : Matches(list[k], tags)}
<1>1. n \in Nat /\ DOMAIN list = 1..n /\ \A i \in 1..n : list[i] \in S
  OBVIOUS
<1>2. PICK r \in [0..n -> Seq(S)] : Steps(r, <<>>, step, n) /\ r[n] = Filtered(list, tags)
  BY FilteredSteps DEF Outcome
<1> DEFINE T == {m \in 0..n : Listed(r[m], list, At(m))}
<1>3. 0 \in T
  <2>1. At(0) = {} /\ 0 \in 0..n /\ r[0] = <<>>
    BY <1>1, <1>2 DEF Steps
  <2> HIDE DEF At
  <2> QED BY <2>1, ListedNothing
<1>4. ASSUME NEW m \in 1..n, m - 1 \in T PROVE m \in T
  <2>1. m \in Nat /\ m - 1 \in 0..n /\ m \in 0..n /\ m \in DOMAIN list /\ list[m] \in S
    BY <1>1
  <2>2. r[m - 1] \in Seq(S) /\ Listed(r[m - 1], list, At(m - 1))
    BY <1>4, <2>1
  <2>3. r[m] = step[<<r[m - 1], m>>]
    BY <1>2 DEF Steps
  <2>4. r[m] = IF Matches(list[m], tags) THEN Append(r[m - 1], list[m]) ELSE r[m - 1]
    BY <2>1, <2>2, <2>3 DEF FilterStep
  <2>5. At(m) = IF Matches(list[m], tags) THEN At(m - 1) \cup {m} ELSE At(m - 1)
    BY <2>1
  <2>6. At(m - 1) \in SUBSET Nat /\ \A k \in At(m - 1) : k < m
    BY <2>1
  <2> HIDE DEF At, step
  <2>7. Listed(r[m], list, At(m))
    <3>1. CASE Matches(list[m], tags)
      <4> DEFINE s == r[m - 1]
                 at == At(m - 1)
      <4> HIDE DEF s, at
      <4>1. s \in Seq(S) /\ Listed(s, list, at) /\ at \in SUBSET Nat /\ \A k \in at : k < m
        BY <2>2, <2>6 DEF s, at
      <4>2. Listed(Append(s, list[m]), list, at \cup {m})
        BY <2>1, <4>1, ListedMore
      <4> QED BY <2>4, <2>5, <3>1, <4>2 DEF s, at
    <3>2. CASE ~ Matches(list[m], tags)
      BY <2>2, <2>4, <2>5, <3>2
    <3> QED BY <3>1, <3>2
  <2> QED BY <2>1, <2>7
<1>5. n \in T
  <2> HIDE DEF T
  <2>1. \A m \in 0..n : m \in T
    BY <1>1, <1>3, <1>4, UpTo
  <2> QED BY <1>1, <2>1
<1>6. At(n) = {k \in DOMAIN list : Matches(list[k], tags)}
  BY <1>1
<1> QED BY <1>1, <1>2, <1>5, <1>6

\* Names in the registry are unique, also if a static constructor threw, and a
\* selection is what the filter says of the registry.
SelInv ==
  /\ pending \subseteq Linked
  /\ registry \in Seq(Linked)
  /\ \A i, j \in DOMAIN registry : registry[i].name = registry[j].name => i = j
  /\ filter.names \in Seq(Words)
  /\ spc # "selected" => selection = <<>>
  /\ spc = "selected" =>
       /\ \A name \in ToSet(filter.names) : Known(name)
       /\ selection = Filtered(IF filter.names = <<>> THEN registry ELSE Named(filter.names),
                               filter.tags)

LEMMA FindIs ==
  ASSUME SelInv, NEW name, Known(name)
  PROVE  /\ Find(name) \in ToSet(registry) /\ Find(name) \in Linked /\ Find(name).name = name
         /\ \A b \in ToSet(registry) : b.name = name => b = Find(name)
<1> DEFINE T == {k \in DOMAIN registry : registry[k].name = name}
<1>1. registry \in Seq(Linked)
  BY DEF SelInv
<1>2. DOMAIN registry = 1..Len(registry) /\ Len(registry) \in Nat
      /\ \A k \in DOMAIN registry : registry[k] \in Linked
  BY <1>1
<1>3. T # {} /\ T \in SUBSET Nat
  BY <1>2 DEF Known, Found
<1>4. Min(T) \in T
  <2> HIDE DEF T
  <2> QED BY <1>3, MinIsIn
<1>5. Find(name) = registry[Min(T)]
  BY DEF Find, Found
<1> DEFINE k == Min(T)
<1>6. k \in DOMAIN registry /\ registry[k].name = name
  BY <1>4
<1> HIDE DEF k
<1>7. Find(name) = registry[k]
  BY <1>5 DEF k
<1>8. \A i \in DOMAIN registry : registry[i].name = name => i = k
  BY <1>6 DEF SelInv
<1> QED BY <1>2, <1>6, <1>7, <1>8 DEF ToSet

LEMMA NamedIs ==
  ASSUME SelInv, NEW names \in Seq(Words), \A name \in ToSet(names) : Known(name)
  PROVE  /\ Named(names) \in Seq(Linked) /\ DOMAIN Named(names) = DOMAIN names
         /\ \A k \in DOMAIN names : /\ Named(names)[k].name = names[k]
                                    /\ \A b \in ToSet(registry) :
                                         Named(names)[k] = b <=> b.name = names[k]
<1>1. Len(names) \in Nat /\ DOMAIN names = 1..Len(names)
  OBVIOUS
<1>2. DOMAIN Named(names) = DOMAIN names /\ \A k \in DOMAIN names : Named(names)[k] = Find(names[k])
  BY <1>1 DEF Named
<1>3. ASSUME NEW k \in DOMAIN names PROVE Known(names[k])
  BY <1>3 DEF ToSet
<1>4. ASSUME NEW k \in DOMAIN names
      PROVE  /\ Find(names[k]) \in Linked /\ Find(names[k]).name = names[k]
             /\ \A b \in ToSet(registry) : Find(names[k]) = b <=> b.name = names[k]
  <2>1. Known(names[k])
    BY <1>3
  <2> QED BY <2>1, FindIs
<1>5. Named(names) \in Seq(Linked)
  <2>1. Named(names) = [k \in 1..Len(names) |-> Find(names[k])]
    BY DEF Named
  <2>2. \A k \in 1..Len(names) : Find(names[k]) \in Linked
    BY <1>1, <1>4
  <2> QED BY <1>1, <2>1, <2>2
<1> QED BY <1>2, <1>4, <1>5

\* The list of benchmarks whose tags are looked at, and what is selected of it.
LEMMA SelectionIsListed ==
  ASSUME SelInv, spc = "selected"
  PROVE  \E list \in Seq(Linked) :
           /\ list = IF filter.names = <<>> THEN registry ELSE Named(filter.names)
           /\ selection \in Seq(Linked)
           /\ Listed(selection, list, {k \in DOMAIN list : Matches(list[k], filter.tags)})
<1> DEFINE list == IF filter.names = <<>> THEN registry ELSE Named(filter.names)
<1>1. list \in Seq(Linked)
  <2>1. registry \in Seq(Linked) /\ filter.names \in Seq(Words)
        /\ \A name \in ToSet(filter.names) : Known(name)
    BY DEF SelInv
  <2>2. Named(filter.names) \in Seq(Linked)
    BY <2>1, NamedIs
  <2> QED BY <2>1, <2>2
<1>2. selection = Filtered(list, filter.tags)
  BY DEF SelInv
<1> HIDE DEF list
<1>3. /\ selection \in Seq(Linked)
      /\ Listed(selection, list, {k \in DOMAIN list : Matches(list[k], filter.tags)})
  BY <1>1, <1>2, FilteredIsListed
<1> QED BY <1>1, <1>3 DEF list

LEMMA SelectionIsExact ==
  ASSUME SelInv
  PROVE  SelectionExact
<1> SUFFICES ASSUME spc = "selected", NEW b \in ToSet(registry)
             PROVE  Times(b, selection) = IF ~ (ToSet(filter.tags) \subseteq b.tags) THEN 0
                                          ELSE IF filter.names = <<>> THEN 1
                                          ELSE Times(b.name, filter.names)
  BY DEF SelectionExact
<1>1. PICK list \in Seq(Linked) :
        /\ list = IF filter.names = <<>> THEN registry ELSE Named(filter.names)
        /\ selection \in Seq(Linked)
        /\ Listed(selection, list, {k \in DOMAIN list : Matches(list[k], filter.tags)})
  BY SelectionIsListed
<1> DEFINE at == {k \in DOMAIN list : Matches(list[k], filter.tags)}
           B == {p \in at : list[p] = b}
<1>2. Times(b, selection) = Cardinality(B)
  <2>1. at \in SUBSET Nat
    BY <1>1
  <2> HIDE DEF at
  <2> QED BY <1>1, <2>1, ListedTimes DEF at
<1>3. Matches(b, filter.tags) <=> ToSet(filter.tags) \subseteq b.tags
  BY DEF Matches
<1>4. CASE ~ Matches(b, filter.tags)
  <2>1. B = {}
    BY <1>4
  <2> HIDE DEF B
  <2> QED BY <1>2, <1>3, <1>4, <2>1, FS_EmptySet
<1>5. CASE Matches(b, filter.tags)
  <2>1. B = {p \in DOMAIN list : list[p] = b}
    BY <1>5
  <2>2. CASE filter.names = <<>>
    <3>1. PICK k \in DOMAIN registry : registry[k] = b
      BY DEF ToSet
    <3>2. \A j \in DOMAIN registry : registry[j] = b => j = k
      BY <3>1 DEF SelInv
    <3>3. B = {k}
      BY <1>1, <2>1, <2>2, <3>1, <3>2
    <3> HIDE DEF B
    <3> QED BY <1>2, <1>3, <1>5, <2>2, <3>3, FS_Singleton
  <2>3. CASE filter.names # <<>>
    <3>1. /\ DOMAIN list = DOMAIN filter.names
          /\ \A k \in DOMAIN filter.names : list[k] = b <=> b.name = filter.names[k]
      <4>1. filter.names \in Seq(Words) /\ \A name \in ToSet(filter.names) : Known(name)
        BY DEF SelInv
      <4>2. list = Named(filter.names)
        BY <1>1, <2>3
      <4> QED BY <4>1, <4>2, NamedIs
    <3>2. B = {k \in DOMAIN filter.names : filter.names[k] = b.name}
      BY <2>1, <3>1
    <3> HIDE DEF B
    <3> QED BY <1>2, <1>3, <1>5, <2>3, <3>2 DEF Times
  <2> QED BY <2>2, <2>3
<1> QED BY <1>4, <1>5

LEMMA OrderIsKept ==
  ASSUME SelInv
  PROVE  OrderKept
<1> SUFFICES ASSUME spc = "selected", filter.names # <<>>
             PROVE  \E at \in SUBSET DOMAIN filter.names :
                      Listed([k \in DOMAIN selection |-> selection[k].name], filter.names, at)
  BY DEF OrderKept
<1>1. PICK list \in Seq(Linked) :
        /\ list = IF filter.names = <<>> THEN registry ELSE Named(filter.names)
        /\ selection \in Seq(Linked)
        /\ Listed(selection, list, {k \in DOMAIN list : Matches(list[k], filter.tags)})
  BY SelectionIsListed
<1> DEFINE at == {k \in DOMAIN list : Matches(list[k], filter.tags)}
           s == [k \in DOMAIN selection |-> selection[k].name]
<1>2. /\ DOMAIN list = DOMAIN filter.names
      /\ \A k \in DOMAIN filter.names : list[k].name = filter.names[k]
  <2>1. filter.names \in Seq(Words) /\ \A name \in ToSet(filter.names) : Known(name)
    BY DEF SelInv
  <2>2. list = Named(filter.names)
    BY <1>1
  <2> QED BY <2>1, <2>2, NamedIs
<1>3. at \in SUBSET DOMAIN filter.names
  BY <1>2
<1> HIDE DEF at
<1>4. PICK place \in [DOMAIN selection -> at] :
        /\ \A k, n \in DOMAIN selection : k < n => place[k] < place[n]
        /\ \A p \in at : \E k \in DOMAIN selection : place[k] = p
        /\ \A k \in DOMAIN selection : selection[k] = list[place[k]]
  BY <1>1 DEF Listed, at
<1>5. DOMAIN s = DOMAIN selection
      /\ \A k \in DOMAIN selection : s[k] = filter.names[place[k]]
  BY <1>2, <1>3, <1>4
<1> HIDE DEF s
<1>6. Listed(s, filter.names, at)
  BY <1>4, <1>5 DEF Listed
<1> QED BY <1>3, <1>6 DEF s

LEMMA SelInitInvariant == SelInit => SelInv
BY DEF SelInit, SelInv, NoFilter

LEMMA RegisterKeeps ==
  ASSUME SelInv, NEW b \in Linked, Register(b)
  PROVE  SelInv'
<1>1. /\ spc = "static" /\ b \in pending /\ pending' = pending \ {b}
      /\ UNCHANGED <<filter, selection>>
      /\ IF Known(b.name) THEN spc' = "terminated" /\ UNCHANGED registry
         ELSE registry' = Append(registry, b) /\ UNCHANGED spc
  BY DEF Register, Add
<1>2. spc' # "selected" /\ selection' = <<>>
  BY <1>1 DEF SelInv
<1>3. registry' \in Seq(Linked)
      /\ \A i, j \in DOMAIN registry' : registry'[i].name = registry'[j].name => i = j
  <2>1. CASE Known(b.name)
    BY <1>1, <2>1 DEF SelInv
  <2>2. CASE ~ Known(b.name)
    <3> DEFINE n == Len(registry)
               more == Append(registry, b)
    <3>1. registry \in Seq(Linked) /\ \A k \in DOMAIN registry : registry[k].name # b.name
      BY <2>2 DEF SelInv, Known, Found
    <3>2. n \in Nat /\ DOMAIN registry = 1..n /\ DOMAIN more = 1..(n + 1) /\ more[n + 1] = b
          /\ \A k \in 1..n : more[k] = registry[k]
      BY <3>1
    <3>3. more \in Seq(Linked)
      BY <3>1
    <3> HIDE DEF n, more
    <3>4. ASSUME NEW i \in DOMAIN more, NEW j \in DOMAIN more, more[i].name = more[j].name
          PROVE  i = j
      <4>1. \A k \in DOMAIN more : k # n + 1 => k \in 1..n
        BY <3>2
      <4>2. CASE i = n + 1 \/ j = n + 1
        BY <3>1, <3>2, <3>4, <4>1, <4>2
      <4>3. CASE i # n + 1 /\ j # n + 1
        BY <3>2, <3>4, <4>1, <4>3 DEF SelInv
      <4> QED BY <4>2, <4>3
    <3>5. registry' = more
      BY <1>1, <2>2 DEF more
    <3> QED BY <3>3, <3>4, <3>5
  <2> QED BY <2>1, <2>2
<1>4. pending' \subseteq Linked /\ filter' = filter
  BY <1>1 DEF SelInv
<1>5. filter'.names \in Seq(Words)
  BY <1>4 DEF SelInv
<1> QED BY <1>2, <1>3, <1>4, <1>5 DEF SelInv

LEMMA SelectKeeps ==
  ASSUME SelInv, NEW f, f.names \in Seq(Words), SelectBenchmarks(f)
  PROVE  SelInv' /\ spc' \in {"selected", "error"}
<1>1. /\ spc = "static" /\ filter' = f /\ UNCHANGED <<pending, registry>>
      /\ IF \E name \in ToSet(f.names) : ~Known(name)
           THEN spc' = "error" /\ UNCHANGED selection
           ELSE /\ spc' = "selected"
                /\ selection' = Filtered(IF f.names = <<>> THEN registry ELSE Named(f.names), f.tags)
  BY DEF SelectBenchmarks
<1>2. \A name : Known(name)' <=> Known(name)
  BY <1>1 DEF Known, Found
<1>3. Named(filter.names)' = Named(f.names)
  BY <1>1 DEF Named, Find, Found
<1>4. CASE \E name \in ToSet(f.names) : ~Known(name)
  BY <1>1, <1>4 DEF SelInv
<1>5. CASE ~ \E name \in ToSet(f.names) : ~Known(name)
  <2>1. spc' = "selected"
        /\ selection' = Filtered(IF f.names = <<>> THEN registry ELSE Named(f.names), f.tags)
    BY <1>1, <1>5
  <2>2. \A name \in ToSet(filter'.names) : Known(name)'
    BY <1>1, <1>2, <1>5
  <2>3. (selection = Filtered(IF filter.names = <<>> THEN registry ELSE Named(filter.names),
                              filter.tags))'
    BY <1>1, <1>3, <2>1
  <2> QED BY <1>1, <2>1, <2>2, <2>3 DEF SelInv
<1> QED BY <1>4, <1>5
-----------------------------------------------------------------------------
(* parse_cli.                                                              *)

Options ==
  [cmd : {"help", "list", "run", "worker", "rejected"}, executable : Words, solver : Words,
   outputDir : Words, trace : Words, workerBenchmark : Words, timeout : Int,
   names : Seq(Words), tags : Seq(Words)]

\* The option at i and its value are accepted.
Good(i, args) ==
  /\ HasValue(i, args)
  /\ args[i] \in OptionNames
  /\ args[i] = "--timeout-seconds" => Accepted(args[i + 1])

\* What an option with its value makes of the options o.
Parsed(new, o, option, value) ==
  /\ new.cmd = o.cmd /\ new.executable = o.executable
  /\ new.solver = IF option = "--solver" THEN value ELSE o.solver
  /\ new.outputDir = IF option = "--output-dir" THEN value ELSE o.outputDir
  /\ new.trace = IF option = "--trace-out" THEN value ELSE o.trace
  /\ new.workerBenchmark = IF option = "--worker-benchmark" THEN value ELSE o.workerBenchmark
  /\ new.timeout = IF option = "--timeout-seconds" THEN Number[value] ELSE o.timeout
  /\ new.names = IF option = "--benchmark" THEN Append(o.names, value) ELSE o.names
  /\ new.tags = IF option = "--tag" THEN Append(o.tags, value) ELSE o.tags

LEMMA OptionCases ==
  ASSUME NEW args, NEW i, NEW o, o.cmd # "rejected", HasValue(i, args)
  PROVE  /\ args[i] = "--solver" => ParseOption(o, i, args) = [o EXCEPT !.solver = args[i + 1]]
         /\ args[i] = "--tag" => ParseOption(o, i, args) = [o EXCEPT !.tags = Append(@, args[i + 1])]
         /\ args[i] = "--benchmark" =>
              ParseOption(o, i, args) = [o EXCEPT !.names = Append(@, args[i + 1])]
         /\ args[i] = "--output-dir" =>
              ParseOption(o, i, args) = [o EXCEPT !.outputDir = args[i + 1]]
         /\ args[i] = "--trace-out" => ParseOption(o, i, args) = [o EXCEPT !.trace = args[i + 1]]
         /\ args[i] = "--worker-benchmark" =>
              ParseOption(o, i, args) = [o EXCEPT !.workerBenchmark = args[i + 1]]
         /\ args[i] = "--timeout-seconds" /\ Accepted(args[i + 1]) =>
              ParseOption(o, i, args) = [o EXCEPT !.timeout = Number[args[i + 1]]]
         /\ ~ Good(i, args) => ParseOption(o, i, args) = Rejected
<1>1. args[i] = "--solver" => ParseOption(o, i, args) = [o EXCEPT !.solver = args[i + 1]]
  BY Zenon DEF ParseOption
<1>2. args[i] = "--tag" => ParseOption(o, i, args) = [o EXCEPT !.tags = Append(@, args[i + 1])]
  BY Zenon DEF ParseOption
<1>3. args[i] = "--benchmark" =>
        ParseOption(o, i, args) = [o EXCEPT !.names = Append(@, args[i + 1])]
  BY Zenon DEF ParseOption
<1>4. args[i] = "--output-dir" =>
        ParseOption(o, i, args) = [o EXCEPT !.outputDir = args[i + 1]]
  BY Zenon DEF ParseOption
<1>5. args[i] = "--trace-out" => ParseOption(o, i, args) = [o EXCEPT !.trace = args[i + 1]]
  BY Zenon DEF ParseOption
<1>6. args[i] = "--worker-benchmark" =>
        ParseOption(o, i, args) = [o EXCEPT !.workerBenchmark = args[i + 1]]
  BY Zenon DEF ParseOption
<1>7. args[i] = "--timeout-seconds" /\ Accepted(args[i + 1]) =>
        ParseOption(o, i, args) = [o EXCEPT !.timeout = Number[args[i + 1]]]
  BY Zenon DEF ParseOption
<1>8. ~ Good(i, args) => ParseOption(o, i, args) = Rejected
  BY Zenon DEF ParseOption, Good, OptionNames
<1> QED BY <1>1, <1>2, <1>3, <1>4, <1>5, <1>6, <1>7, <1>8

LEMMA RejectedIsOptions == Rejected \in Options /\ NoOptions \in Options
<1>1. <<>> \in Seq(Words)
  OBVIOUS
<1>2. NoOptions \in Options
  <2> DEFINE zero == 0
  <2>1. "" \in Words
    BY DEF Words
  <2>2. zero \in Int
    OBVIOUS
  <2>3. NoOptions = [cmd |-> "help", executable |-> "", solver |-> "", outputDir |-> "",
                     trace |-> "", workerBenchmark |-> "", timeout |-> zero,
                     names |-> <<>>, tags |-> <<>>]
    BY DEF NoOptions
  <2> HIDE DEF zero
  <2> QED BY <1>1, <2>1, <2>2, <2>3 DEF Options
<1>3. Rejected \in Options
  BY <1>2 DEF Rejected, Options
<1> QED BY <1>2, <1>3

LEMMA OptionIs ==
  ASSUME NEW args \in Seq(Words), NEW i \in 1..Len(args), NEW o \in Options
  PROVE  /\ ParseOption(o, i, args) \in Options
         /\ o.cmd # "rejected" /\ Good(i, args) =>
              Parsed(ParseOption(o, i, args), o, args[i], args[i + 1])
         /\ o.cmd = "rejected" \/ ~ Good(i, args) => ParseOption(o, i, args) = Rejected
<1> DEFINE new == ParseOption(o, i, args)
           value == args[i + 1]
           option == args[i]
<1>1. CASE o.cmd = "rejected"
  <2>1. new = Rejected
    BY <1>1, Zenon DEF ParseOption
  <2> HIDE DEF new
  <2> QED BY <1>1, <2>1, RejectedIsOptions DEF new
<1>2. CASE o.cmd # "rejected" /\ ~ Good(i, args)
  <2>1. new = Rejected
    <3>1. CASE HasValue(i, args)
      BY <1>2, <3>1, OptionCases
    <3>2. CASE ~ HasValue(i, args)
      BY <1>2, <3>2, Zenon DEF ParseOption
    <3> QED BY <3>1, <3>2
  <2> HIDE DEF new
  <2> QED BY <1>2, <2>1, RejectedIsOptions DEF new
<1>3. CASE o.cmd # "rejected" /\ Good(i, args)
  <2>1. HasValue(i, args) /\ value \in Words /\ option \in OptionNames
        /\ (option = "--timeout-seconds" => Accepted(value))
    BY <1>3 DEF Good, HasValue
  <2> HIDE DEF value, option
  <2>2. CASE option = "--solver"
    <3>1. new = [o EXCEPT !.solver = value]
      BY <1>3, <2>1, <2>2, OptionCases DEF value, option
    <3> HIDE DEF new
    <3>2. Parsed(new, o, option, value)
      BY <2>1, <2>2, <3>1 DEF Parsed, Options
    <3>3. new \in Options
      BY <2>1, <3>1 DEF Options
    <3> QED BY <1>3, <3>2, <3>3 DEF new, option, value
  <2>3. CASE option = "--tag"
    <3>1. new = [o EXCEPT !.tags = Append(o.tags, value)]
      BY <1>3, <2>1, <2>3, OptionCases DEF value, option
    <3> HIDE DEF new
    <3>2. Parsed(new, o, option, value)
      BY <2>1, <2>3, <3>1 DEF Parsed, Options
    <3> DEFINE more == Append(o.tags, value)
    <3>3. more \in Seq(Words)
      BY <2>1 DEF Options
    <3> HIDE DEF more
    <3>4. new \in Options
      BY <3>1, <3>3 DEF Options, more
    <3> QED BY <1>3, <3>2, <3>4 DEF new, option, value
  <2>4. CASE option = "--benchmark"
    <3>1. new = [o EXCEPT !.names = Append(o.names, value)]
      BY <1>3, <2>1, <2>4, OptionCases DEF value, option
    <3> HIDE DEF new
    <3>2. Parsed(new, o, option, value)
      BY <2>1, <2>4, <3>1 DEF Parsed, Options
    <3> DEFINE more == Append(o.names, value)
    <3>3. more \in Seq(Words)
      BY <2>1 DEF Options
    <3> HIDE DEF more
    <3>4. new \in Options
      BY <3>1, <3>3 DEF Options, more
    <3> QED BY <1>3, <3>2, <3>4 DEF new, option, value
  <2>5. CASE option = "--output-dir"
    <3>1. new = [o EXCEPT !.outputDir = value]
      BY <1>3, <2>1, <2>5, OptionCases DEF value, option
    <3> HIDE DEF new
    <3>2. Parsed(new, o, option, value)
      BY <2>1, <2>5, <3>1 DEF Parsed, Options
    <3>3. new \in Options
      BY <2>1, <3>1 DEF Options
    <3> QED BY <1>3, <3>2, <3>3 DEF new, option, value
  <2>6. CASE option = "--trace-out"
    <3>1. new = [o EXCEPT !.trace = value]
      BY <1>3, <2>1, <2>6, OptionCases DEF value, option
    <3> HIDE DEF new
    <3>2. Parsed(new, o, option, value)
      BY <2>1, <2>6, <3>1 DEF Parsed, Options
    <3>3. new \in Options
      BY <2>1, <3>1 DEF Options
    <3> QED BY <1>3, <3>2, <3>3 DEF new, option, value
  <2>7. CASE option = "--worker-benchmark"
    <3>1. new = [o EXCEPT !.workerBenchmark = value]
      BY <1>3, <2>1, <2>7, OptionCases DEF value, option
    <3> HIDE DEF new
    <3>2. Parsed(new, o, option, value)
      BY <2>1, <2>7, <3>1 DEF Parsed, Options
    <3>3. new \in Options
      BY <2>1, <3>1 DEF Options
    <3> QED BY <1>3, <3>2, <3>3 DEF new, option, value
  <2>8. CASE option = "--timeout-seconds"
    <3>1. new = [o EXCEPT !.timeout = Number[value]]
      BY <1>3, <2>1, <2>8, OptionCases DEF value, option
    <3>2. Number[value] \in Int
      BY <2>1, <2>8, CommandLineAssumption DEF Accepted
    <3> HIDE DEF new
    <3>3. Parsed(new, o, option, value)
      BY <2>1, <2>8, <3>1 DEF Parsed, Options
    <3>4. new \in Options
      BY <2>1, <3>1, <3>2 DEF Options
    <3> QED BY <1>3, <3>3, <3>4 DEF new, option, value
  <2> QED BY <2>1, <2>2, <2>3, <2>4, <2>5, <2>6, <2>7, <2>8 DEF OptionNames
<1> QED BY <1>1, <1>2, <1>3

Pairs(args) == (Len(args) - 1) \div 2

ParseStep(args) ==
  [p \in Options \X (1..Pairs(args)) |-> ParseOption(p[1], 2 * p[2] + 1, args)]

\* The options before the loop.
Start(args) == [NoOptions EXCEPT !.executable = args[1], !.cmd = args[2]]

LEMMA PairsOf ==
  ASSUME NEW args \in Seq(Words), Len(args) >= 2
  PROVE  /\ Pairs(args) \in Nat
         /\ \A m \in 1..Pairs(args) : 2 * m + 1 \in 1..Len(args)
         /\ args[1] \in Words /\ args[2] \in Words
<1> DEFINE n == Len(args)
           q == (n - 1) \div 2
<1>1. n \in Nat /\ n >= 2 /\ \A k \in 1..n : args[k] \in Words
  OBVIOUS
<1> HIDE DEF n
<1>2. q \in Nat /\ 2 * q <= n - 1
  BY <1>1
<1> HIDE DEF q
<1>3. Pairs(args) = q
  BY DEF Pairs, q, n
<1>4. \A m \in 1..q : 2 * m + 1 \in 1..n
  BY <1>1, <1>2
<1>5. args[1] \in Words /\ args[2] \in Words
  BY <1>1
<1> QED BY <1>2, <1>3, <1>4, <1>5 DEF n

LEMMA ParseSteps ==
  ASSUME NEW args \in Seq(Words), Len(args) >= 2, NEW o \in Options
  PROVE  Outcome(Options, o, ParseStep(args), Pairs(args), ParseOptions(o, args))
<1> DEFINE n == Pairs(args)
           seq == [k \in 1..(Len(args) - 1) \div 2 |-> 2 * k + 1]
           D == DOMAIN seq
           Solves(f) == f = [s \in SUBSET D |->
                               IF s = {} THEN o
                               ELSE ParseOption(f[s \ {Max(s)}], seq[Max(s)], args)]
           step == ParseStep(args)
<1>1. D = 1..n /\ n \in Nat /\ \A i \in D : seq[i] = 2 * i + 1 /\ 2 * i + 1 \in 1..Len(args)
  <2>1. D = 1..n
    BY DEF Pairs
  <2>2. \A i \in D : seq[i] = 2 * i + 1
    OBVIOUS
  <2> HIDE DEF D, seq
  <2> QED BY <2>1, <2>2, PairsOf
<1>2. step \in [Options \X D -> Options]
  <2> HIDE DEF D, n, seq
  <2>1. \A p \in Options \X (1..n) : ParseOption(p[1], 2 * p[2] + 1, args) \in Options
    BY <1>1, OptionIs
  <2> QED BY <1>1, <2>1 DEF ParseStep, n
<1>3. ParseOptions(o, args) = (CHOOSE f : Solves(f))[D]
  BY DEF ParseOptions, FoldLeft, MapThenFoldSet
<1> HIDE DEF D, n, seq
<1>4. ASSUME NEW s \in SUBSET D, s # {}
      PROVE  /\ Max(s) \in D
             /\ \A u \in Options : step[<<u, Max(s)>>] = ParseOption(u, seq[Max(s)], args)
  <2>1. Max(s) \in D
    BY <1>1, <1>4, MaxIsIn
  <2>2. seq[Max(s)] = 2 * Max(s) + 1
    BY <1>1, <2>1
  <2> QED BY <1>1, <2>1, <2>2 DEF ParseStep, n
<1> HIDE DEF step
<1>5. \E f : Solves(f)
  <2>1. PICK f \in [SUBSET D -> Options] : Folds(f, o, step, n)
    BY <1>1, <1>2, FoldExists
  <2>2. \A s \in SUBSET D : s # {} => step[<<f[s \ {Max(s)}], Max(s)>>]
                                        = ParseOption(f[s \ {Max(s)}], seq[Max(s)], args)
    BY <1>4
  <2>3. Solves(f)
    BY <1>1, <2>1, <2>2 DEF Folds
  <2> HIDE DEF Solves
  <2> QED BY <2>3
<1>6. PICK f : Solves(f) /\ ParseOptions(o, args) = f[D]
  BY <1>3, <1>5
<1>7. Agrees(f, Options, o, step, n)
  BY <1>1, <1>4, <1>6 DEF Agrees
<1> HIDE DEF Solves
<1>8. Outcome(Options, o, step, n, f[1..n])
  BY <1>1, <1>2, <1>7, FoldSteps
<1> QED BY <1>1, <1>6, <1>8 DEF n, step

\* The places of an option among the first m pairs, and its last value there.
PlacesIn(option, args, m) == {k \in Places(option, args) : k <= 2 * m + 1}

LastIn(option, args, m) ==
  LET at == PlacesIn(option, args, m) IN IF at = {} THEN "" ELSE args[Max(at) + 1]

LEMMA PlacesStep ==
  ASSUME NEW args \in Seq(Words), Len(args) >= 2, NEW m \in 1..Pairs(args), NEW option
  PROVE  /\ PlacesIn(option, args, m) = IF args[2 * m + 1] = option
                                          THEN PlacesIn(option, args, m - 1) \cup {2 * m + 1}
                                          ELSE PlacesIn(option, args, m - 1)
         /\ PlacesIn(option, args, m - 1) \in SUBSET Nat
         /\ \A q \in PlacesIn(option, args, m - 1) : q < 2 * m + 1
         /\ LastIn(option, args, m) = IF args[2 * m + 1] = option THEN args[2 * m + 2]
                                      ELSE LastIn(option, args, m - 1)
<1> DEFINE k == 2 * m + 1
           P == Places(option, args)
           old == PlacesIn(option, args, m - 1)
           new == PlacesIn(option, args, m)
<1>1. m \in Nat /\ m >= 1 /\ k \in 1..Len(args) /\ k >= 3 /\ k \in Int /\ Len(args) \in Nat
  BY PairsOf
<1>2. k % 2 = 1
  BY <1>1
<1>3. k \in P <=> args[k] = option
  BY <1>1, <1>2 DEF Places
<1>4. P \in SUBSET (1..Len(args)) /\ \A q \in P : q % 2 = 1
  BY <1>1 DEF Places
<1>5. \A q \in P : q <= 2 * m + 1 /\ q # k => q <= 2 * (m - 1) + 1
  BY <1>1, <1>4
<1>6. new = IF args[k] = option THEN old \cup {k} ELSE old
  <2>1. \A q \in P : q \in Int /\ (q <= 2 * (m - 1) + 1 => q <= 2 * m + 1)
    BY <1>1, <1>4
  <2>2. k <= 2 * m + 1
    BY <1>1
  <2> HIDE DEF P, k
  <2> QED BY <1>3, <1>5, <2>1, <2>2 DEF PlacesIn, P
<1>7. old \in SUBSET Nat /\ old \in SUBSET (1..Len(args)) /\ \A q \in old : q < k
  BY <1>1, <1>4 DEF PlacesIn
<1>8. k + 1 = 2 * m + 2
  BY <1>1
<1>9. LastIn(option, args, m) = IF args[k] = option THEN args[k + 1]
                                ELSE LastIn(option, args, m - 1)
  <2>1. CASE args[k] = option
    <3> HIDE DEF k, new, old
    <3>1. new \in SUBSET (1..k) /\ k \in new /\ new # {}
      BY <1>1, <1>6, <1>7, <2>1
    <3>2. Max(new) = k
      BY <1>1, <3>1, MaxUpTo
    <3> QED BY <2>1, <3>1, <3>2 DEF LastIn, new
  <2>2. CASE args[k] # option
    BY <1>6, <2>2 DEF LastIn
  <2> QED BY <2>1, <2>2
<1> HIDE DEF old, new
<1> QED BY <1>6, <1>7, <1>8, <1>9 DEF old, new

LEMMA PlacesEnds ==
  ASSUME NEW args \in Seq(Words), Len(args) >= 2, NEW option
  PROVE  /\ PlacesIn(option, args, 0) = {} /\ LastIn(option, args, 0) = ""
         /\ PlacesIn(option, args, Pairs(args)) = Places(option, args)
         /\ LastIn(option, args, Pairs(args)) = LastValue(option, args)
<1> DEFINE n == Len(args)
           q == Pairs(args)
<1>1. n \in Nat /\ q = (n - 1) \div 2
  BY DEF Pairs
<1> HIDE DEF n, q
<1>2. \A k \in 3..n : k % 2 = 1 => k <= 2 * q + 1
  BY <1>1
<1>3. PlacesIn(option, args, q) = Places(option, args)
  BY <1>2 DEF PlacesIn, Places, n
<1>4. PlacesIn(option, args, 0) = {}
  BY <1>1 DEF PlacesIn, Places, n
<1>5. LastIn(option, args, 0) = ""
  BY <1>4 DEF LastIn
<1>6. LastIn(option, args, q) = LastValue(option, args)
  BY <1>3 DEF LastIn, LastValue
<1> QED BY <1>3, <1>4, <1>5, <1>6 DEF q

\* The options after m pairs are what these pairs say.
AsFar(o, args, m) ==
  /\ o.cmd = args[2] /\ o.executable = args[1]
  /\ o.solver = LastIn("--solver", args, m)
  /\ o.outputDir = LastIn("--output-dir", args, m)
  /\ o.trace = LastIn("--trace-out", args, m)
  /\ o.workerBenchmark = LastIn("--worker-benchmark", args, m)
  /\ o.timeout = IF PlacesIn("--timeout-seconds", args, m) = {} THEN 0
                 ELSE Number[LastIn("--timeout-seconds", args, m)]
  /\ Listed(o.names, Tail(args), PlacesIn("--benchmark", args, m))
  /\ Listed(o.tags, Tail(args), PlacesIn("--tag", args, m))

\* A pair whose option is not "option" leaves what it says; one whose option it is
\* lists one word more.
LEMMA ListedStep ==
  ASSUME NEW args \in Seq(Words), Len(args) >= 2, NEW m \in 1..Pairs(args), NEW option,
         2 * m + 2 <= Len(args), NEW s \in Seq(Words),
         Listed(s, Tail(args), PlacesIn(option, args, m - 1))
  PROVE  Listed(IF args[2 * m + 1] = option THEN Append(s, args[2 * m + 2]) ELSE s,
                Tail(args), PlacesIn(option, args, m))
<1> DEFINE k == 2 * m + 1
           value == args[2 * m + 2]
           old == PlacesIn(option, args, m - 1)
           t == Tail(args)
<1>1. m \in Nat /\ k \in Nat /\ value \in Words /\ value = t[k]
  <2>1. m \in Nat /\ k \in Nat /\ Len(args) \in Nat /\ k + 1 = 2 * m + 2
    BY PairsOf
  <2>2. \A j \in 1..(Len(args) - 1) : t[j] = args[j + 1]
    OBVIOUS
  <2>3. k \in 1..(Len(args) - 1) /\ k + 1 \in 1..Len(args)
    BY <2>1
  <2> HIDE DEF k, t
  <2> QED BY <2>1, <2>2, <2>3
<1>2. /\ PlacesIn(option, args, m) = IF args[k] = option THEN old \cup {k} ELSE old
      /\ old \in SUBSET Nat /\ \A q \in old : q < k
  BY PlacesStep
<1> HIDE DEF k, value, old, t
<1>3. CASE args[k] = option
  <2>1. Listed(Append(s, value), t, old \cup {k})
    BY <1>1, <1>2, ListedMore DEF old, t
  <2> QED BY <1>2, <1>3, <2>1 DEF k, t, value
<1>4. CASE args[k] # option
  BY <1>2, <1>4 DEF k, old
<1> QED BY <1>3, <1>4

LEMMA AsFarStep ==
  ASSUME NEW args \in Seq(Words), Len(args) >= 2, NEW m \in 1..Pairs(args),
         2 * m + 2 <= Len(args), NEW o \in Options, AsFar(o, args, m - 1), NEW new,
         Parsed(new, o, args[2 * m + 1], args[2 * m + 2])
  PROVE  AsFar(new, args, m)
<1> DEFINE option == args[2 * m + 1]
           value == args[2 * m + 2]
<1>1. \A x : LastIn(x, args, m) = IF option = x THEN value ELSE LastIn(x, args, m - 1)
  BY PlacesStep
<1>2. PlacesIn("--timeout-seconds", args, m) = {}
        <=> option # "--timeout-seconds" /\ PlacesIn("--timeout-seconds", args, m - 1) = {}
  BY PlacesStep
<1>3. o.names \in Seq(Words) /\ o.tags \in Seq(Words)
  BY DEF Options
<1>4. Listed(new.names, Tail(args), PlacesIn("--benchmark", args, m))
  <2>1. new.names = IF option = "--benchmark" THEN Append(o.names, value) ELSE o.names
    BY DEF Parsed
  <2>2. Listed(o.names, Tail(args), PlacesIn("--benchmark", args, m - 1))
    BY DEF AsFar
  <2> QED BY <1>3, <2>1, <2>2, ListedStep
<1>5. Listed(new.tags, Tail(args), PlacesIn("--tag", args, m))
  <2>1. new.tags = IF option = "--tag" THEN Append(o.tags, value) ELSE o.tags
    BY DEF Parsed
  <2>2. Listed(o.tags, Tail(args), PlacesIn("--tag", args, m - 1))
    BY DEF AsFar
  <2> QED BY <1>3, <2>1, <2>2, ListedStep
<1> HIDE DEF option, value
<1>6. /\ new.cmd = args[2] /\ new.executable = args[1]
      /\ new.solver = LastIn("--solver", args, m)
      /\ new.outputDir = LastIn("--output-dir", args, m)
      /\ new.trace = LastIn("--trace-out", args, m)
      /\ new.workerBenchmark = LastIn("--worker-benchmark", args, m)
  BY <1>1 DEF Parsed, AsFar, option, value
<1>7. new.timeout = IF PlacesIn("--timeout-seconds", args, m) = {} THEN 0
                    ELSE Number[LastIn("--timeout-seconds", args, m)]
  BY <1>1, <1>2 DEF Parsed, AsFar, option, value
<1> QED BY <1>4, <1>5, <1>6, <1>7 DEF AsFar

AllGood(args, m) == \A j \in 1..m : Good(2 * j + 1, args)

\* The loop, which goes by pairs, accepts exactly the well-formed vectors.
LEMMA WellFormedIsGood ==
  ASSUME NEW args \in Seq(Words), Len(args) >= 2, args[2] \in {"list", "run", "worker"}
  PROVE  WellFormed(args) <=> AllGood(args, Pairs(args))
<1> DEFINE n == Len(args)
           q == Pairs(args)
<1>1. n \in Nat /\ n >= 2 /\ q = (n - 1) \div 2
  BY DEF Pairs
<1> HIDE DEF n, q
<1>2. q \in Nat /\ (n % 2 = 0 => 2 * q = n - 2) /\ (n % 2 # 0 => 2 * q + 1 = n)
  BY <1>1
<1>3. ASSUME WellFormed(args), NEW j \in 1..q PROVE Good(2 * j + 1, args)
  <2>1. n % 2 = 0
        /\ \A k \in 3..n : IF k % 2 = 0 THEN args[k] \notin Dashed ELSE args[k] \in OptionNames
    BY <1>3 DEF WellFormed, n
  <2>2. j \in Nat /\ 2 * j + 1 \in 3..n /\ 2 * j + 2 \in 3..n
    BY <1>1, <1>2, <2>1
  <2>3. (2 * j + 1) % 2 = 1 /\ (2 * j + 2) % 2 = 0 /\ (2 * j + 1) + 1 = 2 * j + 2
    BY <2>2
  <2>4. args[2 * j + 1] \in OptionNames /\ args[2 * j + 2] \notin Dashed
    BY <2>1, <2>2, <2>3
  <2>5. HasValue(2 * j + 1, args)
    BY <2>2, <2>3, <2>4 DEF HasValue, n
  <2>6. ASSUME args[2 * j + 1] = "--timeout-seconds" PROVE Accepted(args[2 * j + 2])
    <3>1. 2 * j + 1 \in Places("--timeout-seconds", args)
      BY <2>2, <2>3, <2>6 DEF Places, n
    <3>2. \A k \in Places("--timeout-seconds", args) : Accepted(args[k + 1])
      BY <1>3 DEF WellFormed
    <3> QED BY <2>3, <3>1, <3>2
  <2> QED BY <2>3, <2>4, <2>5, <2>6 DEF Good
<1>4. ASSUME AllGood(args, q) PROVE WellFormed(args)
  <2>1. \A j \in 1..q : Good(2 * j + 1, args)
    BY <1>4 DEF AllGood
  <2>2. n % 2 = 0
    <3>1. SUFFICES ASSUME n % 2 # 0 PROVE FALSE
      OBVIOUS
    <3>2. q \in 1..q /\ 2 * q + 1 = n
      BY <1>1, <1>2, <3>1
    <3>3. HasValue(n, args)
      BY <2>1, <3>2 DEF Good
    <3> QED BY <1>1, <3>3 DEF HasValue, n
  <2>3. ASSUME NEW k \in 3..n, k % 2 # 0
        PROVE  Good(k, args)
    <3>1. \E j \in 1..q : k = 2 * j + 1
      <4> DEFINE j == (k - 1) \div 2
      <4>1. j \in 1..q /\ k = 2 * j + 1
        BY <1>1, <1>2, <2>2, <2>3
      <4> QED BY <4>1
    <3> QED BY <2>1, <3>1
  <2>4. ASSUME NEW k \in 3..n, k % 2 = 0
        PROVE  args[k] \notin Dashed
    <3>1. k - 1 \in 3..n /\ (k - 1) % 2 # 0 /\ (k - 1) + 1 = k
      BY <1>1, <2>4
    <3>2. HasValue(k - 1, args)
      BY <2>3, <3>1 DEF Good
    <3> QED BY <3>1, <3>2 DEF HasValue
  <2>5. \A k \in 3..n : IF k % 2 = 0 THEN args[k] \notin Dashed ELSE args[k] \in OptionNames
    BY <2>3, <2>4 DEF Good
  <2>6. \A k \in Places("--timeout-seconds", args) : Accepted(args[k + 1])
    <3>1. \A k \in Places("--timeout-seconds", args) :
            k \in 3..n /\ k % 2 # 0 /\ args[k] = "--timeout-seconds"
      BY <1>1 DEF Places, n
    <3> QED BY <2>3, <3>1 DEF Good
  <2> QED BY <2>2, <2>5, <2>6 DEF WellFormed, n
<1> QED BY <1>3, <1>4 DEF AllGood, q

LEMMA StartIs ==
  ASSUME NEW args \in Seq(Words), Len(args) >= 2, args[2] \in {"list", "run", "worker"}
  PROVE  Start(args) \in Options /\ Start(args).cmd # "rejected" /\ AsFar(Start(args), args, 0)
<1>1. args[1] \in Words /\ NoOptions \in Options
  BY PairsOf, RejectedIsOptions
<1>2. Start(args) \in Options /\ Start(args).cmd # "rejected"
  BY <1>1 DEF Start, Options
<1>3. \A x : PlacesIn(x, args, 0) = {} /\ LastIn(x, args, 0) = ""
  BY PlacesEnds
<1>4. Start(args).names = <<>> /\ Start(args).tags = <<>>
  BY DEF Start, NoOptions
<1>5. /\ Start(args).cmd = args[2] /\ Start(args).executable = args[1]
      /\ Start(args).solver = "" /\ Start(args).outputDir = "" /\ Start(args).trace = ""
      /\ Start(args).workerBenchmark = "" /\ Start(args).timeout = 0
  BY DEF Start, NoOptions
<1>6. Listed(<<>>, Tail(args), {})
  BY ListedNothing
<1> QED BY <1>2, <1>3, <1>4, <1>5, <1>6 DEF AsFar

\* parse_cli accepts the well-formed argument vectors and makes of them what they say.
LEMMA ParsesAsWritten ==
  ASSUME NEW args \in Seq(Words), Len(args) >= 2, args[2] \in {"list", "run", "worker"}
  PROVE  /\ ParseOptions(Start(args), args) \in Options
         /\ IF WellFormed(args) THEN AsWritten(ParseOptions(Start(args), args), args)
            ELSE ParseOptions(Start(args), args) = Rejected
<1> DEFINE n == Pairs(args)
           step == ParseStep(args)
<1>1. n \in Nat /\ \A m \in 1..n : 2 * m + 1 \in 1..Len(args)
  BY PairsOf
<1>2. PICK r \in [0..n -> Options] :
        Steps(r, Start(args), step, n) /\ r[n] = ParseOptions(Start(args), args)
  BY StartIs, ParseSteps DEF Outcome
<1> DEFINE Right(m) == IF AllGood(args, m) THEN AsFar(r[m], args, m) /\ r[m].cmd # "rejected"
                       ELSE r[m] = Rejected
           T == {m \in 0..n : Right(m)}
<1>3. 0 \in T
  <2>1. AllGood(args, 0) /\ r[0] = Start(args) /\ 0 \in 0..n
    BY <1>1, <1>2 DEF AllGood, Steps
  <2> QED BY <2>1, StartIs
<1>4. ASSUME NEW m \in 1..n, m - 1 \in T PROVE m \in T
  <2>1. m \in Nat /\ m - 1 \in 0..n /\ m \in 0..n /\ 2 * m + 1 \in 1..Len(args)
    BY <1>1
  <2>2. r[m - 1] \in Options /\ Right(m - 1)
    BY <1>4, <2>1
  <2>3. r[m] = ParseOption(r[m - 1], 2 * m + 1, args)
    BY <1>2, <2>1, <2>2 DEF Steps, ParseStep
  <2>4. AllGood(args, m) <=> AllGood(args, m - 1) /\ Good(2 * m + 1, args)
    BY <2>1 DEF AllGood
  <2>5. Rejected.cmd = "rejected"
    BY DEF Rejected, NoOptions
  <2>6. Right(m)
    <3>1. CASE AllGood(args, m)
      <4>1. /\ AsFar(r[m - 1], args, m - 1) /\ r[m - 1].cmd # "rejected" /\ Good(2 * m + 1, args)
        BY <2>2, <2>4, <3>1
      <4>2. 2 * m + 2 <= Len(args) /\ (2 * m + 1) + 1 = 2 * m + 2
        BY <2>1, <4>1 DEF Good, HasValue
      <4>3. Parsed(r[m], r[m - 1], args[2 * m + 1], args[2 * m + 2])
        BY <2>1, <2>2, <2>3, <4>1, <4>2, OptionIs
      <4>4. AsFar(r[m], args, m)
        BY <2>2, <4>1, <4>2, <4>3, AsFarStep
      <4>5. r[m].cmd # "rejected"
        BY <4>1, <4>3 DEF Parsed
      <4> QED BY <3>1, <4>4, <4>5
    <3>2. CASE ~ AllGood(args, m)
      <4>1. r[m - 1].cmd = "rejected" \/ ~ Good(2 * m + 1, args)
        BY <2>2, <2>4, <2>5, <3>2
      <4>2. r[m] = Rejected
        BY <2>1, <2>2, <2>3, <4>1, OptionIs
      <4> QED BY <3>2, <4>2
    <3> QED BY <3>1, <3>2
  <2> HIDE DEF Right
  <2> QED BY <2>1, <2>6
<1>5. Right(n)
  <2> HIDE DEF T
  <2>1. \A m \in 0..n : m \in T
    BY <1>1, <1>3, <1>4, UpTo
  <2>2. n \in T
    BY <1>1, <2>1
  <2> QED BY <2>2 DEF T
<1>6. r[n] \in Options
  BY <1>1, <1>2
<1>7. AsFar(r[n], args, n) => AsWritten(r[n], args)
  BY PlacesEnds DEF AsFar, AsWritten
<1> HIDE DEF n
<1> QED BY <1>2, <1>5, <1>6, <1>7, WellFormedIsGood DEF n

LEMMA ParseCliIs ==
  ASSUME NEW args \in Seq(Words)
  PROVE  /\ ParseCli(args) \in Options
         /\ Len(args) > 1 /\ args[2] \notin {"help", "--help", "-h"} =>
              IF WellFormed(args) THEN AsWritten(ParseCli(args), args)
              ELSE ParseCli(args) = Rejected
<1>1. CASE Len(args) < 2 \/ args[2] \in {"help", "--help", "-h"}
  <2>1. CASE args = <<>>
    <3>1. ParseCli(args) = NoOptions
      BY <1>1, <2>1 DEF ParseCli
    <3> QED BY <1>1, <3>1, RejectedIsOptions
  <2>2. CASE args # <<>>
    <3>1. ParseCli(args) = [NoOptions EXCEPT !.executable = args[1]]
      BY <1>1, <2>2 DEF ParseCli
    <3>2. args[1] \in Words /\ NoOptions \in Options
      BY <2>2, RejectedIsOptions
    <3>3. [NoOptions EXCEPT !.executable = args[1]] \in Options
      BY <3>2 DEF Options
    <3> QED BY <1>1, <3>1, <3>3
  <2> QED BY <2>1, <2>2
<1>2. CASE ~ (Len(args) < 2 \/ args[2] \in {"help", "--help", "-h"})
           /\ args[2] \notin {"list", "run", "worker"}
  <2>1. ParseCli(args) = Rejected /\ ~ WellFormed(args)
    BY <1>2 DEF ParseCli, WellFormed
  <2> QED BY <2>1, RejectedIsOptions
<1>3. CASE ~ (Len(args) < 2 \/ args[2] \in {"help", "--help", "-h"})
           /\ args[2] \in {"list", "run", "worker"}
  <2>1. ParseCli(args) = ParseOptions(Start(args), args)
    BY <1>3 DEF ParseCli, Start
  <2>2. Len(args) >= 2
    BY <1>3
  <2> QED BY <1>3, <2>1, <2>2, ParsesAsWritten
<1> QED BY <1>1, <1>2, <1>3

\* The last value of an option is empty or a word of the command line, and no option.
LEMMA LastValueIs ==
  ASSUME NEW args \in Seq(Words), WellFormed(args), NEW option
  PROVE  LastValue(option, args) \notin Dashed /\ LastValue(option, args) \in ToSet(args) \cup {""}
<1> DEFINE at == Places(option, args)
           n == Len(args)
<1>1. CASE at = {}
  BY <1>1, CommandLineAssumption DEF LastValue
<1>2. CASE at # {}
  <2> DEFINE k == Max(at)
  <2>1. n \in Nat /\ DOMAIN args = 1..n
    OBVIOUS
  <2>2. at \in SUBSET (1..n)
    BY <2>1 DEF Places
  <2>3. k \in at
    <3> HIDE DEF at, n
    <3> QED BY <1>2, <2>1, <2>2, MaxIsIn
  <2> HIDE DEF k
  <2>4. k \in 3..n /\ k % 2 = 1
    BY <2>3 DEF Places
  <2>5. n % 2 = 0
    BY DEF WellFormed
  <2>6. k + 1 \in 3..n /\ (k + 1) % 2 = 0
    BY <2>1, <2>4, <2>5
  <2>7. args[k + 1] \notin Dashed
    BY <2>6 DEF WellFormed
  <2>8. LastValue(option, args) = args[k + 1]
    BY <1>2 DEF LastValue, k
  <2>9. args[k + 1] \in ToSet(args)
    <3>1. k + 1 \in DOMAIN args
      BY <2>1, <2>4, <2>6
    <3> QED BY <3>1 DEF ToSet
  <2> QED BY <2>7, <2>8, <2>9
<1> QED BY <1>1, <1>2
-----------------------------------------------------------------------------
(* The program.                                                            *)

\* What a forked worker knows.
Ready ==
  /\ mpc \in {"parsed", "working"}
  /\ opts.cmd = "worker"
  /\ meant.benchmark \in ToSet(registry) /\ meant.benchmark.name = opts.workerBenchmark
  /\ meant = [solver |-> opts.solver, benchmark |-> meant.benchmark, trace |-> opts.trace]
  /\ "" \notin {opts.solver, opts.workerBenchmark, opts.trace}

CliInv ==
  /\ SelInv
  /\ opts \in Options
  /\ mpc = "start" => ~ Forked
  /\ mpc # "start" => argv \in Seq(Words) /\ opts = ParseCli(argv)
  /\ mpc # "start" /\ ~ Forked => argv \in CommandLines
  /\ mpc \in {"output", "launch"} =>
       spc = "selected" /\ opts.cmd = "run" /\ opts.solver # "" /\ ~ Forked
  /\ Forked => Ready

LEMMA CliInitInvariant == CliInit => CliInv
<1> SUFFICES ASSUME CliInit PROVE CliInv
  OBVIOUS
<1>1. SelInv
  BY SelInitInvariant DEF CliInit
<1>2. opts \in Options
  BY RejectedIsOptions DEF CliInit
<1>3. mpc = "start" /\ ~ Forked
  BY DEF CliInit, Forked
<1> QED BY <1>1, <1>2, <1>3 DEF CliInv

LEMMA SelectedAreRegistered ==
  ASSUME SelInv, spc = "selected", NEW b \in ToSet(selection)
  PROVE  b \in ToSet(registry) /\ b \in Linked
<1>1. PICK list \in Seq(Linked) :
        /\ list = IF filter.names = <<>> THEN registry ELSE Named(filter.names)
        /\ selection \in Seq(Linked)
        /\ Listed(selection, list, {k \in DOMAIN list : Matches(list[k], filter.tags)})
  BY SelectionIsListed
<1>2. b \in ToSet(list)
  BY <1>1 DEF Listed, ToSet
<1>3. ToSet(list) \subseteq ToSet(registry)
  <2>1. CASE filter.names = <<>>
    BY <1>1, <2>1
  <2>2. CASE filter.names # <<>>
    <3>1. \A name \in ToSet(filter.names) : Known(name)
      BY DEF SelInv
    <3>2. filter.names \in Seq(Words) /\ DOMAIN filter.names = 1..Len(filter.names)
      BY DEF SelInv
    <3>3. list = [k \in 1..Len(filter.names) |-> Find(filter.names[k])]
      BY <1>1, <2>2 DEF Named
    <3>4. \A k \in 1..Len(filter.names) : filter.names[k] \in ToSet(filter.names)
      BY <3>2 DEF ToSet
    <3>5. \A k \in 1..Len(filter.names) : Find(filter.names[k]) \in ToSet(registry)
      BY <3>1, <3>4, FindIs
    <3> QED BY <3>3, <3>5 DEF ToSet
  <2> QED BY <2>1, <2>2
<1>4. b \in Linked
  BY <1>1 DEF ToSet
<1> QED BY <1>2, <1>3, <1>4

LEMMA TraceOfIs ==
  ASSUME CliInv, mpc = "launch", NEW b \in Linked
  PROVE  /\ opts.solver \notin Dashed \cup {""} /\ opts.solver \in Words
         /\ TraceOf(b) \in Words /\ TraceOf(b) \notin Dashed \cup {""}
<1>1. /\ argv \in Seq(Words) /\ opts = ParseCli(argv) /\ argv \in CommandLines
      /\ opts.cmd = "run" /\ opts.solver # "" /\ opts \in Options
  BY DEF CliInv
<1>2. AsWritten(opts, argv) /\ WellFormed(argv)
  <2>1. opts.cmd # "rejected" /\ opts.cmd # "help"
    BY <1>1
  <2>2. Rejected.cmd = "rejected"
    BY DEF Rejected, NoOptions
  <2>3. Len(argv) > 1 /\ argv[2] \notin {"help", "--help", "-h"}
    <3>1. argv \in Seq(Words) => Len(argv) \in Nat
      OBVIOUS
    <3>2. ASSUME Len(argv) < 2 \/ argv[2] \in {"help", "--help", "-h"} PROVE FALSE
      <4>1. ParseCli(argv).cmd = "help"
        BY <3>2 DEF ParseCli, NoOptions
      <4> QED BY <1>1, <2>1, <4>1
    <3>3. argv \in Seq(Words)
      BY <1>1
    <3>4. Len(argv) \in Nat
      BY <3>1, <3>3
    <3>5. ~ (Len(argv) < 2) /\ argv[2] \notin {"help", "--help", "-h"}
      BY <3>2
    <3> QED BY <3>4, <3>5
  <2> QED BY <1>1, <2>1, <2>2, <2>3, ParseCliIs
<1>3. ASSUME NEW value \in {opts.solver, opts.outputDir, opts.trace}
      PROVE  value \notin Dashed /\ value \in ToSet(argv) \cup {""}
  <2>1. PICK option \in {"--solver", "--output-dir", "--trace-out"} :
          value = LastValue(option, argv)
    BY <1>2, <1>3 DEF AsWritten
  <2> QED BY <1>1, <1>2, <2>1, LastValueIs
<1>4. opts.solver \in Words /\ opts.trace \in Words
  BY <1>1 DEF Options
<1>5. CASE SingleTrace
  BY <1>1, <1>3, <1>4, <1>5 DEF TraceOf, SingleTrace
<1>6. CASE ~ SingleTrace
  <2> DEFINE dir == IF opts.outputDir = "" THEN DefaultDir ELSE opts.outputDir
             given == UNION {ToSet(args) : args \in CommandLines}
  <2>1. ToSet(argv) \subseteq given
    BY <1>1
  <2>2. DefaultDir \notin Dashed \cup {""}
    BY CommandLineAssumption
  <2>3. Directories = (given \cup {DefaultDir}) \ (Dashed \cup {""})
    BY DEF Directories
  <2> HIDE DEF given
  <2>4. dir \in Directories
    <3>1. CASE opts.outputDir = ""
      <4>1. dir = DefaultDir
        BY <3>1
      <4> HIDE DEF dir
      <4> QED BY <2>2, <2>3, <4>1
    <3>2. CASE opts.outputDir # ""
      <4>1. dir = opts.outputDir /\ dir \notin Dashed \cup {""} /\ dir \in ToSet(argv)
        BY <1>3, <3>2
      <4> HIDE DEF dir
      <4> QED BY <2>1, <2>3, <4>1
    <3> QED BY <3>1, <3>2
  <2>5. TraceOf(b) = TraceFile(dir, b.name)
    BY <1>6 DEF TraceOf
  <2> HIDE DEF dir
  <2>6. TraceFile(dir, b.name) \in STRING \ (Dashed \cup {""})
    BY <2>4, CommandLineAssumption
  <2> QED BY <1>1, <1>3, <1>4, <2>5, <2>6 DEF Words
<1> QED BY <1>5, <1>6

Vector(executable, solver, name, trace) ==
  <<executable, "worker", "--solver", solver, "--worker-benchmark", name, "--trace-out", trace>>

Understood(o, solver, name, trace) ==
  /\ o \in Options /\ o.cmd = "worker"
  /\ o.solver = solver /\ o.workerBenchmark = name /\ o.trace = trace

\* An argument vector of run_child is parsed to what it was made of.
LEMMA WorkerArgsParse ==
  ASSUME NEW executable \in Words, NEW solver \in Words \ Dashed, NEW name \in Words \ Dashed,
         NEW trace \in Words \ Dashed
  PROVE  /\ Vector(executable, solver, name, trace) \in Seq(Words)
         /\ Understood(ParseCli(Vector(executable, solver, name, trace)), solver, name, trace)
<1> DEFINE args == Vector(executable, solver, name, trace)
<1>1. /\ Len(args) = 8 /\ args[2] = "worker" /\ args[3] = "--solver" /\ args[4] = solver
      /\ args[5] = "--worker-benchmark" /\ args[6] = name /\ args[7] = "--trace-out"
      /\ args[8] = trace
  BY DEF Vector
<1>2. args \in Seq(Words)
  <2>1. /\ "worker" \in Words /\ "--solver" \in Words /\ "--worker-benchmark" \in Words
        /\ "--trace-out" \in Words
    BY DEF Words
  <2> QED BY <2>1 DEF Vector
<1> HIDE DEF args
<1>3. \A k \in 3..8 : \/ k \in {3, 5, 7} /\ k % 2 = 1
                      \/ k \in {4, 6, 8} /\ k % 2 = 0
  OBVIOUS
<1>4. \A option : Places(option, args) = {k \in {3, 5, 7} : args[k] = option}
  BY <1>1, <1>3 DEF Places
<1>5. /\ Places("--solver", args) = {3} /\ Places("--worker-benchmark", args) = {5}
      /\ Places("--trace-out", args) = {7} /\ Places("--timeout-seconds", args) = {}
  BY <1>1, <1>4
<1>6. Max({3}) = 3 /\ Max({5}) = 5 /\ Max({7}) = 7
  BY DEF Max
<1>7. /\ LastValue("--solver", args) = solver /\ LastValue("--worker-benchmark", args) = name
      /\ LastValue("--trace-out", args) = trace
  <2>1. LastValue("--solver", args) = args[3 + 1]
    BY <1>5, <1>6 DEF LastValue
  <2>2. LastValue("--worker-benchmark", args) = args[5 + 1]
    BY <1>5, <1>6 DEF LastValue
  <2>3. LastValue("--trace-out", args) = args[7 + 1]
    BY <1>5, <1>6 DEF LastValue
  <2>4. 3 + 1 = 4 /\ 5 + 1 = 6 /\ 7 + 1 = 8
    OBVIOUS
  <2> QED BY <1>1, <2>1, <2>2, <2>3, <2>4
<1>8. WellFormed(args)
  <2>1. args[2] \in {"list", "run", "worker"}
    BY <1>1
  <2>2. Len(args) % 2 = 0
    BY <1>1
  <2>3. \A k \in {4, 6, 8} : args[k] \notin Dashed
    BY <1>1
  <2>4. \A k \in {3, 5, 7} : args[k] \in OptionNames
    BY <1>1 DEF OptionNames
  <2>5. \A k \in 3..Len(args) : IF k % 2 = 0 THEN args[k] \notin Dashed ELSE args[k] \in OptionNames
    BY <1>1, <1>3, <2>3, <2>4
  <2>6. \A k \in Places("--timeout-seconds", args) : Accepted(args[k + 1])
    BY <1>5
  <2> QED BY <2>1, <2>2, <2>5, <2>6 DEF WellFormed
<1>9. AsWritten(ParseCli(args), args) /\ ParseCli(args) \in Options
  <2>1. Len(args) > 1 /\ args[2] \notin {"help", "--help", "-h"}
    BY <1>1
  <2> QED BY <1>2, <1>8, <2>1, ParseCliIs
<1>10. Understood(ParseCli(args), solver, name, trace)
  BY <1>1, <1>7, <1>9 DEF AsWritten, Understood
<1> QED BY <1>2, <1>10 DEF args

LEMMA SeqOfMore ==
  ASSUME NEW S, NEW T, S \subseteq T, NEW s \in Seq(S)
  PROVE  s \in Seq(T)
OBVIOUS

LEMMA ParseKeeps ==
  ASSUME CliInv, NEW args \in CommandLines, Parse(args)
  PROVE  CliInv'
<1>1. mpc = "start" /\ argv' = args /\ opts' = ParseCli(args) /\ UNCHANGED <<selVars, meant>>
  BY DEF Parse
<1>2. mpc' \in {"exited", "parsed"}
  BY Zenon DEF Parse, Exit
<1>3. args \in Seq(Words)
  <2>1. args \in Seq(STRING)
    BY CommandLineAssumption
  <2>2. STRING \subseteq Words
    BY DEF Words
  <2> QED BY <2>1, <2>2, SeqOfMore
<1>4. SelInv'
  BY <1>1 DEF CliInv, SelInv, selVars, Known, Found, Named, Find
<1>5. opts' \in Options
  BY <1>1, <1>3, ParseCliIs
<1>6. ~ Forked'
  BY <1>1 DEF CliInv, Forked
<1> QED BY <1>1, <1>2, <1>3, <1>4, <1>5, <1>6 DEF CliInv

LEMMA ListOrRunKeeps ==
  ASSUME CliInv, ListOrRun
  PROVE  CliInv'
<1>1. /\ mpc = "parsed" /\ opts.cmd \in {"list", "run"} /\ (opts.cmd = "run" => opts.solver # "")
      /\ SelectBenchmarks([names |-> opts.names, tags |-> opts.tags])
      /\ UNCHANGED <<argv, opts, meant>>
  BY DEF ListOrRun
<1>2. mpc' \in {"exited", "output"} /\ (mpc' = "output" => spc' # "error" /\ opts.cmd # "list")
  BY Zenon DEF ListOrRun, Exit
<1>3. opts.names \in Seq(Words)
  BY DEF CliInv, Options
<1>4. SelInv' /\ spc' \in {"selected", "error"}
  <2> DEFINE f == [names |-> opts.names, tags |-> opts.tags]
  <2>1. f.names \in Seq(Words) /\ SelectBenchmarks(f)
    BY <1>1, <1>3
  <2> HIDE DEF f
  <2> QED BY <2>1, SelectKeeps DEF CliInv
<1>5. ~ Forked /\ ~ Forked'
  BY <1>1 DEF CliInv, Ready, Forked
<1> QED BY <1>1, <1>2, <1>4, <1>5 DEF CliInv

LEMMA LaunchKeeps ==
  ASSUME CliInv, NEW b \in ToSet(selection), Launch(b)
  PROVE  CliInv'
<1>1. /\ mpc = "launch" /\ argv' = WorkerArgs(b) /\ opts' = ParseCli(argv')
      /\ (IF opts'.cmd = "rejected" THEN Exit(2) ELSE mpc' = "parsed" /\ UNCHANGED status)
      /\ meant' = [solver |-> opts.solver, benchmark |-> b, trace |-> TraceOf(b)]
      /\ spc' = "static" /\ filter' = NoFilter /\ selection' = <<>>
      /\ UNCHANGED <<pending, registry>>
  BY DEF Launch
<1>2. spc = "selected" /\ SelInv /\ opts \in Options
  BY <1>1 DEF CliInv
<1>3. b \in ToSet(registry) /\ b \in Linked
  BY <1>2, SelectedAreRegistered
<1>4. /\ opts.solver \notin Dashed \cup {""} /\ opts.solver \in Words
      /\ TraceOf(b) \in Words /\ TraceOf(b) \notin Dashed \cup {""}
  BY <1>1, <1>3, TraceOfIs
<1>5. b.name \in Words /\ b.name \notin Dashed \cup {""}
  BY <1>3, CommandLineAssumption DEF Words
<1>6. opts.executable \in Words
  BY <1>2 DEF Options
<1>7. /\ argv' \in Seq(Words) /\ opts' \in Options
      /\ opts'.cmd = "worker" /\ opts'.solver = opts.solver
      /\ opts'.workerBenchmark = b.name /\ opts'.trace = TraceOf(b)
  <2> DEFINE args == WorkerArgs(b)
             trace == TraceOf(b)
             name == b.name
             solver == opts.solver
             executable == opts.executable
  <2>1. args = Vector(executable, solver, name, trace)
    BY DEF WorkerArgs, Vector
  <2>2. /\ executable \in Words /\ solver \in Words \ Dashed /\ name \in Words \ Dashed
        /\ trace \in Words \ Dashed
    BY <1>4, <1>5, <1>6
  <2>3. argv' = args /\ opts' = ParseCli(args)
    BY <1>1
  <2> HIDE DEF args, trace, name, solver, executable
  <2>4. args \in Seq(Words) /\ Understood(ParseCli(args), solver, name, trace)
    BY <2>1, <2>2, WorkerArgsParse
  <2> QED BY <2>3, <2>4 DEF trace, name, solver, Understood
<1>8. mpc' = "parsed"
  BY <1>1, <1>7
<1>9. SelInv'
  <2>1. <<>> \in Seq(Words)
    OBVIOUS
  <2>2. filter'.names \in Seq(Words)
    BY <1>1, <2>1 DEF NoFilter
  <2> QED BY <1>1, <1>2, <2>2 DEF SelInv
<1>10. Forked' /\ Ready'
  <2>1. ToSet(registry)' = ToSet(registry)
    BY <1>1 DEF ToSet
  <2>2. meant'.benchmark = b /\ meant'.solver # ""
    BY <1>1, <1>4
  <2>3. meant' # NothingMeant
    <3>1. NothingMeant.solver = ""
      BY DEF NothingMeant
    <3> QED BY <2>2, <3>1
  <2>4. meant' = [solver |-> opts'.solver, benchmark |-> meant'.benchmark, trace |-> opts'.trace]
    BY <1>1, <1>7, <2>2
  <2>5. "" \notin {opts'.solver, opts'.workerBenchmark, opts'.trace}
    BY <1>4, <1>5, <1>7
  <2> QED BY <1>3, <1>7, <1>8, <2>1, <2>2, <2>3, <2>4, <2>5 DEF Ready, Forked
<1> QED BY <1>1, <1>7, <1>8, <1>9, <1>10 DEF CliInv

LEMMA RestKeeps ==
  ASSUME CliInv, ChooseOutput \/ RunNeedsSolver \/ RunWorker \/ CliEnded \/ UNCHANGED allVars
  PROVE  CliInv'
<1>1. UNCHANGED <<selVars, argv, opts, meant>>
  BY DEF ChooseOutput, RunNeedsSolver, RunWorker, CliEnded, allVars, cliVars
<1>2. SelInv'
  BY <1>1 DEF CliInv, SelInv, selVars, Known, Found, Named, Find
<1>3. mpc' # "start" => mpc # "start"
  BY DEF ChooseOutput, RunNeedsSolver, RunWorker, CliEnded, allVars, cliVars
<1>4. mpc' = "start" => ~ Forked
  <2>1. mpc' = "start" => mpc = "start"
    BY DEF ChooseOutput, RunNeedsSolver, RunWorker, CliEnded, allVars, cliVars, Exit
  <2> QED BY <2>1 DEF CliInv
<1>5. mpc' \in {"output", "launch"} => mpc \in {"output", "launch"}
  BY DEF ChooseOutput, RunNeedsSolver, RunWorker, CliEnded, allVars, cliVars, Exit
<1>6. ASSUME Forked PROVE Ready'
  <2>1. Ready
    BY <1>6 DEF CliInv
  <2>2. mpc' \in {"parsed", "working"}
    <3>1. CASE ChooseOutput \/ RunNeedsSolver
      BY <2>1, <3>1 DEF Ready, ChooseOutput, RunNeedsSolver
    <3>2. CASE RunWorker
      <4>1. Known(opts.workerBenchmark)
        BY <2>1 DEF Ready, Known, Found, ToSet
      <4> QED BY <2>1, <3>2, <4>1 DEF Ready, RunWorker
    <3>3. CASE CliEnded \/ UNCHANGED allVars
      BY <2>1, <3>3 DEF Ready, CliEnded, allVars, cliVars
    <3> QED BY <3>1, <3>2, <3>3
  <2>3. ToSet(registry)' = ToSet(registry)
    BY <1>1 DEF ToSet, selVars
  <2> QED BY <1>1, <2>1, <2>2, <2>3 DEF Ready
<1>7. Forked' <=> Forked
  BY <1>1 DEF Forked
<1>8. spc' = spc
  BY <1>1 DEF selVars
<1> QED BY <1>1, <1>2, <1>3, <1>4, <1>5, <1>6, <1>7, <1>8 DEF CliInv

LEMMA CliNextInvariant == CliInv /\ [CliNext]_allVars => CliInv'
<1> SUFFICES ASSUME CliInv, [CliNext]_allVars PROVE CliInv'
  OBVIOUS
<1>1. ASSUME mpc = "start", NEW b \in Linked, Register(b), UNCHANGED cliVars PROVE CliInv'
  <2>1. SelInv'
    BY <1>1, RegisterKeeps DEF CliInv
  <2>2. ~ Forked' /\ mpc' = "start"
    BY <1>1 DEF CliInv, cliVars, Forked
  <2> QED BY <1>1, <2>1, <2>2 DEF CliInv, cliVars
<1>2. ASSUME NEW args \in CommandLines, Parse(args) PROVE CliInv'
  BY <1>2, ParseKeeps
<1>3. ASSUME ListOrRun PROVE CliInv'
  BY <1>3, ListOrRunKeeps
<1>4. ASSUME NEW b \in ToSet(selection), Launch(b) PROVE CliInv'
  BY <1>4, LaunchKeeps
<1>5. ASSUME ChooseOutput \/ RunNeedsSolver \/ RunWorker \/ CliEnded \/ UNCHANGED allVars
      PROVE  CliInv'
  BY <1>5, RestKeeps
<1> QED BY <1>1, <1>2, <1>3, <1>4, <1>5 DEF CliNext

\* The registry, the selection, the options and what a worker knows of its parent.
THEOREM CliInvariance == CliSpec => []CliInv
BY CliInitInvariant, CliNextInvariant, PTL DEF CliSpec

\* select_benchmarks: a benchmark is selected exactly if it is linked in, named if
\* names are given, and has all the tags; as often as it is named, or once.
THEOREM SelectionIsAlwaysExact == CliSpec => []SelectionExact
<1>1. CliInv => SelectionExact
  BY SelectionIsExact DEF CliInv
<1> QED BY <1>1, CliInvariance, PTL

\* Named benchmarks are run in the order in which they are named.
THEOREM OrderIsAlwaysKept == CliSpec => []OrderKept
<1>1. CliInv => OrderKept
  BY OrderIsKept DEF CliInv
<1> QED BY <1>1, CliInvariance, PTL

\* parse_cli makes of an argument vector what it says, or refuses it as a whole.
THEOREM AlwaysParsedAsWritten == CliSpec => []ParsedAsWritten
<1>1. CliInv => ParsedAsWritten
  BY ParseCliIs DEF CliInv, ParsedAsWritten
<1> QED BY <1>1, CliInvariance, PTL

\* A worker accepts its arguments and understands by them the solver, the benchmark
\* and the trace file that run_child meant.
THEOREM WorkerAlwaysGetsWhatWasMeant == CliSpec => []WorkerGetsWhatWasMeant
<1>1. CliInv => WorkerGetsWhatWasMeant
  <2> SUFFICES ASSUME CliInv, Forked, mpc # "parsed"
               PROVE  /\ mpc = "working"
                      /\ meant = [solver |-> opts.solver, benchmark |-> Find(opts.workerBenchmark),
                                  trace |-> opts.trace]
    BY DEF WorkerGetsWhatWasMeant
  <2>1. Ready /\ SelInv
    BY DEF CliInv
  <2> DEFINE name == opts.workerBenchmark
             b == meant.benchmark
  <2>2. b \in ToSet(registry) /\ b.name = name
    BY <2>1 DEF Ready
  <2> HIDE DEF name, b
  <2>3. Known(name)
    BY <2>2 DEF Known, Found, ToSet
  <2>4. b = Find(name)
    BY <2>1, <2>2, <2>3, FindIs
  <2> QED BY <2>1, <2>4 DEF Ready, name, b
<1> QED BY <1>1, CliInvariance, PTL
=============================================================================
