----------------------------- MODULE FoldProofs -----------------------------
(***************************************************************************)
(* Induction over data, for the proofs about loops, folds and reachability *)
(* in the other modules.  The provers cannot instantiate a lemma that is   *)
(* about an operator, so each of these is about a set or a function; they  *)
(* all rest on the well-foundedness of the finite subsets of a set.        *)
(***************************************************************************)
EXTENDS Integers, SequencesExt, FiniteSetTheorems, TLAPS

\* A family of subsets of a finite set has a smallest member.
LEMMA SmallestSubset ==
  ASSUME NEW S, IsFiniteSet(S), NEW F, F \subseteq SUBSET S, F # {}
  PROVE  \E x \in F : \A y \in F : y \subseteq x => y = x
<1>1. IsWellFoundedOn(StrictSubsetOrdering(S), SUBSET S)
  BY FS_FiniteSubsetsOfFinite, FS_StrictSubsetOrderingWellFounded
<1>2. PICK x \in F : \A y \in F : ~ (<<y, x>> \in StrictSubsetOrdering(S))
  BY <1>1, WFMin
<1> QED BY <1>2 DEF StrictSubsetOrdering

\* Induction up to n, on the set of the numbers for which a statement holds.
LEMMA UpTo ==
  ASSUME NEW n \in Nat, NEW T, 0 \in T, \A m \in 1..n : m - 1 \in T => m \in T
  PROVE  \A m \in 0..n : m \in T
<1> DEFINE F == {0..m : m \in {k \in 0..n : k \notin T}}
<1>1. SUFFICES ASSUME F # {} PROVE FALSE
  OBVIOUS
<1>2. F \subseteq SUBSET (0..n)
  OBVIOUS
<1>3. PICK x \in F : \A y \in F : y \subseteq x => y = x
  <2> DEFINE S == 0..n
  <2>1. IsFiniteSet(S)
    BY FS_Interval
  <2>2. F \subseteq SUBSET S
    BY <1>2
  <2> HIDE DEF F, S
  <2> QED BY <1>1, <2>1, <2>2, SmallestSubset
<1>4. PICK m \in 0..n : m \notin T /\ x = 0..m
  OBVIOUS
<1>5. m # 0 /\ m - 1 \in 0..n /\ m - 1 \notin T
  BY <1>4
<1>6. 0..(m - 1) \in F /\ 0..(m - 1) \subseteq x /\ m \in x /\ m \notin 0..(m - 1)
  BY <1>4, <1>5
<1> QED BY <1>3, <1>6

\* A set of numbers has a least one.
LEMMA LeastNumber ==
  ASSUME NEW T \in SUBSET Nat, T # {}
  PROVE  \E n \in T : \A m \in T : n <= m
<1>1. PICK n \in T : TRUE
  OBVIOUS
<1> DEFINE U == {m \in 0..n : \A k \in 0..m : k \notin T}
<1>2. SUFFICES ASSUME \A k \in T : \E m \in T : m < k PROVE FALSE
  OBVIOUS
<1>3. 0 \in U
  BY <1>2
<1>4. \A m \in 1..n : m - 1 \in U => m \in U
  BY <1>2
<1>5. \A m \in 0..n : m \in U
  <2> HIDE DEF U
  <2> QED BY <1>3, <1>4, UpTo
<1> QED BY <1>1, <1>5

\* A nonempty set of indices has a greatest one.
LEMMA MaxIsIn ==
  ASSUME NEW n \in Nat, NEW s \in SUBSET (1..n), s # {}
  PROVE  Max(s) \in s /\ \A y \in s : y <= Max(s)
<1> DEFINE T == {m \in 0..n : \A y \in s : y <= n - m}
<1>1. SUFFICES \E x \in s : \A y \in s : x >= y
  BY DEF Max
<1>2. SUFFICES ASSUME \A x \in s : \E y \in s : ~ (x >= y) PROVE FALSE
  OBVIOUS
<1>3. 0 \in T
  OBVIOUS
<1>4. \A m \in 1..n : m - 1 \in T => m \in T
  <2> SUFFICES ASSUME NEW m \in 1..n, m - 1 \in T PROVE m \in T
    OBVIOUS
  <2>1. \A y \in s : y \in Int /\ y <= n - (m - 1)
    OBVIOUS
  <2>2. n - (m - 1) \notin s
    BY <1>2, <2>1
  <2>3. \A y \in s : y <= n - m
    BY <2>1, <2>2
  <2> QED BY <2>3
<1>5. n \in T
  <2> HIDE DEF T
  <2> QED BY <1>3, <1>4, UpTo
<1>6. PICK y \in s : TRUE
  OBVIOUS
<1>7. y \in Int /\ 1 <= y /\ y <= n - n
  BY <1>5, <1>6
<1> QED BY <1>7

LEMMA MaxUpTo ==
  ASSUME NEW n \in Nat, NEW m \in 1..n, NEW s \in SUBSET (1..m), m \in s
  PROVE  Max(s) = m
<1>1. s \in SUBSET (1..n) /\ s # {}
  OBVIOUS
<1>2. Max(s) \in s /\ \A y \in s : y <= Max(s)
  BY <1>1, MaxIsIn
<1>3. Max(s) \in 1..m
  BY <1>2
<1>4. m <= Max(s)
  BY <1>2
<1> QED BY <1>3, <1>4
-----------------------------------------------------------------------------
(* Folds.                                                                  *)

\* The equation of MapThenFoldSet over the indices 1..n, from the last one down.
Folds(f, base, step, n) ==
  f = [s \in SUBSET (1..n) |->
         IF s = {} THEN base ELSE step[<<f[s \ {Max(s)}], Max(s)>>]]

\* There is a function that satisfies it: the recursion ends.
LEMMA FoldExists ==
  ASSUME NEW V, NEW base \in V, NEW n \in Nat, NEW step \in [V \X (1..n) -> V]
  PROVE  \E f \in [SUBSET (1..n) -> V] : Folds(f, base, step, n)
<1> DEFINE T == {m \in 0..n : \E f \in [SUBSET (1..m) -> V] : Folds(f, base, step, m)}
<1>1. 0 \in T
  <2> DEFINE f == [s \in SUBSET (1..0) |-> base]
  <2>1. SUBSET (1..0) = {{}}
    OBVIOUS
  <2>2. f \in [SUBSET (1..0) -> V] /\ Folds(f, base, step, 0)
    BY <2>1 DEF Folds
  <2> QED BY <2>2
<1>2. ASSUME NEW m \in 1..n, m - 1 \in T PROVE m \in T
  <2>1. PICK g \in [SUBSET (1..(m - 1)) -> V] : Folds(g, base, step, m - 1)
    BY <1>2
  <2> DEFINE f == [s \in SUBSET (1..m) |->
                     IF m \in s THEN step[<<g[s \ {m}], m>>] ELSE g[s]]
  <2>2. ASSUME NEW s \in SUBSET (1..m)
        PROVE  /\ m \notin s => s \in SUBSET (1..(m - 1))
               /\ s \ {m} \in SUBSET (1..(m - 1))
               /\ s # {} => Max(s) \in s /\ Max(s) \in 1..m
               /\ m \in s => Max(s) = m
    <3>1. m \in Nat /\ \A y \in s : y \in 1..m
      OBVIOUS
    <3>2. \A y \in s : y # m => y \in 1..(m - 1)
      BY <3>1
    <3>3. s # {} => Max(s) \in s
      BY <3>1, MaxIsIn
    <3>4. m \in s => Max(s) = m
      BY <3>1, MaxUpTo
    <3> QED BY <3>1, <3>2, <3>3, <3>4
  <2>3. f \in [SUBSET (1..m) -> V]
    BY <2>2
  <2>4. ASSUME NEW s \in SUBSET (1..m)
        PROVE  f[s] = IF s = {} THEN base ELSE step[<<f[s \ {Max(s)}], Max(s)>>]
    <3>1. CASE m \in s
      <4>1. s # {} /\ Max(s) = m /\ m \notin s \ {m} /\ s \ {m} \in SUBSET (1..m)
        BY <3>1, <2>2
      <4> QED BY <3>1, <4>1, <2>2
    <3>2. CASE m \notin s
      <4>1. s \in SUBSET (1..(m - 1)) /\ f[s] = g[s]
        BY <3>2, <2>2
      <4>2. s # {} => /\ s \ {Max(s)} \in SUBSET (1..m) /\ m \notin s \ {Max(s)}
                      /\ f[s \ {Max(s)}] = g[s \ {Max(s)}]
        BY <3>2
      <4>3. g[s] = IF s = {} THEN base ELSE step[<<g[s \ {Max(s)}], Max(s)>>]
        BY <2>1, <4>1 DEF Folds
      <4> QED BY <4>1, <4>2, <4>3
    <3> QED BY <3>1, <3>2
  <2>5. Folds(f, base, step, m)
    <3> HIDE DEF f
    <3> QED BY <2>3, <2>4 DEF Folds
  <2>6. \E h \in [SUBSET (1..m) -> V] : Folds(h, base, step, m)
    <3> HIDE DEF f
    <3> QED BY <2>3, <2>5
  <2> QED BY <2>6
<1>3. n \in T
  <2> HIDE DEF T
  <2> QED BY <1>1, <1>2, UpTo
<1> QED BY <1>3

\* What the fold takes away from the first m indices.
LEMMA LastIndex ==
  ASSUME NEW m \in Nat \ {0}
  PROVE  Max(1..m) = m /\ (1..m) \ {m} = 1..(m - 1)
<1>1. Max(1..m) = m
  BY MaxUpTo
<1>2. \A i : i \in (1..m) \ {m} <=> i \in 1..(m - 1)
  OBVIOUS
<1> QED BY <1>1, <1>2
\* The same from the first index up, as a loop runs.
Steps(r, base, step, n) ==
  /\ r[0] = base
  /\ \A m \in 1..n : r[m] = step[<<r[m - 1], m>>]

\* The steps lead to v.
Outcome(V, base, step, n, v) == \E r \in [0..n -> V] : Steps(r, base, step, n) /\ r[n] = v

\* f is a fold with an operator that agrees with step on V; of what the operator does
\* with other arguments nothing is said.
Agrees(f, V, base, step, n) ==
  /\ f[{}] = base
  /\ \A s \in SUBSET (1..n) :
       s # {} /\ f[s \ {Max(s)}] \in V => f[s] = step[<<f[s \ {Max(s)}], Max(s)>>]

LEMMA FoldSteps ==
  ASSUME NEW V, NEW base \in V, NEW n \in Nat, NEW step \in [V \X (1..n) -> V],
         NEW f, Agrees(f, V, base, step, n)
  PROVE  Outcome(V, base, step, n, f[1..n])
<1> DEFINE r == [m \in 0..n |-> f[1..m]]
           T == {m \in 0..n : r[m] \in V}
<1>1. r[0] = base
  <2>1. 1..0 = {}
    OBVIOUS
  <2> QED BY <2>1 DEF Agrees
<1>2. ASSUME NEW m \in 1..n, r[m - 1] \in V
      PROVE  r[m] = step[<<r[m - 1], m>>] /\ r[m] \in V
  <2>1. m \in Nat \ {0} /\ 1..m \in SUBSET (1..n) /\ 1..m # {} /\ m - 1 \in 0..n /\ m \in 0..n
    OBVIOUS
  <2>2. Max(1..m) = m /\ (1..m) \ {m} = 1..(m - 1)
    BY <2>1, LastIndex
  <2>3. r[m - 1] = f[1..(m - 1)] /\ r[m] = f[1..m]
    BY <2>1
  <2> HIDE DEF r
  <2>4. r[m] = step[<<r[m - 1], m>>]
    BY <1>2, <2>1, <2>2, <2>3 DEF Agrees
  <2> QED BY <1>2, <2>4
<1>3. \A m \in 0..n : m \in T
  <2>1. 0 \in T
    BY <1>1
  <2>2. ASSUME NEW m \in 1..n, m - 1 \in T PROVE m \in T
    <3>1. r[m - 1] \in V /\ m \in 0..n
      BY <2>2
    <3>2. r[m] \in V
      BY <1>2, <3>1
    <3> QED BY <3>1, <3>2
  <2> HIDE DEF T
  <2> QED BY <2>1, <2>2, UpTo
<1>4. r \in [0..n -> V] /\ r[n] = f[1..n]
  BY <1>3
<1>5. ASSUME NEW m \in 1..n PROVE r[m] = step[<<r[m - 1], m>>]
  <2>1. m - 1 \in T
    BY <1>3
  <2>2. r[m - 1] \in V
    BY <2>1
  <2> QED BY <1>2, <2>2
<1> HIDE DEF r
<1> QED BY <1>1, <1>4, <1>5 DEF Steps, Outcome

\* The steps determine the outcome.
LEMMA StepsUnique ==
  ASSUME NEW n \in Nat, NEW base, NEW step, NEW r, NEW q,
         Steps(r, base, step, n), Steps(q, base, step, n)
  PROVE  \A m \in 0..n : r[m] = q[m]
<1> DEFINE T == {m \in 0..n : r[m] = q[m]}
<1>1. 0 \in T
  BY DEF Steps
<1>2. ASSUME NEW m \in 1..n, m - 1 \in T PROVE m \in T
  <2>1. r[m - 1] = q[m - 1] /\ m \in 0..n
    BY <1>2
  <2>2. r[m] = q[m]
    BY <2>1 DEF Steps
  <2> QED BY <2>1, <2>2
<1>3. \A m \in 0..n : m \in T
  <2> HIDE DEF T
  <2> QED BY <1>1, <1>2, UpTo
<1> QED BY <1>3

LEMMA OutcomeUnique ==
  ASSUME NEW V, NEW n \in Nat, NEW base, NEW step, NEW u, NEW v,
         Outcome(V, base, step, n, u), Outcome(V, base, step, n, v)
  PROVE  u = v /\ u \in V
<1>1. PICK r \in [0..n -> V] : Steps(r, base, step, n) /\ r[n] = u
  BY DEF Outcome
<1>2. PICK q \in [0..n -> V] : Steps(q, base, step, n) /\ q[n] = v
  BY DEF Outcome
<1>3. r[n] = q[n]
  BY <1>1, <1>2, StepsUnique
<1> QED BY <1>1, <1>2, <1>3
-----------------------------------------------------------------------------
(* Sums of zeros and ones.                                                 *)

Ones(w, s) == Cardinality({x \in s : w[x] = 1})

\* The equation of MapThenSumSet.
Sums(f, w, S) ==
  f = [s \in SUBSET S |->
         IF s = {} THEN 0
         ELSE w[CHOOSE x \in s : TRUE] + f[s \ {CHOOSE x \in s : TRUE}]]

LEMMA OnesOf ==
  ASSUME NEW S, IsFiniteSet(S), NEW w \in [S -> {0, 1}], NEW s \in SUBSET S, NEW x \in s
  PROVE  Ones(w, s) = w[x] + Ones(w, s \ {x}) /\ Ones(w, s) \in Nat /\ Ones(w, {}) = 0
<1> DEFINE C == {y \in s : w[y] = 1}
           B == {y \in s \ {x} : w[y] = 1}
<1>1. IsFiniteSet(B) /\ IsFiniteSet(C)
  BY FS_Subset
<1>2. C = IF w[x] = 1 THEN B \cup {x} ELSE B
  OBVIOUS
<1>3. x \notin B /\ w[x] \in {0, 1}
  OBVIOUS
<1>4. Ones(w, {}) = 0
  <2>1. {y \in {} : w[y] = 1} = {}
    OBVIOUS
  <2> QED BY <2>1, FS_EmptySet DEF Ones
<1>5. Ones(w, s) = Cardinality(C) /\ Ones(w, s \ {x}) = Cardinality(B)
  BY DEF Ones
<1> HIDE DEF B, C
<1>6. Cardinality(B) \in Nat /\ Cardinality(C) \in Nat
  BY <1>1, FS_CardinalityType
<1>7. Cardinality(C) = w[x] + Cardinality(B)
  <2>1. CASE w[x] = 1
    <3>1. Cardinality(B \cup {x}) = Cardinality(B) + 1
      BY <1>1, <1>3, FS_AddElement
    <3> QED BY <1>2, <1>6, <2>1, <3>1
  <2>2. CASE w[x] = 0
    BY <1>2, <1>6, <2>2
  <2> QED BY <1>3, <2>1, <2>2
<1> QED BY <1>4, <1>5, <1>6, <1>7

\* There is a function that satisfies the equation, and it counts the ones.
LEMMA SumExists ==
  ASSUME NEW S, IsFiniteSet(S), NEW w \in [S -> {0, 1}]
  PROVE  \E f : Sums(f, w, S)
<1> DEFINE f == [s \in SUBSET S |-> Ones(w, s)]
<1>1. ASSUME NEW s \in SUBSET S
      PROVE  f[s] = IF s = {} THEN 0
                    ELSE w[CHOOSE x \in s : TRUE] + f[s \ {CHOOSE x \in s : TRUE}]
  <2>1. CASE s = {}
    <3>1. {y \in {} : w[y] = 1} = {}
      OBVIOUS
    <3> QED BY <2>1, <3>1, FS_EmptySet DEF Ones
  <2>2. CASE s # {}
    <3> DEFINE x == CHOOSE y \in s : TRUE
    <3>1. x \in s
      BY <2>2
    <3> HIDE DEF x
    <3>2. Ones(w, s) = w[x] + Ones(w, s \ {x}) /\ s \ {x} \in SUBSET S
      BY <3>1, OnesOf
    <3> QED BY <2>2, <3>2 DEF x
  <2> QED BY <2>1, <2>2
<1>2. f = [s \in SUBSET S |->
             IF s = {} THEN 0
             ELSE w[CHOOSE x \in s : TRUE] + f[s \ {CHOOSE x \in s : TRUE}]]
  <2>1. f = [s \in SUBSET S |-> f[s]]
    OBVIOUS
  <2> HIDE DEF f
  <2> QED BY <1>1, <2>1
<1> HIDE DEF f
<1>3. Sums(f, w, S)
  BY <1>2 DEF Sums
<1> QED BY <1>3

LEMMA SumIsUnique ==
  ASSUME NEW S, IsFiniteSet(S), NEW w \in [S -> {0, 1}], NEW f, Sums(f, w, S)
  PROVE  \A s \in SUBSET S : f[s] = Ones(w, s)
<1> DEFINE F == {s \in SUBSET S : f[s] # Ones(w, s)}
<1>1. SUFFICES ASSUME F # {} PROVE FALSE
  OBVIOUS
<1>2. PICK s \in F : \A y \in F : y \subseteq s => y = s
  <2>1. F \subseteq SUBSET S
    OBVIOUS
  <2> HIDE DEF F
  <2> QED BY <1>1, <2>1, SmallestSubset
<1>3. s \in SUBSET S /\ f[s] # Ones(w, s)
  BY <1>2
<1>4. CASE s = {}
  <2>1. f[s] = 0
    BY <1>4 DEF Sums
  <2>2. {y \in {} : w[y] = 1} = {}
    OBVIOUS
  <2>3. Ones(w, s) = 0
    BY <1>4, <2>2, FS_EmptySet DEF Ones
  <2> QED BY <1>3, <2>1, <2>3
<1>5. CASE s # {}
  <2> DEFINE x == CHOOSE y \in s : TRUE
  <2>1. x \in s
    BY <1>5
  <2>2. f[s] = w[x] + f[s \ {x}]
    BY <1>3, <1>5 DEF Sums
  <2> HIDE DEF x
  <2>3. f[s \ {x}] = Ones(w, s \ {x})
    <3>1. s \ {x} \in SUBSET S /\ s \ {x} \subseteq s /\ s \ {x} # s
      BY <1>3, <2>1
    <3>2. s \ {x} \notin F
      BY <1>2, <3>1
    <3> QED BY <3>1, <3>2
  <2>4. Ones(w, s) = w[x] + Ones(w, s \ {x})
    BY <1>3, <2>1, OnesOf
  <2> QED BY <1>3, <2>2, <2>3, <2>4
<1> QED BY <1>4, <1>5
-----------------------------------------------------------------------------
(* Reachability.                                                           *)

\* S and what its members lead to directly.
Reached(next, S) == S \cup UNION {next[o] : o \in S}

ClosedUnder(next, S) == \A o \in S : next[o] \subseteq S

\* The least closed set around S.
Closure(D, next, S) ==
  {o \in D : \A U \in SUBSET D : S \subseteq U /\ ClosedUnder(next, U) => o \in U}

LEMMA ClosureIsClosed ==
  ASSUME NEW D, NEW next \in [D -> SUBSET D], NEW S \in SUBSET D
  PROVE  /\ S \subseteq Closure(D, next, S)
         /\ Closure(D, next, S) \subseteq D
         /\ ClosedUnder(next, Closure(D, next, S))
         /\ \A U \in SUBSET D :
              S \subseteq U /\ ClosedUnder(next, U) => Closure(D, next, S) \subseteq U
         /\ Reached(next, S) \in SUBSET D
         /\ Closure(D, next, Reached(next, S)) = Closure(D, next, S)
         /\ Reached(next, S) = S => Closure(D, next, S) = S
BY DEF Closure, ClosedUnder, Reached

\* The recursion over ever larger sets ends with the least closed set, and no
\* function that satisfies its equation gives another.
LEMMA ClosureIsUnique ==
  ASSUME NEW D, IsFiniteSet(D), NEW next \in [D -> SUBSET D], NEW f,
         f = [S \in SUBSET D |-> IF Reached(next, S) = S THEN S ELSE f[Reached(next, S)]]
  PROVE  \A S \in SUBSET D : f[S] = Closure(D, next, S)
<1> SUFFICES ASSUME NEW U \in SUBSET D, f[U] # Closure(D, next, U) PROVE FALSE
  OBVIOUS
<1> DEFINE Wrong == {S \in SUBSET D : f[S] # Closure(D, next, S)}
           F == {D \ S : S \in Wrong}
<1>1. F # {}
  <2>1. U \in Wrong
    OBVIOUS
  <2>2. D \ U \in F
    BY <2>1
  <2> QED BY <2>2
<1>2. F \subseteq SUBSET D
  OBVIOUS
<1>3. PICK x \in F : \A y \in F : y \subseteq x => y = x
  <2> HIDE DEF F
  <2> QED BY <1>1, <1>2, SmallestSubset
<1>4. PICK S \in SUBSET D : x = D \ S /\ f[S] # Closure(D, next, S)
  OBVIOUS
<1> DEFINE R == Reached(next, S)
<1>5. S \subseteq R /\ R \in SUBSET D /\ Closure(D, next, R) = Closure(D, next, S)
  BY ClosureIsClosed DEF Reached
<1>6. R # S
  BY <1>4, ClosureIsClosed
<1>7. f[S] = f[R]
  BY <1>6
<1>8. f[R] = Closure(D, next, R)
  <2>1. SUFFICES ASSUME f[R] # Closure(D, next, R) PROVE FALSE
    OBVIOUS
  <2>2. D \ R \in F
    BY <2>1, <1>5
  <2>3. D \ R \subseteq x /\ D \ R # x
    BY <1>4, <1>5, <1>6
  <2> QED BY <2>2, <2>3, <1>3
<1> QED BY <1>4, <1>5, <1>7, <1>8

LEMMA ClosureExists ==
  ASSUME NEW D, NEW next \in [D -> SUBSET D]
  PROVE  \E f : f = [S \in SUBSET D |-> IF Reached(next, S) = S THEN S ELSE f[Reached(next, S)]]
<1> DEFINE f == [S \in SUBSET D |-> Closure(D, next, S)]
<1>1. \A S \in SUBSET D : /\ Reached(next, S) \in SUBSET D
                          /\ Closure(D, next, Reached(next, S)) = Closure(D, next, S)
                          /\ Reached(next, S) = S => Closure(D, next, S) = S
  BY ClosureIsClosed
<1>2. f = [S \in SUBSET D |-> IF Reached(next, S) = S THEN S ELSE f[Reached(next, S)]]
  BY <1>1
<1> QED BY <1>2
=============================================================================
