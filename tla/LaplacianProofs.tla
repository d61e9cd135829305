-------------------------- MODULE LaplacianProofs --------------------------
(***************************************************************************)
(* Proofs about the laplacian benchmarks, for lines and boxes of any size: *)
(* first about module Laplacian, for every way in which a solver plugin    *)
(* cuts the rows into ranges, then about module Validation, for any number *)
(* of right-hand sides.                                                    *)
(*                                                                         *)
(* What the solver stores for a row is what the builder says of that row,  *)
(* whenever it was asked; the geometry is in module GridProofs.            *)
(***************************************************************************)
EXTENDS Laplacian, Validation, GridProofs

\* The store holds what the builder says, for the rows built so far.
Holds(store, Value(_)) ==
  /\ store = [r \in DOMAIN store |-> Value(r)]
  /\ DOMAIN store \subseteq AllRows

LInv ==
  /\ dim \in {1, 3} /\ grid \in Grids /\ k \in Nat
  /\ dim = 1 => grid = [mx |-> grid.mx, my |-> 1, mz |-> 1]
  /\ Holds(counts, DegreeOf)
  /\ Holds(edges, EdgesOf)
  /\ Holds(values, ValuesOf)
  /\ Holds(rhs, HostRhs)
  /\ DOMAIN edges # {} => Complete(counts)
  /\ DOMAIN values # {} => Complete(counts) /\ Complete(edges)
  /\ DOMAIN rhs # {} => Complete(counts) /\ Complete(edges) /\ Complete(values)

\* Complete storage is not built again.
LEMMA RangesKnown ==
  ASSUME NEW store, NEW rows \in Ranges(AllRows \ DOMAIN store)
  PROVE  rows # {} /\ rows \subseteq AllRows /\ ~Complete(store)
BY DEF Ranges, Complete

LEMMA LInitInvariant == LapInit => LInv
<1> SUFFICES ASSUME LapInit PROVE LInv
  OBVIOUS
<1>1. dim \in {1, 3} /\ grid \in Grids /\ (dim = 1 => grid = [mx |-> grid.mx, my |-> 1, mz |-> 1])
  <2>1. CASE dim = 1
    <3>1. PICK n \in Lines : grid = [mx |-> n, my |-> 1, mz |-> 1]
      BY <2>1 DEF LapInit
    <3> QED BY <2>1, <3>1, LaplacianAssumption DEF Grids, Side
  <2>2. CASE dim = 3
    BY <2>2, LaplacianAssumption DEF LapInit, Grids, Side
  <2> QED BY <2>1, <2>2 DEF LapInit
<1>2. counts = <<>> /\ edges = <<>> /\ values = <<>> /\ rhs = <<>>
  BY DEF LapInit
<1>3. k \in Nat
  BY LaplacianAssumption DEF LapInit
<1> QED BY <1>1, <1>2, <1>3 DEF LInv, Holds

\* The matrix: one step for each builder that has a part in it.
LEMMA LNextInvariant == LInv /\ [LapNext]_lapVars => LInv'
<1> SUFFICES ASSUME LInv, [LapNext]_lapVars PROVE LInv'
  OBVIOUS
<1>0. ASSUME UNCHANGED <<dim, grid, k, rhs>> PROVE Holds(rhs, HostRhs)'
  BY <1>0 DEF LInv, Holds, HostRhs, Expected, Size, AllRows
<1>1. ASSUME CountBuilder PROVE LInv'
  <2>1. PICK rows \in Ranges(AllRows \ DOMAIN counts) : counts' = Filled(counts, rows, DegreeOf)
    BY <1>1 DEF CountBuilder
  <2>2. rows \subseteq AllRows /\ ~Complete(counts)
    BY RangesKnown
  <2>3. /\ DOMAIN edges = {} /\ DOMAIN values = {} /\ DOMAIN rhs = {}
        /\ UNCHANGED <<dim, grid, k, edges, values, rhs>>
    BY <1>1, <2>2 DEF CountBuilder, LInv
  <2>4. Holds(counts, DegreeOf)'
    BY <2>1, <2>2, <2>3 DEF LInv, Holds, Filled, DegreeOf, Size, AllRows
  <2>5. Holds(edges, EdgesOf)' /\ Holds(values, ValuesOf)'
    BY <2>3 DEF LInv, Holds
  <2> QED BY <1>0, <2>3, <2>4, <2>5 DEF LInv
<1>2. ASSUME EdgeBuilder PROVE LInv'
  <2>1. PICK rows \in Ranges(AllRows \ DOMAIN edges) : edges' = Filled(edges, rows, EdgesOf)
    BY <1>2 DEF EdgeBuilder
  <2>2. rows \subseteq AllRows /\ ~Complete(edges)
    BY RangesKnown
  <2>3. /\ DOMAIN values = {} /\ DOMAIN rhs = {} /\ Complete(counts) /\ Complete(counts)'
        /\ UNCHANGED <<dim, grid, k, counts, values, rhs>>
    BY <1>2, <2>2 DEF EdgeBuilder, LInv, Complete, AllRows
  <2>4. Holds(edges, EdgesOf)'
    BY <2>1, <2>2, <2>3 DEF LInv, Holds, Filled, EdgesOf, Size, AllRows
  <2>5. Holds(counts, DegreeOf)' /\ Holds(values, ValuesOf)'
    BY <2>3 DEF LInv, Holds, DegreeOf, Size, AllRows
  <2> QED BY <1>0, <2>3, <2>4, <2>5 DEF LInv
<1>3. ASSUME ValueBuilder PROVE LInv'
  <2>1. PICK rows \in Ranges(AllRows \ DOMAIN values) : values' = Filled(values, rows, ValuesOf)
    BY <1>3 DEF ValueBuilder
  <2>2. rows # {} /\ rows \subseteq AllRows /\ ~Complete(values)
    BY RangesKnown
  <2>3. /\ Complete(edges) /\ Complete(counts) /\ DOMAIN rhs = {}
        /\ UNCHANGED <<dim, grid, k, counts, edges, rhs>>
    BY <1>3, <2>2 DEF ValueBuilder, LInv, Complete
  <2>4. Holds(values, ValuesOf)'
    <3>1. \A r : ValuesOf(r)' = ValuesOf(r)
      BY <2>3 DEF ValuesOf, Diagonal
    <3>2. values' = [r \in DOMAIN values \cup rows |-> IF r \in rows THEN ValuesOf(r) ELSE values[r]]
      BY <2>1 DEF Filled
    <3>3. /\ DOMAIN values \subseteq AllRows /\ AllRows' = AllRows
          /\ \A r \in DOMAIN values : values[r] = ValuesOf(r)
      BY <2>3 DEF LInv, Holds, AllRows
    <3>4. DOMAIN values' \subseteq AllRows'
      BY <2>2, <3>2, <3>3
    <3>5. values' = [r \in DOMAIN values' |-> ValuesOf(r)']
      BY <3>1, <3>2, <3>3
    <3> QED BY <3>4, <3>5 DEF Holds
  <2>5. Holds(counts, DegreeOf)' /\ Holds(edges, EdgesOf)' /\ Complete(edges)' /\ Complete(counts)'
    BY <2>3 DEF LInv, Holds, DegreeOf, EdgesOf, Size, AllRows, Complete
  <2> QED BY <1>0, <2>3, <2>4, <2>5 DEF LInv
<1>4. ASSUME UNCHANGED <<dim, grid, k, counts, edges, values>>
      PROVE  /\ Holds(counts, DegreeOf)' /\ Holds(edges, EdgesOf)' /\ Holds(values, ValuesOf)'
             /\ Complete(counts)' <=> Complete(counts)
             /\ Complete(edges)' <=> Complete(edges)
             /\ Complete(values)' <=> Complete(values)
  BY <1>4 DEF LInv, Holds, DegreeOf, EdgesOf, ValuesOf, Diagonal, Size, AllRows, Complete
<1>5. ASSUME RhsBuilder PROVE LInv'
  <2>1. PICK rows \in Ranges(AllRows \ DOMAIN rhs) : rhs' = Filled(rhs, rows, HostRhs)
    BY <1>5 DEF RhsBuilder
  <2>2. rows # {} /\ rows \subseteq AllRows
    BY RangesKnown
  <2>3. Complete(values) /\ UNCHANGED <<dim, grid, k, counts, edges, values>>
    BY <1>5 DEF RhsBuilder
  <2>4. Complete(edges) /\ Complete(counts)
    BY <2>2, <2>3 DEF LInv, Complete
  <2>5. Holds(rhs, HostRhs)'
    <3>1. \A r : HostRhs(r)' = HostRhs(r)
      BY <2>3 DEF HostRhs, Expected, Size, AllRows
    <3>2. rhs' = [r \in DOMAIN rhs \cup rows |-> IF r \in rows THEN HostRhs(r) ELSE rhs[r]]
      BY <2>1 DEF Filled
    <3>3. /\ DOMAIN rhs \subseteq AllRows /\ AllRows' = AllRows
          /\ \A r \in DOMAIN rhs : rhs[r] = HostRhs(r)
      BY <2>3 DEF LInv, Holds, AllRows
    <3>4. DOMAIN rhs' \subseteq AllRows'
      BY <2>2, <3>2, <3>3
    <3>5. rhs' = [r \in DOMAIN rhs' |-> HostRhs(r)']
      BY <3>1, <3>2, <3>3
    <3> QED BY <3>4, <3>5 DEF Holds
  <2> QED BY <1>4, <2>3, <2>4, <2>5 DEF LInv
<1>6. ASSUME Built \/ UNCHANGED lapVars PROVE LInv'
  <2>1. UNCHANGED lapVars
    BY <1>6 DEF Built
  <2> QED BY <1>0, <1>4, <2>1 DEF LInv, lapVars
<1> QED BY <1>1, <1>2, <1>3, <1>5, <1>6 DEF LapNext

THEOREM LInvariance == LapSpec => []LInv
BY LInitInvariant, LNextInvariant, PTL DEF LapSpec
-----------------------------------------------------------------------------
(* The properties.                                                         *)

\* The edges of a row of either benchmark.
LEMMA EdgesOfRow ==
  ASSUME LInv, NEW row \in AllRows
  PROVE  /\ Visits(EdgesOf(row), Neighbourhood(grid, row) \cup {row})
         /\ row \notin Neighbourhood(grid, row)
         /\ Len(EdgesOf(row)) = DegreeOf(row)
<1>1. CASE dim = 1
  <2> DEFINE n == grid.mx
  <2>1. n \in Side /\ grid = [mx |-> n, my |-> 1, mz |-> 1]
    BY <1>1 DEF LInv, Grids
  <2>2. Size = n /\ row \in 0..n - 1
    BY <2>1 DEF Size, AllRows, Rows, Points, Side
  <2>3. DegreeOf(row) = Degree1d(n, row) /\ EdgesOf(row) = Edges1d(n, row)
    BY <1>1, <2>2 DEF DegreeOf, EdgesOf
  <2> QED BY <2>1, <2>2, <2>3, LineNeighboursAreAdjacent
<1>2. CASE dim = 3
  BY <1>2, NeighboursAreAdjacent DEF LInv, AllRows, DegreeOf, EdgesOf
<1> QED BY <1>1, <1>2 DEF LInv

\* Grids of any size, cut in any way: no solver's storage is overrun or left with
\* unset slots.
THEOREM CountsAlwaysMatch == LapSpec => []CountsMatchEdges
<1>1. LInv => CountsMatchEdges
  <2> SUFFICES ASSUME LInv, NEW r \in DOMAIN edges
               PROVE  /\ Len(edges[r]) = counts[r]
                      /\ IsInjective(edges[r])
                      /\ \A e \in 1..Len(edges[r]) : edges[r][e] \in AllRows
    BY DEF CountsMatchEdges
  <2>1. r \in AllRows /\ edges[r] = EdgesOf(r) /\ counts[r] = DegreeOf(r)
    BY DEF LInv, Holds, Complete
  <2>2. Visits(EdgesOf(r), Neighbourhood(grid, r) \cup {r}) /\ Len(EdgesOf(r)) = DegreeOf(r)
    BY <2>1, EdgesOfRow
  <2>3. IsInjective(edges[r])
    <3>1. DOMAIN edges[r] = 1..Len(edges[r])
      BY <2>1, <2>2 DEF Visits
    <3> QED BY <2>1, <2>2, <3>1 DEF Visits, IsInjective
  <2>4. \A e \in 1..Len(edges[r]) : edges[r][e] \in AllRows
    BY <2>1, <2>2 DEF Visits, Neighbourhood, AllRows
  <2> QED BY <2>1, <2>2, <2>3, <2>4
<1> QED BY <1>1, LInvariance, PTL

\* And what the solver has stored is the Laplacian of the grid.
THEOREM MatrixIsRight == LapSpec => []MatrixIsLaplacian
<1>1. LInv => MatrixIsLaplacian
  <2> SUFFICES ASSUME LInv, JustBuilt, NEW r \in AllRows, NEW c \in AllRows
               PROVE  Entry(r, c) = IF r = c THEN Diagonal
                                    ELSE IF Adjacent(grid, r, c) THEN -1 ELSE 0
    BY DEF MatrixIsLaplacian
  <2> DEFINE at == {e \in 1..counts[r] : edges[r][e] = c}
  <2>1. DOMAIN values = AllRows /\ DOMAIN edges = AllRows /\ DOMAIN counts = AllRows
    BY DEF JustBuilt, Complete, LInv
  <2>2. edges[r] = EdgesOf(r) /\ counts[r] = DegreeOf(r) /\ values[r] = ValuesOf(r)
    BY <2>1 DEF LInv, Holds
  <2>3. /\ Visits(edges[r], Neighbourhood(grid, r) \cup {r}) /\ Len(edges[r]) = counts[r]
        /\ r \notin Neighbourhood(grid, r)
    BY <2>2, EdgesOfRow
  <2>4. at # {} <=> c = r \/ Adjacent(grid, r, c)
    BY <2>3 DEF Visits, Neighbourhood, AllRows
  <2>5. ~ Adjacent(grid, r, r)
    BY <2>3 DEF Neighbourhood, AllRows
  <2>6. CASE at = {}
    <3>1. Entry(r, c) = 0
      BY <2>6 DEF Entry
    <3> QED BY <2>4, <2>6, <3>1
  <2>7. CASE at # {}
    <3> DEFINE e == CHOOSE d \in at : TRUE
    <3>1. e \in at
      BY <2>7
    <3>2. Entry(r, c) = values[r][e]
      BY <2>7 DEF Entry
    <3> HIDE DEF e
    <3>3. values[r][e] = IF c = r THEN Diagonal ELSE -1
      BY <2>2, <3>1 DEF ValuesOf
    <3> QED BY <2>4, <2>7, <3>2, <3>3
  <2> QED BY <2>6, <2>7
<1> QED BY <1>1, LInvariance, PTL

\* The rows of the grid: finitely many, the first of them 0.
LEMMA RowsOfGrid ==
  LInv => IsFiniteSet(AllRows) /\ 0 \in AllRows /\ AllRows \subseteq Nat
<1> SUFFICES ASSUME LInv PROVE IsFiniteSet(AllRows) /\ 0 \in AllRows /\ AllRows \subseteq Nat
  OBVIOUS
<1> DEFINE n == Points(grid) - 1
<1>1. grid \in Grids
  BY DEF LInv
<1>2. AllRows = 0..n /\ n \in Int
  BY <1>1, Products DEF AllRows, Rows
<1>3. InBox(grid, 0, 0, 0)
  BY <1>1, Products DEF InBox, Side
<1>4. Index(grid, 0, 0, 0) = 0
  BY <1>1, Products DEF Index, Side
<1>5. 0 \in AllRows
  BY <1>1, <1>3, <1>4, RowOfCoordinates DEF AllRows
<1> HIDE DEF n
<1> QED BY <1>2, <1>5, FS_Interval

LEMMA AbsOne == Abs(-1) = 1 /\ Abs(0) = 0
<1> DEFINE u == -1
<1>1. u \in Int /\ u + 1 = 0
  OBVIOUS
<1>2. Abs(0) = 0
  BY DEF Abs
<1> HIDE DEF u
<1>3. Abs(u) = 1
  BY <1>1 DEF Abs
<1> QED BY <1>2, <1>3 DEF u

\* Off the diagonal there is a 1 for each neighbour.
LEMMA OffDiagonalIs ==
  ASSUME LInv, MatrixIsLaplacian, JustBuilt, NEW r \in AllRows
  PROVE  OffDiagonal(r) = Cardinality(Neighbourhood(grid, r))
<1> DEFINE S == AllRows \ {r}
           w == [c \in S |-> Abs(Entry(r, c))]
           Solves(f) == f = [s \in SUBSET S |->
                               IF s = {} THEN 0
                               ELSE Abs(Entry(r, CHOOSE x \in s : TRUE))
                                      + f[s \ {CHOOSE x \in s : TRUE}]]
<1>1. IsFiniteSet(S)
  BY RowsOfGrid, FS_RemoveElement
<1>2. \A c \in S : Entry(r, c) = IF Adjacent(grid, r, c) THEN -1 ELSE 0
  BY DEF MatrixIsLaplacian
<1>3. Abs(-1) = 1 /\ Abs(0) = 0
  BY AbsOne
<1>4. \A c \in S : w[c] = IF Adjacent(grid, r, c) THEN 1 ELSE 0
  BY <1>2, <1>3
<1>5. w \in [S -> {0, 1}]
  BY <1>4
<1>6. {c \in S : w[c] = 1} = Neighbourhood(grid, r)
  <2>1. r \notin Neighbourhood(grid, r)
    BY EdgesOfRow
  <2> HIDE DEF w
  <2> QED BY <1>4, <2>1 DEF Neighbourhood, AllRows
<1>7. OffDiagonal(r) = (CHOOSE f : Solves(f))[S]
  BY DEF OffDiagonal, MapThenSumSet, MapThenFoldSet
<1>8. ASSUME NEW f PROVE Solves(f) <=> Sums(f, w, S)
  <2>1. ASSUME NEW s \in SUBSET S, s # {}
        PROVE  Abs(Entry(r, CHOOSE x \in s : TRUE)) = w[CHOOSE x \in s : TRUE]
    <3>1. (CHOOSE x \in s : TRUE) \in S
      BY <2>1
    <3> QED BY <3>1
  <2> HIDE DEF w, S
  <2> QED BY <2>1 DEF Sums
<1> HIDE DEF w, S, Solves
<1>9. PICK f : Sums(f, w, S) /\ OffDiagonal(r) = f[S]
  BY <1>1, <1>5, <1>7, <1>8, SumExists
<1>10. f[S] = Ones(w, S)
  BY <1>1, <1>5, <1>9, SumIsUnique
<1> QED BY <1>6, <1>9, <1>10 DEF Ones

\* What the benchmark asserts of its problem is true: symmetric, weakly diagonally
\* dominant, strictly in some row, and irreducible.
THEOREM AssertedPropertiesAlwaysHold == LapSpec => []AssertedPropertiesHold
<1>1. LInv /\ MatrixIsLaplacian => AssertedPropertiesHold
  <2> SUFFICES ASSUME LInv, MatrixIsLaplacian, JustBuilt
               PROVE  /\ \A r, c \in AllRows : Entry(r, c) = Entry(c, r)
                      /\ \A r \in AllRows : OffDiagonal(r) <= Entry(r, r)
                      /\ \E r \in AllRows : OffDiagonal(r) < Entry(r, r)
                      /\ \A block \in (SUBSET AllRows) \ {{}, AllRows} :
                           \E r \in block, c \in AllRows \ block : Entry(r, c) # 0
    BY DEF AssertedPropertiesHold
  <2>1. grid \in Grids /\ AllRows = Rows(grid)
    BY DEF LInv, AllRows
  <2>2. \A r, c \in AllRows :
          Entry(r, c) = IF r = c THEN Diagonal ELSE IF Adjacent(grid, r, c) THEN -1 ELSE 0
    BY DEF MatrixIsLaplacian
  <2>3. \A r, c \in AllRows : Entry(r, c) = Entry(c, r)
    BY <2>1, <2>2, AdjacentIsSymmetric
  <2>4. ASSUME NEW r \in AllRows
        PROVE  /\ Cardinality(Neighbourhood(grid, r)) \in 0..Diagonal
               /\ r = 0 => Cardinality(Neighbourhood(grid, r)) < Diagonal
    <3>1. CASE dim = 1
      <4>1. grid.mx \in Side /\ grid = [mx |-> grid.mx, my |-> 1, mz |-> 1]
        BY <3>1 DEF LInv, Grids
      <4>2. r \in 0..grid.mx - 1
        BY <2>1, <4>1 DEF Rows, Points, Side
      <4> QED BY <3>1, <4>1, <4>2, NeighboursOnLine DEF Diagonal
    <3>2. CASE dim = 3
      BY <2>1, <3>2, NeighboursOfRow DEF Diagonal
    <3> QED BY <3>1, <3>2 DEF LInv
  <2>5. \A r \in AllRows : Entry(r, r) = Diagonal
    BY <2>2
  <2>6. \A r \in AllRows : OffDiagonal(r) = Cardinality(Neighbourhood(grid, r))
    BY OffDiagonalIs
  <2>7. \A r \in AllRows : OffDiagonal(r) <= Entry(r, r) /\ (r = 0 => OffDiagonal(r) < Entry(r, r))
    BY <2>4, <2>5, <2>6
  <2>8. 0 \in AllRows
    BY RowsOfGrid
  <2>9. ASSUME NEW block \in (SUBSET AllRows) \ {{}, AllRows}
        PROVE  \E r \in block, c \in AllRows \ block : Entry(r, c) # 0
    <3>1. block \in SUBSET Rows(grid) /\ block # {} /\ block # Rows(grid)
      <4>1. block \in SUBSET AllRows /\ block # {} /\ block # AllRows
        BY <2>9
      <4> QED BY <2>1, <4>1
    <3>2. PICK r \in block, c \in Rows(grid) \ block : Adjacent(grid, r, c)
      BY <2>1, <3>1, GridIsConnected
    <3>3. Entry(r, c) = -1
      BY <2>1, <2>2, <3>2
    <3> QED BY <2>1, <3>2, <3>3
  <2> QED BY <2>3, <2>7, <2>8, <2>9
<1> QED BY <1>1, LInvariance, MatrixIsRight, PTL

-----------------------------------------------------------------------------
(* The right-hand side.                                                    *)

\* All of the matrix is stored.
MatrixStored == Complete(counts) /\ Complete(edges) /\ Complete(values)

LEMMA StoredRow ==
  ASSUME LInv, MatrixStored, NEW r \in AllRows
  PROVE  /\ edges[r] = EdgesOf(r) /\ counts[r] = DegreeOf(r) /\ counts[r] = Len(edges[r])
         /\ counts[r] \in Nat
         /\ \A e \in 1..counts[r] : /\ edges[r][e] \in AllRows
                                    /\ values[r][e] = IF edges[r][e] = r THEN Diagonal ELSE -1
         /\ Diagonal \in Int
<1>1. edges[r] = EdgesOf(r) /\ counts[r] = DegreeOf(r) /\ values[r] = ValuesOf(r)
  BY DEF LInv, Holds, MatrixStored, Complete
<1>2. Visits(EdgesOf(r), Neighbourhood(grid, r) \cup {r}) /\ Len(EdgesOf(r)) = DegreeOf(r)
  BY EdgesOfRow
<1>3. counts[r] \in Nat /\ \A e \in 1..counts[r] : edges[r][e] \in AllRows
  BY <1>1, <1>2 DEF Visits, Neighbourhood, AllRows
<1>4. \A e \in 1..counts[r] : values[r][e] = IF edges[r][e] = r THEN Diagonal ELSE -1
  BY <1>1 DEF ValuesOf
<1> QED BY <1>1, <1>2, <1>3, <1>4 DEF Diagonal

\* The expected solution is a vector of numbers.
Solution == [r \in AllRows |-> Expected(r)]

LEMMA SolutionIs == LInv => Solution \in [AllRows -> Int]
<1> SUFFICES ASSUME LInv, NEW r \in AllRows PROVE Expected(r) \in Int
  BY DEF Solution
<1>1. r \in Nat /\ k \in Nat
  BY Products DEF LInv, AllRows, Rows
<1> DEFINE a == r + 17 * k
<1>2. a \in Nat
  BY <1>1
<1>3. Expected(r) = IF dim = 1 THEN 100 ELSE 100 + (a % 23)
  BY DEF Expected, OnesValue, ExactValue
<1> HIDE DEF a
<1> QED BY <1>2, <1>3

\* One entry of the row more.
MultiplyStep(r) ==
  [p \in Int \X (1..counts[r]) |-> p[1] + values[r][p[2]] * Expected(edges[r][p[2]])]

LEMMA RowTimesSteps ==
  ASSUME LInv, MatrixStored, NEW r \in AllRows
  PROVE  Outcome(Int, 0, MultiplyStep(r), counts[r], RowTimesExpected(r))
<1> DEFINE n == counts[r]
           D == 1..n
           seq == [e \in D |-> e]
           term == [e \in D |-> values[r][e] * Expected(edges[r][e])]
           Solves(f) == f = [s \in SUBSET D |->
                               IF s = {} THEN 0
                               ELSE f[s \ {Max(s)}]
                                      + values[r][seq[Max(s)]] * Expected(edges[r][seq[Max(s)]])]
           step == MultiplyStep(r)
<1>1. n \in Nat /\ \A e \in D : term[e] \in Int
  <2>1. \A e \in D : values[r][e] \in Int
    BY StoredRow
  <2>2. \A e \in D : Expected(edges[r][e]) \in Int
    BY StoredRow, SolutionIs DEF Solution
  <2>3. \A e \in D : values[r][e] * Expected(edges[r][e]) \in Int
    BY <2>1, <2>2
  <2> QED BY <2>3, StoredRow
<1>2. \A u \in Int, e \in D : step[<<u, e>>] = u + term[e]
  BY DEF MultiplyStep
<1>3. step \in [Int \X D -> Int]
  <2>1. step = [p \in Int \X D |-> p[1] + term[p[2]]]
    BY DEF MultiplyStep
  <2> HIDE DEF step, term, D
  <2> QED BY <1>1, <2>1
<1>4. RowTimesExpected(r) = (CHOOSE f : Solves(f))[D]
  BY DEF RowTimesExpected, FoldLeft, MapThenFoldSet
<1>5. ASSUME NEW s \in SUBSET D, s # {}
      PROVE  /\ Max(s) \in D
             /\ values[r][seq[Max(s)]] * Expected(edges[r][seq[Max(s)]]) = term[Max(s)]
  <2>1. Max(s) \in D
    BY <1>1, <1>5, MaxIsIn
  <2> QED BY <2>1
<1> HIDE DEF n, step, term, seq
<1> DEFINE first == 0
<1>6. \E f : Solves(f)
  <2>1. PICK f \in [SUBSET D -> Int] : Folds(f, 0, step, n)
    <3>1. first \in Int
      OBVIOUS
    <3> HIDE DEF first
    <3>2. \E f \in [SUBSET (1..n) -> Int] : Folds(f, first, step, n)
      BY <1>1, <1>3, <3>1, FoldExists
    <3> QED BY <3>2 DEF first
  <2>2. ASSUME NEW s \in SUBSET D, s # {}
        PROVE  step[<<f[s \ {Max(s)}], Max(s)>>]
                 = f[s \ {Max(s)}]
                     + values[r][seq[Max(s)]] * Expected(edges[r][seq[Max(s)]])
    <3>1. f[s \ {Max(s)}] \in Int
      BY <2>1
    <3> QED BY <1>2, <1>5, <2>2, <3>1
  <2>3. Solves(f)
    BY <2>1, <2>2 DEF Folds
  <2> HIDE DEF Solves
  <2> QED BY <2>3
<1>7. PICK f : Solves(f) /\ RowTimesExpected(r) = f[D]
  BY <1>4, <1>6
<1>8. Agrees(f, Int, 0, step, n)
  <2>1. ASSUME NEW s \in SUBSET D, s # {}, f[s \ {Max(s)}] \in Int
        PROVE  f[s] = step[<<f[s \ {Max(s)}], Max(s)>>]
    BY <1>2, <1>5, <1>7, <2>1
  <2>2. f[{}] = 0
    BY <1>7
  <2> QED BY <2>1, <2>2 DEF Agrees
<1> HIDE DEF Solves
<1>9. Outcome(Int, 0, step, n, f[1..n])
  <2>1. first \in Int /\ Agrees(f, Int, first, step, n)
    BY <1>8
  <2> HIDE DEF first
  <2>2. Outcome(Int, first, step, n, f[1..n])
    BY <1>1, <1>3, <2>1, FoldSteps
  <2> QED BY <2>2 DEF first
<1> QED BY <1>7, <1>9 DEF n, step

\* The sums on the way: each edge adds the value of its column to the one before.
LEMMA RowSums ==
  ASSUME LInv, MatrixStored, NEW r \in AllRows
  PROVE  \E q \in [0..counts[r] -> Int] :
           /\ q[0] = 0 /\ q[counts[r]] = RowTimesExpected(r)
           /\ \A m \in 1..counts[r] :
                q[m] = IF edges[r][m] = r THEN q[m - 1] + Diagonal * Solution[r]
                       ELSE q[m - 1] - Solution[edges[r][m]]
<1>1. PICK q \in [0..counts[r] -> Int] :
        Steps(q, 0, MultiplyStep(r), counts[r]) /\ RowTimesExpected(r) = q[counts[r]]
  BY RowTimesSteps DEF Outcome
<1>2. ASSUME NEW m \in 1..counts[r]
      PROVE  q[m] = IF edges[r][m] = r THEN q[m - 1] + Diagonal * Solution[r]
                    ELSE q[m - 1] - Solution[edges[r][m]]
  <2>1. counts[r] \in Nat /\ m \in 1..counts[r] /\ q[m - 1] \in Int
    BY <1>1, StoredRow
  <2>2. q[m] = MultiplyStep(r)[<<q[m - 1], m>>]
    BY <1>1 DEF Steps
  <2>3. q[m] = q[m - 1] + values[r][m] * Expected(edges[r][m])
    BY <2>1, <2>2 DEF MultiplyStep
  <2>4. /\ edges[r][m] \in AllRows /\ Diagonal \in Int
        /\ values[r][m] = IF edges[r][m] = r THEN Diagonal ELSE -1
    BY StoredRow
  <2>5. Expected(edges[r][m]) = Solution[edges[r][m]] /\ Solution[edges[r][m]] \in Int
    BY <2>4, SolutionIs DEF Solution
  <2>6. CASE edges[r][m] = r
    BY <2>3, <2>4, <2>5, <2>6
  <2>7. CASE edges[r][m] # r
    <3> DEFINE v == Solution[edges[r][m]]
    <3>1. q[m] = q[m - 1] + (-1) * v /\ v \in Int
      BY <2>3, <2>4, <2>5, <2>7
    <3> HIDE DEF v
    <3>2. q[m] = q[m - 1] - v
      BY <2>1, <3>1
    <3> QED BY <2>7, <3>2 DEF v
  <2> QED BY <2>6, <2>7
<1>3. q[0] = 0
  BY <1>1 DEF Steps
<1> QED BY <1>1, <1>2, <1>3

LEMMA RhsOfBox ==
  ASSUME LInv, MatrixStored, NEW r \in AllRows, dim = 3
  PROVE  HostRhs(r) = RowTimesExpected(r)
<1> DEFINE x == Solution
           N == Neighbours3d(grid, r)
           n == Len(N)
<1>1. /\ grid \in Grids /\ r \in Rows(grid) /\ x \in [AllRows -> Int] /\ AllRows = Rows(grid)
      /\ Diagonal = 6
  BY SolutionIs DEF LInv, AllRows, Diagonal
<1>2. /\ N \in Seq(Int) /\ n \in Nat
      /\ \A m \in 1..n : N[m] \in AllRows /\ N[m] # r
  BY <1>1, NeighboursAreAdjacent DEF Visits, Neighbourhood
<1>3. edges[r] = Append(N, r) /\ counts[r] = Len(edges[r])
  BY StoredRow DEF EdgesOf, Edges3d
<1>4. HostRhs(r) = ApplyRow3d(grid, r, x)
  BY DEF HostRhs, Solution
<1>5. PICK p \in [0..n -> Int] :
        Steps(p, 6 * x[r], SubtractStep(grid, r, x), n) /\ ApplyRow3d(grid, r, x) = p[n]
  BY <1>1, ApplyRow3dSteps DEF Outcome
<1>6. PICK q \in [0..counts[r] -> Int] :
        /\ q[0] = 0 /\ q[counts[r]] = RowTimesExpected(r)
        /\ \A m \in 1..counts[r] :
             q[m] = IF edges[r][m] = r THEN q[m - 1] + Diagonal * x[r]
                    ELSE q[m - 1] - x[edges[r][m]]
  BY RowSums
<1>7. ASSUME NEW m \in 1..n PROVE p[m] = p[m - 1] - x[N[m]]
  <2>1. p[m] = SubtractStep(grid, r, x)[<<p[m - 1], m>>]
    BY <1>5 DEF Steps
  <2>2. p[m - 1] \in Int /\ m \in 1..n
    BY <1>2, <1>5
  <2> QED BY <2>1, <2>2 DEF SubtractStep
<1> HIDE DEF N, n, x
<1>8. /\ counts[r] = n + 1
      /\ \A m \in 1..n : edges[r][m] = N[m]
      /\ edges[r][n + 1] = r
  BY <1>2, <1>3 DEF n
<1>9. /\ \A m \in 1..n : q[m] = q[m - 1] - x[N[m]]
      /\ q[n + 1] = q[n] + 6 * x[r]
  <2>1. ASSUME NEW m \in 1..n PROVE q[m] = q[m - 1] - x[N[m]]
    <3>1. m \in 1..counts[r] /\ edges[r][m] = N[m] /\ N[m] # r
      BY <1>2, <1>8
    <3> QED BY <1>6, <3>1
  <2>2. n + 1 \in 1..counts[r] /\ (n + 1) - 1 = n
    BY <1>2, <1>8
  <2>3. q[n + 1] = q[(n + 1) - 1] + Diagonal * x[r]
    <3> DEFINE m == n + 1
    <3>1. m \in 1..counts[r] /\ edges[r][m] = r
      BY <1>8, <2>2
    <3> HIDE DEF m
    <3>2. q[m] = q[m - 1] + Diagonal * x[r]
      BY <1>6, <3>1
    <3> QED BY <3>2 DEF m
  <2> QED BY <1>1, <2>1, <2>2, <2>3
<1>10. x[r] \in Int /\ (\A m \in 0..n : p[m] \in Int /\ q[m] \in Int)
       /\ \A m \in 1..n : x[N[m]] \in Int
  BY <1>1, <1>2, <1>5, <1>6, <1>8
<1> DEFINE T == {m \in 0..n : p[m] = q[m] + 6 * x[r]}
<1>11. 0 \in T
  BY <1>2, <1>5, <1>6, <1>10 DEF Steps
<1>12. ASSUME NEW m \in 1..n, m - 1 \in T PROVE m \in T
  <2>1. p[m - 1] = q[m - 1] + 6 * x[r] /\ q[m - 1] \in Int /\ x[N[m]] \in Int /\ m \in 0..n
    BY <1>2, <1>10, <1>12
  <2>2. p[m] = q[m] + 6 * x[r]
    BY <1>7, <1>9, <1>10, <2>1
  <2> QED BY <2>1, <2>2
<1>13. n \in T
  <2>1. \A m \in 1..n : m - 1 \in T => m \in T
    BY <1>12
  <2> HIDE DEF T
  <2>2. \A m \in 0..n : m \in T
    BY <1>2, <1>11, <2>1, UpTo
  <2> QED BY <1>2, <2>2
<1> QED BY <1>4, <1>5, <1>6, <1>8, <1>9, <1>13

LEMMA RhsOfLine ==
  ASSUME LInv, MatrixStored, NEW r \in AllRows, dim = 1
  PROVE  HostRhs(r) = RowTimesExpected(r)
<1> DEFINE x == Solution
           n == grid.mx
<1>1. n \in Nat /\ r \in 0..n - 1 /\ AllRows = 0..n - 1 /\ Size = n
  BY DEF LInv, Grids, Side, AllRows, Rows, Size, Points
<1>2. x \in [AllRows -> Int] /\ Diagonal = 2
  BY SolutionIs DEF Diagonal
<1>3. edges[r] = Edges1d(n, r) /\ counts[r] = Len(edges[r])
  BY <1>1, StoredRow DEF EdgesOf
<1>4. HostRhs(r) = ApplyRow1d(n, r, x)
  BY <1>1 DEF HostRhs, Solution
<1>5. PICK q \in [0..counts[r] -> Int] :
        /\ q[0] = 0 /\ q[counts[r]] = RowTimesExpected(r)
        /\ \A m \in 1..counts[r] :
             q[m] = IF edges[r][m] = r THEN q[m - 1] + Diagonal * x[r]
                    ELSE q[m - 1] - x[edges[r][m]]
  BY RowSums
<1> HIDE DEF x, n
<1>6. /\ counts[r] \in {1, 2, 3} /\ edges[r][1] # r => q[1] = 0 - x[edges[r][1]]
      /\ counts[r] \in {1, 2, 3} /\ edges[r][1] = r => q[1] = 0 + 2 * x[r]
      /\ counts[r] \in {2, 3} /\ edges[r][2] # r => q[2] = q[1] - x[edges[r][2]]
      /\ counts[r] \in {2, 3} /\ edges[r][2] = r => q[2] = q[1] + 2 * x[r]
      /\ counts[r] = 3 /\ edges[r][3] # r => q[3] = q[2] - x[edges[r][3]]
  <2>1. 1 - 1 = 0 /\ 2 - 1 = 1 /\ 3 - 1 = 2
    OBVIOUS
  <2>2. /\ counts[r] \in {1, 2, 3} => 1 \in 1..counts[r]
        /\ counts[r] \in {2, 3} => 2 \in 1..counts[r]
        /\ counts[r] = 3 => 3 \in 1..counts[r]
    OBVIOUS
  <2> QED BY <1>2, <1>5, <2>1, <2>2
<1>7. x[r] \in Int /\ (r > 0 => x[r - 1] \in Int) /\ (r + 1 < n => x[r + 1] \in Int)
  BY <1>1, <1>2
<1>8. /\ counts[r] = One(r > 0) + 1 + One(r + 1 < n)
      /\ r > 0 => edges[r][1] = r - 1 /\ edges[r][2] = r
      /\ r > 0 /\ r + 1 < n => edges[r][3] = r + 1
      /\ ~ (r > 0) => edges[r][1] = r
      /\ ~ (r > 0) /\ r + 1 < n => edges[r][2] = r + 1
  <2>1. n \in Side
    BY <1>1 DEF Side
  <2> QED BY <1>1, <1>3, <2>1, LineEdges
<1>9. HostRhs(r) = 2 * x[r] - (IF r > 0 THEN x[r - 1] ELSE 0) - (IF r + 1 < n THEN x[r + 1] ELSE 0)
  BY <1>4 DEF ApplyRow1d
<1>10. CASE r > 0 /\ r + 1 < n
  <2>1. counts[r] = 3 /\ edges[r][1] = r - 1 /\ edges[r][2] = r /\ edges[r][3] = r + 1
    BY <1>8, <1>10 DEF One
  <2>2. q[1] = 0 - x[r - 1] /\ q[2] = q[1] + 2 * x[r] /\ q[3] = q[2] - x[r + 1]
    <3>1. r \in Int /\ r - 1 # r /\ r + 1 # r
      BY <1>1
    <3> QED BY <1>6, <2>1, <3>1
  <2> QED BY <1>5, <1>7, <1>9, <1>10, <2>1, <2>2
<1>11. CASE r > 0 /\ ~ (r + 1 < n)
  <2>1. counts[r] = 2 /\ edges[r][1] = r - 1 /\ edges[r][2] = r
    BY <1>8, <1>11 DEF One
  <2>2. q[1] = 0 - x[r - 1] /\ q[2] = q[1] + 2 * x[r]
    <3>1. r \in Int /\ r - 1 # r /\ r + 1 # r
      BY <1>1
    <3> QED BY <1>6, <2>1, <3>1
  <2> QED BY <1>5, <1>7, <1>9, <1>11, <2>1, <2>2
<1>12. CASE ~ (r > 0) /\ r + 1 < n
  <2>1. counts[r] = 2 /\ edges[r][1] = r /\ edges[r][2] = r + 1
    BY <1>8, <1>12 DEF One
  <2>2. q[1] = 0 + 2 * x[r] /\ q[2] = q[1] - x[r + 1]
    <3>1. r \in Int /\ r - 1 # r /\ r + 1 # r
      BY <1>1
    <3> QED BY <1>6, <2>1, <3>1
  <2> QED BY <1>5, <1>7, <1>9, <1>12, <2>1, <2>2
<1>13. CASE ~ (r > 0) /\ ~ (r + 1 < n)
  <2>1. counts[r] = 1 /\ edges[r][1] = r
    BY <1>8, <1>13 DEF One
  <2>2. q[1] = 0 + 2 * x[r]
    <3>1. r \in Int /\ r - 1 # r /\ r + 1 # r
      BY <1>1
    <3> QED BY <1>6, <2>1, <3>1
  <2> QED BY <1>5, <1>7, <1>9, <1>13, <2>1, <2>2
<1> QED BY <1>10, <1>11, <1>12, <1>13

\* The right-hand side that the host computes is the matrix that the solver has
\* stored, times the expected solution.
THEOREM RhsAlwaysMatches == LapSpec => []RhsMatchesMatrix
<1>1. LInv => RhsMatchesMatrix
  <2> SUFFICES ASSUME LInv, Complete(rhs), NEW r \in AllRows
               PROVE  rhs[r] = RowTimesExpected(r)
    BY DEF RhsMatchesMatrix
  <2>1. MatrixStored /\ rhs[r] = HostRhs(r)
    BY DEF LInv, Holds, Complete, MatrixStored
  <2> QED BY <2>1, RhsOfBox, RhsOfLine DEF LInv
<1> QED BY <1>1, LInvariance, PTL
-----------------------------------------------------------------------------
(* Module Validation: the loop over the rows.                              *)

LEMMA BoxRowsAre ==
  /\ Box \in Grids
  /\ Points(Box) \in Nat /\ BoxRows = 0..Points(Box) - 1
BY ValidationAssumption DEF ValidationAssumption, BoxRows, Rows, Points, Grids, Side

\* One row more of the loop in WorstRow.
MaxStep(f) == [p \in Nat \X (1..Points(Box)) |-> StdMax(p[1], f[p[2] - 1])]

LEMMA WorstRowSteps ==
  ASSUME NEW f \in [BoxRows -> Nat]
  PROVE  Outcome(Nat, 0, MaxStep(f), Points(Box), WorstRow(f))
<1> DEFINE n == Points(Box)
           D == 1..n
           seq == [i \in D |-> i]
           Solves(g) == g = [s \in SUBSET D |->
                               IF s = {} THEN 0
                               ELSE StdMax(g[s \ {Max(s)}], f[seq[Max(s)] - 1])]
           step == MaxStep(f)
<1>1. n \in Nat /\ \A i \in D : i - 1 \in BoxRows
  BY BoxRowsAre
<1>2. \A u, v \in Nat : StdMax(u, v) \in Nat
  BY DEF StdMax
<1>3. step \in [Nat \X D -> Nat]
  BY <1>1, <1>2 DEF MaxStep
<1>4. WorstRow(f) = (CHOOSE g : Solves(g))[D]
  BY DEF WorstRow, FoldLeft, MapThenFoldSet
<1>5. ASSUME NEW s \in SUBSET D, s # {}
      PROVE  /\ Max(s) \in D
             /\ \A u \in Nat : step[<<u, Max(s)>>] = StdMax(u, f[seq[Max(s)] - 1])
  <2>1. Max(s) \in D
    BY <1>1, <1>5, MaxIsIn
  <2> QED BY <2>1 DEF MaxStep
<1> HIDE DEF n, step
<1>6. \E g : Solves(g)
  <2>1. PICK g \in [SUBSET D -> Nat] : Folds(g, 0, step, n)
    BY <1>1, <1>3, FoldExists
  <2>2. \A s \in SUBSET D : s # {} => step[<<g[s \ {Max(s)}], Max(s)>>]
                                        = StdMax(g[s \ {Max(s)}], f[seq[Max(s)] - 1])
    BY <1>5
  <2>3. Solves(g)
    BY <2>1, <2>2 DEF Folds
  <2> HIDE DEF Solves
  <2> QED BY <2>3
<1>7. PICK g : Solves(g) /\ WorstRow(f) = g[D]
  BY <1>4, <1>6
<1>8. Agrees(g, Nat, 0, step, n)
  BY <1>5, <1>7 DEF Agrees
<1> HIDE DEF Solves, seq
<1>9. Outcome(Nat, 0, step, n, g[1..n])
  BY <1>1, <1>3, <1>8, FoldSteps
<1> QED BY <1>7, <1>9 DEF n, step

\* std::max over all the rows is 0 exactly if every row has 0.
LEMMA WorstRowIsZero ==
  ASSUME NEW f \in [BoxRows -> Nat]
  PROVE  /\ WorstRow(f) \in Nat
         /\ WorstRow(f) = 0 <=> \A row \in BoxRows : f[row] = 0
<1> DEFINE n == Points(Box)
<1>1. PICK r \in [0..n -> Nat] : Steps(r, 0, MaxStep(f), n) /\ WorstRow(f) = r[n]
  BY WorstRowSteps DEF Outcome
<1>2. n \in Nat /\ BoxRows = 0..n - 1
  BY BoxRowsAre
<1> DEFINE T == {m \in 0..n : r[m] = 0 <=> \A i \in 0..m - 1 : f[i] = 0}
<1> HIDE DEF n
<1>3. ASSUME NEW m \in 1..n PROVE r[m] = StdMax(r[m - 1], f[m - 1])
  <2>1. r[m - 1] \in Nat /\ m \in 1..n
    BY <1>1, <1>2
  <2>2. r[m] = MaxStep(f)[<<r[m - 1], m>>]
    BY <1>1, <2>1 DEF Steps
  <2> QED BY <2>1, <2>2 DEF MaxStep, n
<1>4. 0 \in T
  BY <1>1, <1>2 DEF Steps
<1>5. ASSUME NEW m \in 1..n, m - 1 \in T PROVE m \in T
  <2>1. r[m] = StdMax(r[m - 1], f[m - 1]) /\ r[m - 1] \in Nat /\ f[m - 1] \in Nat
    BY <1>2, <1>3
  <2>2. r[m] = 0 <=> r[m - 1] = 0 /\ f[m - 1] = 0
    BY <2>1, ValidationAssumption DEF ValidationAssumption, StdMax, Less, Number
  <2>3. \A i : i \in 0..m - 1 <=> i \in 0..(m - 1) - 1 \/ i = m - 1
    BY <1>2
  <2>4. r[m - 1] = 0 <=> \A i \in 0..(m - 1) - 1 : f[i] = 0
    BY <1>5
  <2>5. r[m] = 0 <=> \A i \in 0..m - 1 : f[i] = 0
    BY <1>2, <2>2, <2>3, <2>4
  <2> QED BY <1>2, <2>5
<1>6. n \in T
  <2>1. \A m \in 1..n : m - 1 \in T => m \in T
    BY <1>5
  <2> HIDE DEF T
  <2>2. \A m \in 0..n : m \in T
    BY <1>2, <1>4, <2>1, UpTo
  <2> QED BY <1>2, <2>2
<1> QED BY <1>1, <1>2, <1>6
-----------------------------------------------------------------------------
(* validate_solution, for numbers.                                         *)

\* On numbers, the arithmetic that knows NaN is that of module Grid.
LEMMA ApplyRowOfNumbers ==
  ASSUME NEW row \in BoxRows, NEW v \in [BoxRows -> Int]
  PROVE  ApplyRow(row, v) = ApplyRow3d(Box, row, v) /\ ApplyRow(row, v) \in Int
<1> DEFINE seq == Neighbours3d(Box, row)
           n == Len(seq)
           D == DOMAIN seq
           base == 6 * v[row]
           first == Times(6, v[row])
           Solves(f) == f = [s \in SUBSET D |->
                               IF s = {} THEN first
                               ELSE Minus(f[s \ {Max(s)}], v[seq[Max(s)]])]
           step == SubtractStep(Box, row, v)
<1>1. Box \in Grids /\ row \in Rows(Box) /\ v \in [Rows(Box) -> Int]
  BY BoxRowsAre DEF BoxRows
<1>2. seq \in Seq(Int) /\ n \in Nat /\ D = 1..n /\ \A i \in D : v[seq[i]] \in Int
  BY <1>1, NeighboursAreRows
<1>3. base \in Int /\ step \in [Int \X D -> Int]
  BY <1>1, <1>2 DEF SubtractStep
<1>4. (\A u, w \in Int : Minus(u, w) = u - w) /\ first = base
  BY ValidationAssumption DEF ValidationAssumption, Minus, Times, Number
<1>5. ApplyRow(row, v) = (CHOOSE f : Solves(f))[D]
  BY DEF ApplyRow, FoldLeft, MapThenFoldSet
<1>6. ASSUME NEW s \in SUBSET D, s # {}
      PROVE  /\ Max(s) \in D
             /\ \A u \in Int : step[<<u, Max(s)>>] = Minus(u, v[seq[Max(s)]])
  <2>1. Max(s) \in D
    BY <1>2, <1>6, MaxIsIn
  <2> QED BY <1>2, <1>4, <2>1 DEF SubtractStep
<1> HIDE DEF D, n, seq, step, base, first
<1>7. \E f : Solves(f)
  <2>1. PICK f \in [SUBSET D -> Int] : Folds(f, base, step, n)
    BY <1>2, <1>3, FoldExists
  <2>2. \A s \in SUBSET D : s # {} => step[<<f[s \ {Max(s)}], Max(s)>>]
                                        = Minus(f[s \ {Max(s)}], v[seq[Max(s)]])
    BY <1>6
  <2>3. Solves(f)
    BY <1>2, <1>4, <2>1, <2>2 DEF Folds
  <2> HIDE DEF Solves
  <2> QED BY <2>3
<1>8. PICK f : Solves(f) /\ ApplyRow(row, v) = f[D]
  BY <1>5, <1>7
<1>9. Agrees(f, Int, base, step, n)
  BY <1>2, <1>4, <1>6, <1>8 DEF Agrees
<1> HIDE DEF Solves
<1>10. Outcome(Int, base, step, n, ApplyRow(row, v))
  <2>1. Outcome(Int, base, step, n, f[1..n])
    BY <1>2, <1>3, <1>9, FoldSteps
  <2> QED BY <1>2, <1>8, <2>1
<1>11. Outcome(Int, base, step, n, ApplyRow3d(Box, row, v))
  BY <1>1, ApplyRow3dSteps DEF n, seq, step, base
<1> HIDE DEF Outcome
<1> QED BY <1>2, <1>10, <1>11, OutcomeUnique

LEMMA ExpectedIs ==
  ASSUME NEW j \in Nat
  PROVE  /\ ExpectedOf(j) \in [BoxRows -> Int]
         /\ \A row \in BoxRows : ExpectedOf(j)[row] = ExactValue(row, j) /\ ExactValue(row, j) >= 100
<1>1. ASSUME NEW row \in BoxRows PROVE ExactValue(row, j) \in Int /\ ExactValue(row, j) >= 100
  <2> DEFINE a == row + 17 * j
  <2>1. a \in Nat
    BY BoxRowsAre
  <2>2. ExactValue(row, j) = 100 + (a % 23)
    BY DEF ExactValue
  <2> HIDE DEF a
  <2>3. a % 23 \in Int /\ a % 23 >= 0
    BY <2>1
  <2> QED BY <2>2, <2>3
<1> QED BY <1>1 DEF ExpectedOf

\* The error is 0 for the expected solution alone, and for it the residual is 0.
LEMMA MetricsOfNumbers ==
  ASSUME NEW v \in [BoxRows -> Int], NEW j \in Nat
  PROVE  /\ Metrics(v, j).error \in Nat /\ Metrics(v, j).residual \in Nat
         /\ Metrics(v, j).error = 0 <=> v = ExpectedOf(j)
         /\ v = ExpectedOf(j) => Metrics(v, j).residual = 0
<1> DEFINE e == [row \in BoxRows |-> AbsOf(Minus(v[row], ExpectedOf(j)[row]))]
           r == [row \in BoxRows |-> AbsOf(Minus(RhsOf(j)[row], ApplyRow(row, v)))]
<1>1. \A a, b \in Int : AbsOf(Minus(a, b)) \in Nat /\ (AbsOf(Minus(a, b)) = 0 <=> a = b)
  BY ValidationAssumption DEF ValidationAssumption, AbsOf, Minus, Number
<1>2. ExpectedOf(j) \in [BoxRows -> Int]
  BY ExpectedIs
<1>3. e \in [BoxRows -> Nat] /\ \A row \in BoxRows : e[row] = 0 <=> v[row] = ExpectedOf(j)[row]
  BY <1>1, <1>2
<1>4. ASSUME NEW row \in BoxRows
      PROVE  /\ ApplyRow(row, v) \in Int /\ RhsOf(j)[row] \in Int
             /\ v = ExpectedOf(j) => RhsOf(j)[row] = ApplyRow(row, v)
  <2>1. ApplyRow(row, v) \in Int /\ ApplyRow(row, v) = ApplyRow3d(Box, row, v)
    BY ApplyRowOfNumbers
  <2>2. ApplyRow3d(Box, row, ExpectedOf(j)) \in Int
    BY <1>2, ApplyRowOfNumbers
  <2>3. RhsOf(j)[row] = ApplyRow3d(Box, row, ExpectedOf(j))
    BY DEF RhsOf
  <2> QED BY <2>1, <2>2, <2>3
<1>5. r \in [BoxRows -> Nat] /\ (v = ExpectedOf(j) => \A row \in BoxRows : r[row] = 0)
  BY <1>1, <1>4
<1>6. Metrics(v, j) = [error |-> WorstRow(e), residual |-> WorstRow(r)]
  BY DEF Metrics
<1> HIDE DEF e, r
<1>7. WorstRow(e) \in Nat /\ (WorstRow(e) = 0 <=> \A row \in BoxRows : e[row] = 0)
  BY <1>3, WorstRowIsZero
<1>8. WorstRow(r) \in Nat /\ (WorstRow(r) = 0 <=> \A row \in BoxRows : r[row] = 0)
  BY <1>5, WorstRowIsZero
<1> QED BY <1>2, <1>3, <1>5, <1>6, <1>7, <1>8
-----------------------------------------------------------------------------
(* The invariant.                                                          *)

Solved == [values : [BoxRows -> Int \cup {NaN}], read : SUBSET BoxRows]

AllExact == \A j \in 1..Len(solutions) : Exact(solutions[j], j - 1)

\* What the reader has filled in so far.
Filling ==
  /\ solution \in [BoxRows -> Int \cup {NaN}] /\ read \subseteq BoxRows
  /\ computed = [row \in BoxRows |-> IF row \in read THEN solution[row] ELSE 0]

VInv ==
  /\ rhsIndex \in Nat /\ solutions \in Seq(Solved) /\ Len(solutions) = rhsIndex
  /\ vpc \in {"solve", "read"} => rhsIndex < RhsCount
  /\ vpc \in {"passed", "validation failed"} => rhsIndex = RhsCount
  /\ vpc = "read" => Filling
  /\ AllExact => worst = [error |-> 0, residual |-> 0]
  /\ vpc = "validation failed" => Rejected(worst)

LEMMA ZeroIsAccepted == ~ Less(0, 0)
BY DEF Less

LEMMA VInitInvariant == ValInit => VInv
BY ValidationAssumption DEF ValInit, VInv, ValidationAssumption

\* What becomes of the history when a solution is judged.
LEMMA History ==
  ASSUME VInv, Validate, Filling
  PROVE  /\ solutions' \in Seq(Solved) /\ Len(solutions') = rhsIndex + 1
         /\ AllExact' <=> AllExact /\ read = BoxRows /\ solution = ExpectedOf(rhsIndex)
<1> DEFINE s == [values |-> solution, read |-> read]
<1>1. s \in Solved /\ solutions \in Seq(Solved) /\ Len(solutions) = rhsIndex /\ rhsIndex \in Nat
  BY DEF VInv, Filling, Solved
<1>2. solutions' = Append(solutions, s)
  BY DEF Validate
<1>3. Exact(s, rhsIndex) <=> read = BoxRows /\ solution = ExpectedOf(rhsIndex)
  BY DEF Exact
<1> HIDE DEF s
<1>4. /\ solutions' \in Seq(Solved) /\ Len(solutions') = rhsIndex + 1
      /\ solutions'[rhsIndex + 1] = s
      /\ \A j \in 1..rhsIndex : solutions'[j] = solutions[j]
  BY <1>1, <1>2
<1>5. AllExact' <=> \A j \in 1..rhsIndex + 1 : Exact(solutions'[j], j - 1)
  BY <1>4 DEF AllExact, Exact
<1>6. AllExact <=> \A j \in 1..rhsIndex : Exact(solutions[j], j - 1)
  BY <1>1 DEF AllExact
<1>7. Exact(solutions'[rhsIndex + 1], (rhsIndex + 1) - 1) <=> Exact(s, rhsIndex)
  BY <1>1, <1>4
<1>8. \A j : j \in 1..rhsIndex + 1 <=> j \in 1..rhsIndex \/ j = rhsIndex + 1
  BY <1>1
<1>9. AllExact' <=> AllExact /\ Exact(s, rhsIndex)
  <2> HIDE DEF AllExact
  <2> QED BY <1>4, <1>5, <1>6, <1>7, <1>8
<1> QED BY <1>3, <1>4, <1>9

\* Where a judgement leads.
LEMMA Verdict ==
  ASSUME Validate, rhsIndex \in Nat, rhsIndex < RhsCount
  PROVE  \/ vpc' = "solve" /\ rhsIndex' < RhsCount
         \/ vpc' = "validation failed" /\ Rejected(worst') /\ rhsIndex' = RhsCount
         \/ vpc' = "passed" /\ ~Rejected(worst') /\ rhsIndex' = RhsCount
<1>1. /\ rhsIndex < RhsCount - 1 => rhsIndex + 1 < RhsCount
      /\ ~ (rhsIndex < RhsCount - 1) => rhsIndex + 1 = RhsCount
  BY ValidationAssumption DEF ValidationAssumption
<1>2. /\ rhsIndex' = rhsIndex + 1
      /\ vpc' = IF rhsIndex < RhsCount - 1 THEN "solve"
                ELSE IF Rejected(worst') THEN "validation failed" ELSE "passed"
  BY DEF Validate
<1> QED BY <1>1, <1>2

LEMMA VNextInvariant == VInv /\ [ValNext]_valVars => VInv'
<1> SUFFICES ASSUME VInv, [ValNext]_valVars PROVE VInv'
  OBVIOUS
<1>1. ASSUME NEW outcome \in {"numeric error", "unsupported", "not converged"}, SolveFails(outcome)
      PROVE  VInv'
  BY <1>1 DEF SolveFails, VInv, AllExact, Exact
<1>2. ASSUME SolveSucceeds PROVE VInv'
  <2>1. solution' \in [BoxRows -> Int \cup {NaN}]
    <3>1. PICK offset \in [BoxRows -> Offsets] :
            solution' = [row \in BoxRows |->
              IF Number(offset[row]) THEN ExactValue(row, rhsIndex) + offset[row] ELSE NaN]
      BY <1>2 DEF SolveSucceeds
    <3>2. \A row \in BoxRows : ExactValue(row, rhsIndex) \in Int
      BY ExpectedIs DEF VInv
    <3>3. \A row \in BoxRows : offset[row] \in Int \cup {NaN}
      BY ValidationAssumption DEF ValidationAssumption
    <3>4. \A row \in BoxRows :
            (IF Number(offset[row]) THEN ExactValue(row, rhsIndex) + offset[row] ELSE NaN)
              \in Int \cup {NaN}
      BY <3>2, <3>3 DEF Number
    <3> QED BY <3>1, <3>4
  <2>2. Filling'
    BY <1>2, <2>1 DEF SolveSucceeds, Filling, BoxRows
  <2> QED BY <1>2, <2>2 DEF SolveSucceeds, VInv, AllExact, Exact
<1>3. ASSUME SolutionReader PROVE VInv'
  <2>1. PICK beg \in BoxRows, end \in BoxRows :
          /\ read' = read \cup beg..end
          /\ computed' = [row \in BoxRows |->
                            IF row \in beg..end THEN solution[row] ELSE computed[row]]
    BY <1>3 DEF SolutionReader
  <2>2. beg..end \subseteq BoxRows
    BY <2>1, BoxRowsAre
  <2>3. Filling'
    BY <1>3, <2>1, <2>2 DEF SolutionReader, VInv, Filling, BoxRows
  <2> QED BY <1>3, <2>3 DEF SolutionReader, VInv, AllExact, Exact
<1>4. ASSUME Validate PROVE VInv'
  <2>1. /\ vpc = "read" /\ Filling /\ rhsIndex \in Nat /\ rhsIndex < RhsCount
        /\ rhsIndex' = rhsIndex + 1 /\ worst' = Worse(worst, Metrics(computed, rhsIndex))
    BY <1>4 DEF Validate, VInv
  <2>2. /\ solutions' \in Seq(Solved) /\ Len(solutions') = rhsIndex + 1
        /\ AllExact' <=> AllExact /\ read = BoxRows /\ solution = ExpectedOf(rhsIndex)
    BY <1>4, <2>1, History
  <2>3. AllExact' => worst' = [error |-> 0, residual |-> 0]
    <3> SUFFICES ASSUME AllExact' PROVE worst' = [error |-> 0, residual |-> 0]
      OBVIOUS
    <3>1. worst = [error |-> 0, residual |-> 0]
      BY <2>2 DEF VInv
    <3>2. computed = ExpectedOf(rhsIndex) /\ computed \in [BoxRows -> Int]
      <4>1. ExpectedOf(rhsIndex) \in [BoxRows -> Int] /\ read = BoxRows
            /\ solution = ExpectedOf(rhsIndex)
        BY <2>1, <2>2, ExpectedIs
      <4>2. computed = [row \in BoxRows |-> solution[row]]
        BY <2>1, <4>1 DEF Filling
      <4> QED BY <4>1, <4>2
    <3>3. Metrics(computed, rhsIndex).error = 0 /\ Metrics(computed, rhsIndex).residual = 0
      BY <2>1, <3>2, MetricsOfNumbers
    <3>4. StdMax(0, 0) = 0
      BY DEF StdMax
    <3> QED BY <2>1, <3>1, <3>3, <3>4 DEF Worse
  <2>4. \/ vpc' = "solve" /\ rhsIndex' < RhsCount
        \/ vpc' = "validation failed" /\ Rejected(worst') /\ rhsIndex' = RhsCount
        \/ vpc' = "passed" /\ rhsIndex' = RhsCount
    BY <1>4, <2>1, Verdict
  <2>5. Rejected(worst)' = Rejected(worst')
    BY DEF Rejected, Less, Number
  <2>6. /\ rhsIndex' \in Nat /\ solutions' \in Seq(Solved) /\ Len(solutions') = rhsIndex'
        /\ vpc' # "read"
        /\ vpc' \in {"solve", "read"} => rhsIndex' < RhsCount
        /\ vpc' \in {"passed", "validation failed"} => rhsIndex' = RhsCount
        /\ vpc' = "validation failed" => Rejected(worst')
    <3>1. rhsIndex' = rhsIndex + 1 /\ rhsIndex' \in Nat
      BY <2>1
    <3>2. solutions' \in Seq(Solved) /\ Len(solutions') = rhsIndex'
      BY <2>2, <3>1
    <3>3. \/ vpc' = "solve" /\ rhsIndex' < RhsCount
          \/ vpc' = "validation failed" /\ Rejected(worst') /\ rhsIndex' = RhsCount
          \/ vpc' = "passed" /\ rhsIndex' = RhsCount
      BY <2>4
    <3> HIDE DEF Rejected
    <3> QED BY <3>1, <3>2, <3>3
  <2> HIDE DEF AllExact, Rejected, Filling, Solved
  <2>7. VInv' <=>
          /\ rhsIndex' \in Nat /\ solutions' \in Seq(Solved) /\ Len(solutions') = rhsIndex'
          /\ vpc' \in {"solve", "read"} => rhsIndex' < RhsCount
          /\ vpc' \in {"passed", "validation failed"} => rhsIndex' = RhsCount
          /\ vpc' = "read" => Filling'
          /\ AllExact' => worst' = [error |-> 0, residual |-> 0]
          /\ vpc' = "validation failed" => Rejected(worst)'
    BY DEF VInv
  <2> QED BY <2>3, <2>5, <2>6, <2>7
<1>5. ASSUME ValDone \/ UNCHANGED valVars PROVE VInv'
  BY <1>5 DEF ValDone, valVars, VInv, Filling, AllExact, Exact, Rejected, Less, Number
<1> QED BY <1>1, <1>2, <1>3, <1>4, <1>5 DEF ValNext

THEOREM VInvariance == ValSpec => []VInv
BY VInitInvariant, VNextInvariant, PTL DEF ValSpec

\* A solver that computes what is expected is never failed: for any box, any number
\* of right-hand sides, and rows presented in any ranges.
THEOREM AccurateAlwaysPasses == ValSpec => []AccurateIsPassed
<1>1. VInv => AccurateIsPassed
  <2> SUFFICES ASSUME VInv, vpc = "validation failed",
                      \A j \in 1..RhsCount : Exact(solutions[j], j - 1)
               PROVE  FALSE
    BY DEF AccurateIsPassed
  <2>1. AllExact
    BY DEF VInv, AllExact
  <2>2. worst = [error |-> 0, residual |-> 0] /\ Rejected(worst)
    BY <2>1 DEF VInv
  <2>3. worst.error = 0 /\ worst.residual = 0
    BY <2>2
  <2> QED BY <2>2, <2>3, ZeroIsAccepted DEF Rejected
<1> QED BY <1>1, VInvariance, PTL
-----------------------------------------------------------------------------
(* What a passed benchmark says, of solvers that compute numbers.          *)

NInv ==
  /\ NaN \notin Offsets
  /\ VInv
  /\ vpc = "read" => solution \in [BoxRows -> Int]
  /\ worst.error \in Nat
  /\ worst.error = 0 => AllExact
  /\ vpc = "passed" => worst.error = 0

LEMMA NInitInvariant == NaN \notin Offsets /\ ValInit => NInv
<1> SUFFICES ASSUME NaN \notin Offsets, ValInit PROVE NInv
  OBVIOUS
<1>1. VInv
  BY VInitInvariant
<1>2. vpc = "solve" /\ worst = [error |-> 0, residual |-> 0] /\ solutions = <<>>
  BY DEF ValInit
<1> QED BY <1>1, <1>2 DEF NInv, AllExact

\* What the reader filled in is the expected solution only if every row was presented:
\* no expected value is the 0 that the vector is filled with.
LEMMA FilledIsPresented ==
  ASSUME Filling, NEW j \in Nat, computed = ExpectedOf(j)
  PROVE  read = BoxRows /\ solution = ExpectedOf(j)
<1>1. ExpectedOf(j) \in [BoxRows -> Int] /\ \A row \in BoxRows : ExpectedOf(j)[row] # 0
  BY ExpectedIs
<1>2. \A row \in BoxRows : row \in read /\ solution[row] = ExpectedOf(j)[row]
  BY <1>1 DEF Filling
<1> QED BY <1>1, <1>2 DEF Filling

LEMMA NNextInvariant == NInv /\ [ValNext]_valVars => NInv'
<1> SUFFICES ASSUME NInv, [ValNext]_valVars PROVE NInv'
  OBVIOUS
<1>1. VInv' /\ VInv /\ NaN \notin Offsets
  BY VNextInvariant DEF NInv
<1>2. ASSUME NEW outcome \in {"numeric error", "unsupported", "not converged"}, SolveFails(outcome)
      PROVE  NInv'
  BY <1>1, <1>2 DEF SolveFails, NInv, AllExact, Exact
<1>3. ASSUME SolveSucceeds PROVE NInv'
  <2>1. PICK offset \in [BoxRows -> Offsets] :
          solution' = [row \in BoxRows |->
            IF Number(offset[row]) THEN ExactValue(row, rhsIndex) + offset[row] ELSE NaN]
    BY <1>3 DEF SolveSucceeds
  <2>2. \A row \in BoxRows : ExactValue(row, rhsIndex) \in Int
    <3>1. rhsIndex \in Nat
      BY <1>1 DEF VInv
    <3> QED BY <3>1, ExpectedIs
  <2>3. \A row \in BoxRows : offset[row] \in Int /\ Number(offset[row])
    BY <1>1, ValidationAssumption DEF ValidationAssumption, Number
  <2>4. solution' \in [BoxRows -> Int]
    BY <2>1, <2>2, <2>3
  <2>5. UNCHANGED <<worst, solutions>> /\ vpc' = "read" /\ AllExact' = AllExact
    BY <1>3 DEF SolveSucceeds, AllExact, Exact
  <2> HIDE DEF AllExact
  <2> QED BY <1>1, <2>4, <2>5 DEF NInv, BoxRows
<1>4. ASSUME SolutionReader PROVE NInv'
  BY <1>1, <1>4 DEF SolutionReader, NInv, AllExact, Exact
<1>5. ASSUME Validate PROVE NInv'
  <2>1. /\ vpc = "read" /\ Filling /\ rhsIndex \in Nat /\ rhsIndex < RhsCount
        /\ worst' = Worse(worst, Metrics(computed, rhsIndex))
    BY <1>1, <1>5 DEF Validate, VInv
  <2>2. computed \in [BoxRows -> Int]
    BY <2>1 DEF NInv, Filling
  <2>3. /\ Metrics(computed, rhsIndex).error \in Nat
        /\ Metrics(computed, rhsIndex).error = 0 => computed = ExpectedOf(rhsIndex)
    BY <2>1, <2>2, MetricsOfNumbers
  <2>4. worst'.error = StdMax(worst.error, Metrics(computed, rhsIndex).error)
    BY <2>1 DEF Worse
  <2>5. \A u, v \in Nat : StdMax(u, v) \in Nat /\ (StdMax(u, v) = 0 => u = 0 /\ v = 0)
    BY ValidationAssumption DEF ValidationAssumption, StdMax, Less, Number
  <2>6. worst'.error \in Nat
    BY <2>3, <2>4, <2>5 DEF NInv
  <2>7. ASSUME worst'.error = 0 PROVE AllExact'
    <3>1. worst.error = 0 /\ Metrics(computed, rhsIndex).error = 0
      BY <2>3, <2>4, <2>5, <2>7 DEF NInv
    <3>2. AllExact
      BY <3>1 DEF NInv
    <3>3. read = BoxRows /\ solution = ExpectedOf(rhsIndex)
      BY <2>1, <2>3, <3>1, FilledIsPresented
    <3> HIDE DEF AllExact
    <3> QED BY <1>1, <1>5, <2>1, <3>2, <3>3, History
  <2>8. ASSUME vpc' = "passed" PROVE worst'.error = 0
    <3>1. ~ Rejected(worst')
      BY <1>5, <2>1, <2>8, Verdict
    <3>2. ~ Less(0, worst'.error)
      BY <3>1 DEF Rejected
    <3> QED BY <2>6, <3>2, ValidationAssumption DEF ValidationAssumption, Less, Number
  <2>9. vpc' # "read"
    BY <1>5, <2>1, Verdict
  <2> HIDE DEF AllExact
  <2> QED BY <1>1, <2>6, <2>7, <2>8, <2>9 DEF NInv
<1>6. ASSUME ValDone \/ UNCHANGED valVars PROVE NInv'
  <2>1. UNCHANGED valVars
    BY <1>6 DEF ValDone
  <2> QED BY <1>1, <2>1 DEF valVars, NInv, AllExact, Exact
<1> QED BY <1>2, <1>3, <1>4, <1>5, <1>6 DEF ValNext

\* A solver that computes numbers passes only if it presents every row of every
\* solution with the expected value.
THEOREM PassedIsAlwaysAccurate ==
  NaN \notin Offsets /\ ValSpec => []PassedIsAccurate
<1>1. NInv => PassedIsAccurate
  <2> SUFFICES ASSUME NInv, vpc = "passed"
               PROVE  /\ Len(solutions) = RhsCount
                      /\ \A j \in 1..RhsCount : Exact(solutions[j], j - 1)
    BY DEF PassedIsAccurate
  <2>1. AllExact /\ Len(solutions) = RhsCount
    BY DEF NInv, VInv
  <2> QED BY <2>1 DEF AllExact
<1> QED BY <1>1, NInitInvariant, NNextInvariant, PTL DEF ValSpec
=============================================================================
