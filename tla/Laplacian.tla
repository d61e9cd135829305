------------------------------ MODULE Laplacian ------------------------------
(***************************************************************************)
(* How a benchmark's matrix and right-hand side reach the solver: the      *)
(* solver plugin calls the count, edge, value and right-hand side builders *)
(* of the benchmark for ranges of rows, cut and ordered as it likes, and   *)
(* stores what they set.  That every row is asked once, and counts before  *)
(* edges before values, is the plugin's side of the interface.             *)
(***************************************************************************)
EXTENDS Grid, FiniteSets, FiniteSetsExt

CONSTANTS
  Lines,   \* lengths of the 1d benchmark; the code has 16
  Boxes,   \* <<mx, my, mz>> of the 3d benchmark; the code has <<20, 20, 20>>
  Rhs      \* right-hand side indices; the code has 0..99

ASSUME LaplacianAssumption ==
  /\ Lines \subseteq Nat \ {0}
  /\ Boxes \subseteq [mx : Nat \ {0}, my : Nat \ {0}, mz : Nat \ {0}]
  /\ Rhs \subseteq Nat

VARIABLES
  dim,     \* 1 or 3: which benchmark; rigid
  grid,    \* its grid; rigid
  k,       \* the right-hand side index; rigid
  counts,  \* the solver's storage, for the rows built so far: degrees,
  edges,   \* columns of the edges,
  values,  \* values on the edges,
  rhs      \* and right-hand side

lapVars == <<dim, grid, k, counts, edges, values, rhs>>
-----------------------------------------------------------------------------
(* The two benchmarks.                                                     *)

AllRows == Rows(grid)
Size == Points(grid)

Diagonal == IF dim = 1 THEN 2 ELSE 6

Expected(row) == IF dim = 1 THEN OnesValue(row) ELSE ExactValue(row, k)

DegreeOf(row) == IF dim = 1 THEN Degree1d(Size, row) ELSE Degree3d(grid, row)

EdgesOf(row) == IF dim = 1 THEN Edges1d(Size, row) ELSE Edges3d(grid, row)

HostRhs(row) ==
  LET expected == [r \in AllRows |-> Expected(r)]
  IN  IF dim = 1 THEN ApplyRow1d(Size, row, expected)
                 ELSE ApplyRow3d(grid, row, expected)
-----------------------------------------------------------------------------
(* The callbacks.  builder.beg..builder.end - 1 is a range of rows.        *)

Ranges(todo) ==
  {rows \in {beg..end : beg, end \in AllRows} : rows # {} /\ rows \subseteq todo}

Complete(store) == DOMAIN store = AllRows

\* The storage after a builder has set Value of each of the rows.
Filled(store, rows, Value(_)) ==
  [r \in DOMAIN store \cup rows |-> IF r \in rows THEN Value(r) ELSE store[r]]

CountBuilder ==
  /\ \E rows \in Ranges(AllRows \ DOMAIN counts) :
       counts' = Filled(counts, rows, DegreeOf)
  /\ UNCHANGED <<dim, grid, k, edges, values, rhs>>

EdgeBuilder ==
  /\ Complete(counts)
  /\ \E rows \in Ranges(AllRows \ DOMAIN edges) :
       edges' = Filled(edges, rows, EdgesOf)
  /\ UNCHANGED <<dim, grid, k, counts, values, rhs>>

\* The diagonal is the number of neighbours, as in a graph Laplacian.
MutantValuesOf(row) ==
  [e \in 1..counts[row] |-> IF edges[row][e] = row THEN counts[row] - 1 ELSE -1]

\* The value of an edge is chosen by its column, read back from the solver.
ValuesOf(row) == [e \in 1..counts[row] |-> IF edges[row][e] = row THEN Diagonal ELSE -1]

ValueBuilder ==
  /\ Complete(edges)
  /\ \E rows \in Ranges(AllRows \ DOMAIN values) :
       values' = Filled(values, rows, ValuesOf)
  /\ UNCHANGED <<dim, grid, k, counts, edges, rhs>>

RhsBuilder ==
  /\ Complete(values)
  /\ \E rows \in Ranges(AllRows \ DOMAIN rhs) :
       rhs' = Filled(rhs, rows, HostRhs)
  /\ UNCHANGED <<dim, grid, k, counts, edges, values>>

Built == Complete(rhs) /\ UNCHANGED lapVars

LapInit ==
  /\ \/ dim = 1 /\ grid \in {[mx |-> n, my |-> 1, mz |-> 1] : n \in Lines}
     \/ dim = 3 /\ grid \in Boxes
  /\ k \in IF dim = 1 THEN {0} ELSE Rhs
  /\ counts = <<>> /\ edges = <<>> /\ values = <<>> /\ rhs = <<>>

LapNext == CountBuilder \/ EdgeBuilder \/ ValueBuilder \/ RhsBuilder \/ Built

LapSpec == LapInit /\ [][LapNext]_lapVars
-----------------------------------------------------------------------------
(* Properties.                                                             *)

\* The edge builder sets exactly as many edges as the count builder announced,
\* each to another row of the matrix: the solver's storage is neither overrun
\* nor left with unset slots, however the rows were cut into ranges.
CountsMatchEdges ==
  \A r \in DOMAIN edges :
    /\ Len(edges[r]) = counts[r]
    /\ IsInjective(edges[r])
    /\ \A e \in 1..Len(edges[r]) : edges[r][e] \in AllRows

\* The value of entry (r, c) in the solver's storage; 0 where there is no edge.  No
\* two edges of a row have the same column, by CountsMatchEdges.
Entry(r, c) ==
  LET at == {e \in 1..counts[r] : edges[r][e] = c}
  IN  IF at = {} THEN 0 ELSE values[r][CHOOSE e \in at : TRUE]

\* The values are all set and nothing was built from them yet.
JustBuilt == Complete(values) /\ rhs = <<>>

\* The matrix in the solver is the Laplacian of the grid.
MatrixIsLaplacian ==
  JustBuilt =>
    \A r, c \in AllRows :
      Entry(r, c) = IF r = c THEN Diagonal ELSE IF Adjacent(grid, r, c) THEN -1 ELSE 0

\* The sum of the magnitudes of the other entries of a row.
OffDiagonal(r) == MapThenSumSet(LAMBDA c : Abs(Entry(r, c)), AllRows \ {r})

\* The properties that the benchmark asserts of the problem are true: it is
\* symmetric; and it is nonsingular and positive definite, because its diagonal
\* dominates every row, some row strictly, and no block of rows is decoupled.
AssertedPropertiesHold ==
  JustBuilt =>
    /\ \A r, c \in AllRows : Entry(r, c) = Entry(c, r)
    /\ \A r \in AllRows : OffDiagonal(r) <= Entry(r, r)
    /\ \E r \in AllRows : OffDiagonal(r) < Entry(r, r)
    /\ \A block \in (SUBSET AllRows) \ {{}, AllRows} :
         \E r \in block, c \in AllRows \ block : Entry(r, c) # 0

\* A row of the matrix in the solver times the expected solution.
RowTimesExpected(r) ==
  FoldLeft(LAMBDA sum, e : sum + values[r][e] * Expected(edges[r][e]), 0,
           [e \in 1..counts[r] |-> e])

\* The right-hand side is the matrix in the solver times the expected solution:
\* apply_row, used by the host, and the builders, used by the solver, agree.
RhsMatchesMatrix == Complete(rhs) => \A r \in AllRows : rhs[r] = RowTimesExpected(r)

=============================================================================
