-------------------------------- MODULE Grid --------------------------------
(***************************************************************************)
(* The arithmetic of struct laplacian_3d and of the 1d benchmark: numbers  *)
(* of grid points, the stencil around a point, and the manufactured        *)
(* solutions.  Rows and coordinates start at 0, as in the code; values are *)
(* counted in hundredths, which makes every manufactured value an integer. *)
(***************************************************************************)
EXTENDS Integers, Sequences, SequencesExt

\* struct laplacian_3d; the 1d benchmark is the line [mx |-> n, my |-> 1, mz |-> 1].
Points(g) == g.mx * g.my * g.mz

Rows(g) == 0..Points(g) - 1

Index(g, x, y, z) == x + g.mx * (y + g.my * z)

Coordinates(g, row) ==
  LET yz == row \div g.mx
  IN  [x |-> row % g.mx, y |-> yz % g.my, z |-> yz \div g.my]

\* bool converted to int, and a value that is there only under a condition.
One(p) == IF p THEN 1 ELSE 0
Only(p, v) == IF p THEN <<v>> ELSE <<>>

\* x + 1 <= mx instead of x + 1 < mx.
MutantDegree3d(g, row) ==
  LET c == Coordinates(g, row)
  IN  1 + One(c.x > 0) + One(c.x + 1 <= g.mx) + One(c.y > 0) + One(c.y + 1 < g.my)
        + One(c.z > 0) + One(c.z + 1 < g.mz)

Degree3d(g, row) ==
  LET c == Coordinates(g, row)
  IN  1 + One(c.x > 0) + One(c.x + 1 < g.mx) + One(c.y > 0) + One(c.y + 1 < g.my)
        + One(c.z > 0) + One(c.z + 1 < g.mz)

\* The last neighbour is taken one plane too low.
MutantNeighbours3d(g, row) ==
  LET c == Coordinates(g, row)
  IN  Only(c.x > 0, Index(g, c.x - 1, c.y, c.z))
        \o Only(c.x + 1 < g.mx, Index(g, c.x + 1, c.y, c.z))
        \o Only(c.y > 0, Index(g, c.x, c.y - 1, c.z))
        \o Only(c.y + 1 < g.my, Index(g, c.x, c.y + 1, c.z))
        \o Only(c.z > 0, Index(g, c.x, c.y, c.z - 1))
        \o Only(c.z + 1 < g.mz, Index(g, c.x, c.y, c.z))

\* for_each_neighbor, as the sequence of the columns it visits.
Neighbours3d(g, row) ==
  LET c == Coordinates(g, row)
  IN  Only(c.x > 0, Index(g, c.x - 1, c.y, c.z))
        \o Only(c.x + 1 < g.mx, Index(g, c.x + 1, c.y, c.z))
        \o Only(c.y > 0, Index(g, c.x, c.y - 1, c.z))
        \o Only(c.y + 1 < g.my, Index(g, c.x, c.y + 1, c.z))
        \o Only(c.z > 0, Index(g, c.x, c.y, c.z - 1))
        \o Only(c.z + 1 < g.mz, Index(g, c.x, c.y, c.z + 1))

Edges3d(g, row) == Append(Neighbours3d(g, row), row)

Degree1d(n, row) == 1 + One(row > 0) + One(row + 1 < n)

Edges1d(n, row) ==
  Only(row > 0, row - 1) \o <<row>> \o Only(row + 1 < n, row + 1)

\* exact_value, and the solution of all ones of the 1d benchmark.
ExactValue(row, k) == 100 + ((row + 17 * k) % 23)

OnesValue(row) == 100

\* apply_row over the edges of the graph, diagonal included.
MutantApplyRow3d(g, row, values) ==
  FoldLeft(LAMBDA sum, col : sum - values[col], 6 * values[row], Edges3d(g, row))

\* apply_row, and the same stencil written out in the 1d benchmark.
ApplyRow3d(g, row, values) ==
  FoldLeft(LAMBDA sum, col : sum - values[col], 6 * values[row], Neighbours3d(g, row))

ApplyRow1d(n, row, values) ==
  2 * values[row] - (IF row > 0 THEN values[row - 1] ELSE 0)
                  - (IF row + 1 < n THEN values[row + 1] ELSE 0)

-----------------------------------------------------------------------------
(* Geometry, for the properties of the other modules.                      *)

Abs(v) == IF v < 0 THEN -v ELSE v

\* Two rows are grid points next to each other.
Adjacent(g, r, c) ==
  LET p == Coordinates(g, r)
      q == Coordinates(g, c)
  IN  Abs(p.x - q.x) + Abs(p.y - q.y) + Abs(p.z - q.z) = 1

=============================================================================
