----------------------------- MODULE GridProofs -----------------------------
(***************************************************************************)
(* Proofs about the arithmetic of module Grid, for boxes and lines of any  *)
(* size: index and coordinates are inverse to each other, and what         *)
(* for_each_neighbor visits is the neighbourhood of a grid point, each     *)
(* neighbour once, as many as degree says.                                 *)
(***************************************************************************)
EXTENDS Grid, FoldProofs

Side == Nat \ {0}
Grids == [mx : Side, my : Side, mz : Side]

\* The grid points.
InBox(g, x, y, z) == x \in 0..g.mx - 1 /\ y \in 0..g.my - 1 /\ z \in 0..g.mz - 1
-----------------------------------------------------------------------------
(* Division.                                                               *)

LEMMA DivMod ==
  ASSUME NEW a \in Nat, NEW b \in Side
  PROVE  a \div b \in Nat /\ a % b \in 0..b - 1 /\ a = (a % b) + b * (a \div b)
BY SMT DEF Side

LEMMA DivModUnique ==
  ASSUME NEW b \in Side, NEW q \in Nat, NEW r \in 0..b - 1
  PROVE  (r + b * q) \div b = q /\ (r + b * q) % b = r
BY SMT DEF Side

LEMMA QuotientBelow ==
  ASSUME NEW b \in Side, NEW q \in Int, NEW n \in Int, b * q < b * n
  PROVE  q < n
BY SMT DEF Side

LEMMA ProductBelow ==
  ASSUME NEW b \in Side, NEW q \in Int, NEW n \in Int, q < n
  PROVE  b * q + b <= b * n
<1>1. b * (q + 1) <= b * n
  BY SMT DEF Side
<1> QED BY <1>1, SMT DEF Side

LEMMA Products ==
  ASSUME NEW g \in Grids
  PROVE  /\ g.mx \in Side /\ g.my \in Side /\ g.mz \in Side
         /\ g.my * g.mz \in Nat /\ Points(g) = g.mx * (g.my * g.mz) /\ Points(g) \in Nat
<1>1. g.mx \in Side /\ g.my \in Side /\ g.mz \in Side
  BY DEF Grids
<1> QED BY <1>1, SMT DEF Side, Points
-----------------------------------------------------------------------------
(* index and coordinates.                                                  *)

\* The coordinates of a row are a grid point, and index takes them back.
THEOREM CoordinatesOfRow ==
  ASSUME NEW g \in Grids, NEW row \in Rows(g)
  PROVE  LET c == Coordinates(g, row)
         IN  InBox(g, c.x, c.y, c.z) /\ Index(g, c.x, c.y, c.z) = row
<1> DEFINE yz == row \div g.mx
<1>1. g.mx \in Side /\ g.my \in Side /\ g.mz \in Side /\ g.my * g.mz \in Nat
  BY Products
<1>2. row \in Nat /\ row < g.mx * (g.my * g.mz)
  BY Products DEF Rows
<1>3. yz \in Nat /\ row % g.mx \in 0..g.mx - 1 /\ row = (row % g.mx) + g.mx * yz
  BY <1>1, <1>2, DivMod
<1> HIDE DEF yz
<1>4. yz < g.my * g.mz
  <2>1. g.mx * yz < g.mx * (g.my * g.mz)
    BY <1>1, <1>2, <1>3 DEF Side
  <2> QED BY <1>1, <1>3, <2>1, QuotientBelow
<1>5. yz \div g.my \in Nat /\ yz % g.my \in 0..g.my - 1 /\ yz = (yz % g.my) + g.my * (yz \div g.my)
  BY <1>1, <1>3, DivMod
<1>6. yz \div g.my < g.mz
  <2>1. g.my * (yz \div g.my) < g.my * g.mz
    BY <1>1, <1>3, <1>4, <1>5 DEF Side
  <2>2. g.mz \in Int /\ yz \div g.my \in Int
    BY <1>1, <1>5 DEF Side
  <2> QED BY <1>1, <2>1, <2>2, QuotientBelow
<1>7. Coordinates(g, row) = [x |-> row % g.mx, y |-> yz % g.my, z |-> yz \div g.my]
  BY DEF Coordinates, yz
<1> QED BY <1>1, <1>3, <1>5, <1>6, <1>7 DEF InBox, Index, Side

\* The index of a grid point is a row, and coordinates takes it back.
THEOREM RowOfCoordinates ==
  ASSUME NEW g \in Grids, NEW x, NEW y, NEW z, InBox(g, x, y, z)
  PROVE  /\ Index(g, x, y, z) \in Rows(g)
         /\ Coordinates(g, Index(g, x, y, z)) = [x |-> x, y |-> y, z |-> z]
<1> DEFINE yz == y + g.my * z
<1>1. g.mx \in Side /\ g.my \in Side /\ g.mz \in Side /\ g.my * g.mz \in Nat
  BY Products
<1>2. x \in 0..g.mx - 1 /\ y \in 0..g.my - 1 /\ z \in 0..g.mz - 1
  BY DEF InBox
<1>3. yz \in Nat /\ yz \div g.my = z /\ yz % g.my = y
  <2>1. z \in Nat /\ g.my * z \in Nat
    BY <1>1, <1>2 DEF Side
  <2> QED BY <1>1, <1>2, <2>1, DivModUnique
<1>4. yz < g.my * g.mz
  <2>1. g.my * z + g.my <= g.my * g.mz
    BY <1>1, <1>2, ProductBelow DEF Side
  <2> QED BY <1>1, <1>2, <2>1 DEF Side
<1> HIDE DEF yz
<1>5. (x + g.mx * yz) \div g.mx = yz /\ (x + g.mx * yz) % g.mx = x
  BY <1>1, <1>2, <1>3, DivModUnique
<1>6. x + g.mx * yz \in 0..Points(g) - 1
  <2>1. g.mx * yz + g.mx <= g.mx * (g.my * g.mz)
    BY <1>1, <1>3, <1>4, ProductBelow
  <2>2. g.mx * yz \in Nat /\ g.mx * (g.my * g.mz) \in Nat
    BY <1>1, <1>3 DEF Side
  <2> QED BY <1>1, <1>2, <2>1, <2>2, Products DEF Side
<1>7. Index(g, x, y, z) = x + g.mx * yz
  BY DEF Index, yz
<1> QED BY <1>3, <1>5, <1>6, <1>7 DEF Rows, Coordinates
-----------------------------------------------------------------------------
(* Sequences that visit each row of a set once.                            *)

Visits(s, C) ==
  /\ s \in Seq(Int)
  /\ \A i, j \in 1..Len(s) : s[i] = s[j] => i = j
  /\ \A c : c \in C <=> \E i \in 1..Len(s) : s[i] = c

LEMMA VisitsOne ==
  ASSUME NEW s, NEW C, Visits(s, C), NEW v \in Int, v \notin C
  PROVE  Visits(s \o <<v>>, C \cup {v}) /\ Len(s \o <<v>>) = Len(s) + 1
<1> DEFINE t == s \o <<v>>
<1>1. s \in Seq(Int) /\ Len(s) \in Nat /\ \A i \in 1..Len(s) : s[i] \in C
  BY DEF Visits
<1>2. /\ t \in Seq(Int) /\ Len(t) = Len(s) + 1 /\ t[Len(s) + 1] = v
      /\ \A i \in 1..Len(s) : t[i] = s[i]
      /\ \A i \in 1..Len(t) : i \in 1..Len(s) \/ i = Len(s) + 1
  BY <1>1
<1> HIDE DEF t
<1>3. \A i, j \in 1..Len(t) : t[i] = t[j] => i = j
  <2> SUFFICES ASSUME NEW i \in 1..Len(t), NEW j \in 1..Len(t), t[i] = t[j]
               PROVE  i = j
    OBVIOUS
  <2>1. CASE i \in 1..Len(s) /\ j \in 1..Len(s)
    <3>1. s[i] = s[j]
      BY <1>2, <2>1
    <3> QED BY <2>1, <3>1 DEF Visits
  <2>2. CASE i \in 1..Len(s) /\ j = Len(s) + 1
    BY <1>1, <1>2, <2>2
  <2>3. CASE i = Len(s) + 1 /\ j \in 1..Len(s)
    BY <1>1, <1>2, <2>3
  <2> QED BY <1>2, <2>1, <2>2, <2>3
<1>4. \A c : c \in C \cup {v} <=> \E i \in 1..Len(t) : t[i] = c
  <2> TAKE c
  <2>1. ASSUME c \in C PROVE \E i \in 1..Len(t) : t[i] = c
    <3>1. PICK i \in 1..Len(s) : s[i] = c
      BY <2>1 DEF Visits
    <3> QED BY <1>1, <1>2, <3>1
  <2>2. ASSUME c = v PROVE \E i \in 1..Len(t) : t[i] = c
    BY <1>1, <1>2, <2>2
  <2>3. ASSUME NEW i \in 1..Len(t), t[i] = c PROVE c \in C \cup {v}
    <3>1. CASE i \in 1..Len(s)
      BY <1>1, <1>2, <2>3, <3>1
    <3>2. CASE i = Len(s) + 1
      BY <1>2, <2>3, <3>2
    <3> QED BY <1>2, <3>1, <3>2
  <2> QED BY <2>1, <2>2, <2>3
<1> QED BY <1>2, <1>3, <1>4 DEF Visits, t

\* One more row, if the condition p holds.
LEMMA VisitsOnly ==
  ASSUME NEW s, NEW C, Visits(s, C), NEW p \in BOOLEAN, NEW v \in Int, p => v \notin C
  PROVE  /\ Visits(s \o Only(p, v), C \cup {c \in {v} : p})
         /\ Len(s \o Only(p, v)) = Len(s) + One(p)
<1>1. CASE p
  <2>1. Only(p, v) = <<v>> /\ One(p) = 1 /\ {c \in {v} : p} = {v}
    BY <1>1 DEF Only, One
  <2> QED BY <1>1, <2>1, VisitsOne
<1>2. CASE ~p
  <2>1. Only(p, v) = <<>> /\ One(p) = 0 /\ C \cup {c \in {v} : p} = C
    BY <1>2 DEF Only, One
  <2>2. s \o <<>> = s /\ Len(s) + 0 = Len(s)
    BY DEF Visits
  <2> QED BY <2>1, <2>2
<1> QED BY <1>1, <1>2
-----------------------------------------------------------------------------
(* The stencil.                                                            *)

\* What for_each_neighbor visits is what is adjacent, each row once; degree counts
\* it, and the row itself.
Neighbourhood(g, row) == {c \in Rows(g) : Adjacent(g, row, c)}

\* Distinct grid points have distinct rows.
LEMMA DistinctRows ==
  ASSUME NEW g \in Grids, NEW x, NEW y, NEW z, NEW u, NEW v, NEW w,
         InBox(g, x, y, z), InBox(g, u, v, w), Index(g, x, y, z) = Index(g, u, v, w)
  PROVE  x = u /\ y = v /\ z = w
<1>1. /\ Coordinates(g, Index(g, x, y, z)) = [x |-> x, y |-> y, z |-> z]
      /\ Coordinates(g, Index(g, u, v, w)) = [x |-> u, y |-> v, z |-> w]
  BY RowOfCoordinates
<1> QED BY <1>1

LEMMA AdjacentPoints ==
  ASSUME NEW g \in Grids, NEW x \in Int, NEW y \in Int, NEW z \in Int,
         NEW u \in Int, NEW v \in Int, NEW w \in Int,
         InBox(g, x, y, z), InBox(g, u, v, w)
  PROVE  Adjacent(g, Index(g, x, y, z), Index(g, u, v, w)) <=>
           \/ y = v /\ z = w /\ (u = x - 1 \/ u = x + 1)
           \/ x = u /\ z = w /\ (v = y - 1 \/ v = y + 1)
           \/ x = u /\ y = v /\ (w = z - 1 \/ w = z + 1)
<1>1. /\ Coordinates(g, Index(g, x, y, z)) = [x |-> x, y |-> y, z |-> z]
      /\ Coordinates(g, Index(g, u, v, w)) = [x |-> u, y |-> v, z |-> w]
  BY RowOfCoordinates
<1>2. Adjacent(g, Index(g, x, y, z), Index(g, u, v, w)) <=>
        Abs(x - u) + Abs(y - v) + Abs(z - w) = 1
  BY <1>1 DEF Adjacent
<1> QED BY <1>2 DEF Abs

\* for_each_neighbor, for every box and every row of it.
THEOREM NeighboursAreAdjacent ==
  ASSUME NEW g \in Grids, NEW row \in Rows(g)
  PROVE  /\ Visits(Neighbours3d(g, row), Neighbourhood(g, row))
         /\ Visits(Edges3d(g, row), Neighbourhood(g, row) \cup {row})
         /\ row \notin Neighbourhood(g, row)
         /\ Len(Edges3d(g, row)) = Degree3d(g, row)
<1> DEFINE c == Coordinates(g, row)
           x == c.x
           y == c.y
           z == c.z
           v1 == Index(g, x - 1, y, z)
           v2 == Index(g, x + 1, y, z)
           v3 == Index(g, x, y - 1, z)
           v4 == Index(g, x, y + 1, z)
           v5 == Index(g, x, y, z - 1)
           v6 == Index(g, x, y, z + 1)
           p1 == x > 0
           p2 == x + 1 < g.mx
           p3 == y > 0
           p4 == y + 1 < g.my
           p5 == z > 0
           p6 == z + 1 < g.mz
           C1 == {q \in {v1} : p1}
           C2 == C1 \cup {q \in {v2} : p2}
           C3 == C2 \cup {q \in {v3} : p3}
           C4 == C3 \cup {q \in {v4} : p4}
           C5 == C4 \cup {q \in {v5} : p5}
           C6 == C5 \cup {q \in {v6} : p6}
<1>1. /\ g.mx \in Nat /\ g.my \in Nat /\ g.mz \in Nat
      /\ x \in Nat /\ y \in Nat /\ z \in Nat
      /\ InBox(g, x, y, z) /\ Index(g, x, y, z) = row
  BY CoordinatesOfRow, Products DEF InBox, Side
<1>2. /\ p1 => InBox(g, x - 1, y, z)
      /\ p2 => InBox(g, x + 1, y, z)
      /\ p3 => InBox(g, x, y - 1, z)
      /\ p4 => InBox(g, x, y + 1, z)
      /\ p5 => InBox(g, x, y, z - 1)
      /\ p6 => InBox(g, x, y, z + 1)
  BY <1>1 DEF InBox
<1>3. /\ v1 \in Int /\ v2 \in Int /\ v3 \in Int /\ v4 \in Int /\ v5 \in Int /\ v6 \in Int
      /\ row \in Int
  BY <1>1 DEF Index, Rows
<1> HIDE DEF x, y, z
<1>4. /\ p2 => v2 \notin C1
      /\ p3 => v3 \notin C2
      /\ p4 => v4 \notin C3
      /\ p5 => v5 \notin C4
      /\ p6 => v6 \notin C5
      /\ row \notin C6
  BY <1>1, <1>2, DistinctRows
<1>5. /\ p1 \in BOOLEAN /\ p2 \in BOOLEAN /\ p3 \in BOOLEAN
      /\ p4 \in BOOLEAN /\ p5 \in BOOLEAN /\ p6 \in BOOLEAN
  OBVIOUS
<1>6. /\ Visits(Neighbours3d(g, row), C6)
      /\ Len(Neighbours3d(g, row)) =
           One(p1) + One(p2) + One(p3) + One(p4) + One(p5) + One(p6)
  <2> DEFINE s1 == Only(p1, v1)
             s2 == s1 \o Only(p2, v2)
             s3 == s2 \o Only(p3, v3)
             s4 == s3 \o Only(p4, v4)
             s5 == s4 \o Only(p5, v5)
             s6 == s5 \o Only(p6, v6)
  <2>1. Visits(<<>>, {}) /\ <<>> \o Only(p1, v1) = s1 /\ {} \cup C1 = C1
    BY DEF Visits, Only
  <2>2. Neighbours3d(g, row) = s6
    BY DEF Neighbours3d, x, y, z
  <2> HIDE DEF p1, p2, p3, p4, p5, p6, v1, v2, v3, v4, v5, v6
  <2>3. Visits(s1, C1) /\ Len(s1) = One(p1)
    <3> DEFINE s0 == <<>>
               C0 == {}
    <3>0. Visits(s0, C0) /\ v1 \notin C0
      BY <2>1
    <3> HIDE DEF s0, C0
    <3>1. /\ Visits(s0 \o Only(p1, v1), C0 \cup {q \in {v1} : p1})
          /\ Len(s0 \o Only(p1, v1)) = Len(s0) + One(p1)
      BY <1>3, <1>5, <3>0, VisitsOnly
    <3>2. Len(<<>>) + One(p1) = One(p1)
      BY DEF One
    <3> QED BY <2>1, <3>1, <3>2 DEF s0, C0
  <2> HIDE DEF s1, C1
  <2>4. Visits(s2, C2) /\ Len(s2) = Len(s1) + One(p2)
    BY <1>3, <1>4, <1>5, <2>3, VisitsOnly
  <2> HIDE DEF s2, C2
  <2>5. Visits(s3, C3) /\ Len(s3) = Len(s2) + One(p3)
    BY <1>3, <1>4, <1>5, <2>4, VisitsOnly
  <2> HIDE DEF s3, C3
  <2>6. Visits(s4, C4) /\ Len(s4) = Len(s3) + One(p4)
    BY <1>3, <1>4, <1>5, <2>5, VisitsOnly
  <2> HIDE DEF s4, C4
  <2>7. Visits(s5, C5) /\ Len(s5) = Len(s4) + One(p5)
    BY <1>3, <1>4, <1>5, <2>6, VisitsOnly
  <2> HIDE DEF s5, C5
  <2>8. Visits(s6, C6) /\ Len(s6) = Len(s5) + One(p6)
    BY <1>3, <1>4, <1>5, <2>7, VisitsOnly
  <2> QED BY <2>2, <2>3, <2>4, <2>5, <2>6, <2>7, <2>8
<1>7. C6 = Neighbourhood(g, row)
  <2>1. ASSUME NEW q \in C6 PROVE q \in Rows(g) /\ Adjacent(g, row, q)
    <3> USE <1>1, <1>2, RowOfCoordinates, AdjacentPoints
    <3>1. CASE p1 /\ q = v1
      BY <3>1
    <3>2. CASE p2 /\ q = v2
      BY <3>2
    <3>3. CASE p3 /\ q = v3
      BY <3>3
    <3>4. CASE p4 /\ q = v4
      BY <3>4
    <3>5. CASE p5 /\ q = v5
      BY <3>5
    <3>6. CASE p6 /\ q = v6
      BY <3>6
    <3> QED BY <2>1, <3>1, <3>2, <3>3, <3>4, <3>5, <3>6
  <2>2. ASSUME NEW q \in Rows(g), Adjacent(g, row, q) PROVE q \in C6
    <3> DEFINE d == Coordinates(g, q)
               u == d.x
               v == d.y
               w == d.z
    <3>1. InBox(g, u, v, w) /\ Index(g, u, v, w) = q
      BY CoordinatesOfRow
    <3> HIDE DEF u, v, w
    <3>2. u \in 0..g.mx - 1 /\ v \in 0..g.my - 1 /\ w \in 0..g.mz - 1
      BY <3>1 DEF InBox
    <3>3. \/ y = v /\ z = w /\ (u = x - 1 \/ u = x + 1)
          \/ x = u /\ z = w /\ (v = y - 1 \/ v = y + 1)
          \/ x = u /\ y = v /\ (w = z - 1 \/ w = z + 1)
      BY <1>1, <2>2, <3>1, <3>2, AdjacentPoints
    <3>4. \/ p1 /\ q = v1
          \/ p2 /\ q = v2
          \/ p3 /\ q = v3
          \/ p4 /\ q = v4
          \/ p5 /\ q = v5
          \/ p6 /\ q = v6
      BY <1>1, <3>1, <3>2, <3>3
    <3> QED BY <3>4
  <2> HIDE DEF C6
  <2> QED BY <2>1, <2>2 DEF Neighbourhood
<1>8. Degree3d(g, row) = 1 + One(p1) + One(p2) + One(p3) + One(p4) + One(p5) + One(p6)
  BY DEF Degree3d, x, y, z
<1> HIDE DEF C6, p1, p2, p3, p4, p5, p6
<1>9. /\ Visits(Neighbours3d(g, row) \o <<row>>, C6 \cup {row})
      /\ Len(Neighbours3d(g, row) \o <<row>>) = Len(Neighbours3d(g, row)) + 1
  BY <1>3, <1>4, <1>6, VisitsOne
<1>10. Edges3d(g, row) = Neighbours3d(g, row) \o <<row>>
  BY <1>6 DEF Edges3d, Visits
<1>11. \A p \in BOOLEAN : One(p) \in Nat
  BY DEF One
<1> QED BY <1>4, <1>5, <1>6, <1>7, <1>8, <1>9, <1>10, <1>11

\* The edges of the 1d benchmark, for a line of any length: that line is the box
\* that is one point thick in the other two directions.
THEOREM LineNeighboursAreAdjacent ==
  ASSUME NEW n \in Side, NEW row \in 0..n - 1
  PROVE  LET g == [mx |-> n, my |-> 1, mz |-> 1]
         IN  /\ Points(g) = n
             /\ Visits(Edges1d(n, row), Neighbourhood(g, row) \cup {row})
             /\ row \notin Neighbourhood(g, row)
             /\ Len(Edges1d(n, row)) = Degree1d(n, row)
<1> DEFINE g == [mx |-> n, my |-> 1, mz |-> 1]
           p == row > 0
           q == row + 1 < n
           next == row + 1
           C1 == {c \in {row - 1} : p}
           C2 == C1 \cup {row}
           C3 == C2 \cup {c \in {next} : q}
<1>1. /\ g \in Grids /\ g.mx = n /\ g.my = 1 /\ g.mz = 1 /\ n \in Nat
      /\ Points(g) = n /\ Rows(g) = 0..n - 1
  BY DEF Grids, Side, Points, Rows
<1> HIDE DEF g
<1>2. \A r \in 0..n - 1 : InBox(g, r, 0, 0) /\ Index(g, r, 0, 0) = r
  BY <1>1 DEF InBox, Index
<1>3. \A r \in 0..n - 1 : Adjacent(g, row, r) <=> r = row - 1 \/ r = row + 1
  <2> TAKE r \in 0..n - 1
  <2>1. row \in Int /\ r \in Int /\ 0 \in Int
    OBVIOUS
  <2>2. Adjacent(g, Index(g, row, 0, 0), Index(g, r, 0, 0)) <=>
          \/ 0 = 0 /\ 0 = 0 /\ (r = row - 1 \/ r = row + 1)
          \/ row = r /\ 0 = 0 /\ (0 = 0 - 1 \/ 0 = 0 + 1)
          \/ row = r /\ 0 = 0 /\ (0 = 0 - 1 \/ 0 = 0 + 1)
    BY <1>1, <1>2, <2>1, AdjacentPoints
  <2> QED BY <1>2, <2>2
<1>4. p \in BOOLEAN /\ q \in BOOLEAN /\ row \in Int /\ row - 1 \in Int /\ next \in Int
  OBVIOUS
<1>5. C3 = Neighbourhood(g, row) \cup {row} /\ row \notin Neighbourhood(g, row)
  BY <1>1, <1>3 DEF Neighbourhood
<1>6. Visits(Edges1d(n, row), C3) /\ Len(Edges1d(n, row)) = Len(Only(p, row - 1)) + 1 + One(q)
  <2> DEFINE s1 == Only(p, row - 1)
             s2 == s1 \o <<row>>
  <2>1. Visits(s1, C1)
    BY DEF Visits, Only
  <2>2. row \notin C1 /\ next \notin C2
    OBVIOUS
  <2>3. Edges1d(n, row) = s2 \o Only(q, next)
    BY DEF Edges1d
  <2> HIDE DEF p, q, s1, C1, next
  <2>4. Visits(s2, C2) /\ Len(s2) = Len(s1) + 1
    BY <1>4, <2>1, <2>2, VisitsOne
  <2> HIDE DEF s2, C2
  <2>5. Visits(s2 \o Only(q, next), C3) /\ Len(s2 \o Only(q, next)) = Len(s2) + One(q)
    BY <1>4, <2>2, <2>4, VisitsOnly
  <2> QED BY <2>3, <2>4, <2>5 DEF s1
<1>7. Len(Only(p, row - 1)) = One(p) /\ Degree1d(n, row) = 1 + One(p) + One(q)
      /\ One(p) \in Nat /\ One(q) \in Nat
  BY DEF Only, One, Degree1d
<1> HIDE DEF C3, p, q
<1> QED BY <1>1, <1>5, <1>6, <1>7 DEF g

\* The same edges, in their order.
LEMMA OneMore ==
  ASSUME NEW s \in Seq(Int), NEW v \in Int
  PROVE  /\ s \o <<v>> \in Seq(Int) /\ Len(s \o <<v>>) = Len(s) + 1
         /\ (s \o <<v>>)[Len(s) + 1] = v
         /\ \A i \in 1..Len(s) : (s \o <<v>>)[i] = s[i]
OBVIOUS

LEMMA LineEdges ==
  ASSUME NEW n \in Side, NEW row \in 0..n - 1
  PROVE  /\ Len(Edges1d(n, row)) = One(row > 0) + 1 + One(row + 1 < n)
         /\ row > 0 => Edges1d(n, row)[1] = row - 1 /\ Edges1d(n, row)[2] = row
         /\ row > 0 /\ row + 1 < n => Edges1d(n, row)[3] = row + 1
         /\ ~ (row > 0) => Edges1d(n, row)[1] = row
         /\ ~ (row > 0) /\ row + 1 < n => Edges1d(n, row)[2] = row + 1
<1> DEFINE s1 == Only(row > 0, row - 1)
           s2 == s1 \o <<row>>
           last == Only(row + 1 < n, row + 1)
           next == row + 1
<1>1. row \in Int /\ next \in Int /\ Edges1d(n, row) = s2 \o last
  BY DEF Edges1d
<1>2. /\ s1 \in Seq(Int) /\ Len(s1) = One(row > 0)
      /\ row > 0 => Len(s1) = 1 /\ s1[1] = row - 1
      /\ ~ (row > 0) => Len(s1) = 0
  BY DEF Only, One
<1> HIDE DEF s1
<1>3. /\ s2 \in Seq(Int) /\ Len(s2) = Len(s1) + 1
      /\ s2[Len(s1) + 1] = row
      /\ \A i \in 1..Len(s1) : s2[i] = s1[i]
  BY <1>1, <1>2, OneMore
<1>4. /\ row > 0 => Len(s2) = 2 /\ s2[1] = row - 1 /\ s2[2] = row
      /\ ~ (row > 0) => Len(s2) = 1 /\ s2[1] = row
  BY <1>2, <1>3
<1> HIDE DEF s2
<1>5. CASE row + 1 < n
  <2>1. last = <<next>> /\ One(row + 1 < n) = 1
    BY <1>5 DEF Only, One
  <2> DEFINE s3 == s2 \o <<next>>
  <2> HIDE DEF next, last
  <2>2. /\ Len(s3) = Len(s2) + 1
        /\ s3[Len(s2) + 1] = next
        /\ \A i \in 1..Len(s2) : s3[i] = s2[i]
    BY <1>1, <1>3, OneMore
  <2>3. Edges1d(n, row) = s3
    BY <1>1, <2>1
  <2> HIDE DEF s3
  <2>4. CASE row > 0
    <3>1. Len(s2) = 2 /\ One(row > 0) = 1
      BY <1>4, <2>4 DEF One
    <3>2. Len(s3) = 3 /\ s3[3] = next
      BY <2>2, <3>1
    <3>3. s3[1] = row - 1 /\ s3[2] = row
      BY <1>4, <2>2, <2>4, <3>1
    <3> QED BY <1>5, <2>1, <2>3, <2>4, <3>1, <3>2, <3>3 DEF next
  <2>5. CASE ~ (row > 0)
    <3>1. Len(s2) = 1 /\ One(row > 0) = 0
      BY <1>4, <2>5 DEF One
    <3>2. Len(s3) = 2 /\ s3[2] = next
      BY <2>2, <3>1
    <3>3. s3[1] = row
      BY <1>4, <2>2, <2>5, <3>1
    <3> QED BY <1>5, <2>1, <2>3, <2>5, <3>1, <3>2, <3>3 DEF next
  <2> QED BY <2>4, <2>5
<1>6. CASE ~ (row + 1 < n)
  <2>1. last = <<>> /\ One(row + 1 < n) = 0
    BY <1>6 DEF Only, One
  <2>2. Edges1d(n, row) = s2
    BY <1>1, <1>3, <2>1
  <2>3. CASE row > 0
    BY <1>2, <1>4, <1>6, <2>1, <2>2, <2>3
  <2>4. CASE ~ (row > 0)
    BY <1>2, <1>4, <1>6, <2>1, <2>2, <2>4
  <2> QED BY <2>3, <2>4
<1> QED BY <1>5, <1>6
-----------------------------------------------------------------------------
(* apply_row.                                                              *)

\* One neighbour more is subtracted.
SubtractStep(g, row, values) ==
  [p \in Int \X (1..Len(Neighbours3d(g, row))) |-> p[1] - values[Neighbours3d(g, row)[p[2]]]]

\* The neighbours are rows.
LEMMA NeighboursAreRows ==
  ASSUME NEW g \in Grids, NEW row \in Rows(g)
  PROVE  /\ row \in Nat /\ Neighbours3d(g, row) \in Seq(Int)
         /\ Len(Neighbours3d(g, row)) \in Nat
         /\ \A i \in 1..Len(Neighbours3d(g, row)) : Neighbours3d(g, row)[i] \in Rows(g)
<1>1. Visits(Neighbours3d(g, row), Neighbourhood(g, row))
  BY NeighboursAreAdjacent
<1>2. row \in Nat
  BY Products DEF Rows
<1> QED BY <1>1, <1>2 DEF Visits, Neighbourhood

\* The fold in ApplyRow3d is the loop over the neighbours.
LEMMA ApplyRow3dSteps ==
  ASSUME NEW g \in Grids, NEW row \in Rows(g), NEW values \in [Rows(g) -> Int]
  PROVE  Outcome(Int, 6 * values[row], SubtractStep(g, row, values),
                 Len(Neighbours3d(g, row)), ApplyRow3d(g, row, values))
<1> DEFINE seq == Neighbours3d(g, row)
           n == Len(seq)
           D == DOMAIN seq
           base == 6 * values[row]
           Solves(f) == f = [s \in SUBSET D |->
                               IF s = {} THEN base
                               ELSE f[s \ {Max(s)}] - values[seq[Max(s)]]]
           step == SubtractStep(g, row, values)
<1>1. seq \in Seq(Int) /\ n \in Nat /\ D = 1..n /\ \A i \in D : values[seq[i]] \in Int
  BY NeighboursAreRows
<1>2. base \in Int /\ step \in [Int \X D -> Int]
  BY <1>1 DEF SubtractStep
<1>3. ApplyRow3d(g, row, values) = (CHOOSE f : Solves(f))[D]
  BY DEF ApplyRow3d, FoldLeft, MapThenFoldSet
<1>4. ASSUME NEW s \in SUBSET D, s # {}
      PROVE  /\ Max(s) \in D
             /\ \A u \in Int : step[<<u, Max(s)>>] = u - values[seq[Max(s)]]
  <2>1. Max(s) \in D
    BY <1>1, <1>4, MaxIsIn
  <2> QED BY <1>1, <2>1 DEF SubtractStep
<1> HIDE DEF D, n, seq, step, base
<1>5. \E f : Solves(f)
  <2>1. PICK f \in [SUBSET D -> Int] : Folds(f, base, step, n)
    BY <1>1, <1>2, FoldExists
  <2>2. \A s \in SUBSET D : s # {} => step[<<f[s \ {Max(s)}], Max(s)>>]
                                        = f[s \ {Max(s)}] - values[seq[Max(s)]]
    BY <1>4
  <2>3. Solves(f)
    BY <1>1, <2>1, <2>2 DEF Folds
  <2> HIDE DEF Solves
  <2> QED BY <2>3
<1>6. PICK f : Solves(f) /\ ApplyRow3d(g, row, values) = f[D]
  BY <1>3, <1>5
<1>7. Agrees(f, Int, base, step, n)
  BY <1>1, <1>4, <1>6 DEF Agrees
<1> HIDE DEF Solves
<1>8. Outcome(Int, base, step, n, f[1..n])
  BY <1>1, <1>2, <1>7, FoldSteps
<1> QED BY <1>1, <1>6, <1>8 DEF n, seq, step, base
-----------------------------------------------------------------------------
(* Numbers of neighbours, and connectedness.                               *)

LEMMA VisitsCount ==
  ASSUME NEW s, NEW C, Visits(s, C)
  PROVE  IsFiniteSet(C) /\ Cardinality(C) = Len(s)
<1>1. Len(s) \in Nat /\ s \in [1..Len(s) -> C]
  BY DEF Visits
<1>2. s \in Bijection(1..Len(s), C)
  <2>1. IsInjective(s)
    BY <1>1 DEF Visits, IsInjective
  <2>2. \A c \in C : \E i \in 1..Len(s) : s[i] = c
    BY DEF Visits
  <2> QED BY <1>1, <2>1, <2>2 DEF Bijection, Injection, Surjection
<1>3. ExistsBijection(1..Len(s), C)
  BY <1>2 DEF ExistsBijection
<1> QED BY <1>1, <1>3, FS_NatBijection, FS_CountingElements

\* The neighbours are one less than degree says, and the first row has not all of
\* them.
LEMMA NeighboursOfRow ==
  ASSUME NEW g \in Grids, NEW row \in Rows(g)
  PROVE  /\ IsFiniteSet(Neighbourhood(g, row))
         /\ Cardinality(Neighbourhood(g, row)) \in 0..6
         /\ row = 0 => Cardinality(Neighbourhood(g, row)) < 6
<1> DEFINE n == Cardinality(Neighbourhood(g, row))
<1>1. /\ IsFiniteSet(Neighbourhood(g, row)) /\ n = Len(Neighbours3d(g, row))
  BY NeighboursAreAdjacent, VisitsCount
<1>2. n + 1 = Degree3d(g, row) /\ n \in Nat
  <2>1. Len(Edges3d(g, row)) = Len(Neighbours3d(g, row)) + 1
    BY NeighboursAreRows DEF Edges3d
  <2> QED BY <1>1, <2>1, NeighboursAreAdjacent, NeighboursAreRows
<1>3. \A p : One(p) \in {0, 1}
  BY DEF One
<1>4. Degree3d(g, row) <= 7
  BY <1>3 DEF Degree3d
<1>5. ASSUME row = 0 PROVE Degree3d(g, row) <= 6
  <2>1. Coordinates(g, row).x = 0
    BY <1>5, Products DEF Coordinates, Side
  <2>2. One(Coordinates(g, row).x > 0) = 0
    BY <2>1 DEF One
  <2> QED BY <1>3, <2>2 DEF Degree3d
<1> HIDE DEF n
<1>6. n \in 0..6 /\ (row = 0 => n < 6)
  BY <1>2, <1>4, <1>5
<1> QED BY <1>1, <1>6 DEF n

LEMMA NeighboursOnLine ==
  ASSUME NEW n \in Side, NEW row \in 0..n - 1
  PROVE  LET C == Neighbourhood([mx |-> n, my |-> 1, mz |-> 1], row)
         IN  IsFiniteSet(C) /\ Cardinality(C) \in 0..2 /\ (row = 0 => Cardinality(C) < 2)
<1> DEFINE g == [mx |-> n, my |-> 1, mz |-> 1]
           C == Neighbourhood(g, row)
<1>1. /\ Visits(Edges1d(n, row), C \cup {row}) /\ row \notin C
      /\ Len(Edges1d(n, row)) = Degree1d(n, row)
  BY LineNeighboursAreAdjacent
<1> HIDE DEF C
<1>2. IsFiniteSet(C \cup {row}) /\ Cardinality(C \cup {row}) = Degree1d(n, row)
  BY <1>1, VisitsCount
<1>3. IsFiniteSet(C) /\ Cardinality(C) \in Nat
  <2>1. C \in SUBSET (C \cup {row})
    OBVIOUS
  <2>2. IsFiniteSet(C)
    BY <1>2, <2>1, FS_Subset
  <2> QED BY <2>2, FS_CardinalityType
<1>4. Cardinality(C) + 1 = Degree1d(n, row)
  BY <1>1, <1>2, <1>3, FS_AddElement
<1>5. (\A p : One(p) \in {0, 1}) /\ (row = 0 => One(row > 0) = 0)
  BY DEF One
<1>6. Degree1d(n, row) <= 3 /\ (row = 0 => Degree1d(n, row) <= 2)
  BY <1>5 DEF Degree1d
<1>7. Cardinality(C) \in 0..2 /\ (row = 0 => Cardinality(C) < 2)
  BY <1>3, <1>4, <1>6
<1> QED BY <1>3, <1>7 DEF C

LEMMA AdjacentIsSymmetric ==
  ASSUME NEW g \in Grids, NEW r \in Rows(g), NEW c \in Rows(g)
  PROVE  Adjacent(g, r, c) <=> Adjacent(g, c, r)
<1> DEFINE p == Coordinates(g, r)
           q == Coordinates(g, c)
<1>1. /\ p.x \in Int /\ p.y \in Int /\ p.z \in Int
      /\ q.x \in Int /\ q.y \in Int /\ q.z \in Int
  BY CoordinatesOfRow DEF InBox
<1> HIDE DEF p, q
<1>2. /\ Abs(p.x - q.x) = Abs(q.x - p.x)
      /\ Abs(p.y - q.y) = Abs(q.y - p.y)
      /\ Abs(p.z - q.z) = Abs(q.z - p.z)
  <2>1. \A a, b \in Int : Abs(a - b) = Abs(b - a)
    BY DEF Abs
  <2> QED BY <1>1, <2>1
<1> QED BY <1>2 DEF Adjacent, p, q

\* Every row but the first has a neighbour before it.
LEMMA LowerNeighbour ==
  ASSUME NEW g \in Grids, NEW row \in Rows(g), row # 0
  PROVE  \E c \in Rows(g) : c < row /\ Adjacent(g, row, c)
<1> DEFINE p == Coordinates(g, row)
           x == p.x
           y == p.y
           z == p.z
<1>1. /\ InBox(g, x, y, z) /\ Index(g, x, y, z) = row
      /\ g.mx \in Side /\ g.my \in Side /\ g.mz \in Side
  BY CoordinatesOfRow, Products
<1> HIDE DEF x, y, z
<1>2. /\ x \in Nat /\ y \in Nat /\ z \in Nat /\ x - 1 \in Int /\ y - 1 \in Int /\ z - 1 \in Int
      /\ x > 0 => InBox(g, x - 1, y, z)
      /\ y > 0 => InBox(g, x, y - 1, z)
      /\ z > 0 => InBox(g, x, y, z - 1)
  BY <1>1 DEF InBox, Side
<1>3. \A a \in Int, b \in Side : b * (a - 1) = b * a - b /\ b * a \in Int /\ b \in Nat /\ b > 0
  BY DEF Side
<1>4. CASE x > 0
  <2> DEFINE c == Index(g, x - 1, y, z)
  <2>1. c \in Rows(g) /\ Adjacent(g, row, c)
    BY <1>1, <1>2, <1>4, RowOfCoordinates, AdjacentPoints
  <2>2. c < row
    <3> DEFINE rest == g.mx * (y + g.my * z)
    <3>1. rest \in Int
      BY <1>1, <1>2 DEF Side
    <3>2. c = (x - 1) + rest /\ row = x + rest
      BY <1>1 DEF Index
    <3> HIDE DEF rest, c
    <3> QED BY <1>2, <3>1, <3>2
  <2> QED BY <2>1, <2>2
<1>5. CASE y > 0
  <2> DEFINE c == Index(g, x, y - 1, z)
  <2>1. c \in Rows(g) /\ Adjacent(g, row, c)
    BY <1>1, <1>2, <1>5, RowOfCoordinates, AdjacentPoints
  <2>2. c < row
    <3> DEFINE a == y + g.my * z
    <3>1. g.my * z \in Int /\ (y - 1) + g.my * z = a - 1 /\ a \in Int
      BY <1>1, <1>2 DEF Side
    <3>2. c = x + g.mx * (a - 1) /\ row = x + g.mx * a
      BY <1>1, <3>1 DEF Index
    <3> HIDE DEF a, c
    <3>3. g.mx * (a - 1) = g.mx * a - g.mx /\ g.mx * a \in Int /\ g.mx \in Nat /\ g.mx > 0
      BY <1>1, <1>3, <3>1
    <3> QED BY <1>2, <3>2, <3>3
  <2> QED BY <2>1, <2>2
<1>6. CASE z > 0
  <2> DEFINE c == Index(g, x, y, z - 1)
  <2>1. c \in Rows(g) /\ Adjacent(g, row, c)
    BY <1>1, <1>2, <1>6, RowOfCoordinates, AdjacentPoints
  <2>2. c < row
    <3> DEFINE a == y + g.my * z
               b == y + g.my * (z - 1)
    <3>1. g.my * (z - 1) = g.my * z - g.my /\ g.my * z \in Int /\ g.my \in Nat /\ g.my > 0
      BY <1>1, <1>2, <1>3
    <3>2. a \in Int /\ b \in Int /\ b < a
      BY <1>2, <3>1
    <3>3. c = x + g.mx * b /\ row = x + g.mx * a
      BY <1>1 DEF Index
    <3> HIDE DEF a, b, c
    <3>4. g.mx * b + g.mx <= g.mx * a
      BY <1>1, <3>2, ProductBelow
    <3>5. g.mx * b \in Int /\ g.mx * a \in Int /\ g.mx \in Nat /\ g.mx > 0
      BY <1>1, <1>3, <3>2
    <3> QED BY <1>2, <3>3, <3>4, <3>5
  <2> QED BY <2>1, <2>2
<1>7. x > 0 \/ y > 0 \/ z > 0
  <2>1. SUFFICES ASSUME x = 0, y = 0, z = 0 PROVE FALSE
    BY <1>2
  <2>2. g.my * 0 = 0 /\ g.mx * 0 = 0
    BY <1>1 DEF Side
  <2>3. Index(g, 0, 0, 0) = 0
    BY <2>2 DEF Index
  <2> QED BY <1>1, <2>1, <2>3
<1> QED BY <1>4, <1>5, <1>6, <1>7

\* A grid is in one piece: a set of rows that no edge leaves or enters is empty or
\* has them all.
THEOREM GridIsConnected ==
  ASSUME NEW g \in Grids, NEW B \in SUBSET Rows(g), B # {}, B # Rows(g)
  PROVE  \E r \in B, c \in Rows(g) \ B : Adjacent(g, r, c)
<1> DEFINE T == {r \in Rows(g) : ~ (r \in B <=> 0 \in B)}
<1>1. 0 \in Rows(g) /\ Rows(g) \subseteq Nat
  <2>1. Points(g) \in Nat
    BY Products
  <2>2. PICK r \in Rows(g) : TRUE
    OBVIOUS
  <2> QED BY <2>1, <2>2 DEF Rows
<1>2. T # {} /\ T \in SUBSET Nat
  BY <1>1
<1>3. PICK r \in T : \A m \in T : r <= m
  <2> HIDE DEF T
  <2> QED BY <1>2, LeastNumber
<1>4. r # 0 /\ r \in Rows(g)
  BY <1>3
<1>5. PICK c \in Rows(g) : c < r /\ Adjacent(g, r, c)
  BY <1>4, LowerNeighbour
<1>6. c \notin T
  BY <1>1, <1>3, <1>5
<1>7. ~ (r \in B <=> c \in B)
  BY <1>3, <1>6
<1> QED BY <1>4, <1>5, <1>7, AdjacentIsSymmetric
=============================================================================
