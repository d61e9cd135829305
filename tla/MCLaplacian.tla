----------------------------- MODULE MCLaplacian -----------------------------
(* Lines and boxes with one to nine rows: every position of a row on the    *)
(* faces, edges and corners of a box, and boxes flat in each direction.     *)
EXTENDS Laplacian

Box(x, y, z) == [mx |-> x, my |-> y, mz |-> z]

MCBoxes == {Box(2, 2, 2), Box(3, 3, 1), Box(1, 2, 3), Box(3, 1, 2), Box(2, 4, 1),
            Box(1, 1, 1)}

=============================================================================
