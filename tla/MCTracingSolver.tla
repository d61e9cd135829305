--------------------------- MODULE MCTracingSolver ---------------------------
(* One object of each kind at a time, two graphs, and a matrix of its own.   *)
EXTENDS TracingSolver

MCLimit == [kind \in Kinds |-> CASE kind = "graph" -> 2 [] OTHER -> 1]

=============================================================================
