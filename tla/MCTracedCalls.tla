---------------------------- MODULE MCTracedCalls ----------------------------
(* Every forwarding method, with several callbacks in one call.              *)
EXTENDS TracedCalls

CONSTANTS u, v, x, y

MCData == {u, v}
MCMatrices == {x, y}

=============================================================================
