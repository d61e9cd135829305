------------------------------ MODULE MCWorker ------------------------------
(* One worker over two files, with a buffer smaller than the longest trace. *)
EXTENDS Worker

MCPaths == {"p", "q"}

=============================================================================
