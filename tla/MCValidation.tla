---------------------------- MODULE MCValidation ----------------------------
(* A line of three rows: each value exact, too large, too small by the whole  *)
(* expected value, or NaN.                                                  *)
EXTENDS Validation

MCBox == [mx |-> 3, my |-> 1, mz |-> 1]
MCOffsets == {-1, 0, 1}
MCOffsetsNaN == {0, 1, NaN}

=============================================================================
