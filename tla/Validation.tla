----------------------------- MODULE Validation -----------------------------
(***************************************************************************)
(* How a benchmark judges what the solver computed: for each right-hand    *)
(* side the solve result is required to be a success, the solution is read *)
(* back through a callback in ranges of rows, compared with the expected   *)
(* solution and put back into the matrix, and the worst relative error and *)
(* residual over all right-hand sides decide.  The 1d benchmark is the     *)
(* case of one right-hand side; its own stencil is in module Laplacian.    *)
(*                                                                         *)
(* Values are integers (hundredths) or NaN, and rounding is left out: an   *)
(* error above the tolerance of 1.0e-8 is one that is not 0.               *)
(***************************************************************************)
EXTENDS Grid, FiniteSets

CONSTANTS
  Box,        \* the grid
  RhsCount,   \* streaming_rhs_count
  Offsets,    \* how far a computed value may be from the expected one, in
              \* hundredths, or NaN
  NaN         \* the floating-point value that compares with nothing

ASSUME ValidationAssumption ==
  /\ Box \in [mx : Nat \ {0}, my : Nat \ {0}, mz : Nat \ {0}]
  /\ RhsCount \in Nat \ {0}
  /\ Offsets \subseteq Int \cup {NaN}
  /\ NaN \notin Int

VARIABLES
  vpc,        \* "solve", "read", "passed", or the exception that was thrown
  rhsIndex,   \* rhs_index
  solution,   \* the solver's matrix, as read_to_host will present it
  computed,   \* the vector the reader fills
  read,       \* the rows the reader has been called for
  worst,      \* max_relative_error_inf and max_relative_residual_inf
  solutions   \* history: the solutions of the earlier right-hand sides

valVars == <<vpc, rhsIndex, solution, computed, read, worst, solutions>>

BoxRows == Rows(Box)
-----------------------------------------------------------------------------
(* IEEE arithmetic and std::max.                                           *)

Number(v) == v # NaN

Minus(u, v) == IF Number(u) /\ Number(v) THEN u - v ELSE NaN
Times(n, v) == IF Number(v) THEN n * v ELSE NaN
AbsOf(v) == IF Number(v) /\ v < 0 THEN -v ELSE v

\* Comparison with NaN is false.
Less(u, v) == Number(u) /\ Number(v) /\ u < v

\* std::max returns its first argument unless that is less than the second.
StdMax(u, v) == IF Less(u, v) THEN v ELSE u

\* The loop max = std::max(max, f(row)) over all the rows, from 0.0.
WorstRow(f) == FoldLeft(LAMBDA m, i : StdMax(m, f[i - 1]), 0, [i \in 1..Points(Box) |-> i])
-----------------------------------------------------------------------------
(* validate_solution.  The denominators, at least 1.0, do not change        *)
(* whether a metric is 0, and are left out.                                *)

ExpectedOf(j) == [row \in BoxRows |-> ExactValue(row, j)]

\* host_rhs is manufactured once, before the loop.
MutantRhsOf(j) == [row \in BoxRows |-> ApplyRow3d(Box, row, ExpectedOf(0))]

RhsOf(j) == [row \in BoxRows |-> ApplyRow3d(Box, row, ExpectedOf(j))]

\* ApplyRow3d on values that may be NaN.
ApplyRow(row, values) ==
  FoldLeft(LAMBDA sum, col : Minus(sum, values[col]), Times(6, values[row]),
           Neighbours3d(Box, row))

Metrics(values, j) ==
  [error |-> WorstRow([row \in BoxRows |->
                        AbsOf(Minus(values[row], ExpectedOf(j)[row]))]),
   residual |-> WorstRow([row \in BoxRows |->
                        AbsOf(Minus(RhsOf(j)[row], ApplyRow(row, values)))])]

\* Only the last right-hand side counts.
MutantWorse(w, m) == m

Worse(w, m) == [error |-> StdMax(w.error, m.error),
                residual |-> StdMax(w.residual, m.residual)]

\* metric > tolerance
Rejected(w) == Less(0, w.error) \/ Less(0, w.residual)
-----------------------------------------------------------------------------
(* The steps of one right-hand side.                                       *)

\* require_successful_solve throws: the solver said that it failed, that it does
\* not support the problem, or that it did not converge.
SolveFails(outcome) ==
  /\ vpc = "solve"
  /\ vpc' = outcome
  /\ UNCHANGED <<rhsIndex, solution, computed, read, worst, solutions>>

\* The solver reports success; what it computed is another matter.
SolveSucceeds ==
  /\ vpc = "solve"
  /\ \E offset \in [BoxRows -> Offsets] :
       solution' = [row \in BoxRows |->
         IF Number(offset[row]) THEN ExactValue(row, rhsIndex) + offset[row] ELSE NaN]
  /\ computed' = [row \in BoxRows |-> 0]
  /\ read' = {}
  /\ vpc' = "read"
  /\ UNCHANGED <<rhsIndex, worst, solutions>>

\* The solution reader is called for a range of rows.
SolutionReader ==
  /\ vpc = "read"
  /\ \E beg, end \in BoxRows :
       /\ beg <= end
       /\ (beg..end) \cap read = {}
       /\ read' = read \cup beg..end
       /\ computed' = [row \in BoxRows |->
                         IF row \in beg..end THEN solution[row] ELSE computed[row]]
  /\ UNCHANGED <<vpc, rhsIndex, solution, worst, solutions>>

\* read_to_host returns, perhaps without having presented every row; the metrics
\* join the worst so far, and the last right-hand side decides.
Validate ==
  /\ vpc = "read"
  /\ LET w == Worse(worst, Metrics(computed, rhsIndex)) IN
     /\ worst' = w
     /\ vpc' = IF rhsIndex < RhsCount - 1 THEN "solve"
               ELSE IF Rejected(w) THEN "validation failed" ELSE "passed"
  /\ rhsIndex' = rhsIndex + 1
  /\ solutions' = Append(solutions, [values |-> solution, read |-> read])
  /\ UNCHANGED <<solution, computed, read>>

ValDone == vpc \notin {"solve", "read"} /\ UNCHANGED valVars

ValInit ==
  /\ vpc = "solve"
  /\ rhsIndex = 0
  /\ solution = [row \in BoxRows |-> 0]
  /\ computed = [row \in BoxRows |-> 0]
  /\ read = {}
  /\ worst = [error |-> 0, residual |-> 0]
  /\ solutions = <<>>

ValNext ==
  \/ \E outcome \in {"numeric error", "unsupported", "not converged"} : SolveFails(outcome)
  \/ SolveSucceeds \/ SolutionReader \/ Validate \/ ValDone

ValSpec == ValInit /\ [][ValNext]_valVars
-----------------------------------------------------------------------------
(* Properties.                                                             *)

Exact(s, j) == s.read = BoxRows /\ s.values = ExpectedOf(j)

\* A benchmark passes only if the solver presented every row of every solution
\* with the expected value: one bad entry of one right-hand side, or one row that
\* the solver does not present, is enough to fail.
PassedIsAccurate ==
  vpc = "passed" =>
    /\ Len(solutions) = RhsCount
    /\ \A j \in 1..RhsCount : Exact(solutions[j], j - 1)

\* No solver that is right is failed by the validation.
AccurateIsPassed ==
  vpc = "validation failed" =>
    \E j \in 1..RhsCount : ~Exact(solutions[j], j - 1)

=============================================================================
