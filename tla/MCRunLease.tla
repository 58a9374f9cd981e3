---------------------------- MODULE MCRunLease ----------------------------
(* Two attempts compete for one run, a third has a run of its own, and    *)
(* the run can be seized while at most MaxGeneration generations exist.     *)
EXTENDS RunLease

CONSTANTS a1, a2, a3, r1, r2

MCRunOf == [a \in Attempt |-> IF a = a3 THEN r2 ELSE r1]

=============================================================================
