----------------------------- MODULE MCRunbooks -----------------------------
(* Model values for checking Runbooks. *)
EXTENDS Runbooks, TLC

CONSTANTS x1, x2, i1, d1

\* Executions are interchangeable.
Symmetric == Permutations(Execution)
=============================================================================
