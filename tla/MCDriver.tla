------------------------------- MODULE MCDriver -------------------------------
(* A small instance of Driver: two requests that may wait for each other's    *)
(* objects, and a module that is loaded again after it failed or was unloaded. *)
EXTENDS Driver, TLC

CONSTANTS r1, r2
Symmetry == Permutations({r1, r2})
=============================================================================
