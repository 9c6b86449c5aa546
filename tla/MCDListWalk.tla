----------------------------- MODULE MCDListWalk -----------------------------
(***************************************************************************)
(* Small instances of DListWalk.                                           *)
(***************************************************************************)
EXTENDS DListWalk, TLC

Symmetry == Permutations(Data) \cup Permutations(Walkers)
=============================================================================
