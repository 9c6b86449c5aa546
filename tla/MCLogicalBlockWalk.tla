-------------------------- MODULE MCLogicalBlockWalk --------------------------
(***************************************************************************)
(* Small instances of LogicalBlockWalk.                                    *)
(***************************************************************************)
EXTENDS LogicalBlockWalk, TLC

BlocksDef == 1..3

Symmetry == Permutations(Takers)
=============================================================================
