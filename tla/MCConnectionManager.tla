------------------------ MODULE MCConnectionManager ------------------------
(***************************************************************************)
(* Small instances of ConnectionManager.  Containers, addresses and threads *)
(* of one kind differ by nothing but their history.                        *)
(***************************************************************************)
EXTENDS ConnectionManager, TLC

Symmetry == UNION {Permutations(Dncs), Permutations(Addrs), Permutations(Procs),
                   Permutations(Workers)}
=============================================================================
