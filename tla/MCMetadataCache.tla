--------------------------- MODULE MCMetadataCache ---------------------------
(***************************************************************************)
(* Two threads, a volume that may be created again, blocks that need trees *)
(* of no, one and three levels of two slots, and room for two of them.     *)
(***************************************************************************)
EXTENDS MetadataCache

Symmetry == Permutations(Threads)
=============================================================================
