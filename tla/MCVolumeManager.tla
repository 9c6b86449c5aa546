-------------------------- MODULE MCVolumeManager --------------------------
(***************************************************************************)
(* Small instances of VolumeManager.  Volumes, callers and users are told  *)
(* apart by nothing but their history; so are the IDs that are not null.   *)
(***************************************************************************)
EXTENDS VolumeManager, TLC

Symmetry ==
    UNION {Permutations(Ptrs), Permutations(Procs), Permutations(Users),
           Permutations(IDs \ NullIDs)}
=============================================================================
