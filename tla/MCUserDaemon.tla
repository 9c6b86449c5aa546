----------------------------- MODULE MCUserDaemon -----------------------------
(***************************************************************************)
(* Two threads, two volumes, three connections and one restart, in the     *)
(* build that tells RS.                                                    *)
(***************************************************************************)
EXTENDS UserDaemon

MCOps == {"attach", "attach_rs", "detach", "detach_rs", "attach_all", "detach_all", "other"}
=============================================================================
