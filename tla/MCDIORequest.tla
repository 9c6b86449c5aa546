----------------------------- MODULE MCDIORequest -----------------------------
(***************************************************************************)
(* Instances of DIORequest with the word sizes of the code: short requests *)
(* around the borders of a chunk, and some that span three chunks.         *)
(***************************************************************************)
EXTENDS DIORequest

Request(rw, starts, lengths) == [rw : {rw}, sLBID : starts, nr_LBIDs : lengths]

MCKreqs ==
    Request(Write, 0..66 \cup {95, 127}, 1..7)
      \cup Request(Write, {0, 30, 63, 64, 127}, {66})
      \cup Request(Read, {0, 63}, {1, 3, 66})
=============================================================================
