---------------------------- MODULE BlockRequest ----------------------------
(***************************************************************************)
(* What a virtual disk promises for a block request, without dios, located *)
(* requests, receiver threads or counters.                                 *)
(*                                                                         *)
(* A request is made of blocks.  The world answers about blocks; a block   *)
(* is settled once, and only after it was answered.  A request is ended    *)
(* once, when all its blocks are settled, with an answer given about one   *)
(* of them.  A request that cannot be split is aborted instead.            *)
(***************************************************************************)
CONSTANTS
    Kreqs,
    Blocks,
    BlocksOf,   \* the blocks of each request
    Answers     \* what may be answered about a block

VARIABLES
    phase,      \* queued, open, ended or aborted
    unsettled,  \* the blocks of an open request that are still to be settled
    answers,    \* the answers given about a block so far
    result      \* the result of an ended request, "none" before

bvars == <<phase, unsettled, answers, result>>

Init ==
    /\ phase = [k \in Kreqs |-> "queued"]
    /\ unsettled = [k \in Kreqs |-> {}]
    /\ answers = [b \in Blocks |-> {}]
    /\ result = [k \in Kreqs |-> "none"]

Open(k) ==
    /\ phase[k] = "queued"
    /\ phase' = [phase EXCEPT ![k] = "open"]
    /\ unsettled' = [unsettled EXCEPT ![k] = BlocksOf[k]]
    /\ UNCHANGED <<answers, result>>

Abort(k) ==
    /\ phase[k] = "queued"
    /\ phase' = [phase EXCEPT ![k] = "aborted"]
    /\ UNCHANGED <<unsettled, answers, result>>

\* An answer concerns some blocks of one request that was opened; it may come
\* when they are settled, or when the request has ended.
Answer(k, B, a) ==
    /\ phase[k] \in {"open", "ended"}
    /\ B \subseteq BlocksOf[k]
    /\ answers' = [b \in Blocks |-> IF b \in B THEN answers[b] \cup {a} ELSE answers[b]]
    /\ UNCHANGED <<phase, unsettled, result>>

Settle(k, b) ==
    /\ b \in unsettled[k]
    /\ answers[b] # {}
    /\ unsettled' = [unsettled EXCEPT ![k] = @ \ {b}]
    /\ UNCHANGED <<phase, answers, result>>

End(k) ==
    /\ phase[k] = "open"
    /\ unsettled[k] = {}
    /\ phase' = [phase EXCEPT ![k] = "ended"]
    /\ \E a \in UNION {answers[b] : b \in BlocksOf[k]} :
          result' = [result EXCEPT ![k] = a]
    /\ UNCHANGED <<unsettled, answers>>

Next ==
    \E k \in Kreqs :
        \/ Open(k)
        \/ Abort(k)
        \/ End(k)
        \/ \E b \in Blocks : Settle(k, b)
        \/ \E B \in SUBSET Blocks, a \in Answers : Answer(k, B, a)

Spec == Init /\ [][Next]_bvars

\* A request all of whose blocks are settled is not forgotten.
FairSpec == Spec /\ \A k \in Kreqs : WF_bvars(End(k))
=============================================================================
