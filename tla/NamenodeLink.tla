----------------------------- MODULE NamenodeLink -----------------------------
(***************************************************************************)
(* Queries to the namenode and the thread that receives its answers.       *)
(*                                                                         *)
(* Every DMS_IO has a handler that sends one query, in two calls of        *)
(* Send_Msg without a lock.  The answers come back in any order; the       *)
(* address of the DMS_IO travels with them as "extention" of the header.   *)
(* A connection may be lost and built again at any time (see               *)
(* ConnectionManager): the receiver is then stopped and a new one starts.  *)
(***************************************************************************)
EXTENDS NamenodeProtocol, FiniteSets

CONSTANTS
    Dios,
    Request(_),     \* of a DMS_IO: volume, first block, number of blocks, type
    Answers(_),     \* the located requests the namenode may answer with
    SubTypes,       \* the types it may give an answer
    MaxLosses       \* bound: how often the connection is lost

ASSUME LossesAssumption == MaxLosses \in Nat
\* The fields are as wide as they are.
ASSUME RequestAssumption ==
    \A d \in Dios : Request(d) \in [volumeID : Longs, sLBID : Longs, nr_LBIDs : Shorts, type : Queries]
\* The blocks of an answer are counted in a short: it fits into a page, which has room for
\* some five hundred of them.
ASSUME AnswersAssumption ==
    \A d \in Dios :
        /\ Answers(d) \subseteq Counted(LocatedRequests)
        /\ \A lrs \in Answers(d) : Len(FlattenSeq([k \in DOMAIN lrs |-> lrs[k].hbids])) <= 32767

VARIABLES
    handler,    \* of each DMS_IO: where Send_Query_Request_to_Namenode stands
    up,         \* what was sent on this connection and not yet read
    namenode,   \* how far the namenode has read: [at, dio], or out of step
    asked,      \* the queries it has to answer
    down,       \* its answers, not yet received
    receiver,   \* [at, header, res]: Namenode_Receiver
    dmeta,      \* dio->dmeta
    up_down,    \* the connection is CONNECTED or not
    answered,   \* history: what the namenode answered about a DMS_IO
    overlap,    \* history: a header was sent between the header and the body of another query
    losses      \* how often the connection was lost

vars == <<handler, up, namenode, asked, down, receiver, dmeta, up_down,
          answered, overlap, losses>>

None == [is |-> "none"]
Listening == [at |-> "header", dio |-> "none"]
Fresh == [at |-> "header", header |-> None, res |-> None]

-----------------------------------------------------------------------------
(* Slips.                                                                   *)

\* The answer goes to the metadata of some other DMS_IO.
SlipExtention(d) == CHOOSE e \in Dios : e # d \/ Dios = {d}
\* The receiver ends when an answer could not be parsed.
SlipContinue(r) == [r EXCEPT !.at = "ended", !.header = None, !.res = None]

-----------------------------------------------------------------------------

Init ==
    /\ handler = [d \in Dios |-> "new"]
    /\ up = <<>>
    /\ namenode = Listening
    /\ asked = {}
    /\ down = <<>>
    /\ receiver = Fresh
    /\ dmeta = [d \in Dios |-> None]
    /\ up_down = "up"
    /\ answered = [d \in Dios |-> None]
    /\ overlap = FALSE
    /\ losses = 0

-----------------------------------------------------------------------------
(* Metadata_Handler: the query of one DMS_IO.                               *)

\* What is sent about a DMS_IO: its address in the header, its blocks in the body.
Generate_NN_Protocol_Header(d) == [is |-> "header", dio |-> d]
Generate_NN_Protocol_Body(d) == [is |-> "body", dio |-> d]
Generate_Query_Request_of_Namenode(d) ==
    [header |-> Generate_NN_Protocol_Header(d), body |-> Generate_NN_Protocol_Body(d)]

\* The header has its length of the body in the order of the network, and so it is when the
\* sender takes it for the number of bytes to send (of a number of one byte).
QuerySize == 18
htonl(n) == n * 16777216
body_length == htonl(QuerySize)

\* What lies behind the body on the stack.
Stack(d) == [is |-> "stack", dio |-> d]

Idle(d) == handler[d] = "new"

\* A send that did not finish is not taken up again, whatever the error was and whatever
\* state the socket is in.
DMS_Sock_ErrorHandling(d) == handler' = [handler EXCEPT ![d] = "failed"]

\* Send_Msg: all of it, a part of it (-EDNC_SNDTIMEO), or nothing (-EDNC_CONNECT).
Send_Msg(d, unit, there) ==
    /\ \/ /\ up_down = "up"
          /\ up' = Append(up, unit)
          /\ handler' = [handler EXCEPT ![d] = there]
       \/ /\ up_down = "up"
          /\ up' = Append(up, [unit EXCEPT !.is = "part"])
          /\ DMS_Sock_ErrorHandling(d)
       \/ /\ up_down = "down"
          /\ DMS_Sock_ErrorHandling(d)
          /\ UNCHANGED up
    /\ UNCHANGED <<namenode, asked, down, receiver, dmeta, up_down, answered, losses>>

Send_Header(d) ==
    /\ Idle(d)
    /\ Send_Msg(d, Generate_Query_Request_of_Namenode(d).header, "body")
    /\ overlap' = (overlap \/ \E e \in Dios \ {d} : handler[e] = "body")

\* The body, and the stack behind it: the second call of Send_Msg sends body_length bytes, and
\* gives up the lock of the socket whenever it waits for room.
Send_Body(d) ==
    /\ handler[d] = "body"
    /\ Send_Msg(d, Generate_Query_Request_of_Namenode(d).body,
                IF body_length > QuerySize THEN "rest" ELSE "sent")
    /\ UNCHANGED overlap
Send_Rest(d) == handler[d] = "rest" /\ Send_Msg(d, Stack(d), "sent") /\ UNCHANGED overlap

-----------------------------------------------------------------------------
(* The namenode: external.  It reads a header, then the body.  A header in  *)
(* place of a body begins another query; at anything else out of turn it    *)
(* looks for the next header, or is out of step until the connection is     *)
(* lost.  It takes nothing on the stack for a header, and answers nothing   *)
(* that is not a whole body.                                                *)

Namenode_Reads ==
    /\ up # <<>> /\ namenode.at # "lost"
    /\ LET unit == Head(up) IN
       \/ /\ unit.is = "header"
          /\ namenode' = [at |-> "body", dio |-> unit.dio]
          /\ UNCHANGED asked
       \/ /\ namenode.at = "body" /\ unit.is = "body"
          /\ namenode' = Listening
          /\ asked' = asked \cup {[dio |-> namenode.dio, about |-> unit.dio]}
       \/ /\ IF namenode.at = "header" THEN unit.is # "header" ELSE unit.is # "body"
          /\ namenode' \in {Listening, [at |-> "lost", dio |-> "none"]}
          /\ UNCHANGED asked
    /\ up' = Tail(up)
    /\ UNCHANGED <<handler, down, receiver, dmeta, up_down, answered, overlap, losses>>

\* An answer about the blocks of a DMS_IO, and its body.
Response(d, lrs) ==
    LET rq == Request(d)
    IN  [volumeID |-> rq.volumeID, start_LBID |-> rq.sLBID, nr_LBIDs |-> rq.nr_LBIDs,
         commit_ID |-> Long(1), lrs |-> lrs]
Body(d, lrs) == Wire_Metadata_Response(Response(d, lrs))

\* An answer about the blocks the body asked for, to the DMS_IO of the header.
Namenode_Answers ==
    \E q \in asked : \E lrs \in Answers(q.about), sub \in SubTypes :
        LET body == Body(q.about, lrs)
        IN  /\ asked' = asked \ {q}
            /\ down' = Append(down, [header |-> [is |-> "header", extention |-> q.dio, sub_type |-> sub,
                                                 service_type |-> Request(q.about).type],
                                     body |-> body])
            /\ answered' = [answered EXCEPT ![q.dio] =
                                [is |-> "answer", about |-> q.about, lrs |-> lrs, sub |-> sub]]
            /\ UNCHANGED <<handler, up, namenode, receiver, dmeta, up_down, overlap, losses>>

-----------------------------------------------------------------------------
(* Namenode_Receiver.                                                       *)

Recv_Header ==
    /\ receiver.at = "header" /\ down # <<>>
    /\ receiver' = [receiver EXCEPT !.at = "body", !.header = Head(down).header]
    /\ UNCHANGED <<handler, up, namenode, asked, down, dmeta, up_down, answered, overlap, losses>>

Continue(r) == [r EXCEPT !.at = "header", !.header = None, !.res = None]

\* What the parser makes of each body that can arrive: a table, so that TLC parses it once.
Bodies == UNION {{Body(d, lrs) : lrs \in Answers(d)} : d \in Dios}
Received == {[sub_type |-> sub, service_type |-> type, body |-> body] :
               sub \in SubTypes, type \in Queries, body \in Bodies}
Parsed == [m \in Received |->
             Parse_NN_Protocol_Body([sub_type |-> m.sub_type, service_type |-> m.service_type], m.body)]

\* The body is read into a page, which holds the answer to any request of MAX_KSECTORS, and
\* parsed; without a result the answer is dropped.
Recv_Body ==
    /\ receiver.at = "body"
    /\ LET p == Parsed[[sub_type |-> receiver.header.sub_type,
                        service_type |-> receiver.header.service_type, body |-> Head(down).body]]
       IN  receiver' = IF p.ret > 0
                       THEN [receiver EXCEPT !.at = "process", !.res = p.res]
                       ELSE Continue(receiver)
    /\ down' = Tail(down)
    /\ UNCHANGED <<handler, up, namenode, asked, dmeta, up_down, answered, overlap, losses>>

Extention(d) == d

\* The metadata is linked to the DMS_IO the header points to.
Process_Namenode_Response ==
    /\ receiver.at = "process"
    /\ dmeta' = [dmeta EXCEPT ![Extention(receiver.header.extention)] =
                     [is |-> "dmeta", res |-> receiver.res]]
    /\ receiver' = Continue(receiver)
    /\ UNCHANGED <<handler, up, namenode, asked, down, up_down, answered, overlap, losses>>

-----------------------------------------------------------------------------
(* The connection, as ConnectionManager leaves it to this module.           *)

\* What was under way is lost, and nobody sends it again.
Lose_Connection ==
    /\ up_down = "up" /\ losses < MaxLosses
    /\ up_down' = "down"
    /\ up' = <<>> /\ down' = <<>> /\ asked' = {}
    /\ namenode' = Listening
    /\ receiver' = IF receiver.at = "process" THEN receiver ELSE Fresh
    /\ losses' = losses + 1
    /\ UNCHANGED <<handler, dmeta, answered, overlap>>

Rebuild_Connection ==
    /\ up_down = "down" /\ receiver.at = "header"
    /\ up_down' = "up"
    /\ UNCHANGED <<handler, up, namenode, asked, down, receiver, dmeta, answered, overlap, losses>>

-----------------------------------------------------------------------------

Next ==
    \/ \E d \in Dios : Send_Header(d) \/ Send_Body(d) \/ Send_Rest(d)
    \/ Namenode_Reads \/ Namenode_Answers
    \/ Recv_Header \/ Recv_Body \/ Process_Namenode_Response
    \/ Lose_Connection \/ Rebuild_Connection

Spec == Init /\ [][Next]_vars

\* The receiver is a kernel thread: whatever it can do next, it does.
FairSpec == Spec /\ WF_vars(Recv_Header) /\ WF_vars(Recv_Body) /\ WF_vars(Process_Namenode_Response)

-----------------------------------------------------------------------------
(* Properties.                                                              *)

\* The located requests as the driver should see them: each starts at the block
\* behind the one before.
Before(lrs, i) == Len(FlattenSeq([k \in 1..i - 1 |-> lrs[k].hbids]))
Seen(d, lrs) ==
    [i \in DOMAIN lrs |-> [slbid |-> Plus(Request(d).sLBID, Before(lrs, i)), state |-> lrs[i].state,
                           hbids |-> lrs[i].hbids, locs |-> lrs[i].locs]]

\* Metadata linked to a DMS_IO is what the namenode last answered to it, field by field,
\* whatever other answers, lost connections and dropped answers came between: parsing a body
\* neither runs into the next field nor into another located request
\* (Parse_Metadata_Response, Process_Namenode_Response).
DmetaIsTheAnswer ==
    \A d \in Dios : dmeta[d].is = "dmeta" =>
        /\ answered[d].is = "answer"
        /\ dmeta[d].res.lrs = Seen(answered[d].about, answered[d].lrs)

\* A DMS_IO is given the blocks of another one only if a header was sent between the header and
\* the body of another query, for which the lock is missing: neither a lost connection, nor a
\* send that is cut off, nor what follows a body brings the header of one query and the body
\* of another together (Send_Query_Request_to_Namenode).
MixUpNeedsOverlap ==
    \A d \in Dios :
        (dmeta[d].is = "dmeta" /\ dmeta[d].res.start_LBID # Request(d).sLBID) => overlap

\* An answer that has reached the driver is linked to its DMS_IO, unless the connection is lost
\* meanwhile, if it has located requests and all of them have a datanode: an answer that is
\* dropped does not stop the receiver (Namenode_Receiver).  An answer of the sub-type RESPONSE
\* is not usable: Parse_NN_Protocol_Body drops it, though its message asks for that sub-type.
Arrived(d, n) == losses = n /\ \E i \in DOMAIN down : down[i].header.extention = d
Usable(a) == a.sub # "RESPONSE" /\ a.lrs # <<>> /\ \A i \in DOMAIN a.lrs : a.lrs[i].locs # <<>>
UsableAnswerIsDelivered ==
    \A d \in Dios, n \in 0..MaxLosses :
        (Arrived(d, n) /\ Usable(answered[d])) ~> (dmeta[d].is = "dmeta" \/ losses > n)
=============================================================================
