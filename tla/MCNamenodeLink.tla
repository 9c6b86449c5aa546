---------------------------- MODULE MCNamenodeLink ----------------------------
(***************************************************************************)
(* Two DMS_IOs: a write of two blocks that the namenode may place in one   *)
(* or two located requests, and a read one block of which may be on no     *)
(* datanode.                                                               *)
(***************************************************************************)
EXTENDS NamenodeLink

MCRequest(d) ==
    CASE d = "write" -> [volumeID |-> Long(1), sLBID |-> Long(5), nr_LBIDs |-> 2, type |-> "QUERY_FOR_WRITE"]
      [] d = "read" -> [volumeID |-> Long(2), sLBID |-> Long(9), nr_LBIDs |-> 2, type |-> "QUERY_FOR_READ"]

Hbids(from, n) == [i \in 1..n |-> Long(from + i)]
Loc(ip, from, n) == [ip |-> ip, port |-> 9009, triplets |-> Hbids(100 * ip + from, n)]
Lr(from, n, ips) == [state |-> 1, hbids |-> Hbids(from, n), locs |-> [i \in DOMAIN ips |-> Loc(ips[i], from, n)]]

MCAnswers(d) ==
    CASE d = "write" -> {<<Lr(11, 2, <<1, 2>>)>>, <<Lr(11, 1, <<1>>), Lr(16, 1, <<2, 3>>)>>}
      [] d = "read" -> {<<Lr(21, 2, <<3>>)>>, <<>>, <<Lr(21, 1, <<2>>), Lr(23, 1, <<>>)>>}
=============================================================================
