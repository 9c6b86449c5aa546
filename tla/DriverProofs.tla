----------------------------- MODULE DriverProofs -----------------------------
(***************************************************************************)
(* Proofs about the life of the module and of its pools, for any number of *)
(* requests, loads and objects.                                            *)
(***************************************************************************)
EXTENDS Driver, FiniteSetTheorems, TLAPS

\* Where a load or an unload has every pool.
PoolsAreUp ==
    \/ mod = "live"
    \/ mod = "coming" /\ at \in {"volumes", "nodes", "metadata", "chr", "blk"}
    \/ mod = "going" /\ at \in {"metadata", "nodes", "volumes"}

\* The steps of loading and unloading: the pools come first and go last, and the receivers
\* of the datanodes stop while the pools are there.
LoadInv ==
    /\ mod \in {"absent", "coming", "live", "going"}
    /\ mod \in {"absent", "live"} => at = "none"
    /\ PoolsAreUp => dmpp = Pools
    /\ mod = "coming" =>
          /\ at \in {"pools", "rollback", "volumes", "nodes", "metadata", "chr", "blk"}
          /\ at = "pools" => pos \in 1..Len(dmp_manager) + 1 /\ dmpp = 1..pos - 1
    /\ mod = "going" =>
          /\ at \in {"metadata", "nodes", "volumes", "pools", "unregister"}
          /\ "nodes" \in running => at \in {"metadata", "nodes"}

\* A request is at work only while its disk is open, and the disk only while the module is
\* live; what may be left of it at the unload is a late answer.  The daemon has the controller
\* open only while every pool is there.
WorkInv ==
    /\ open => mod = "live"
    /\ chr => mod \in {"live", "going"} \/ (mod = "coming" /\ at = "blk")
    /\ fd => mod = "live" \/ (mod = "coming" /\ at = "blk")
    /\ req \in [Requests -> [pc : {"idle", "make", "asked", "answered", "sent", "ended"}, got : Int]]
    /\ \A r \in Requests :
          /\ req[r].pc \in {"make", "asked", "answered", "sent"} => open
          /\ req[r].pc = "ended" => mod \in {"live", "going"}

PoolInv == LoadInv /\ WorkInv /\ PoolsOutliveUsers

\* The pools named in the code are in the table.
LEMMA PoolNumbers ==
  /\ Pools = 1..5 /\ Len(dmp_manager) = 5
  /\ Pool("dlist") = 1 /\ Pool("lbmd") = 2 /\ Pool("ioreq") = 3
  /\ Pool("dmeta") = 4 /\ Pool("dntag") = 5
<1>1. Pools = 1..5 /\ Len(dmp_manager) = 5
  BY DEF Pools, dmp_manager
<1>2. /\ dmp_manager[1] = "dlist" /\ dmp_manager[2] = "lbmd" /\ dmp_manager[3] = "ioreq"
      /\ dmp_manager[4] = "dmeta" /\ dmp_manager[5] = "dntag"
  BY DEF dmp_manager
<1>3. QED
  BY <1>1, <1>2 DEF Pool

LEMMA NamedPools ==
  /\ Pools = 1..5 /\ Len(dmp_manager) = 5
  /\ \A name \in {"dlist", "lbmd", "ioreq", "dmeta", "dntag"} : Pool(name) \in Pools
BY PoolNumbers

LEMMA InitPools == Init => PoolInv
BY DEF Init, PoolInv, LoadInv, WorkInv, PoolsOutliveUsers, PoolsAreUp, Idle

\* Loading; no request is at work.
LEMMA LoadingKeepsPools ==
  ASSUME PoolInv,
         \/ Insmod
         \/ Init_Pool
         \/ Init_Pool_Done
         \/ Rolled_Back
         \/ Init_Manager
         \/ Register_Chrdev
         \/ Register_Blkdev
  PROVE  PoolInv'
<1>1. Len(dmp_manager) = 5 /\ Pools = 1..5
  BY NamedPools
<1>2. /\ mod \in {"absent", "coming"} /\ UNCHANGED <<req, open>>
      /\ fault' \in {fault, "null"}
  <2>1. CASE Insmod
    BY <2>1 DEF Insmod, Load, users, requests
  <2>2. CASE Init_Pool
    BY <2>2 DEF Init_Pool, Load, users, requests
  <2>3. CASE Init_Pool_Done
    BY <2>3 DEF Init_Pool_Done, Load, users, requests
  <2>4. CASE Rolled_Back
    BY <2>4 DEF Rolled_Back, Load, requests, PoolInv, LoadInv
  <2>5. CASE Init_Manager
    BY <2>5 DEF Init_Manager, Load, requests
  <2>6. CASE Register_Chrdev
    BY <2>6 DEF Register_Chrdev, Load, requests
  <2>7. CASE Register_Blkdev
    BY <2>7 DEF Register_Blkdev, Load, requests
  <2>8. QED
    BY <2>1, <2>2, <2>3, <2>4, <2>5, <2>6, <2>7
<1>3. PoolsOutliveUsers'
  BY <1>2 DEF PoolInv, PoolsOutliveUsers
<1>4. CASE Insmod
  <2>1. mod' = "coming" /\ at' = "pools" /\ pos' = 1 /\ dmpp' = {} /\ mod = "absent"
        /\ UNCHANGED <<chr, fd, req, open, running>>
    BY <1>4 DEF Insmod, users
  <2>2. 1 \in 1..5 + 1 /\ {} = 1..1 - 1
    OBVIOUS
  <2>3. LoadInv'
    BY <1>1, <2>1, <2>2 DEF LoadInv, PoolsAreUp
  <2>4. WorkInv'
    BY <2>1 DEF PoolInv, WorkInv
  <2>5. QED
    BY <1>3, <2>3, <2>4 DEF PoolInv
<1>5. CASE Init_Pool
  <2>1. /\ mod = "coming" /\ at = "pools" /\ pos \in 1..5 /\ dmpp = 1..pos - 1
        /\ UNCHANGED <<mod, running>>
    BY <1>1, <1>5 DEF Init_Pool, PoolInv, LoadInv
  <2>2. WorkInv'
    <3>1. UNCHANGED <<chr, fd>>
      BY <1>5 DEF Init_Pool, users
    <3>2. ~chr /\ ~fd
      BY <2>1 DEF PoolInv, WorkInv
    <3>3. QED
      BY <1>2, <2>1, <3>1, <3>2 DEF PoolInv, WorkInv
  <2>3. \/ at' = "pools" /\ pos' = pos + 1 /\ dmpp' = dmpp \cup {pos}
        \/ at' = "rollback" /\ dmpp' = dmpp
        \/ at' = "pools" /\ pos' = pos /\ dmpp' = dmpp
    BY <1>5, <2>1 DEF Init_Pool
  <2>4. (1..pos - 1) \cup {pos} = 1..(pos + 1) - 1
    BY <2>1
  <2>5. LoadInv'
    <3>1. at' = "pools" => pos' \in 1..6 /\ dmpp' = 1..pos' - 1
      <4>1. CASE at' = "pools" /\ pos' = pos + 1 /\ dmpp' = dmpp \cup {pos}
        <5>1. dmpp' = 1..(pos + 1) - 1
          BY <2>1, <2>4, <4>1
        <5>2. dmpp' = 1..pos' - 1
          BY <4>1, <5>1
        <5>3. pos' \in 1..6
          BY <2>1, <4>1
        <5>4. QED
          BY <5>2, <5>3
      <4>2. CASE at' = "rollback"
        BY <4>2
      <4>3. CASE pos' = pos /\ dmpp' = dmpp
        BY <2>1, <4>3
      <4>4. QED
        BY <2>3, <4>1, <4>2, <4>3
    <3>2. at' \in {"pools", "rollback"} /\ mod' = "coming"
      BY <2>1, <2>3
    <3>3. QED
      BY <1>1, <3>1, <3>2 DEF LoadInv, PoolsAreUp
  <2>6. QED
    BY <1>3, <2>2, <2>5 DEF PoolInv
<1>6. CASE Init_Pool_Done
  BY <1>1, <1>2, <1>3, <1>6
  DEF Init_Pool_Done, Load, users, PoolInv, LoadInv, WorkInv, PoolsAreUp
<1>7. CASE Rolled_Back
  BY <1>1, <1>2, <1>3, <1>7
  DEF Rolled_Back, Load, Load_Failed, PoolInv, LoadInv, WorkInv, PoolsAreUp
<1>8. CASE Init_Manager
  BY <1>1, <1>2, <1>3, <1>8
  DEF Init_Manager, Init_DMS_Volume_Manager, Init_Node_Builder, Init_Metadata_Manager, Started,
      No_Memory, Next_Init, Load, Load_Failed, PoolInv, LoadInv, WorkInv, PoolsAreUp
<1>9. CASE Register_Chrdev
  BY <1>1, <1>2, <1>3, <1>9
  DEF Register_Chrdev, Load, Load_Failed, PoolInv, LoadInv, WorkInv, PoolsAreUp
<1>10. CASE Register_Blkdev
  BY <1>1, <1>2, <1>3, <1>10
  DEF Register_Blkdev, Load, Load_Failed, PoolInv, LoadInv, WorkInv, PoolsAreUp
<1>11. QED
  BY <1>4, <1>5, <1>6, <1>7, <1>8, <1>9, <1>10

\* Unloading, which waits for the open disk; and the rollback of the pools.
LEMMA UnloadingKeepsPools ==
  ASSUME PoolInv,
         \/ Rmmod
         \/ Release_Manager
         \/ Release_Pool
         \/ Release_Pools_Done
         \/ Unregister
  PROVE  PoolInv'
<1>1. /\ open' = open /\ fault' \in {fault, "outstanding"}
  BY DEF Rmmod, Release_Manager, Release_Pool, Release_Pools_Done, Unregister, users
<1>2. PoolsOutliveUsers'
  BY <1>1 DEF PoolInv, PoolsOutliveUsers
<1>3. CASE Rmmod
  BY <1>1, <1>2, <1>3 DEF Rmmod, Load, users, requests, PoolInv, LoadInv, WorkInv, PoolsAreUp
<1>4. CASE Release_Manager
  BY <1>1, <1>2, <1>4
  DEF Release_Manager, Load, Next_Release, Manager, requests, PoolInv, LoadInv, WorkInv, PoolsAreUp
<1>5. CASE Release_Pool
  BY <1>1, <1>2, <1>5
  DEF Release_Pool, Load, users, requests, PoolInv, LoadInv, WorkInv, PoolsAreUp
<1>6. CASE Release_Pools_Done
  BY <1>1, <1>2, <1>6
  DEF Release_Pools_Done, Load, Next_Release, users, requests, PoolInv, LoadInv, WorkInv, PoolsAreUp
<1>7. CASE Unregister
  <2>1. mod' = "absent" /\ at' = "none" /\ chr' = FALSE /\ req' = [r \in Requests |-> Idle]
        /\ mod = "going" /\ UNCHANGED <<fd, open>>
    BY <1>7 DEF Unregister, users
  <2>2. ~fd /\ ~open
    BY <2>1 DEF PoolInv, WorkInv
  <2>3. LoadInv' /\ WorkInv'
    BY <2>1, <2>2 DEF LoadInv, WorkInv, PoolsAreUp, Idle
  <2>4. QED
    BY <1>2, <2>3 DEF PoolInv
<1>8. QED
  BY <1>3, <1>4, <1>5, <1>6, <1>7

\* The controller's file is there with the pools.
LEMMA FileHasPools ==
  ASSUME PoolInv, fd
  PROVE  dmpp = Pools /\ mod \in {"coming", "live"} /\ Pool("dlist") \in dmpp
BY NamedPools DEF PoolInv, LoadInv, WorkInv, PoolsAreUp

\* The daemon, the user of the disk, memory, and the call of freed code.
LEMMA UsersKeepPools ==
  ASSUME PoolInv,
         \/ Open_Controller
         \/ Close_Controller
         \/ IOCTL_AttachVolume
         \/ IOCTL_DetachVolume
         \/ DMS_VDisk_Open
         \/ DMS_VDisk_Release
         \/ Memory
         \/ Run_Freed_Text
         \/ UNCHANGED vars
  PROVE  PoolInv'
<1>1. UNCHANGED <<module, req>> /\ fault' \in {fault, "freed text"}
  <2>1. CASE IOCTL_AttachVolume
    BY <2>1, FileHasPools DEF IOCTL_AttachVolume, Calls, In_Pool
  <2>2. QED
    BY <2>1
    DEF Open_Controller, Close_Controller, IOCTL_DetachVolume,
        DMS_VDisk_Open, DMS_VDisk_Release, Memory, Run_Freed_Text, Use, Calls, requests, vars
<1>2. /\ open' => mod = "live"
      /\ open /\ ~open' => \A r \in Requests : req[r].pc \in {"idle", "ended"}
      /\ fd' => fd \/ (chr /\ mod \in {"coming", "live"})
  <2>1. CASE DMS_VDisk_Open
    BY <2>1 DEF DMS_VDisk_Open, Use, PoolInv, WorkInv
  <2>2. CASE DMS_VDisk_Release
    BY <2>2 DEF DMS_VDisk_Release, Use, PoolInv, WorkInv
  <2>3. CASE open' = open /\ (fd' => fd \/ (chr /\ mod \in {"coming", "live"}))
    BY <2>3 DEF PoolInv, WorkInv
  <2>4. CASE IOCTL_AttachVolume
    <3>1. open' = open /\ fd' = fd
      BY <2>4, FileHasPools DEF IOCTL_AttachVolume, Calls, In_Pool
    <3>2. QED
      BY <2>3, <3>1
  <2>5. CASE Open_Controller
    <3>1. open' = open /\ chr /\ mod \in {"coming", "live"}
      BY <2>5 DEF Open_Controller, Use, Calls
    <3>2. QED
      BY <2>3, <3>1
  <2>6. CASE Close_Controller
    BY <2>3, <2>6 DEF Close_Controller
  <2>7. CASE IOCTL_DetachVolume
    BY <2>3, <2>7 DEF IOCTL_DetachVolume
  <2>8. CASE Memory \/ Run_Freed_Text \/ UNCHANGED vars
    <3>1. UNCHANGED users
      BY <2>8 DEF Memory, Run_Freed_Text, vars
    <3>2. open' = open /\ fd' = fd
      BY <3>1 DEF users
    <3>3. QED
      BY <2>3, <3>2
  <2>9. QED
    BY <2>1, <2>2, <2>4, <2>5, <2>6, <2>7, <2>8
<1>3. LoadInv' /\ PoolsOutliveUsers'
  BY <1>1 DEF module, PoolInv, LoadInv, PoolsAreUp, PoolsOutliveUsers
<1>4. WorkInv'
  BY <1>1, <1>2 DEF module, PoolInv, WorkInv
<1>5. QED
  BY <1>3, <1>4 DEF PoolInv

\* A request, wherever it is, finds its pools.
LEMMA RequestHasPools ==
  ASSUME PoolInv, NEW r \in Requests, req[r].pc # "idle",
         req[r].pc = "ended" => "nodes" \in running
  PROVE  dmpp = Pools
BY DEF PoolInv, LoadInv, WorkInv, PoolsAreUp

\* What a step of a request does to it.
LEMMA StepOfRequest ==
  ASSUME PoolInv, NEW r \in Requests, Step(r)
  PROVE  /\ UNCHANGED <<module, users, attached, fault>> /\ fault = "none"
         /\ \/ /\ DMS_Request_Handler(r) /\ served' = served + 1 /\ mod = "live" /\ open
               /\ req[r].pc = "idle" /\ req' = [req EXCEPT ![r] = [pc |-> "make", got |-> 0]]
               /\ UNCHANGED objects
            \/ /\ dmpp = Pools /\ served' = served
               /\ \/ /\ req[r].pc = "make" /\ Mempool_Alloc(Pool(Wanted(req[r].got)))
                     /\ req' = [req EXCEPT ![r] = [pc |-> IF req[r].got = NrBlocks + 1 THEN "asked" ELSE "make",
                                                   got |-> req[r].got + 1]]
                  \/ /\ req[r].pc = "asked" /\ Mempool_Alloc(Pool("dmeta"))
                     /\ req' = [req EXCEPT ![r].pc = "answered"]
                  \/ /\ req[r].pc = "answered" /\ Mempool_Alloc(Pool("dntag"))
                     /\ req' = [req EXCEPT ![r].pc = "sent"]
                  \/ /\ req[r].pc = "sent" /\ Mempool_Free(Pool("lbmd"), Blocks(r))
                     /\ req' = [req EXCEPT ![r] = [pc |-> "ended", got |-> 0]]
                  \/ /\ req[r].pc = "ended" /\ Mempool_Free(Pool("dntag"), 1)
                     /\ req' = [req EXCEPT ![r] = Idle]
<1>1. UNCHANGED module /\ fault = "none"
  BY DEF Step, DMS_Request_Handler, Make_DIO_Request, Process_Namenode_Response,
         Create_DMS_Datanode_Tag, Commit_DIO_to_IO_Request, Commit_Datanode_Tags, Serve, Up
<1>2. CASE DMS_Request_Handler(r)
  BY <1>1, <1>2 DEF DMS_Request_Handler
<1>3. CASE Make_DIO_Request(r)
  <2>1. req[r].pc = "make"
    BY <1>3 DEF Make_DIO_Request
  <2>2. dmpp = Pools
    BY <2>1, RequestHasPools
  <2>3. Pool(Wanted(req[r].got)) \in dmpp
    BY <2>2, NamedPools DEF Wanted
  <2>4. QED
    BY <1>1, <1>3, <2>1, <2>2, <2>3 DEF Make_DIO_Request, Serve_From, In_Pool
<1>4. CASE Process_Namenode_Response(r)
  <2>1. req[r].pc = "asked"
    BY <1>4 DEF Process_Namenode_Response
  <2>2. dmpp = Pools /\ Pool("dmeta") \in dmpp
    BY <2>1, RequestHasPools, NamedPools
  <2>3. QED
    BY <1>1, <1>4, <2>1, <2>2 DEF Process_Namenode_Response, Serve_From, In_Pool
<1>5. CASE Create_DMS_Datanode_Tag(r)
  <2>1. req[r].pc = "answered"
    BY <1>5 DEF Create_DMS_Datanode_Tag
  <2>2. dmpp = Pools /\ Pool("dntag") \in dmpp
    BY <2>1, RequestHasPools, NamedPools
  <2>3. QED
    BY <1>1, <1>5, <2>1, <2>2 DEF Create_DMS_Datanode_Tag, Serve_From, In_Pool
<1>6. CASE Commit_DIO_to_IO_Request(r)
  <2>1. req[r].pc = "sent"
    BY <1>6 DEF Commit_DIO_to_IO_Request
  <2>2. dmpp = Pools /\ Pool("lbmd") \in dmpp
    BY <2>1, RequestHasPools, NamedPools
  <2>3. QED
    BY <1>1, <1>6, <2>1, <2>2 DEF Commit_DIO_to_IO_Request, Serve_From, In_Pool
<1>7. CASE Commit_Datanode_Tags(r)
  <2>1. req[r].pc = "ended" /\ "nodes" \in running
    BY <1>7 DEF Commit_Datanode_Tags
  <2>2. dmpp = Pools /\ Pool("dntag") \in dmpp
    BY <2>1, RequestHasPools, NamedPools
  <2>3. QED
    BY <1>1, <1>7, <2>1, <2>2 DEF Commit_Datanode_Tags, Serve_From, In_Pool
<1>8. QED
  BY <1>2, <1>3, <1>4, <1>5, <1>6, <1>7 DEF Step

LEMMA RequestsKeepPools ==
  ASSUME PoolInv, NEW r \in Requests, Step(r)
  PROVE  PoolInv'
<1>1. UNCHANGED <<module, users, fault>>
  BY StepOfRequest
<1>2. LoadInv' /\ PoolsOutliveUsers'
  BY <1>1 DEF module, PoolInv, LoadInv, PoolsAreUp, PoolsOutliveUsers
<1>3. open' = open /\ mod' = mod /\ at' = at /\ chr' = chr /\ fd' = fd
  BY <1>1 DEF users, module
<1>4. PICK q : /\ req' = [req EXCEPT ![r] = q]
               /\ q \in [pc : {"idle", "make", "asked", "answered", "sent", "ended"}, got : Int]
               /\ q.pc \notin {"idle", "ended"} => open
               /\ q.pc = "ended" => mod = "live"
  <2>1. req[r].got \in Int /\ req[r].got + 1 \in Int
    BY DEF PoolInv, WorkInv
  <2>2. req[r].pc \in {"make", "asked", "answered", "sent"} => open /\ mod = "live"
    BY DEF PoolInv, WorkInv
  <2>3. \/ open /\ req' = [req EXCEPT ![r] = [pc |-> "make", got |-> 0]]
        \/ /\ req[r].pc = "make"
           /\ req' = [req EXCEPT ![r] = [pc |-> IF req[r].got = NrBlocks + 1 THEN "asked" ELSE "make",
                                         got |-> req[r].got + 1]]
        \/ req[r].pc = "asked" /\ req' = [req EXCEPT ![r] = [req[r] EXCEPT !.pc = "answered"]]
        \/ req[r].pc = "answered" /\ req' = [req EXCEPT ![r] = [req[r] EXCEPT !.pc = "sent"]]
        \/ req[r].pc = "sent" /\ req' = [req EXCEPT ![r] = [pc |-> "ended", got |-> 0]]
        \/ req' = [req EXCEPT ![r] = Idle]
    BY StepOfRequest
  <2>4. req[r] \in [pc : {"idle", "make", "asked", "answered", "sent", "ended"}, got : Int]
    BY DEF PoolInv, WorkInv
  <2>5. CASE open /\ req' = [req EXCEPT ![r] = [pc |-> "make", got |-> 0]]
    <3> DEFINE q == [pc |-> "make", got |-> 0]
    <3>1. q.pc = "make" /\ open
          /\ q \in [pc : {"idle", "make", "asked", "answered", "sent", "ended"}, got : Int]
      BY <2>5
    <3>2. QED
      BY <2>5, <3>1
  <2>6. CASE /\ req[r].pc = "make"
             /\ req' = [req EXCEPT ![r] = [pc |-> IF req[r].got = NrBlocks + 1 THEN "asked" ELSE "make",
                                           got |-> req[r].got + 1]]
    <3> DEFINE q == [pc |-> IF req[r].got = NrBlocks + 1 THEN "asked" ELSE "make",
                     got |-> req[r].got + 1]
    <3>1. q.pc \in {"asked", "make"} /\ open
          /\ q \in [pc : {"idle", "make", "asked", "answered", "sent", "ended"}, got : Int]
      BY <2>1, <2>2, <2>6
    <3>2. QED
      BY <2>6, <3>1
  <2>7. CASE req[r].pc = "asked" /\ req' = [req EXCEPT ![r] = [req[r] EXCEPT !.pc = "answered"]]
    <3> DEFINE q == [req[r] EXCEPT !.pc = "answered"]
    <3>1. q.pc = "answered" /\ open
          /\ q \in [pc : {"idle", "make", "asked", "answered", "sent", "ended"}, got : Int]
      BY <2>2, <2>4, <2>7
    <3>2. QED
      BY <2>7, <3>1
  <2>8. CASE req[r].pc = "answered" /\ req' = [req EXCEPT ![r] = [req[r] EXCEPT !.pc = "sent"]]
    <3> DEFINE q == [req[r] EXCEPT !.pc = "sent"]
    <3>1. q.pc = "sent" /\ open
          /\ q \in [pc : {"idle", "make", "asked", "answered", "sent", "ended"}, got : Int]
      BY <2>2, <2>4, <2>8
    <3>2. QED
      BY <2>8, <3>1
  <2>9. CASE req[r].pc = "sent" /\ req' = [req EXCEPT ![r] = [pc |-> "ended", got |-> 0]]
    <3> DEFINE q == [pc |-> "ended", got |-> 0]
    <3>1. q.pc = "ended" /\ mod = "live"
          /\ q \in [pc : {"idle", "make", "asked", "answered", "sent", "ended"}, got : Int]
      BY <2>2, <2>9
    <3>2. QED
      BY <2>9, <3>1
  <2>10. CASE req' = [req EXCEPT ![r] = Idle]
    <3>1. Idle.pc = "idle"
          /\ Idle \in [pc : {"idle", "make", "asked", "answered", "sent", "ended"}, got : Int]
      BY DEF Idle
    <3>2. QED
      BY <2>10, <3>1
  <2>11. QED
    BY <2>3, <2>5, <2>6, <2>7, <2>8, <2>9, <2>10
<1>5. WorkInv'
  BY <1>3, <1>4 DEF PoolInv, WorkInv
<1>6. QED
  BY <1>2, <1>5 DEF PoolInv

LEMMA NextKeepsPools == PoolInv /\ [Next]_vars => PoolInv'
BY LoadingKeepsPools, UnloadingKeepsPools, UsersKeepPools, RequestsKeepPools DEF Next

\* No request, and no answer that comes after its request has ended, meets a pool that is not
\* there: the pools are the first that Init_All_Modules starts and the last that
\* Release_All_Modules stops, the unload waits for the open disk, and the receivers of the
\* datanodes stop before the pools.
THEOREM PoolsAreThere == Spec => []PoolsOutliveUsers
<1>1. Init => PoolInv
  BY InitPools
<1>2. PoolInv /\ [Next]_vars => PoolInv'
  BY NextKeepsPools
<1>3. PoolInv => PoolsOutliveUsers
  BY DEF PoolInv
<1>4. QED
  BY <1>1, <1>2, <1>3, PTL DEF Spec
-----------------------------------------------------------------------------
(* What is left behind.                                                     *)

\* The pools are released in their order.
Ordered ==
    /\ mod = "absent" => dmpp = {}
    /\ at = "rollback" => pos \in 1..6 /\ \E n \in 0..5 : dmpp = pos..n
    /\ mod = "going" /\ at = "pools" => pos \in 1..6 /\ dmpp = pos..5
    /\ at = "unregister" => dmpp = {}

\* Neither a manager nor a disk is there before the pools, and after them; and nobody has
\* the controller open before it is registered, and while the module goes.
Managers == {"receiver", "nodes", "volumes"}
NoneRuns ==
    /\ running \subseteq Managers
    /\ mod = "absent" \/ at \in {"pools", "rollback", "unregister"} => running = {} /\ disk = "none"
    /\ mod = "going" =>
          /\ ~fd
          /\ at = "nodes" => "receiver" \notin running
          /\ at = "volumes" => running \subseteq {"volumes"}
    /\ mod = "absent" \/ (mod = "coming" /\ at \notin {"chr", "blk"}) => ~chr /\ ~fd /\ disk = "none"

Clean == caches = dmpp /\ left = {} /\ Ordered /\ NoneRuns
LeftInv == fault = "none" /\ cause = {} => Clean

LEMMA LoadingLeavesNothing ==
  ASSUME PoolInv, PoolInv', Clean, cause = {}, cause' = {}, fault' = "none",
         \/ Insmod
         \/ Init_Pool
         \/ Init_Pool_Done
         \/ Rolled_Back
         \/ Init_Manager
         \/ Register_Chrdev
         \/ Register_Blkdev
  PROVE  Clean'
<1>1. Pools = 1..5
  BY NamedPools
<1>2. CASE Insmod
  BY <1>2 DEF Insmod, Load, users, Clean, Ordered, NoneRuns
<1>3. CASE Init_Pool
  <2>1. /\ mod = "coming" /\ at = "pools" /\ pos \in 1..5 /\ dmpp = 1..pos - 1 /\ caches = dmpp
        /\ UNCHANGED <<mod, running, chr, fd, disk, left>>
    BY <1>1, <1>3 DEF Init_Pool, PoolInv, LoadInv, Clean, users
  <2>2. pos \notin caches
    BY <2>1
  <2>3. CASE /\ caches' = caches \cup {pos} /\ dmpp' = dmpp \cup {pos}
             /\ pos' = pos + 1 /\ UNCHANGED at
    BY <2>1, <2>3 DEF Clean, Ordered, NoneRuns
  <2>4. CASE /\ at' = "rollback" /\ pos' = First /\ UNCHANGED <<caches, dmpp>>
    <3>1. pos' = 1 /\ dmpp' = 1..(pos - 1) /\ pos - 1 \in 0..5
      BY <2>1, <2>4 DEF First
    <3>2. \E n \in 0..5 : dmpp' = pos'..n
      BY <3>1
    <3>3. QED
      BY <2>1, <2>4, <3>1, <3>2 DEF Clean, Ordered, NoneRuns
  <2>5. QED
    BY <1>3, <2>3, <2>4 DEF Init_Pool
<1>4. CASE Init_Pool_Done
  BY <1>4 DEF Init_Pool_Done, Load, users, Clean, Ordered, NoneRuns
<1>5. CASE Rolled_Back
  <2>1. /\ mod = "coming" /\ dmpp = {}
    <3>1. mod = "coming"
      BY <1>5 DEF Rolled_Back, PoolInv, LoadInv
    <3>2. PICK n \in 0..5 : dmpp = pos..n /\ pos \in 1..6
      BY <1>5 DEF Rolled_Back, Clean, Ordered
    <3>3. pos \notin pos..n
      BY <1>5, <3>2 DEF Rolled_Back
    <3>4. QED
      BY <3>1, <3>2, <3>3
  <2>2. QED
    BY <1>5, <2>1 DEF Rolled_Back, Load_Failed, Clean, Ordered, NoneRuns
<1>6. CASE Init_Manager
  <2>1. Started
    BY <1>6
    DEF Init_Manager, Init_DMS_Volume_Manager, Init_Node_Builder, Init_Metadata_Manager, No_Memory,
        Load_Failed
  <2>2. at \in {"volumes", "nodes", "metadata"} /\ mod = "coming" /\ UNCHANGED <<caches, dmpp, pos>>
    BY <1>6
    DEF Init_Manager, Init_DMS_Volume_Manager, Init_Node_Builder, Init_Metadata_Manager
  <2>3. QED
    BY <2>1, <2>2 DEF Started, Next_Init, Manager, Clean, Ordered, NoneRuns, Managers
<1>7. CASE Register_Chrdev
  <2>1. at' = "blk" /\ mod' = "coming" /\ UNCHANGED <<running, caches, dmpp, pos, left>>
    BY <1>7 DEF Register_Chrdev, Load_Failed
  <2>2. QED
    BY <1>7, <2>1 DEF Register_Chrdev, Load_Failed, Clean, Ordered, NoneRuns
<1>8. CASE Register_Blkdev
  <2>1. at' = "none" /\ mod' = "live" /\ UNCHANGED <<running, caches, dmpp, pos, left>>
    BY <1>8 DEF Register_Blkdev, Load_Failed
  <2>2. QED
    BY <1>8, <2>1 DEF Register_Blkdev, Load_Failed, Clean, Ordered, NoneRuns
<1>9. QED
  BY <1>2, <1>3, <1>4, <1>5, <1>6, <1>7, <1>8

LEMMA UnloadingLeavesNothing ==
  ASSUME PoolInv, PoolInv', Clean, cause = {}, cause' = {}, fault' = "none",
         \/ Rmmod
         \/ Release_Manager
         \/ Release_Pool
         \/ Release_Pools_Done
         \/ Unregister
  PROVE  Clean'
<1>1. Pools = 1..5
  BY NamedPools
<1>2. CASE Rmmod
  BY <1>2 DEF Rmmod, Load, users, Clean, Ordered, NoneRuns
<1>3. CASE Release_Manager
  <2>1. /\ mod = "going" /\ mod' = mod /\ at \in {"metadata", "nodes", "volumes"} /\ dmpp = 1..5
        /\ dmpp' = dmpp /\ pos' = 1
    BY <1>1, <1>3 DEF Release_Manager, PoolInv, LoadInv, PoolsAreUp, First
  <2>2. Ordered'
    BY <1>3, <2>1 DEF Release_Manager, Next_Release, Ordered
  <2>3. NoneRuns'
    BY <1>3, <2>1 DEF Release_Manager, Next_Release, Manager, Managers, Clean, NoneRuns
  <2>4. QED
    BY <1>3, <2>2, <2>3 DEF Release_Manager, Clean
<1>4. CASE Release_Pool
  <2>1. /\ pos \in dmpp /\ caches' = caches \ {pos} /\ dmpp' = dmpp \ {pos} /\ pos' = pos + 1
        /\ UNCHANGED <<mod, at, running, chr, fd, disk, left>>
    BY <1>4 DEF Release_Pool, Load, users
  <2>2. PICK n \in 0..5 : dmpp = pos..n /\ pos \in 1..6 /\ (mod = "going" => n = 5)
    BY <1>4 DEF Release_Pool, Clean, Ordered
  <2>3. dmpp' = (pos + 1)..n /\ pos + 1 \in 1..6
    BY <2>1, <2>2
  <2>4. Ordered'
    BY <1>4, <2>1, <2>2, <2>3 DEF Release_Pool, Ordered, PoolInv, LoadInv
  <2>5. QED
    BY <2>1, <2>4 DEF Clean, NoneRuns
<1>5. CASE Release_Pools_Done
  <2>1. dmpp = {} /\ mod' = "going" /\ at' = "unregister" /\ UNCHANGED <<dmpp, caches, left>>
    BY <1>5 DEF Release_Pools_Done, Next_Release, Clean, Ordered
  <2>2. QED
    BY <1>5, <2>1 DEF Release_Pools_Done, Clean, Ordered, NoneRuns, users
<1>6. CASE Unregister
  BY <1>6 DEF Unregister, Clean, Ordered, NoneRuns, users
<1>7. QED
  BY <1>2, <1>3, <1>4, <1>5, <1>6

LEMMA UsersLeaveNothing ==
  ASSUME PoolInv, Clean, fault' = "none",
         \/ Open_Controller
         \/ Close_Controller
         \/ IOCTL_AttachVolume
         \/ IOCTL_DetachVolume
         \/ DMS_VDisk_Open
         \/ DMS_VDisk_Release
         \/ Memory
         \/ Run_Freed_Text
         \/ \E r \in Requests : Step(r)
         \/ UNCHANGED vars
  PROVE  Clean'
<1>1. UNCHANGED module
  BY DEF Open_Controller, Close_Controller, IOCTL_AttachVolume, IOCTL_DetachVolume,
         DMS_VDisk_Open, DMS_VDisk_Release, Memory, Run_Freed_Text, Use, Calls, vars, Step,
         DMS_Request_Handler, Make_DIO_Request, Process_Namenode_Response,
         Create_DMS_Datanode_Tag, Commit_DIO_to_IO_Request, Commit_Datanode_Tags, Serve
<1>2. CASE UNCHANGED users
  BY <1>1, <1>2 DEF module, users, Clean, Ordered, NoneRuns
<1>3. CASE /\ mod \in {"coming", "live"}
           /\ fd' # fd => chr \/ fd
           /\ disk' # disk => fd
  <2>1. mod = "coming" => at \notin {"rollback", "pools", "unregister"} \/ UNCHANGED <<fd, disk>>
    BY <1>3 DEF Clean, NoneRuns
  <2>2. mod = "live" => at = "none"
    BY DEF PoolInv, LoadInv
  <2>3. NoneRuns'
    BY <1>1, <1>3, <2>1, <2>2 DEF module, Clean, NoneRuns
  <2>4. QED
    BY <1>1, <2>3 DEF module, Clean, Ordered
<1>4. CASE IOCTL_AttachVolume
  BY <1>2, <1>3, <1>4 DEF IOCTL_AttachVolume, Calls, In_Pool
<1>5. CASE \/ Open_Controller \/ Close_Controller
           \/ IOCTL_DetachVolume \/ DMS_VDisk_Open \/ DMS_VDisk_Release
  BY <1>3, <1>5
  DEF Open_Controller, Close_Controller, IOCTL_DetachVolume,
      DMS_VDisk_Open, DMS_VDisk_Release, Use, Calls
<1>6. CASE Memory \/ Run_Freed_Text \/ UNCHANGED vars
  BY <1>2, <1>6 DEF Memory, Run_Freed_Text, vars
<1>7. CASE \E r \in Requests : Step(r)
  BY <1>2, <1>7, StepOfRequest
<1>8. QED
  BY <1>4, <1>5, <1>6, <1>7

\* The history of what was left only grows, and the first fault ends the run.
LEMMA FirstFault ==
  ASSUME [Next]_vars
  PROVE  cause \subseteq cause' /\ (fault' = "none" => fault = "none")
<1>1. CASE \/ Insmod \/ Init_Pool \/ Init_Pool_Done \/ Rolled_Back \/ Init_Manager
           \/ Register_Chrdev \/ Register_Blkdev \/ Run_Freed_Text \/ Memory
  BY <1>1
  DEF Insmod, Init_Pool, Init_Pool_Done, Rolled_Back, Init_Manager, Init_DMS_Volume_Manager,
      Init_Node_Builder, Init_Metadata_Manager, Started, No_Memory, Register_Chrdev,
      Register_Blkdev, Load_Failed, Run_Freed_Text, Memory, Load, Up, module
<1>2. CASE Rmmod \/ Release_Manager \/ Release_Pool \/ Release_Pools_Done \/ Unregister
  BY <1>2
  DEF Rmmod, Release_Manager, Release_Pool, Release_Pools_Done, Unregister, Load, Up
<1>3. CASE \/ Open_Controller \/ Close_Controller \/ IOCTL_AttachVolume
           \/ IOCTL_DetachVolume \/ DMS_VDisk_Open \/ DMS_VDisk_Release
  BY <1>3
  DEF Open_Controller, Close_Controller, IOCTL_AttachVolume, IOCTL_DetachVolume,
      DMS_VDisk_Open, DMS_VDisk_Release, Use, Calls, Up, module
<1>4. CASE \E r \in Requests : Step(r)
  BY <1>4
  DEF Step, DMS_Request_Handler, Make_DIO_Request, Process_Namenode_Response,
      Create_DMS_Datanode_Tag, Commit_DIO_to_IO_Request, Commit_Datanode_Tags, Serve, Up, module
<1>5. CASE UNCHANGED vars
  BY <1>5 DEF vars, module
<1>6. QED
  BY <1>1, <1>2, <1>3, <1>4, <1>5 DEF Next

LEMMA NextLeavesNothing ==
  ASSUME PoolInv, PoolInv', LeftInv, [Next]_vars
  PROVE  LeftInv'
<1> SUFFICES ASSUME fault' = "none", cause' = {} PROVE Clean'
  BY DEF LeftInv
<1>1. cause = {} /\ fault = "none" /\ Clean
  BY FirstFault DEF LeftInv
<1>2. QED
  BY <1>1, LoadingLeavesNothing, UnloadingLeavesNothing, UsersLeaveNothing DEF Next

LEMMA LeftHolds == Spec => []LeftInv
<1>1. Init => PoolInv /\ LeftInv
  BY InitPools DEF Init, LeftInv, Clean, Ordered, NoneRuns, Managers
<1>2. PoolInv /\ [Next]_vars => PoolInv'
  BY NextKeepsPools
<1>3. PoolInv /\ PoolInv' /\ LeftInv /\ [Next]_vars => LeftInv'
  BY NextLeavesNothing
<1>4. QED
  BY <1>1, <1>2, <1>3, PTL DEF Spec

\* A load that fails in the pools, and an unload after which no object is in use, leave
\* nothing in the kernel: neither a cache, whose name the next load meets, nor a thread, a
\* file or a disk whose code is gone.
THEOREM NothingIsLeft == Spec => []NothingIsLeftBehind
<1>1. LeftInv => NothingIsLeftBehind
  BY DEF LeftInv, Clean, Ordered, NoneRuns, NothingIsLeftBehind, Up
<1>2. QED
  BY <1>1, LeftHolds, PTL
-----------------------------------------------------------------------------
(* Objects in use.                                                          *)

\* What requests hold: a block for each object but the first two, and a tag; and what they
\* do not have yet.
HeldBlocks == {b \in Requests \X (1..NrBlocks) : b[2] + 1 < req[b[1]].got}
Tagged == {r \in Requests : req[r].pc \in {"sent", "ended"}}
WithoutRequest == {r \in Requests : req[r].pc = "make" /\ req[r].got = 0}
WithoutList == {r \in Requests : req[r].pc = "make" /\ req[r].got \in {0, 1}}
WithoutMetadata == {r \in Requests : req[r].pc \in {"make", "asked"}}

Got ==
    /\ \A r \in Requests :
          /\ req[r].pc \in {"idle", "ended"} => req[r].got = 0
          /\ req[r].pc = "make" => req[r].got \in 0..NrBlocks + 1
          /\ req[r].pc \in {"asked", "answered", "sent"} => req[r].got = NrBlocks + 2
          /\ mod \in {"absent", "coming"} => req[r].pc = "idle"
    /\ mod = "coming" => served = 0 /\ (at = "pools" => attached = 0)

\* What a pool has in use is what volumes and requests have of it.
Counts(S, n) == IsFiniteSet(S) /\ Cardinality(S) = n
Counted ==
    /\ 1 \in dmpp => Counts(WithoutList, attached + served - out[1])
    /\ 2 \in dmpp => Counts(HeldBlocks, out[2])
    /\ 3 \in dmpp => Counts(WithoutRequest, served - out[3])
    /\ 4 \in dmpp => Counts(WithoutMetadata, served - out[4])
    /\ 5 \in dmpp => Counts(Tagged, out[5])

\* The reserve of a pool is whole when none of its objects is in use.
Reserved == \A p \in dmpp : reserve[p] <= MinNr /\ reserve[p] + out[p] >= MinNr

ObjectsType ==
    /\ reserve \in [Pools -> Int] /\ out \in [Pools -> Int]
    /\ served \in Nat /\ attached \in Nat /\ dmpp \subseteq Pools

\* The kernel stops at a pool with an object in use.
Stopped == fault = "outstanding" => out[pos] > 0

ObjectsInv ==
    /\ ObjectsType /\ Got /\ Stopped
    /\ mod # "absent" => Counted /\ Reserved

LEMMA CountsNone == Counts({}, 0)
BY FS_EmptySet DEF Counts

LEMMA CountsAdd ==
  ASSUME NEW S, NEW n \in Int, Counts(S, n), NEW e, e \notin S
  PROVE  Counts(S \cup {e}, n + 1)
BY FS_AddElement, FS_CardinalityType DEF Counts

LEMMA CountsRemove ==
  ASSUME NEW S, NEW n \in Int, Counts(S, n), NEW e, e \in S
  PROVE  Counts(S \ {e}, n - 1) /\ n >= 1
<1>1. IsFiniteSet(S) /\ Cardinality(S) \in Nat /\ Cardinality(S) = n
  BY FS_CardinalityType DEF Counts
<1>2. IsFiniteSet(S \ {e}) /\ Cardinality(S \ {e}) = Cardinality(S) - 1
  BY <1>1, FS_RemoveElement
<1>3. Cardinality(S \ {e}) \in Nat
  BY <1>2, FS_CardinalityType
<1>4. QED
  BY <1>1, <1>2, <1>3 DEF Counts

\* While nobody is at work no block is in use, and nothing is missing.
LEMMA NoneAtWork ==
  ASSUME Got, \A r \in Requests : req[r].pc \in {"idle", "ended"}
  PROVE  /\ HeldBlocks = {} /\ WithoutRequest = {} /\ WithoutList = {} /\ WithoutMetadata = {}
         /\ Tagged = {r \in Requests : req[r].pc = "ended"}
<1>1. \A r \in Requests, i \in 1..NrBlocks : ~(i + 1 < req[r].got)
  BY DEF Got
<1>2. HeldBlocks = {}
  BY <1>1 DEF HeldBlocks
<1>3. QED
  BY <1>2 DEF WithoutRequest, WithoutList, WithoutMetadata, Tagged

\* A step that leaves requests and objects alone.
LEMMA ObjectsAlone ==
  ASSUME ObjectsInv, UNCHANGED <<req, served, attached, reserve, out>>,
         dmpp' \subseteq dmpp,
         mod = "absent" /\ mod' # "absent" => dmpp' = {},
         mod' = "coming" => mod = "coming" /\ (at' = "pools" => at = "pools"),
         mod' = "absent" => mod \in {"absent", "coming"},
         fault' = "outstanding" => (fault = "outstanding" /\ pos' = pos) \/ out[pos'] > 0
  PROVE  ObjectsInv'
<1>1. /\ HeldBlocks' = HeldBlocks /\ Tagged' = Tagged /\ WithoutRequest' = WithoutRequest
      /\ WithoutList' = WithoutList /\ WithoutMetadata' = WithoutMetadata
  BY DEF HeldBlocks, Tagged, WithoutRequest, WithoutList, WithoutMetadata
<1>2. ObjectsType' /\ Stopped'
  BY DEF ObjectsInv, ObjectsType, Stopped
<1>3. Got'
  BY DEF ObjectsInv, Got
<1>4. mod' # "absent" => Counted' /\ Reserved'
  BY <1>1 DEF ObjectsInv, Counted, Counts, Reserved
<1>5. QED
  BY <1>2, <1>3, <1>4 DEF ObjectsInv

LEMMA InsmodKeepsObjects ==
  ASSUME ObjectsInv, Insmod
  PROVE  ObjectsInv'
<1>1. /\ mod = "absent" /\ dmpp' = {} /\ served' = 0 /\ attached' = 0 /\ mod' = "coming"
      /\ UNCHANGED <<req, reserve, out, fault>> /\ fault = "none"
  BY DEF Insmod, objects, Up
<1>2. QED
  BY <1>1 DEF ObjectsInv, ObjectsType, Got, Stopped, Counted, Reserved

LEMMA InitPoolKeepsObjects ==
  ASSUME ObjectsInv, Init_Pool
  PROVE  ObjectsInv'
<1>1. /\ mod = "coming" /\ mod' = "coming" /\ at = "pools" /\ pos \in Pools
      /\ fault' # "outstanding" /\ UNCHANGED <<req, served, attached>>
  BY DEF Init_Pool, Load, Up, requests
<1>2. CASE /\ dmpp' = dmpp \cup {pos}
           /\ reserve' = [reserve EXCEPT ![pos] = MinNr]
           /\ out' = [out EXCEPT ![pos] = 0]
  <2>1. /\ HeldBlocks' = HeldBlocks /\ Tagged' = Tagged /\ WithoutRequest' = WithoutRequest
        /\ WithoutList' = WithoutList /\ WithoutMetadata' = WithoutMetadata
    BY <1>1 DEF HeldBlocks, Tagged, WithoutRequest, WithoutList, WithoutMetadata
  <2>2. \A r \in Requests : req[r].pc = "idle"
    BY <1>1 DEF ObjectsInv, Got
  <2>3. /\ HeldBlocks = {} /\ WithoutRequest = {} /\ WithoutList = {} /\ WithoutMetadata = {}
        /\ Tagged = {}
    BY <2>2, NoneAtWork DEF ObjectsInv
  <2>4. attached = 0 /\ served = 0
    BY <1>1 DEF ObjectsInv, Got
  <2>5. /\ reserve' \in [Pools -> Int] /\ out' \in [Pools -> Int] /\ dmpp' \subseteq Pools
        /\ \A p \in dmpp' : p = pos \/ p \in dmpp
        /\ \A p \in Pools \ {pos} : reserve'[p] = reserve[p] /\ out'[p] = out[p]
        /\ reserve'[pos] = MinNr /\ out'[pos] = 0
    BY <1>1, <1>2, SizesAssumption DEF ObjectsInv, ObjectsType
  <2>6. \A p \in dmpp' : out'[p] = 0
    <3>1. ASSUME NEW p \in dmpp PROVE out[p] = 0
      <4>1. p \in 1..5 /\ out[p] \in Int
        BY PoolNumbers DEF ObjectsInv, ObjectsType
      <4>2. Counted
        BY <1>1 DEF ObjectsInv
      <4>3. CASE p \in {1, 3, 4}
        <5>1. Counts({}, attached + served - out[1]) \/ p # 1
          BY <2>3, <4>2 DEF Counted
        <5>2. Counts({}, served - out[p]) \/ p = 1
          BY <2>3, <4>2, <4>3 DEF Counted
        <5>3. Counts({}, 0 - out[p])
          <6>1. attached + served - out[p] = 0 - out[p] /\ served - out[p] = 0 - out[p]
            BY <2>4, <4>1
          <6>2. CASE p = 1
            BY <5>1, <6>1, <6>2
          <6>3. CASE p # 1
            BY <5>2, <6>1, <6>3
          <6>4. QED
            BY <6>2, <6>3
        <5>4. QED
          BY <4>1, <5>3, FS_EmptySet DEF Counts
      <4>4. CASE p \in {2, 5}
        BY <2>3, <4>2, <4>4, FS_EmptySet DEF Counted, Counts
      <4>5. QED
        BY <4>1, <4>3, <4>4
    <3>2. QED
      BY <2>5, <3>1 DEF ObjectsInv, ObjectsType
  <2>7. Counted'
    BY <1>1, <2>1, <2>3, <2>4, <2>6, CountsNone DEF Counted
  <2>8. Reserved'
    <3>1. \A p \in dmpp : reserve[p] <= MinNr /\ reserve[p] + out[p] >= MinNr
      BY <1>1 DEF ObjectsInv, Reserved
    <3>2. dmpp \subseteq Pools
      BY DEF ObjectsInv, ObjectsType
    <3>3. QED
      BY <2>5, <3>1, <3>2, SizesAssumption DEF Reserved
  <2>9. Got' /\ Stopped' /\ ObjectsType'
    BY <1>1, <2>4, <2>5 DEF ObjectsInv, Got, Stopped, ObjectsType
  <2>10. QED
    BY <2>7, <2>8, <2>9 DEF ObjectsInv
<1>3. CASE UNCHANGED <<dmpp, objects>>
  BY <1>1, <1>3, ObjectsAlone DEF objects
<1>4. QED
  BY <1>2, <1>3 DEF Init_Pool

LEMMA LoadingKeepsObjects ==
  ASSUME PoolInv, ObjectsInv,
         \/ Insmod
         \/ Init_Pool
         \/ Init_Pool_Done
         \/ Rolled_Back
         \/ Init_Manager
         \/ Register_Chrdev
         \/ Register_Blkdev
  PROVE  ObjectsInv'
<1>1. CASE Init_Pool_Done
  BY <1>1, ObjectsAlone DEF Init_Pool_Done, Load, requests, objects
<1>2. CASE Rolled_Back
  <2>1. mod = "coming" /\ mod' = "absent"
    BY <1>2 DEF Rolled_Back, Load_Failed, PoolInv, LoadInv
  <2>2. QED
    BY <1>2, <2>1, ObjectsAlone DEF Rolled_Back, Load, Up, requests, objects
<1>3. CASE Init_Manager
  <2>1. at \in {"volumes", "nodes", "metadata"} /\ mod = "coming"
    BY <1>3
    DEF Init_Manager, Init_DMS_Volume_Manager, Init_Node_Builder, Init_Metadata_Manager
  <2>2. mod' \in {"coming", "absent"} /\ (mod' = "coming" => at' # "pools")
    BY <1>3, <2>1
    DEF Init_Manager, Init_DMS_Volume_Manager, Init_Node_Builder, Init_Metadata_Manager, Started,
        No_Memory, Load_Failed, Next_Init
  <2>3. UNCHANGED <<req, served, attached, reserve, out, dmpp, fault>> /\ fault = "none"
    BY <1>3 DEF Init_Manager, Load, Up, requests, objects
  <2>4. QED
    BY <2>1, <2>2, <2>3, ObjectsAlone
<1>4. CASE Register_Chrdev
  BY <1>4, ObjectsAlone DEF Register_Chrdev, Load, Up, Load_Failed, requests, objects
<1>5. CASE Register_Blkdev
  BY <1>5, ObjectsAlone DEF Register_Blkdev, Load, Up, Load_Failed, requests, objects
<1>6. QED
  BY <1>1, <1>2, <1>3, <1>4, <1>5, InsmodKeepsObjects, InitPoolKeepsObjects

\* Unloading; the last step forgets the late answers.
LEMMA UnloadingKeepsObjects ==
  ASSUME PoolInv, ObjectsInv,
         \/ Rmmod
         \/ Release_Manager
         \/ Release_Pool
         \/ Release_Pools_Done
         \/ Unregister
  PROVE  ObjectsInv'
<1>1. CASE Rmmod
  BY <1>1, ObjectsAlone DEF Rmmod, Load, requests, objects
<1>2. CASE Release_Manager
  BY <1>2, ObjectsAlone DEF Release_Manager, Load, Up, requests, objects
<1>3. CASE Release_Pool
  <2>1. /\ pos \in dmpp /\ mod \in {"coming", "going"} /\ dmpp' \subseteq dmpp /\ fault = "none"
        /\ UNCHANGED <<mod, at, req, served, attached, reserve, out>>
        /\ fault' = "outstanding" => reserve[pos] # MinNr /\ pos' = pos
    BY <1>3 DEF Release_Pool, Load, Up, requests, objects
  <2>2. /\ reserve[pos] <= MinNr /\ reserve[pos] + out[pos] >= MinNr
        /\ reserve[pos] \in Int /\ out[pos] \in Int /\ MinNr \in Int
    BY <2>1, SizesAssumption DEF ObjectsInv, ObjectsType, Reserved
  <2>3. fault' = "outstanding" => out[pos'] > 0
    BY <2>1, <2>2
  <2>4. QED
    BY <2>1, <2>3, ObjectsAlone
<1>4. CASE Release_Pools_Done
  BY <1>4, ObjectsAlone DEF Release_Pools_Done, Load, Up, requests, objects
<1>5. CASE Unregister
  <2>1. /\ req' = [r \in Requests |-> Idle] /\ mod' = "absent"
        /\ UNCHANGED <<dmpp, reserve, out, served, attached, fault>> /\ fault = "none"
    BY <1>5 DEF Unregister, objects, Up
  <2>2. QED
    BY <2>1 DEF Idle, ObjectsInv, ObjectsType, Got, Stopped
<1>6. QED
  BY <1>1, <1>2, <1>3, <1>4, <1>5

\* A pool gives an object, or takes objects that were in use.
LEMMA PoolAllocs ==
  ASSUME ObjectsType, Reserved, NEW p \in dmpp, Mempool_Alloc(p), dmpp' = dmpp
  PROVE  /\ reserve' \in [Pools -> Int] /\ out' \in [Pools -> Int]
         /\ Reserved'
         /\ out'[p] = out[p] + 1 /\ \A q \in dmpp \ {p} : out'[q] = out[q]
<1>1. p \in Pools /\ dmpp \subseteq Pools
  BY DEF ObjectsType
<1>2. reserve \in [Pools -> Int] /\ out \in [Pools -> Int] /\ MinNr \in Int
  BY SizesAssumption DEF ObjectsType
<1>3. /\ \A q \in dmpp : reserve[q] <= MinNr /\ reserve[q] + out[q] >= MinNr
      /\ \A q \in dmpp : reserve[q] \in Int /\ out[q] \in Int
  BY <1>1, <1>2 DEF Reserved
<1>4. /\ out' = [out EXCEPT ![p] = out[p] + 1]
      /\ reserve' = reserve \/ reserve' = [reserve EXCEPT ![p] = reserve[p] - 1]
  BY DEF Mempool_Alloc
<1>5. /\ reserve' \in [Pools -> Int] /\ out' \in [Pools -> Int]
      /\ out'[p] = out[p] + 1 /\ reserve'[p] \in {reserve[p], reserve[p] - 1}
      /\ \A q \in dmpp \ {p} : reserve'[q] = reserve[q] /\ out'[q] = out[q]
  BY <1>1, <1>2, <1>3, <1>4
<1>6. Reserved'
  BY <1>2, <1>3, <1>5 DEF Reserved
<1>7. QED
  BY <1>5, <1>6

LEMMA PoolFrees ==
  ASSUME ObjectsType, Reserved, NEW p \in dmpp, NEW n \in Nat, n <= out[p], Mempool_Free(p, n),
         dmpp' = dmpp
  PROVE  /\ reserve' \in [Pools -> Int] /\ out' \in [Pools -> Int]
         /\ Reserved'
         /\ out'[p] = out[p] - n /\ \A q \in dmpp \ {p} : out'[q] = out[q]
<1>1. p \in Pools /\ dmpp \subseteq Pools
  BY DEF ObjectsType
<1>2. reserve \in [Pools -> Int] /\ out \in [Pools -> Int] /\ MinNr \in Int
  BY SizesAssumption DEF ObjectsType
<1>3. /\ \A q \in dmpp : reserve[q] <= MinNr /\ reserve[q] + out[q] >= MinNr
      /\ \A q \in dmpp : reserve[q] \in Int /\ out[q] \in Int
  BY <1>1, <1>2 DEF Reserved
<1>4. /\ out' = [out EXCEPT ![p] = out[p] - n]
      /\ reserve' = [reserve EXCEPT ![p] = IF reserve[p] + n < MinNr THEN reserve[p] + n ELSE MinNr]
  BY DEF Mempool_Free
<1>5. /\ reserve' \in [Pools -> Int] /\ out' \in [Pools -> Int]
      /\ out'[p] = out[p] - n
      /\ reserve'[p] = IF reserve[p] + n < MinNr THEN reserve[p] + n ELSE MinNr
      /\ \A q \in dmpp \ {p} : reserve'[q] = reserve[q] /\ out'[q] = out[q]
  BY <1>1, <1>2, <1>3, <1>4
<1>6. Reserved'
  BY <1>2, <1>3, <1>5 DEF Reserved
<1>7. QED
  BY <1>5, <1>6

LEMMA AttachKeepsObjects ==
  ASSUME PoolInv, ObjectsInv, IOCTL_AttachVolume
  PROVE  ObjectsInv'
<1>1. /\ dmpp = Pools /\ mod \in {"coming", "live"} /\ 1 \in dmpp /\ 1 = Pool("dlist")
      /\ mod = "coming" => at = "blk"
  BY FileHasPools, PoolNumbers DEF IOCTL_AttachVolume, PoolInv, WorkInv
<1>2. /\ UNCHANGED <<module, req, served, fault>> /\ fault = "none" /\ attached' = attached + 1
      /\ Mempool_Alloc(1)
  BY <1>1 DEF IOCTL_AttachVolume, Calls, Up, In_Pool
<1>3. mod' = mod /\ at' = at /\ dmpp' = dmpp
  BY <1>2 DEF module
<1>4. ObjectsType /\ Counted /\ Reserved /\ attached \in Nat /\ served \in Nat /\ out[1] \in Int
  BY <1>1 DEF ObjectsInv, ObjectsType
<1>5. /\ reserve' \in [Pools -> Int] /\ out' \in [Pools -> Int] /\ Reserved'
      /\ out'[1] = out[1] + 1 /\ \A q \in dmpp \ {1} : out'[q] = out[q]
  BY <1>1, <1>2, <1>3, <1>4, PoolAllocs
<1>6. /\ HeldBlocks' = HeldBlocks /\ Tagged' = Tagged /\ WithoutRequest' = WithoutRequest
      /\ WithoutList' = WithoutList /\ WithoutMetadata' = WithoutMetadata
  BY <1>2 DEF HeldBlocks, Tagged, WithoutRequest, WithoutList, WithoutMetadata
<1>7. attached' + served' - out'[1] = attached + served - out[1]
  BY <1>2, <1>4, <1>5
<1>8. Counted'
  BY <1>2, <1>3, <1>4, <1>5, <1>6, <1>7 DEF Counted
<1>9. ObjectsType' /\ Got' /\ Stopped'
  BY <1>1, <1>2, <1>3, <1>4, <1>5 DEF ObjectsInv, ObjectsType, Got, Stopped
<1>10. QED
  BY <1>5, <1>8, <1>9 DEF ObjectsInv

LEMMA UsersKeepObjects ==
  ASSUME PoolInv, ObjectsInv,
         \/ Open_Controller
         \/ Close_Controller
         \/ IOCTL_AttachVolume
         \/ IOCTL_DetachVolume
         \/ DMS_VDisk_Open
         \/ DMS_VDisk_Release
         \/ Memory
         \/ Run_Freed_Text
         \/ UNCHANGED vars
  PROVE  ObjectsInv'
<1>1. CASE IOCTL_AttachVolume
  BY <1>1, AttachKeepsObjects
<1>2. CASE UNCHANGED <<module, objects, requests>> /\ fault' \in {fault, "freed text"}
  BY <1>2, ObjectsAlone DEF module, objects, requests
<1>3. QED
  BY <1>1, <1>2
  DEF Open_Controller, Close_Controller, IOCTL_DetachVolume,
      DMS_VDisk_Open, DMS_VDisk_Release, Memory, Run_Freed_Text, Use, Calls, vars

-----------------------------------------------------------------------------
(* Objects of requests.                                                     *)

\* The blocks of a request that has them all.
LEMMA BlocksOf ==
  ASSUME NEW r \in Requests, req[r].got = NrBlocks + 2, NEW n \in Int, Counts(HeldBlocks, n)
  PROVE  Counts(HeldBlocks \ ({r} \X (1..NrBlocks)), n - NrBlocks) /\ NrBlocks <= n
<1> DEFINE B == {r} \X (1..NrBlocks)
<1>1. NrBlocks \in Nat /\ IsFiniteSet(1..NrBlocks) /\ Cardinality(1..NrBlocks) = NrBlocks
  BY SizesAssumption, FS_Interval
<1>2. B \subseteq HeldBlocks
  BY <1>1 DEF HeldBlocks
<1>3. Cardinality({r} \X (1..NrBlocks)) = Cardinality({r}) * Cardinality(1..NrBlocks)
  BY <1>1, FS_Singleton, FS_Product
<1>4. Cardinality(B) = NrBlocks
  <2>1. Cardinality({r}) = 1
    BY FS_Singleton
  <2>2. QED
    BY <1>1, <1>3, <2>1
<1>5. IsFiniteSet(HeldBlocks) /\ Cardinality(HeldBlocks) = n
  BY DEF Counts
<1> HIDE DEF B
<1>6. IsFiniteSet(HeldBlocks \ B) /\ Cardinality(HeldBlocks \ B) \in Nat
  BY <1>5, FS_Difference, FS_CardinalityType
<1>7. Cardinality(HeldBlocks \ B) = Cardinality(HeldBlocks) - Cardinality(HeldBlocks \cap B)
  BY <1>5, FS_Difference
<1>8. HeldBlocks \cap B = B
  BY <1>2
<1>9. Cardinality(HeldBlocks \ B) = n - NrBlocks
  BY <1>4, <1>5, <1>7, <1>8
<1>10. Counts(HeldBlocks \ B, n - NrBlocks) /\ NrBlocks <= n
  BY <1>1, <1>6, <1>9 DEF Counts
<1>11. QED
  BY <1>10 DEF B

\* What is left to show of a step of a request.
LEMMA RequestObjects ==
  ASSUME PoolInv, ObjectsInv, UNCHANGED <<module, attached, fault>>, fault = "none",
         mod \in {"live", "going"}, dmpp = Pools, served' \in Nat, Got',
         reserve' \in [Pools -> Int], out' \in [Pools -> Int], Reserved',
         Counts(WithoutList', attached + served' - out'[1]),
         Counts(HeldBlocks', out'[2]),
         Counts(WithoutRequest', served' - out'[3]),
         Counts(WithoutMetadata', served' - out'[4]),
         Counts(Tagged', out'[5])
  PROVE  ObjectsInv'
<1>1. mod' = mod /\ dmpp' = dmpp /\ pos' = pos
  BY DEF module
<1>2. Counted'
  BY <1>1 DEF Counted
<1>3. ObjectsType' /\ Stopped'
  BY <1>1 DEF ObjectsInv, ObjectsType, Stopped
<1>4. QED
  BY <1>2, <1>3 DEF ObjectsInv

\* A request that makes one step more.
LEMMA MakeKeepsObjects ==
  ASSUME PoolInv, ObjectsInv, UNCHANGED <<module, attached, served, fault>>, fault = "none",
         mod \in {"live", "going"}, dmpp = Pools, NEW r \in Requests,
         req[r].pc = "make", Mempool_Alloc(Pool(Wanted(req[r].got))),
         req' = [req EXCEPT ![r] = [pc |-> IF req[r].got = NrBlocks + 1 THEN "asked" ELSE "make",
                                    got |-> req[r].got + 1]]
  PROVE  ObjectsInv'
<1> DEFINE g == req[r].got
<1>1. req \in [Requests -> [pc : {"idle", "make", "asked", "answered", "sent", "ended"}, got : Int]]
  BY DEF PoolInv, WorkInv
<1>2. /\ ObjectsType /\ Counted /\ Reserved /\ Got /\ served \in Nat /\ attached \in Nat
      /\ \A p \in 1..5 : p \in dmpp /\ out[p] \in Int
  BY PoolNumbers DEF ObjectsInv, ObjectsType
<1>3. NrBlocks \in Nat \ {0} /\ g \in 0..NrBlocks + 1
  BY <1>2, SizesAssumption DEF Got
<1>4. /\ Counts(WithoutList, attached + served - out[1]) /\ Counts(HeldBlocks, out[2])
      /\ Counts(WithoutRequest, served - out[3]) /\ Counts(WithoutMetadata, served - out[4])
      /\ Counts(Tagged, out[5])
  BY <1>2 DEF Counted
<1>5. dmpp' = dmpp
  BY DEF module
<1>6. PICK p \in 1..5 : Mempool_Alloc(p) /\ p = (IF g = 0 THEN 3 ELSE IF g = 1 THEN 1 ELSE 2)
  BY PoolNumbers DEF Wanted
<1>7. /\ reserve' \in [Pools -> Int] /\ out' \in [Pools -> Int] /\ Reserved'
      /\ out'[p] = out[p] + 1 /\ \A q \in dmpp \ {p} : out'[q] = out[q]
  BY <1>2, <1>5, <1>6, PoolAllocs
<1>8. /\ \A q \in Requests \ {r} : req'[q] = req[q]
      /\ req'[r].got = g + 1 /\ req'[r].pc = IF g = NrBlocks + 1 THEN "asked" ELSE "make"
  BY <1>1
<1>9. Got'
  <2>1. mod' = mod /\ at' = at
    BY DEF module
  <2>2. QED
    BY <1>2, <1>3, <1>8, <2>1 DEF Got
<1>10. Tagged' = Tagged /\ WithoutMetadata' = WithoutMetadata
  BY <1>8 DEF Tagged, WithoutMetadata
<1>11. CASE g = 0
  <2>1. WithoutRequest' = WithoutRequest \ {r} /\ r \in WithoutRequest
    BY <1>8, <1>11 DEF WithoutRequest
  <2>2. WithoutList' = WithoutList
    BY <1>3, <1>8, <1>11 DEF WithoutList
  <2>3. HeldBlocks' = HeldBlocks
    BY <1>8, <1>11 DEF HeldBlocks
  <2>4. Counts(WithoutRequest', (served - out[3]) - 1)
    BY <1>2, <1>4, <2>1, CountsRemove
  <2>5. out'[3] = out[3] + 1 /\ out'[1] = out[1] /\ out'[2] = out[2] /\ out'[4] = out[4] /\ out'[5] = out[5]
    BY <1>2, <1>6, <1>7, <1>11
  <2>6. served - out'[3] = (served - out[3]) - 1
    BY <1>2, <2>5
  <2>7. QED
    BY <1>2, <1>4, <1>7, <1>9, <1>10, <2>2, <2>3, <2>4, <2>5, <2>6, RequestObjects
<1>12. CASE g = 1
  <2>1. WithoutList' = WithoutList \ {r} /\ r \in WithoutList
    BY <1>8, <1>12 DEF WithoutList
  <2>2. WithoutRequest' = WithoutRequest
    BY <1>8, <1>12 DEF WithoutRequest
  <2>3. HeldBlocks' = HeldBlocks
    BY <1>8, <1>12 DEF HeldBlocks
  <2>4. Counts(WithoutList', (attached + served - out[1]) - 1)
    BY <1>2, <1>4, <2>1, CountsRemove
  <2>5. out'[1] = out[1] + 1 /\ out'[2] = out[2] /\ out'[3] = out[3] /\ out'[4] = out[4] /\ out'[5] = out[5]
    BY <1>2, <1>6, <1>7, <1>12
  <2>6. attached + served - out'[1] = (attached + served - out[1]) - 1
    BY <1>2, <2>5
  <2>7. QED
    BY <1>2, <1>4, <1>7, <1>9, <1>10, <2>2, <2>3, <2>4, <2>5, <2>6, RequestObjects
<1>13. CASE g \notin {0, 1}
  <2>1. g \in Int /\ g - 1 \in 1..NrBlocks
    BY <1>3, <1>13
  <2>2. ASSUME NEW b \in Requests \X (1..NrBlocks)
        PROVE  b[2] + 1 < req'[b[1]].got <=> b[2] + 1 < req[b[1]].got \/ b = <<r, g - 1>>
    <3>1. b[1] \in Requests /\ b[2] \in 1..NrBlocks /\ b = <<b[1], b[2]>>
      BY <2>2
    <3>2. CASE b[1] = r
      <4>1. req'[b[1]].got = g + 1 /\ req[b[1]].got = g
        BY <1>8, <3>2
      <4>2. b = <<r, g - 1>> <=> b[2] = g - 1
        BY <3>1, <3>2
      <4>3. QED
        BY <2>1, <3>1, <4>1, <4>2
    <3>3. CASE b[1] # r
      BY <1>8, <3>1, <3>3
    <3>4. QED
      BY <3>2, <3>3
  <2>3. HeldBlocks' = HeldBlocks \cup {<<r, g - 1>>}
    BY <2>1, <2>2 DEF HeldBlocks
  <2>4. <<r, g - 1>> \notin HeldBlocks
    BY <2>1 DEF HeldBlocks
  <2>5. Counts(HeldBlocks', out[2] + 1)
    BY <1>2, <1>4, <2>3, <2>4, CountsAdd
  <2>6. WithoutRequest' = WithoutRequest /\ WithoutList' = WithoutList
    <3>1. req[r].got \notin {0, 1} /\ req'[r].got \notin {0, 1}
      BY <1>8, <1>13, <2>1
    <3>2. QED
      BY <1>8, <3>1 DEF WithoutRequest, WithoutList
  <2>7. out'[2] = out[2] + 1 /\ out'[1] = out[1] /\ out'[3] = out[3] /\ out'[4] = out[4] /\ out'[5] = out[5]
    BY <1>2, <1>6, <1>7, <1>13
  <2>8. QED
    BY <1>2, <1>4, <1>7, <1>9, <1>10, <2>5, <2>6, <2>7, RequestObjects
<1>14. QED
  BY <1>11, <1>12, <1>13

LEMMA RequestsKeepObjects ==
  ASSUME PoolInv, ObjectsInv, NEW r \in Requests, Step(r)
  PROVE  ObjectsInv'
<1>1. UNCHANGED <<module, attached, fault>> /\ fault = "none" /\ dmpp = Pools /\ mod \in {"live", "going"}
  <2>1. UNCHANGED <<module, attached, fault>> /\ fault = "none"
    BY StepOfRequest
  <2>2. dmpp = Pools
    BY StepOfRequest DEF PoolInv, LoadInv, PoolsAreUp
  <2>3. mod = "live" \/ req[r].pc # "idle"
    BY StepOfRequest
  <2>4. mod \in {"live", "going"}
    BY <2>3 DEF PoolInv, LoadInv, ObjectsInv, Got
  <2>5. QED
    BY <2>1, <2>2, <2>4
<1>2. req \in [Requests -> [pc : {"idle", "make", "asked", "answered", "sent", "ended"}, got : Int]]
  BY DEF PoolInv, WorkInv
<1>3. /\ ObjectsType /\ Counted /\ Reserved /\ Got /\ served \in Nat /\ attached \in Nat
      /\ \A p \in 1..5 : p \in dmpp /\ out[p] \in Int
      /\ reserve \in [Pools -> Int] /\ out \in [Pools -> Int]
  BY <1>1, PoolNumbers DEF ObjectsInv, ObjectsType
<1>4. /\ Counts(WithoutList, attached + served - out[1]) /\ Counts(HeldBlocks, out[2])
      /\ Counts(WithoutRequest, served - out[3]) /\ Counts(WithoutMetadata, served - out[4])
      /\ Counts(Tagged, out[5])
  BY <1>3 DEF Counted
<1>5. NrBlocks \in Nat \ {0} /\ MinNr \in Nat \ {0}
  BY SizesAssumption
<1>6. mod' = mod /\ at' = at /\ dmpp' = dmpp
  BY <1>1 DEF module
<1>7. CASE /\ req[r].pc = "idle" /\ served' = served + 1 /\ UNCHANGED objects
           /\ req' = [req EXCEPT ![r] = [pc |-> "make", got |-> 0]]
  <2>1. /\ \A q \in Requests \ {r} : req'[q] = req[q]
        /\ req'[r].pc = "make" /\ req'[r].got = 0 /\ req[r].got = 0 /\ reserve' = reserve /\ out' = out
    BY <1>2, <1>3, <1>7 DEF objects, Got
  <2>2. HeldBlocks' = HeldBlocks /\ Tagged' = Tagged
    BY <1>7, <2>1 DEF HeldBlocks, Tagged
  <2>3. /\ WithoutRequest' = WithoutRequest \cup {r} /\ r \notin WithoutRequest
        /\ WithoutList' = WithoutList \cup {r} /\ r \notin WithoutList
        /\ WithoutMetadata' = WithoutMetadata \cup {r} /\ r \notin WithoutMetadata
    BY <1>7, <2>1 DEF WithoutRequest, WithoutList, WithoutMetadata
  <2>4. /\ Counts(WithoutList', (attached + served - out[1]) + 1)
        /\ Counts(WithoutRequest', (served - out[3]) + 1)
        /\ Counts(WithoutMetadata', (served - out[4]) + 1)
    BY <1>3, <1>4, <2>3, CountsAdd
  <2>5. /\ attached + served' - out'[1] = (attached + served - out[1]) + 1
        /\ served' - out'[3] = (served - out[3]) + 1
        /\ served' - out'[4] = (served - out[4]) + 1
    BY <1>3, <1>7, <2>1
  <2>6. served' \in Nat /\ Got'
    <3>1. served' \in Nat /\ mod # "coming" /\ mod # "absent"
      BY <1>1, <1>3, <1>7
    <3>2. QED
      BY <1>3, <1>5, <1>6, <2>1, <3>1 DEF Got
  <2>7. Reserved'
    BY <1>3, <1>6, <2>1 DEF Reserved
  <2>8. QED
    BY <1>1, <1>3, <1>4, <2>1, <2>2, <2>4, <2>5, <2>6, <2>7, RequestObjects
<1>8. CASE /\ req[r].pc = "make" /\ Mempool_Alloc(Pool(Wanted(req[r].got))) /\ served' = served
           /\ req' = [req EXCEPT ![r] = [pc |-> IF req[r].got = NrBlocks + 1 THEN "asked" ELSE "make",
                                         got |-> req[r].got + 1]]
  BY <1>1, <1>8, MakeKeepsObjects
<1>9. CASE /\ req[r].pc = "asked" /\ Mempool_Alloc(Pool("dmeta")) /\ served' = served
           /\ req' = [req EXCEPT ![r].pc = "answered"]
  <2>1. /\ reserve' \in [Pools -> Int] /\ out' \in [Pools -> Int] /\ Reserved'
        /\ out'[4] = out[4] + 1 /\ \A q \in dmpp \ {4} : out'[q] = out[q]
    BY <1>3, <1>6, <1>9, PoolNumbers, PoolAllocs
  <2>2. /\ \A q \in Requests \ {r} : req'[q] = req[q]
        /\ req'[r].pc = "answered" /\ req'[r].got = req[r].got
    BY <1>2, <1>9
  <2>3. /\ HeldBlocks' = HeldBlocks /\ Tagged' = Tagged
        /\ WithoutRequest' = WithoutRequest /\ WithoutList' = WithoutList
        /\ WithoutMetadata' = WithoutMetadata \ {r} /\ r \in WithoutMetadata
    BY <1>9, <2>2 DEF HeldBlocks, Tagged, WithoutRequest, WithoutList, WithoutMetadata
  <2>4. Counts(WithoutMetadata', (served - out[4]) - 1)
    BY <1>3, <1>4, <2>3, CountsRemove
  <2>5. /\ served' - out'[4] = (served - out[4]) - 1
        /\ out'[1] = out[1] /\ out'[2] = out[2] /\ out'[3] = out[3] /\ out'[5] = out[5]
    BY <1>3, <1>9, <2>1
  <2>6. Got'
    BY <1>1, <1>3, <1>6, <1>9, <2>2 DEF Got
  <2>7. QED
    BY <1>1, <1>3, <1>4, <1>9, <2>1, <2>3, <2>4, <2>5, <2>6, RequestObjects
<1>10. CASE /\ req[r].pc = "answered" /\ Mempool_Alloc(Pool("dntag")) /\ served' = served
            /\ req' = [req EXCEPT ![r].pc = "sent"]
  <2>1. /\ reserve' \in [Pools -> Int] /\ out' \in [Pools -> Int] /\ Reserved'
        /\ out'[5] = out[5] + 1 /\ \A q \in dmpp \ {5} : out'[q] = out[q]
    BY <1>3, <1>6, <1>10, PoolNumbers, PoolAllocs
  <2>2. /\ \A q \in Requests \ {r} : req'[q] = req[q]
        /\ req'[r].pc = "sent" /\ req'[r].got = req[r].got
    BY <1>2, <1>10
  <2>3. /\ HeldBlocks' = HeldBlocks
        /\ WithoutRequest' = WithoutRequest /\ WithoutList' = WithoutList
        /\ WithoutMetadata' = WithoutMetadata
        /\ Tagged' = Tagged \cup {r} /\ r \notin Tagged
    BY <1>10, <2>2 DEF HeldBlocks, Tagged, WithoutRequest, WithoutList, WithoutMetadata
  <2>4. Counts(Tagged', out[5] + 1)
    BY <1>3, <1>4, <2>3, CountsAdd
  <2>5. out'[1] = out[1] /\ out'[2] = out[2] /\ out'[3] = out[3] /\ out'[4] = out[4]
    BY <1>3, <1>10, <2>1
  <2>6. Got'
    BY <1>1, <1>3, <1>6, <1>10, <2>2 DEF Got
  <2>7. QED
    BY <1>1, <1>3, <1>4, <1>10, <2>1, <2>3, <2>4, <2>5, <2>6, RequestObjects
<1>11. CASE /\ req[r].pc = "sent" /\ Mempool_Free(Pool("lbmd"), Blocks(r)) /\ served' = served
            /\ req' = [req EXCEPT ![r] = [pc |-> "ended", got |-> 0]]
  <2>1. req[r].got = NrBlocks + 2 /\ Blocks(r) = NrBlocks
    BY <1>3, <1>5, <1>11 DEF Got, Blocks
  <2> DEFINE B == {r} \X (1..NrBlocks)
  <2>2. Counts(HeldBlocks \ B, out[2] - NrBlocks) /\ NrBlocks <= out[2]
    <3>1. out[2] \in Int
      BY <1>3
    <3>2. QED
      BY <1>4, <2>1, <3>1, BlocksOf
  <2>3. /\ reserve' \in [Pools -> Int] /\ out' \in [Pools -> Int] /\ Reserved'
        /\ out'[2] = out[2] - NrBlocks /\ \A q \in dmpp \ {2} : out'[q] = out[q]
    BY <1>3, <1>5, <1>6, <1>11, <2>1, <2>2, PoolNumbers, PoolFrees
  <2>4. /\ \A q \in Requests \ {r} : req'[q] = req[q]
        /\ req'[r].pc = "ended" /\ req'[r].got = 0
    BY <1>2, <1>11
  <2>5. ASSUME NEW b \in Requests \X (1..NrBlocks)
        PROVE  b[2] + 1 < req'[b[1]].got <=> b[2] + 1 < req[b[1]].got /\ b \notin B
    <3>1. b[1] \in Requests /\ b[2] \in 1..NrBlocks /\ b = <<b[1], b[2]>>
      BY <2>5
    <3>2. CASE b[1] = r
      BY <1>5, <2>4, <3>1, <3>2
    <3>3. CASE b[1] # r
      BY <2>4, <3>1, <3>3
    <3>4. QED
      BY <3>2, <3>3
  <2>6. HeldBlocks' = HeldBlocks \ B
    BY <2>5 DEF HeldBlocks
  <2>7. /\ WithoutRequest' = WithoutRequest /\ WithoutList' = WithoutList
        /\ WithoutMetadata' = WithoutMetadata /\ Tagged' = Tagged
    BY <1>11, <2>4 DEF Tagged, WithoutRequest, WithoutList, WithoutMetadata
  <2>8. out'[1] = out[1] /\ out'[3] = out[3] /\ out'[4] = out[4] /\ out'[5] = out[5]
    BY <1>3, <2>3
  <2>9. Got'
    BY <1>1, <1>3, <1>6, <1>11, <2>4 DEF Got
  <2>10. QED
    BY <1>1, <1>3, <1>4, <1>11, <2>2, <2>3, <2>6, <2>7, <2>8, <2>9, RequestObjects
<1>12. CASE /\ req[r].pc = "ended" /\ Mempool_Free(Pool("dntag"), 1) /\ served' = served
            /\ req' = [req EXCEPT ![r] = Idle]
  <2>1. /\ \A q \in Requests \ {r} : req'[q] = req[q]
        /\ req'[r].pc = "idle" /\ req'[r].got = 0 /\ req[r].got = 0
    BY <1>2, <1>3, <1>12 DEF Idle, Got
  <2>2. r \in Tagged /\ Tagged' = Tagged \ {r}
    BY <1>12, <2>1 DEF Tagged
  <2>3. Counts(Tagged', out[5] - 1) /\ 1 <= out[5]
    <3>1. out[5] \in Int
      BY <1>3
    <3>2. Counts(Tagged \ {r}, out[5] - 1) /\ out[5] >= 1
      BY <1>4, <2>2, <3>1, CountsRemove
    <3>3. QED
      BY <2>2, <3>1, <3>2
  <2>4. /\ reserve' \in [Pools -> Int] /\ out' \in [Pools -> Int] /\ Reserved'
        /\ out'[5] = out[5] - 1 /\ \A q \in dmpp \ {5} : out'[q] = out[q]
    BY <1>3, <1>6, <1>12, <2>3, PoolNumbers, PoolFrees
  <2>5. /\ HeldBlocks' = HeldBlocks
        /\ WithoutRequest' = WithoutRequest /\ WithoutList' = WithoutList
        /\ WithoutMetadata' = WithoutMetadata
    BY <1>12, <2>1 DEF HeldBlocks, WithoutRequest, WithoutList, WithoutMetadata
  <2>6. out'[1] = out[1] /\ out'[2] = out[2] /\ out'[3] = out[3] /\ out'[4] = out[4]
    BY <1>3, <2>4
  <2>7. Got'
    BY <1>1, <1>3, <1>6, <1>12, <2>1 DEF Got
  <2>8. QED
    BY <1>1, <1>3, <1>4, <1>12, <2>3, <2>4, <2>5, <2>6, <2>7, RequestObjects
<1>13. QED
  BY <1>7, <1>8, <1>9, <1>10, <1>11, <1>12, StepOfRequest

\* What an unload finds in use: a list of every volume and request, the IO_Request and the
\* metadata of every request, and the tag of a request that ended before its last answer; the
\* blocks are all back, and the kernel stops only at a pool with an object in use.
THEOREM OutstandingObjectsAreKnown == Spec => []OutstandingIsKnown
<1>1. Init => PoolInv /\ ObjectsInv
  <2>1. Init => ObjectsType /\ Got /\ Stopped /\ mod = "absent"
    BY DEF Init, ObjectsType, Got, Stopped, Idle
  <2>2. QED
    BY <2>1, InitPools DEF ObjectsInv
<1>2. PoolInv /\ [Next]_vars => PoolInv'
  BY NextKeepsPools
<1>3. PoolInv /\ ObjectsInv /\ [Next]_vars => ObjectsInv'
  BY LoadingKeepsObjects, UnloadingKeepsObjects, UsersKeepObjects, RequestsKeepObjects DEF Next
<1>4. PoolInv /\ ObjectsInv => OutstandingIsKnown
  <2> SUFFICES ASSUME PoolInv, ObjectsInv, mod = "going", NEW p \in dmpp
               PROVE  out[p] = Outstanding(dmp_manager[p])
    BY DEF OutstandingIsKnown, ObjectsInv, Stopped
  <2>1. \A r \in Requests : req[r].pc \in {"idle", "ended"}
    BY DEF PoolInv, WorkInv
  <2>2. /\ HeldBlocks = {} /\ WithoutRequest = {} /\ WithoutList = {} /\ WithoutMetadata = {}
        /\ Tagged = {r \in Requests : req[r].pc = "ended"}
    BY <2>1, NoneAtWork DEF ObjectsInv
  <2>3. p \in 1..5 /\ out[p] \in Int /\ served \in Nat /\ attached \in Nat /\ Counted
    BY PoolNumbers DEF ObjectsInv, ObjectsType
  <2>4. /\ dmp_manager[1] = "dlist" /\ dmp_manager[2] = "lbmd" /\ dmp_manager[3] = "ioreq"
        /\ dmp_manager[4] = "dmeta" /\ dmp_manager[5] = "dntag"
    BY DEF dmp_manager
  <2>5. CASE p = 1
    BY <2>2, <2>3, <2>4, <2>5, FS_EmptySet DEF Counted, Counts, Outstanding
  <2>6. CASE p = 2
    BY <2>2, <2>3, <2>4, <2>6, FS_EmptySet DEF Counted, Counts, Outstanding
  <2>7. CASE p \in {3, 4}
    BY <2>2, <2>3, <2>4, <2>7, FS_EmptySet DEF Counted, Counts, Outstanding
  <2>8. CASE p = 5
    BY <2>2, <2>3, <2>4, <2>8 DEF Counted, Counts, Outstanding
  <2>9. QED
    BY <2>3, <2>5, <2>6, <2>7, <2>8
<1>5. QED
  BY <1>1, <1>2, <1>3, <1>4, PTL DEF Spec
=============================================================================
