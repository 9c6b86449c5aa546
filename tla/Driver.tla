-------------------------------- MODULE Driver --------------------------------
(***************************************************************************)
(* Loading, unloading and the memory pools: the managers the module        *)
(* starts and stops, the controller and the block device it registers, and *)
(* the objects requests take from the pools while it is loaded.            *)
(*                                                                         *)
(* The loader, the daemon that holds the controller open, the request      *)
(* handler, the namenode receiver and the datanode receivers interleave.   *)
(* An ioctl is one step here (VolumeManager has its steps), and so is the  *)
(* answer to a request (IOCommit).  The kernel's modules, slabs and        *)
(* mempools are those of 2.6.18.                                           *)
(***************************************************************************)
EXTENDS Naturals, Sequences, FiniteSets, SequencesExt

CONSTANTS
    Requests,
    NrBlocks,       \* blocks of a request
    MinNr,          \* BLKDEV_MIN_RQ: objects a pool keeps back
    MaxLoads,       \* bound: how often the module is loaded
    MaxRequests,    \* bound: requests of a load
    MaxAttaches     \* bound: volumes attached in a load

ASSUME SizesAssumption == NrBlocks \in Nat \ {0} /\ MinNr \in Nat \ {0}
ASSUME DriverBoundsAssumption == MaxLoads \in Nat /\ MaxRequests \in Nat /\ MaxAttaches \in Nat

\* Five of the twelve pools, in the order of the code's table, one for each life an object
\* may have: a list of a volume, or of an IO_Request, that is never given back; one that
\* goes back when the request ends; one of the request that is never given back; one that
\* comes with the namenode's answer and is never given back; and one that waits for the last
\* datanode.
dmp_manager == <<"dlist", "lbmd", "ioreq", "dmeta", "dntag">>
Pools == 1..Len(dmp_manager)
Pool(name) == CHOOSE p \in Pools : dmp_manager[p] = name

VARIABLES
    mod,        \* "absent", "coming", "live", "going"
    at,         \* what insmod or rmmod does next
    pos,        \* the pool it is at
    caches,     \* pools whose slab cache the kernel has
    dmpp,       \* entries of dmp_manager that are set
    reserve, out,   \* objects a pool keeps back, and those that are in use
    running,    \* the managers that are up: "volumes", "nodes", "receiver"
    chr, major, \* the controller is registered; DMS_DEV_MAJOR
    fd, disk, open, \* the daemon's file, the volume's disk, and whether it is open
    req,        \* [pc, got]
    served, attached,   \* requests and volumes of this load
    short,      \* the slab allocator has no memory
    fault,
    left,       \* what the kernel still has of a module that is gone
    loads,
    cause       \* history: why something was left

module == <<mod, at, pos, caches, dmpp, running, chr, major, left, loads, cause>>
objects == <<reserve, out>>
users == <<fd, disk, open>>
requests == <<req, served, attached>>
vars == <<module, objects, users, requests, short, fault>>

Idle == [pc |-> "idle", got |-> 0]

-----------------------------------------------------------------------------
(* Slips: what a run finds when a definition is replaced by its slip.       *)

\* The rollback starts at the pool that failed.
SlipFirst == pos
\* The pools are released before the nodes.
SlipNext_Release(s) ==
    CASE s = "metadata" -> "pools" [] s = "pools" -> "nodes"
      [] s = "nodes" -> "volumes" [] s = "volumes" -> "unregister"
\* The list of blocks is freed but for its last block.
SlipBlocks(r) == req[r].got - 3

-----------------------------------------------------------------------------
Init ==
    /\ mod = "absent" /\ at = "none" /\ pos = 1 /\ caches = {} /\ dmpp = {}
    /\ reserve = [p \in Pools |-> 0] /\ out = [p \in Pools |-> 0]
    /\ running = {} /\ chr = FALSE /\ major = 0 /\ left = {} /\ loads = 0 /\ cause = {}
    /\ fd = FALSE /\ disk = "none" /\ open = FALSE
    /\ req = [r \in Requests |-> Idle] /\ served = 0 /\ attached = 0
    /\ short = FALSE /\ fault = "none"

Up == fault = "none"

\* Memory runs out and comes back.
Memory ==
    /\ Up /\ short' = ~short
    /\ UNCHANGED <<module, objects, users, requests, fault>>

-----------------------------------------------------------------------------
(* Loading.                                                                *)

Load == Up /\ UNCHANGED <<requests, short>>

Insmod ==
    /\ Up /\ mod = "absent" /\ left = {} /\ loads < MaxLoads
    /\ mod' = "coming" /\ at' = "pools" /\ pos' = 1 /\ dmpp' = {} /\ loads' = loads + 1
    /\ served' = 0 /\ attached' = 0
    /\ UNCHANGED <<req, short, caches, objects, running, chr, major, users, fault, left, cause>>

\* insmod fails: the kernel frees the module, whoever still uses it.
Load_Failed(why) ==
    /\ mod' = "absent" /\ at' = "none"
    /\ left' = running \cup (IF fd THEN {"file"} ELSE {})
                       \cup (IF disk # "none" THEN {"disk"} ELSE {})
    /\ cause' = cause \cup why
    /\ running' = {} /\ chr' = FALSE /\ fd' = FALSE /\ disk' = "none"

\* Release_DMP_Manager goes through the table up to the first pool that is not set.
First == 1

\* The cache is created and the mempool filled.  The cache that an earlier load
\* left has the same name, and is a duplicate unless its name was freed.
Init_Pool ==
    /\ Load /\ mod = "coming" /\ at = "pools" /\ pos \in Pools
    /\ UNCHANGED <<mod, running, chr, major, users, left, loads, cause>>
    /\ \/ /\ caches' = caches \cup {pos} /\ dmpp' = dmpp \cup {pos}
          /\ reserve' = [reserve EXCEPT ![pos] = MinNr]
          /\ out' = [out EXCEPT ![pos] = 0]
          /\ pos' = pos + 1 /\ UNCHANGED <<at, fault>>
       \/ /\ short \/ pos \in caches
          /\ at' = "rollback" /\ pos' = First
          /\ UNCHANGED <<caches, dmpp, objects, fault>>
       \/ \* the result of kzalloc is not looked at
          /\ short /\ fault' = "null"
          /\ caches' = caches \cup {pos}
          /\ UNCHANGED <<at, pos, dmpp, objects>>

Init_Pool_Done ==
    /\ Load /\ mod = "coming" /\ at = "pools" /\ pos \notin Pools
    /\ at' = "volumes"
    /\ UNCHANGED <<mod, pos, caches, dmpp, objects, running, chr, major, users, fault, left, loads, cause>>

Rolled_Back ==
    /\ Load /\ at = "rollback" /\ pos \notin dmpp
    /\ Load_Failed({})
    /\ UNCHANGED <<pos, caches, dmpp, objects, major, open, fault, loads>>

Next_Init(s) ==
    CASE s = "volumes" -> "nodes" [] s = "nodes" -> "metadata" [] s = "metadata" -> "chr"
Manager(s) == IF s = "metadata" THEN "receiver" ELSE s

\* The manager is up, or it had no memory; what is up stays up when the next one fails.
Started ==
    /\ at' = Next_Init(at) /\ running' = running \cup {Manager(at)}
    /\ UNCHANGED <<mod, chr, fd, disk, left, cause>>
No_Memory == short /\ Load_Failed({at})

\* The table of volumes is allocated without waiting.
Init_DMS_Volume_Manager == at = "volumes" /\ (Started \/ No_Memory)
\* The builder's work queue is created.
Init_Node_Builder == at = "nodes" /\ (Started \/ No_Memory)
\* The result is always DMS_OK.
Init_Metadata_Manager == at = "metadata" /\ Started

Init_Manager ==
    /\ Load /\ mod = "coming"
    /\ Init_DMS_Volume_Manager \/ Init_Node_Builder \/ Init_Metadata_Manager
    /\ UNCHANGED <<pos, caches, dmpp, objects, major, open, fault, loads>>

Register_Chrdev ==
    /\ Load /\ mod = "coming" /\ at = "chr"
    /\ \/ /\ chr' = TRUE /\ at' = "blk"
          /\ UNCHANGED <<mod, running, fd, disk, left, cause>>
       \/ Load_Failed({"chr"})
    /\ UNCHANGED <<pos, caches, dmpp, objects, major, open, fault, loads>>

\* reg_blk_fail takes the controller back and nothing else.
Register_Blkdev ==
    /\ Load /\ mod = "coming" /\ at = "blk"
    /\ \/ /\ mod' = "live" /\ at' = "none" /\ major' = 1
          /\ UNCHANGED <<running, chr, fd, disk, left, cause>>
       \/ /\ Load_Failed({"blk"}) /\ UNCHANGED major
    /\ UNCHANGED <<pos, caches, dmpp, objects, open, fault, loads>>

\* A thread, a file or a disk of a module that is gone: its code is called.
Run_Freed_Text ==
    /\ Up /\ left # {} /\ fault' = "freed text"
    /\ UNCHANGED <<module, objects, users, requests, short>>

-----------------------------------------------------------------------------
(* Unloading.                                                              *)

\* The open file and the open disk hold the module.
Rmmod ==
    /\ Load /\ mod = "live" /\ ~fd /\ ~open
    /\ mod' = "going" /\ at' = "metadata"
    /\ UNCHANGED <<pos, caches, dmpp, objects, running, chr, major, users, fault, left, loads, cause>>

Next_Release(s) ==
    CASE s = "metadata" -> "nodes" [] s = "nodes" -> "volumes"
      [] s = "volumes" -> "pools" [] s = "pools" -> "unregister"

\* The receivers of the datanodes stop with the nodes, and Release_DMS_Volume_Manager
\* releases every volume that is still in the table.
Release_Manager ==
    /\ Load /\ mod = "going" /\ at \in {"metadata", "nodes", "volumes"}
    /\ running' = running \ {Manager(at)}
    /\ disk' = IF at = "volumes" THEN "none" ELSE disk
    /\ at' = Next_Release(at) /\ pos' = First
    /\ UNCHANGED <<mod, caches, dmpp, objects, chr, major, fd, open, fault, left, loads, cause>>

\* mempool_destroy stops the kernel when the reserve is not whole, and a cache is
\* not destroyed while one of its objects is in use.
Release_Pool ==
    /\ Load /\ <<mod, at>> \in {<<"coming", "rollback">>, <<"going", "pools">>}
    /\ pos \in dmpp
    /\ UNCHANGED <<mod, at, objects, running, chr, major, users, left, loads>>
    /\ IF reserve[pos] # MinNr
       THEN fault' = "outstanding" /\ UNCHANGED <<pos, caches, dmpp, cause>>
       ELSE /\ caches' = IF out[pos] = 0 THEN caches \ {pos} ELSE caches
            /\ cause' = IF out[pos] = 0 THEN cause ELSE cause \cup {dmp_manager[pos]}
            /\ dmpp' = dmpp \ {pos} /\ pos' = pos + 1
            /\ UNCHANGED fault

Release_Pools_Done ==
    /\ Load /\ mod = "going" /\ at = "pools" /\ pos \notin dmpp
    /\ at' = Next_Release(at)
    /\ UNCHANGED <<mod, pos, caches, dmpp, objects, running, chr, major, users, fault, left, loads, cause>>

\* unregister_chrdev and unregister_blkdev; the module is gone.
Unregister ==
    /\ Up /\ mod = "going" /\ at = "unregister"
    /\ mod' = "absent" /\ at' = "none" /\ chr' = FALSE /\ major' = 0
    /\ req' = [r \in Requests |-> Idle]
    /\ UNCHANGED <<pos, caches, dmpp, objects, running, users, short, fault, left, loads, served,
                   attached, cause>>

-----------------------------------------------------------------------------
(* Objects.                                                                *)

\* mempool_alloc: from the slab, else from the reserve, else the caller waits.
Mempool_Alloc(p) ==
    \/ ~short /\ out' = [out EXCEPT ![p] = @ + 1] /\ UNCHANGED reserve
    \/ /\ short /\ reserve[p] > 0
       /\ reserve' = [reserve EXCEPT ![p] = @ - 1]
       /\ out' = [out EXCEPT ![p] = @ + 1]

\* mempool_free of n objects: the reserve is filled first.
Mempool_Free(p, n) ==
    /\ out' = [out EXCEPT ![p] = @ - n]
    /\ reserve' = [reserve EXCEPT ![p] = IF @ + n < MinNr THEN @ + n ELSE MinNr]

\* GET_MEMPOOL follows dmpp, which is not set before and after.
In_Pool(p, step) ==
    IF p \in dmpp THEN step /\ UNCHANGED fault
    ELSE fault' = "no pool" /\ UNCHANGED <<objects, users, requests>>

-----------------------------------------------------------------------------
(* The daemon and the user of the disk.                                    *)

Calls == Up /\ mod \in {"coming", "live"} /\ UNCHANGED <<module, short>>
Use == Calls /\ UNCHANGED <<objects, requests, fault>>

\* try_module_get succeeds while the module is still being loaded.
Open_Controller == Use /\ chr /\ ~fd /\ fd' = TRUE /\ UNCHANGED <<disk, open>>
Close_Controller == Use /\ fd /\ fd' = FALSE /\ UNCHANGED <<disk, open>>

\* The disk takes DMS_DEV_MAJOR as it is.
DMS_Create_gendisk == IF major = 0 THEN "no major" ELSE "attached"

\* The volume's list of requests to commit is made before its disk, for which there may be
\* no memory; neither then nor with the volume is it released.
IOCTL_AttachVolume ==
    /\ Calls /\ fd /\ disk = "none" /\ attached < MaxAttaches
    /\ LET p == Pool("dlist") IN
       In_Pool(p, /\ Mempool_Alloc(p)
                  /\ attached' = attached + 1
                  /\ disk' \in {DMS_Create_gendisk} \cup (IF short THEN {disk} ELSE {})
                  /\ UNCHANGED <<fd, open, req, served>>)

IOCTL_DetachVolume ==
    /\ Use /\ fd /\ disk # "none" /\ ~open
    /\ disk' = "none"
    /\ UNCHANGED <<fd, open>>

DMS_VDisk_Open ==
    /\ Use /\ mod = "live" /\ disk = "attached" /\ ~open
    /\ open' = TRUE /\ UNCHANGED <<fd, disk>>

\* The last close waits for the requests of the disk.
DMS_VDisk_Release ==
    /\ Use /\ open /\ \A r \in Requests : req[r].pc \in {"idle", "ended"}
    /\ open' = FALSE /\ UNCHANGED <<fd, disk>>

-----------------------------------------------------------------------------
(* Requests and their objects.                                             *)

Serve == Up /\ UNCHANGED <<module, short>>
\* One step of a request, with an object of the pool p.
Serve_From(p, step) == In_Pool(p, step /\ UNCHANGED <<users, served, attached>>)

DMS_Request_Handler(r) ==
    /\ Serve /\ mod = "live" /\ open /\ req[r].pc = "idle" /\ served < MaxRequests
    /\ req' = [req EXCEPT ![r] = [pc |-> "make", got |-> 0]]
    /\ served' = served + 1
    /\ UNCHANGED <<objects, users, attached, fault>>

\* The objects of a request, in their order.
Wanted(got) == IF got = 0 THEN "ioreq" ELSE IF got = 1 THEN "dlist" ELSE "lbmd"

\* __Make_DIO_Requst: the IO_Request and its list first, then a LogicalBlock_MetaData for
\* each block.  The handler sleeps with what it has.
Make_DIO_Request(r) ==
    /\ Serve /\ req[r].pc = "make"
    /\ LET p == Pool(Wanted(req[r].got)) IN
       Serve_From(p, /\ Mempool_Alloc(p)
                     /\ req' = [req EXCEPT ![r] = [pc |-> IF @.got = NrBlocks + 1 THEN "asked" ELSE "make",
                                                   got |-> @.got + 1]])

\* The namenode answers: its receiver, which has one answer at a time, makes the metadata with
\* the located requests and their datanodes ...
Process_Namenode_Response(r) ==
    /\ Serve /\ "receiver" \in running /\ req[r].pc = "asked"
    /\ \A q \in Requests : req[q].pc # "answered"
    /\ LET p == Pool("dmeta") IN
       Serve_From(p, Mempool_Alloc(p) /\ req' = [req EXCEPT ![r].pc = "answered"])

\* ... then the tag for the datanode, and sends.
Create_DMS_Datanode_Tag(r) ==
    /\ Serve /\ "receiver" \in running /\ req[r].pc = "answered"
    /\ LET p == Pool("dntag") IN
       Serve_From(p, Mempool_Alloc(p) /\ req' = [req EXCEPT ![r].pc = "sent"])

Blocks(r) == req[r].got - 2

\* The answers that end the request: Release_DIO frees the blocks.  Nobody frees the
\* IO_Request with its list, nor the metadata.
Commit_DIO_to_IO_Request(r) ==
    /\ Serve /\ "nodes" \in running /\ req[r].pc = "sent"
    /\ LET p == Pool("lbmd") IN
       Serve_From(p, /\ Mempool_Free(p, Blocks(r))
                     /\ req' = [req EXCEPT ![r] = [pc |-> "ended", got |-> 0]])

\* The last answer of the datanode comes after the request has ended, if at all.
Commit_Datanode_Tags(r) ==
    /\ Serve /\ "nodes" \in running /\ req[r].pc = "ended"
    /\ LET p == Pool("dntag") IN
       Serve_From(p, Mempool_Free(p, 1) /\ req' = [req EXCEPT ![r] = Idle])

Step(r) ==
    \/ DMS_Request_Handler(r)
    \/ Make_DIO_Request(r)
    \/ Process_Namenode_Response(r)
    \/ Create_DMS_Datanode_Tag(r)
    \/ Commit_DIO_to_IO_Request(r)
    \/ Commit_Datanode_Tags(r)

Next ==
    \/ Memory
    \/ Insmod \/ Init_Pool \/ Init_Pool_Done \/ Rolled_Back \/ Init_Manager
    \/ Register_Chrdev \/ Register_Blkdev \/ Run_Freed_Text
    \/ Rmmod \/ Release_Manager \/ Release_Pool \/ Release_Pools_Done \/ Unregister
    \/ Open_Controller \/ Close_Controller \/ IOCTL_AttachVolume \/ IOCTL_DetachVolume
    \/ DMS_VDisk_Open \/ DMS_VDisk_Release
    \/ \E r \in Requests : Step(r)

Spec == Init /\ [][Next]_vars

-----------------------------------------------------------------------------
(* Properties.                                                             *)

\* A load that fails in the pools, and an unload after which no object is in use,
\* leave nothing in the kernel: neither a cache, whose name the next load meets,
\* nor a thread, a file or a disk whose code is gone (Init_DMP_Manager,
\* Release_All_Modules).  Every other failure of a load leaves something.
NothingIsLeftBehind ==
    mod = "absent" /\ Up /\ cause = {} => caches = {} /\ left = {} /\ ~chr

\* No request, and no answer that comes late, meets a pool that is not there
\* (Init_All_Modules, Release_All_Modules: the pools come first and go last).
PoolsOutliveUsers == fault # "no pool"

\* What an unload finds in use in a pool that is still there: a list for every volume that was
\* attached and every request, the IO_Request and the metadata of every request, whose
\* releases are commented out or still to do, and the tag of a request that ended before its
\* last answer; the blocks are all back.  The kernel stops only at a pool with an object in use
\* (__Release_Volume, Commit_DIO_to_IO_Request, Commit_to_Namenode, Release_DIO).
Outstanding(name) ==
    CASE name = "dlist" -> attached + served
      [] name = "lbmd" -> 0
      [] name \in {"ioreq", "dmeta"} -> served
      [] name = "dntag" -> Cardinality({r \in Requests : req[r].pc = "ended"})
OutstandingIsKnown ==
    /\ mod = "going" => \A p \in dmpp : out[p] = Outstanding(dmp_manager[p])
    /\ fault = "outstanding" => out[pos] > 0
=============================================================================
