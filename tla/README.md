# A TLA+ development of the DMS virtual disk driver

The repository holds a Linux 2.6.18 block device driver (`src/DriverCore`) whose
disks live on a distributed store: a *namenode* says where the blocks of a disk
are, *datanodes* store them. A user-space daemon (`src/UserDaemon`) turns commands
of a management service into ioctls of the driver. A separate kernel module
(`src/DriverCore/cache`) caches metadata. This directory models the concurrent core
of these programs in TLA+, checks it with TLC on small instances, and proves the
safety of five parts with TLAPS for every instance.

Paths are relative to `src/DriverCore/` unless they start with `src/`. The exact
lines each definition translates are under `map` in `PROJECT.json`.

## 1. Inventory

The `Makefile` builds `DMS_VDDriver`, `DMS_Error`, `Volume`, `Volume_Manager`,
`DMS_Mem_Pool`, `DList`, `Allocation_Flag`, `LogicalBlockList`, `DIO`, `IO_Request`,
`Driver_Core`, `Namenode_Protocol`, `Metadata`, `Metadata_Manager`, `SSocket` and
`SSockets_Manager`. The payload files are called by the commit path but are not
built, and parts of them do not compile; see section 3.1 for how they are treated.

| Component | State | Operations | What is hard |
| --- | --- | --- | --- |
| Commit path (`Driver_Core.c`, `DIO.c`, `IO_Request.c`, `Metadata.c`, `LogicalBlockList.c`) | kernel request, `IO_Request` with its dios, dio with its blocks, metadata with located requests, counters and bits | a receiver thread commits an answer level by level: located request, block list, dio, request, then the namenode | levels are protected by different means (test-and-set bit, list lock, compare-and-exchange, queue lock, nothing), and objects are released in the middle |
| Volume manager (`Volume_Manager.c`, `Volume.c`) | `all_volumes[]`, the fields of a volume | attach, detach, open, close | every operation is several critical sections with sleeping calls between them |
| Building of dios (`DIO.c`, `Allocation_Flag.c`) | allocation words of 64 blocks, block lists | cut a request into the longest runs of one kind | word borders, an `int` shifted by up to 63 |
| Logical block list (`LogicalBlockList.c`) | sorted list under a lock, an iterator | insert, remove by range, by block and by pointer, search from a remembered block | readers keep an address between two holds of the lock |
| Double linked list (`DList.c`) | ring through a head, one shared iterator | insert, remove, iterate, release all | iteration while others remove |
| Connection manager (`SSocket.c`, `SSockets_Manager.c`) | `dms_nodes[]`, per container status, socket, work, retries, receiver | build, destroy, send, handlers that connect and rebuild, socket callbacks, release of the manager | status shared without one lock; a release waits for the work queue with a lock held |
| Namenode protocol and metadata manager (`Namenode_Protocol.c`, `Metadata_Manager.c`) | the wire format, the query under way, `dio->dmeta` | pack, parse, send a query in two parts, receiver loop | lost connections, late and dropped responses |
| Memory pools and module (`DMS_Mem_Pool.c`, `DMS_VDDriver.c`) | slab caches, mempools, registered devices, managers | load, unload, take and give back objects | half-done loads, objects in use at the unload |
| User daemon (`src/UserDaemon`) | list of attached volumes, its file | one thread per connection, restart | the list has no lock; driver, list and file are changed one after the other |
| Metadata cache (`cache/cache.c`, `cache/radix-tree.c`) | volumes, leaves with reference counts, LRU list, radix tree | find, update, invalidate, kick, volume create and remove | leaves are taken out while borrowed; memory runs out inside the tree |
| Payload and datanode protocol (`Payload.c`, `Payload_Manager.c`, `Datanode_Protocol.c`) | tags of a dio's datanodes | generate and send tags, receive answers | senders and receivers share the tag list |
| Committer, state machines, code tables, unit tests | | | not modelled, see section 7 |

How they interact: the daemon calls the driver by ioctl (`UserDaemon` sees the driver
as one step, `VolumeManager` has its steps). A disk's request queue calls the request
handler, which cuts the request (`DIORequest`) and sends a query (`NamenodeLink`) on
a connection (`ConnectionManager`); the answer becomes the metadata of a dio, whose
payload tags are sent (`LogicalBlockWalk`, `DListWalk`); the datanodes' answers are
committed (`IOCommit`). All objects come from the pools (`Driver`).

Correctness of each part, in a line: a request ends exactly once, complete and with a
real result (commit path); no volume twice, lost, or freed under its user (volume
manager); the dios partition the request (building); an iteration is exact and never
follows freed memory except where the code cannot help it (lists); one container per
address, known stalls only (connections); metadata is what the namenode answered for
this dio (namenode); nothing is left after a load or unload (module); list, file and
driver agree (daemon); tree and LRU list agree, a borrowed leaf lives (cache).

## 2. Plan, and how far it is done

1. `IOCommit`, its abstract specification `BlockRequest`, the refinement, its proofs: done.
2. `VolumeManager`: done, with proofs.
3. `ConnectionManager`: done (containers, table, handlers, callbacks, release), with proofs.
4. `DList` and `DListWalk`, `LogicalBlockList` and `LogicalBlockWalk`: done, with proofs.
5. `DIORequest`: done, with the real chunk of 64 blocks and the real shift, with proofs.
6. `NamenodeProtocol` and `NamenodeLink`: done, with proofs.
7. `Driver`: the module's life and the pools, done for one pool of each kind of life
   (3.7), with proofs.
8. `UserDaemon`: done, with proofs. `RadixTree`, `MetadataCache`: done.
9. Not proved, only model-checked: the properties named at the end of section 6, which
   speak of fairness or stand on recursive operators on trees.

## 3. Modules

| Module | What it is |
| --- | --- |
| `IOCommit` | the commit path |
| `BlockRequest`, `IOCommitRefinement` | what a virtual disk promises for a request, and that the commit path implements it |
| `IOCommitProofs` | theorems about `IOCommit`, that it implements `BlockRequest` among them |
| `VolumeManager`, `VolumeManagerProofs` | the table of volumes and its users; theorems |
| `ConnectionManager`, `ConnectionManagerProofs` | node containers, the work queue, callers and callbacks; theorems |
| `DList`, `DListWalk` | the list; walkers that share its iterator |
| `LogicalBlockList` | the sorted list of blocks, as operators |
| `DIORequest`, `DIORequestProofs` | cutting a request into dios and committing them (extends `LogicalBlockList`); theorems |
| `LogicalBlockWalk` | a sender, a walker and others in one block list (extends `LogicalBlockList`) |
| `ListProofs` | theorems about both lists, `DListWalk` and `LogicalBlockWalk` |
| `NamenodeProtocol` | the wire format, as operators |
| `NamenodeLink`, `NamenodeLinkProofs` | queries, the receiver, lost connections (extends `NamenodeProtocol`); theorems |
| `Driver`, `DriverProofs` | load, unload, pools, and the objects of requests; theorems |
| `UserDaemon`, `UserDaemonProofs` | the daemon's threads, list, file and restart; theorems |
| `RadixTree`, `MetadataCache` | the tree, as operators; the cache above it |
| `MC...` | instances for TLC |

Conventions of all modules. Actions and operators have the names of the functions they
model. *History* variables are marked as such and are read by properties only. Where
the code runs into undefined behaviour (freed memory, a NULL pointer, a lock taken
twice), the model records it (`fault`, `faulted`, `broken`, `daemon = "dead"`) and that
run, or that thread, stops: what happens afterwards is not claimed to be anything.
Every module has a section of *slips*: operators, used by nothing, that change one
definition the way a mistake in the code would; they show which property guards
against which mistake. Bounds of the models are constants marked `bound`.

### 3.1 IOCommit

The structure of an instance is a constant: which dios a request is cut into
(`KreqOf`), which LRs the namenode returns for a dio (`DioOf`), on which
datanodes an LR is stored (`Replicas`), the operation of a dio (`Op`), the start
value of the counters (`AckInit`), and the size of the tag map (`TagDepth`).

| Variable | Code |
| --- | --- |
| `kstate`, `special`, `endings`, `kresult` | the kernel request; `special` is `kreq->special`; `endings` and `kresult` are history |
| `dioList`, `iorResult` | `ior->diolist`, `ior->result` |
| `dioState`, `lbs`, `dioResult` | allocation of a dio, `dio->LB_list`, `dio->result` |
| `located`, `pdio`, `waiting`, `dnTags`, `nnCommits` | `dio->dmeta`, `dmeta->pdio`, `nr_waiting_lrs`, `dn_tags`; `nnCommits` is history |
| `wmem`, `wdisk`, `committed`, `dnResult` | `wmem_ack`, `wdisk_ack`, `COMMITTED_USER_BIT`, `dn_result` |
| `sent` | the environment: what each datanode has answered about a dio |
| `thr` | per receiver: control point, dio, answer, payload tags still to do, LR at hand, finished LRs |

Actions have the names of the functions. A receiver thread runs

    Process_Datanode_Response -> Update_and_Commit_to_User_Policy (per payload tag)
      [ -> Update_Disk_Ack_on_Error ]
      [ -> Commit_LBs_to_DMS_IO -> Set_DIO_Result -> Commit_LB_List_by_Range
          [ -> Set_IOR_Result -> Remove_and_Release_DIO
              [ -> DMS_End_Request_Handler -> Complete_Request ] -> Set_Pdio_NULL ] ]
      -> Update_and_Commit_to_Namenode_Policy -> Commit_Datanode_Tags
      [ -> Commit_to_Namenode ]

where every atomic operation of the code (test-and-set, compare-and-exchange,
atomic decrement, critical section of a lock, unlocked read that another thread may
invalidate) is a step.

Abstractions, and why they are sound for the properties:

- The blocks of a dio are kept per LR: the only operation on the list in this
  path removes exactly the range of one LR.
- Partial acknowledgements are handled by the code like full ones, and the five
  exception codes like each other; each is one value.
- `__Make_DIO_Requst` and `Generate_All_DN_Tags` with the sending of the tags are
  one step: no other thread knows the objects yet. (Except the list of tags while
  the requests are being sent, see the hazard at `Payload_Manager.c:493`.)
- The decrements of `nr_waiting_lrs` of one call are one step: only the one that
  reaches zero is observed.
- `__VolumeIO_Handler` has its calls of the metadata and payload handlers under
  `#if 0`, and `Payload_Manager.c` is not built. The model connects the parts as
  the disabled code does. `Datanode_Receiver` passes `false` for the answer and
  names an undeclared tag; the model passes the response's sub-type, which is what
  the cases of the committer are about.
- A datanode answers a write once from memory and once from disk, in either
  order (the code has a case for each order), fails at most once, or stays silent.
- The test-and-set of `COMMITTED_USER_BIT` and the read of `dmeta->pdio` behind it
  (`Driver_Core.c:71`, `:78`) are one step (`MayCommit`): nobody clears the bit, and who
  releases the dio meanwhile does so in steps of its own.
- Not in the model: the commit of a tag whose request could not be sent, and the
  release of the `IO_Request` (it is commented out in the code).

### 3.2 VolumeManager

The driver registers `.ioctl`, and block devices are opened and closed under the
same lock: in 2.6.18 the big kernel lock is held and given up where a thread
sleeps. `bkl` is its holder. A thread at one of the `SleepPoints` (allocation with
`GFP_KERNEL` of queue and disk, `add_disk`, draining and `del_gendisk`) may give it
up (`Sleep`); at all others it goes on.

`slot` is `all_volumes[]`; `alloc` and `vol` are the volumes and their fields;
`handle` is the disk each user has open; `pc`, `arg`, `cur`, `idx` belong to the
ioctl callers. `fault` records the first dereference of a reservation or of a
released volume. `NullIDs` holds the volume ID 0, whose reservation is NULL. Allocated
volumes are taken from `Ptrs` in any order and never reused, so that a released one
can be told from a live one. `Self_Open` and `Self_Close` are the partition scan of
`add_disk`. The kernel finds a disk by its minor number; of two disks with the same
minor number it finds the later (`Reachable`).

`late` is history: who opened the disk of a volume, or started to detach it, while a
detach of it was asleep. From then on the code promises little: the second of two
detaches frees the slot of whichever volume is in it by then, and the last close of a
detached disk counts for another volume. `NoLostVolume`, `OpenCounterIsExact` and
`OpenVolumeIsKept` say what holds until then. It takes three ioctl callers to lose a
volume (two that detach it, one that attaches another in between), so the run has three.

Not in the model: growing the table (nothing calls it) and I/O statistics; starting and
releasing the manager are steps of `Driver`.

### 3.3 ConnectionManager

`table` is `dms_nodes[]`; `dnc` the fields of a container: address, index, status,
retry count, socket, receiver, `lock` (the container's own), and the delayed work
(`fn`, `work`); `sk` the sockets; `pc`, `job`, `cur`, `rel`, `at`, `held` the control of
a thread, which is a caller (`Procs`) or a thread of the work queue (`Workers`). `mgr`
is the thread that keeps `dms_nodes_lock` over several steps: `Release_DNCS_Manager`
flushes the queue with it held.

A caller builds, destroys or sends on a container, or releases the manager; a worker
runs the handler that connects (retry up to `CONNECTION_RETRY_MAX_TRY`, then give up)
or rebuilds; `Socket_State_Change` is the callback; `Lose_Unnoticed` is a connection
that breaks before the callbacks are registered. A step ends at a lock, a store to a
shared field or a call that sleeps.

What the code does, and the properties therefore name as exceptions:

- the work that connects is queued with delay 0 *before* BUILDING is stored
  (`SSocket.c:848`); a handler that is faster finds INIT and does nothing (`missed` is
  "handler");
- a rebuild stores INIT and then starts the building only if the status is still INIT
  (`SSocket.c:920`); one that comes while an earlier rebuild of the same container is
  about to store BUILDING finds BUILDING, and the socket it has made may be connected by
  nobody (`missed` is "rebuild");
- a release of the manager holds `dms_nodes_lock` while it flushes the work queue
  (`SSockets_Manager.c:571`), and a handler that gives up its container wants that lock;
- two handlers that give up their containers may flush the queue at the same time
  (`SSocket.c:787`), and each waits for the other to end. `DeadlockIsKnown` says that
  these two are the only deadlocks;
- undefined behaviour is reached by `Send_Msg` with a container freed meanwhile, by
  `INIT_WORK` on work that is pending (`SSocket.c:1087`), and by the lock that the
  callback takes in a softirq and others take without disabling it (1086 and 628);
- the retry count is not reset by a successful connect, so later losses are given up
  earlier.

In the kernel a worker that flushes the queue runs what is queued on its own CPU by hand
and waits for the workers of the other CPUs. In the model any idle worker runs it, and
the flush waits for all workers but itself; `DeadlockIsKnown` asks only about states in
which nothing is queued, where the two agree.

### 3.4 DList and DListWalk

`nxt`, `prv` are the pointers, `in` the set of elements on the list, `iter` is
`next_node`. Every operation holds the list's lock, so it is a step. `DListWalk` adds
walkers, each between `Reset_DList_Iterator` and the NULL of `Get_Next_User_Data`; its
`walk` is history: what a walker saw, and which elements stayed. `WalkIsExact` says
that a walker who is alone with the iterator sees every element that stays, and sees
none twice unless it was put back or an element not in the list was removed at the end
of the walk (`DList.c:481` then starts the iterator again). One module has the theorems
about this list and about that of the blocks; so that both can be named there, the
definitions they would share are `ListInit`, `ListNext` and `ListSpec` here.

### 3.5 LogicalBlockList, DIORequest and LogicalBlockWalk

`LogicalBlockList` has the operations on the list as functions on sequences of block
numbers. `DIORequest` runs `__Make_DIO_Requst` step by step: `Get_Allocation_Range`
chooses the operation with a mask that is an `int` (`ShiftMasks` has each outcome the
build may produce), `Get_Continuous_Range` finds the run chunk by chunk, the block list
is cut, and each dio is committed range by range. The allocation map is a stub in the
code (all zero, or three patterns in the unit-test build); the run uses the patterns.

`LogicalBlockWalk` is the list in use: `__Xmit_Payload_Tag` remembers a block from one
search to the next (`cur`), the iterator is shared, and answers and others remove. A
block is named by its number; `freed` are those given back. The code protects nobody
who keeps an address: `FaultNeedsRemoval` says that a fault needs a removal under this
reader, `MissedIsGone` that a sender misses no block that is still there.

### 3.6 NamenodeProtocol and NamenodeLink

The bytes of a body are 16-bit words, the unit every field is a multiple of. `Wire_...`
is what the namenode sends (external, from how the parser reads it), `Parse_...` the
driver's parser with its offsets and return values. The driver has a packer of answers
that nothing calls; its parts (`Pack_...`) are used for the namenode.

The fields have the widths and signs of the code: an int is written with a high half
that is unsigned and read with one that is signed, an eight byte number is four words
and its sum with a short carries, and the blocks before a located request are counted
in a `short` (`Namenode_Protocol.c:244`, `:262`). Blocks and triplets go into arrays of
`KSECTORS_TO_DSECTORS(MAX_KSECTORS)`, that is 16, entries (`Arrays`; `include/Metadata.h:89`,
`:112`), and a port into an unsigned short. The parser does not compare the number that
arrives with the array. `RequestAssumption` and `AnswersAssumption` say that what is sent
fits into its fields and arrays, which is all a request asks for (`Volume.c:81-85` limits
it to `MAX_KSECTORS` in blocks of 4096 bytes), and that the blocks of one answer fit into
that `short`; the page the receiver reads into has room for some five hundred. The steps
of an answer that does not fit are not modelled.

`NamenodeLink` has one handler per dio, the namenode, the receiver thread, and
`Lose_Connection`/`Rebuild_Connection`. A query is opaque but for its length. The
handler sends the header with `Send_Msg`, then the body, with no lock between the two
(the TODO at `Metadata_Manager.c:108`). The length for the second call is the field of
the header, which is in network order already (`include/DMS_Protocol_Header.h:172`): the
driver sends 0x12000000 bytes for a body of 18, the body and what lies behind it on the
stack (`body_length`, `Send_Body`, `Send_Rest`). Each call may send all, a part, or
nothing, and other handlers come in between. The namenode is external: it takes a header
for a header wherever it stands, so a header between another query's header and body is
no loss of step, and the body that follows it is taken for the later query's; what
is neither it skips, or it is out of step until the connection is lost; it takes nothing
on the stack for a header. It may answer in any order with any of `Answers`.

`overlap` is history: a header was sent while another query was between its header and
its body. `MixUpNeedsOverlap` says that only then does a DMS_IO get the blocks of
another, and TLC reaches such mix-ups without any loss; lost connections, sends cut off
half way and the stack behind a body cause none. `DmetaIsTheAnswer` compares what the
driver uses (the located requests); `commit_ID`, which nothing reads back, is not compared.

What the code drops, and `Usable` therefore excludes: a response with a located request on
no datanode, or with none at all, and one whose sub-type is RESPONSE, although the message
at `Namenode_Protocol.c:380` says that the sub-type should be RESPONSE (line 346 parses
only what is not). All three kinds arrive in the run; the receiver goes on with the next.

### 3.7 Driver

`mod`, `at`, `pos` are the state of insmod and rmmod; `caches`, `dmpp`, `reserve`,
`out` the pools; `running` the managers; `chr`, `major`, `fd`, `disk`, `open` the
devices; `req` the requests and the objects they hold. Five of the twelve pools are
modelled, one for each life an object has:

| Pool | Taken | Given back | The same life |
| --- | --- | --- | --- |
| `dlist` | by every attach (the volume's list) and every `IO_Request` | never | |
| `lbmd` | for each block of a request | when the dio is released | dio, block list; nodes of the list of dios |
| `ioreq` | by every request | never (`IO_Request.c:256` is commented out) | |
| `dmeta` | when the namenode answers | never (`Release_DMS_Metadata` is not called; TODO at `Metadata_Manager.c:191`) | located request, datanode location |
| `dntag` | before the datanodes are asked | by the last answer of the datanode | payload tag; nodes of the lists of tags |

So eleven pools have one of these lives (the nodes of lists share theirs with what is in
the list); from the twelfth (`pheader`) nothing is ever taken. Every unload after an
attach or a request meets objects in use. The kernel's parts (slab, mempool, module
loader) are external. `cause` is history: why something was left behind. The controller
is registered before the block major is known, a failing manager does not stop those that
are up, and the result of a `kzalloc` in `DMS_Mem_Pool.c` is not looked at: the properties
name these.

### 3.8 UserDaemon

One step is what a thread does between two calls that others can see: the ioctl, the
list, the file. `next`, `vol`, `last`, `cells` are the linked list as the code builds
it; `held` is the driver's side, `file` what is on disk. `Sighandler` and `Initialize`
are stop and restart. `IOCTL_RESET_DRIVER` only clears a bit (`DMS_VDDriver.c:405`), and
the `rmmod` of `auto_remove_driver` (`Client_Daemon.c:845`) fails while a disk is open,
without anybody looking: `Sighandler` leaves the driver with no volume or with all it
had. Loading the file at the start is commented out in the code, so a restarted daemon has
an empty list, whatever the driver kept. `clash` (two threads at work at once), `faulted`
and `unsynced` (volumes that are known to be on one side only: after an RS that refused,
a daemon that died, an `rmmod` that failed) are history.

A thread may wait for others for ever (`Waits`): in `recv` for its client, which has no
timeout; in `create_connection` and the loop around it for a namenode that is not found
or reached (`Client_Daemon.c:225`, `:386`) and in `recv` for its answer; in the ioctl; in
the calls of RS. And it gets stuck on a 0-byte receive, a device that does not appear,
and `detach_all_volume`, which never advances. `ThreadEndsOrIsStuck` says that there is no
other way not to end.

### 3.9 RadixTree and MetadataCache

`RadixTree` is `radix-tree.c` as functions on nested records, with the number of nodes
that can still be allocated as a parameter: an insert that fails half way leaves what
the code leaves. `MetadataCache` has the volume table, the LRU lists, the leaves with
their reference counts, and threads that find, update, invalidate, put, kick, and
remove volumes. `broken` records two threads in one tree (`kick_meta_cache` does not
take the lock, `cache.c:553`), a volume freed under a thread, and the NULL dereference
of a lookup in a tree with a height and no node. Leaves that are added between
`volume_clear_all` and the removal of the volume leak. The return value of `cache_update`
is not modelled (a failed allocation after the first block returns the 0 of an earlier
block, that is success, `cache.c:597`, `:634`); no property reads it.

## 4. Runs

| Run | Question | Instance | Result |
| --- | --- | --- | --- |
| `commit` | Is every level committed once, in order, and is `BlockRequest` implemented with its fairness? | a write of 2 dios, one on 2 datanodes, and a read; 3 located requests, 2 receivers | passes |
| `v_namenode` | Is the namenode told after the last disk answer? | one located request on 2 datanodes, counters 0 | violated |
| `concurrent` | Is the table of volumes consistent under concurrent ioctls? | 3 callers, 2 IDs, 2 slots, 2 volumes, 2 users | passes |
| `connections` | Is there one container per address, released once, and what deadlocks? | 2 callers that may unload, 1 worker, 2 containers, 1 address | passes |
| `rebuild` | Which connections stall, and is a lost one taken down? | 1 container, 3 sockets, 2 workers, 1 caller, 2 retries | passes |
| `list` | Is the ring whole and an iteration exact? | 3 elements, 2 walkers | passes |
| `lblist` | Do the dios partition a request into the longest runs? | about 500 requests around the borders of chunks of 64 | passes |
| `blocks` | Who can run into a freed block? | 3 blocks, 1 sender, 1 walker, 2 takers | passes |
| `namenode` | Is `dio->dmeta` the namenode's answer, who is mixed up, and does the answer arrive? | 2 dios, 2 losses, answers that can and that cannot be used | passes |
| `daemon` | Do list, file and driver agree, and when does a thread not end? | 2 threads, 2 volumes, 3 commands, 2 starts | passes |
| `cache` | Do tree and LRU list agree, and does a borrowed leaf live? | 2 threads, 3 blocks in a tree of fan-out 2, cache size 2, 1 failed allocation | passes |
| `driver` | Does a load or unload leave something behind, and what is outstanding? | 2 requests at a time, 4 in all, of 3 blocks; 2 volumes, 2 loads, reserve of 2 | passes |

*Bounds.* Races of the commit path are between two receivers at one located request
(needs one on both datanodes), at one dio, or at one request: `commit` has a replicated
located request, a request of two dios and a second request; the proofs cover all other
sizes. In `concurrent`, two slots let a scan pass one entry and meet another, three
callers let two overlapping detaches meet an attach; two volumes mean that a third
attach fails for want of memory; the proofs have no such bound. `connections` has two
callers at one address, the only way to a duplicate; `rebuild` lets one connection be
built, lost and built again, with a worker for each of two
handlers at once; three sockets, since the second of two rebuilds under way needs a third
(with two sockets `StallsAreKnown` would hold without its second exception). `list`
needs three elements for a removal before, at and behind the iterator. `lblist` starts
at every bit of a word and crosses one and two borders. `blocks` needs a block before,
at and behind a remembered one. `namenode` needs two losses for a loss inside a query
after one elsewhere. `daemon` needs three commands for attach, attach, detach of the
last. `cache` uses blocks 0, 1 and 4 so that the tree grows by one and by two levels
and shrinks. `driver` has a request larger than the reserve, as the code has (requests
of up to 16 blocks, reserve of 4), two attaches and four requests, so that each pool that is
never given back grows beyond its reserve, and a second load that meets what the first left.

`CHECK_DEADLOCK FALSE` is set in all configurations: datanodes, the namenode and
clients may stay silent, every bound may be used up, and a fault ends a run. Where
being stuck is the question, a property asks it (`DeadlockIsKnown`,
`ThreadEndsOrIsStuck`).

*Start value of the counters.* The code leaves `wmem_ack` and `wdisk_ack` at zero; then the
commits to the namenode never happen, which is what `v_namenode` shows. `commit` starts
them at the number of replicas, as the comment of the fields asks for, so that it goes
through `Commit_to_Namenode` as well. None of its properties depends on that: all of them
hold from zero too (the same configuration with `AckZero` for `AckInit` passes, with fewer
states), and the theorems hold for every start value.

*`NullIDs`.* `concurrent` has no ID 0: with it a reservation is NULL, two attaches can
take one slot, and a failing attach drops another volume. That is what
`Volume_Manager.c:200` does, and the hypothesis of `IDsAreUnique`.

*Fairness.* `IOCommit`: weak fairness of `Commiter(dn)` only, a kernel thread inside
`__VolumeIO_Commiter` that waits for spin locks only; nothing is assumed of datanodes,
the namenode or the queue, and the fairness of `BlockRequest` (a request whose blocks
are settled ends) is implied. `ConnectionManager`: threads that are under way go on,
timers expire, workers take queued work; callers call when they like. `NamenodeLink`:
the receiver thread runs; the namenode need not answer. `UserDaemon`: a thread that does
not wait for another (`~Waits(t)`) is scheduled; nothing is assumed of clients, the
namenode, RS, the driver's ioctl, udev and restarts.

## 5. What the code does that its comments say it does not

`v_namenode`: nothing sets `wmem_ack` and `wdisk_ack`; they start at zero, so the last
answer is never recognised and the namenode never told. The quoted line is in
`PROJECT.json`. For the same reason memory acknowledgements alone never end a request.

Met while modelling, part of the models, and named here because a reader of the code
would want to know:

- commit path: the results keep the first answer, so a later exception is masked; an
  exception counts as a memory acknowledgement; a request that could not be cut into
  dios is never ended (`kreq->special` is not set yet); a read whose datanode answers
  with an exception is never ended (a TODO at `Driver_Core.c:249`);
- volume manager: a reservation is taken for a volume by a concurrent scan; a disk
  opened while its detach sleeps is released under its user; the reservation of volume
  ID 0 is none; two detaches of one volume both pass the test of the open counter;
- logical blocks: `LogicalBlockList.c:682` declares its parameter `lbmd` again and hands
  the new, uninitialised variable to the removal: which block goes is up to the build;
- commit path: an exception after the memory answer of a datanode counts as a second
  memory answer; `LastAnswersAreCounted` is therefore about the disk answers;
- daemon: after a detach that RS refuses, after the daemon died, and after an `rmmod` that
  failed, the list and the driver differ;
- namenode: the length of a query's body is swapped before it is used as the size to send;
  answers of the sub-type RESPONSE are dropped by the line whose message asks for them; the
  packer of answers, which nothing calls, writes the number of locations of a located
  request twice (`Namenode_Protocol.c:418` and `:496`), where the parser reads it once;
- module: lists, IO_Requests and metadata are never given back, see 3.7;
- cache: see 3.9; connections: see 3.3.

## 6. Proofs

`IOCommitProofs` proves for every structure of requests, dios, LRs, replicas and
datanodes, every initial value of the counters and every depth of the tag map, from
the assumptions named in `IOCommit` (the constants are functions on their sets,
`LRs` is finite, every request has a dio and every dio an LR):

- `TypeCorrect`: `Spec => []TypeOK`;
- `Ownership`: `Spec => []OwnershipInv`;
- `AtMostOneEnding`: `Spec => []EndedAtMostOnce`;
- `EndingIsComplete`: `Spec => []EndedOnlyWhenAllCommitted`;
- `DiosAreUsedLive`: `Spec => []NoUseAfterRelease`.

`OwnershipInv` is the inductive invariant, needed because none of the three
properties is inductive: that a request ends once depends on who holds it, and
holding it depends on the levels below. Its parts: `KreqInv` (the dio list is
exactly the set of live dios, `special` is set exactly while the request is in
flight), `DioInv` (a dio exists once its request is in flight, and a dio that is not
live has no blocks), `LRInv` (the blocks of an LR are in the list until the LR is
committed), `ThreadInv` (what a receiver may rely on at its control point: an LR it
commits is still in the list, a dio it finishes is live and empty, a request it ends
is in flight with an empty dio list), `UniqueInv` (no two receivers hold the same LR,
dio or request). The argument goes up the levels: the test-and-set bit gives an LR to
one thread; its blocks leave the list once, so one thread sees the list become empty
and holds the dio; the dio leaves the dio list once, so one thread sees that list
become empty and holds the request. The proof has one step per action, and under it
one per part of the invariant.

Two things follow about the code. The unlocked test of `kreq->special` in
`DMS_End_Request_Handler` is sound only because of this: no second thread ever gets
there for the same request. And the counters play no part in safety, which is why
the safety properties survive the missing initialisation: `AckInit` is any
function into the naturals, zero included.

It also proves, from the same assumptions:

- `PointersAreCleared`: `Spec => []NoDanglingPdio`;
- `ResultsAreReal`: `Spec => []ResultIsReal`.

Both rest on the lemma `CommiterShape`: a receiver follows the order of the functions
and keeps its dio and its answer until it returns to its loop. For the pointer, the
invariant is inductive with it: the receiver that released the dio is the witness
until its own `Set_Pdio_NULL`. For the results, the strengthening is `ResultInv`:
every stored result is the initial `true` or an answer about the dio (the request) it
belongs to, and a receiver past `Set_DIO_Result` (`Set_IOR_Result`) has a stored
result that is no longer the initial one, so what it passes up is an answer. Only
`CREATE_DIO_FAIL` could end a request with something else, and `OwnershipInv` shows
that it never reaches an ending: `special` is not set yet.

Of the refinement it proves, from the same assumptions:

- `Implementation`: `Spec => Request!Spec`.

The abstract request has the LRs for blocks; a block is settled when its LR leaves the
block list of its dio, and has the answers its datanodes gave about that dio. Steps that
change neither `kstate`, an ending, a list nor an answer are stutters; each of the others
is one step of `BlockRequest`. `End` needs `OwnershipInv` (the request is in flight and
has no block left) and `ResultInv` (its result is an answer about one of its dios);
`Settle` needs `PlacedInv`: a receiver works only on LRs that its datanode stores, and
datanodes answer only about dios of which they store something, so what settles a block
was answered about it. TLC checks beyond this theorem the fairness of
`ImplementsFairBlockRequest`.

It also proves, if every located request has finitely many replicas, for every start
value of the counters:

- `LastAnswersCounted`: `Spec => []LastAnswersAreCounted`.

The counter lags behind the answers: a datanode's answer is taken by its receiver, waits
there while the receiver goes through the payload tags, and, if it is an error, is
counted a step after it is recorded. So the invariant says what the counter counts
(`CountedOn`: the datanodes with a recorded last answer, but for those in that step), and
`DiskInv` that it has fallen by exactly their number. No answer is counted twice because of
`AnswersInv`: a datanode answers what it was asked, and a last answer follows no other.
None is lost because of `TagInv` and `KeptInv`: a datanode's tag that is not in the list is
with its receiver or was released after a last answer, so a receiver that finds no tag
drops nothing that was still to be counted; and what a receiver took is in its hands until
it is recorded. That the tag stays for an error and for a memory answer, and only for
these (`TagStays`), is what both rest on. When no receiver is at work, what was sent and
what was counted are the same set (`AllCounted`).

`ListProofs` proves of `DListWalk`, for any set of user data, any head outside it and
any walkers:

- `RingIsKept`: `ListSpec => [](RingInv /\ IteratorIsValid)`;
- `IteratorStaysValid`: `ListSpec => []IteratorIsValid`;
- `WalkTypeCorrect`: `ListSpec => []WalkTypeOK`.

`RingInv` is the inductive invariant: `Linked` (successor and predecessor are inverse on
the ring), `Unlinked` (a removed node points to itself) and `Connected` (out of every
set of nodes a pointer leads). The last is needed because without it a node could be
its own successor, a second ring of which the iterator would not get free when the node
is removed; it is a statement about sets, so no induction over the length is needed.
The operations of the list keep `RingInv` whoever calls them, which is why it is one
lemma per operation and the walkers are added on top.

It also proves, for any set of nodes, walkers and data:

- `RingStaysWhole`: `ListSpec => []RingIsWhole`;
- `WalksAreExact`: `ListSpec => []WalkIsExact`.

`RingIsWhole` counts steps from the head, so the function that takes them is solved
first (`IsNth`), by the least number at which two solutions differ; then the first node
to come a second time must be the head, since predecessors are unique, and by
`Connected` the nodes met until then are all of them. The list is finite in every state,
because each step adds at most one node. For the walks there is no order to speak of in
the model's state, so `ExactInv` says that there *is* a set of nodes ahead of the
iterator, `IsAhead` (the iterator is in it, and it is closed under the successor up to
the head), which holds what the walker has still to be given and nothing that it was
given (`FitsWalk`). Each operation of the list then shows the new set.

`VolumeManagerProofs` proves, for any number of slots, volumes, IDs, callers and users,
from the assumption that the values of the different kinds are distinct:

- `TypesAreKept`: `Spec => [](TypeOK /\ AtHand)`;
- `TableIsKept`: `Spec => []TableHoldsLiveVolumes`;
- `ReservationsAreOwned`: `Spec => []ReservationHasOwner`;

and, if `NullIDs` is empty:

- `IDsAreUnique`: `Spec => []NoDuplicateID`;
- `NoVolumeIsLost`: `Spec => []NoLostVolume`;
- `CounterIsExact`: `Spec => []OpenCounterIsExact`;
- `OpenVolumesAreKept`: `Spec => []OpenVolumeIsKept`.

`TableInv` is inductive: it adds `Holders` (an attach that has made a volume and not yet
published it is alone with it, and a detach that is about to free a volume has it out of
the table) and `VisibleIDs` (a reserved slot never holds an ID that is NULL). Most steps
are *quiet*: they leave the table alone and end no hold on a slot, and one lemma covers
them all; five steps are not, and have a lemma each. For uniqueness, `CheckHolds` says
that between the existence check and the reservation nobody else runs (the caller has
the big kernel lock and does not sleep there), and `RealIDs` that an entry is never
taken for an empty slot. The theorems include runs in which detaches overlap: whatever
else goes wrong then, the table holds live volumes only.

`LostInv` adds to `TableInv` what holds until two detaches of one volume overlap: a volume
is released by one caller (`OneDetach`), who finds it in its slot when he takes it out
(`StillThere`); a reserved slot is the caller's until he fills or frees it (`Reserved`);
so a live volume is in its slot or in the hands of a caller (`NoneLost`). `CountInv` adds
what holds until anybody comes late: a volume that somebody has open is in its slot and
nobody detaches it, and its counter is the number of its openers, users and partition
scans. The counters are why both are needed at once: a close finds its volume by the
minor number, so the counter is exact only while the slot is still that volume's. The
hypothesis on `NullIDs` is the one the code needs: volume ID 0 as a pointer is NULL, so
its reservation is none, and an attach that fails would free a slot that another has
filled. With it TLC
finds each of the four violated (`NoDuplicateID` takes a third volume).

`DriverProofs` proves, for any number of requests, blocks, objects and loads:

- `PoolsAreThere`: `Spec => []PoolsOutliveUsers`;
- `NothingIsLeft`: `Spec => []NothingIsLeftBehind`;
- `OutstandingObjectsAreKnown`: `Spec => []OutstandingIsKnown`.

`PoolInv` is inductive: `LoadInv` says which steps of a load or an unload have every pool
(`PoolsAreUp`: the pools are the first that `Init_All_Modules` starts and the last that
`Release_All_Modules` stops) and that the receivers of the datanodes stop while they do;
`WorkInv` says that a request is at work only while the disk is open, which holds the
module, and that what an unload still meets is a late answer.

`LeftInv` says, as long as no cause of a remainder is recorded, that the caches are those
of the pools that are up, and at each step of a load, a rollback or an unload which pools
these are (`Ordered`) and that no manager, device or open file is left before them or
after them (`NoneRuns`). `ObjectsInv` counts: the blocks in use are those the requests
hold, the tags in use those of the requests that are sent or ended, and the lists,
IO_Requests and metadata in use are those of all volumes and requests that have come so
far as to take one (`Counted`); the reserve of a pool is whole when none of its objects is
in use (`Reserved`). It is inductive only together with `PoolInv`: an object is taken and
given back while its pool is up. At an unload no request is on its way to its objects,
which makes the counts those of `OutstandingIsKnown`.

`ConnectionManagerProofs` proves, for any number of containers, addresses, sockets,
callers, workers and retries and any size of the table, from the assumption that the
values of the different kinds are distinct and the sizes are natural numbers:

- `TypesAreKept`: `Spec => []TypeOK`;
- `AddressesAreUnique`: `Spec => []OneContainerPerAddress`;
- `OneThreadReleases`: `Spec => []ReleasedByOne`;
- `SocketIsKept`: `Spec => []HandlerKeepsSocket`;
- `KnownStalls`: `Spec => []StallsAreKnown`;
- `DeadlocksAreKnown`: `Spec => []DeadlockIsKnown`.

The invariants are stacked, each inductive with those before it. `TypeInv` says what a
thread has at each control point. `TabInv`: nobody has a container that was never built
or that its builder has just allocated (`Fresh`, `Newcomer`), entries of the table have
different addresses (`Distinct`), what a thread releases has left the table (`Released`)
and what is in the table is live until the manager goes (`InUse`). One releaser follows,
since a thread gets what it releases by taking it out of the table in one step under
`dms_nodes_lock` (`TakesFromTable`). `SockInv`: a socket in a container is that
container's alone and not released (`Owned`), and the handler past its lock has the lock
and a connected socket (`Locked`, `Linked`); so whoever wants the socket waits. `PlaceInv`:
a container that has work, a socket's callback or a thread at it is in the table at the
index it knows, or is being released; otherwise a handler that gives up would not find
what it should release. With it `NeedIsAnswered` is inductive: a live container that
is BUILDING, or about to be, with a socket that could be connected has its work queued,
or a thread committed to it, or was missed. `WaitInv` says who holds a lock: the lock of a
container is held by a handler between its connect and its end, which never waits
(`Holder`), and `dms_nodes_lock`, from one step to the next, by a thread that releases
the manager and has not come to the work queue yet (`Holding`). So when every thread
waits, no container is locked, and each waits for `dms_nodes_lock` or for a flush
(`WhoWaits`); a flush waits for a worker, and a worker that waits is one that gives up.

Two of these proofs changed a property. `StallsAreKnown` had one exception, the
handler that ran too early, and held in a run with two sockets. The step the proof could
not make was a rebuild that finds BUILDING where it stored INIT, and TLC then found the
stall with three sockets. The exception is now part of the property (`missed`), and the
run has three sockets. `DeadlockIsKnown` had only the release of the manager as an
exception, which is right for one worker. The proof asked for whom a handler that flushes
waits when nobody releases the manager: for another one that flushes. TLC follows the way
there with two containers, six sockets and three workers, in 126 steps: a connection is
lost twice, in two steps of its TCP state, so that two rebuilds of one container overlap
and its work is queued again while a handler gives it up, and then the same happens to
the second container. An instance of that size is too large to explore, so this part of
the property is proved and not covered by the run. It says what waits with `Waits`, lock
by lock, and not with `ENABLED`, which is beyond the prover; TLC finds the two equal for
every busy thread in all states without a fault of the runs `connections` and `rebuild`.

`DIORequestProofs` proves, for requests of any length from any block, any width of an
allocation word and any cut of the namenode into located requests:

- `RequestTypeCorrect`: `Spec => []TypeOK`;
- `RequestIsPartitioned`: `Spec => []DiosPartitionRequest`;
- `CutsAreRuns`: `Spec => []CutIsLongestRun`;
- `DiosEndWithLastCommit`: `Spec => []DioEndsWithLastCommit`.

The model computes with three recursive functions: the run of `Get_Continuous_Range`,
the list of `Generate_All_LogicalBlocks` and the walk of `Commit_LB_List_by_Range`. The
induction theorems of the library take an operator, which the provers cannot
instantiate, but that a well-founded relation has minimal elements (`WFMin`) is about
sets: it gives `LeastNumber`, that a set of numbers has a least element, and
`SetInduction`. A recursive function is a `CHOOSE` of a solution of its equation, so each
needs two facts: a solution exists, which is given explicitly, and every solution has the
value claimed, since there is no least number at which it has not. The lemmas say what
the code computes: `ContinuousRange` (the run from a block ends where the kind of the
blocks changes or the request ends, over any number of words), `AllBlocks`,
`FirstBlocks`, `CommitFront` and `CommitBack` (a range at either end of a list without
gaps is taken out, and nothing else).

`CutInv` is inductive: the dios follow each other from the start of the request (`Chain`)
to what is still to be cut (`Front`), each of a write is a run (`Runs`), and what is left
of the list of a dio is what is left of its located requests (`Lists`). For the proof
`Commit_LB_List_by_Range` was written as the walk it is in the code, which keeps or takes
out each block as it meets it.

`ListProofs` proves of `LogicalBlockWalk`, for any finite set of positive blocks, any tags
and any number of senders beside the walk of the iterator:

- `ListIsSorted`: `Spec => [](TypeOK /\ IsList(list) /\ On \cap Gone = {})`;
- `ReadersFaultOnlyUnderRemoval`: `Spec => []FaultNeedsRemoval`;
- `MissedBlocksAreGone`: `Spec => []MissedIsGone`.

First come the lemmas on the list itself, which hold for every sorted list: `Inserted`
(the insertion sort keeps it sorted and adds the block and nothing else), `Committed` (the
walk of `Commit_LB_List_by_Range` leaves a sorted part of the list; its two recursive
functions are solved as those of `DIORequestProofs` are), `Removed`, `PositionOf` and
`FirstIsLeast`. `WalkInv` adds the readers: one under whom nothing was removed stands at a
linked LBMD (`StandsOn`), and the search of a sender never starts behind the block it looks
for (`Finds`), so a block it does not find is no longer in the list; every block of its tag
is in the list or given back. `Without` and `NextOf` are written with the position of the
block, as the code goes by addresses.

`UserDaemonProofs` proves, for any number of threads, volumes, connections and starts:

- `ListFollows`: `Spec => []ListFollowsDriver`;
- `FaultsNeedClash`: `Spec => []FaultNeedsClash`.

`DaemonInv` speaks of runs without a clash. Then at most one thread is *deep*, past what it
first reads of the list, and no other can step without a clash. There is a set of nodes
that is the list (`Ordered`): since nodes are appended in the order of their allocation and
never moved, the list is ascending, each volume once, with `list_last` at its end. With
no deep thread the list ends in NULL, and list, driver and file agree but for `unsynced`
(`Calm`); for a deep
one, `Fits` says at each control point what is missing: the volume the driver has and the
list has not yet, the node that is linked and not yet filled, the element to be taken out.
`Chain`, the walk of `QueryAttachInfo` and the others, is a recursive function; `ChainIsList`
shows that it meets this set in its order and stops at `list_last`, so no walk ever meets
what `malloc` left. `Count` keeps a node in reserve for every command under way.

`NamenodeLinkProofs` proves, for any DMS_IOs, any requests, any number of losses and any
answers that fit into their fields (`RequestAssumption`, `AnswersAssumption`):

- `Invariant`: `Spec => []LinkInv`;
- `ParserIsExact`: `Spec => []DmetaIsTheAnswer`;
- `MixUpsNeedOverlap`: `Spec => []MixUpNeedsOverlap`.

`LinkInv` is inductive and has four parts. `TypeInv` gives the types. `OnTheWay`: every
answer under way, in the receiver's hands or linked to a DMS_IO is what `answered` has
for that DMS_IO. This needs `OnceInv`: the header of a query is in one place only, with
its handler, on the connection, with the namenode, among the queries asked, or answered;
otherwise a second answer would overwrite `answered` while the first is on its way.
`InOrder` is for `MixUpNeedsOverlap`, and speaks of runs without an overlap. `Behind(i, d)`
says that the last header before the i-th place of what is under way is that of `d`, and
if there is none, that the namenode, should it be reading a body, reads that of `d`. Every
body stands behind its own header in this sense (`BodiesFollow`), and the next unit of a
handler that has sent its header would (`NextFollows`): the second is lost by another
header only, and that is an overlap. It says "if there is any" because a loss takes headers
away and leaves the bodies still to come: a body that no header precedes meets a namenode
that waits for one, and is not taken.

The other half is the parser. `Stands(buf, o, s)` says that the words `s` stand in a
buffer at offset `o`; `StandsParts` and `StandsFlat` take a concatenation apart, the
latter for any number of parts. Each parser then gets a lemma of one form: where the
wire form of a value stands, it reads that value and the words it takes (`ReadShort`,
`ReadInt`, `ReadLongs`, `ReadLocation`, `ReadLocations`, `ReadRequest`, `ReadRequests`,
`ReadResponse`). The loops are recursive functions, solved as in `DIORequestProofs`. A
located request without a location makes the parse fail, so nothing is claimed of such
an answer but that it is dropped.

Three details of the model are there because of these proofs: without the carries, the
unsigned half and the width of the block counter, `DmetaIsTheAnswer` could be stated for
small numbers only.

Only model-checked: the fairness in `ImplementsFairBlockRequest` and the liveness
properties, which are beyond the prover, and the three properties of `MetadataCache`,
which uses `RECURSIVE` operators on trees, with which the SMT prover cannot be used.
Type invariants are proved for `IOCommit`,
`DListWalk`, `VolumeManager`, `ConnectionManager`, `DIORequest`, `LogicalBlockWalk` and
`NamenodeLink`.

## 7. Not modelled

- `Payload.c`, `Payload_Manager.c` and `Datanode_Protocol.c` as wholes: they are not in
  the `Makefile`, and `Payload.c` does not compile. The steps the commit path depends on
  are in `IOCommit` (answers, tags), `LogicalBlockWalk` (sending of a tag) and
  `DListWalk` (the tag list).
- `Committer.c`, `IO_FSM.c`, `State_Transition.c`: unfinished, not built, not called.
- `DMS_IOCTL.c`, `DMS_Error.c`: tables of codes and texts without state.
- The unit tests: drivers of the above, read for the states they set up.
- Growing the volume table (`__Dynamic_Change_Max_Volume_Size` copies the table and
  never installs the copy; nothing calls it), I/O statistics, `/proc` files, the
  allocation words behind the stub of `Allocation_Flag.c`, and the text formats of the
  daemon and its clients.
- Seven of the twelve memory pools: six have the lives of modelled ones, one is never
  used (3.7).
- The fields of a query (only its length matters) and the bytes of the datanode protocol;
  answers of the namenode that do not fit into the arrays of a located request (3.6).
- Of the cache module: its load and unload with `volume_remove_all`, and the return value
  of `cache_update` (3.9).
