---------------------------- MODULE VolumeManager ----------------------------
(***************************************************************************)
(* The table of attached volumes, all_volumes[], and its users: ioctl      *)
(* callers that attach and detach volumes, and processes that open and     *)
(* close the disks.                                                        *)
(*                                                                         *)
(* DMS_IOCTL_Handler is the ioctl (not the unlocked_ioctl) of its file     *)
(* operations, and the kernel opens and closes block devices under the     *)
(* same lock: in the 2.6.18 kernel of the build the big kernel lock is     *)
(* held, and a thread gives it up exactly where it sleeps.  A step of an   *)
(* ioctl runs with the lock; before a step that may sleep, others may run. *)
(*                                                                         *)
(* After a dereference of something that is not a live volume the program  *)
(* may do anything: the model records it in `fault` and stops.             *)
(***************************************************************************)
EXTENDS Integers, FiniteSets

CONSTANTS
    IDs,        \* volume IDs
    NullIDs,    \* those that are NULL when cast to a pointer: the ID 0
    NSlots,     \* dms_max_nr_volumes - 1, slots count from DMS_MINOR_START = 1
    Ptrs,       \* the volumes that will be allocated, in any order
    Procs,      \* ioctl callers: the daemon has one thread per connection
    Users       \* processes that open a disk

ASSUME NSlotsAssumption == NSlots \in Nat
ASSUME DistinctAssumption ==
    /\ NullIDs \subseteq IDs
    /\ IDs \cap Ptrs = {}
    /\ "null" \notin IDs \cup Ptrs
    /\ "none" \notin Procs \cup IDs \cup Ptrs
    /\ Users \cap Procs = {}

Slots == 1..NSlots

VARIABLES
    slot,       \* all_volumes[]: NULL, a volume ID cast to a pointer, or a volume
    alloc,      \* a volume is not allocated yet, live, or released
    vol,        \* the fields of a volume
    handle,     \* the disk a user has open
    late,       \* history: those who have opened the disk of a volume, or started to detach
                \* it, while a detach of it was under way
    bkl,        \* the holder of the big kernel lock among the ioctl callers
    pc, arg, cur,   \* an ioctl caller: control point, volume ID, volume at hand
    idx,        \* ... and the slot it occupied
    nr_detach_cmds,
    fault       \* the first undefined behaviour

pvars == <<pc, arg, cur, idx>>
users == <<handle, late>>
vars == <<slot, alloc, vol, users, bkl, pvars, nr_detach_cmds, fault>>

-----------------------------------------------------------------------------
(* Plausible slips.  None is used below: with a definition replaced by its  *)
(* slip, a run finds one of its properties violated.                        *)

\* The existence check is left out.
SlipCheck_Volume_Existence(i) == FALSE

\* The slot is not freed; the index is not shifted by DMS_MINOR_START.
SlipRemove_Forgotten(s) == slot' = slot
SlipRemove_Shifted(s) == slot' = [t \in Slots |-> IF t = s - 1 THEN "null" ELSE slot[t]]

\* An open does not count.
SlipOpened(v) == vol' = vol

\* A close does not count.
SlipClosed(v) == vol' = vol

-----------------------------------------------------------------------------

\* Init_DMS_Volume, with the index __Create_Volume sets.
NewVolume(i, s) == [id |-> i, minor |-> s, attached |-> FALSE, detaching |-> FALSE,
                    opens |-> 0, up |-> FALSE]

Init ==
    /\ slot = [s \in Slots |-> "null"]
    /\ alloc = [v \in Ptrs |-> "fresh"]
    /\ vol = [v \in Ptrs |-> [id |-> "null", minor |-> 0, attached |-> FALSE,
                               detaching |-> FALSE, opens |-> 0, up |-> FALSE]]
    /\ handle = [u \in Users |-> "none"]
    /\ late = {}
    /\ bkl = "none"
    /\ pc = [p \in Procs |-> "idle"]
    /\ arg = [p \in Procs |-> "null"]
    /\ cur = [p \in Procs |-> "none"]
    /\ idx = [p \in Procs |-> 0]
    /\ nr_detach_cmds = 0
    /\ fault = "none"

-----------------------------------------------------------------------------
(* The scan of all_volumes[] by volume ID.  It stops at the first match and *)
(* reads the volumeID field of every entry that is not NULL on its way.     *)

Matches(i) == {s \in Slots : slot[s] \in Ptrs /\ vol[slot[s]].id = i}
Visited(i) == {s \in Slots : slot[s] # "null" /\ \A t \in Matches(i) : s <= t}

Check_Volume_Existence(i) == Matches(i) # {}

\* What reading a field of x runs into.
Deref(x) == CASE x \in IDs -> "placeholder"
              [] x \in Ptrs /\ alloc[x] = "released" -> "released"
              [] OTHER -> "none"

ScanFault(i) ==
    CASE \E s \in Visited(i) : Deref(slot[s]) = "placeholder" -> "placeholder"
      [] \E s \in Visited(i) : Deref(slot[s]) = "released" -> "released"
      [] OTHER -> "none"

\* The run ends in undefined behaviour f.
Crash(f) ==
    /\ f # "none"
    /\ fault' = f
    /\ UNCHANGED <<slot, alloc, vol, users, bkl, pvars, nr_detach_cmds>>

-----------------------------------------------------------------------------
(* Control of an ioctl caller.                                              *)

\* The steps before which the code may sleep: blk_init_queue and alloc_disk
\* (GFP_KERNEL), add_disk, blk_sync_queue and del_gendisk.
SleepPoints == {"create", "attach", "selfopen", "selfclose", "sync", "relsync", "del"}

Sleep(p) ==
    /\ fault = "none"
    /\ bkl = p
    /\ pc[p] \in SleepPoints
    /\ bkl' = "none"
    /\ UNCHANGED <<slot, alloc, vol, users, pvars, nr_detach_cmds, fault>>

\* p is at `here` and has the lock, or gets it when it wakes up.
Runs(p, here) == fault = "none" /\ pc[p] = here /\ bkl \in {p, "none"}

Goto(p, there) == pc' = [pc EXCEPT ![p] = there] /\ bkl' = p
Return(p) ==
    /\ pc' = [pc EXCEPT ![p] = "idle"]
    /\ cur' = [cur EXCEPT ![p] = "none"]
    /\ arg' = [arg EXCEPT ![p] = "null"]
    /\ idx' = [idx EXCEPT ![p] = 0]
    /\ bkl' = "none"

Start(p) == fault = "none" /\ pc[p] = "idle" /\ bkl = "none"

\* A detach of v is under way, asleep in Sync_Disk_Queue or in del_gendisk.
BeingDetached(v) ==
    \E p \in Procs : cur[p] = v /\ pc[p] \in {"sync", "detach", "remove", "relsync", "del"}
ComesLate(x, v) == late' = IF BeingDetached(v) THEN late \cup {x} ELSE late

\* Get_Volume_ptr_by_VolumeID and Check_Volume_Existence dereference something bad.
Scan_Fault(p) ==
    /\ Start(p)
    /\ \E i \in IDs : Crash(ScanFault(i))

-----------------------------------------------------------------------------
(* DMS_Attach_Volume.                                                       *)

\* Check_Volume_Existence; a volume that is attached gives -EEXIST.
DMS_Attach_Volume(p, i) ==
    /\ Start(p)
    /\ ScanFault(i) = "none"
    /\ ~Check_Volume_Existence(i)
    /\ arg' = [arg EXCEPT ![p] = i]
    /\ Goto(p, "occupy")
    /\ UNCHANGED <<slot, alloc, vol, users, cur, idx, nr_detach_cmds, fault>>

\* __Remove_Volume_from_All_Volumes: whatever is in the slot is forgotten.
Remove_from_Slot(s) == slot' = [slot EXCEPT ![s] = "null"]

\* (struct DMS_Volume *)volumeID, what a reserved slot holds.
Placeholder(i) == IF i \in NullIDs THEN "null" ELSE i

\* __Occupy_in_All_Volumes: the first free slot, or -ATTACH_FAIL.
FreeSlots == {s \in Slots : slot[s] = "null"}
Occupy_in_All_Volumes(p) ==
    /\ Runs(p, "occupy")
    /\ \/ /\ FreeSlots = {}
          /\ Return(p)
          /\ UNCHANGED slot
       \/ \E s \in FreeSlots :
          /\ \A t \in FreeSlots : s <= t
          /\ slot' = [slot EXCEPT ![s] = Placeholder(arg[p])]
          /\ idx' = [idx EXCEPT ![p] = s]
          /\ Goto(p, "create")
          /\ UNCHANGED <<arg, cur>>
    /\ UNCHANGED <<alloc, vol, users, nr_detach_cmds, fault>>

\* __Create_Volume; when memory, queue or disk cannot be had the slot is freed,
\* whatever it holds by now.
Create_Volume(p) ==
    /\ Runs(p, "create")
    /\ \/ /\ Remove_from_Slot(idx[p])
          /\ Return(p)
          /\ UNCHANGED <<alloc, vol>>
       \/ \E v \in Ptrs :
          /\ alloc[v] = "fresh"
          /\ alloc' = [alloc EXCEPT ![v] = "live"]
          /\ vol' = [vol EXCEPT ![v] = NewVolume(arg[p], idx[p])]
          /\ cur' = [cur EXCEPT ![p] = v]
          /\ Goto(p, "insert")
          /\ UNCHANGED <<slot, arg, idx>>
    /\ UNCHANGED <<users, nr_detach_cmds, fault>>

\* __Insert_Volume_to_All_Volumes: only if the slot still holds the ID; otherwise
\* the new volume is released and the attach fails.
Insert_Volume_to_All_Volumes(p) ==
    /\ Runs(p, "insert")
    /\ IF slot[idx[p]] = Placeholder(arg[p])
       THEN slot' = [slot EXCEPT ![idx[p]] = cur[p]] /\ Goto(p, "attach")
       ELSE Goto(p, "relsync") /\ UNCHANGED slot
    /\ UNCHANGED <<alloc, vol, users, arg, cur, idx, nr_detach_cmds, fault>>

\* __Attach_Volume: ATTACHED is set, and add_disk makes the disk available.
Attach_Volume(p) ==
    /\ Runs(p, "attach")
    /\ vol' = [vol EXCEPT ![cur[p]] = [@ EXCEPT !.attached = TRUE, !.up = TRUE]]
    /\ Goto(p, "selfopen")
    /\ UNCHANGED <<slot, alloc, users, arg, cur, idx, nr_detach_cmds, fault>>

-----------------------------------------------------------------------------
(* Open_DMS_Volume and Close_DMS_Volume look the volume up by the minor     *)
(* number of the disk.                                                      *)

Opened(v) == vol' = [vol EXCEPT ![v] = [@ EXCEPT !.opens = vol[v].opens + 1]]
Closed(v) == vol' = [vol EXCEPT ![v] = [@ EXCEPT !.opens = vol[v].opens - 1]]

\* Opening or closing disk v touches the disk, then the volume in its slot.
DiskFault(v) == IF Deref(v) # "none" THEN Deref(v) ELSE Deref(slot[vol[v].minor])
CanOpen(v) == slot[vol[v].minor] \in Ptrs /\ ~vol[slot[vol[v].minor]].detaching

\* add_disk opens the new disk to read its partitions; the caller ignores failure.
Self_Open(p) ==
    LET v == cur[p] IN
    /\ Runs(p, "selfopen")
    /\ DiskFault(v) = "none"
    /\ IF CanOpen(v)
       THEN Opened(slot[vol[v].minor]) /\ Goto(p, "selfclose") /\ UNCHANGED <<arg, cur, idx>>
       ELSE Return(p) /\ UNCHANGED vol
    /\ ComesLate(p, v)
    /\ UNCHANGED <<slot, alloc, handle, nr_detach_cmds, fault>>

\* ... and closes it; the attach is done.
Self_Close(p) ==
    LET v == cur[p] IN
    /\ Runs(p, "selfclose")
    /\ DiskFault(v) = "none"
    /\ IF slot[vol[v].minor] \in Ptrs THEN Closed(slot[vol[v].minor]) ELSE UNCHANGED vol
    /\ Return(p)
    /\ UNCHANGED <<slot, alloc, users, nr_detach_cmds, fault>>

\* The kernel finds a disk by its minor number; of two disks with the same one,
\* the newer, which is the one in the table.
Reachable(v) ==
    LET w == slot[vol[v].minor] IN
    /\ alloc[v] = "live" /\ vol[v].up
    /\ w # v => ~(w \in Ptrs /\ vol[w].up)

Open_DMS_Volume(u, v) ==
    /\ fault = "none" /\ bkl = "none"
    /\ handle[u] = "none"
    /\ Reachable(v)
    /\ DiskFault(v) = "none"
    /\ CanOpen(v)
    /\ Opened(slot[vol[v].minor])
    /\ handle' = [handle EXCEPT ![u] = v]
    /\ ComesLate(u, v)
    /\ UNCHANGED <<slot, alloc, bkl, pvars, nr_detach_cmds, fault>>

Close_DMS_Volume(u) ==
    LET v == handle[u] IN
    /\ fault = "none" /\ bkl = "none"
    /\ v # "none"
    /\ DiskFault(v) = "none"
    /\ IF slot[vol[v].minor] \in Ptrs THEN Closed(slot[vol[v].minor]) ELSE UNCHANGED vol
    /\ handle' = [handle EXCEPT ![u] = "none"]
    /\ UNCHANGED <<slot, alloc, late, bkl, pvars, nr_detach_cmds, fault>>

\* An open or a close runs into undefined behaviour.
Disk_Fault ==
    /\ fault = "none"
    /\ \/ /\ bkl = "none"
          /\ \/ \E v \in Ptrs : Reachable(v) /\ Crash(DiskFault(v))
             \/ \E u \in Users : handle[u] # "none" /\ Crash(DiskFault(handle[u]))
       \/ \E p \in Procs :
             /\ Runs(p, "selfopen") \/ Runs(p, "selfclose")
             /\ Crash(DiskFault(cur[p]))

-----------------------------------------------------------------------------
(* DMS_Detach_Volume.                                                       *)

\* Get_Volume_ptr_by_VolumeID (none: -ENODEV), then the open counter (open: -EBUSY).
DMS_Detach_Volume(p, i) ==
    /\ Start(p)
    /\ ScanFault(i) = "none"
    /\ \E s \in Matches(i) :
          /\ \A t \in Matches(i) : s <= t
          /\ vol[slot[s]].opens = 0
          /\ cur' = [cur EXCEPT ![p] = slot[s]]
          /\ ComesLate(p, slot[s])
    /\ arg' = [arg EXCEPT ![p] = i]
    /\ Goto(p, "sync")
    /\ UNCHANGED <<slot, alloc, vol, handle, idx, nr_detach_cmds, fault>>

\* A step that uses the volume at hand.
Uses(p, here) == Runs(p, here) /\ Deref(cur[p]) = "none"

\* __Detach_Volume: Sync_Disk_Queue, then __Detach_Volume_Prep.
Detach_Volume_Prep(p) ==
    /\ Uses(p, "sync")
    /\ nr_detach_cmds' = nr_detach_cmds + 1
    /\ vol' = [vol EXCEPT ![cur[p]] = [@ EXCEPT !.detaching = TRUE]]
    /\ Goto(p, "detach")
    /\ UNCHANGED <<slot, alloc, users, arg, cur, idx, fault>>

\* The rest of __Detach_Volume: SET_DS_NOT_ATTACH clears both bits.
Detach_Volume(p) ==
    /\ Uses(p, "detach")
    /\ vol' = [vol EXCEPT ![cur[p]] = [@ EXCEPT !.attached = FALSE, !.detaching = FALSE]]
    /\ nr_detach_cmds' = nr_detach_cmds - 1
    /\ Goto(p, "remove")
    /\ UNCHANGED <<slot, alloc, users, arg, cur, idx, fault>>

\* Remove_and_Release_DMS_Volume takes the volume out of the table.
Remove_Volume_from_All_Volumes(p) ==
    /\ Uses(p, "remove")
    /\ Remove_from_Slot(vol[cur[p]].minor)
    /\ Goto(p, "relsync")
    /\ UNCHANGED <<alloc, vol, users, arg, cur, idx, nr_detach_cmds, fault>>

\* __Release_Kernel_Device_Structure: Sync_Disk_Queue, then del_gendisk if the
\* disk was added.
Release_Kernel_Device_Structure(p) ==
    /\ Uses(p, "relsync")
    /\ Goto(p, "del")
    /\ UNCHANGED <<slot, alloc, vol, users, arg, cur, idx, nr_detach_cmds, fault>>

\* After del_gendisk the disk, the queue and the volume are freed.
Release_Volume(p) ==
    /\ Uses(p, "del")
    /\ vol' = [vol EXCEPT ![cur[p]] = [@ EXCEPT !.up = FALSE]]
    /\ alloc' = [alloc EXCEPT ![cur[p]] = "released"]
    /\ Return(p)
    /\ UNCHANGED <<slot, users, nr_detach_cmds, fault>>

\* A detach goes on with a volume that another one has released.
Detach_Fault(p) ==
    /\ Runs(p, pc[p]) /\ pc[p] \in {"sync", "detach", "remove", "relsync", "del"}
    /\ Crash(Deref(cur[p]))

-----------------------------------------------------------------------------

Create_and_Insert_DMS_Volume(p) ==
    \/ Occupy_in_All_Volumes(p)
    \/ Create_Volume(p)
    \/ Insert_Volume_to_All_Volumes(p)

Step(p) ==
    \/ Create_and_Insert_DMS_Volume(p)
    \/ Attach_Volume(p)
    \/ Self_Open(p)
    \/ Self_Close(p)
    \/ Detach_Volume_Prep(p)
    \/ Detach_Volume(p)
    \/ Remove_Volume_from_All_Volumes(p)
    \/ Release_Kernel_Device_Structure(p)
    \/ Release_Volume(p)
    \/ Detach_Fault(p)

Next ==
    \/ \E p \in Procs :
          \/ \E i \in IDs : DMS_Attach_Volume(p, i) \/ DMS_Detach_Volume(p, i)
          \/ Scan_Fault(p)
          \/ Sleep(p)
          \/ Step(p)
    \/ \E u \in Users :
          \/ \E v \in Ptrs : Open_DMS_Volume(u, v)
          \/ Close_DMS_Volume(u)
    \/ Disk_Fault

Spec == Init /\ [][Next]_vars

-----------------------------------------------------------------------------
(* Properties.  Those that are not about `fault` speak of runs up to the    *)
(* first undefined behaviour.                                               *)

VolumeType == [id : {"null"} \cup IDs, minor : Slots \cup {0}, attached : BOOLEAN,
               detaching : BOOLEAN, opens : Int, up : BOOLEAN]

TypeOK ==
    /\ slot \in [Slots -> {"null"} \cup IDs \cup Ptrs]
    /\ alloc \in [Ptrs -> {"fresh", "live", "released"}]
    /\ vol \in [Ptrs -> VolumeType]
    /\ handle \in [Users -> {"none"} \cup Ptrs]
    /\ late \subseteq Users \cup Procs
    /\ bkl \in {"none"} \cup Procs
    /\ pc \in [Procs -> {"idle", "occupy", "create", "insert", "attach", "selfopen",
                         "selfclose", "sync", "detach", "remove", "relsync", "del"}]
    /\ arg \in [Procs -> {"null"} \cup IDs]
    /\ cur \in [Procs -> {"none"} \cup Ptrs]
    /\ idx \in [Procs -> Slots \cup {0}]
    /\ nr_detach_cmds \in Int
    /\ fault \in {"none", "placeholder", "released"}

\* "Don't attach it again": no volume ID is in the table twice, as a volume or as
\* a reserved slot, although the existence check and the reservation are two steps.
EntryID(s) == IF slot[s] \in Ptrs THEN vol[slot[s]].id ELSE slot[s]
NoDuplicateID ==
    \A s, t \in Slots : slot[s] # "null" /\ EntryID(s) = EntryID(t) => s = t

\* all_volumes[] never holds a released volume, and a volume only in its own slot.
TableHoldsLiveVolumes ==
    \A s \in Slots : slot[s] \in Ptrs =>
        alloc[slot[s]] = "live" /\ vol[slot[s]].minor = s

\* A reserved slot belongs to an attach that is still going to fill or free it: no
\* failure leaks one of the dms_max_nr_volumes slots.
ReservationHasOwner ==
    \A s \in Slots : slot[s] \in IDs =>
        \E p \in Procs : pc[p] \in {"create", "insert"} /\ idx[p] = s /\ arg[p] = slot[s]

\* A live volume can be found in the table, or someone is about to publish or release
\* it, until two detaches of one volume overlap: the second frees the slot again, which
\* may be another volume's by then.
NoLostVolume ==
    late \cap Procs = {} => \A v \in Ptrs : alloc[v] = "live" =>
        slot[vol[v].minor] = v \/ \E p \in Procs : cur[p] = v

\* "decrease the open counter": the counter that decides about -EBUSY is the number
\* of opens of the disk that have not been closed, until a disk is opened, or detached
\* again, while its detach sleeps: then its minor number may be another volume's by the
\* time it is closed.
OpenersOf(v) == {u \in Users : handle[u] = v}
SelfOpens(v) == {p \in Procs : cur[p] = v /\ pc[p] = "selfclose"}
OpenCounterIsExact ==
    late = {} => \A s \in Slots : slot[s] \in Ptrs =>
        vol[slot[s]].opens = Cardinality(OpenersOf(slot[s])) + Cardinality(SelfOpens(slot[s]))

\* "Device or resource busy": a volume is not released under a user who had it open
\* when the detach looked at its open counter; only one who opens it while the detach
\* sleeps loses it, or one whose volume a second detach has let slip out of the table.
OpenVolumeIsKept ==
    late = {} => \A u \in Users : handle[u] # "none" => alloc[handle[u]] = "live"
=============================================================================
