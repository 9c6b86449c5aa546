------------------------- MODULE VolumeManagerProofs -------------------------
(***************************************************************************)
(* Proofs about the table of volumes, for any number of slots, volumes,    *)
(* ioctl callers and users.                                                *)
(***************************************************************************)
EXTENDS VolumeManager, FiniteSetTheorems, TLAPS

-----------------------------------------------------------------------------
(* Types.                                                                   *)

\* What a caller has at hand at its control point.
AtHand ==
    \A p \in Procs :
        /\ pc[p] \in {"occupy", "create", "insert"} => arg[p] \in IDs
        /\ pc[p] \in {"create", "insert"} => idx[p] \in Slots
        /\ pc[p] = "insert" => cur[p] \in Ptrs

\* What can be found when a pointer is dereferenced.
LEMMA DerefType ==
  ASSUME NEW x PROVE Deref(x) \in {"none", "placeholder", "released"}
BY DEF Deref

LEMMA ScanFaultType ==
  ASSUME NEW i PROVE ScanFault(i) \in {"none", "placeholder", "released"}
BY DEF ScanFault

LEMMA DiskFaultType ==
  ASSUME NEW v PROVE DiskFault(v) \in {"none", "placeholder", "released"}
BY DerefType DEF DiskFault

\* A run that ends in undefined behaviour is well typed.
LEMMA CrashKeepsTypes ==
  ASSUME TypeOK /\ AtHand, NEW f \in {"none", "placeholder", "released"}, Crash(f)
  PROVE  (TypeOK /\ AtHand)'
BY DEF Crash, TypeOK, AtHand, users, pvars

\* A step that sets fields of one volume keeps the type of all volumes.
LEMMA FieldsKeepType ==
  ASSUME NEW r \in VolumeType
  PROVE  /\ \A n \in Int : [r EXCEPT !.opens = n] \in VolumeType
         /\ [r EXCEPT !.attached = TRUE, !.up = TRUE] \in VolumeType
         /\ [r EXCEPT !.detaching = TRUE] \in VolumeType
         /\ [r EXCEPT !.attached = FALSE, !.detaching = FALSE] \in VolumeType
         /\ [r EXCEPT !.up = FALSE] \in VolumeType
         /\ r.opens + 1 \in Int /\ r.opens - 1 \in Int
<1>1. \A n \in Int : [r EXCEPT !.opens = n] \in VolumeType
  BY DEF VolumeType
<1>2. [r EXCEPT !.attached = TRUE, !.up = TRUE] \in VolumeType
  BY DEF VolumeType
<1>3. [r EXCEPT !.detaching = TRUE] \in VolumeType
  BY DEF VolumeType
<1>4. [r EXCEPT !.attached = FALSE, !.detaching = FALSE] \in VolumeType
  BY DEF VolumeType
<1>5. [r EXCEPT !.up = FALSE] \in VolumeType
  BY DEF VolumeType
<1>6. r.opens \in Int
  BY DEF VolumeType
<1>7. QED
  BY <1>1, <1>2, <1>3, <1>4, <1>5, <1>6

LEMMA SetFieldsKeepsTypes ==
  ASSUME TypeOK, NEW v, v \in Ptrs => vol'[v] \in VolumeType,
         NEW w, vol' = [vol EXCEPT ![v] = w]
  PROVE  vol' \in [Ptrs -> VolumeType]
BY DEF TypeOK

LEMMA VolumeSteps ==
  ASSUME TypeOK /\ AtHand, NEW p \in Procs,
         \/ Attach_Volume(p)
         \/ Detach_Volume_Prep(p)
         \/ Detach_Volume(p)
         \/ Release_Volume(p)
  PROVE  vol' \in [Ptrs -> VolumeType]
<1>1. \A v \in Ptrs : vol[v] \in VolumeType
  BY DEF TypeOK
<1>2. CASE Attach_Volume(p)
  BY <1>1, <1>2, FieldsKeepType, SetFieldsKeepsTypes DEF Attach_Volume, TypeOK
<1>3. CASE Detach_Volume_Prep(p)
  BY <1>1, <1>3, FieldsKeepType, SetFieldsKeepsTypes DEF Detach_Volume_Prep, TypeOK
<1>4. CASE Detach_Volume(p)
  BY <1>1, <1>4, FieldsKeepType, SetFieldsKeepsTypes DEF Detach_Volume, TypeOK
<1>5. CASE Release_Volume(p)
  BY <1>1, <1>5, FieldsKeepType, SetFieldsKeepsTypes DEF Release_Volume, TypeOK
<1>6. QED
  BY <1>2, <1>3, <1>4, <1>5

LEMMA CountKeepsTypes ==
  ASSUME TypeOK, NEW v \in Ptrs, Opened(v) \/ Closed(v)
  PROVE  vol' \in [Ptrs -> VolumeType]
<1>1. vol[v] \in VolumeType
  BY DEF TypeOK
<1>2. /\ [vol[v] EXCEPT !.opens = vol[v].opens + 1] \in VolumeType
      /\ [vol[v] EXCEPT !.opens = vol[v].opens - 1] \in VolumeType
  BY <1>1, FieldsKeepType
<1>3. vol'[v] \in VolumeType
  BY <1>2 DEF Opened, Closed, TypeOK
<1>4. QED
  BY <1>3, SetFieldsKeepsTypes DEF Opened, Closed

\* The steps of an attach.
LEMMA AttachKeepsTypes ==
  ASSUME TypeOK /\ AtHand, NEW p \in Procs,
         \/ \E i \in IDs : DMS_Attach_Volume(p, i)
         \/ Create_and_Insert_DMS_Volume(p)
         \/ Attach_Volume(p)
         \/ Self_Open(p)
         \/ Self_Close(p)
  PROVE  (TypeOK /\ AtHand)'
<1>1. CASE \E i \in IDs : DMS_Attach_Volume(p, i)
  BY <1>1 DEF DMS_Attach_Volume, Start, Goto, users, TypeOK, AtHand
<1>2. CASE Occupy_in_All_Volumes(p)
  <2>1. Placeholder(arg[p]) \in {"null"} \cup IDs
    BY <1>2 DEF Occupy_in_All_Volumes, Runs, Placeholder, AtHand
  <2>2. QED
    BY <1>2, <2>1
    DEF Occupy_in_All_Volumes, Runs, FreeSlots, Goto, Return, users, TypeOK, AtHand
<1>3. CASE Create_Volume(p)
  <2>1. CASE Remove_from_Slot(idx[p]) /\ Return(p) /\ UNCHANGED <<alloc, vol>>
    BY <1>3, <2>1
    DEF Create_Volume, Runs, Return, Remove_from_Slot, users, TypeOK, AtHand
  <2>2. CASE \E v \in Ptrs :
               /\ alloc' = [alloc EXCEPT ![v] = "live"]
               /\ vol' = [vol EXCEPT ![v] = NewVolume(arg[p], idx[p])]
               /\ cur' = [cur EXCEPT ![p] = v]
               /\ Goto(p, "insert")
               /\ UNCHANGED <<slot, arg, idx>>
    <3>1. NewVolume(arg[p], idx[p]) \in VolumeType
      BY DEF NewVolume, VolumeType, TypeOK
    <3>2. QED
      BY <1>3, <2>2, <3>1 DEF Create_Volume, Runs, Goto, users, TypeOK, AtHand
  <2>3. QED
    BY <1>3, <2>1, <2>2 DEF Create_Volume
<1>4. CASE Insert_Volume_to_All_Volumes(p)
  BY <1>4 DEF Insert_Volume_to_All_Volumes, Runs, Goto, users, TypeOK, AtHand
<1>5. CASE Attach_Volume(p)
  <2>1. vol' \in [Ptrs -> VolumeType]
    BY <1>5, VolumeSteps
  <2>2. QED
    BY <1>5, <2>1 DEF Attach_Volume, Runs, Goto, users, TypeOK, AtHand
<1>6. CASE Self_Open(p)
  <2>1. late' \subseteq Users \cup Procs
    BY <1>6 DEF Self_Open, ComesLate, TypeOK
  <2>2. CASE CanOpen(cur[p])
    <3>1. vol' \in [Ptrs -> VolumeType]
      BY <1>6, <2>2, CountKeepsTypes DEF Self_Open, CanOpen
    <3>2. QED
      BY <1>6, <2>1, <2>2, <3>1 DEF Self_Open, Runs, Goto, users, TypeOK, AtHand
  <2>3. CASE ~CanOpen(cur[p])
    BY <1>6, <2>1, <2>3 DEF Self_Open, Runs, Return, users, TypeOK, AtHand
  <2>4. QED
    BY <2>2, <2>3
<1>7. CASE Self_Close(p)
  <2>1. vol' \in [Ptrs -> VolumeType]
    BY <1>7, CountKeepsTypes DEF Self_Close, TypeOK
  <2>2. QED
    BY <1>7, <2>1 DEF Self_Close, Runs, Return, users, TypeOK, AtHand
<1>8. QED
  BY <1>1, <1>2, <1>3, <1>4, <1>5, <1>6, <1>7 DEF Create_and_Insert_DMS_Volume

\* The steps of a detach.
LEMMA DetachKeepsTypes ==
  ASSUME TypeOK /\ AtHand, NEW p \in Procs,
         \/ \E i \in IDs : DMS_Detach_Volume(p, i)
         \/ Detach_Volume_Prep(p)
         \/ Detach_Volume(p)
         \/ Remove_Volume_from_All_Volumes(p)
         \/ Release_Kernel_Device_Structure(p)
         \/ Release_Volume(p)
  PROVE  (TypeOK /\ AtHand)'
<1>1. CASE \E i \in IDs : DMS_Detach_Volume(p, i)
  <2>1. late' \subseteq Users \cup Procs
    BY <1>1 DEF DMS_Detach_Volume, ComesLate, TypeOK
  <2>2. QED
    BY <1>1, <2>1 DEF DMS_Detach_Volume, Matches, Start, Goto, TypeOK, AtHand
<1>2. CASE Detach_Volume_Prep(p)
  <2>1. vol' \in [Ptrs -> VolumeType]
    BY <1>2, VolumeSteps
  <2>2. QED
    BY <1>2, <2>1 DEF Detach_Volume_Prep, Uses, Runs, Goto, users, TypeOK, AtHand
<1>3. CASE Detach_Volume(p)
  <2>1. vol' \in [Ptrs -> VolumeType]
    BY <1>3, VolumeSteps
  <2>2. QED
    BY <1>3, <2>1 DEF Detach_Volume, Uses, Runs, Goto, users, TypeOK, AtHand
<1>4. CASE Remove_Volume_from_All_Volumes(p)
  BY <1>4
  DEF Remove_Volume_from_All_Volumes, Remove_from_Slot, Uses, Runs, Goto, users, TypeOK, AtHand
<1>5. CASE Release_Kernel_Device_Structure(p)
  BY <1>5 DEF Release_Kernel_Device_Structure, Uses, Runs, Goto, users, TypeOK, AtHand
<1>6. CASE Release_Volume(p)
  <2>1. vol' \in [Ptrs -> VolumeType]
    BY <1>6, VolumeSteps
  <2>2. QED
    BY <1>6, <2>1 DEF Release_Volume, Uses, Runs, Return, users, TypeOK, AtHand
<1>7. QED
  BY <1>1, <1>2, <1>3, <1>4, <1>5, <1>6

\* The steps of a user, and of the lock.
LEMMA UserKeepsTypes ==
  ASSUME TypeOK /\ AtHand,
         \/ \E p \in Procs : Sleep(p)
         \/ \E u \in Users, v \in Ptrs : Open_DMS_Volume(u, v)
         \/ \E u \in Users : Close_DMS_Volume(u)
  PROVE  (TypeOK /\ AtHand)'
<1>1. CASE \E p \in Procs : Sleep(p)
  BY <1>1 DEF Sleep, users, pvars, TypeOK, AtHand
<1>2. ASSUME NEW u \in Users, NEW v \in Ptrs, Open_DMS_Volume(u, v)
      PROVE  (TypeOK /\ AtHand)'
  <2>1. late' \subseteq Users \cup Procs
    BY <1>2 DEF Open_DMS_Volume, ComesLate, TypeOK
  <2>2. vol' \in [Ptrs -> VolumeType]
    BY <1>2, CountKeepsTypes DEF Open_DMS_Volume, CanOpen
  <2>3. QED
    BY <1>2, <2>1, <2>2 DEF Open_DMS_Volume, pvars, TypeOK, AtHand
<1>3. ASSUME NEW u \in Users, Close_DMS_Volume(u)
      PROVE  (TypeOK /\ AtHand)'
  <2>1. vol' \in [Ptrs -> VolumeType]
    BY <1>3, CountKeepsTypes DEF Close_DMS_Volume, TypeOK
  <2>2. QED
    BY <1>3, <2>1 DEF Close_DMS_Volume, pvars, TypeOK, AtHand
<1>4. QED
  BY <1>1, <1>2, <1>3

LEMMA InitTypes == Init => TypeOK /\ AtHand
<1> SUFFICES ASSUME Init PROVE TypeOK /\ AtHand
  OBVIOUS
<1>1. vol \in [Ptrs -> VolumeType]
  BY DEF Init, VolumeType
<1>2. QED
  BY <1>1 DEF Init, TypeOK, AtHand

LEMMA NextKeepsTypes == TypeOK /\ AtHand /\ [Next]_vars => (TypeOK /\ AtHand)'
<1> SUFFICES ASSUME TypeOK /\ AtHand, [Next]_vars PROVE (TypeOK /\ AtHand)'
  OBVIOUS
<1>1. CASE UNCHANGED vars
  BY <1>1 DEF vars, users, pvars, TypeOK, AtHand
<1>2. CASE \E p \in Procs : Scan_Fault(p)
  BY <1>2, ScanFaultType, CrashKeepsTypes DEF Scan_Fault
<1>3. CASE \E p \in Procs : Detach_Fault(p)
  BY <1>3, DerefType, CrashKeepsTypes DEF Detach_Fault
<1>4. CASE Disk_Fault
  BY <1>4, DiskFaultType, CrashKeepsTypes DEF Disk_Fault
<1>5. QED
  BY <1>1, <1>2, <1>3, <1>4, AttachKeepsTypes, DetachKeepsTypes, UserKeepsTypes DEF Next, Step

\* Every reachable state is well typed: the table holds NULL, IDs and volumes, and a
\* volume is in a slot of the table.
THEOREM TypesAreKept == Spec => [](TypeOK /\ AtHand)
<1>1. Init => TypeOK /\ AtHand
  BY InitTypes
<1>2. TypeOK /\ AtHand /\ [Next]_vars => (TypeOK /\ AtHand)'
  BY NextKeepsTypes
<1>3. QED
  BY <1>1, <1>2, PTL DEF Spec
-----------------------------------------------------------------------------
(* The table.                                                               *)

\* Who holds a volume the table does not have: an attach that has made it and not yet
\* published it, alone, and the detaches that have taken it out.
Holders ==
    \A p \in Procs :
        /\ cur[p] \in Ptrs => alloc[cur[p]] # "fresh"
        /\ pc[p] = "insert" =>
              /\ alloc[cur[p]] = "live"
              /\ vol[cur[p]].minor = idx[p] /\ vol[cur[p]].id = arg[p]
              /\ \A q \in Procs \ {p} : cur[q] # cur[p]
        /\ pc[p] \in {"insert", "relsync", "del"} =>
              \A s \in Slots : slot[s] # cur[p]

\* A reserved slot never holds an ID that a reservation would not show.
VisibleIDs == \A s \in Slots : slot[s] \in IDs => slot[s] \notin NullIDs

TableInv == TypeOK /\ AtHand /\ Holders /\ TableHoldsLiveVolumes /\ VisibleIDs /\ ReservationHasOwner

\* A caller whose step neither begins nor ends its hold on a slot or on a volume that the
\* table does not have; a volume it takes up is one of the table.
Quiet(p) ==
    \/ pc'[p] = pc[p] /\ cur'[p] = cur[p] /\ arg'[p] = arg[p] /\ idx'[p] = idx[p]
    \/ /\ pc[p] \notin {"create", "insert"} /\ pc'[p] \notin {"create", "insert"}
       /\ \/ cur'[p] \in {cur[p], "none"}
          \/ \E s \in Slots : slot[s] \in Ptrs /\ cur'[p] = slot[s]
       /\ pc'[p] \in {"relsync", "del"} => pc[p] \in {"relsync", "del"} /\ cur'[p] = cur[p]

\* A step that leaves the table alone, with quiet callers.
LEMMA QuietStep ==
  ASSUME TableInv, (TypeOK /\ AtHand)', slot' = slot, alloc' = alloc,
         \A v \in Ptrs : vol'[v].minor = vol[v].minor /\ vol'[v].id = vol[v].id,
         \A p \in Procs : Quiet(p)
  PROVE  TableInv'
<1>1. Holders'
  <2> SUFFICES ASSUME NEW p \in Procs
               PROVE  /\ cur'[p] \in Ptrs => alloc'[cur'[p]] # "fresh"
                      /\ pc'[p] = "insert" =>
                            /\ alloc'[cur'[p]] = "live"
                            /\ vol'[cur'[p]].minor = idx'[p] /\ vol'[cur'[p]].id = arg'[p]
                            /\ \A q \in Procs \ {p} : cur'[q] # cur'[p]
                      /\ pc'[p] \in {"insert", "relsync", "del"} =>
                            \A s \in Slots : slot'[s] # cur'[p]
    BY DEF Holders
  <2>1. cur'[p] \in Ptrs => alloc'[cur'[p]] # "fresh"
    BY DistinctAssumption DEF TableInv, Holders, TableHoldsLiveVolumes, Quiet
  <2>2. pc'[p] \in {"insert", "relsync", "del"} => \A s \in Slots : slot'[s] # cur'[p]
    BY DEF TableInv, Holders, Quiet
  <2>3. ASSUME pc'[p] = "insert"
        PROVE  /\ alloc'[cur'[p]] = "live"
               /\ vol'[cur'[p]].minor = idx'[p] /\ vol'[cur'[p]].id = arg'[p]
               /\ \A q \in Procs \ {p} : cur'[q] # cur'[p]
    <3>1. /\ pc[p] = "insert" /\ cur'[p] = cur[p] /\ arg'[p] = arg[p] /\ idx'[p] = idx[p]
          /\ cur[p] \in Ptrs
      BY <2>3 DEF Quiet, TableInv, AtHand
    <3>2. ASSUME NEW q \in Procs \ {p} PROVE cur'[q] # cur[p]
      BY <3>1, DistinctAssumption DEF TableInv, Holders, Quiet
    <3>3. QED
      BY <3>1, <3>2 DEF TableInv, Holders
  <2>4. QED
    BY <2>1, <2>2, <2>3
<1>2. TableHoldsLiveVolumes' /\ VisibleIDs'
  BY DEF TableInv, TypeOK, TableHoldsLiveVolumes, VisibleIDs
<1>3. ReservationHasOwner'
  BY DEF TableInv, ReservationHasOwner, Quiet
<1>4. QED
  BY <1>1, <1>2, <1>3 DEF TableInv

\* Reserving a slot.
LEMMA OccupyKeepsTable ==
  ASSUME TableInv, (TypeOK /\ AtHand)', NEW p \in Procs, Occupy_in_All_Volumes(p)
  PROVE  TableInv'
<1>1. CASE Return(p) /\ slot' = slot
  <2>1. \A q \in Procs : Quiet(q)
    BY <1>1 DEF Occupy_in_All_Volumes, Runs, Return, Quiet, TableInv, TypeOK
  <2>2. QED
    BY <1>1, <2>1, QuietStep DEF Occupy_in_All_Volumes
<1>2. ASSUME NEW s \in FreeSlots,
             slot' = [slot EXCEPT ![s] = Placeholder(arg[p])],
             idx' = [idx EXCEPT ![p] = s],
             Goto(p, "create"), UNCHANGED <<arg, cur>>
      PROVE  TableInv'
  <2>1. /\ pc[p] = "occupy" /\ arg[p] \in IDs /\ s \in Slots /\ slot[s] = "null"
        /\ UNCHANGED <<alloc, vol>> /\ slot'[s] = Placeholder(arg[p])
        /\ \A t \in Slots \ {s} : slot'[t] = slot[t]
        /\ pc'[p] = "create" /\ idx'[p] = s /\ arg' = arg /\ cur' = cur
        /\ \A q \in Procs \ {p} : pc'[q] = pc[q] /\ idx'[q] = idx[q]
    BY <1>2
    DEF Occupy_in_All_Volumes, Runs, FreeSlots, Goto, users, TableInv, AtHand, TypeOK
  <2>2. slot'[s] \in IDs \cup {"null"} /\ (slot'[s] \in IDs => slot'[s] = arg[p] /\ slot'[s] \notin NullIDs)
    BY <2>1, DistinctAssumption DEF Placeholder
  <2>3. \A q \in Procs : pc[q] \in {"insert", "relsync", "del"} => \A t \in Slots : slot'[t] # cur[q]
    <3>1. \A q \in Procs : cur[q] \in {"none"} \cup Ptrs
      BY DEF TableInv, TypeOK
    <3>2. QED
      BY <2>1, <2>2, <3>1, DistinctAssumption DEF TableInv, Holders
  <2>4. Holders'
    BY <2>1, <2>3 DEF TableInv, Holders
  <2>5. TableHoldsLiveVolumes' /\ VisibleIDs'
    BY <2>1, <2>2, DistinctAssumption DEF TableInv, TableHoldsLiveVolumes, VisibleIDs
  <2>6. ReservationHasOwner'
    BY <2>1, <2>2 DEF TableInv, ReservationHasOwner
  <2>7. QED
    BY <2>4, <2>5, <2>6 DEF TableInv
<1>3. QED
  BY <1>1, <1>2 DEF Occupy_in_All_Volumes

\* Making a volume, or giving the reserved slot back.
LEMMA CreateKeepsTable ==
  ASSUME TableInv, (TypeOK /\ AtHand)', NEW p \in Procs, Create_Volume(p)
  PROVE  TableInv'
<1>1. /\ pc[p] = "create" /\ arg[p] \in IDs /\ idx[p] \in Slots
  BY DEF Create_Volume, Runs, TableInv, AtHand
<1>2. CASE Remove_from_Slot(idx[p]) /\ Return(p) /\ UNCHANGED <<alloc, vol>>
  <2>1. /\ slot'[idx[p]] = "null" /\ \A t \in Slots \ {idx[p]} : slot'[t] = slot[t]
        /\ pc'[p] = "idle" /\ cur'[p] = "none"
        /\ \A q \in Procs \ {p} :
              pc'[q] = pc[q] /\ cur'[q] = cur[q] /\ idx'[q] = idx[q] /\ arg'[q] = arg[q]
    BY <1>1, <1>2 DEF Remove_from_Slot, Return, TableInv, TypeOK
  <2>2. \A q \in Procs : cur[q] \in {"none"} \cup Ptrs
    BY DEF TableInv, TypeOK
  <2>3. Holders'
    BY <1>1, <1>2, <2>1, <2>2, DistinctAssumption DEF TableInv, AtHand, Holders
  <2>4. TableHoldsLiveVolumes' /\ VisibleIDs'
    BY <1>1, <1>2, <2>1, DistinctAssumption DEF TableInv, TableHoldsLiveVolumes, VisibleIDs
  <2>5. ReservationHasOwner'
    BY <1>1, <2>1, DistinctAssumption DEF TableInv, ReservationHasOwner
  <2>6. QED
    BY <2>3, <2>4, <2>5 DEF TableInv
<1>3. ASSUME NEW v \in Ptrs, alloc[v] = "fresh",
             alloc' = [alloc EXCEPT ![v] = "live"],
             vol' = [vol EXCEPT ![v] = NewVolume(arg[p], idx[p])],
             cur' = [cur EXCEPT ![p] = v],
             Goto(p, "insert"), UNCHANGED <<slot, arg, idx>>
      PROVE  TableInv'
  <2>1. /\ alloc'[v] = "live" /\ vol'[v].minor = idx[p] /\ vol'[v].id = arg[p]
        /\ \A w \in Ptrs \ {v} : alloc'[w] = alloc[w] /\ vol'[w] = vol[w]
        /\ pc'[p] = "insert" /\ cur'[p] = v
        /\ \A q \in Procs \ {p} : pc'[q] = pc[q] /\ cur'[q] = cur[q]
    BY <1>1, <1>3 DEF NewVolume, Goto, TableInv, TypeOK
  <2>2. /\ \A s \in Slots : slot[s] # v
        /\ \A q \in Procs : cur[q] # v
    BY <1>3 DEF TableInv, TableHoldsLiveVolumes, Holders
  <2>3. Holders'
    BY <1>1, <1>3, <2>1, <2>2 DEF TableInv, AtHand, Holders
  <2>4. TableHoldsLiveVolumes' /\ VisibleIDs'
    BY <1>3, <2>1, <2>2 DEF TableInv, TableHoldsLiveVolumes, VisibleIDs
  <2>5. ReservationHasOwner'
    BY <1>1, <1>3, <2>1 DEF TableInv, ReservationHasOwner
  <2>6. QED
    BY <2>3, <2>4, <2>5 DEF TableInv
<1>4. QED
  BY <1>2, <1>3 DEF Create_Volume

\* Publishing a volume in the reserved slot, if the slot is still reserved.
LEMMA InsertKeepsTable ==
  ASSUME TableInv, (TypeOK /\ AtHand)', NEW p \in Procs, Insert_Volume_to_All_Volumes(p)
  PROVE  TableInv'
<1>1. /\ pc[p] = "insert" /\ arg[p] \in IDs /\ idx[p] \in Slots /\ cur[p] \in Ptrs
      /\ alloc[cur[p]] = "live" /\ vol[cur[p]].minor = idx[p]
      /\ \A q \in Procs \ {p} : cur[q] # cur[p]
      /\ \A s \in Slots : slot[s] # cur[p]
      /\ alloc' = alloc /\ vol' = vol /\ cur' = cur /\ idx' = idx /\ arg' = arg
  BY DEF Insert_Volume_to_All_Volumes, Runs, users, TableInv, AtHand, Holders
<1>2. /\ pc'[p] \in {"attach", "relsync"}
      /\ \A q \in Procs \ {p} : pc'[q] = pc[q]
  BY DEF Insert_Volume_to_All_Volumes, Goto, TableInv, TypeOK
<1>3. CASE slot[idx[p]] = Placeholder(arg[p])
  <2>1. /\ slot'[idx[p]] = cur[p] /\ \A t \in Slots \ {idx[p]} : slot'[t] = slot[t]
        /\ pc'[p] = "attach"
    BY <1>1, <1>3 DEF Insert_Volume_to_All_Volumes, Goto, TableInv, TypeOK
  <2>2. Holders'
    BY <1>1, <1>2, <2>1 DEF TableInv, Holders
  <2>3. TableHoldsLiveVolumes' /\ VisibleIDs'
    BY <1>1, <2>1, DistinctAssumption DEF TableInv, TableHoldsLiveVolumes, VisibleIDs
  <2>4. ReservationHasOwner'
    BY <1>1, <1>2, <2>1, DistinctAssumption DEF TableInv, ReservationHasOwner
  <2>5. QED
    BY <2>2, <2>3, <2>4 DEF TableInv
<1>4. CASE slot[idx[p]] # Placeholder(arg[p])
  <2>1. slot' = slot /\ pc'[p] = "relsync"
    BY <1>4 DEF Insert_Volume_to_All_Volumes, Goto, TableInv, TypeOK
  <2>2. Holders'
    BY <1>1, <1>2, <2>1 DEF TableInv, Holders
  <2>3. TableHoldsLiveVolumes' /\ VisibleIDs'
    BY <1>1, <2>1 DEF TableInv, TableHoldsLiveVolumes, VisibleIDs
  <2>4. ASSUME NEW s \in Slots, slot[s] \in IDs, idx[p] = s PROVE arg[p] # slot[s]
    BY <1>4, <2>4 DEF Placeholder, TableInv, VisibleIDs
  <2>5. ReservationHasOwner'
    BY <1>1, <1>2, <2>1, <2>4 DEF TableInv, ReservationHasOwner
  <2>6. QED
    BY <2>2, <2>3, <2>5 DEF TableInv
<1>5. QED
  BY <1>3, <1>4

\* Taking a volume out of the table.
LEMMA RemoveKeepsTable ==
  ASSUME TableInv, (TypeOK /\ AtHand)', NEW p \in Procs, Remove_Volume_from_All_Volumes(p)
  PROVE  TableInv'
<1> DEFINE m == vol[cur[p]].minor
<1>1. /\ pc[p] = "remove" /\ cur[p] \in Ptrs \cup {"none"}
      /\ pc'[p] = "relsync" /\ \A q \in Procs \ {p} : pc'[q] = pc[q]
      /\ alloc' = alloc /\ vol' = vol /\ cur' = cur /\ idx' = idx /\ arg' = arg
  BY DEF Remove_Volume_from_All_Volumes, Uses, Runs, Goto, users, TableInv, TypeOK
<1>2. \A t \in Slots : slot'[t] = IF t = m THEN "null" ELSE slot[t]
  BY DEF Remove_Volume_from_All_Volumes, Remove_from_Slot, TableInv, TypeOK
<1>3. \A t \in Slots : slot'[t] # cur[p]
  BY <1>1, <1>2, DistinctAssumption DEF TableInv, TypeOK, TableHoldsLiveVolumes
<1>4. \A q \in Procs : cur[q] \in {"none"} \cup Ptrs
  BY DEF TableInv, TypeOK
<1>5. Holders'
  BY <1>1, <1>2, <1>3, <1>4, DistinctAssumption DEF TableInv, Holders
<1>6. TableHoldsLiveVolumes' /\ VisibleIDs'
  BY <1>1, <1>2, DistinctAssumption DEF TableInv, TableHoldsLiveVolumes, VisibleIDs
<1>7. ReservationHasOwner'
  BY <1>1, <1>2, DistinctAssumption DEF TableInv, ReservationHasOwner
<1>8. QED
  BY <1>5, <1>6, <1>7 DEF TableInv

\* Freeing a volume.
LEMMA ReleaseKeepsTable ==
  ASSUME TableInv, (TypeOK /\ AtHand)', NEW p \in Procs, Release_Volume(p)
  PROVE  TableInv'
<1>1. /\ pc[p] = "del" /\ cur[p] \in {"none"} \cup Ptrs /\ slot' = slot
      /\ pc'[p] = "idle" /\ cur'[p] = "none"
      /\ \A s \in Slots : slot[s] # cur[p]
      /\ \A q \in Procs \ {p} :
            pc'[q] = pc[q] /\ cur'[q] = cur[q] /\ idx'[q] = idx[q] /\ arg'[q] = arg[q]
  BY DEF Release_Volume, Uses, Runs, Return, users, TableInv, Holders, TypeOK
<1>2. /\ \A v \in Ptrs : alloc'[v] = IF v = cur[p] THEN "released" ELSE alloc[v]
      /\ \A v \in Ptrs : vol'[v].minor = vol[v].minor /\ vol'[v].id = vol[v].id
  BY DEF Release_Volume, TableInv, TypeOK, VolumeType
<1>3. Holders'
  BY <1>1, <1>2, DistinctAssumption DEF TableInv, AtHand, Holders
<1>4. TableHoldsLiveVolumes' /\ VisibleIDs'
  BY <1>1, <1>2 DEF TableInv, TableHoldsLiveVolumes, VisibleIDs
<1>5. ReservationHasOwner'
  BY <1>1 DEF TableInv, ReservationHasOwner
<1>6. QED
  BY <1>3, <1>4, <1>5 DEF TableInv

\* The other steps of a caller ...
OtherStep(p) ==
    \/ \E i \in IDs : DMS_Attach_Volume(p, i) \/ DMS_Detach_Volume(p, i)
    \/ Sleep(p)
    \/ Attach_Volume(p)
    \/ Self_Open(p)
    \/ Self_Close(p)
    \/ Detach_Volume_Prep(p)
    \/ Detach_Volume(p)
    \/ Release_Kernel_Device_Structure(p)

\* ... and those of users, and a crash ...
StepOfOthers ==
    \/ \E u \in Users, v \in Ptrs : Open_DMS_Volume(u, v)
    \/ \E u \in Users : Close_DMS_Volume(u)
    \/ \E f : Crash(f)
    \/ UNCHANGED vars

\* ... leave the table and the identity of each volume alone.
LEMMA CountKeepsIDs ==
  ASSUME TypeOK, NEW w \in Ptrs, Opened(w) \/ Closed(w), NEW v \in Ptrs
  PROVE  vol'[v].minor = vol[v].minor /\ vol'[v].id = vol[v].id
<1>1. vol \in [Ptrs -> VolumeType]
  BY DEF TypeOK
<1>2. CASE Opened(w)
  BY <1>1, <1>2 DEF Opened, VolumeType
<1>3. CASE Closed(w)
  BY <1>1, <1>3 DEF Closed, VolumeType
<1>4. QED
  BY <1>2, <1>3

LEMMA OtherStepKeepsIDs ==
  ASSUME TableInv, NEW p \in Procs, OtherStep(p), NEW v \in Ptrs
  PROVE  vol'[v].minor = vol[v].minor /\ vol'[v].id = vol[v].id
<1>1. vol \in [Ptrs -> VolumeType] /\ TypeOK
  BY DEF TableInv, TypeOK
<1>2. CASE vol' = vol
  BY <1>2
<1>3. CASE Attach_Volume(p)
  BY <1>1, <1>3 DEF Attach_Volume, VolumeType
<1>4. CASE \E w \in Ptrs : Opened(w) \/ Closed(w)
  BY <1>1, <1>4, CountKeepsIDs
<1>5. CASE Detach_Volume_Prep(p)
  BY <1>1, <1>5 DEF Detach_Volume_Prep, VolumeType
<1>6. CASE Detach_Volume(p)
  BY <1>1, <1>6 DEF Detach_Volume, VolumeType
<1>7. QED
  BY <1>2, <1>3, <1>4, <1>5, <1>6
  DEF OtherStep, DMS_Attach_Volume, DMS_Detach_Volume, Sleep, Self_Open, CanOpen, Self_Close,
      Release_Kernel_Device_Structure

LEMMA StepOfOthersKeepsIDs ==
  ASSUME TableInv, StepOfOthers, NEW v \in Ptrs
  PROVE  vol'[v].minor = vol[v].minor /\ vol'[v].id = vol[v].id
<1>1. TypeOK
  BY DEF TableInv
<1>2. ASSUME NEW u \in Users, NEW d \in Ptrs, Open_DMS_Volume(u, d)
      PROVE  vol'[v].minor = vol[v].minor /\ vol'[v].id = vol[v].id
  BY <1>1, <1>2, CountKeepsIDs DEF Open_DMS_Volume, CanOpen
<1>3. ASSUME NEW u \in Users, Close_DMS_Volume(u)
      PROVE  vol'[v].minor = vol[v].minor /\ vol'[v].id = vol[v].id
  BY <1>1, <1>3, CountKeepsIDs DEF Close_DMS_Volume
<1>4. QED
  BY <1>2, <1>3 DEF StepOfOthers, Crash, vars

LEMMA CallerKeepsTable ==
  ASSUME TableInv, (TypeOK /\ AtHand)', NEW p \in Procs, OtherStep(p)
  PROVE  TableInv'
<1>1. slot' = slot /\ alloc' = alloc
  BY DEF OtherStep, DMS_Attach_Volume, DMS_Detach_Volume, Sleep, Attach_Volume, Self_Open, Self_Close,
         Detach_Volume_Prep, Detach_Volume, Release_Kernel_Device_Structure, users
<1>2. \A v \in Ptrs : vol'[v].minor = vol[v].minor /\ vol'[v].id = vol[v].id
  BY OtherStepKeepsIDs
<1>3. ASSUME NEW q \in Procs PROVE Quiet(q)
  <2>1. CASE q # p \/ Sleep(p)
    BY <2>1
    DEF OtherStep, DMS_Attach_Volume, DMS_Detach_Volume, Sleep, Attach_Volume, Self_Open, Self_Close,
        Detach_Volume_Prep, Detach_Volume, Release_Kernel_Device_Structure, pvars, Goto, Return,
        Quiet, TableInv, TypeOK
  <2>2. CASE q = p /\ \E i \in IDs : DMS_Attach_Volume(p, i) \/ DMS_Detach_Volume(p, i)
    BY <2>2
    DEF DMS_Attach_Volume, DMS_Detach_Volume, Matches, Start, Goto, Quiet, TableInv, TypeOK
  <2>3. CASE q = p /\ (Attach_Volume(p) \/ Self_Open(p) \/ Self_Close(p))
    BY <2>3
    DEF Attach_Volume, Self_Open, Self_Close, Runs, Goto, Return, Quiet, TableInv, TypeOK
  <2>4. CASE q = p /\ (\/ Detach_Volume_Prep(p) \/ Detach_Volume(p)
                      \/ Release_Kernel_Device_Structure(p))
    BY <2>4
    DEF Detach_Volume_Prep, Detach_Volume, Release_Kernel_Device_Structure, Uses, Runs, Goto,
        Quiet, TableInv, TypeOK
  <2>5. QED
    BY <2>1, <2>2, <2>3, <2>4 DEF OtherStep
<1>4. QED
  BY <1>1, <1>2, <1>3, QuietStep

LEMMA OthersKeepTable ==
  ASSUME TableInv, (TypeOK /\ AtHand)', StepOfOthers
  PROVE  TableInv'
<1>1. slot' = slot /\ alloc' = alloc /\ UNCHANGED pvars
  BY DEF StepOfOthers, Open_DMS_Volume, Close_DMS_Volume, Crash, users, vars
<1>2. \A v \in Ptrs : vol'[v].minor = vol[v].minor /\ vol'[v].id = vol[v].id
  BY StepOfOthersKeepsIDs
<1>3. \A q \in Procs : Quiet(q)
  BY <1>1 DEF Quiet, pvars
<1>4. QED
  BY <1>1, <1>2, <1>3, QuietStep

LEMMA InitTable == Init => TableInv
<1> SUFFICES ASSUME Init PROVE TableInv
  OBVIOUS
<1>1. Holders
  BY DistinctAssumption DEF Init, Holders
<1>2. TableHoldsLiveVolumes /\ VisibleIDs /\ ReservationHasOwner
  BY DistinctAssumption DEF Init, TableHoldsLiveVolumes, VisibleIDs, ReservationHasOwner
<1>3. QED
  BY <1>1, <1>2, InitTypes DEF TableInv

\* Every step is one of those above.
LEMMA StepCases ==
  ASSUME [Next]_vars
  PROVE  \/ \E p \in Procs :
               \/ Create_and_Insert_DMS_Volume(p)
               \/ Remove_Volume_from_All_Volumes(p)
               \/ Release_Volume(p)
               \/ OtherStep(p)
         \/ StepOfOthers
<1>1. CASE \/ \E p \in Procs : Scan_Fault(p) \/ Detach_Fault(p)
           \/ Disk_Fault
  BY <1>1 DEF Scan_Fault, Detach_Fault, Disk_Fault, StepOfOthers
<1>2. QED
  BY <1>1 DEF Next, Step, OtherStep, StepOfOthers

LEMMA NextKeepsTable == TableInv /\ [Next]_vars => TableInv'
<1> SUFFICES ASSUME TableInv, [Next]_vars PROVE TableInv'
  OBVIOUS
<1>1. (TypeOK /\ AtHand)'
  BY NextKeepsTypes DEF TableInv
<1>2. CASE \E p \in Procs : Create_and_Insert_DMS_Volume(p)
  BY <1>1, <1>2, OccupyKeepsTable, CreateKeepsTable, InsertKeepsTable
  DEF Create_and_Insert_DMS_Volume
<1>3. CASE \E p \in Procs : Remove_Volume_from_All_Volumes(p) \/ Release_Volume(p)
  BY <1>1, <1>3, RemoveKeepsTable, ReleaseKeepsTable
<1>4. QED
  BY <1>1, <1>2, <1>3, StepCases, CallerKeepsTable, OthersKeepTable

LEMMA TableInvHolds == Spec => []TableInv
<1>1. Init => TableInv
  BY InitTable
<1>2. TableInv /\ [Next]_vars => TableInv'
  BY NextKeepsTable
<1>3. QED
  BY <1>1, <1>2, PTL DEF Spec

\* Whatever callers and users do up to the first undefined behaviour, two detaches of one
\* volume and failing attaches included: the table holds live volumes only, each in the slot
\* of its minor number.
THEOREM TableIsKept == Spec => []TableHoldsLiveVolumes
<1>1. TableInv => TableHoldsLiveVolumes
  BY DEF TableInv
<1>2. QED
  BY <1>1, TableInvHolds, PTL

\* Every reserved slot has an attach that will fill or free it: no failure leaks a slot.
THEOREM ReservationsAreOwned == Spec => []ReservationHasOwner
<1>1. TableInv => ReservationHasOwner
  BY DEF TableInv
<1>2. QED
  BY <1>1, TableInvHolds, PTL
-----------------------------------------------------------------------------
(* No ID twice, when no ID is NULL as a pointer.                            *)

\* Between the existence check and the reservation nobody else runs.
CheckHolds ==
    \A p \in Procs : pc[p] = "occupy" =>
        /\ bkl = p
        /\ \A s \in Slots : slot[s] # "null" => EntryID(s) # arg[p]

\* The existence check sees every entry with its ID.
LEMMA CheckIsComplete ==
  ASSUME TypeOK, NEW i \in IDs, ScanFault(i) = "none", ~Check_Volume_Existence(i),
         NEW s \in Slots, slot[s] # "null"
  PROVE  EntryID(s) # i
<1>1. Matches(i) = {} /\ s \in Visited(i)
  BY DEF Check_Volume_Existence, Visited
<1>2. slot[s] \notin IDs
  BY <1>1 DEF ScanFault, Deref
<1>3. QED
  BY <1>1, <1>2 DEF Matches, EntryID, TypeOK

\* No step but a reservation brings an ID into the table.
LEMMA EntriesKeepIDs ==
  ASSUME NullIDs = {}, TableInv, NEW p \in Procs,
         \/ Create_Volume(p)
         \/ Insert_Volume_to_All_Volumes(p)
         \/ Remove_Volume_from_All_Volumes(p)
         \/ Release_Volume(p)
         \/ OtherStep(p),
         NEW s \in Slots, slot'[s] # "null"
  PROVE  slot[s] # "null" /\ EntryID(s)' = EntryID(s)
<1>1. TypeOK /\ AtHand
  BY DEF TableInv
<1>2. ASSUME slot'[s] = slot[s], slot[s] \in Ptrs => vol'[slot[s]].id = vol[slot[s]].id
      PROVE  slot[s] # "null" /\ EntryID(s)' = EntryID(s)
  BY <1>2 DEF EntryID
<1>3. CASE Create_Volume(p)
  <2>1. CASE Remove_from_Slot(idx[p]) /\ UNCHANGED vol
    BY <1>1, <1>2, <2>1 DEF Remove_from_Slot, TypeOK
  <2>2. CASE \E v \in Ptrs : /\ alloc[v] = "fresh" /\ slot' = slot
                             /\ vol' = [vol EXCEPT ![v] = NewVolume(arg[p], idx[p])]
    BY <1>1, <1>2, <2>2 DEF TableInv, TableHoldsLiveVolumes, TypeOK
  <2>3. QED
    BY <1>3, <2>1, <2>2 DEF Create_Volume
<1>4. CASE Insert_Volume_to_All_Volumes(p)
  <2>1. pc[p] = "insert" /\ arg[p] \in IDs /\ cur[p] \in Ptrs /\ vol[cur[p]].id = arg[p] /\ vol' = vol
    BY <1>4 DEF Insert_Volume_to_All_Volumes, Runs, TableInv, AtHand, Holders
  <2>2. CASE slot' = slot
    BY <1>2, <2>1, <2>2
  <2>3. CASE slot[idx[p]] = arg[p] /\ slot' = [slot EXCEPT ![idx[p]] = cur[p]]
    BY <1>1, <1>2, <2>1, <2>3, DistinctAssumption DEF EntryID, TypeOK
  <2>4. QED
    BY <1>4, <2>2, <2>3 DEF Insert_Volume_to_All_Volumes, Placeholder
<1>5. CASE Remove_Volume_from_All_Volumes(p)
  BY <1>1, <1>2, <1>5 DEF Remove_Volume_from_All_Volumes, Remove_from_Slot, TypeOK
<1>6. CASE Release_Volume(p)
  <2>1. vol \in [Ptrs -> VolumeType] /\ slot' = slot
    BY <1>1, <1>6 DEF Release_Volume, TypeOK
  <2>2. QED
    BY <1>2, <1>6, <2>1 DEF Release_Volume, VolumeType
<1>7. CASE OtherStep(p)
  <2>1. slot' = slot
    BY <1>7
    DEF OtherStep, DMS_Attach_Volume, DMS_Detach_Volume, Sleep, Attach_Volume, Self_Open,
        Self_Close, Detach_Volume_Prep, Detach_Volume, Release_Kernel_Device_Structure
  <2>2. QED
    BY <1>2, <1>7, <2>1, OtherStepKeepsIDs
<1>8. QED
  BY <1>3, <1>4, <1>5, <1>6, <1>7

LEMMA OthersKeepEntries ==
  ASSUME TableInv, StepOfOthers, NEW s \in Slots
  PROVE  slot'[s] = slot[s] /\ EntryID(s)' = EntryID(s)
<1>1. slot' = slot
  BY DEF StepOfOthers, Open_DMS_Volume, Close_DMS_Volume, Crash, vars
<1>2. QED
  BY <1>1, StepOfOthersKeepsIDs DEF EntryID

\* A caller that is about to reserve has just checked, or nothing has happened since.
LEMMA CheckIsFresh ==
  ASSUME TypeOK, [Next]_vars, CheckHolds, NEW p \in Procs, pc'[p] = "occupy"
  PROVE  \/ \E i \in IDs : DMS_Attach_Volume(p, i)
         \/ UNCHANGED <<slot, vol, bkl, pvars>> /\ pc[p] = "occupy"
<1>1. CASE pc[p] = "occupy"
  <2>1. bkl = p /\ bkl # "none"
    BY <1>1, DistinctAssumption DEF CheckHolds
  <2>2. ASSUME NEW q \in Procs, Create_and_Insert_DMS_Volume(q)
        PROVE  FALSE
    <3>1. q = p /\ Occupy_in_All_Volumes(p)
      BY <1>1, <2>1, <2>2
      DEF Create_and_Insert_DMS_Volume, Occupy_in_All_Volumes, Create_Volume,
          Insert_Volume_to_All_Volumes, Runs
    <3>2. QED
      BY <1>1, <3>1 DEF Occupy_in_All_Volumes, Goto, Return, TypeOK
  <2>3. ASSUME NEW q \in Procs,
               Remove_Volume_from_All_Volumes(q) \/ Release_Volume(q) \/ OtherStep(q)
        PROVE  FALSE
    BY <1>1, <2>1, <2>3
    DEF Remove_Volume_from_All_Volumes, Release_Volume, OtherStep, DMS_Attach_Volume,
        DMS_Detach_Volume, Sleep, SleepPoints, Attach_Volume, Self_Open, Self_Close,
        Detach_Volume_Prep, Detach_Volume, Release_Kernel_Device_Structure, Uses, Runs, Start
  <2>4. CASE StepOfOthers
    BY <1>1, <2>1, <2>4
    DEF StepOfOthers, Open_DMS_Volume, Close_DMS_Volume, Crash, vars
  <2>5. QED
    BY <2>2, <2>3, <2>4, StepCases
<1>2. CASE pc[p] # "occupy"
  <2>1. CASE StepOfOthers
    BY <1>2, <2>1 DEF StepOfOthers, Open_DMS_Volume, Close_DMS_Volume, Crash, vars, pvars
  <2>2. ASSUME NEW q \in Procs, Create_and_Insert_DMS_Volume(q)
        PROVE  FALSE
    BY <1>2, <2>2
    DEF Create_and_Insert_DMS_Volume, Occupy_in_All_Volumes, Create_Volume,
        Insert_Volume_to_All_Volumes, Goto, Return, TypeOK
  <2>3. ASSUME NEW q \in Procs, Remove_Volume_from_All_Volumes(q) \/ Release_Volume(q)
        PROVE  FALSE
    BY <1>2, <2>3 DEF Remove_Volume_from_All_Volumes, Release_Volume, Goto, Return, TypeOK
  <2>4. ASSUME NEW q \in Procs, OtherStep(q)
        PROVE  q = p /\ \E i \in IDs : DMS_Attach_Volume(p, i)
    BY <1>2, <2>4
    DEF OtherStep, DMS_Attach_Volume, DMS_Detach_Volume, Sleep, Attach_Volume, Self_Open,
        Self_Close, Detach_Volume_Prep, Detach_Volume, Release_Kernel_Device_Structure,
        pvars, Goto, Return, TypeOK
  <2>5. QED
    BY <2>1, <2>2, <2>3, <2>4, StepCases
<1>3. QED
  BY <1>1, <1>2

\* An entry has an ID (NULL has none: without this an entry could equal a freed slot).
RealIDs == \A s \in Slots : slot[s] # "null" => EntryID(s) # "null"

UniqueInv == TableInv /\ CheckHolds /\ RealIDs /\ NoDuplicateID

LEMMA NextKeepsUnique ==
  ASSUME NullIDs = {}, UniqueInv, [Next]_vars
  PROVE  UniqueInv'
<1>1. TypeOK /\ TableInv /\ TableInv'
  BY NextKeepsTable DEF UniqueInv, TableInv
<1>2. ASSUME NEW p \in Procs, Occupy_in_All_Volumes(p)
      PROVE  RealIDs' /\ NoDuplicateID'
  <2>1. pc[p] = "occupy" /\ arg[p] \in IDs /\ vol' = vol
    BY <1>1, <1>2 DEF Occupy_in_All_Volumes, Runs, TableInv, AtHand
  <2>2. CASE slot' = slot
    BY <2>1, <2>2 DEF UniqueInv, RealIDs, NoDuplicateID, EntryID
  <2>3. CASE \E s \in FreeSlots : slot' = [slot EXCEPT ![s] = arg[p]]
    <3>1. PICK s \in Slots : /\ slot'[s] = arg[p]
                             /\ \A t \in Slots \ {s} : slot'[t] = slot[t]
      BY <1>1, <2>3 DEF FreeSlots, TypeOK
    <3>2. EntryID(s)' = arg[p] /\ \A t \in Slots \ {s} : EntryID(t)' = EntryID(t)
      BY <2>1, <3>1, DistinctAssumption DEF EntryID
    <3>3. \A t \in Slots \ {s} : slot'[t] # "null" => EntryID(t) # arg[p]
      BY <2>1, <3>1 DEF UniqueInv, CheckHolds
    <3>4. \A t, u \in Slots \ {s} :
             slot[t] # "null" /\ EntryID(t) = EntryID(u) => t = u
      BY DEF UniqueInv, NoDuplicateID
    <3>5. ASSUME NEW t \in Slots, NEW u \in Slots, slot'[t] # "null",
                 EntryID(t)' = EntryID(u)'
          PROVE  t = u
      <4>1. CASE u = s /\ t # s
        BY <3>2, <3>3, <3>5, <4>1
      <4>2. CASE t = s /\ u # s
        <5>1. EntryID(u) = arg[p]
          BY <3>2, <3>5, <4>2
        <5>2. slot[u] # "null"
          BY <1>1, <2>1, <5>1, DistinctAssumption DEF EntryID
        <5>3. QED
          BY <3>1, <3>3, <4>2, <5>1, <5>2
      <4>3. CASE t # s /\ u # s
        BY <3>1, <3>2, <3>4, <3>5, <4>3
      <4>4. QED
        BY <4>1, <4>2, <4>3
    <3>6. RealIDs'
      BY <2>1, <3>1, <3>2, DistinctAssumption DEF UniqueInv, RealIDs
    <3>7. QED
      BY <3>5, <3>6 DEF NoDuplicateID
  <2>4. QED
    BY <1>2, <2>2, <2>3 DEF Occupy_in_All_Volumes, Placeholder
<1>3. ASSUME NEW p \in Procs,
             \/ Create_Volume(p)
             \/ Insert_Volume_to_All_Volumes(p)
             \/ Remove_Volume_from_All_Volumes(p)
             \/ Release_Volume(p)
             \/ OtherStep(p)
      PROVE  RealIDs' /\ NoDuplicateID'
  <2>1. \A s \in Slots : slot'[s] # "null" => slot[s] # "null" /\ EntryID(s)' = EntryID(s)
    BY <1>1, <1>3, EntriesKeepIDs
  <2>2. RealIDs'
    BY <2>1 DEF UniqueInv, RealIDs
  <2>3. ASSUME NEW s \in Slots, NEW t \in Slots, slot'[s] # "null", EntryID(s)' = EntryID(t)'
        PROVE  s = t
    <3>1. slot'[t] # "null"
      BY <2>2, <2>3, <1>1, DistinctAssumption DEF RealIDs, EntryID
    <3>2. QED
      BY <2>1, <2>3, <3>1 DEF UniqueInv, NoDuplicateID
  <2>4. QED
    BY <2>2, <2>3 DEF NoDuplicateID
<1>4. ASSUME StepOfOthers PROVE RealIDs' /\ NoDuplicateID'
  <2>1. \A s \in Slots : slot'[s] = slot[s] /\ EntryID(s)' = EntryID(s)
    BY <1>1, <1>4, OthersKeepEntries
  <2>2. RealIDs'
    BY <2>1 DEF UniqueInv, RealIDs
  <2>3. ASSUME NEW s \in Slots, NEW t \in Slots, slot'[s] # "null", EntryID(s)' = EntryID(t)'
        PROVE  s = t
    BY <2>1, <2>3 DEF UniqueInv, NoDuplicateID
  <2>4. QED
    BY <2>2, <2>3 DEF NoDuplicateID
<1>5. CheckHolds'
  <2> SUFFICES ASSUME NEW p \in Procs, pc'[p] = "occupy"
               PROVE  /\ bkl' = p
                      /\ \A s \in Slots : slot'[s] # "null" => EntryID(s)' # arg'[p]
    BY DEF CheckHolds
  <2>1. CASE \E i \in IDs : DMS_Attach_Volume(p, i)
    <3>1. PICK i \in IDs : DMS_Attach_Volume(p, i)
      BY <2>1
    <3>2. bkl' = p /\ arg'[p] = i /\ slot' = slot /\ vol' = vol
      BY <1>1, <3>1 DEF DMS_Attach_Volume, Goto, TypeOK
    <3>3. ASSUME NEW s \in Slots, slot'[s] # "null" PROVE EntryID(s)' # i
      <4>1. EntryID(s) # i
        BY <1>1, <3>1, <3>2, <3>3, CheckIsComplete DEF DMS_Attach_Volume
      <4>2. QED
        BY <3>2, <4>1 DEF EntryID
    <3>4. QED
      BY <3>2, <3>3
  <2>2. CASE UNCHANGED <<slot, vol, bkl, pvars>> /\ pc[p] = "occupy"
    BY <2>2 DEF UniqueInv, CheckHolds, EntryID, pvars
  <2>3. QED
    BY <1>1, <2>1, <2>2, CheckIsFresh DEF UniqueInv
<1>6. QED
  BY <1>1, <1>2, <1>3, <1>4, <1>5, StepCases DEF UniqueInv, Create_and_Insert_DMS_Volume

\* "Don't attach it again": no volume ID is in the table twice, although the existence check
\* and the reservation are two steps, as long as no ID is NULL when it is cast to a pointer
\* (the ID 0 leaves no reservation behind).
THEOREM IDsAreUnique == ASSUME NullIDs = {} PROVE Spec => []NoDuplicateID
<1>1. Init => UniqueInv
  <2> SUFFICES ASSUME Init PROVE UniqueInv
    OBVIOUS
  <2>1. CheckHolds /\ RealIDs /\ NoDuplicateID
    BY DEF Init, CheckHolds, RealIDs, NoDuplicateID
  <2>2. QED
    BY <2>1, InitTable DEF UniqueInv
<1>2. UniqueInv /\ [Next]_vars => UniqueInv'
  BY NextKeepsUnique
<1>3. UniqueInv => NoDuplicateID
  BY DEF UniqueInv
<1>4. QED
  BY <1>1, <1>2, <1>3, PTL DEF Spec
-----------------------------------------------------------------------------
(* No volume is lost.                                                       *)

Detaching == {"sync", "detach", "remove", "relsync", "del"}

\* Until two detaches of one volume overlap: each volume is released by one caller ...
OneDetach ==
    \A p, q \in Procs :
        pc[p] \in Detaching /\ pc[q] \in Detaching /\ cur[p] = cur[q] => p = q

\* ... who finds it in its slot when he takes it out ...
StillThere ==
    \A p \in Procs : pc[p] \in {"sync", "detach", "remove"} =>
        cur[p] \in Ptrs /\ slot[vol[cur[p]].minor] = cur[p]

\* ... nobody else frees or takes a slot that an attach has reserved ...
Reserved ==
    \A p \in Procs : pc[p] \in {"create", "insert"} =>
        /\ slot[idx[p]] = arg[p]
        /\ \A q \in Procs \ {p} : pc[q] \in {"create", "insert"} => idx[q] # idx[p]

\* ... and a volume that is not in the table is about to be published or released.
HasPlace(v) ==
    \/ slot[vol[v].minor] = v
    \/ \E p \in Procs : cur[p] = v /\ pc[p] \in {"insert", "relsync", "del"}
NoneLost == \A v \in Ptrs : alloc[v] = "live" => HasPlace(v)

HaveSlot == \A v \in Ptrs : alloc[v] # "fresh" => vol[v].minor \in Slots

KeptApart == OneDetach /\ StillThere /\ Reserved /\ NoneLost
LostInv == TableInv /\ HaveSlot /\ (late \cap Procs = {} => KeptApart)

\* The history only grows.
LEMMA LateGrows == ASSUME TableInv, [Next]_vars PROVE late \subseteq late'
<1>1. CASE StepOfOthers
  BY <1>1
  DEF StepOfOthers, Open_DMS_Volume, Close_DMS_Volume, ComesLate, Crash, vars, users
<1>2. ASSUME NEW p \in Procs, OtherStep(p) PROVE late \subseteq late'
  BY <1>2
  DEF OtherStep, DMS_Attach_Volume, DMS_Detach_Volume, Sleep, Attach_Volume, Self_Open, Self_Close,
      Detach_Volume_Prep, Detach_Volume, Release_Kernel_Device_Structure, ComesLate, users
<1>3. ASSUME NEW p \in Procs, Create_and_Insert_DMS_Volume(p) PROVE late' = late
  BY <1>3
  DEF Create_and_Insert_DMS_Volume, Occupy_in_All_Volumes, Create_Volume,
      Insert_Volume_to_All_Volumes, users
<1>4. ASSUME NEW p \in Procs, Remove_Volume_from_All_Volumes(p) \/ Release_Volume(p)
      PROVE  late' = late
  BY <1>4 DEF Remove_Volume_from_All_Volumes, Release_Volume, users
<1>5. QED
  BY <1>1, <1>2, <1>3, <1>4, StepCases

\* What the steps of OtherStep and StepOfOthers leave alone.
LEMMA TableAlone ==
  ASSUME TableInv, StepOfOthers \/ \E p \in Procs : OtherStep(p)
  PROVE  /\ slot' = slot /\ alloc' = alloc
         /\ \A v \in Ptrs : vol'[v].minor = vol[v].minor
<1>1. CASE StepOfOthers
  BY <1>1, StepOfOthersKeepsIDs
  DEF StepOfOthers, Open_DMS_Volume, Close_DMS_Volume, Crash, vars
<1>2. CASE \E p \in Procs : OtherStep(p)
  BY <1>2, OtherStepKeepsIDs
  DEF OtherStep, DMS_Attach_Volume, DMS_Detach_Volume, Sleep, Attach_Volume, Self_Open, Self_Close,
      Detach_Volume_Prep, Detach_Volume, Release_Kernel_Device_Structure
<1>3. QED
  BY <1>1, <1>2

\* A step of one caller leaves the others where they are.
OthersStay(p) ==
    \A q \in Procs \ {p} :
        pc'[q] = pc[q] /\ cur'[q] = cur[q] /\ arg'[q] = arg[q] /\ idx'[q] = idx[q]

LEMMA OneCallerMoves ==
  ASSUME TypeOK, NEW p \in Procs,
         \/ Create_and_Insert_DMS_Volume(p)
         \/ Remove_Volume_from_All_Volumes(p)
         \/ Release_Volume(p)
         \/ OtherStep(p)
  PROVE  OthersStay(p)
<1>1. CASE Create_and_Insert_DMS_Volume(p)
  BY <1>1
  DEF Create_and_Insert_DMS_Volume, Occupy_in_All_Volumes, Create_Volume,
      Insert_Volume_to_All_Volumes, Goto, Return, OthersStay, TypeOK
<1>2. CASE Remove_Volume_from_All_Volumes(p) \/ Release_Volume(p)
  BY <1>2 DEF Remove_Volume_from_All_Volumes, Release_Volume, Goto, Return, OthersStay, TypeOK
<1>3. CASE OtherStep(p)
  BY <1>3
  DEF OtherStep, DMS_Attach_Volume, DMS_Detach_Volume, Sleep, Attach_Volume, Self_Open, Self_Close,
      Detach_Volume_Prep, Detach_Volume, Release_Kernel_Device_Structure, Goto, Return, pvars,
      OthersStay, TypeOK
<1>4. QED
  BY <1>1, <1>2, <1>3

LEMMA NextKeepsSlots ==
  ASSUME TableInv, HaveSlot, [Next]_vars PROVE HaveSlot'
<1>1. CASE StepOfOthers \/ \E p \in Procs : OtherStep(p)
  BY <1>1, TableAlone DEF HaveSlot
<1>2. ASSUME NEW p \in Procs, Create_Volume(p) PROVE HaveSlot'
  <2>1. CASE UNCHANGED <<alloc, vol>>
    BY <2>1 DEF HaveSlot
  <2>2. ASSUME NEW v \in Ptrs, alloc' = [alloc EXCEPT ![v] = "live"],
               vol' = [vol EXCEPT ![v] = NewVolume(arg[p], idx[p])]
        PROVE  HaveSlot'
    <3>1. idx[p] \in Slots
      BY <1>2 DEF Create_Volume, Runs, TableInv, AtHand
    <3>2. QED
      BY <2>2, <3>1 DEF HaveSlot, NewVolume, TableInv, TypeOK
  <2>3. QED
    BY <1>2, <2>1, <2>2 DEF Create_Volume
<1>3. ASSUME NEW p \in Procs, Release_Volume(p) PROVE HaveSlot'
  <2>1. \A v \in Ptrs : vol'[v].minor = vol[v].minor
    BY <1>3 DEF Release_Volume, TableInv, TypeOK, VolumeType
  <2>2. \A v \in Ptrs : alloc[v] = "fresh" => v = cur[p] \/ alloc'[v] = "fresh"
    BY <1>3 DEF Release_Volume, TableInv, TypeOK
  <2>3. cur[p] \in Ptrs => alloc[cur[p]] # "fresh"
    BY <1>3 DEF TableInv, Holders
  <2>4. QED
    BY <2>1, <2>2, <2>3 DEF HaveSlot
<1>4. ASSUME NEW p \in Procs,
             \/ Occupy_in_All_Volumes(p)
             \/ Insert_Volume_to_All_Volumes(p)
             \/ Remove_Volume_from_All_Volumes(p)
      PROVE  HaveSlot'
  BY <1>4
  DEF Occupy_in_All_Volumes, Insert_Volume_to_All_Volumes, Remove_Volume_from_All_Volumes, HaveSlot
<1>5. QED
  BY <1>1, <1>2, <1>3, <1>4, StepCases DEF Create_and_Insert_DMS_Volume

\* A caller whose step changes nothing that KeptApart speaks of.
Calm(p) ==
    \/ pc'[p] = pc[p] /\ cur'[p] = cur[p] /\ arg'[p] = arg[p] /\ idx'[p] = idx[p]
    \/ pc[p] \notin {"create", "insert"} \cup Detaching /\ pc'[p] \notin {"create", "insert"} \cup Detaching
    \/ pc[p] \in {"sync", "detach"} /\ pc'[p] \in {"detach", "remove"} /\ cur'[p] = cur[p]
    \/ pc[p] = "relsync" /\ pc'[p] = "del" /\ cur'[p] = cur[p]

LEMMA CalmStep ==
  ASSUME KeptApart, slot' = slot, alloc' = alloc, TypeOK,
         \A v \in Ptrs : vol'[v].minor = vol[v].minor,
         \A p \in Procs : Calm(p)
  PROVE  KeptApart'
<1>1. OneDetach'
  <2> SUFFICES ASSUME NEW p \in Procs, NEW q \in Procs,
                      pc'[p] \in Detaching /\ pc'[q] \in Detaching /\ cur'[p] = cur'[q]
               PROVE  p = q
    BY DEF OneDetach
  <2>1. \A r \in Procs : pc'[r] \in Detaching => pc[r] \in Detaching /\ cur'[r] = cur[r]
    BY DEF Calm, Detaching
  <2>2. QED
    BY <2>1 DEF KeptApart, OneDetach
<1>2. StillThere'
  <2> SUFFICES ASSUME NEW p \in Procs, pc'[p] \in {"sync", "detach", "remove"}
               PROVE  cur'[p] \in Ptrs /\ slot'[vol'[cur'[p]].minor] = cur'[p]
    BY DEF StillThere
  <2>1. pc[p] \in {"sync", "detach", "remove"} /\ cur'[p] = cur[p]
    BY DEF Calm, Detaching
  <2>2. QED
    BY <2>1 DEF KeptApart, StillThere
<1>3. Reserved'
  <2>1. \A p \in Procs : pc'[p] \in {"create", "insert"} =>
           pc[p] \in {"create", "insert"} /\ arg'[p] = arg[p] /\ idx'[p] = idx[p]
    BY DEF Calm, Detaching
  <2>2. QED
    BY <2>1 DEF KeptApart, Reserved
<1>4. NoneLost'
  <2> SUFFICES ASSUME NEW v \in Ptrs, alloc[v] = "live", slot[vol[v].minor] # v
               PROVE  \E p \in Procs : cur'[p] = v /\ pc'[p] \in {"insert", "relsync", "del"}
    BY DEF NoneLost, HasPlace
  <2>1. PICK p \in Procs : cur[p] = v /\ pc[p] \in {"insert", "relsync", "del"}
    BY DEF KeptApart, NoneLost, HasPlace
  <2>2. cur'[p] = v /\ pc'[p] \in {"insert", "relsync", "del"}
    BY <2>1 DEF Calm, Detaching
  <2>3. QED
    BY <2>2
<1>5. QED
  BY <1>1, <1>2, <1>3, <1>4 DEF KeptApart

LEMMA OtherStepKeepsApart ==
  ASSUME TableInv, KeptApart, NEW p \in Procs, OtherStep(p),
         late' \cap Procs = {}
  PROVE  KeptApart'
<1> USE DEF TableInv
<1>1. /\ slot' = slot /\ alloc' = alloc
      /\ \A v \in Ptrs : vol'[v].minor = vol[v].minor
  BY TableAlone
<1>2. OthersStay(p)
  BY OneCallerMoves
<1>3. ASSUME NEW i \in IDs, DMS_Detach_Volume(p, i) PROVE KeptApart'
  <2>1. PICK s \in Matches(i) : cur' = [cur EXCEPT ![p] = slot[s]] /\ ComesLate(p, slot[s])
    BY <1>3 DEF DMS_Detach_Volume
  <2>2. /\ pc[p] = "idle" /\ pc'[p] = "sync" /\ cur'[p] = slot[s]
        /\ s \in Slots /\ slot[s] \in Ptrs /\ vol[slot[s]].minor = s
    BY <1>3, <2>1 DEF DMS_Detach_Volume, Start, Goto, Matches, TypeOK, TableHoldsLiveVolumes
  <2>3. ~BeingDetached(slot[s])
    BY <2>1 DEF ComesLate
  <2>4. \A q \in Procs \ {p} : pc[q] \in Detaching => cur[q] # slot[s]
    BY <2>3 DEF BeingDetached, Detaching
  <2>5. OneDetach'
    BY <1>2, <2>2, <2>4 DEF OneDetach, OthersStay, KeptApart
  <2>6. StillThere'
    BY <1>1, <1>2, <2>2 DEF StillThere, OthersStay, KeptApart
  <2>7. Reserved'
    BY <1>1, <1>2, <2>2 DEF Reserved, OthersStay, KeptApart
  <2>8. NoneLost'
    <3>1. \A q \in Procs : pc[q] \in {"insert", "relsync", "del"} => pc'[q] = pc[q] /\ cur'[q] = cur[q]
      BY <1>2, <2>2 DEF OthersStay
    <3>2. QED
      BY <1>1, <3>1 DEF NoneLost, HasPlace, KeptApart
  <2>9. QED
    BY <2>5, <2>6, <2>7, <2>8 DEF KeptApart
<1>4. ASSUME ~\E i \in IDs : DMS_Detach_Volume(p, i) PROVE Calm(p)
  <2>1. CASE \/ \E i \in IDs : DMS_Attach_Volume(p, i)
             \/ Sleep(p)
    BY <2>1 DEF DMS_Attach_Volume, Sleep, Start, Goto, pvars, Calm, Detaching, TypeOK
  <2>2. CASE Attach_Volume(p) \/ Self_Open(p) \/ Self_Close(p)
    BY <2>2 DEF Attach_Volume, Self_Open, Self_Close, Runs, Goto, Return, Calm, Detaching, TypeOK
  <2>3. CASE \/ Detach_Volume_Prep(p) \/ Detach_Volume(p)
             \/ Release_Kernel_Device_Structure(p)
    BY <2>3
    DEF Detach_Volume_Prep, Detach_Volume, Release_Kernel_Device_Structure, Uses, Runs, Goto,
        Calm, Detaching, TypeOK
  <2>4. QED
    BY <1>4, <2>1, <2>2, <2>3 DEF OtherStep
<1>5. \A q \in Procs \ {p} : Calm(q)
  BY <1>2 DEF OthersStay, Calm
<1>6. QED
  BY <1>1, <1>3, <1>4, <1>5, CalmStep

LEMMA OccupyKeepsApart ==
  ASSUME NullIDs = {}, TableInv, HaveSlot, KeptApart, NEW p \in Procs,
         Occupy_in_All_Volumes(p)
  PROVE  KeptApart'
<1> USE DEF TableInv
<1>1. OthersStay(p)
  BY OneCallerMoves DEF Create_and_Insert_DMS_Volume
<1>2. /\ pc[p] = "occupy" /\ arg[p] \in IDs
      /\ alloc' = alloc /\ vol' = vol
  BY DEF Occupy_in_All_Volumes, Runs, AtHand
<1>3. CASE Return(p) /\ slot' = slot
  <2>1. \A q \in Procs : Calm(q)
    BY <1>1, <1>2, <1>3 DEF Return, OthersStay, Calm, Detaching, TypeOK
  <2>2. QED
    BY <1>2, <1>3, <2>1, CalmStep
<1>4. ASSUME NEW s \in FreeSlots,
             slot' = [slot EXCEPT ![s] = Placeholder(arg[p])],
             idx' = [idx EXCEPT ![p] = s],
             Goto(p, "create"), UNCHANGED <<arg, cur>>
      PROVE  KeptApart'
  <2>1. /\ s \in Slots /\ slot[s] = "null" /\ slot'[s] = arg[p]
        /\ \A t \in Slots \ {s} : slot'[t] = slot[t]
        /\ pc'[p] = "create" /\ idx'[p] = s /\ arg'[p] = arg[p]
    BY <1>4 DEF FreeSlots, Placeholder, Goto, TypeOK
  <2>2. OneDetach'
    BY <1>1, <2>1 DEF KeptApart, OneDetach, OthersStay, Detaching
  <2>3. \A v \in Ptrs : alloc[v] # "fresh" /\ slot[vol[v].minor] = v => slot'[vol[v].minor] = v
    BY <2>1, DistinctAssumption DEF HaveSlot
  <2>4. StillThere'
    <3> SUFFICES ASSUME NEW q \in Procs, pc'[q] \in {"sync", "detach", "remove"}
                 PROVE  cur'[q] \in Ptrs /\ slot'[vol'[cur'[q]].minor] = cur'[q]
      BY DEF StillThere
    <3>1. q # p /\ pc[q] \in {"sync", "detach", "remove"} /\ cur'[q] = cur[q]
      BY <1>1, <2>1 DEF OthersStay
    <3>2. cur[q] \in Ptrs /\ slot[vol[cur[q]].minor] = cur[q]
      BY <3>1 DEF KeptApart, StillThere
    <3>3. QED
      BY <1>2, <2>3, <3>1, <3>2 DEF Holders
  <2>5. Reserved'
    <3> SUFFICES ASSUME NEW q \in Procs, pc'[q] \in {"create", "insert"}
                 PROVE  /\ slot'[idx'[q]] = arg'[q]
                        /\ \A r \in Procs \ {q} : pc'[r] \in {"create", "insert"} => idx'[r] # idx'[q]
      BY DEF Reserved
    <3>1. \A r \in Procs \ {p} : pc'[r] \in {"create", "insert"} =>
            /\ pc[r] = pc'[r] /\ idx'[r] = idx[r] /\ idx[r] \in Slots \ {s}
            /\ arg'[r] = arg[r] /\ slot'[idx[r]] = arg[r]
      <4> SUFFICES ASSUME NEW r \in Procs \ {p}, pc'[r] \in {"create", "insert"}
                   PROVE  /\ pc[r] = pc'[r] /\ idx'[r] = idx[r] /\ idx[r] \in Slots \ {s}
                          /\ arg'[r] = arg[r] /\ slot'[idx[r]] = arg[r]
        OBVIOUS
      <4>1. pc[r] = pc'[r] /\ idx'[r] = idx[r] /\ arg'[r] = arg[r]
        BY <1>1 DEF OthersStay
      <4>2. idx[r] \in Slots /\ arg[r] \in IDs /\ slot[idx[r]] = arg[r]
        BY <4>1 DEF KeptApart, Reserved, AtHand
      <4>3. QED
        BY <2>1, <4>1, <4>2, DistinctAssumption
    <3>2. QED
      BY <2>1, <3>1 DEF KeptApart, Reserved
  <2>6. NoneLost'
    <3> SUFFICES ASSUME NEW v \in Ptrs, alloc[v] = "live" PROVE HasPlace(v)'
      BY <1>2 DEF NoneLost
    <3>1. CASE slot[vol[v].minor] = v
      BY <1>2, <2>3, <3>1 DEF HasPlace
    <3>2. CASE \E q \in Procs : cur[q] = v /\ pc[q] \in {"insert", "relsync", "del"}
      BY <1>1, <1>2, <3>2 DEF HasPlace, OthersStay
    <3>3. QED
      BY <3>1, <3>2 DEF KeptApart, NoneLost, HasPlace
  <2>7. QED
    BY <2>2, <2>4, <2>5, <2>6 DEF KeptApart
<1>5. QED
  BY <1>3, <1>4 DEF Occupy_in_All_Volumes

LEMMA CreateKeepsApart ==
  ASSUME NullIDs = {}, TableInv, HaveSlot, KeptApart, NEW p \in Procs, Create_Volume(p)
  PROVE  KeptApart'
<1> USE DEF TableInv
<1>1. OthersStay(p)
  BY OneCallerMoves DEF Create_and_Insert_DMS_Volume
<1>2. /\ pc[p] = "create" /\ arg[p] \in IDs /\ idx[p] \in Slots /\ slot[idx[p]] = arg[p]
      /\ \A q \in Procs \ {p} : pc[q] \in {"create", "insert"} => idx[q] # idx[p]
  BY DEF Create_Volume, Runs, AtHand, KeptApart, Reserved
<1>3. CASE Remove_from_Slot(idx[p]) /\ Return(p) /\ UNCHANGED <<alloc, vol>>
  <2>1. /\ \A t \in Slots \ {idx[p]} : slot'[t] = slot[t]
        /\ pc'[p] = "idle"
    BY <1>2, <1>3 DEF Remove_from_Slot, Return, TypeOK
  <2>2. \A v \in Ptrs : alloc[v] # "fresh" /\ slot[vol[v].minor] = v => slot'[vol[v].minor] = v
    BY <1>2, <2>1, DistinctAssumption DEF HaveSlot
  <2>3. OneDetach'
    BY <1>1, <2>1 DEF KeptApart, OneDetach, OthersStay, Detaching
  <2>4. StillThere'
    <3>1. \A q \in Procs : pc'[q] \in {"sync", "detach", "remove"} =>
             pc[q] = pc'[q] /\ cur'[q] = cur[q]
      BY <1>1, <2>1 DEF OthersStay
    <3>2. QED
      BY <1>3, <2>2, <3>1 DEF KeptApart, StillThere, Holders
  <2>5. Reserved'
    <3>1. \A q \in Procs : pc'[q] \in {"create", "insert"} =>
            /\ q # p /\ pc[q] = pc'[q] /\ idx'[q] = idx[q] /\ arg'[q] = arg[q]
            /\ idx[q] \in Slots \ {idx[p]}
      BY <1>1, <1>2, <2>1 DEF OthersStay, AtHand
    <3>2. QED
      BY <2>1, <3>1 DEF KeptApart, Reserved
  <2>6. NoneLost'
    <3> SUFFICES ASSUME NEW v \in Ptrs, alloc[v] = "live" PROVE HasPlace(v)'
      BY <1>3 DEF NoneLost
    <3>1. CASE slot[vol[v].minor] = v
      BY <1>3, <2>2, <3>1 DEF HasPlace
    <3>2. CASE \E q \in Procs : cur[q] = v /\ pc[q] \in {"insert", "relsync", "del"}
      BY <1>1, <1>2, <3>2 DEF HasPlace, OthersStay
    <3>3. QED
      BY <3>1, <3>2 DEF KeptApart, NoneLost, HasPlace
  <2>7. QED
    BY <2>3, <2>4, <2>5, <2>6 DEF KeptApart
<1>4. ASSUME NEW v \in Ptrs, alloc[v] = "fresh",
             alloc' = [alloc EXCEPT ![v] = "live"],
             vol' = [vol EXCEPT ![v] = NewVolume(arg[p], idx[p])],
             cur' = [cur EXCEPT ![p] = v],
             Goto(p, "insert"), UNCHANGED <<slot, arg, idx>>
      PROVE  KeptApart'
  <2>1. /\ \A w \in Ptrs \ {v} : alloc'[w] = alloc[w] /\ vol'[w] = vol[w]
        /\ pc'[p] = "insert" /\ cur'[p] = v
    BY <1>4 DEF Goto, TypeOK
  <2>2. \A q \in Procs : cur[q] # v
    BY <1>4 DEF Holders
  <2>3. OneDetach'
    BY <1>1, <2>1 DEF KeptApart, OneDetach, OthersStay, Detaching
  <2>4. StillThere'
    <3>1. \A q \in Procs : pc'[q] \in {"sync", "detach", "remove"} =>
             pc[q] = pc'[q] /\ cur'[q] = cur[q]
      BY <1>1, <2>1 DEF OthersStay
    <3>2. QED
      BY <1>4, <2>1, <2>2, <3>1 DEF KeptApart, StillThere
  <2>5. Reserved'
    <3>1. \A q \in Procs : pc'[q] \in {"create", "insert"} => pc[q] \in {"create", "insert"}
      BY <1>1, <1>2 DEF OthersStay
    <3>2. QED
      BY <1>4, <3>1 DEF KeptApart, Reserved
  <2>6. NoneLost'
    <3> SUFFICES ASSUME NEW w \in Ptrs, alloc'[w] = "live" PROVE HasPlace(w)'
      BY DEF NoneLost
    <3>1. CASE w = v
      BY <2>1, <3>1 DEF HasPlace
    <3>2. CASE w # v
      <4>1. alloc[w] = "live" /\ vol'[w] = vol[w]
        BY <2>1, <3>2
      <4>2. CASE slot[vol[w].minor] = w
        BY <1>4, <4>1, <4>2 DEF HasPlace
      <4>3. CASE \E q \in Procs : cur[q] = w /\ pc[q] \in {"insert", "relsync", "del"}
        BY <1>1, <1>2, <4>3 DEF HasPlace, OthersStay
      <4>4. QED
        BY <4>1, <4>2, <4>3 DEF KeptApart, NoneLost, HasPlace
    <3>3. QED
      BY <3>1, <3>2
  <2>7. QED
    BY <2>3, <2>4, <2>5, <2>6 DEF KeptApart
<1>5. QED
  BY <1>3, <1>4 DEF Create_Volume

LEMMA InsertKeepsApart ==
  ASSUME NullIDs = {}, TableInv, HaveSlot, KeptApart, NEW p \in Procs,
         Insert_Volume_to_All_Volumes(p)
  PROVE  KeptApart'
<1> USE DEF TableInv
<1>1. OthersStay(p)
  BY OneCallerMoves DEF Create_and_Insert_DMS_Volume
<1>2. /\ pc[p] = "insert" /\ arg[p] \in IDs /\ idx[p] \in Slots /\ cur[p] \in Ptrs
      /\ slot[idx[p]] = arg[p] /\ vol[cur[p]].minor = idx[p]
      /\ \A q \in Procs \ {p} : pc[q] \in {"create", "insert"} => idx[q] # idx[p]
  BY DEF Insert_Volume_to_All_Volumes, Runs, AtHand, Holders, KeptApart, Reserved
<1>3. /\ slot'[idx[p]] = cur[p] /\ \A t \in Slots \ {idx[p]} : slot'[t] = slot[t]
      /\ pc'[p] = "attach" /\ alloc' = alloc /\ vol' = vol /\ cur' = cur /\ idx' = idx /\ arg' = arg
  BY <1>2 DEF Insert_Volume_to_All_Volumes, Placeholder, Goto, TypeOK
<1>4. \A v \in Ptrs : alloc[v] # "fresh" /\ slot[vol[v].minor] = v => slot'[vol[v].minor] = v
  BY <1>2, <1>3, DistinctAssumption DEF HaveSlot
<1>5. OneDetach'
  BY <1>1, <1>3 DEF KeptApart, OneDetach, OthersStay, Detaching
<1>6. StillThere'
  <2>1. \A q \in Procs : pc'[q] \in {"sync", "detach", "remove"} => pc[q] = pc'[q]
    BY <1>1, <1>3 DEF OthersStay
  <2>2. QED
    BY <1>3, <1>4, <2>1 DEF KeptApart, StillThere, Holders
<1>7. Reserved'
  <2>1. \A q \in Procs : pc'[q] \in {"create", "insert"} =>
          q # p /\ pc[q] = pc'[q] /\ idx[q] \in Slots \ {idx[p]}
    BY <1>1, <1>2, <1>3 DEF OthersStay, AtHand
  <2>2. QED
    BY <1>3, <2>1 DEF KeptApart, Reserved
<1>8. NoneLost'
  <2> SUFFICES ASSUME NEW v \in Ptrs, alloc[v] = "live" PROVE HasPlace(v)'
    BY <1>3 DEF NoneLost
  <2>1. CASE slot[vol[v].minor] = v
    BY <1>3, <1>4, <2>1 DEF HasPlace
  <2>2. CASE v = cur[p]
    BY <1>2, <1>3, <2>2 DEF HasPlace
  <2>3. CASE \E q \in Procs \ {p} : cur[q] = v /\ pc[q] \in {"insert", "relsync", "del"}
    BY <1>1, <2>3 DEF HasPlace, OthersStay
  <2>4. QED
    BY <2>1, <2>2, <2>3 DEF KeptApart, NoneLost, HasPlace
<1>9. QED
  BY <1>5, <1>6, <1>7, <1>8 DEF KeptApart

LEMMA RemoveKeepsApart ==
  ASSUME TableInv, HaveSlot, KeptApart, NEW p \in Procs,
         Remove_Volume_from_All_Volumes(p)
  PROVE  KeptApart'
<1> DEFINE m == vol[cur[p]].minor
<1> USE DEF TableInv
<1>1. OthersStay(p)
  BY OneCallerMoves
<1>2. /\ pc[p] = "remove" /\ cur[p] \in Ptrs /\ slot[m] = cur[p] /\ m \in Slots
      /\ pc'[p] = "relsync" /\ cur' = cur /\ idx' = idx /\ arg' = arg /\ alloc' = alloc /\ vol' = vol
      /\ \A t \in Slots \ {m} : slot'[t] = slot[t]
  <2>1. pc[p] = "remove" /\ cur[p] \in Ptrs /\ slot[m] = cur[p]
    BY DEF Remove_Volume_from_All_Volumes, Uses, Runs, KeptApart, StillThere
  <2>2. m \in Slots
    BY <2>1 DEF HaveSlot, Holders
  <2>3. QED
    BY <2>1, <2>2
    DEF Remove_Volume_from_All_Volumes, Remove_from_Slot, Goto, TypeOK
<1> HIDE DEF m
<1>3. \A v \in Ptrs : alloc[v] # "fresh" /\ slot[vol[v].minor] = v /\ v # cur[p] => slot'[vol[v].minor] = v
  BY <1>2 DEF HaveSlot
<1>4. OneDetach'
  <2>1. \A q \in Procs : pc'[q] \in Detaching => pc[q] \in Detaching
    BY <1>1, <1>2 DEF OthersStay, Detaching
  <2>2. QED
    BY <1>2, <2>1 DEF KeptApart, OneDetach
<1>5. StillThere'
  <2> SUFFICES ASSUME NEW q \in Procs, pc'[q] \in {"sync", "detach", "remove"}
               PROVE  cur[q] \in Ptrs /\ slot'[vol[cur[q]].minor] = cur[q]
    BY <1>2 DEF StillThere
  <2>1. q # p /\ pc[q] = pc'[q]
    BY <1>1, <1>2 DEF OthersStay
  <2>2. cur[q] # cur[p]
    BY <1>2, <2>1 DEF KeptApart, OneDetach, Detaching
  <2>3. QED
    BY <1>3, <2>1, <2>2 DEF KeptApart, StillThere, Holders
<1>6. Reserved'
  <2> SUFFICES ASSUME NEW q \in Procs, pc'[q] \in {"create", "insert"}
               PROVE  /\ slot'[idx[q]] = arg[q]
                      /\ \A r \in Procs \ {q} : pc'[r] \in {"create", "insert"} => idx[r] # idx[q]
    BY <1>2 DEF Reserved
  <2>1. \A r \in Procs : pc'[r] \in {"create", "insert"} => pc[r] = pc'[r]
    BY <1>1, <1>2 DEF OthersStay
  <2>2. slot[idx[q]] = arg[q] /\ arg[q] \in IDs /\ idx[q] \in Slots
    BY <2>1 DEF KeptApart, Reserved, AtHand
  <2>3. idx[q] # m
    BY <1>2, <2>2, DistinctAssumption
  <2>4. QED
    BY <1>2, <2>1, <2>2, <2>3 DEF KeptApart, Reserved
<1>7. NoneLost'
  <2> SUFFICES ASSUME NEW v \in Ptrs, alloc[v] = "live" PROVE HasPlace(v)'
    BY <1>2 DEF NoneLost
  <2>1. CASE v = cur[p]
    BY <1>2, <2>1 DEF HasPlace
  <2>2. CASE v # cur[p] /\ slot[vol[v].minor] = v
    BY <1>2, <1>3, <2>2 DEF HasPlace
  <2>3. CASE \E q \in Procs : cur[q] = v /\ pc[q] \in {"insert", "relsync", "del"}
    BY <1>1, <1>2, <2>3 DEF HasPlace, OthersStay
  <2>4. QED
    BY <2>1, <2>2, <2>3 DEF KeptApart, NoneLost, HasPlace
<1>8. QED
  BY <1>4, <1>5, <1>6, <1>7 DEF KeptApart

LEMMA ReleaseKeepsApart ==
  ASSUME TableInv, KeptApart, NEW p \in Procs, Release_Volume(p)
  PROVE  KeptApart'
<1> USE DEF TableInv
<1>1. OthersStay(p)
  BY OneCallerMoves
<1>2. /\ pc[p] = "del" /\ pc'[p] = "idle" /\ cur[p] \in Ptrs \cup {"none"} /\ slot' = slot
      /\ \A v \in Ptrs : /\ vol'[v].minor = vol[v].minor
                         /\ alloc'[v] = IF v = cur[p] THEN "released" ELSE alloc[v]
  BY DEF Release_Volume, Uses, Runs, Return, TypeOK, VolumeType
<1>3. OneDetach'
  BY <1>1, <1>2 DEF KeptApart, OneDetach, OthersStay, Detaching
<1>4. StillThere'
  BY <1>1, <1>2 DEF KeptApart, StillThere, OthersStay
<1>5. Reserved'
  BY <1>1, <1>2 DEF KeptApart, Reserved, OthersStay
<1>6. NoneLost'
  <2> SUFFICES ASSUME NEW v \in Ptrs, alloc'[v] = "live" PROVE HasPlace(v)'
    BY DEF NoneLost
  <2>1. v # cur[p] /\ alloc[v] = "live"
    BY <1>2
  <2>2. QED
    BY <1>1, <1>2, <2>1 DEF KeptApart, NoneLost, HasPlace, OthersStay
<1>7. QED
  BY <1>3, <1>4, <1>5, <1>6 DEF KeptApart

LEMMA NextKeepsApart ==
  ASSUME NullIDs = {}, LostInv, [Next]_vars
  PROVE  LostInv'
<1>1. TableInv' /\ HaveSlot'
  BY NextKeepsTable, NextKeepsSlots DEF LostInv
<1>2. ASSUME late' \cap Procs = {} PROVE KeptApart'
  <2>1. KeptApart
    BY <1>2, LateGrows DEF LostInv
  <2>2. CASE StepOfOthers
    <3>1. UNCHANGED pvars
      BY <2>2 DEF StepOfOthers, Open_DMS_Volume, Close_DMS_Volume, Crash, vars
    <3>2. \A q \in Procs : Calm(q)
      BY <3>1 DEF pvars, Calm
    <3>3. QED
      BY <2>1, <2>2, <3>2, TableAlone, CalmStep DEF LostInv, TableInv
  <2>3. ASSUME NEW p \in Procs, Create_and_Insert_DMS_Volume(p) PROVE KeptApart'
    BY <2>1, <2>3, OccupyKeepsApart, CreateKeepsApart, InsertKeepsApart
    DEF Create_and_Insert_DMS_Volume, LostInv
  <2>4. QED
    BY <1>2, <2>1, <2>2, <2>3, StepCases, OtherStepKeepsApart, RemoveKeepsApart, ReleaseKeepsApart
    DEF LostInv
<1>3. QED
  BY <1>1, <1>2 DEF LostInv

LEMMA InitApart == Init => LostInv
<1> SUFFICES ASSUME Init PROVE LostInv
  OBVIOUS
<1>1. HaveSlot /\ KeptApart
  BY DEF Init, HaveSlot, KeptApart, OneDetach, StillThere, Reserved, NoneLost, Detaching
<1>2. QED
  BY <1>1, InitTable DEF LostInv

\* Every live volume can be found in the table, or a caller is about to publish or release it,
\* until two detaches of one volume overlap, as long as no ID is NULL when it is cast to a
\* pointer (an attach that fails frees the slot that its ID 0 has not reserved).
THEOREM NoVolumeIsLost == ASSUME NullIDs = {} PROVE Spec => []NoLostVolume
<1>1. Init => LostInv
  BY InitApart
<1>2. LostInv /\ [Next]_vars => LostInv'
  BY NextKeepsApart
<1>3. LostInv => NoLostVolume
  BY DEF LostInv, KeptApart, NoneLost, HasPlace, NoLostVolume
<1>4. QED
  BY <1>1, <1>2, <1>3, PTL DEF Spec
-----------------------------------------------------------------------------
(* The open counter.                                                        *)

\* An attach that adds the disk has its volume at hand, and an open disk was allocated.
Disks ==
    /\ \A p \in Procs : pc[p] \in {"attach", "selfopen", "selfclose"} => cur[p] \in Ptrs
    /\ \A u \in Users : handle[u] # "none" => alloc[handle[u]] # "fresh"

\* A volume that is not published yet has not been opened.
Unopened ==
    \A p \in Procs : pc[p] = "insert" => vol[cur[p]].opens = 0 /\ ~vol[cur[p]].up

\* Until somebody comes late: a volume that is open stays in the table, with nobody
\* detaching it, and its counter is exact.
Stays(v) == v \in Ptrs /\ slot[vol[v].minor] = v /\ ~BeingDetached(v)
OpenersStay == \A u \in Users : handle[u] # "none" => Stays(handle[u])
SelfOpensStay == \A p \in Procs : pc[p] = "selfclose" => Stays(cur[p])
Exact(v) ==
    /\ IsFiniteSet(OpenersOf(v)) /\ IsFiniteSet(SelfOpens(v))
    /\ vol[v].opens = Cardinality(OpenersOf(v)) + Cardinality(SelfOpens(v))
Counted == \A s \in Slots : slot[s] \in Ptrs => Exact(slot[s])

Steady == OpenersStay /\ SelfOpensStay /\ Counted
CountInv == LostInv /\ Disks /\ Unopened /\ (late = {} => Steady)

LEMMA NextKeepsDisks ==
  ASSUME TableInv, HaveSlot, Disks, [Next]_vars
  PROVE  Disks'
<1> USE DEF TableInv
<1>1. ASSUME NEW p \in Procs, pc'[p] \in {"attach", "selfopen", "selfclose"}
      PROVE  cur'[p] \in Ptrs
  <2>1. CASE StepOfOthers
    BY <1>1, <2>1 DEF StepOfOthers, Open_DMS_Volume, Close_DMS_Volume, Crash, vars, pvars, Disks
  <2>2. ASSUME NEW q \in Procs \ {p}, OthersStay(q) PROVE cur'[p] \in Ptrs
    BY <1>1, <2>2 DEF OthersStay, Disks
  <2>3. CASE Create_and_Insert_DMS_Volume(p)
    BY <1>1, <2>3
    DEF Create_and_Insert_DMS_Volume, Occupy_in_All_Volumes, Create_Volume,
        Insert_Volume_to_All_Volumes, Runs, Goto, Return, AtHand, TypeOK
  <2>4. CASE Remove_Volume_from_All_Volumes(p) \/ Release_Volume(p)
    BY <1>1, <2>4 DEF Remove_Volume_from_All_Volumes, Release_Volume, Goto, Return, TypeOK
  <2>5. CASE OtherStep(p)
    <3>1. CASE Sleep(p)
      BY <1>1, <3>1 DEF Sleep, pvars, Disks
    <3>2. CASE Attach_Volume(p) \/ Self_Open(p) \/ Self_Close(p)
      BY <1>1, <3>2 DEF Attach_Volume, Self_Open, Self_Close, Runs, Goto, Return, Disks, TypeOK
    <3>3. CASE \/ \E i \in IDs : DMS_Attach_Volume(p, i) \/ DMS_Detach_Volume(p, i)
               \/ Detach_Volume_Prep(p) \/ Detach_Volume(p)
               \/ Release_Kernel_Device_Structure(p)
      BY <1>1, <3>3
      DEF DMS_Attach_Volume, DMS_Detach_Volume, Detach_Volume_Prep, Detach_Volume,
          Release_Kernel_Device_Structure, Goto, TypeOK
    <3>4. QED
      BY <2>5, <3>1, <3>2, <3>3 DEF OtherStep
  <2>6. QED
    BY <2>1, <2>2, <2>3, <2>4, <2>5, StepCases, OneCallerMoves
<1>2. \A v \in Ptrs : alloc[v] # "fresh" => alloc'[v] # "fresh"
  <2>1. CASE StepOfOthers \/ \E p \in Procs : OtherStep(p)
    BY <2>1, TableAlone
  <2>2. ASSUME NEW p \in Procs, Create_and_Insert_DMS_Volume(p)
        PROVE  \A v \in Ptrs : alloc[v] # "fresh" => alloc'[v] # "fresh"
    BY <2>2
    DEF Create_and_Insert_DMS_Volume, Occupy_in_All_Volumes, Create_Volume,
        Insert_Volume_to_All_Volumes, TypeOK
  <2>3. ASSUME NEW p \in Procs, Remove_Volume_from_All_Volumes(p) \/ Release_Volume(p)
        PROVE  \A v \in Ptrs : alloc[v] # "fresh" => alloc'[v] # "fresh"
    BY <2>3 DEF Remove_Volume_from_All_Volumes, Release_Volume, TypeOK
  <2>4. QED
    BY <2>1, <2>2, <2>3, StepCases
<1>3. ASSUME NEW u \in Users, handle'[u] # "none" PROVE alloc'[handle'[u]] # "fresh"
  <2>1. handle'[u] = handle[u] \/ (handle'[u] \in Ptrs /\ alloc[handle'[u]] # "fresh")
    <3>1. CASE StepOfOthers
      BY <1>3, <3>1
      DEF StepOfOthers, Open_DMS_Volume, Close_DMS_Volume, Reachable, Crash, vars, users, TypeOK
    <3>2. CASE \E p \in Procs : OtherStep(p)
      BY <3>2
      DEF OtherStep, DMS_Attach_Volume, DMS_Detach_Volume, Sleep, Attach_Volume, Self_Open,
          Self_Close, Detach_Volume_Prep, Detach_Volume, Release_Kernel_Device_Structure, users
    <3>3. CASE \E p \in Procs : \/ Create_and_Insert_DMS_Volume(p)
                                \/ Remove_Volume_from_All_Volumes(p)
                                \/ Release_Volume(p)
      BY <3>3
      DEF Create_and_Insert_DMS_Volume, Occupy_in_All_Volumes, Create_Volume,
          Insert_Volume_to_All_Volumes, Remove_Volume_from_All_Volumes, Release_Volume, users
    <3>4. QED
      BY <3>1, <3>2, <3>3, StepCases
  <2>2. handle'[u] \in Ptrs /\ alloc[handle'[u]] # "fresh"
    BY <1>3, <2>1 DEF Disks, TypeOK
  <2>3. QED
    BY <1>2, <2>2
<1>4. QED
  BY <1>1, <1>3 DEF Disks

\* An open or a close counts for the volume in the slot, and for that one only.
LEMMA CountOne ==
  ASSUME TypeOK, NEW w \in Ptrs, Opened(w) \/ Closed(w)
  PROVE  /\ \A v \in Ptrs \ {w} : vol'[v] = vol[v]
         /\ Opened(w) => vol'[w].opens = vol[w].opens + 1
         /\ Closed(w) => vol'[w].opens = vol[w].opens - 1
<1>1. vol \in [Ptrs -> VolumeType]
  BY DEF TypeOK
<1>2. ASSUME Opened(w)
      PROVE  vol'[w].opens = vol[w].opens + 1 /\ \A v \in Ptrs \ {w} : vol'[v] = vol[v]
  BY <1>1, <1>2 DEF Opened, VolumeType
<1>3. ASSUME Closed(w)
      PROVE  vol'[w].opens = vol[w].opens - 1 /\ \A v \in Ptrs \ {w} : vol'[v] = vol[v]
  BY <1>1, <1>3 DEF Closed, VolumeType
<1>4. QED
  BY <1>2, <1>3

\* Which fields a step changes: those of a volume at hand, of a volume in the table, or of
\* one that was not allocated.
LEMMA FieldsChanged ==
  ASSUME TableInv, HaveSlot, Disks, [Next]_vars, NEW v \in Ptrs, vol'[v] # vol[v]
  PROVE  \/ \E p \in Procs : cur[p] = v /\ pc[p] # "insert" /\ vol'[v].opens = vol[v].opens
         \/ \E s \in Slots : slot[s] = v
         \/ alloc[v] = "fresh"
<1> USE DEF TableInv
<1>1. ASSUME NEW d \in Ptrs, alloc[d] # "fresh", slot[vol[d].minor] \in Ptrs,
             Opened(slot[vol[d].minor]) \/ Closed(slot[vol[d].minor])
      PROVE  \E s \in Slots : slot[s] = v
  BY <1>1, CountOne DEF HaveSlot
<1>2. CASE StepOfOthers
  <2>1. ASSUME NEW u \in Users, NEW d \in Ptrs, Open_DMS_Volume(u, d)
        PROVE  \E s \in Slots : slot[s] = v
    BY <1>1, <2>1 DEF Open_DMS_Volume, Reachable, CanOpen
  <2>2. ASSUME NEW u \in Users, Close_DMS_Volume(u) PROVE \E s \in Slots : slot[s] = v
    BY <1>1, <2>2 DEF Close_DMS_Volume, Disks, TypeOK
  <2>3. QED
    BY <1>2, <2>1, <2>2 DEF StepOfOthers, Crash, vars
<1>3. ASSUME NEW p \in Procs, OtherStep(p) \/ Release_Volume(p)
      PROVE  \/ cur[p] = v /\ pc[p] # "insert" /\ vol'[v].opens = vol[v].opens
             \/ \E s \in Slots : slot[s] = v
  <2>1. vol \in [Ptrs -> VolumeType]
    BY DEF TypeOK
  <2>2. CASE Attach_Volume(p)
    BY <2>1, <2>2 DEF Attach_Volume, Runs, VolumeType
  <2>3. CASE Detach_Volume_Prep(p)
    BY <2>1, <2>3 DEF Detach_Volume_Prep, Uses, Runs, VolumeType
  <2>4. CASE Detach_Volume(p)
    BY <2>1, <2>4 DEF Detach_Volume, Uses, Runs, VolumeType
  <2>5. CASE Release_Volume(p)
    BY <2>1, <2>5 DEF Release_Volume, Uses, Runs, VolumeType
  <2>6. CASE Self_Open(p)
    <3>1. cur[p] \in Ptrs /\ alloc[cur[p]] # "fresh"
      BY <2>6 DEF Self_Open, Runs, Disks, Holders
    <3>2. QED
      BY <1>1, <2>6, <3>1 DEF Self_Open, CanOpen
  <2>7. CASE Self_Close(p)
    <3>1. cur[p] \in Ptrs /\ alloc[cur[p]] # "fresh"
      BY <2>7 DEF Self_Close, Runs, Disks, Holders
    <3>2. QED
      BY <1>1, <2>7, <3>1 DEF Self_Close
  <2>8. QED
    BY <1>3, <2>2, <2>3, <2>4, <2>5, <2>6, <2>7
    DEF OtherStep, DMS_Attach_Volume, DMS_Detach_Volume, Sleep, Release_Kernel_Device_Structure
<1>4. ASSUME NEW p \in Procs, Create_and_Insert_DMS_Volume(p) PROVE alloc[v] = "fresh"
  BY <1>4
  DEF Create_and_Insert_DMS_Volume, Occupy_in_All_Volumes, Create_Volume,
      Insert_Volume_to_All_Volumes, TypeOK
<1>5. ASSUME NEW p \in Procs, Remove_Volume_from_All_Volumes(p) PROVE FALSE
  BY <1>5 DEF Remove_Volume_from_All_Volumes
<1>6. QED
  BY <1>2, <1>3, <1>4, <1>5, StepCases

LEMMA NextKeepsUnopened ==
  ASSUME TableInv, HaveSlot, Disks, Unopened, [Next]_vars
  PROVE  Unopened'
<1> USE DEF TableInv
<1> SUFFICES ASSUME NEW p \in Procs, pc'[p] = "insert"
             PROVE  vol'[cur'[p]].opens = 0 /\ ~vol'[cur'[p]].up
  BY DEF Unopened
<1>1. CASE Create_Volume(p)
  BY <1>1 DEF Create_Volume, NewVolume, Runs, Goto, Return, TypeOK
<1>2. CASE pc[p] = "insert" /\ cur'[p] = cur[p]
  <2>1. /\ cur[p] \in Ptrs /\ alloc[cur[p]] = "live"
        /\ \A q \in Procs \ {p} : cur[q] # cur[p]
        /\ \A s \in Slots : slot[s] # cur[p]
    BY <1>2 DEF AtHand, Holders
  <2>2. vol'[cur[p]] = vol[cur[p]]
    BY <1>2, <2>1, FieldsChanged
  <2>3. QED
    BY <1>2, <2>2 DEF Unopened
<1>3. CASE ~Create_Volume(p)
  <2>1. CASE StepOfOthers
    BY <1>2, <2>1 DEF StepOfOthers, Open_DMS_Volume, Close_DMS_Volume, Crash, vars, pvars
  <2>2. ASSUME NEW q \in Procs \ {p}, OthersStay(q) PROVE pc[p] = "insert" /\ cur'[p] = cur[p]
    BY <2>2 DEF OthersStay
  <2>3. CASE \/ Occupy_in_All_Volumes(p) \/ Insert_Volume_to_All_Volumes(p)
             \/ Remove_Volume_from_All_Volumes(p) \/ Release_Volume(p)
    BY <2>3
    DEF Occupy_in_All_Volumes, Insert_Volume_to_All_Volumes, Remove_Volume_from_All_Volumes,
        Release_Volume, Goto, Return, TypeOK
  <2>4. CASE OtherStep(p)
    BY <1>2, <2>4
    DEF OtherStep, DMS_Attach_Volume, DMS_Detach_Volume, Sleep, Attach_Volume, Self_Open, Self_Close,
        Detach_Volume_Prep, Detach_Volume, Release_Kernel_Device_Structure, Goto, Return, pvars,
        TypeOK
  <2>5. QED
    BY <1>2, <1>3, <2>1, <2>2, <2>3, <2>4, StepCases, OneCallerMoves DEF Create_and_Insert_DMS_Volume
<1>4. QED
  BY <1>1, <1>3

-----------------------------------------------------------------------------
(* Steps that do not count.                                                 *)

\* What is open stays, nobody opens or closes, and what is published has not been opened.
LEMMA SteadyStep ==
  ASSUME Steady, handle' = handle,
         \A p \in Procs : pc'[p] = "selfclose" <=> pc[p] = "selfclose",
         \A p \in Procs : pc[p] = "selfclose" => cur'[p] = cur[p],
         \A v \in Ptrs : Stays(v) /\ (OpenersOf(v) # {} \/ SelfOpens(v) # {}) => Stays(v)',
         \A s \in Slots : slot'[s] \in Ptrs =>
            \/ slot'[s] = slot[s] /\ vol'[slot[s]].opens = vol[slot[s]].opens
            \/ /\ vol'[slot'[s]].opens = 0
               /\ OpenersOf(slot'[s]) = {} /\ SelfOpens(slot'[s]) = {}
  PROVE  Steady'
<1>1. \A v : OpenersOf(v)' = OpenersOf(v) /\ SelfOpens(v)' = SelfOpens(v)
  BY DEF OpenersOf, SelfOpens
<1>2. OpenersStay'
  <2> SUFFICES ASSUME NEW u \in Users, handle[u] # "none" PROVE Stays(handle[u])'
    BY DEF OpenersStay
  <2>1. Stays(handle[u]) /\ u \in OpenersOf(handle[u])
    BY DEF Steady, OpenersStay, OpenersOf
  <2>2. handle[u] \in Ptrs
    BY <2>1 DEF Stays
  <2>3. QED
    BY <2>1, <2>2
<1>3. SelfOpensStay'
  <2> SUFFICES ASSUME NEW p \in Procs, pc[p] = "selfclose" PROVE Stays(cur[p])'
    BY DEF SelfOpensStay
  <2>1. Stays(cur[p]) /\ p \in SelfOpens(cur[p])
    BY DEF Steady, SelfOpensStay, SelfOpens
  <2>2. cur[p] \in Ptrs
    BY <2>1 DEF Stays
  <2>3. QED
    BY <2>1, <2>2
<1>4. Counted'
  <2> SUFFICES ASSUME NEW s \in Slots, NEW v \in Ptrs, slot'[s] = v PROVE Exact(v)'
    BY DEF Counted, Exact, OpenersOf, SelfOpens
  <2>1. CASE slot[s] = v /\ vol'[v].opens = vol[v].opens
    <3>1. Exact(v)
      BY <2>1 DEF Steady, Counted
    <3>2. QED
      BY <1>1, <2>1, <3>1 DEF Exact
  <2>2. CASE vol'[v].opens = 0 /\ OpenersOf(v) = {} /\ SelfOpens(v) = {}
    BY <1>1, <2>2, FS_EmptySet DEF Exact
  <2>3. QED
    BY <2>1, <2>2
<1>5. QED
  BY <1>2, <1>3, <1>4 DEF Steady

\* The steps that set other fields of the volume at hand keep its counter.
LEMMA FieldsOfOthers ==
  ASSUME TypeOK, NEW p \in Procs,
         \/ Attach_Volume(p)
         \/ Detach_Volume_Prep(p)
         \/ Detach_Volume(p)
         \/ Release_Volume(p)
  PROVE  \A v \in Ptrs : vol'[v].opens = vol[v].opens /\ vol'[v].minor = vol[v].minor
<1>1. vol \in [Ptrs -> VolumeType]
  BY DEF TypeOK
<1>2. CASE Attach_Volume(p)
  BY <1>1, <1>2 DEF Attach_Volume, VolumeType
<1>3. CASE Detach_Volume_Prep(p)
  BY <1>1, <1>3 DEF Detach_Volume_Prep, VolumeType
<1>4. CASE Detach_Volume(p)
  BY <1>1, <1>4 DEF Detach_Volume, VolumeType
<1>5. CASE Release_Volume(p)
  BY <1>1, <1>5 DEF Release_Volume, VolumeType
<1>6. QED
  BY <1>2, <1>3, <1>4, <1>5

\* Detaching v, here or after the step, is Detaching of some caller.
LEMMA DetachedBy ==
  ASSUME NEW v
  PROVE  /\ BeingDetached(v) <=> \E p \in Procs : cur[p] = v /\ pc[p] \in Detaching
         /\ BeingDetached(v)' <=> \E p \in Procs : cur'[p] = v /\ pc'[p] \in Detaching
BY DEF BeingDetached, Detaching

\* A volume in the table that nobody detaches stays so, unless the step frees its slot or
\* begins to detach it.
LEMMA StaysStep ==
  ASSUME NEW v, Stays(v), NEW p \in Procs, OthersStay(p),
         vol'[v].minor = vol[v].minor, slot'[vol[v].minor] = v,
         pc'[p] \in Detaching => cur'[p] # v \/ (pc[p] \in Detaching /\ cur'[p] = cur[p])
  PROVE  Stays(v)'
<1>1. ASSUME NEW q \in Procs, cur'[q] = v, pc'[q] \in Detaching
      PROVE  cur[q] = v /\ pc[q] \in Detaching
  BY <1>1 DEF OthersStay
<1>2. ~BeingDetached(v)'
  BY <1>1, DetachedBy DEF Stays
<1>3. QED
  BY <1>2 DEF Stays

\* What is open was allocated.
LEMMA OpenIsAllocated ==
  ASSUME TableInv, Disks, NEW v \in Ptrs, OpenersOf(v) # {} \/ SelfOpens(v) # {}
  PROVE  alloc[v] # "fresh"
BY DistinctAssumption DEF TableInv, Holders, Disks, OpenersOf, SelfOpens

\* A step of an attach or a detach that neither opens nor closes.
Uncounted(p) ==
    \/ \E i \in IDs : DMS_Attach_Volume(p, i)
    \/ Sleep(p)
    \/ Attach_Volume(p)
    \/ Self_Open(p) /\ ~CanOpen(cur[p])
    \/ Detach_Volume_Prep(p)
    \/ Detach_Volume(p)
    \/ Release_Kernel_Device_Structure(p)

LEMMA UncountedStep ==
  ASSUME TableInv, HaveSlot, Disks, Steady, NEW p \in Procs, Uncounted(p)
  PROVE  Steady'
<1> USE DEF TableInv
<1>1. OtherStep(p)
  BY DEF Uncounted, OtherStep
<1>2. OthersStay(p) /\ slot' = slot /\ \A v \in Ptrs : vol'[v].minor = vol[v].minor
  BY <1>1, OneCallerMoves, TableAlone
<1>3. handle' = handle /\ \A v \in Ptrs : vol'[v].opens = vol[v].opens
  <2>1. CASE Attach_Volume(p) \/ Detach_Volume_Prep(p) \/ Detach_Volume(p)
    BY <2>1, FieldsOfOthers DEF Attach_Volume, Detach_Volume_Prep, Detach_Volume, users
  <2>2. CASE \/ \E i \in IDs : DMS_Attach_Volume(p, i)
             \/ Sleep(p)
             \/ Self_Open(p) /\ ~CanOpen(cur[p])
             \/ Release_Kernel_Device_Structure(p)
    BY <2>2 DEF DMS_Attach_Volume, Sleep, Self_Open, Release_Kernel_Device_Structure, users
  <2>3. QED
    BY <2>1, <2>2 DEF Uncounted
<1>4. /\ pc'[p] = "selfclose" <=> pc[p] = "selfclose"
      /\ pc[p] = "selfclose" => cur'[p] = cur[p]
      /\ pc'[p] \in Detaching => pc[p] \in Detaching /\ cur'[p] = cur[p]
  <2>1. CASE Sleep(p)
    BY <2>1 DEF Sleep, pvars
  <2>2. CASE \/ \E i \in IDs : DMS_Attach_Volume(p, i)
             \/ Attach_Volume(p)
             \/ Self_Open(p) /\ ~CanOpen(cur[p])
    BY <2>2
    DEF DMS_Attach_Volume, Attach_Volume, Self_Open, Start, Runs, Goto, Return, Detaching, TypeOK
  <2>3. CASE \/ Detach_Volume_Prep(p) \/ Detach_Volume(p)
             \/ Release_Kernel_Device_Structure(p)
    BY <2>3
    DEF Detach_Volume_Prep, Detach_Volume, Release_Kernel_Device_Structure, Uses, Runs, Goto,
        Detaching, TypeOK
  <2>4. QED
    BY <2>1, <2>2, <2>3 DEF Uncounted
<1>5. \A q \in Procs : /\ pc'[q] = "selfclose" <=> pc[q] = "selfclose"
                       /\ pc[q] = "selfclose" => cur'[q] = cur[q]
  BY <1>2, <1>4 DEF OthersStay
<1>6. \A v \in Ptrs : Stays(v) => Stays(v)'
  <2> SUFFICES ASSUME NEW v \in Ptrs, Stays(v) PROVE Stays(v)'
    OBVIOUS
  <2>1. slot'[vol[v].minor] = v
    BY <1>2 DEF Stays
  <2>2. QED
    BY <1>2, <1>4, <2>1, StaysStep
<1>7. QED
  BY <1>2, <1>3, <1>5, <1>6, SteadyStep

LEMMA DetachKeepsSteady ==
  ASSUME TableInv, HaveSlot, Disks, Steady, NEW p \in Procs, NEW i \in IDs, DMS_Detach_Volume(p, i)
  PROVE  Steady'
<1> USE DEF TableInv
<1>1. OtherStep(p)
  BY DEF OtherStep
<1>2. OthersStay(p) /\ slot' = slot /\ vol' = vol /\ handle' = handle
  BY <1>1, OneCallerMoves DEF DMS_Detach_Volume
<1>3. PICK s \in Slots : slot[s] \in Ptrs /\ vol[slot[s]].opens = 0 /\ cur'[p] = slot[s]
  BY DEF DMS_Detach_Volume, Matches, TypeOK
<1>4. pc[p] = "idle" /\ pc'[p] = "sync"
  BY DEF DMS_Detach_Volume, Start, Goto, TypeOK
<1>5. OpenersOf(slot[s]) = {} /\ SelfOpens(slot[s]) = {}
  <2>1. Exact(slot[s])
    BY <1>3 DEF Steady, Counted
  <2>2. /\ Cardinality(OpenersOf(slot[s])) \in Nat /\ Cardinality(SelfOpens(slot[s])) \in Nat
        /\ Cardinality(OpenersOf(slot[s])) + Cardinality(SelfOpens(slot[s])) = 0
    BY <1>3, <2>1, FS_CardinalityType DEF Exact
  <2>3. Cardinality(OpenersOf(slot[s])) = 0 /\ Cardinality(SelfOpens(slot[s])) = 0
    BY <2>2
  <2>4. QED
    BY <2>1, <2>3, FS_EmptySet DEF Exact
<1>6. \A q \in Procs : /\ pc'[q] = "selfclose" <=> pc[q] = "selfclose"
                       /\ pc[q] = "selfclose" => cur'[q] = cur[q]
  BY <1>2, <1>4 DEF OthersStay
<1>7. \A v \in Ptrs : Stays(v) /\ v # slot[s] => Stays(v)'
  <2> SUFFICES ASSUME NEW v \in Ptrs, Stays(v), v # slot[s] PROVE Stays(v)'
    OBVIOUS
  <2>1. slot'[vol[v].minor] = v
    BY <1>2 DEF Stays
  <2>2. QED
    BY <1>2, <1>3, <2>1, StaysStep
<1>8. QED
  BY <1>2, <1>5, <1>6, <1>7, SteadyStep

\* A step that changes the table: who is open keeps his volume there.
LEMMA OccupyKeepsSteady ==
  ASSUME TableInv, HaveSlot, Disks, Steady, NEW p \in Procs, Occupy_in_All_Volumes(p)
  PROVE  Steady'
<1> USE DEF TableInv
<1>1. OthersStay(p) /\ vol' = vol /\ handle' = handle
  BY OneCallerMoves DEF Create_and_Insert_DMS_Volume, Occupy_in_All_Volumes, users
<1>2. pc[p] = "occupy" /\ arg[p] \in IDs /\ pc'[p] \in {"idle", "create"}
  BY DEF Occupy_in_All_Volumes, Runs, Goto, Return, AtHand, TypeOK
<1>3. \A s \in Slots : slot'[s] = slot[s] \/ (slot[s] = "null" /\ slot'[s] \notin Ptrs)
  BY <1>2, DistinctAssumption DEF Occupy_in_All_Volumes, FreeSlots, Placeholder, TypeOK
<1>4. \A q \in Procs : /\ pc'[q] = "selfclose" <=> pc[q] = "selfclose"
                       /\ pc[q] = "selfclose" => cur'[q] = cur[q]
  BY <1>1, <1>2 DEF OthersStay
<1>5. \A v \in Ptrs : Stays(v) /\ alloc[v] # "fresh" => Stays(v)'
  <2> SUFFICES ASSUME NEW v \in Ptrs, Stays(v), alloc[v] # "fresh" PROVE Stays(v)'
    OBVIOUS
  <2>1. slot'[vol[v].minor] = v
    BY <1>3, DistinctAssumption DEF Stays, HaveSlot
  <2>2. QED
    BY <1>1, <1>2, <2>1, StaysStep DEF Detaching
<1>6. QED
  BY <1>1, <1>3, <1>4, <1>5, SteadyStep, OpenIsAllocated

LEMMA CreateKeepsSteady ==
  ASSUME NullIDs = {}, TableInv, HaveSlot, Disks, KeptApart, Steady, NEW p \in Procs, Create_Volume(p)
  PROVE  Steady'
<1> USE DEF TableInv
<1>1. OthersStay(p) /\ handle' = handle
  BY OneCallerMoves DEF Create_and_Insert_DMS_Volume, Create_Volume, users
<1>2. /\ pc[p] = "create" /\ pc'[p] \in {"idle", "insert"}
      /\ idx[p] \in Slots /\ slot[idx[p]] \in IDs
  BY DEF Create_Volume, Runs, Goto, Return, AtHand, KeptApart, Reserved, TypeOK
<1>3. \A s \in Slots : slot'[s] = slot[s] \/ (slot[s] \in IDs /\ slot'[s] = "null")
  BY <1>2 DEF Create_Volume, Remove_from_Slot, TypeOK
<1>4. \A v \in Ptrs : alloc[v] # "fresh" => vol'[v] = vol[v]
  BY DEF Create_Volume, TypeOK
<1>5. \A q \in Procs : /\ pc'[q] = "selfclose" <=> pc[q] = "selfclose"
                       /\ pc[q] = "selfclose" => cur'[q] = cur[q]
  BY <1>1, <1>2 DEF OthersStay
<1>6. \A v \in Ptrs : Stays(v) /\ alloc[v] # "fresh" => Stays(v)'
  <2> SUFFICES ASSUME NEW v \in Ptrs, Stays(v), alloc[v] # "fresh" PROVE Stays(v)'
    OBVIOUS
  <2>1. slot'[vol[v].minor] = v
    BY <1>3, DistinctAssumption DEF Stays, HaveSlot
  <2>2. QED
    BY <1>1, <1>2, <1>4, <2>1, StaysStep DEF Detaching
<1>7. \A s \in Slots : slot'[s] \in Ptrs =>
         slot'[s] = slot[s] /\ vol'[slot[s]].opens = vol[slot[s]].opens
  <2>1. \A s \in Slots : slot[s] \in Ptrs => alloc[slot[s]] # "fresh"
    BY DEF TableHoldsLiveVolumes
  <2>2. QED
    BY <1>3, <1>4, <2>1, DistinctAssumption
<1>8. QED
  BY <1>1, <1>5, <1>6, <1>7, SteadyStep, OpenIsAllocated

LEMMA InsertKeepsSteady ==
  ASSUME NullIDs = {}, TableInv, HaveSlot, Disks, Unopened, KeptApart, Steady, NEW p \in Procs,
         Insert_Volume_to_All_Volumes(p)
  PROVE  Steady'
<1> USE DEF TableInv
<1>1. OthersStay(p) /\ vol' = vol /\ handle' = handle
  BY OneCallerMoves DEF Create_and_Insert_DMS_Volume, Insert_Volume_to_All_Volumes, users
<1>2. /\ pc[p] = "insert" /\ arg[p] \in IDs /\ idx[p] \in Slots /\ cur[p] \in Ptrs
      /\ slot[idx[p]] = arg[p] /\ vol[cur[p]].opens = 0
      /\ alloc[cur[p]] = "live" /\ \A s \in Slots : slot[s] # cur[p]
  BY DEF Insert_Volume_to_All_Volumes, Runs, AtHand, Holders, KeptApart, Reserved, Unopened
<1>3. /\ slot'[idx[p]] = cur[p] /\ \A t \in Slots \ {idx[p]} : slot'[t] = slot[t]
      /\ pc'[p] = "attach"
  BY <1>2 DEF Insert_Volume_to_All_Volumes, Placeholder, Goto, TypeOK
<1>4. \A q \in Procs : /\ pc'[q] = "selfclose" <=> pc[q] = "selfclose"
                       /\ pc[q] = "selfclose" => cur'[q] = cur[q]
  BY <1>1, <1>2, <1>3 DEF OthersStay
<1>5. \A v \in Ptrs : Stays(v) /\ alloc[v] # "fresh" => Stays(v)'
  <2> SUFFICES ASSUME NEW v \in Ptrs, Stays(v), alloc[v] # "fresh" PROVE Stays(v)'
    OBVIOUS
  <2>1. slot'[vol[v].minor] = v
    BY <1>2, <1>3, DistinctAssumption DEF Stays, HaveSlot
  <2>2. QED
    BY <1>1, <1>3, <2>1, StaysStep DEF Detaching
<1>6. OpenersOf(cur[p]) = {} /\ SelfOpens(cur[p]) = {}
  <2>1. ~Stays(cur[p])
    BY <1>2 DEF Stays, HaveSlot
  <2>2. QED
    BY <1>2, <2>1, DistinctAssumption DEF Steady, OpenersStay, SelfOpensStay, OpenersOf, SelfOpens
<1>7. QED
  BY <1>1, <1>2, <1>3, <1>4, <1>5, <1>6, SteadyStep, OpenIsAllocated

LEMMA RemoveKeepsSteady ==
  ASSUME TableInv, HaveSlot, Disks, KeptApart, Steady, NEW p \in Procs,
         Remove_Volume_from_All_Volumes(p)
  PROVE  Steady'
<1> USE DEF TableInv
<1>1. OthersStay(p) /\ vol' = vol /\ cur' = cur /\ handle' = handle
  BY OneCallerMoves DEF Remove_Volume_from_All_Volumes, users
<1>2. /\ pc[p] = "remove" /\ pc'[p] = "relsync"
      /\ cur[p] \in Ptrs /\ slot[vol[cur[p]].minor] = cur[p]
  BY DEF Remove_Volume_from_All_Volumes, Uses, Runs, Goto, KeptApart, StillThere, TypeOK
<1>3. \A s \in Slots : slot'[s] = IF s = vol[cur[p]].minor THEN "null" ELSE slot[s]
  BY DEF Remove_Volume_from_All_Volumes, Remove_from_Slot, TypeOK
<1>4. \A q \in Procs : /\ pc'[q] = "selfclose" <=> pc[q] = "selfclose"
                       /\ pc[q] = "selfclose" => cur'[q] = cur[q]
  BY <1>1, <1>2 DEF OthersStay
<1>5. \A v \in Ptrs : Stays(v) /\ alloc[v] # "fresh" => Stays(v)'
  <2> SUFFICES ASSUME NEW v \in Ptrs, Stays(v), alloc[v] # "fresh" PROVE Stays(v)'
    OBVIOUS
  <2>1. v # cur[p]
    BY <1>2, DetachedBy DEF Stays, Detaching
  <2>2. slot'[vol[v].minor] = v
    BY <1>2, <1>3, <2>1 DEF Stays, HaveSlot
  <2>3. QED
    BY <1>1, <2>1, <2>2, StaysStep
<1>6. QED
  BY <1>1, <1>3, <1>4, <1>5, SteadyStep, OpenIsAllocated, DistinctAssumption

LEMMA ReleaseKeepsSteady ==
  ASSUME TableInv, Disks, Steady, NEW p \in Procs, Release_Volume(p)
  PROVE  Steady'
<1> USE DEF TableInv
<1>1. OthersStay(p) /\ slot' = slot /\ handle' = handle
  BY OneCallerMoves DEF Release_Volume, users
<1>2. pc[p] = "del" /\ pc'[p] = "idle"
  BY DEF Release_Volume, Uses, Runs, Return, TypeOK
<1>3. \A v \in Ptrs : vol'[v].opens = vol[v].opens /\ vol'[v].minor = vol[v].minor
  BY FieldsOfOthers
<1>4. \A q \in Procs : /\ pc'[q] = "selfclose" <=> pc[q] = "selfclose"
                       /\ pc[q] = "selfclose" => cur'[q] = cur[q]
  BY <1>1, <1>2 DEF OthersStay
<1>5. \A v \in Ptrs : Stays(v) => Stays(v)'
  <2> SUFFICES ASSUME NEW v \in Ptrs, Stays(v) PROVE Stays(v)'
    OBVIOUS
  <2>1. slot'[vol[v].minor] = v
    BY <1>1 DEF Stays
  <2>2. QED
    BY <1>1, <1>2, <1>3, <2>1, StaysStep DEF Detaching
<1>6. QED
  BY <1>1, <1>3, <1>4, <1>5, SteadyStep
-----------------------------------------------------------------------------
(* Steps that count.                                                        *)

LEMMA CountStep ==
  ASSUME TypeOK, Steady, NEW w \in Ptrs, Stays(w), slot' = slot, Opened(w) \/ Closed(w),
         Exact(w)',
         \A v \in Ptrs : Stays(v) => Stays(v)',
         \A v \in Ptrs \ {w} : OpenersOf(v)' = OpenersOf(v) /\ SelfOpens(v)' = SelfOpens(v),
         \A u \in Users : handle'[u] \in {handle[u], w, "none"},
         \A p \in Procs : pc'[p] = "selfclose" =>
            cur'[p] = w \/ (pc[p] = "selfclose" /\ cur'[p] = cur[p])
  PROVE  Steady'
<1>1. OpenersStay'
  <2> SUFFICES ASSUME NEW u \in Users, handle'[u] # "none" PROVE Stays(handle[u])'
    BY DEF OpenersStay
  <2>1. PICK v \in Ptrs : handle'[u] = v /\ Stays(v)
    BY DEF Steady, OpenersStay, Stays
  <2>2. Stays(v)'
    BY <2>1
  <2>3. QED
    BY <2>1, <2>2 DEF Stays, BeingDetached
<1>2. SelfOpensStay'
  <2> SUFFICES ASSUME NEW p \in Procs, pc'[p] = "selfclose" PROVE Stays(cur[p])'
    BY DEF SelfOpensStay
  <2>1. PICK v \in Ptrs : cur'[p] = v /\ Stays(v)
    BY DEF Steady, SelfOpensStay, Stays
  <2>2. Stays(v)'
    BY <2>1
  <2>3. QED
    BY <2>1, <2>2 DEF Stays, BeingDetached
<1>3. Counted'
  <2> SUFFICES ASSUME NEW s \in Slots, NEW v \in Ptrs, slot'[s] = v PROVE Exact(v)'
    BY DEF Counted, Exact, OpenersOf, SelfOpens
  <2>1. CASE v # w
    <3>1. vol'[v] = vol[v] /\ Exact(v)
      BY <2>1, CountOne DEF Steady, Counted
    <3>2. QED
      BY <2>1, <3>1 DEF Exact
  <2>2. QED
    BY <2>1
<1>4. QED
  BY <1>1, <1>2, <1>3 DEF Steady

\* A count is a number.
LEMMA CountsAreNumbers ==
  ASSUME NEW v, Exact(v)
  PROVE  Cardinality(OpenersOf(v)) \in Nat /\ Cardinality(SelfOpens(v)) \in Nat
BY FS_CardinalityType DEF Exact

\* A volume that is about to be opened is in the table, in time.
LEMMA InTime ==
  ASSUME TableInv, HaveSlot, KeptApart, NEW v \in Ptrs, alloc[v] = "live", ~BeingDetached(v),
         \A p \in Procs : cur[p] = v => pc[p] # "insert"
  PROVE  Stays(v) /\ vol[v].minor \in Slots
<1>1. HasPlace(v)
  BY DEF KeptApart, NoneLost
<1>2. slot[vol[v].minor] = v
  BY <1>1 DEF HasPlace, BeingDetached
<1>3. QED
  BY <1>2 DEF Stays, HaveSlot

LEMMA OpenKeepsSteady ==
  ASSUME TableInv, HaveSlot, Disks, Unopened, KeptApart, Steady, late' = {},
         NEW u \in Users, NEW v \in Ptrs, Open_DMS_Volume(u, v)
  PROVE  Steady'
<1> USE DEF TableInv
<1>1. /\ handle[u] = "none" /\ alloc[v] = "live" /\ vol[v].up /\ Opened(slot[vol[v].minor])
      /\ handle' = [handle EXCEPT ![u] = v] /\ slot' = slot /\ UNCHANGED pvars
      /\ ~BeingDetached(v)
  BY DEF Open_DMS_Volume, Reachable, ComesLate
<1>2. \A p \in Procs : cur[p] = v => pc[p] # "insert"
  BY <1>1 DEF Unopened
<1>3. Stays(v) /\ vol[v].minor \in Slots
  BY <1>1, <1>2, InTime
<1>4. slot[vol[v].minor] = v /\ Opened(v) /\ Exact(v)
  BY <1>1, <1>3 DEF Stays, Steady, Counted
<1>5. /\ OpenersOf(v)' = OpenersOf(v) \cup {u} /\ u \notin OpenersOf(v)
      /\ \A w \in Ptrs \ {v} : OpenersOf(w)' = OpenersOf(w)
      /\ \A w \in Ptrs : SelfOpens(w)' = SelfOpens(w)
  BY <1>1, DistinctAssumption DEF OpenersOf, SelfOpens, pvars, TypeOK
<1>6. Exact(v)'
  <2>1. vol'[v].opens = vol[v].opens + 1
    BY <1>4, CountOne
  <2>2. IsFiniteSet(OpenersOf(v)') /\ Cardinality(OpenersOf(v)') = Cardinality(OpenersOf(v)) + 1
    BY <1>4, <1>5, FS_AddElement DEF Exact
  <2>3. QED
    BY <1>4, <1>5, <2>1, <2>2, CountsAreNumbers DEF Exact
<1>7. \A w \in Ptrs : Stays(w) => Stays(w)'
  BY <1>1, <1>4, CountKeepsIDs DEF Stays, BeingDetached, pvars
<1>8. QED
  BY <1>1, <1>3, <1>4, <1>5, <1>6, <1>7, CountStep DEF pvars, TypeOK

LEMMA CloseKeepsSteady ==
  ASSUME TableInv, HaveSlot, Disks, KeptApart, Steady,
         NEW u \in Users, Close_DMS_Volume(u)
  PROVE  Steady'
<1> USE DEF TableInv
<1>1. PICK v \in Ptrs : v = handle[u] /\ Stays(v)
  BY DEF Close_DMS_Volume, Steady, OpenersStay, Stays
<1>2. v # "none" /\ handle' = [handle EXCEPT ![u] = "none"] /\ slot' = slot /\ UNCHANGED pvars
  BY <1>1 DEF Close_DMS_Volume
<1>3. slot[vol[v].minor] = v /\ vol[v].minor \in Slots
  BY <1>1, <1>2 DEF Stays, HaveSlot, Disks
<1>4. Closed(v) /\ Exact(v)
  BY <1>1, <1>3 DEF Close_DMS_Volume, Steady, Counted
<1>5. /\ OpenersOf(v)' = OpenersOf(v) \ {u} /\ u \in OpenersOf(v)
      /\ \A w \in Ptrs \ {v} : OpenersOf(w)' = OpenersOf(w)
      /\ \A w \in Ptrs : SelfOpens(w)' = SelfOpens(w)
  BY <1>1, <1>2, DistinctAssumption DEF OpenersOf, SelfOpens, pvars, TypeOK
<1>6. \A w \in Ptrs : Stays(w) => Stays(w)'
  BY <1>2, <1>4, CountKeepsIDs DEF Stays, BeingDetached, pvars
<1>7. Exact(v)'
  <2>1. vol'[v].opens = vol[v].opens - 1
    BY <1>4, CountOne
  <2>2. IsFiniteSet(OpenersOf(v)') /\ Cardinality(OpenersOf(v)') = Cardinality(OpenersOf(v)) - 1
    BY <1>4, <1>5, FS_RemoveElement DEF Exact
  <2>3. QED
    BY <1>4, <1>5, <2>1, <2>2, CountsAreNumbers DEF Exact
<1>8. QED
  BY <1>1, <1>2, <1>4, <1>5, <1>6, <1>7, CountStep DEF pvars, TypeOK

LEMMA SelfOpenKeepsSteady ==
  ASSUME TableInv, HaveSlot, Disks, KeptApart, Steady, late' = {},
         NEW p \in Procs, Self_Open(p), CanOpen(cur[p])
  PROVE  Steady'
<1> USE DEF TableInv
<1>1. PICK v \in Ptrs : v = cur[p]
  BY DEF Self_Open, Runs, Disks
<1>2. /\ pc[p] = "selfopen" /\ pc' = [pc EXCEPT ![p] = "selfclose"] /\ cur' = cur
      /\ Opened(slot[vol[v].minor]) /\ Deref(v) = "none"
      /\ handle' = handle /\ slot' = slot
      /\ ~BeingDetached(v)
  BY <1>1, DerefType DEF Self_Open, Runs, DiskFault, Goto, ComesLate
<1>3. alloc[v] = "live"
  BY <1>1, <1>2 DEF Deref, Holders, TypeOK
<1>4. \A q \in Procs : cur[q] = v => pc[q] # "insert"
  BY <1>1, <1>2 DEF Holders
<1>5. Stays(v) /\ vol[v].minor \in Slots
  BY <1>2, <1>3, <1>4, InTime
<1>6. slot[vol[v].minor] = v /\ Opened(v) /\ Exact(v)
  BY <1>2, <1>5 DEF Stays, Steady, Counted
<1>7. /\ SelfOpens(v)' = SelfOpens(v) \cup {p} /\ p \notin SelfOpens(v)
      /\ \A w \in Ptrs \ {v} : SelfOpens(w)' = SelfOpens(w)
      /\ \A w \in Ptrs : OpenersOf(w)' = OpenersOf(w)
  BY <1>1, <1>2 DEF OpenersOf, SelfOpens, TypeOK
<1>8. \A w \in Ptrs : Stays(w) => Stays(w)'
  <2>1. \A q \in Procs : cur'[q] = cur[q] /\ (pc'[q] \in Detaching => pc[q] \in Detaching)
    BY <1>2 DEF Detaching, TypeOK
  <2>2. \A w \in Ptrs : BeingDetached(w)' => BeingDetached(w)
    BY <2>1, DetachedBy
  <2>3. QED
    BY <1>2, <1>6, <2>2, CountKeepsIDs DEF Stays
<1>9. Exact(v)'
  <2>1. vol'[v].opens = vol[v].opens + 1
    BY <1>6, CountOne
  <2>2. IsFiniteSet(SelfOpens(v)') /\ Cardinality(SelfOpens(v)') = Cardinality(SelfOpens(v)) + 1
    BY <1>6, <1>7, FS_AddElement DEF Exact
  <2>3. QED
    BY <1>6, <1>7, <2>1, <2>2, CountsAreNumbers DEF Exact
<1>10. \A q \in Procs : pc'[q] = "selfclose" => cur'[q] = v \/ (pc[q] = "selfclose" /\ cur'[q] = cur[q])
  BY <1>1, <1>2 DEF TypeOK
<1>11. QED
  BY <1>2, <1>5, <1>6, <1>7, <1>8, <1>9, <1>10, CountStep

LEMMA SelfCloseKeepsSteady ==
  ASSUME TableInv, HaveSlot, Disks, KeptApart, Steady, NEW p \in Procs, Self_Close(p)
  PROVE  Steady'
<1> USE DEF TableInv
<1>1. PICK v \in Ptrs : v = cur[p] /\ Stays(v)
  BY DEF Self_Close, Runs, Steady, SelfOpensStay, Stays
<1>2. /\ pc[p] = "selfclose" /\ pc' = [pc EXCEPT ![p] = "idle"] /\ cur' = [cur EXCEPT ![p] = "none"]
      /\ handle' = handle /\ slot' = slot
  BY DEF Self_Close, Runs, Return, users
<1>3. slot[vol[v].minor] = v /\ vol[v].minor \in Slots
  BY <1>1 DEF Stays, HaveSlot, Holders
<1>4. Closed(v) /\ Exact(v)
  BY <1>1, <1>3 DEF Self_Close, Steady, Counted
<1>5. /\ SelfOpens(v)' = SelfOpens(v) \ {p} /\ p \in SelfOpens(v)
      /\ \A w \in Ptrs \ {v} : SelfOpens(w)' = SelfOpens(w)
      /\ \A w \in Ptrs : OpenersOf(w)' = OpenersOf(w)
  BY <1>1, <1>2, DistinctAssumption DEF OpenersOf, SelfOpens, TypeOK
<1>6. \A q \in Procs : /\ pc'[q] \in Detaching => pc[q] \in Detaching /\ cur'[q] = cur[q]
                       /\ pc'[q] = "selfclose" => pc[q] = "selfclose" /\ cur'[q] = cur[q]
  BY <1>2 DEF Detaching, TypeOK
<1>7. \A w \in Ptrs : Stays(w) => Stays(w)'
  <2>1. \A w \in Ptrs : BeingDetached(w)' => BeingDetached(w)
    BY <1>6, DetachedBy
  <2>2. QED
    BY <1>2, <1>4, <2>1, CountKeepsIDs DEF Stays
<1>8. Exact(v)'
  <2>1. vol'[v].opens = vol[v].opens - 1
    BY <1>4, CountOne
  <2>2. IsFiniteSet(SelfOpens(v)') /\ Cardinality(SelfOpens(v)') = Cardinality(SelfOpens(v)) - 1
    BY <1>4, <1>5, FS_RemoveElement DEF Exact
  <2>3. QED
    BY <1>4, <1>5, <2>1, <2>2, CountsAreNumbers DEF Exact
<1>9. QED
  BY <1>1, <1>2, <1>4, <1>5, <1>6, <1>7, <1>8, CountStep

LEMMA NextKeepsCount ==
  ASSUME NullIDs = {}, CountInv, [Next]_vars
  PROVE  CountInv'
<1>1. LostInv' /\ Disks' /\ Unopened'
  BY NextKeepsApart, NextKeepsDisks, NextKeepsUnopened DEF CountInv, LostInv
<1>2. ASSUME late' = {} PROVE Steady'
  <2>1. TableInv /\ HaveSlot /\ Disks /\ Unopened /\ KeptApart /\ Steady
    BY <1>2, LateGrows DEF CountInv, LostInv
  <2>2. CASE \/ \E f : Crash(f)
             \/ UNCHANGED vars
    <3>1. UNCHANGED <<slot, vol, handle, pc, cur>>
      BY <2>2 DEF Crash, vars, users, pvars
    <3>2. QED
      BY <2>1, <3>1
      DEF Steady, OpenersStay, SelfOpensStay, Counted, Exact, OpenersOf, SelfOpens, Stays, BeingDetached
  <2>3. ASSUME NEW p \in Procs, OtherStep(p) PROVE Steady'
    <3>1. CASE Uncounted(p)
      BY <2>1, <3>1, UncountedStep
    <3>2. CASE \E i \in IDs : DMS_Detach_Volume(p, i)
      BY <2>1, <3>2, DetachKeepsSteady
    <3>3. CASE Self_Open(p) /\ CanOpen(cur[p])
      BY <1>2, <2>1, <3>3, SelfOpenKeepsSteady
    <3>4. CASE Self_Close(p)
      BY <2>1, <3>4, SelfCloseKeepsSteady
    <3>5. QED
      BY <2>3, <3>1, <3>2, <3>3, <3>4 DEF OtherStep, Uncounted
  <2>4. ASSUME NEW p \in Procs, Create_and_Insert_DMS_Volume(p) PROVE Steady'
    BY <2>1, <2>4, OccupyKeepsSteady, CreateKeepsSteady, InsertKeepsSteady
    DEF Create_and_Insert_DMS_Volume
  <2>5. QED
    BY <1>2, <2>1, <2>2, <2>3, <2>4, RemoveKeepsSteady, ReleaseKeepsSteady, OpenKeepsSteady,
       CloseKeepsSteady, StepCases DEF StepOfOthers
<1>3. QED
  BY <1>1, <1>2 DEF CountInv

LEMMA CountHolds == ASSUME NullIDs = {} PROVE Spec => []CountInv
<1>1. Init => CountInv
  <2> SUFFICES ASSUME Init PROVE CountInv
    OBVIOUS
  <2>1. Disks /\ Unopened /\ Steady
    BY DistinctAssumption
    DEF Init, Disks, Unopened, Steady, OpenersStay, SelfOpensStay, Counted
  <2>2. QED
    BY <2>1, InitApart DEF CountInv
<1>2. CountInv /\ [Next]_vars => CountInv'
  BY NextKeepsCount
<1>3. QED
  BY <1>1, <1>2, PTL DEF Spec

\* "decrease the open counter": the counter that decides about -EBUSY is exact as long as no
\* disk is opened, or detached again, while its detach sleeps, for any number of users.
THEOREM CounterIsExact == ASSUME NullIDs = {} PROVE Spec => []OpenCounterIsExact
<1>1. CountInv => OpenCounterIsExact
  BY DEF CountInv, Steady, Counted, Exact, OpenCounterIsExact
<1>2. QED
  BY <1>1, CountHolds, PTL

\* "Device or resource busy": nobody loses a volume that he had open when a detach looked at
\* its counter.
THEOREM OpenVolumesAreKept == ASSUME NullIDs = {} PROVE Spec => []OpenVolumeIsKept
<1>1. CountInv => OpenVolumeIsKept
  <2> SUFFICES ASSUME CountInv, late = {}, NEW u \in Users, handle[u] # "none"
               PROVE  alloc[handle[u]] = "live"
    BY DEF OpenVolumeIsKept
  <2>1. /\ handle[u] \in Ptrs /\ slot[vol[handle[u]].minor] = handle[u]
        /\ alloc[handle[u]] # "fresh"
    BY DEF CountInv, Steady, OpenersStay, Stays, Disks
  <2>2. vol[handle[u]].minor \in Slots
    BY <2>1 DEF CountInv, LostInv, HaveSlot
  <2>3. QED
    BY <2>1, <2>2 DEF CountInv, LostInv, TableInv, TableHoldsLiveVolumes
<1>2. QED
  BY <1>1, CountHolds, PTL
=============================================================================
