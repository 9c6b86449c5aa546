------------------------------ MODULE UserDaemon ------------------------------
(***************************************************************************)
(* The user daemon: one thread per connection attaches and detaches        *)
(* volumes with the driver, keeps the list of attached volumes and writes  *)
(* it to a file.  The threads share the list and list_last without a lock. *)
(*                                                                         *)
(* The driver (see VolumeManager), the namenode, udev and RS are external: *)
(* they answer one call at a time, and may fail.                           *)
(***************************************************************************)
EXTENDS Naturals, Sequences, FiniteSets, SequencesExt

CONSTANTS
    Threads,
    Volumes,
    Ops,            \* the commands clients send
    RS_SUPPORT,     \* the build that tells RS
    MaxRequests,    \* bound: connections
    MaxStarts       \* bound: how often the daemon is started

ASSUME BoundsAssumption == MaxRequests \in Nat /\ MaxStarts \in Nat \ {0} /\ RS_SUPPORT \in BOOLEAN
ASSUME OpsAssumption ==
    Ops \subseteq {"attach", "attach_rs", "detach", "detach_rs", "attach_all", "detach_all", "other"}

\* The nodes of the list: the head, and one for each call of AddAttachToList.
Head0 == 0
Cells == 0..MaxRequests
Null == MaxRequests + 1
Wild == MaxRequests + 2     \* what malloc leaves in "next"
NoVolume == "none"

VARIABLES
    thread,     \* [pc, op, vol, node]: process_thread and what it calls
    next, vol,  \* the nodes of list_VolAttachInfo
    last,       \* list_last
    cells,      \* how many nodes were allocated
    file,       \* the volumes in VOLATTACH_FN
    held,       \* the volumes the driver has
    devices,    \* the device files udev has made
    daemon,     \* "up", "dead": by a fault, "stopped": by the signal
    requests, starts,
    clash,      \* history: two threads were between query and response at once
    faulted,    \* history: a fault, and not in reading a command
    unsynced    \* history: volumes RS left in the driver or the list only, or the end of the
                \* daemon left in the driver

list == <<next, vol, last, cells>>
outside == <<held, devices>>
history == <<clash, faulted, unsynced>>
vars == <<thread, list, file, outside, daemon, requests, starts, history>>

Idle == [pc |-> "idle", op |-> "none", vol |-> NoVolume, node |-> Head0]

-----------------------------------------------------------------------------
(* Slips: what a run finds when a definition is replaced by its slip.       *)

\* The last element is taken out and list_last still points to it.
SlipLastAfter(c) == last
\* ... or is read from the element before, whose next is already cleared.
SlipLastAfter_Null(c) == Null
\* The cursor of attach_all_volume stays at the head, as that of detach_all_volume does.
SlipCursor(t) == Head0

-----------------------------------------------------------------------------

Empty_List ==
    /\ next = [c \in Cells |-> IF c = Head0 THEN Null ELSE Wild]
    /\ vol = [c \in Cells |-> NoVolume]
    /\ last = Head0
    /\ cells = 0

Init ==
    /\ thread = [t \in Threads |-> Idle]
    /\ Empty_List
    /\ file = {} /\ held = {} /\ devices = {}
    /\ daemon = "up"
    /\ requests = 0 /\ starts = 1
    /\ clash = FALSE /\ faulted = FALSE /\ unsynced = {}

\* The nodes from the head on, up to the one whose next is Null or was never written.
Chain ==
    LET upto[n \in 0..MaxRequests] ==
            IF n = 0 THEN <<Head0>>
            ELSE LET s == upto[n - 1] IN IF next[Last(s)] \in Cells THEN Append(s, next[Last(s)]) ELSE s
    IN  upto[MaxRequests]
Listed == {vol[c] : c \in ToSet(Chain) \ {Head0}}
RunsWild == next[Last(Chain)] = Wild

Busy(t) == thread[t].pc \notin {"idle", "read", "spin", "detach_all"}

\* One step of a thread on the way to a response; others may be on their way, too.
At(t, pc) ==
    /\ daemon = "up" /\ thread[t].pc = pc
    /\ clash' = (clash \/ \E u \in Threads \ {t} : Busy(u))

Goto(t, pc) == thread' = [thread EXCEPT ![t].pc = pc]
Send_response(t) == thread' = [thread EXCEPT ![t] = Idle]

\* The threads and the list die with the daemon; the driver does not.
Die(how) ==
    /\ daemon' = how
    /\ thread' = [t \in Threads |-> Idle]
    /\ next' = [c \in Cells |-> IF c = Head0 THEN Null ELSE Wild]
    /\ vol' = [c \in Cells |-> NoVolume]
    /\ last' = Head0 /\ cells' = 0

Fault ==
    /\ Die("dead")
    /\ faulted' = TRUE /\ unsynced' = held
    /\ UNCHANGED <<file, outside, requests, starts>>

-----------------------------------------------------------------------------
(* Commands.                                                                *)

\* accept and pthread_create.
Create_socket_server(t) ==
    /\ daemon = "up" /\ thread[t].pc = "idle" /\ requests < MaxRequests
    /\ \E op \in Ops, v \in Volumes :
         thread' = [thread EXCEPT ![t] = [Idle EXCEPT !.pc = "read", !.op = op, !.vol = v]]
    /\ requests' = requests + 1
    /\ UNCHANGED <<list, file, outside, daemon, starts, history>>

First(op) ==
    CASE op \in {"attach", "attach_rs"} -> "query"
      [] op \in {"detach", "detach_rs"} -> "detach"
      [] op = "attach_all" -> "all_next"
      [] op = "detach_all" -> "detach_all"
      [] op = "other" -> "idle"   \* the answer of the driver, -ENOTTY, or none

\* process_thread reads the command.  A client that closes the connection keeps
\* ccma_buffer_read in its loop; one whose connection fails makes it return NULL.
Process_thread(t) ==
    /\ daemon = "up" /\ thread[t].pc = "read"
    /\ \/ /\ IF First(thread[t].op) = "idle" THEN Send_response(t) ELSE Goto(t, First(thread[t].op))
          /\ UNCHANGED <<list, file, outside, daemon, requests, starts, history>>
       \/ /\ Goto(t, "spin")
          /\ UNCHANGED <<list, file, outside, daemon, requests, starts, history>>
       \/ /\ Die("dead")
          /\ unsynced' = held
          /\ UNCHANGED <<file, outside, requests, starts, clash, faulted>>

-----------------------------------------------------------------------------
(* attach_volume.                                                           *)

All(t) == thread[t].op = "attach_all"
\* attach_all_volume goes on whatever became of one volume.
Return(t) == IF All(t) THEN Goto(t, "all_next") ELSE Send_response(t)

QueryAttachInfo(t) ==
    /\ At(t, "query")
    /\ \/ /\ thread[t].vol \in Listed /\ Send_response(t)
          /\ UNCHANGED <<list, file, outside, daemon, requests, starts, faulted, unsynced>>
       \/ /\ thread[t].vol \notin Listed /\ ~RunsWild /\ Goto(t, "capacity")
          /\ UNCHANGED <<list, file, outside, daemon, requests, starts, faulted, unsynced>>
       \/ thread[t].vol \notin Listed /\ RunsWild /\ Fault

\* The namenode tells the capacity, or zero, or closes the connection.
GetCapacityFromNamenode(t) ==
    /\ At(t, "capacity")
    /\ \/ Goto(t, "attach")
       \/ Return(t)
       \/ Goto(t, "spin")
    /\ UNCHANGED <<list, file, outside, daemon, requests, starts, faulted, unsynced>>

\* IOCTL_ATTACH_VOL fails for a volume the driver has, and when it is out of memory.
Ioctl_attach(t) ==
    /\ At(t, "attach")
    /\ \/ /\ thread[t].vol \notin held
          /\ held' = held \cup {thread[t].vol}
          /\ Goto(t, "device")
       \/ Return(t) /\ UNCHANGED held
    /\ UNCHANGED <<list, file, devices, daemon, requests, starts, faulted, unsynced>>

\* The loop over fopen ends when the file is there: "retry" is never raised.
Check_device(t) ==
    /\ At(t, "device") /\ thread[t].vol \in devices
    /\ IF All(t) THEN Goto(t, "all_next")
       ELSE Goto(t, IF RS_SUPPORT /\ thread[t].op = "attach_rs" THEN "rs" ELSE "link")
    /\ UNCHANGED <<list, file, outside, daemon, requests, starts, faulted, unsynced>>

\* save_attach_info_to_rs fails after five connections, or as RS answers.
Save_attach_info_to_rs(t, pc, then) ==
    /\ At(t, pc)
    /\ \/ Goto(t, then) /\ UNCHANGED unsynced
       \/ Send_response(t) /\ unsynced' = unsynced \cup {thread[t].vol}
    /\ UNCHANGED <<list, file, outside, daemon, requests, starts, faulted>>

\* AddAttachToList: list_last->next = malloc(...)
Add_link(t) ==
    /\ At(t, "link")
    /\ \/ /\ last # Null
          /\ cells' = cells + 1
          /\ next' = [next EXCEPT ![last] = cells + 1]
          /\ Goto(t, "fill")
          /\ UNCHANGED <<vol, last, file, outside, daemon, requests, starts, faulted, unsynced>>
       \/ last = Null /\ Fault

\* ... the fields, through list_last->next ...
Add_fill(t) ==
    /\ At(t, "fill")
    /\ \/ /\ last # Null /\ next[last] \in Cells
          /\ vol' = [vol EXCEPT ![next[last]] = thread[t].vol]
          /\ next' = [next EXCEPT ![next[last]] = Null]
          /\ Goto(t, "advance")
          /\ UNCHANGED <<last, cells, file, outside, daemon, requests, starts, faulted, unsynced>>
       \/ ~(last # Null /\ next[last] \in Cells) /\ Fault

\* ... and list_last = list_last->next, which is returned.
Add_advance(t) ==
    /\ At(t, "advance")
    /\ \/ /\ last # Null /\ next[last] # Wild
          /\ last' = next[last]
          /\ Goto(t, "truncate")
          /\ UNCHANGED <<next, vol, cells, file, outside, daemon, requests, starts, faulted, unsynced>>
       \/ ~(last # Null /\ next[last] # Wild) /\ Fault

\* SaveAttachInfoToFile: fopen "w+" ...
Save_truncate(t) ==
    /\ At(t, "truncate")
    /\ file' = {}
    /\ Goto(t, "write")
    /\ UNCHANGED <<list, outside, daemon, requests, starts, faulted, unsynced>>

\* ... and the list.
Save_write(t) ==
    /\ At(t, "write")
    /\ \/ /\ ~RunsWild
          /\ file' = Listed
          /\ unsynced' = unsynced \ (IF thread[t].op \in {"detach", "detach_rs"} THEN {thread[t].vol} ELSE {})
          /\ Send_response(t)
          /\ UNCHANGED <<list, outside, daemon, requests, starts, faulted>>
       \/ RunsWild /\ Fault

-----------------------------------------------------------------------------
(* attach_all_volume and detach_all_volume.                                 *)

Cursor(t) == next[thread[t].node]

Attach_all_volume(t) ==
    /\ At(t, "all_next")
    /\ \/ /\ next[thread[t].node] = Null /\ Send_response(t)
          /\ UNCHANGED <<list, file, outside, daemon, requests, starts, faulted, unsynced>>
       \/ /\ next[thread[t].node] \in Cells
          /\ thread' = [thread EXCEPT ![t].pc = "capacity", ![t].node = Cursor(t),
                                      ![t].vol = vol[next[thread[t].node]]]
          /\ UNCHANGED <<list, file, outside, daemon, requests, starts, faulted, unsynced>>
       \/ next[thread[t].node] = Wild /\ Fault

\* It detaches the volume of the head, -1, for as long as there is an element.
Detach_all_volume(t) ==
    /\ daemon = "up" /\ thread[t].pc = "detach_all" /\ next[Head0] = Null
    /\ Send_response(t)
    /\ UNCHANGED <<list, file, outside, daemon, requests, starts, history>>

-----------------------------------------------------------------------------
(* detach_volume.                                                           *)

After_Detach(t) == "find"

Ioctl_detach(t) ==
    /\ At(t, "detach")
    /\ \/ /\ thread[t].vol \in held
          /\ held' = held \ {thread[t].vol}
          /\ devices' = devices \ {thread[t].vol}
          /\ Goto(t, IF RS_SUPPORT /\ thread[t].op = "detach_rs" THEN "detach_rs" ELSE After_Detach(t))
       \/ Send_response(t) /\ UNCHANGED outside      \* not attached, or in use
    /\ UNCHANGED <<list, file, daemon, requests, starts, faulted, unsynced>>

\* RemoveAttachFromList: the element before it ...
Remove_find(t) ==
    /\ At(t, "find")
    /\ \/ /\ \E i \in 1..(Len(Chain) - 1) :
               /\ vol[Chain[i + 1]] = thread[t].vol
               /\ \A j \in 2..i : vol[Chain[j]] # thread[t].vol
               /\ thread' = [thread EXCEPT ![t].pc = "unlink", ![t].node = Chain[i]]
          /\ UNCHANGED <<list, file, outside, daemon, requests, starts, faulted, unsynced>>
       \/ /\ thread[t].vol \notin Listed /\ ~RunsWild /\ Goto(t, "truncate")
          /\ UNCHANGED <<list, file, outside, daemon, requests, starts, faulted, unsynced>>
       \/ thread[t].vol \notin Listed /\ RunsWild /\ Fault

LastAfter(c) == c

\* ... and the element out.
Remove_unlink(t) ==
    /\ At(t, "unlink")
    /\ LET c == thread[t].node
           tmp == next[c]
       IN  \/ /\ tmp \in Cells /\ next[tmp] # Null
              /\ next' = [next EXCEPT ![c] = next[tmp], ![tmp] = Null]
              /\ Goto(t, "truncate")
              /\ UNCHANGED <<vol, last, cells, file, outside, daemon, requests, starts, faulted, unsynced>>
           \/ /\ tmp \in Cells /\ next[tmp] = Null
              /\ next' = [next EXCEPT ![c] = Null]
              /\ last' = LastAfter(c)
              /\ Goto(t, "truncate")
              /\ UNCHANGED <<vol, cells, file, outside, daemon, requests, starts, faulted, unsynced>>
           \/ tmp \notin Cells /\ Fault

-----------------------------------------------------------------------------
(* The world.                                                               *)

Udev ==
    /\ \E v \in held \ devices : devices' = devices \cup {v}
    /\ UNCHANGED <<thread, list, file, held, daemon, requests, starts, history>>

\* Control-C.  IOCTL_RESET_DRIVER takes no volume out of the driver, and rmmod fails while a
\* volume is open; sighandler does not look at its result.
Sighandler ==
    /\ daemon = "up" /\ starts < MaxStarts
    /\ Die("stopped")
    /\ \/ held' = {} /\ devices' = {}
       \/ UNCHANGED outside
    /\ unsynced' = held'
    /\ UNCHANGED <<file, requests, starts, clash, faulted>>

\* main and initialize: the list is empty, the file is not read, and a driver that is
\* there is kept.
Initialize ==
    /\ daemon # "up" /\ starts < MaxStarts
    /\ daemon' = "up" /\ starts' = starts + 1
    /\ UNCHANGED <<thread, list, file, outside, requests, history>>

-----------------------------------------------------------------------------

Attach(t) ==
    \/ QueryAttachInfo(t) \/ GetCapacityFromNamenode(t) \/ Ioctl_attach(t) \/ Check_device(t)
    \/ Save_attach_info_to_rs(t, "rs", "link")
    \/ Add_link(t) \/ Add_fill(t) \/ Add_advance(t) \/ Attach_all_volume(t)

Detach(t) ==
    \/ Ioctl_detach(t) \/ Save_attach_info_to_rs(t, "detach_rs", After_Detach(t))
    \/ Remove_find(t) \/ Remove_unlink(t) \/ Detach_all_volume(t)

Run(t) == Process_thread(t) \/ Attach(t) \/ Detach(t) \/ Save_truncate(t) \/ Save_write(t)

Next == \/ \E t \in Threads : Create_socket_server(t) \/ Run(t)
        \/ Udev \/ Sighandler \/ Initialize

Spec == Init /\ [][Next]_vars

\* What a thread does next is up to others: the client sends the command, the namenode is
\* found, connected to and answers, RS answers, and the driver, whose ioctl may wait for the
\* datanodes, returns.  No timeout ends these waits but the sending to the namenode.
Waits(t) == thread[t].pc \in {"read", "capacity", "attach", "detach", "rs", "detach_rs"}

\* The threads of the daemon are scheduled.  Nobody has to connect, to stop or start the daemon or
\* to answer it, and no device file has to appear.
FairSpec == Spec /\ \A t \in Threads : WF_vars(~Waits(t) /\ Run(t))

-----------------------------------------------------------------------------
(* Properties.                                                              *)

\* Between commands, if they came one after the other, the list holds exactly the volumes the
\* driver has, and the file what the list holds, but for the volumes RS left in one of them
\* only, and those the driver kept when the daemon died or rmmod failed (attach_volume,
\* detach_volume, sighandler).
ListFollowsDriver ==
    (daemon = "up" /\ ~clash /\ ~\E t \in Threads : Busy(t)) =>
        /\ \A v \in Volumes \ unsynced : v \in Listed <=> v \in held
        /\ cells > 0 => file = Listed

\* The daemon faults on its own only after two threads were at work at once: the list itself
\* never makes AddAttachToList or RemoveAttachFromList follow NULL.
FaultNeedsClash == faulted => clash

\* A thread ends, or it waits for another for ever: for its client, the namenode, RS or the
\* driver (Waits), in ccma_buffer_read after the other end closed inside a message, for a device
\* file that is missing, or with an element that detach_all_volume found and does not remove.
\* It never goes round in the daemon's own code (attach_all_volume, QueryAttachInfo).
Stuck(t) ==
    \/ Waits(t)
    \/ thread[t].pc \in {"spin", "detach_all"}
    \/ thread[t].pc = "device" /\ thread[t].vol \notin devices
ThreadEndsOrIsStuck == \A t \in Threads : []<>(thread[t].pc = "idle") \/ <>[]Stuck(t)
=============================================================================
