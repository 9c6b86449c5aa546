-------------------------- MODULE ConnectionManager --------------------------
(***************************************************************************)
(* Node containers: the table dms_nodes[], the state machine of a          *)
(* connection, and the work queue node_builder_workq whose handlers build  *)
(* and rebuild it, with callers that build, destroy and use containers and *)
(* the callback by which the kernel reports that a socket has changed.     *)
(*                                                                         *)
(* A step ends where another thread can see the difference: at a lock, at  *)
(* a store to a shared field, at a call that sleeps.  A freed container, a *)
(* freed socket or work that is initialised while it is pending leads to   *)
(* undefined behaviour: the model records it in `fault` and stops.         *)
(***************************************************************************)
EXTENDS Integers, FiniteSets

CONSTANTS
    Dncs,       \* the containers that will be allocated, in any order
    Addrs,      \* pairs of IP address and port
    NNodes,     \* DMS_MAX_NODES
    NSocks,     \* bound: sockets that will be created; then sock_create fails
    MaxTry,     \* CONNECTION_RETRY_MAX_TRY
    Procs,      \* threads of the driver: the namenode's receiver, ioctl callers
    Unloaders,  \* those that may release the whole manager
    Workers     \* the threads of node_builder_workq, one per CPU

ASSUME SizesAssumption == NNodes \in Nat /\ NSocks \in Nat /\ MaxTry \in Nat
ASSUME ThreadsAssumption ==
    /\ Procs \cap Workers = {}
    /\ Unloaders \subseteq Procs
    /\ "none" \notin Dncs \cup Procs \cup Workers

Threads == Procs \cup Workers
Nodes == 1..NNodes
Socks == 1..NSocks

VARIABLES
    table,      \* dms_nodes[]
    mgr,        \* who keeps dms_nodes_lock from one step to the next
    queue,      \* node_builder_workq is "up" or "destroyed"
    life,       \* a container is not allocated yet, live, or freed
    dnc,        \* the fields of a container
    sk,         \* sockets: TCP state, and the container in sk_user_data
    pc, job, cur,   \* a thread: control point, what it does, the container it has
    rel,        \* ... the container it releases
    at,         \* ... the index it works on
    held,       \* ... the socket it has taken out of a container
    missed,     \* history: how a container's building was missed
    fault       \* the first undefined behaviour

tvars == <<pc, job, cur, rel, at, held>>
vars == <<table, mgr, queue, life, dnc, sk, tvars, missed, fault>>

-----------------------------------------------------------------------------
(* Plausible slips.  None is used below: with a definition replaced by its  *)
(* slip, a run finds one of its properties violated.                        *)

\* A container starts with the index -1.
SlipBlank(a) == [addr |-> a, index |-> -1, status |-> "zero", retry |-> 0, sock |-> 0,
                 recver |-> FALSE, lock |-> "none", fn |-> "none", work |-> "none"]
\* The duplicate is not looked for.
SlipDuplicate(d) == FALSE
\* The container is read, but its entry is not cleared.
SlipClean_One_Index(i) == table' = table
\* The lock is not taken for the connect.
SlipLockFor(w) == "none"
\* The work is initialised after it was queued.
SlipQueued(d) == [dnc EXCEPT ![d].retry = @ + 1, ![d].fn = "connect"]
\* A failed connect returns with the lock held.
SlipUnlock(d) == dnc
\* The lost connection is handed to the handler that only connects.
SlipRebuild(d) == [dnc EXCEPT ![d].fn = "connect", ![d].work = "timer"]

-----------------------------------------------------------------------------

\* The memset of Init_DMS_Node_Container, with its address.
Blank(a) == [addr |-> a, index |-> 0, status |-> "zero", retry |-> 0, sock |-> 0,
             recver |-> FALSE, lock |-> "none", fn |-> "none", work |-> "none"]

Init ==
    /\ table = [i \in Nodes |-> "none"]
    /\ mgr = "none"
    /\ queue = "up"
    /\ life = [d \in Dncs |-> "fresh"]
    /\ dnc = [d \in Dncs |-> Blank("none")]
    /\ sk = [s \in Socks |-> [tcp |-> "unused", user |-> "none"]]
    /\ pc = [t \in Threads |-> "idle"]
    /\ job = [t \in Threads |-> "none"]
    /\ cur = [t \in Threads |-> "none"]
    /\ rel = [t \in Threads |-> "none"]
    /\ at = [t \in Threads |-> 0]
    /\ held = [t \in Threads |-> 0]
    /\ missed = [d \in Dncs |-> "no"]
    /\ fault = "none"

-----------------------------------------------------------------------------
(* Control.                                                                 *)

\* The container that a thread's next step dereferences.
Target(t) == IF rel[t] # "none" THEN rel[t] ELSE cur[t]

At(t, here) == fault = "none" /\ pc[t] = here
Uses(t, here) == At(t, here) /\ life[Target(t)] = "live"
Unlocked(d) == dnc[d].lock = "none"
Goto(t, there) == pc' = [pc EXCEPT ![t] = there] /\ UNCHANGED <<job, cur, rel, at, held>>

\* The end of an operation; a releaser goes on with what called it.
Finish(t) ==
    /\ pc' = [pc EXCEPT ![t] = CASE job[t] = "handler" /\ rel[t] # "none" -> "relock"
                                 [] job[t] = "unload" -> "next"
                                 [] OTHER -> "idle"]
    /\ IF pc'[t] = "idle"
       THEN job' = [job EXCEPT ![t] = "none"] /\ cur' = [cur EXCEPT ![t] = "none"]
       ELSE UNCHANGED <<job, cur>>
    /\ rel' = [rel EXCEPT ![t] = "none"]
    /\ held' = [held EXCEPT ![t] = 0]
    /\ UNCHANGED at

Begin(t, what, d, i, there) ==
    /\ pc' = [pc EXCEPT ![t] = there]
    /\ job' = [job EXCEPT ![t] = what]
    /\ cur' = [cur EXCEPT ![t] = d]
    /\ at' = [at EXCEPT ![t] = i]
    /\ UNCHANGED <<rel, held>>

Idle(t) == At(t, "idle") /\ queue = "up"

Crash(f) ==
    /\ fault' = f
    /\ UNCHANGED <<table, mgr, queue, life, dnc, sk, tvars, missed>>

\* Every step but those that only load a pointer dereferences its container.
Dereferencing == {"occupy", "index", "schedule", "building", "clean", "release", "cancel",
                  "flush", "disconnect", "take", "stop", "free", "handler", "lock",
                  "connect", "register", "connected", "relock", "init", "build", "check", "xmit"}
Use_Freed(t) ==
    /\ fault = "none"
    /\ pc[t] \in Dereferencing
    /\ life[Target(t)] = "freed"
    /\ Crash("freed")

-----------------------------------------------------------------------------
(* __DNC_Create_Socket: only where there is none, and it may fail.          *)

Unused == {s \in Socks : sk[s].tcp = "unused"}
NewSocket(d, s) ==
    /\ s \in Unused
    /\ \A r \in Unused : s <= r
    /\ sk' = [sk EXCEPT ![s].tcp = "closed"]

\* DNODE_INIT is stored when a socket was created.
InitState(d) ==
    \/ \E s \in Socks : NewSocket(d, s) /\ dnc' = [dnc EXCEPT ![d].sock = s, ![d].status = "INIT"]
    \/ UNCHANGED <<sk, dnc>>

-----------------------------------------------------------------------------
(* Build_DMS_Node_Container.                                                *)

\* Create_DMS_Node_Container: without a socket the container is freed again.
Create_DMS_Node_Container(p, a) ==
    /\ Idle(p)
    /\ \E d \in Dncs :
        /\ life[d] = "fresh"
        /\ \/ \E s \in Socks :
              /\ NewSocket(d, s)
              /\ dnc' = [dnc EXCEPT ![d] = [Blank(a) EXCEPT !.sock = s, !.status = "INIT"]]
              /\ life' = [life EXCEPT ![d] = "live"]
              /\ Begin(p, "build", d, 0, "occupy")
           \/ /\ life' = [life EXCEPT ![d] = "freed"]
              /\ UNCHANGED <<dnc, sk, tvars>>
    /\ UNCHANGED <<table, mgr, queue, missed, fault>>

Duplicate(d) == \E i \in Nodes : table[i] # "none" /\ dnc[table[i]].addr = dnc[d].addr
FreeNodes == {i \in Nodes : table[i] = "none"}

\* __Occupy_One_Index; a container that gets no index is left to itself.
Occupy_One_Index(p) ==
    /\ Uses(p, "occupy")
    /\ mgr = "none"
    /\ \/ /\ Duplicate(cur[p]) \/ FreeNodes = {}
          /\ Finish(p)
          /\ UNCHANGED table
       \/ /\ ~Duplicate(cur[p])
          /\ \E i \in FreeNodes :
             /\ \A j \in FreeNodes : i <= j
             /\ table' = [table EXCEPT ![i] = cur[p]]
             /\ Begin(p, "build", cur[p], i, "index")
    /\ UNCHANGED <<mgr, queue, life, dnc, sk, missed, fault>>

\* dnc->index is set outside the lock; then Build_Connection, which wants INIT.
Set_Index(p) ==
    /\ Uses(p, "index")
    /\ dnc' = [dnc EXCEPT ![cur[p]].index = at[p]]
    /\ Goto(p, "build")
    /\ UNCHANGED <<table, mgr, queue, life, sk, missed, fault>>

Build_Connection(t) ==
    /\ Uses(t, "build")
    /\ \/ /\ dnc[cur[t]].sock # 0 /\ dnc[cur[t]].status = "INIT"
          /\ Goto(t, "schedule")
          /\ UNCHANGED missed
       \/ /\ dnc[cur[t]].sock = 0 \/ dnc[cur[t]].status # "INIT"
          /\ Finish(t)
          /\ missed' = [missed EXCEPT ![cur[t]] = IF dnc[cur[t]].status = "BUILDING" THEN "rebuild" ELSE @]
    /\ UNCHANGED <<table, mgr, queue, life, dnc, sk, fault>>

\* __Schedule_to_Node_Builder_Workq.
Queued(d) == [dnc EXCEPT ![d].retry = @ + 1, ![d].fn = "connect", ![d].work = "timer"]
GivesUp(d) == dnc[d].sock # 0 /\ dnc[d].work = "none" /\ dnc[d].retry > MaxTry

Schedule_to_Node_Builder_Workq(t) ==
    LET d == cur[t]
        after == IF job[t] = "handler" THEN "relock" ELSE "building" IN
    /\ Uses(t, "schedule")
    /\ Unlocked(d)
    /\ \/ /\ dnc[d].sock = 0
          /\ IF job[t] = "handler" THEN Goto(t, "relock") ELSE Finish(t)
          /\ UNCHANGED dnc
       \/ /\ dnc[d].sock # 0 /\ dnc[d].work # "none"
          /\ Goto(t, after)
          /\ UNCHANGED dnc
       \/ /\ dnc[d].sock # 0 /\ dnc[d].work = "none" /\ dnc[d].retry <= MaxTry
          /\ dnc' = Queued(d)
          /\ Goto(t, after)
       \/ /\ GivesUp(d)
          /\ Goto(t, "clean")
          /\ UNCHANGED dnc
    /\ missed' = [missed EXCEPT ![d] = "no"]
    /\ UNCHANGED <<table, mgr, queue, life, sk, fault>>

\* __DNC_State_Transition stores BUILDING when the work is already queued.
Set_Building(t) ==
    /\ Uses(t, "building")
    /\ dnc' = [dnc EXCEPT ![cur[t]].status = "BUILDING"]
    /\ Finish(t)
    /\ UNCHANGED <<table, mgr, queue, life, sk, missed, fault>>

-----------------------------------------------------------------------------
(* Destroy_DMS_Node_Container: by a caller, or by whoever gives up.         *)

Clean_One_Index(i) == table' = [table EXCEPT ![i] = "none"]
Release(t, d) ==
    /\ pc' = [pc EXCEPT ![t] = "release"]
    /\ rel' = [rel EXCEPT ![t] = d]

Destroy_DMS_Node_Container(p, i) ==
    /\ Idle(p) /\ mgr = "none"
    /\ table[i] # "none"
    /\ Clean_One_Index(i)
    /\ Release(p, table[i])
    /\ job' = [job EXCEPT ![p] = "destroy"]
    /\ UNCHANGED <<cur, at, held, mgr, queue, life, dnc, sk, missed, fault>>

Destroy_by_Index(t) ==
    LET i == dnc[cur[t]].index IN
    /\ Uses(t, "clean") /\ mgr = "none"
    /\ IF i \in Nodes /\ table[i] # "none"
       THEN Clean_One_Index(i) /\ Release(t, table[i]) /\ UNCHANGED <<job, cur, at, held>>
       ELSE /\ IF job[t] = "handler" THEN Goto(t, "relock") ELSE Finish(t)
            /\ UNCHANGED table
    /\ UNCHANGED <<mgr, queue, life, dnc, sk, missed, fault>>

\* Release_DMS_Node_Container goes by the status, which it reads without the lock.
Release_DMS_Node_Container(t) ==
    /\ Uses(t, "release")
    /\ Goto(t, CASE dnc[rel[t]].status = "BUILDING" -> "cancel"
                 [] dnc[rel[t]].status \in {"INIT", "CONNECTED"} -> "disconnect"
                 [] OTHER -> "free")
    /\ UNCHANGED <<table, mgr, queue, life, dnc, sk, missed, fault>>

\* __Cancel_from_Node_Builder_Workq: a timer is stopped; work that is in the queue
\* already is waited for, without the lock.
Cancel_from_Node_Builder_Workq(t) ==
    LET d == rel[t] IN
    /\ Uses(t, "cancel")
    /\ Unlocked(d)
    /\ IF dnc[d].sock # 0 /\ dnc[d].work = "queue"
       THEN Goto(t, "flush") /\ UNCHANGED dnc
       ELSE /\ Goto(t, "disconnect")
            /\ dnc' = [dnc EXCEPT ![d].work = IF dnc[d].sock # 0 THEN "none" ELSE @]
    /\ UNCHANGED <<table, mgr, queue, life, sk, missed, fault>>

\* flush_workqueue: what is queued or runs, timers excepted, has been done.
Flushed(t) ==
    /\ \A w \in Workers \ {t} : pc[w] = "idle"
    /\ \A d \in Dncs : dnc[d].work # "queue"
Flush_Workqueue(t) ==
    /\ Uses(t, "flush")
    /\ Flushed(t)
    /\ Goto(t, "disconnect")
    /\ UNCHANGED <<table, mgr, queue, life, dnc, sk, missed, fault>>

AfterDrop(t) == IF rel[t] = "none" THEN "init" ELSE "free"

\* DNODE_DISCONNECTED, for a release and for a rebuild: it is stored, and the socket
\* looked for, without the lock; then __DNC_Release_Socket ...
Set_Disconnected(t) ==
    /\ Uses(t, "disconnect")
    /\ dnc' = [dnc EXCEPT ![Target(t)].status = "DISCONNECTED"]
    /\ Goto(t, IF dnc[Target(t)].sock # 0 THEN "take" ELSE AfterDrop(t))
    /\ UNCHANGED <<table, mgr, queue, life, sk, missed, fault>>

\* ... takes socket and receiver out under the lock ...
Detached(r) == [r EXCEPT !.sock = 0, !.recver = FALSE]
Take_Socket(t) ==
    /\ Uses(t, "take")
    /\ Unlocked(Target(t))
    /\ dnc' = [dnc EXCEPT ![Target(t)] = Detached(@)]
    /\ held' = [held EXCEPT ![t] = dnc[Target(t)].sock]
    /\ pc' = [pc EXCEPT ![t] = "stop"]
    /\ UNCHANGED <<job, cur, rel, at, table, mgr, queue, life, sk, missed, fault>>

\* ... and stops the receiver and releases the socket without it.
Release_Socket(t) ==
    /\ Uses(t, "stop")
    /\ held[t] # 0
    /\ sk' = [sk EXCEPT ![held[t]] = [tcp |-> "released", user |-> "none"]]
    /\ pc' = [pc EXCEPT ![t] = AfterDrop(t)]
    /\ held' = [held EXCEPT ![t] = 0]
    /\ UNCHANGED <<job, cur, rel, at, table, mgr, queue, life, dnc, missed, fault>>

\* Two threads passed the test; the second has taken NULL and reads sock->sk.
Release_Null(t) ==
    /\ Uses(t, "stop")
    /\ held[t] = 0
    /\ Crash("null_socket")

Free_DMS_Node_Container(t) ==
    /\ Uses(t, "free")
    /\ life' = [life EXCEPT ![rel[t]] = "freed"]
    /\ Finish(t)
    /\ UNCHANGED <<table, mgr, queue, dnc, sk, missed, fault>>

-----------------------------------------------------------------------------
(* node_builder_workq.                                                      *)

\* The delay of queue_delayed_work is over.
Timer(d) ==
    /\ fault = "none"
    /\ dnc[d].work = "timer"
    /\ IF life[d] = "freed" \/ queue = "destroyed"
       THEN Crash(IF life[d] = "freed" THEN "freed" ELSE "no_queue")
       ELSE /\ dnc' = [dnc EXCEPT ![d].work = "queue"]
            /\ UNCHANGED <<table, mgr, queue, life, sk, tvars, missed, fault>>

\* A worker takes the work out of the queue: from now on it is not pending.
Run_Work(w, d) ==
    /\ At(w, "idle")
    /\ dnc[d].work = "queue"
    /\ life[d] = "live"
    /\ dnc' = [dnc EXCEPT ![d].work = "none"]
    /\ IF dnc[d].fn = "connect" THEN Begin(w, "handler", d, 0, "handler")
                                ELSE Begin(w, "rebuild", d, 0, "disconnect")
    /\ UNCHANGED <<table, mgr, queue, life, sk, missed, fault>>

Run_Freed(d) ==
    /\ fault = "none"
    /\ dnc[d].work = "queue" /\ life[d] = "freed"
    /\ Crash("freed")

\* Node_Connection_Handler: a missing socket is created; then the status is read.
Node_Connection_Handler(w) ==
    LET d == cur[w] IN
    /\ Uses(w, "handler")
    /\ IF dnc[d].sock = 0
       THEN /\ Unlocked(d)
            /\ \/ \E s \in Socks : NewSocket(d, s) /\ dnc' = [dnc EXCEPT ![d].sock = s]
               \/ UNCHANGED <<sk, dnc>>
       ELSE UNCHANGED <<sk, dnc>>
    /\ IF dnc'[d].sock # 0 /\ dnc[d].status = "BUILDING"
       THEN Goto(w, "lock") /\ UNCHANGED missed
       ELSE Finish(w) /\ missed' = [missed EXCEPT ![d] = "handler"]
    /\ UNCHANGED <<table, mgr, queue, life, fault>>

LockFor(w) == w
Lock_for_Connect(w) ==
    /\ Uses(w, "lock")
    /\ Unlocked(cur[w])
    /\ dnc' = [dnc EXCEPT ![cur[w]].lock = LockFor(w)]
    /\ Goto(w, "connect")
    /\ UNCHANGED <<table, mgr, queue, life, sk, missed, fault>>

Tcp(d) == IF dnc[d].sock = 0 THEN "none" ELSE sk[dnc[d].sock].tcp
Unlock(d) == [dnc EXCEPT ![d].lock = "none"]

\* __Try_to_Connect_to_Server, with the lock held: it succeeds, or the next try is
\* scheduled without the lock, or the socket is connected already (-EISCONN).
Connect_OK(w) ==
    /\ Uses(w, "connect")
    /\ Tcp(cur[w]) = "closed"
    /\ sk' = [sk EXCEPT ![dnc[cur[w]].sock].tcp = "established"]
    /\ Goto(w, "register")
    /\ UNCHANGED <<table, mgr, queue, life, dnc, missed, fault>>

Connect_Fails(w) ==
    LET d == cur[w] IN
    /\ Uses(w, "connect")
    /\ Tcp(d) \in {"none", "closed"}
    /\ dnc' = Unlock(d)
    /\ Goto(w, "schedule")
    /\ UNCHANGED <<table, mgr, queue, life, sk, missed, fault>>

Connect_Again(w) ==
    LET d == cur[w] IN
    /\ Uses(w, "connect")
    /\ Tcp(d) \notin {"none", "closed"}
    /\ dnc' = Unlock(d)
    /\ Finish(w)
    /\ UNCHANGED <<table, mgr, queue, life, sk, missed, fault>>

\* The callbacks and sk_user_data are set ...
Register_Callbacks(w) ==
    /\ Uses(w, "register")
    /\ sk' = [sk EXCEPT ![dnc[cur[w]].sock].user = cur[w]]
    /\ Goto(w, "connected")
    /\ UNCHANGED <<table, mgr, queue, life, dnc, missed, fault>>

StillUp(d) == Tcp(d) = "established"

\* ... and DNODE_CONNECTED is stored if the socket still is; a receiver is created
\* unless there is one, which may fail.
Set_Connected(w) ==
    LET d == cur[w]
        up == StillUp(d) IN
    /\ Uses(w, "connected")
    /\ \E created \in BOOLEAN :
         dnc' = [dnc EXCEPT ![d].lock = "none",
                            ![d].status = IF up THEN "CONNECTED" ELSE @,
                            ![d].recver = IF up THEN @ \/ created ELSE @]
    /\ Finish(w)
    /\ UNCHANGED <<table, mgr, queue, life, sk, missed, fault>>

\* After __Schedule_to_Node_Builder_Workq the handler takes the lock again.
Relock(w) ==
    /\ Uses(w, "relock")
    /\ Unlocked(cur[w])
    /\ Finish(w)
    /\ UNCHANGED <<table, mgr, queue, life, dnc, sk, missed, fault>>

\* __Rebuild_Connection, after DNODE_DISCONNECTED: DNODE_INIT, then Build_Connection.
Rebuild_Init(w) ==
    LET d == cur[w] IN
    /\ Uses(w, "init")
    /\ Unlocked(d)
    /\ IF dnc[d].sock = 0 THEN InitState(d) ELSE UNCHANGED <<sk, dnc>>
    /\ Goto(w, "build")
    /\ UNCHANGED <<table, mgr, queue, life, missed, fault>>

-----------------------------------------------------------------------------
(* The kernel: DNC_Socket_State_Change runs in a softirq.                   *)

Losable == {"established", "fin"}
\* A FIN, then a reset or a keepalive timeout; or either at once.
After(tcp) == IF tcp = "established" THEN {"fin", "shut"} ELSE {"shut"}

\* Before the callbacks are registered nobody is told.
Lose_Unnoticed(s) ==
    /\ fault = "none"
    /\ sk[s].tcp \in Losable /\ sk[s].user = "none"
    /\ \E new \in After(sk[s].tcp) : sk' = [sk EXCEPT ![s].tcp = new]
    /\ UNCHANGED <<table, mgr, queue, life, dnc, tvars, missed, fault>>

\* The work becomes __Rebuild_Connection and is queued, pending or not.
Rebuild(d) == [dnc EXCEPT ![d].fn = "rebuild", ![d].work = "timer"]
Socket_State_Change(s) ==
    LET d == sk[s].user IN
    /\ fault = "none"
    /\ sk[s].tcp \in Losable /\ d # "none"
    /\ life[d] = "live" /\ Unlocked(d) /\ dnc[d].work = "none"
    /\ \E new \in After(sk[s].tcp) : sk' = [sk EXCEPT ![s].tcp = new]
    /\ dnc' = Rebuild(d)
    /\ UNCHANGED <<table, mgr, queue, life, tvars, missed, fault>>

\* INIT_WORK of pending work; a container that is gone; or, on the CPU that holds
\* the lock, a spin that nobody ends: the holders do not disable softirqs.
State_Change_Fault(s) ==
    LET d == sk[s].user IN
    /\ fault = "none"
    /\ sk[s].tcp \in Losable /\ d # "none"
    /\ \/ life[d] = "freed" /\ Crash("freed")
       \/ life[d] = "live" /\ Unlocked(d) /\ dnc[d].work # "none" /\ Crash("pending_work")
       \/ /\ life[d] = "live"
          /\ ~Unlocked(d) \/ \E t \in Threads : pc[t] = "take" /\ Target(t) = d
          /\ Crash("softirq_lock")

-----------------------------------------------------------------------------
(* Send_Msg and Recv_Msg: the container is looked up without a lock.        *)

Send_Msg(p, i) ==
    /\ Idle(p)
    /\ table[i] # "none"
    /\ Begin(p, "send", table[i], i, "check")
    /\ UNCHANGED <<table, mgr, queue, life, dnc, sk, missed, fault>>

Check_Connected(p) ==
    /\ Uses(p, "check")
    /\ IF dnc[cur[p]].status = "CONNECTED" THEN Goto(p, "xmit") ELSE Finish(p)
    /\ UNCHANGED <<table, mgr, queue, life, dnc, sk, missed, fault>>

Load_Socket(p) ==
    LET s == dnc[cur[p]].sock IN
    /\ Uses(p, "xmit")
    /\ \/ s = 0 /\ Crash("null_socket")
       \/ /\ s # 0
          /\ held' = [held EXCEPT ![p] = s]
          /\ pc' = [pc EXCEPT ![p] = "sending"]
          /\ UNCHANGED <<job, cur, rel, at, table, mgr, queue, life, dnc, sk, missed, fault>>

\* sock_xmit; success or an error code, it changes nothing here.
Sock_Xmit(p) ==
    /\ At(p, "sending")
    /\ \/ sk[held[p]].tcp = "released" /\ Crash("freed_socket")
       \/ /\ sk[held[p]].tcp # "released"
          /\ Finish(p)
          /\ UNCHANGED <<table, mgr, queue, life, dnc, sk, missed, fault>>

-----------------------------------------------------------------------------
(* Release_DNCS_Manager keeps dms_nodes_lock, and keeps the entries.        *)

Release_DNCS_Manager(p) ==
    /\ p \in Unloaders
    /\ Idle(p) /\ mgr = "none"
    /\ mgr' = p
    /\ Begin(p, "unload", "none", 0, "next")
    /\ UNCHANGED <<table, queue, life, dnc, sk, missed, fault>>

Release_Next(p) ==
    /\ At(p, "next")
    /\ at' = [at EXCEPT ![p] = @ + 1]
    /\ IF at'[p] \in Nodes
       THEN /\ IF table[at'[p]] # "none" THEN Release(p, table[at'[p]]) ELSE UNCHANGED <<pc, rel>>
            /\ UNCHANGED mgr
       ELSE mgr' = "none" /\ pc' = [pc EXCEPT ![p] = "builder"] /\ UNCHANGED rel
    /\ UNCHANGED <<job, cur, held, table, queue, life, dnc, sk, missed, fault>>

\* Release_Node_Builder: flush_workqueue and destroy_workqueue.
Release_Node_Builder(p) ==
    /\ At(p, "builder")
    /\ Flushed(p)
    /\ queue' = "destroyed"
    /\ pc' = [pc EXCEPT ![p] = "idle"]
    /\ job' = [job EXCEPT ![p] = "none"]
    /\ UNCHANGED <<cur, rel, at, held, table, mgr, life, dnc, sk, missed, fault>>

-----------------------------------------------------------------------------

\* Steps of a thread that is under way.
Step(t) ==
    \/ Use_Freed(t)
    \/ Build_Connection(t)
    \/ Schedule_to_Node_Builder_Workq(t)
    \/ Set_Building(t)
    \/ Destroy_by_Index(t)
    \/ Release_DMS_Node_Container(t)
    \/ Cancel_from_Node_Builder_Workq(t)
    \/ Flush_Workqueue(t)
    \/ Set_Disconnected(t)
    \/ Take_Socket(t)
    \/ Release_Socket(t)
    \/ Release_Null(t)
    \/ Free_DMS_Node_Container(t)

ProcStep(p) ==
    \/ Occupy_One_Index(p)
    \/ Set_Index(p)
    \/ Check_Connected(p)
    \/ Load_Socket(p)
    \/ Sock_Xmit(p)
    \/ Release_Next(p)
    \/ Release_Node_Builder(p)

HandlerStep(w) ==
    \/ Node_Connection_Handler(w)
    \/ Lock_for_Connect(w)
    \/ Connect_OK(w)
    \/ Connect_Fails(w)
    \/ Connect_Again(w)
    \/ Register_Callbacks(w)
    \/ Set_Connected(w)
    \/ Relock(w)
    \/ Rebuild_Init(w)

Call(p) ==
    \/ \E a \in Addrs : Create_DMS_Node_Container(p, a)
    \/ \E i \in Nodes : Destroy_DMS_Node_Container(p, i) \/ Send_Msg(p, i)
    \/ Release_DNCS_Manager(p)

Next ==
    \/ \E p \in Procs : Call(p) \/ ProcStep(p)
    \/ \E w \in Workers : HandlerStep(w) \/ \E d \in Dncs : Run_Work(w, d)
    \/ \E t \in Threads : Step(t)
    \/ \E d \in Dncs : Timer(d) \/ Run_Freed(d)
    \/ \E s \in Socks : Lose_Unnoticed(s) \/ Socket_State_Change(s) \/ State_Change_Fault(s)

Spec == Init /\ [][Next]_vars

\* Callers call when they like; a thread that is under way goes on, timers expire,
\* and workers take what is queued: the kernel schedules them all.
Fairness ==
    /\ \A t \in Threads : WF_vars(Step(t))
    /\ \A p \in Procs : WF_vars(ProcStep(p))
    /\ \A w \in Workers : WF_vars(HandlerStep(w))
    /\ \A d \in Dncs : WF_vars(Timer(d)) /\ WF_vars(Run_Freed(d) \/ \E w \in Workers : Run_Work(w, d))

FairSpec == Spec /\ Fairness

-----------------------------------------------------------------------------
(* Properties, of runs up to the first undefined behaviour.                 *)

Points == Dereferencing \cup {"idle", "sending", "next", "builder"}
Faults == {"none", "freed", "null_socket", "freed_socket", "pending_work", "softirq_lock",
           "no_queue"}

TypeOK ==
    /\ table \in [Nodes -> Dncs \cup {"none"}]
    /\ mgr \in Procs \cup {"none"}
    /\ queue \in {"up", "destroyed"}
    /\ life \in [Dncs -> {"fresh", "live", "freed"}]
    /\ dnc \in [Dncs -> [addr : Addrs \cup {"none"}, index : Nodes \cup {0},
            status : {"zero", "INIT", "BUILDING", "CONNECTED", "DISCONNECTED"}, retry : Nat,
            sock : Socks \cup {0}, recver : BOOLEAN, lock : Workers \cup {"none"},
            fn : {"none", "connect", "rebuild"}, work : {"none", "timer", "queue"}]]
    /\ sk \in [Socks -> [tcp : {"unused", "closed", "established", "fin", "shut", "released"},
                         user : Dncs \cup {"none"}]]
    /\ pc \in [Threads -> Points]
    /\ job \in [Threads -> {"none", "build", "destroy", "send", "unload", "handler", "rebuild"}]
    /\ cur \in [Threads -> Dncs \cup {"none"}]
    /\ rel \in [Threads -> Dncs \cup {"none"}]
    /\ at \in [Threads -> 0..NNodes + 1]
    /\ held \in [Threads -> Socks \cup {0}]
    /\ missed \in [Dncs -> {"no", "handler", "rebuild"}]
    /\ fault \in Faults

\* "insert to DNCS array, and check duplicate": threads that build containers for one
\* address at the same time end up with one entry of the table, and what is in the
\* table is in use until the manager itself is released.
InService == queue = "up" /\ \A p \in Procs : job[p] # "unload"
OneContainerPerAddress ==
    \A i, j \in Nodes : table[i] # "none" /\ table[j] # "none" =>
        /\ dnc[table[i]].addr = dnc[table[j]].addr => i = j
        /\ InService => life[table[i]] = "live"

\* A container is released by one thread at a time, however many destroy it or give it
\* up, unless the manager is being released.
Releasing(d) == {t \in Threads : rel[t] = d}
ReleasedByOne ==
    \A d \in Dncs : \A t, u \in Releasing(d) : t = u \/ "unload" \in {job[t], job[u]}

\* __DNC_Release_Socket takes the lock that Node_Connection_Handler keeps while it
\* connects: as long as the container is not freed, its socket stays while the handler
\* registers the callbacks and creates the receiver, whoever disconnects meanwhile.
HandlerKeepsSocket ==
    \A w \in Workers : pc[w] \in {"register", "connected"} /\ life[cur[w]] = "live" =>
        Tcp(cur[w]) \notin {"none", "released"}

\* Somebody works on a container, or its work is pending.
Attended(d) ==
    \/ dnc[d].work # "none"
    \/ \E t \in Threads : Target(t) = d /\ job[t] # "send"

\* A container that is BUILDING, with a socket that could be connected, is being built, with
\* two exceptions: a handler that ran before BUILDING was stored, and a rebuild that found
\* BUILDING where it had stored INIT, since an earlier one was still under way.  (The others
\* that stay BUILDING have lost their socket before the callbacks were registered, or had
\* it taken by a second rebuild.)
StallsAreKnown ==
    \A d \in Dncs :
        fault = "none" /\ life[d] = "live" /\ dnc[d].status = "BUILDING" /\ Tcp(d) = "closed"
        => Attended(d) \/ missed[d] # "no"

\* A thread that has to wait: for dms_nodes_lock, for the lock of its container, or until
\* node_builder_workq is flushed.
Busy == {t \in Threads : pc[t] # "idle"}
Waits(t) ==
    /\ pc[t] \in Dereferencing => life[Target(t)] = "live"
    /\ \/ pc[t] \in {"occupy", "clean"} /\ mgr # "none"
       \/ pc[t] \in {"schedule", "cancel", "take", "lock", "relock", "init"} /\ ~Unlocked(Target(t))
       \/ pc[t] = "handler" /\ dnc[cur[t]].sock = 0 /\ ~Unlocked(cur[t])
       \/ pc[t] \in {"flush", "builder"} /\ ~Flushed(t)

\* What still waits when nothing can go on: a Release_DNCS_Manager that flushes the queue
\* with dms_nodes_lock held, and a handler that gives up its container; or two handlers that
\* give up their containers, each of which flushes the queue and waits for the other.
DeadlockIsKnown ==
    /\ fault = "none" /\ Busy # {}
    /\ \A d \in Dncs : dnc[d].work = "none"
    /\ \A t \in Busy : Waits(t)
    =>
        \/ \E w \in Workers : pc[w] = "clean" /\ mgr # "none" /\ pc[mgr] = "flush"
        \/ \E v, w \in Workers : v # w /\ pc[v] = "flush" /\ pc[w] = "flush"

\* A connection that is lost while it is CONNECTED is taken down in the end: its socket is
\* released, by the rebuild or by whoever destroys the container.
LostConnectionIsTakenDown ==
    \A d \in Dncs : \A s \in Socks :
        dnc[d].status = "CONNECTED" /\ dnc[d].sock = s /\ sk[s].tcp \in {"fin", "shut"} ~>
            sk[s].tcp = "released" \/ fault # "none"
=============================================================================
