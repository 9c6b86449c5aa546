---------------------- MODULE ConnectionManagerProofs ----------------------
(***************************************************************************)
(* Safety of the connections, for any number of datanodes, addresses,      *)
(* nodes of the table, sockets, threads and retries.                       *)
(*                                                                         *)
(*   TypeInv    types, and what a thread has at its control point;          *)
(*   TabInv     a container is in one node of the table at most, the nodes  *)
(*              in use hold containers of different addresses, and one that *)
(*              is being released is in none: OneContainerPerAddress;       *)
(*   TakesFromTable  only the thread that took a container out of its node  *)
(*              releases it: ReleasedByOne;                                 *)
(*   SockInv    who owns a socket and who holds the lock of its container:  *)
(*              HandlerKeepsSocket;                                         *)
(*   PlaceInv   a container that a thread touches is in the table, or is    *)
(*              being released, or is new;                                  *)
(*   NeedIsAnswered  a container that is BUILDING with a socket that could  *)
(*              be connected has a thread or a queued work that builds it,  *)
(*              or its building was missed: StallsAreKnown;                 *)
(*   WaitInv    a lock is held by a thread that goes on: DeadlockIsKnown.   *)
(***************************************************************************)
EXTENDS ConnectionManager, TLAPS

-----------------------------------------------------------------------------
(* Types and control.                                                       *)

\* Where a thread has a container that it releases, and where it may have one.
Releases == {"release", "cancel", "flush", "free"}
Drops == {"disconnect", "take", "stop"}
\* The handler that connects.
Handles == {"handler", "lock", "connect", "register", "connected", "relock"}

\* What a thread has at its control point.
Control(t) ==
    /\ t \in Workers => job[t] \in {"none", "handler", "rebuild"}
    /\ t \in Procs => job[t] \in {"none", "build", "destroy", "send", "unload"}
    /\ pc[t] = "idle" => job[t] = "none" /\ cur[t] = "none"
    /\ rel[t] # "none" => pc[t] \in Releases \cup Drops
    /\ pc[t] \in Releases => rel[t] # "none"
    /\ pc[t] \in Drops => rel[t] # "none" \/ job[t] = "rebuild"
    /\ pc[t] \in {"next", "builder"} => job[t] = "unload"
    /\ job[t] = "unload" => cur[t] = "none" /\ (pc[t] \in {"next", "builder"} \/ rel[t] # "none")
    /\ job[t] = "unload" /\ pc[t] # "builder" => at[t] \in 0..NNodes
    /\ pc[t] \in {"occupy", "index"} => job[t] = "build"
    /\ pc[t] = "index" => at[t] \in Nodes
    /\ pc[t] \in Handles => job[t] = "handler"
    /\ pc[t] = "init" => job[t] = "rebuild"
    /\ pc[t] \in {"schedule", "clean"} => job[t] \in {"build", "handler", "rebuild"}
    /\ pc[t] \in {"building", "build"} => job[t] \in {"build", "rebuild"}
    /\ pc[t] \in {"check", "xmit", "sending"} <=> job[t] = "send"
    /\ job[t] \in {"build", "handler", "rebuild", "send"} => cur[t] # "none"
    /\ held[t] # 0 => pc[t] \in {"stop", "sending"}

ControlOK == \A t \in Threads : Control(t)

ThreadTypes ==
    /\ pc \in [Threads -> Points]
    /\ job \in [Threads -> {"none", "build", "destroy", "send", "unload", "handler", "rebuild"}]
    /\ cur \in [Threads -> Dncs \cup {"none"}]
    /\ rel \in [Threads -> Dncs \cup {"none"}]
    /\ at \in [Threads -> 0..NNodes + 1]
    /\ held \in [Threads -> Socks \cup {0}]

\* Nothing of a thread is changed.
Same(u) ==
    /\ pc'[u] = pc[u] /\ job'[u] = job[u] /\ cur'[u] = cur[u]
    /\ rel'[u] = rel[u] /\ at'[u] = at[u] /\ held'[u] = held[u]
OthersSame(t) == \A u \in Threads \ {t} : Same(u)

LEMMA SameControl ==
  ASSUME ControlOK, NEW t \in Threads, OthersSame(t), Control(t)'
  PROVE  ControlOK'
<1> SUFFICES ASSUME NEW u \in Threads, u # t PROVE Control(u)'
  BY DEF ControlOK
<1>1. Same(u) /\ Control(u)
  BY DEF OthersSame, ControlOK
<1>2. QED
  BY <1>1 DEF Same, Control, Handles, Releases, Drops

\* A thread that goes on to a point keeps the rest.
LEMMA Going ==
  ASSUME ThreadTypes, NEW t \in Threads, NEW there \in Points, Goto(t, there)
  PROVE  /\ ThreadTypes' /\ OthersSame(t)
         /\ pc'[t] = there /\ job'[t] = job[t] /\ cur'[t] = cur[t] /\ rel'[t] = rel[t]
         /\ at'[t] = at[t] /\ held'[t] = held[t]
BY DEF Goto, ThreadTypes, OthersSame, Same

\* A thread that has finished.
LEMMA Finishing ==
  ASSUME ThreadTypes, ControlOK, NEW t \in Threads, pc[t] # "builder", Finish(t)
  PROVE  /\ ThreadTypes' /\ OthersSame(t) /\ Control(t)'
         /\ rel'[t] = "none" /\ held'[t] = 0
         /\ \/ /\ pc'[t] = "relock" /\ job[t] = "handler" /\ rel[t] # "none"
               /\ job'[t] = job[t] /\ cur'[t] = cur[t]
            \/ pc'[t] = "next" /\ job[t] = "unload" /\ job'[t] = job[t] /\ cur'[t] = cur[t]
            \/ pc'[t] = "idle" /\ job[t] # "unload" /\ job'[t] = "none" /\ cur'[t] = "none"
               /\ ~(job[t] = "handler" /\ rel[t] # "none")
<1>1. Control(t)
  BY DEF ControlOK
<1>2. /\ pc' = [pc EXCEPT ![t] = IF job[t] = "handler" /\ rel[t] # "none" THEN "relock"
                                 ELSE IF job[t] = "unload" THEN "next" ELSE "idle"]
      /\ rel' = [rel EXCEPT ![t] = "none"] /\ held' = [held EXCEPT ![t] = 0] /\ at' = at
      /\ IF pc'[t] = "idle"
         THEN job' = [job EXCEPT ![t] = "none"] /\ cur' = [cur EXCEPT ![t] = "none"]
         ELSE job' = job /\ cur' = cur
  BY DEF Finish
<1>3. ThreadTypes' /\ OthersSame(t)
  BY <1>2 DEF ThreadTypes, OthersSame, Same, Points, Dereferencing
<1>4. /\ rel'[t] = "none" /\ held'[t] = 0 /\ at'[t] = at[t]
      /\ \/ /\ pc'[t] = "relock" /\ job[t] = "handler" /\ rel[t] # "none"
            /\ job'[t] = job[t] /\ cur'[t] = cur[t]
         \/ pc'[t] = "next" /\ job[t] = "unload" /\ job'[t] = job[t] /\ cur'[t] = cur[t]
         \/ pc'[t] = "idle" /\ job[t] # "unload" /\ job'[t] = "none" /\ cur'[t] = "none"
            /\ ~(job[t] = "handler" /\ rel[t] # "none")
  BY <1>2 DEF ThreadTypes
<1>5. Control(t)'
  BY <1>1, <1>4 DEF Control, Handles, Releases, Drops
<1>6. QED
  BY <1>3, <1>4, <1>5

LEMMA Beginning ==
  ASSUME ThreadTypes, NEW t \in Threads, NEW there \in Points, NEW what, NEW d \in Dncs \cup {"none"},
         NEW i \in 0..NNodes + 1, Begin(t, what, d, i, there),
         what \in {"none", "build", "destroy", "send", "unload", "handler", "rebuild"}
  PROVE  /\ ThreadTypes' /\ OthersSame(t)
         /\ pc'[t] = there /\ job'[t] = what /\ cur'[t] = d /\ rel'[t] = rel[t]
         /\ at'[t] = i /\ held'[t] = held[t]
BY DEF Begin, ThreadTypes, OthersSame, Same

StateTypes ==
    /\ table \in [Nodes -> Dncs \cup {"none"}]
    /\ mgr \in Procs \cup {"none"}
    /\ queue \in {"up", "destroyed"}
    /\ life \in [Dncs -> {"fresh", "live", "freed"}]
    /\ dnc \in [Dncs -> [addr : Addrs \cup {"none"}, index : Nodes \cup {0},
            status : {"zero", "INIT", "BUILDING", "CONNECTED", "DISCONNECTED"}, retry : Nat,
            sock : Socks \cup {0}, recver : BOOLEAN, lock : Workers \cup {"none"},
            fn : {"none", "connect", "rebuild"}, work : {"none", "timer", "queue"}]]
    /\ sk \in [Socks -> [tcp : {"unused", "closed", "established", "fin", "shut", "released"},
                         user : Dncs \cup {"none"}]]
    /\ missed \in [Dncs -> {"no", "handler", "rebuild"}]
    /\ fault \in Faults

TypeInv == ThreadTypes /\ StateTypes /\ ControlOK

LEMMA TypeInvTypes == TypeInv => TypeOK
BY DEF TypeInv, ThreadTypes, StateTypes, TypeOK

LEMMA PointsAre ==
  \A x \in {"occupy", "index", "schedule", "building", "clean", "release", "cancel",
            "flush", "disconnect", "take", "stop", "free", "handler", "lock", "connect",
            "register", "connected", "relock", "init", "build", "check", "xmit", "idle",
            "sending", "next", "builder"} : x \in Points
BY DEF Points, Dereferencing

\* A step of a thread that goes on or finishes.
LEMMA GoingKeeps ==
  ASSUME ThreadTypes, ControlOK, NEW t \in Threads, NEW there \in Points, Goto(t, there),
         LET J == job[t] C == cur[t] R == rel[t] IN
         /\ pc[t] # "builder" /\ there # "idle"
         /\ R # "none" => there \in Releases \cup Drops
         /\ there \in Releases => R # "none"
         /\ there \in Drops => R # "none" \/ J = "rebuild"
         /\ there \in {"next", "builder"} => J = "unload"
         /\ J = "unload" => there \in {"next", "builder"} \/ R # "none"
         /\ there \notin {"occupy"}
         /\ there = "index" => J = "build" /\ at[t] \in Nodes
         /\ there \in Handles => J = "handler"
         /\ there = "init" => J = "rebuild"
         /\ there \in {"schedule", "clean"} => J \in {"build", "handler", "rebuild"}
         /\ there \in {"building", "build"} => J \in {"build", "rebuild"}
         /\ there \in {"check", "xmit", "sending"} <=> J = "send"
         /\ held[t] # 0 => there \in {"stop", "sending"}
  PROVE  ThreadTypes' /\ ControlOK' /\ OthersSame(t)
<1>1. /\ ThreadTypes' /\ OthersSame(t)
      /\ pc'[t] = there /\ job'[t] = job[t] /\ cur'[t] = cur[t] /\ rel'[t] = rel[t]
      /\ at'[t] = at[t] /\ held'[t] = held[t]
  BY Going
<1>2. Control(t)
  BY DEF ControlOK
<1>3. Control(t)'
  BY <1>1, <1>2 DEF Control
<1>4. QED
  BY <1>1, <1>3, SameControl

LEMMA FinishingKeeps ==
  ASSUME ThreadTypes, ControlOK, NEW t \in Threads, pc[t] # "builder", Finish(t)
  PROVE  ThreadTypes' /\ ControlOK' /\ OthersSame(t)
BY Finishing, SameControl

LEMMA SomeTarget ==
  ASSUME ThreadTypes, ControlOK, NEW t \in Threads
  PROVE  /\ pc[t] \in Releases => rel[t] \in Dncs /\ Target(t) = rel[t]
         /\ pc[t] \in Drops => Target(t) \in Dncs
         /\ rel[t] \in Dncs => Target(t) = rel[t]
         /\ rel[t] \notin Dncs => rel[t] = "none" /\ Target(t) = cur[t]
         /\ pc[t] \in {"occupy", "index", "schedule", "building", "clean", "handler", "lock", "connect",
                       "register", "connected", "relock", "init", "build", "check", "xmit", "sending"}
            => rel[t] = "none" /\ cur[t] \in Dncs /\ Target(t) = cur[t]
         /\ pc[t] \in Drops /\ rel[t] = "none" => cur[t] \in Dncs /\ Target(t) = cur[t]
<1>1. Control(t) /\ rel[t] \in Dncs \cup {"none"} /\ cur[t] \in Dncs \cup {"none"}
  BY DEF ControlOK, ThreadTypes
<1>2. QED
  BY <1>1, ThreadsAssumption DEF Control, Releases, Drops, Handles, Target

LEMMA StepKeepsThreads ==
  ASSUME TypeInv, NEW t \in Threads, Step(t)
  PROVE  ThreadTypes' /\ ControlOK' /\ OthersSame(t)
<1> USE PointsAre DEF Releases, Drops, Handles
<1>1. Control(t) /\ ThreadTypes /\ ControlOK /\ StateTypes
  BY DEF TypeInv, ControlOK
<1>2. CASE Use_Freed(t) \/ Release_Null(t)
  BY <1>1, <1>2 DEF Use_Freed, Release_Null, Crash, tvars, ThreadTypes, ControlOK, Control, OthersSame, Same
<1>3. CASE Build_Connection(t)
  <2>1. pc[t] = "build" /\ (Goto(t, "schedule") \/ Finish(t))
    BY <1>3 DEF Build_Connection, Uses, At
  <2>2. QED
    BY <1>1, <2>1, GoingKeeps, FinishingKeeps DEF Control
<1>4. CASE Schedule_to_Node_Builder_Workq(t)
  <2>1. pc[t] = "schedule"
    BY <1>4 DEF Schedule_to_Node_Builder_Workq, Uses, At
  <2>2. \/ job[t] = "handler" /\ Goto(t, "relock")
        \/ Finish(t)
        \/ job[t] # "handler" /\ Goto(t, "building")
        \/ Goto(t, "clean")
    BY <1>4 DEF Schedule_to_Node_Builder_Workq
  <2>3. QED
    BY <1>1, <2>1, <2>2, GoingKeeps, FinishingKeeps DEF Control
<1>5. CASE Set_Building(t)
  BY <1>1, <1>5, FinishingKeeps DEF Set_Building, Uses, At
<1>6. CASE Destroy_by_Index(t)
  <2>1. pc[t] = "clean" /\ rel[t] = "none"
    BY <1>1, <1>6 DEF Destroy_by_Index, Uses, At, Control
  <2>2. CASE Goto(t, "relock") /\ job[t] = "handler"
    BY <1>1, <2>1, <2>2, GoingKeeps DEF Control
  <2>3. CASE Finish(t)
    BY <1>1, <2>1, <2>3, FinishingKeeps
  <2>4. CASE \E i \in Nodes : table[i] # "none" /\ Release(t, table[i]) /\ UNCHANGED <<job, cur, at, held>>
    <3>1. PICK d \in Dncs : Release(t, d) /\ UNCHANGED <<job, cur, at, held>>
      BY <1>1, <2>4 DEF StateTypes
    <3>2. ThreadTypes' /\ OthersSame(t)
      BY <1>1, <3>1 DEF Release, ThreadTypes, OthersSame, Same
    <3>3. pc'[t] = "release" /\ rel'[t] = d /\ d # "none"
      BY <1>1, <3>1, ThreadsAssumption DEF Release, ThreadTypes
    <3>4. Control(t)'
      BY <1>1, <2>1, <3>1, <3>3 DEF Control
    <3>5. QED
      BY <1>1, <3>2, <3>4, SameControl
  <2>5. QED
    BY <1>6, <2>2, <2>3, <2>4 DEF Destroy_by_Index
<1>7. CASE Release_DMS_Node_Container(t)
  <2>1. pc[t] = "release" /\ \E x \in {"cancel", "disconnect", "free"} : Goto(t, x)
    BY <1>7 DEF Release_DMS_Node_Container, Uses, At
  <2>2. QED
    BY <1>1, <2>1, GoingKeeps DEF Control
<1>8. CASE Cancel_from_Node_Builder_Workq(t)
  <2>1. pc[t] = "cancel" /\ (Goto(t, "flush") \/ Goto(t, "disconnect"))
    BY <1>8 DEF Cancel_from_Node_Builder_Workq, Uses, At
  <2>2. QED
    BY <1>1, <2>1, GoingKeeps DEF Control
<1>9. CASE Flush_Workqueue(t)
  <2>1. pc[t] = "flush" /\ Goto(t, "disconnect")
    BY <1>9 DEF Flush_Workqueue, Uses, At
  <2>2. QED
    BY <1>1, <2>1, GoingKeeps DEF Control
<1>10. CASE Set_Disconnected(t)
  <2>1. pc[t] = "disconnect" /\ (Goto(t, "take") \/ Goto(t, IF rel[t] = "none" THEN "init" ELSE "free"))
    BY <1>10 DEF Set_Disconnected, Uses, At, AfterDrop
  <2>2. QED
    BY <1>1, <2>1, GoingKeeps DEF Control
<1>11. CASE Take_Socket(t)
  <2>1. pc[t] = "take" /\ pc' = [pc EXCEPT ![t] = "stop"] /\ UNCHANGED <<job, cur, rel, at>>
        /\ Target(t) \in Dncs /\ held' = [held EXCEPT ![t] = dnc[Target(t)].sock]
    BY <1>1, <1>11, SomeTarget DEF Take_Socket, Uses, At
  <2>2. dnc[Target(t)].sock \in Socks \cup {0}
    BY <1>1, <2>1 DEF StateTypes
  <2>3. ThreadTypes' /\ OthersSame(t) /\ pc'[t] = "stop"
    BY <1>1, <2>1, <2>2 DEF ThreadTypes, OthersSame, Same
  <2>4. Control(t)'
    BY <1>1, <2>1, <2>3 DEF Control
  <2>5. QED
    BY <1>1, <2>3, <2>4, SameControl
<1>12. CASE Release_Socket(t)
  <2>1. pc[t] = "stop" /\ pc' = [pc EXCEPT ![t] = IF rel[t] = "none" THEN "init" ELSE "free"]
        /\ UNCHANGED <<job, cur, rel, at>> /\ held' = [held EXCEPT ![t] = 0]
    BY <1>12 DEF Release_Socket, Uses, At, AfterDrop
  <2>2. ThreadTypes' /\ OthersSame(t) /\ pc'[t] = (IF rel[t] = "none" THEN "init" ELSE "free") /\ held'[t] = 0
    BY <1>1, <2>1 DEF ThreadTypes, OthersSame, Same
  <2>3. Control(t)'
    BY <1>1, <2>1, <2>2 DEF Control
  <2>4. QED
    BY <1>1, <2>2, <2>3, SameControl
<1>13. CASE Free_DMS_Node_Container(t)
  BY <1>1, <1>13, FinishingKeeps DEF Free_DMS_Node_Container, Uses, At
<1>14. QED
  BY <1>2, <1>3, <1>4, <1>5, <1>6, <1>7, <1>8, <1>9, <1>10, <1>11, <1>12, <1>13 DEF Step

LEMMA BeginKeeps ==
  ASSUME ThreadTypes, ControlOK, NEW t \in Threads, NEW there \in Points, NEW what, NEW d \in Dncs \cup {"none"},
         NEW i \in 0..NNodes + 1, Begin(t, what, d, i, there), rel[t] = "none", held[t] = 0,
         \/ /\ t \in Procs
            /\ \/ what = "build" /\ d \in Dncs /\ there = "occupy"
               \/ what = "build" /\ d \in Dncs /\ there = "index" /\ i \in Nodes
               \/ what = "send" /\ d \in Dncs /\ there = "check"
               \/ what = "unload" /\ d = "none" /\ there = "next" /\ i = 0
         \/ /\ t \in Workers
            /\ \/ what = "handler" /\ d \in Dncs /\ there = "handler"
               \/ what = "rebuild" /\ d \in Dncs /\ there = "disconnect"
  PROVE  ThreadTypes' /\ ControlOK' /\ OthersSame(t)
<1>1. what \in {"none", "build", "destroy", "send", "unload", "handler", "rebuild"}
  OBVIOUS
<1>2. /\ ThreadTypes' /\ OthersSame(t)
      /\ pc'[t] = there /\ job'[t] = what /\ cur'[t] = d /\ rel'[t] = rel[t]
      /\ at'[t] = i /\ held'[t] = held[t]
  BY <1>1, Beginning
<1>3. (t \in Procs => t \notin Workers) /\ "none" \notin Dncs /\ 0 \in 0..NNodes
  BY ThreadsAssumption, SizesAssumption
<1>4. Control(t)'
  BY <1>2, <1>3 DEF Control, Releases, Drops, Handles
<1>5. QED
  BY <1>2, <1>4, SameControl

LEMMA IdleThread ==
  ASSUME ControlOK, NEW t \in Threads, pc[t] \in {"idle", "occupy", "next", "builder"}
  PROVE  rel[t] = "none" /\ held[t] = 0
<1>1. Control(t)
  BY DEF ControlOK
<1>2. QED
  BY <1>1 DEF Control, Releases, Drops

LEMMA ProcStepKeepsThreads ==
  ASSUME TypeInv, NEW p \in Procs, ProcStep(p)
  PROVE  ThreadTypes' /\ ControlOK' /\ OthersSame(p)
<1> USE PointsAre DEF Releases, Drops, Handles
<1>1. Control(p) /\ ThreadTypes /\ ControlOK /\ StateTypes /\ p \in Threads
  BY DEF TypeInv, ControlOK, Threads
<1>2. CASE Occupy_One_Index(p)
  <2>1. pc[p] = "occupy" /\ rel[p] = "none" /\ held[p] = 0 /\ cur[p] \in Dncs
    BY <1>1, <1>2, IdleThread, SomeTarget DEF Occupy_One_Index, Uses, At
  <2>2. CASE Finish(p)
    BY <1>1, <2>1, <2>2, FinishingKeeps
  <2>3. CASE \E i \in FreeNodes : Begin(p, "build", cur[p], i, "index")
    <3>1. PICK i \in Nodes : Begin(p, "build", cur[p], i, "index")
      BY <2>3 DEF FreeNodes
    <3>2. i \in 0..NNodes + 1 /\ cur[p] \in Dncs \cup {"none"}
      BY <2>1, SizesAssumption DEF Nodes
    <3>3. QED
      BY <1>1, <2>1, <3>1, <3>2, BeginKeeps
  <2>4. QED
    BY <1>2, <2>2, <2>3 DEF Occupy_One_Index
<1>3. CASE Set_Index(p)
  <2>1. pc[p] = "index" /\ Goto(p, "build")
    BY <1>3 DEF Set_Index, Uses, At
  <2>2. QED
    BY <1>1, <2>1, GoingKeeps DEF Control
<1>4. CASE Check_Connected(p)
  <2>1. pc[p] = "check" /\ (Goto(p, "xmit") \/ Finish(p))
    BY <1>4 DEF Check_Connected, Uses, At
  <2>2. QED
    BY <1>1, <2>1, GoingKeeps, FinishingKeeps DEF Control
<1>5. CASE Load_Socket(p)
  <2>1. CASE UNCHANGED tvars
    BY <1>1, <2>1 DEF tvars, ThreadTypes, ControlOK, Control, OthersSame, Same
  <2>2. CASE /\ pc' = [pc EXCEPT ![p] = "sending"] /\ UNCHANGED <<job, cur, rel, at>>
             /\ held' = [held EXCEPT ![p] = dnc[cur[p]].sock]
    <3>1. pc[p] = "xmit" /\ dnc[cur[p]].sock \in Socks \cup {0}
      BY <1>1, <1>5, SomeTarget DEF Load_Socket, Uses, At, StateTypes
    <3>2. ThreadTypes' /\ OthersSame(p) /\ pc'[p] = "sending"
      BY <1>1, <2>2, <3>1 DEF ThreadTypes, OthersSame, Same
    <3>3. Control(p)'
      BY <1>1, <2>2, <3>1, <3>2 DEF Control
    <3>4. QED
      BY <1>1, <3>2, <3>3, SameControl
  <2>3. QED
    BY <1>5, <2>1, <2>2 DEF Load_Socket, Crash
<1>6. CASE Sock_Xmit(p)
  <2>1. CASE UNCHANGED tvars
    BY <1>1, <2>1 DEF tvars, ThreadTypes, ControlOK, Control, OthersSame, Same
  <2>2. QED
    BY <1>1, <1>6, <2>1, FinishingKeeps DEF Sock_Xmit, Crash, At
<1>7. CASE Release_Next(p)
  <2>1. /\ pc[p] = "next" /\ rel[p] = "none" /\ held[p] = 0 /\ job[p] = "unload"
        /\ UNCHANGED <<job, cur, held>> /\ at' = [at EXCEPT ![p] = @ + 1]
    BY <1>1, <1>7, IdleThread DEF Release_Next, At, Control
  <2>2. \/ at[p] + 1 \in Nodes /\ \E d \in Dncs : Release(p, d)
        \/ at[p] + 1 \in Nodes /\ UNCHANGED <<pc, rel>>
        \/ at[p] + 1 \notin Nodes /\ pc' = [pc EXCEPT ![p] = "builder"] /\ UNCHANGED rel
    <3>1. at'[p] = at[p] + 1
      BY <1>1, <2>1 DEF ThreadTypes
    <3>2. \A i \in Nodes : table[i] # "none" => table[i] \in Dncs
      BY <1>1 DEF StateTypes
    <3>3. QED
      BY <1>7, <3>1, <3>2 DEF Release_Next
  <2>3. at[p] + 1 \in 0..NNodes + 1 /\ at[p] + 1 \in Nat /\ (at[p] + 1 \in Nodes => at[p] + 1 \in 0..NNodes)
    <3>1. at[p] \in 0..NNodes /\ NNodes \in Nat
      BY <1>1, <2>1, SizesAssumption DEF Control
    <3>2. QED
      BY <3>1 DEF Nodes
  <2>4. ThreadTypes' /\ OthersSame(p)
    BY <1>1, <2>1, <2>2, <2>3 DEF ThreadTypes, OthersSame, Same, Release
  <2>5. at'[p] = at[p] + 1
    BY <1>1, <2>1 DEF ThreadTypes
  <2>6. Control(p)'
    <3>1. CASE at[p] + 1 \in Nodes /\ \E d \in Dncs : Release(p, d)
      <4>1. pc'[p] = "release" /\ rel'[p] \in Dncs
        BY <1>1, <3>1 DEF Release, ThreadTypes
      <4>2. QED
        BY <1>1, <2>1, <2>3, <2>5, <3>1, <4>1, ThreadsAssumption DEF Control
    <3>2. CASE at[p] + 1 \in Nodes /\ UNCHANGED <<pc, rel>>
      BY <1>1, <2>1, <2>3, <2>5, <3>2 DEF Control
    <3>3. CASE pc' = [pc EXCEPT ![p] = "builder"] /\ UNCHANGED rel
      <4>1. pc'[p] = "builder"
        BY <1>1, <3>3 DEF ThreadTypes
      <4>2. QED
        BY <1>1, <2>1, <3>3, <4>1 DEF Control
    <3>4. QED
      BY <2>2, <3>1, <3>2, <3>3
  <2>7. QED
    BY <1>1, <2>4, <2>6, SameControl
<1>8. CASE Release_Node_Builder(p)
  <2>1. /\ pc[p] = "builder" /\ pc' = [pc EXCEPT ![p] = "idle"]
        /\ job' = [job EXCEPT ![p] = "none"] /\ UNCHANGED <<cur, rel, at, held>>
    BY <1>8 DEF Release_Node_Builder, At
  <2>2. ThreadTypes' /\ OthersSame(p) /\ pc'[p] = "idle" /\ job'[p] = "none"
    BY <1>1, <2>1 DEF ThreadTypes, OthersSame, Same
  <2>3. Control(p)'
    BY <1>1, <2>1, <2>2 DEF Control
  <2>4. QED
    BY <1>1, <2>2, <2>3, SameControl
<1>9. QED
  BY <1>2, <1>3, <1>4, <1>5, <1>6, <1>7, <1>8 DEF ProcStep

LEMMA HandlerStepKeepsThreads ==
  ASSUME TypeInv, NEW w \in Workers, HandlerStep(w)
  PROVE  ThreadTypes' /\ ControlOK' /\ OthersSame(w)
<1> USE PointsAre DEF Releases, Drops, Handles
<1>1. Control(w) /\ ThreadTypes /\ ControlOK /\ StateTypes /\ w \in Threads
  BY DEF TypeInv, ControlOK, Threads
<1>3. CASE Finish(w) /\ pc[w] # "builder"
  BY <1>1, <1>3, FinishingKeeps
<1>4. CASE Node_Connection_Handler(w)
  <2>1. pc[w] = "handler" /\ (Goto(w, "lock") \/ Finish(w))
    BY <1>4 DEF Node_Connection_Handler, Uses, At
  <2>2. QED
    BY <1>1, <1>3, <2>1, GoingKeeps DEF Control
<1>5. CASE Lock_for_Connect(w)
  <2>1. pc[w] = "lock" /\ Goto(w, "connect")
    BY <1>5 DEF Lock_for_Connect, Uses, At
  <2>2. QED
    BY <1>1, <2>1, GoingKeeps DEF Control
<1>6. CASE Connect_OK(w)
  <2>1. pc[w] = "connect" /\ Goto(w, "register")
    BY <1>6 DEF Connect_OK, Uses, At
  <2>2. QED
    BY <1>1, <2>1, GoingKeeps DEF Control
<1>7. CASE Connect_Fails(w)
  <2>1. pc[w] = "connect" /\ Goto(w, "schedule")
    BY <1>7 DEF Connect_Fails, Uses, At
  <2>2. QED
    BY <1>1, <2>1, GoingKeeps DEF Control
<1>8. CASE Register_Callbacks(w)
  <2>1. pc[w] = "register" /\ Goto(w, "connected")
    BY <1>8 DEF Register_Callbacks, Uses, At
  <2>2. QED
    BY <1>1, <2>1, GoingKeeps DEF Control
<1>9. CASE Rebuild_Init(w)
  <2>1. pc[w] = "init" /\ Goto(w, "build")
    BY <1>9 DEF Rebuild_Init, Uses, At
  <2>2. QED
    BY <1>1, <2>1, GoingKeeps DEF Control
<1>10. QED
  BY <1>3, <1>4, <1>5, <1>6, <1>7, <1>8, <1>9
  DEF HandlerStep, Connect_Again, Set_Connected, Relock, Uses, At

LEMMA CallKeepsThreads ==
  ASSUME TypeInv, NEW p \in Procs, Call(p)
  PROVE  ThreadTypes' /\ ControlOK' /\ OthersSame(p)
<1> USE PointsAre
<1>1. Control(p) /\ ThreadTypes /\ ControlOK /\ StateTypes /\ p \in Threads
  BY DEF TypeInv, ControlOK, Threads
<1>2. pc[p] = "idle" /\ rel[p] = "none" /\ held[p] = 0 /\ job[p] = "none" /\ cur[p] = "none"
  <2>1. pc[p] = "idle"
    BY DEF Call, Create_DMS_Node_Container, Destroy_DMS_Node_Container, Send_Msg,
           Release_DNCS_Manager, Idle, At
  <2>2. QED
    BY <1>1, <2>1, IdleThread DEF Control
<1>4. ASSUME NEW a \in Addrs, Create_DMS_Node_Container(p, a)
      PROVE  ThreadTypes' /\ ControlOK' /\ OthersSame(p)
  <2>1. CASE UNCHANGED tvars
    BY <1>1, <2>1 DEF tvars, ThreadTypes, ControlOK, Control, OthersSame, Same
  <2>2. CASE \E d \in Dncs : Begin(p, "build", d, 0, "occupy")
    <3>1. 0 \in 0..NNodes + 1
      BY SizesAssumption
    <3>2. PICK d \in Dncs : Begin(p, "build", d, 0, "occupy")
      BY <2>2
    <3>3. "occupy" \in Points /\ d \in Dncs \cup {"none"}
      OBVIOUS
    <3>4. QED
      BY <1>1, <1>2, <3>1, <3>2, <3>3, BeginKeeps
  <2>3. QED
    BY <1>4, <2>1, <2>2 DEF Create_DMS_Node_Container
<1>5. ASSUME NEW i \in Nodes, Destroy_DMS_Node_Container(p, i)
      PROVE  ThreadTypes' /\ ControlOK' /\ OthersSame(p)
  <2>1. PICK d \in Dncs : Release(p, d)
    BY <1>1, <1>5 DEF Destroy_DMS_Node_Container, StateTypes
  <2>2. job' = [job EXCEPT ![p] = "destroy"] /\ UNCHANGED <<cur, at, held>>
    BY <1>5 DEF Destroy_DMS_Node_Container
  <2>3. ThreadTypes' /\ OthersSame(p) /\ pc'[p] = "release" /\ rel'[p] = d /\ job'[p] = "destroy"
    BY <1>1, <2>1, <2>2 DEF Release, ThreadTypes, OthersSame, Same
  <2>4. Control(p)'
    BY <1>1, <1>2, <2>2, <2>3, ThreadsAssumption DEF Control, Releases, Drops, Handles
  <2>5. QED
    BY <1>1, <2>3, <2>4, SameControl
<1>6. ASSUME NEW i \in Nodes, Send_Msg(p, i)
      PROVE  ThreadTypes' /\ ControlOK' /\ OthersSame(p)
  <2>1. table[i] \in Dncs /\ Begin(p, "send", table[i], i, "check")
    BY <1>1, <1>6 DEF Send_Msg, StateTypes
  <2>2. i \in 0..NNodes + 1
    BY SizesAssumption DEF Nodes
  <2>3. QED
    BY <1>1, <1>2, <2>1, <2>2, BeginKeeps
<1>7. CASE Release_DNCS_Manager(p)
  <2>1. Begin(p, "unload", "none", 0, "next")
    BY <1>7 DEF Release_DNCS_Manager
  <2>2. 0 \in 0..NNodes + 1
    BY SizesAssumption
  <2>3. QED
    BY <1>1, <1>2, <2>1, <2>2, BeginKeeps
<1>8. QED
  BY <1>4, <1>5, <1>6, <1>7 DEF Call

LEMMA RunWorkKeepsThreads ==
  ASSUME TypeInv, NEW w \in Workers, NEW d \in Dncs, Run_Work(w, d)
  PROVE  ThreadTypes' /\ ControlOK' /\ OthersSame(w)
<1> USE PointsAre
<1>1. Control(w) /\ ThreadTypes /\ ControlOK /\ StateTypes /\ w \in Threads
  BY DEF TypeInv, ControlOK, Threads
<1>2. rel[w] = "none" /\ held[w] = 0 /\ w \notin Procs
  BY <1>1, IdleThread, ThreadsAssumption DEF Run_Work, At
<1>3. Begin(w, "handler", d, 0, "handler") \/ Begin(w, "rebuild", d, 0, "disconnect")
  BY DEF Run_Work
<1>4. 0 \in 0..NNodes + 1
  BY SizesAssumption
<1>5. QED
  BY <1>1, <1>2, <1>3, <1>4, BeginKeeps

LEMMA KernelKeepsThreads ==
  ASSUME TypeInv,
         \/ \E d \in Dncs : Timer(d) \/ Run_Freed(d)
         \/ \E s \in Socks : Lose_Unnoticed(s) \/ Socket_State_Change(s) \/ State_Change_Fault(s)
         \/ UNCHANGED vars
  PROVE  UNCHANGED tvars /\ ThreadTypes' /\ ControlOK'
<1>1. UNCHANGED tvars
  BY DEF Timer, Run_Freed, Lose_Unnoticed, Socket_State_Change, State_Change_Fault, Crash, vars
<1>2. QED
  BY <1>1 DEF TypeInv, tvars, ThreadTypes, ControlOK, Control

-----------------------------------------------------------------------------
(* What the stores to a container leave.                                    *)

Container ==
    [addr : Addrs \cup {"none"}, index : Nodes \cup {0},
     status : {"zero", "INIT", "BUILDING", "CONNECTED", "DISCONNECTED"}, retry : Nat,
     sock : Socks \cup {0}, recver : BOOLEAN, lock : Workers \cup {"none"},
     fn : {"none", "connect", "rebuild"}, work : {"none", "timer", "queue"}]

\* Only d is changed, and not in the fields that are told to be kept.
Only(d) == dnc' \in [Dncs -> Container] /\ \A e \in Dncs \ {d} : dnc'[e] = dnc[e]
KeepsAddr(d) == dnc'[d].addr = dnc[d].addr
KeepsIndex(d) == dnc'[d].index = dnc[d].index
KeepsStatus(d) == dnc'[d].status = dnc[d].status
KeepsSock(d) == dnc'[d].sock = dnc[d].sock
KeepsLock(d) == dnc'[d].lock = dnc[d].lock
KeepsWork(d) == dnc'[d].work = dnc[d].work

LEMMA Stored ==
  ASSUME StateTypes, NEW d \in Dncs, NEW r \in Container, dnc' = [dnc EXCEPT ![d] = r]
  PROVE  Only(d) /\ dnc'[d] = r
BY DEF StateTypes, Container, Only

LEMMA Contents ==
  ASSUME StateTypes, NEW d \in Dncs
  PROVE  /\ dnc[d] \in Container
         /\ dnc[d].addr \in Addrs \cup {"none"} /\ dnc[d].index \in Nodes \cup {0}
         /\ dnc[d].status \in {"zero", "INIT", "BUILDING", "CONNECTED", "DISCONNECTED"}
         /\ dnc[d].retry \in Nat /\ dnc[d].sock \in Socks \cup {0} /\ dnc[d].recver \in BOOLEAN
         /\ dnc[d].lock \in Workers \cup {"none"} /\ dnc[d].work \in {"none", "timer", "queue"}
<1>1. dnc[d] \in Container
  BY DEF StateTypes, Container
<1>2. QED
  BY <1>1 DEF Container

LEMMA StoredLock ==
  ASSUME StateTypes, NEW d \in Dncs, NEW v \in Workers \cup {"none"}, dnc' = [dnc EXCEPT ![d].lock = v]
  PROVE  /\ Only(d) /\ dnc'[d].lock = v
         /\ KeepsAddr(d) /\ KeepsIndex(d) /\ KeepsStatus(d) /\ KeepsSock(d) /\ KeepsWork(d)
<1> DEFINE r == [dnc[d] EXCEPT !.lock = v]
<1>1. dnc[d] \in Container
  BY Contents
<1>2. r \in Container
  BY <1>1 DEF Container
<1>3. /\ r.lock = v /\ r.addr = dnc[d].addr /\ r.index = dnc[d].index /\ r.status = dnc[d].status
      /\ r.sock = dnc[d].sock /\ r.work = dnc[d].work
  BY <1>1 DEF Container
<1>4. dnc' = [dnc EXCEPT ![d] = r]
  OBVIOUS
<1> HIDE DEF r
<1>5. Only(d) /\ dnc'[d] = r
  BY <1>2, <1>4, Stored
<1>6. QED
  BY <1>3, <1>5 DEF KeepsAddr, KeepsIndex, KeepsStatus, KeepsSock, KeepsWork

LEMMA StoredStatus ==
  ASSUME StateTypes, NEW d \in Dncs, NEW v \in {"zero", "INIT", "BUILDING", "CONNECTED", "DISCONNECTED"},
         dnc' = [dnc EXCEPT ![d].status = v]
  PROVE  /\ Only(d) /\ dnc'[d].status = v
         /\ KeepsAddr(d) /\ KeepsIndex(d) /\ KeepsSock(d) /\ KeepsLock(d) /\ KeepsWork(d)
<1> DEFINE r == [dnc[d] EXCEPT !.status = v]
<1>1. dnc[d] \in Container
  BY Contents
<1>2. r \in Container
  BY <1>1 DEF Container
<1>3. /\ r.status = v /\ r.addr = dnc[d].addr /\ r.index = dnc[d].index /\ r.lock = dnc[d].lock
      /\ r.sock = dnc[d].sock /\ r.work = dnc[d].work
  BY <1>1 DEF Container
<1>4. dnc' = [dnc EXCEPT ![d] = r]
  OBVIOUS
<1> HIDE DEF r
<1>5. Only(d) /\ dnc'[d] = r
  BY <1>2, <1>4, Stored
<1>6. QED
  BY <1>3, <1>5 DEF KeepsAddr, KeepsIndex, KeepsLock, KeepsSock, KeepsWork

LEMMA StoredIndex ==
  ASSUME StateTypes, NEW d \in Dncs, NEW v \in Nodes, dnc' = [dnc EXCEPT ![d].index = v]
  PROVE  /\ Only(d) /\ dnc'[d].index = v
         /\ KeepsAddr(d) /\ KeepsStatus(d) /\ KeepsSock(d) /\ KeepsLock(d) /\ KeepsWork(d)
<1> DEFINE r == [dnc[d] EXCEPT !.index = v]
<1>1. dnc[d] \in Container
  BY Contents
<1>2. r \in Container
  BY <1>1 DEF Container
<1>3. /\ r.index = v /\ r.addr = dnc[d].addr /\ r.status = dnc[d].status /\ r.lock = dnc[d].lock
      /\ r.sock = dnc[d].sock /\ r.work = dnc[d].work
  BY <1>1 DEF Container
<1>4. dnc' = [dnc EXCEPT ![d] = r]
  OBVIOUS
<1> HIDE DEF r
<1>5. Only(d) /\ dnc'[d] = r
  BY <1>2, <1>4, Stored
<1>6. QED
  BY <1>3, <1>5 DEF KeepsAddr, KeepsStatus, KeepsLock, KeepsSock, KeepsWork

LEMMA StoredWork ==
  ASSUME StateTypes, NEW d \in Dncs, NEW v \in {"none", "timer", "queue"},
         dnc' = [dnc EXCEPT ![d].work = v]
  PROVE  /\ Only(d) /\ dnc'[d].work = v
         /\ KeepsAddr(d) /\ KeepsIndex(d) /\ KeepsStatus(d) /\ KeepsSock(d) /\ KeepsLock(d)
<1> DEFINE r == [dnc[d] EXCEPT !.work = v]
<1>1. dnc[d] \in Container
  BY Contents
<1>2. r \in Container
  BY <1>1 DEF Container
<1>3. /\ r.work = v /\ r.addr = dnc[d].addr /\ r.index = dnc[d].index /\ r.status = dnc[d].status
      /\ r.lock = dnc[d].lock /\ r.sock = dnc[d].sock
  BY <1>1 DEF Container
<1>4. dnc' = [dnc EXCEPT ![d] = r]
  OBVIOUS
<1> HIDE DEF r
<1>5. Only(d) /\ dnc'[d] = r
  BY <1>2, <1>4, Stored
<1>6. QED
  BY <1>3, <1>5 DEF KeepsAddr, KeepsIndex, KeepsStatus, KeepsLock, KeepsSock

LEMMA StoredQueued ==
  ASSUME StateTypes, NEW d \in Dncs, dnc' = Queued(d)
  PROVE  /\ Only(d) /\ dnc'[d].work = "timer"
         /\ KeepsAddr(d) /\ KeepsIndex(d) /\ KeepsStatus(d) /\ KeepsSock(d) /\ KeepsLock(d)
<1> DEFINE n == dnc[d].retry + 1
           r == [dnc[d] EXCEPT !.retry = n, !.fn = "connect", !.work = "timer"]
<1>1. dnc[d] \in Container /\ n \in Nat
  BY Contents
<1>2. dnc' = [dnc EXCEPT ![d] = r]
  BY DEF Queued
<1> HIDE DEF n
<1>3. r \in Container
  BY <1>1 DEF Container
<1>4. /\ r.work = "timer" /\ r.addr = dnc[d].addr /\ r.index = dnc[d].index /\ r.status = dnc[d].status
      /\ r.lock = dnc[d].lock /\ r.sock = dnc[d].sock
  BY <1>1 DEF Container
<1> HIDE DEF r
<1>5. Only(d) /\ dnc'[d] = r
  BY <1>2, <1>3, Stored
<1>6. QED
  BY <1>4, <1>5 DEF KeepsAddr, KeepsIndex, KeepsStatus, KeepsLock, KeepsSock

LEMMA StoredRebuild ==
  ASSUME StateTypes, NEW d \in Dncs, dnc' = Rebuild(d)
  PROVE  /\ Only(d) /\ dnc'[d].work = "timer"
         /\ KeepsAddr(d) /\ KeepsIndex(d) /\ KeepsStatus(d) /\ KeepsSock(d) /\ KeepsLock(d)
<1> DEFINE r == [dnc[d] EXCEPT !.fn = "rebuild", !.work = "timer"]
<1>1. dnc[d] \in Container
  BY Contents
<1>2. dnc' = [dnc EXCEPT ![d] = r]
  BY DEF Rebuild
<1>3. r \in Container
  BY <1>1 DEF Container
<1>4. /\ r.work = "timer" /\ r.addr = dnc[d].addr /\ r.index = dnc[d].index /\ r.status = dnc[d].status
      /\ r.lock = dnc[d].lock /\ r.sock = dnc[d].sock
  BY <1>1 DEF Container
<1> HIDE DEF r
<1>5. Only(d) /\ dnc'[d] = r
  BY <1>2, <1>3, Stored
<1>6. QED
  BY <1>4, <1>5 DEF KeepsAddr, KeepsIndex, KeepsStatus, KeepsLock, KeepsSock

LEMMA StoredSock ==
  ASSUME StateTypes, NEW d \in Dncs, NEW s \in Socks, dnc' = [dnc EXCEPT ![d].sock = s]
  PROVE  /\ Only(d) /\ dnc'[d].sock = s
         /\ KeepsAddr(d) /\ KeepsIndex(d) /\ KeepsStatus(d) /\ KeepsLock(d) /\ KeepsWork(d)
<1> DEFINE r == [dnc[d] EXCEPT !.sock = s]
<1>1. dnc[d] \in Container
  BY Contents
<1>2. r \in Container
  BY <1>1 DEF Container
<1>3. /\ r.sock = s /\ r.addr = dnc[d].addr /\ r.index = dnc[d].index /\ r.status = dnc[d].status
      /\ r.lock = dnc[d].lock /\ r.work = dnc[d].work
  BY <1>1 DEF Container
<1>4. dnc' = [dnc EXCEPT ![d] = r]
  OBVIOUS
<1> HIDE DEF r
<1>5. Only(d) /\ dnc'[d] = r
  BY <1>2, <1>4, Stored
<1>6. QED
  BY <1>3, <1>5 DEF KeepsAddr, KeepsIndex, KeepsStatus, KeepsLock, KeepsWork

LEMMA StoredInit ==
  ASSUME StateTypes, NEW d \in Dncs, NEW s \in Socks,
         dnc' = [dnc EXCEPT ![d].sock = s, ![d].status = "INIT"]
  PROVE  /\ Only(d) /\ dnc'[d].sock = s /\ dnc'[d].status = "INIT"
         /\ KeepsAddr(d) /\ KeepsIndex(d) /\ KeepsLock(d) /\ KeepsWork(d)
<1> DEFINE r == [dnc[d] EXCEPT !.sock = s, !.status = "INIT"]
<1>1. dnc[d] \in Container
  BY Contents
<1>2. r \in Container
  BY <1>1 DEF Container
<1>3. /\ r.sock = s /\ r.status = "INIT" /\ r.addr = dnc[d].addr /\ r.index = dnc[d].index
      /\ r.lock = dnc[d].lock /\ r.work = dnc[d].work
  BY <1>1 DEF Container
<1>4. dnc' = [dnc EXCEPT ![d] = r]
  OBVIOUS
<1> HIDE DEF r
<1>5. Only(d) /\ dnc'[d] = r
  BY <1>2, <1>4, Stored
<1>6. QED
  BY <1>3, <1>5 DEF KeepsAddr, KeepsIndex, KeepsLock, KeepsWork

LEMMA StoredDetached ==
  ASSUME StateTypes, NEW d \in Dncs, dnc' = [dnc EXCEPT ![d] = Detached(@)]
  PROVE  /\ Only(d) /\ dnc'[d].sock = 0
         /\ KeepsAddr(d) /\ KeepsIndex(d) /\ KeepsStatus(d) /\ KeepsLock(d) /\ KeepsWork(d)
<1> DEFINE r == [dnc[d] EXCEPT !.sock = 0, !.recver = FALSE]
<1>1. dnc[d] \in Container
  BY Contents
<1>2. r \in Container
  BY <1>1 DEF Container
<1>3. /\ r.sock = 0 /\ r.addr = dnc[d].addr /\ r.index = dnc[d].index /\ r.status = dnc[d].status
      /\ r.lock = dnc[d].lock /\ r.work = dnc[d].work
  BY <1>1 DEF Container
<1>4. dnc' = [dnc EXCEPT ![d] = r]
  BY DEF Detached
<1> HIDE DEF r
<1>5. Only(d) /\ dnc'[d] = r
  BY <1>2, <1>4, Stored
<1>6. QED
  BY <1>3, <1>5 DEF KeepsAddr, KeepsIndex, KeepsStatus, KeepsLock, KeepsWork

LEMMA StoredConnected ==
  ASSUME StateTypes, NEW d \in Dncs, NEW up \in BOOLEAN, NEW created \in BOOLEAN,
         dnc' = [dnc EXCEPT ![d].lock = "none",
                            ![d].status = IF up THEN "CONNECTED" ELSE @,
                            ![d].recver = IF up THEN @ \/ created ELSE @]
  PROVE  /\ Only(d) /\ dnc'[d].lock = "none" /\ dnc'[d].status = (IF up THEN "CONNECTED" ELSE dnc[d].status)
         /\ KeepsAddr(d) /\ KeepsIndex(d) /\ KeepsSock(d) /\ KeepsWork(d)
<1> DEFINE st == IF up THEN "CONNECTED" ELSE dnc[d].status
           re == IF up THEN dnc[d].recver \/ created ELSE dnc[d].recver
           r == [dnc[d] EXCEPT !.lock = "none", !.status = st, !.recver = re]
<1>1. /\ dnc[d] \in Container /\ re \in BOOLEAN
      /\ st \in {"zero", "INIT", "BUILDING", "CONNECTED", "DISCONNECTED"}
  BY Contents
<1>2. dnc' = [dnc EXCEPT ![d] = r]
  OBVIOUS
<1> HIDE DEF st, re
<1>3. r \in Container
  BY <1>1 DEF Container
<1>4. /\ r.lock = "none" /\ r.status = st /\ r.addr = dnc[d].addr /\ r.index = dnc[d].index
      /\ r.sock = dnc[d].sock /\ r.work = dnc[d].work
  BY <1>1 DEF Container
<1> HIDE DEF r
<1>5. Only(d) /\ dnc'[d] = r
  BY <1>2, <1>3, Stored
<1>6. QED
  BY <1>4, <1>5 DEF KeepsAddr, KeepsIndex, KeepsSock, KeepsWork, st

LEMMA StoredBlank ==
  ASSUME StateTypes, NEW d \in Dncs, NEW a \in Addrs, NEW s \in Socks,
         dnc' = [dnc EXCEPT ![d] = [Blank(a) EXCEPT !.sock = s, !.status = "INIT"]]
  PROVE  /\ Only(d) /\ dnc'[d].addr = a /\ dnc'[d].index = 0 /\ dnc'[d].status = "INIT"
         /\ dnc'[d].sock = s /\ dnc'[d].lock = "none" /\ dnc'[d].work = "none"
<1> DEFINE b == Blank(a)
           r == [b EXCEPT !.sock = s, !.status = "INIT"]
<1>1. b \in Container
  BY DEF Blank, Container
<1>2. b.addr = a /\ b.index = 0 /\ b.lock = "none" /\ b.work = "none"
  BY DEF Blank
<1>3. dnc' = [dnc EXCEPT ![d] = r]
  OBVIOUS
<1> HIDE DEF b
<1>4. r \in Container
  BY <1>1 DEF Container
<1>5. /\ r.sock = s /\ r.status = "INIT" /\ r.addr = b.addr /\ r.index = b.index
      /\ r.lock = b.lock /\ r.work = b.work
  BY <1>1 DEF Container
<1> HIDE DEF r
<1>6. Only(d) /\ dnc'[d] = r
  BY <1>3, <1>4, Stored
<1>7. QED
  BY <1>2, <1>5, <1>6

\* All but the containers.
RestTypes ==
    /\ table \in [Nodes -> Dncs \cup {"none"}]
    /\ mgr \in Procs \cup {"none"}
    /\ queue \in {"up", "destroyed"}
    /\ life \in [Dncs -> {"fresh", "live", "freed"}]
    /\ sk \in [Socks -> [tcp : {"unused", "closed", "established", "fin", "shut", "released"},
                         user : Dncs \cup {"none"}]]
    /\ missed \in [Dncs -> {"no", "handler", "rebuild"}]
    /\ fault \in Faults

LEMMA TwoParts == StateTypes <=> RestTypes /\ dnc \in [Dncs -> Container]
BY DEF StateTypes, RestTypes, Container

LEMMA StateKept ==
  ASSUME RestTypes', \/ dnc' = dnc
                     \/ \E d \in Dncs : Only(d),
         StateTypes
  PROVE  StateTypes'
<1>1. dnc' \in [Dncs -> Container]
  BY TwoParts DEF Only
<1>2. QED
  BY <1>1 DEF StateTypes, RestTypes, Container

LEMMA SocketMade ==
  ASSUME RestTypes, NEW d, NEW s \in Socks, NewSocket(d, s)
  PROVE  /\ sk' \in [Socks -> [tcp : {"unused", "closed", "established", "fin", "shut", "released"},
                               user : Dncs \cup {"none"}]]
         /\ sk[s].tcp = "unused" /\ sk'[s].tcp = "closed" /\ sk'[s].user = sk[s].user
         /\ \A r \in Socks \ {s} : sk'[r] = sk[r]
BY DEF NewSocket, Unused, RestTypes

\* A container is created with its socket, or freed again.
LEMMA Creating ==
  ASSUME NEW p \in Procs, NEW a \in Addrs, Create_DMS_Node_Container(p, a)
  PROVE  \E d \in Dncs :
           /\ life[d] = "fresh"
           /\ \/ \E s \in Socks :
                 /\ NewSocket(d, s)
                 /\ dnc' = [dnc EXCEPT ![d] = [Blank(a) EXCEPT !.sock = s, !.status = "INIT"]]
                 /\ life' = [life EXCEPT ![d] = "live"]
                 /\ Begin(p, "build", d, 0, "occupy")
              \/ /\ life' = [life EXCEPT ![d] = "freed"]
                 /\ UNCHANGED <<dnc, sk, tvars>>
BY Zenon DEF Create_DMS_Node_Container

LEMMA StepKeepsState ==
  ASSUME TypeInv, NEW t \in Threads, Step(t)
  PROVE  StateTypes'
<1>1. ThreadTypes /\ ControlOK /\ StateTypes /\ RestTypes
  BY TwoParts DEF TypeInv
<1>2. CASE Use_Freed(t) \/ Release_Null(t)
  BY <1>1, <1>2, StateKept DEF Use_Freed, Release_Null, Crash, RestTypes, Faults
<1>3. CASE Build_Connection(t)
  BY <1>1, <1>3, StateKept DEF Build_Connection, RestTypes
<1>4. CASE Schedule_to_Node_Builder_Workq(t)
  <2>1. pc[t] = "schedule" /\ cur[t] \in Dncs
    BY <1>1, <1>4, SomeTarget DEF Schedule_to_Node_Builder_Workq, Uses, At
  <2>2. /\ dnc' = dnc \/ dnc' = Queued(cur[t])
        /\ missed' = [missed EXCEPT ![cur[t]] = "no"]
        /\ UNCHANGED <<table, mgr, queue, life, sk, fault>>
    BY <1>4 DEF Schedule_to_Node_Builder_Workq
  <2>3. RestTypes'
    BY <1>1, <2>2 DEF RestTypes
  <2>4. dnc' = dnc \/ Only(cur[t])
    BY <1>1, <2>1, <2>2, StoredQueued
  <2>5. QED
    BY <1>1, <2>1, <2>3, <2>4, StateKept
<1>5. CASE Set_Building(t)
  <2>1. cur[t] \in Dncs /\ dnc' = [dnc EXCEPT ![cur[t]].status = "BUILDING"]
    BY <1>1, <1>5, SomeTarget DEF Set_Building, Uses, At
  <2>2. Only(cur[t])
    BY <1>1, <2>1, StoredStatus
  <2>3. QED
    BY <1>1, <1>5, <2>1, <2>2, StateKept DEF Set_Building, RestTypes
<1>6. CASE Destroy_by_Index(t)
  BY <1>1, <1>6, StateKept DEF Destroy_by_Index, Clean_One_Index, RestTypes
<1>7. CASE Release_DMS_Node_Container(t) \/ Flush_Workqueue(t)
  BY <1>1, <1>7, StateKept DEF Release_DMS_Node_Container, Flush_Workqueue, RestTypes
<1>8. CASE Cancel_from_Node_Builder_Workq(t)
  <2>1. rel[t] \in Dncs
    BY <1>1, <1>8, SomeTarget DEF Cancel_from_Node_Builder_Workq, Uses, At, Releases
  <2>2. dnc' = dnc \/ \E v \in {"none", "timer", "queue"} : dnc' = [dnc EXCEPT ![rel[t]].work = v]
    <3>1. dnc[rel[t]].work \in {"none", "timer", "queue"}
      BY <1>1, <2>1, Contents
    <3>2. QED
      BY <1>8, <3>1 DEF Cancel_from_Node_Builder_Workq
  <2>3. dnc' = dnc \/ Only(rel[t])
    BY <1>1, <2>1, <2>2, StoredWork
  <2>4. QED
    BY <1>1, <1>8, <2>1, <2>3, StateKept DEF Cancel_from_Node_Builder_Workq, RestTypes
<1>9. CASE Set_Disconnected(t)
  <2>1. Target(t) \in Dncs /\ dnc' = [dnc EXCEPT ![Target(t)].status = "DISCONNECTED"]
    BY <1>1, <1>9, SomeTarget DEF Set_Disconnected, Uses, At, Drops
  <2>2. Only(Target(t))
    BY <1>1, <2>1, StoredStatus
  <2>3. QED
    BY <1>1, <1>9, <2>1, <2>2, StateKept DEF Set_Disconnected, RestTypes
<1>10. CASE Take_Socket(t)
  <2>1. Target(t) \in Dncs /\ dnc' = [dnc EXCEPT ![Target(t)] = Detached(@)]
    BY <1>1, <1>10, SomeTarget DEF Take_Socket, Uses, At, Drops
  <2>2. Only(Target(t))
    BY <1>1, <2>1, StoredDetached
  <2>3. QED
    BY <1>1, <1>10, <2>1, <2>2, StateKept DEF Take_Socket, RestTypes
<1>11. CASE Release_Socket(t)
  BY <1>1, <1>11, StateKept DEF Release_Socket, RestTypes
<1>12. CASE Free_DMS_Node_Container(t)
  BY <1>1, <1>12, StateKept DEF Free_DMS_Node_Container, RestTypes
<1>13. QED
  BY <1>2, <1>3, <1>4, <1>5, <1>6, <1>7, <1>8, <1>9, <1>10, <1>11, <1>12 DEF Step

LEMMA ProcStepKeepsState ==
  ASSUME TypeInv, NEW p \in Procs, ProcStep(p)
  PROVE  StateTypes'
<1>1. ThreadTypes /\ ControlOK /\ StateTypes /\ RestTypes /\ p \in Threads
  BY TwoParts DEF TypeInv, Threads
<1>2. CASE Occupy_One_Index(p)
  <2>1. cur[p] \in Dncs
    BY <1>1, <1>2, SomeTarget DEF Occupy_One_Index, Uses, At
  <2>2. QED
    BY <1>1, <1>2, <2>1, StateKept DEF Occupy_One_Index, RestTypes
<1>3. CASE Set_Index(p)
  <2>1. cur[p] \in Dncs /\ at[p] \in Nodes /\ dnc' = [dnc EXCEPT ![cur[p]].index = at[p]]
    BY <1>1, <1>3, SomeTarget DEF Set_Index, Uses, At, ControlOK, Control
  <2>2. Only(cur[p])
    BY <1>1, <2>1, StoredIndex
  <2>3. QED
    BY <1>1, <1>3, <2>1, <2>2, StateKept DEF Set_Index, RestTypes
<1>4. CASE Check_Connected(p) \/ Load_Socket(p) \/ Sock_Xmit(p)
  BY <1>1, <1>4, StateKept DEF Check_Connected, Load_Socket, Sock_Xmit, Crash, RestTypes, Faults
<1>5. CASE Release_Next(p)
  BY <1>1, <1>5, StateKept DEF Release_Next, RestTypes
<1>6. CASE Release_Node_Builder(p)
  BY <1>1, <1>6, StateKept DEF Release_Node_Builder, RestTypes
<1>7. QED
  BY <1>2, <1>3, <1>4, <1>5, <1>6 DEF ProcStep

LEMMA HandlerStepKeepsState ==
  ASSUME TypeInv, NEW w \in Workers, HandlerStep(w)
  PROVE  StateTypes'
<1>1. ThreadTypes /\ ControlOK /\ StateTypes /\ RestTypes /\ w \in Threads
  BY TwoParts DEF TypeInv, Threads
<1> DEFINE d == cur[w]
<1>2. d \in Dncs
  BY <1>1, SomeTarget
  DEF HandlerStep, Node_Connection_Handler, Lock_for_Connect, Connect_OK, Connect_Fails,
      Connect_Again, Register_Callbacks, Set_Connected, Relock, Rebuild_Init, Uses, At
<1>3. CASE Node_Connection_Handler(w)
  <2>1. \/ UNCHANGED <<sk, dnc>>
        \/ \E s \in Socks : NewSocket(d, s) /\ dnc' = [dnc EXCEPT ![d].sock = s]
    BY <1>3 DEF Node_Connection_Handler
  <2>2. /\ missed' = missed \/ missed' = [missed EXCEPT ![d] = "handler"]
        /\ UNCHANGED <<table, mgr, queue, life, fault>>
    BY <1>3 DEF Node_Connection_Handler
  <2> HIDE DEF d
  <2>3. RestTypes'
    <3>1. sk' \in [Socks -> [tcp : {"unused", "closed", "established", "fin", "shut", "released"},
                             user : Dncs \cup {"none"}]]
      BY <1>1, <2>1, SocketMade DEF RestTypes
    <3>2. QED
      BY <1>1, <2>2, <3>1 DEF RestTypes
  <2>4. dnc' = dnc \/ Only(d)
    BY <1>1, <1>2, <2>1, StoredSock
  <2>5. QED
    BY <1>1, <1>2, <2>3, <2>4, StateKept
<1>4. CASE Lock_for_Connect(w)
  <2>1. Only(d)
    BY <1>1, <1>2, <1>4, StoredLock DEF Lock_for_Connect, LockFor
  <2>2. QED
    BY <1>1, <1>2, <1>4, <2>1, StateKept DEF Lock_for_Connect, RestTypes
<1>5. CASE Connect_OK(w)
  BY <1>1, <1>5, StateKept DEF Connect_OK, RestTypes
<1>6. CASE Connect_Fails(w) \/ Connect_Again(w)
  <2>1. Only(d)
    BY <1>1, <1>2, <1>6, StoredLock DEF Connect_Fails, Connect_Again, Unlock
  <2>2. QED
    BY <1>1, <1>2, <1>6, <2>1, StateKept DEF Connect_Fails, Connect_Again, RestTypes
<1>7. CASE Register_Callbacks(w)
  BY <1>1, <1>2, <1>7, StateKept DEF Register_Callbacks, RestTypes
<1>8. CASE Set_Connected(w)
  <2>1. StillUp(d) \in BOOLEAN
    BY DEF StillUp
  <2>2. Only(d)
    BY <1>1, <1>2, <1>8, <2>1, StoredConnected DEF Set_Connected
  <2>3. QED
    BY <1>1, <1>2, <1>8, <2>2, StateKept DEF Set_Connected, RestTypes
<1>9. CASE Relock(w)
  BY <1>1, <1>9, StateKept DEF Relock, RestTypes
<1>10. CASE Rebuild_Init(w)
  <2>1. \/ UNCHANGED <<sk, dnc>>
        \/ \E s \in Socks : NewSocket(d, s)
                            /\ dnc' = [dnc EXCEPT ![d].sock = s, ![d].status = "INIT"]
    BY <1>10 DEF Rebuild_Init, InitState
  <2>2. RestTypes'
    BY <1>1, <1>10, <2>1, SocketMade DEF RestTypes, Rebuild_Init
  <2>3. dnc' = dnc \/ Only(d)
    BY <1>1, <1>2, <2>1, StoredInit
  <2>4. QED
    BY <1>1, <1>2, <2>2, <2>3, StateKept
<1>11. QED
  BY <1>3, <1>4, <1>5, <1>6, <1>7, <1>8, <1>9, <1>10 DEF HandlerStep

LEMMA CallKeepsState ==
  ASSUME TypeInv, NEW p \in Procs, Call(p)
  PROVE  StateTypes'
<1>1. ThreadTypes /\ ControlOK /\ StateTypes /\ RestTypes /\ p \in Threads
  BY TwoParts DEF TypeInv, Threads
<1>2. ASSUME NEW a \in Addrs, Create_DMS_Node_Container(p, a) PROVE StateTypes'
  <2>1. PICK d \in Dncs :
           /\ life[d] = "fresh"
           /\ \/ \E s \in Socks :
                 /\ NewSocket(d, s)
                 /\ dnc' = [dnc EXCEPT ![d] = [Blank(a) EXCEPT !.sock = s, !.status = "INIT"]]
                 /\ life' = [life EXCEPT ![d] = "live"]
                 /\ Begin(p, "build", d, 0, "occupy")
              \/ /\ life' = [life EXCEPT ![d] = "freed"]
                 /\ UNCHANGED <<dnc, sk, tvars>>
    BY <1>2, Creating
  <2>2. UNCHANGED <<table, mgr, queue, missed, fault>>
    BY <1>2 DEF Create_DMS_Node_Container
  <2>3. RestTypes'
    BY <1>1, <2>1, <2>2, SocketMade DEF RestTypes
  <2>4. dnc' = dnc \/ Only(d)
    BY <1>1, <2>1, StoredBlank
  <2>5. QED
    BY <1>1, <2>3, <2>4, StateKept
<1>3. ASSUME NEW i \in Nodes, Destroy_DMS_Node_Container(p, i) PROVE StateTypes'
  BY <1>1, <1>3, StateKept DEF Destroy_DMS_Node_Container, Clean_One_Index, RestTypes
<1>4. ASSUME NEW i \in Nodes, Send_Msg(p, i) PROVE StateTypes'
  BY <1>1, <1>4, StateKept DEF Send_Msg, RestTypes
<1>5. CASE Release_DNCS_Manager(p)
  BY <1>1, <1>5, StateKept DEF Release_DNCS_Manager, RestTypes
<1>6. QED
  BY <1>2, <1>3, <1>4, <1>5 DEF Call

LEMMA KernelKeepsState ==
  ASSUME TypeInv,
         \/ \E w \in Workers, d \in Dncs : Run_Work(w, d)
         \/ \E d \in Dncs : Timer(d) \/ Run_Freed(d)
         \/ \E s \in Socks : Lose_Unnoticed(s) \/ Socket_State_Change(s) \/ State_Change_Fault(s)
         \/ UNCHANGED vars
  PROVE  StateTypes'
<1>1. StateTypes /\ RestTypes
  BY TwoParts DEF TypeInv
<1>2. ASSUME NEW w \in Workers, NEW d \in Dncs, Run_Work(w, d) PROVE StateTypes'
  <2>1. Only(d)
    BY <1>1, <1>2, StoredWork DEF Run_Work
  <2>2. QED
    BY <1>1, <1>2, <2>1, StateKept DEF Run_Work, RestTypes
<1>3. ASSUME NEW d \in Dncs, Timer(d) \/ Run_Freed(d) PROVE StateTypes'
  <2>1. \/ dnc' = [dnc EXCEPT ![d].work = "queue"] /\ fault' = fault
        \/ dnc' = dnc /\ fault' \in Faults
    BY <1>3 DEF Timer, Run_Freed, Crash, Faults
  <2>2. dnc' = dnc \/ Only(d)
    BY <1>1, <2>1, StoredWork
  <2>3. RestTypes'
    BY <1>1, <1>3, <2>1 DEF Timer, Run_Freed, Crash, RestTypes
  <2>4. QED
    BY <1>1, <2>2, <2>3, StateKept
<1>4. ASSUME NEW s \in Socks, Lose_Unnoticed(s) PROVE StateTypes'
  BY <1>1, <1>4, StateKept DEF Lose_Unnoticed, After, RestTypes
<1>5. ASSUME NEW s \in Socks, Socket_State_Change(s) PROVE StateTypes'
  <2>1. sk[s].user \in Dncs /\ dnc' = Rebuild(sk[s].user)
    BY <1>1, <1>5 DEF Socket_State_Change, RestTypes
  <2>2. Only(sk[s].user)
    BY <1>1, <2>1, StoredRebuild
  <2>3. RestTypes'
    BY <1>1, <1>5 DEF Socket_State_Change, After, RestTypes
  <2>4. QED
    BY <1>1, <2>1, <2>2, <2>3, StateKept
<1>6. ASSUME NEW s \in Socks, State_Change_Fault(s) PROVE StateTypes'
  BY <1>1, <1>6, StateKept DEF State_Change_Fault, Crash, RestTypes, Faults
<1>7. CASE UNCHANGED vars
  BY <1>1, <1>7, StateKept DEF vars, RestTypes
<1>8. QED
  BY <1>2, <1>3, <1>4, <1>5, <1>6, <1>7

LEMMA NextKeepsTypes ==
  ASSUME TypeInv, [Next]_vars
  PROVE  TypeInv'
<1>1. ASSUME NEW p \in Procs, Call(p) \/ ProcStep(p) PROVE TypeInv'
  BY <1>1, CallKeepsThreads, CallKeepsState, ProcStepKeepsThreads, ProcStepKeepsState DEF TypeInv
<1>2. ASSUME NEW w \in Workers, HandlerStep(w) PROVE TypeInv'
  BY <1>2, HandlerStepKeepsThreads, HandlerStepKeepsState DEF TypeInv
<1>3. ASSUME NEW w \in Workers, NEW d \in Dncs, Run_Work(w, d) PROVE TypeInv'
  BY <1>3, RunWorkKeepsThreads, KernelKeepsState DEF TypeInv
<1>4. ASSUME NEW t \in Threads, Step(t) PROVE TypeInv'
  BY <1>4, StepKeepsThreads, StepKeepsState DEF TypeInv
<1>5. CASE \/ \E d \in Dncs : Timer(d) \/ Run_Freed(d)
           \/ \E s \in Socks : Lose_Unnoticed(s) \/ Socket_State_Change(s) \/ State_Change_Fault(s)
           \/ UNCHANGED vars
  BY <1>5, KernelKeepsThreads, KernelKeepsState DEF TypeInv
<1>6. QED
  BY <1>1, <1>2, <1>3, <1>4, <1>5 DEF Next

LEMMA InitTypes == Init => TypeInv
<1> SUFFICES ASSUME Init PROVE TypeInv
  OBVIOUS
<1>1. ThreadTypes
  BY SizesAssumption, PointsAre DEF Init, ThreadTypes
<1>2. StateTypes
  <2>1. Blank("none") \in Container
    BY DEF Blank, Container
  <2>2. RestTypes
    BY DEF Init, RestTypes, Faults
  <2>3. dnc \in [Dncs -> Container]
    BY <2>1 DEF Init
  <2>4. QED
    BY <2>2, <2>3, TwoParts
<1>3. ControlOK
  BY DEF Init, ControlOK, Control, Releases, Drops, Handles, Threads
<1>4. QED
  BY <1>1, <1>2, <1>3 DEF TypeInv

LEMMA TypesHold == Spec => []TypeInv
<1>1. TypeInv /\ [Next]_vars => TypeInv'
  BY NextKeepsTypes
<1>2. QED
  BY InitTypes, <1>1, PTL DEF Spec

\* Every field keeps its type, whatever the threads and the kernel do: a container's state
\* and work, the socket a thread has taken out, the index it works on.
THEOREM TypesAreKept == Spec => []TypeOK
BY TypesHold, TypeInvTypes, PTL

-----------------------------------------------------------------------------
(* The table.                                                               *)

NotIn(d) == \A i \in Nodes : table[i] # d

\* Nobody can have d but the thread that has just allocated it.
Unknown(d) ==
    /\ NotIn(d) /\ dnc[d].work = "none"
    /\ \A s \in Socks : sk[s].user # d
    /\ \A t \in Threads : rel[t] # d

Fresh == \A d \in Dncs : life[d] = "fresh" => Unknown(d) /\ \A t \in Threads : cur[t] # d
Newcomer ==
    \A p \in Threads : pc[p] = "occupy" =>
        Unknown(cur[p]) /\ \A t \in Threads \ {p} : cur[t] # cur[p]

\* Entries have different addresses, so a container has one entry.
Distinct ==
    \A i, j \in Nodes :
        table[i] # "none" /\ table[j] # "none" /\ dnc[table[i]].addr = dnc[table[j]].addr => i = j

\* What a thread releases has left the table, unless the manager itself is released; and
\* what is in the table is in use until then.
Released == \A t \in Threads : rel[t] # "none" /\ job[t] # "unload" => NotIn(rel[t])
InUse == InService => \A i \in Nodes : table[i] # "none" => life[table[i]] = "live"

TabInv == Fresh /\ Newcomer /\ Distinct /\ Released /\ InUse

\* Containers that others have met.
Known(d) == d \in Dncs /\ life[d] # "fresh" /\ \A p \in Threads : pc[p] = "occupy" => cur[p] # d

LEMMA KnownToOthers ==
  ASSUME TypeInv, TabInv
  PROVE  /\ \A i \in Nodes : table[i] # "none" => Known(table[i])
         /\ \A t \in Threads : rel[t] # "none" => Known(rel[t])
         /\ \A t \in Threads : cur[t] # "none" /\ pc[t] # "occupy" => Known(cur[t])
         /\ \A d \in Dncs : dnc[d].work # "none" => Known(d)
         /\ \A s \in Socks : sk[s].user # "none" => Known(sk[s].user)
<1>1. TypeInv /\ Fresh /\ Newcomer
  BY DEF TabInv
<1>2. \A i \in Nodes : table[i] # "none" => Known(table[i])
  BY <1>1 DEF TypeInv, StateTypes, Fresh, Newcomer, Unknown, NotIn, Known
<1>3. \A t \in Threads : rel[t] # "none" => Known(rel[t])
  BY <1>1 DEF TypeInv, ThreadTypes, Fresh, Newcomer, Unknown, Known
<1>4. \A t \in Threads : cur[t] # "none" /\ pc[t] # "occupy" => Known(cur[t])
  BY <1>1 DEF TypeInv, ThreadTypes, Fresh, Newcomer, Known
<1>5. \A d \in Dncs : dnc[d].work # "none" => Known(d)
  BY <1>1 DEF Fresh, Newcomer, Unknown, Known
<1>6. \A s \in Socks : sk[s].user # "none" => Known(sk[s].user)
  <2>1. \A s \in Socks : sk[s].user \in Dncs \cup {"none"}
    BY <1>1 DEF TypeInv, StateTypes
  <2>2. QED
    BY <1>1, <2>1 DEF Fresh, Newcomer, Unknown, Known
<1>7. QED
  BY <1>2, <1>3, <1>4, <1>5, <1>6

LEMMA OneEntry ==
  ASSUME Distinct, NEW i \in Nodes, NEW j \in Nodes, table[i] = table[j], table[i] # "none"
  PROVE  i = j
BY DEF Distinct

\* Steps by which nobody new comes into the table or is met.
TableShrinks == \A i \in Nodes : table'[i] \in {table[i], "none"}
OnlyFreed ==
    \A d \in Dncs :
        \/ life'[d] = life[d]
        \/ life'[d] = "freed" /\ (InService => NotIn(d))
WorkOfKnown == \A d \in Dncs : dnc'[d].addr = dnc[d].addr /\ (dnc'[d].work = "none" \/ Known(d))
UserIsKnown == \A s \in Socks : sk'[s].user = "none" \/ Known(sk'[s].user)
MeetsKnown(t) ==
    Same(t) \/
    /\ \/ rel'[t] = "none"
       \/ rel'[t] = rel[t] /\ job'[t] = job[t]
       \/ Known(rel'[t]) /\ (job'[t] = "unload" \/ NotIn(rel[t])')
    /\ cur'[t] \in {cur[t], "none"} \/ Known(cur'[t])
    /\ pc'[t] # "occupy"
    /\ job[t] = "unload" => job'[t] = "unload" \/ queue' # "up"

LEMMA QuietStep ==
  ASSUME TypeInv, TypeInv', TabInv, TableShrinks, OnlyFreed, WorkOfKnown, UserIsKnown,
         \A t \in Threads : MeetsKnown(t), queue' = "up" => queue = "up"
  PROVE  TabInv'
<1>1. /\ Fresh /\ Newcomer /\ Distinct /\ Released /\ InUse
      /\ ThreadTypes /\ ThreadTypes' /\ StateTypes /\ StateTypes'
  BY DEF TabInv, TypeInv
<1>2. \A d : d # "none" /\ NotIn(d) => NotIn(d)'
  BY DEF TableShrinks, NotIn
<1>3. \A u \in Threads : /\ rel'[u] # "none" => Known(rel'[u])
                         /\ cur'[u] # "none" => Known(cur'[u]) \/ cur'[u] = cur[u]
                         /\ pc'[u] = "occupy" => pc[u] = "occupy" /\ cur'[u] = cur[u]
  BY KnownToOthers DEF MeetsKnown, Same
<1>4. \A d \in Dncs : life'[d] = "fresh" => life[d] = "fresh"
  BY DEF OnlyFreed
<1>5. ASSUME NEW d \in Dncs, ~Known(d), Unknown(d) PROVE Unknown(d)'
  <2>1. d # "none"
    BY ThreadsAssumption
  <2>2. NotIn(d)'
    BY <1>2, <1>5, <2>1 DEF Unknown
  <2>3. QED
    BY <1>3, <1>5, <2>1, <2>2 DEF Unknown, WorkOfKnown, UserIsKnown
<1>6. Fresh'
  <2>1. ASSUME NEW d \in Dncs, life'[d] = "fresh" PROVE Unknown(d)' /\ \A t \in Threads : cur'[t] # d
    <3>1. life[d] = "fresh" /\ ~Known(d) /\ Unknown(d) /\ \A t \in Threads : cur[t] # d
      BY <1>1, <1>4, <2>1 DEF Fresh, Known
    <3>2. d # "none"
      BY ThreadsAssumption
    <3>3. QED
      BY <1>3, <1>5, <3>1, <3>2
  <2>2. QED
    BY <2>1 DEF Fresh
<1>7. Newcomer'
  <2>1. ASSUME NEW p \in Threads, pc'[p] = "occupy"
        PROVE  Unknown(cur[p])' /\ \A t \in Threads \ {p} : cur'[t] # cur'[p]
    <3>1. PICK d \in Dncs : d = cur[p] /\ cur'[p] = d
      <4>1. pc[p] = "occupy" /\ cur'[p] = cur[p]
        BY <1>3, <2>1
      <4>2. QED
        BY <4>1, SomeTarget DEF TypeInv
    <3>2. pc[p] = "occupy" /\ ~Known(d) /\ d # "none"
      BY <1>3, <2>1, <3>1, ThreadsAssumption DEF Known
    <3>3. Unknown(d) /\ \A t \in Threads \ {p} : cur[t] # d
      BY <1>1, <3>1, <3>2 DEF Newcomer
    <3>4. Unknown(d)'
      BY <1>5, <3>2, <3>3
    <3>5. \A t \in Threads \ {p} : cur'[t] # d
      BY <1>3, <3>2, <3>3
    <3>6. QED
      BY <3>1, <3>4, <3>5 DEF Unknown, NotIn
  <2>2. QED
    BY <2>1 DEF Newcomer
<1>8. Distinct'
  BY <1>1 DEF Distinct, TableShrinks, WorkOfKnown, StateTypes
<1>9. Released'
  <2>1. ASSUME NEW t \in Threads, rel'[t] # "none", job'[t] # "unload"
        PROVE  NotIn(rel[t])'
    <3>1. CASE rel'[t] = rel[t] /\ job'[t] = job[t]
      <4>1. PICK d : d = rel[t] /\ rel'[t] = d
        BY <3>1
      <4>2. NotIn(d)'
        BY <1>1, <1>2, <2>1, <3>1, <4>1 DEF Released
      <4>3. QED
        BY <4>1, <4>2 DEF NotIn
    <3>2. CASE NotIn(rel[t])'
      BY <3>2
    <3>3. QED
      BY <2>1, <3>1, <3>2 DEF MeetsKnown, Same
  <2>2. QED
    BY <2>1 DEF Released
<1>10. InUse'
  <2>1. SUFFICES ASSUME InService', NEW i \in Nodes, table'[i] # "none"
                 PROVE  life'[table'[i]] = "live"
    BY DEF InUse
  <2>2. InService
    <3>1. queue = "up"
      BY <2>1 DEF InService
    <3>2. \A p \in Procs : job[p] # "unload"
      BY <2>1 DEF InService, MeetsKnown, Same, Threads
    <3>3. QED
      BY <3>1, <3>2 DEF InService
  <2>3. table'[i] = table[i] /\ table[i] \in Dncs
    BY <1>1, <2>1 DEF TableShrinks, StateTypes
  <2>4. life[table[i]] = "live" /\ ~NotIn(table[i])
    BY <1>1, <2>1, <2>2, <2>3 DEF InUse, NotIn
  <2>5. QED
    BY <2>2, <2>3, <2>4 DEF OnlyFreed
<1>11. QED
  BY <1>6, <1>7, <1>8, <1>9, <1>10 DEF TabInv

\* Parts of a quiet step.
LEMMA QuietThread ==
  ASSUME NEW t \in Threads, OthersSame(t), MeetsKnown(t)
  PROVE  \A u \in Threads : MeetsKnown(u)
BY DEF OthersSame, MeetsKnown

LEMMA QuietGoto ==
  ASSUME TypeInv, NEW t \in Threads, NEW there \in Points, Goto(t, there), there # "occupy"
  PROVE  MeetsKnown(t)
BY Going DEF TypeInv, MeetsKnown

LEMMA QuietFinish ==
  ASSUME TypeInv, NEW t \in Threads, Finish(t), pc[t] # "builder"
  PROVE  MeetsKnown(t)
<1>1. /\ rel'[t] = "none" /\ pc'[t] # "occupy" /\ cur'[t] \in {cur[t], "none"}
      /\ job[t] = "unload" => job'[t] = "unload"
  BY Finishing DEF TypeInv
<1>2. QED
  BY <1>1 DEF MeetsKnown

LEMMA QuietContainer ==
  ASSUME TypeInv, TabInv, NEW d \in Dncs, Only(d), KeepsAddr(d), KeepsWork(d) \/ Known(d) \/ dnc'[d].work = "none"
  PROVE  WorkOfKnown
BY KnownToOthers DEF Only, KeepsAddr, KeepsWork, WorkOfKnown

LEMMA QuietRest ==
  ASSUME TypeInv, TabInv
  PROVE  /\ UNCHANGED table => TableShrinks
         /\ UNCHANGED life => OnlyFreed
         /\ UNCHANGED dnc => WorkOfKnown
         /\ (\A s \in Socks : sk'[s].user \in {sk[s].user, "none"}) => UserIsKnown
<1>1. UNCHANGED table => TableShrinks
  BY DEF TableShrinks
<1>2. UNCHANGED life => OnlyFreed
  <2>1. SUFFICES ASSUME UNCHANGED life PROVE OnlyFreed
    OBVIOUS
  <2>2. QED
    BY <2>1 DEF OnlyFreed
<1>3. UNCHANGED dnc => WorkOfKnown
  BY KnownToOthers DEF WorkOfKnown
<1>4. (\A s \in Socks : sk'[s].user \in {sk[s].user, "none"}) => UserIsKnown
  BY KnownToOthers DEF UserIsKnown
<1>5. QED
  BY <1>1, <1>2, <1>3, <1>4

\* A quiet step of one thread.
LEMMA QuietStepOf ==
  ASSUME TypeInv, TypeInv', TabInv, NEW t \in Threads, OthersSame(t), MeetsKnown(t),
         UNCHANGED table \/ TableShrinks, UNCHANGED life \/ OnlyFreed,
         UNCHANGED dnc \/ WorkOfKnown,
         (\A s \in Socks : sk'[s].user \in {sk[s].user, "none"}) \/ UserIsKnown,
         queue' = "up" => queue = "up"
  PROVE  TabInv'
BY QuietThread, QuietRest, QuietStep

LEMMA KnownTarget ==
  ASSUME TypeInv, TabInv, NEW t \in Threads, pc[t] # "occupy"
  PROVE  /\ cur[t] \in Dncs => Known(cur[t])
         /\ rel[t] \in Dncs => Known(rel[t])
         /\ Target(t) \in Dncs => Known(Target(t))
BY KnownToOthers, ThreadsAssumption DEF Target

LEMMA StepKeepsTab ==
  ASSUME TypeInv, TypeInv', TabInv, NEW t \in Threads, Step(t)
  PROVE  TabInv'
<1> USE PointsAre
<1>1. ThreadTypes /\ ControlOK /\ StateTypes /\ Control(t) /\ OthersSame(t)
  BY StepKeepsThreads DEF TypeInv, ControlOK
<1>2. CASE Use_Freed(t) \/ Release_Null(t)
  <2>1. UNCHANGED <<table, queue, life, dnc, sk>> /\ Same(t)
    BY <1>2 DEF Use_Freed, Release_Null, Crash, tvars, Same
  <2>2. QED
    BY <1>1, <2>1, QuietStepOf DEF MeetsKnown
<1>3. CASE Build_Connection(t)
  <2>1. /\ UNCHANGED <<table, queue, life, dnc, sk>>
        /\ pc[t] # "builder" /\ (Goto(t, "schedule") \/ Finish(t))
    BY <1>3 DEF Build_Connection, Uses, At
  <2>2. MeetsKnown(t)
    BY <2>1, QuietGoto, QuietFinish
  <2>3. QED
    BY <1>1, <2>1, <2>2, QuietStepOf
<1>4. CASE Schedule_to_Node_Builder_Workq(t)
  <2>1. pc[t] = "schedule" /\ cur[t] \in Dncs
    BY <1>1, <1>4, SomeTarget DEF Schedule_to_Node_Builder_Workq, Uses, At
  <2>2. /\ dnc' = dnc \/ dnc' = Queued(cur[t])
        /\ UNCHANGED <<table, queue, life, sk>>
        /\ \/ \E x \in {"relock", "building", "clean"} : Goto(t, x)
           \/ Finish(t)
    BY <1>4 DEF Schedule_to_Node_Builder_Workq
  <2>3. MeetsKnown(t)
    BY <2>1, <2>2, QuietGoto, QuietFinish
  <2>4. dnc' = dnc \/ WorkOfKnown
    BY <1>1, <2>1, <2>2, StoredQueued, QuietContainer, KnownTarget
  <2>5. QED
    BY <1>1, <2>2, <2>3, <2>4, QuietStepOf
<1>5. CASE Set_Building(t)
  <2>1. /\ cur[t] \in Dncs /\ dnc' = [dnc EXCEPT ![cur[t]].status = "BUILDING"]
        /\ pc[t] = "building" /\ Finish(t) /\ UNCHANGED <<table, queue, life, sk>>
    BY <1>1, <1>5, SomeTarget DEF Set_Building, Uses, At
  <2>2. MeetsKnown(t) /\ WorkOfKnown
    BY <1>1, <2>1, StoredStatus, QuietContainer, QuietFinish
  <2>3. QED
    BY <1>1, <2>1, <2>2, QuietStepOf
<1>6. CASE Destroy_by_Index(t)
  <2>1. /\ pc[t] = "clean" /\ UNCHANGED <<queue, life, dnc, sk>>
        /\ job[t] # "unload"
    BY <1>1, <1>6 DEF Destroy_by_Index, Uses, At, Control
  <2>2. CASE UNCHANGED table /\ (Goto(t, "relock") \/ Finish(t))
    <3>1. MeetsKnown(t)
      BY <2>1, <2>2, QuietGoto, QuietFinish
    <3>2. QED
      BY <1>1, <2>1, <2>2, <3>1, QuietStepOf
  <2>3. ASSUME NEW i \in Nodes, table[i] # "none", Clean_One_Index(i), Release(t, table[i]),
               UNCHANGED <<job, cur, at, held>>
        PROVE  TabInv'
    <3>1. PICK d \in Dncs : d = table[i] /\ Known(d)
      BY <1>1, <2>3, KnownToOthers DEF StateTypes
    <3>2. rel'[t] = d /\ pc'[t] = "release" /\ table'[i] = "none" /\ TableShrinks
      BY <1>1, <2>3, <3>1 DEF Release, Clean_One_Index, ThreadTypes, StateTypes, TableShrinks
    <3>3. \A j \in Nodes : table'[j] # d
      <4>1. \A j \in Nodes : table[j] = d => j = i
        BY <3>1, OneEntry, ThreadsAssumption DEF TabInv
      <4>2. \A j \in Nodes : table'[j] = d => table[j] = d /\ j # i
        BY <3>1, <3>2, ThreadsAssumption DEF TableShrinks
      <4>3. QED
        BY <4>1, <4>2
    <3>4. NotIn(rel[t])'
      BY <3>2, <3>3 DEF NotIn
    <3>5. MeetsKnown(t)
      BY <2>1, <2>3, <3>1, <3>2, <3>4 DEF MeetsKnown
    <3>6. QED
      BY <1>1, <2>1, <3>2, <3>5, QuietStepOf
  <2>4. QED
    BY <1>6, <2>2, <2>3 DEF Destroy_by_Index
<1>7. CASE Release_DMS_Node_Container(t)
  <2>1. \E x \in {"cancel", "disconnect", "free"} : Goto(t, x)
    BY <1>7 DEF Release_DMS_Node_Container
  <2>2. MeetsKnown(t)
    BY <2>1, QuietGoto
  <2>3. QED
    BY <1>1, <1>7, <2>2, QuietStepOf DEF Release_DMS_Node_Container
<1>8. CASE Cancel_from_Node_Builder_Workq(t)
  <2>1. rel[t] \in Dncs /\ pc[t] # "occupy"
    BY <1>1, <1>8, SomeTarget DEF Cancel_from_Node_Builder_Workq, Uses, At, Releases
  <2>2. /\ dnc' = dnc \/ \E v \in {"none", "timer", "queue"} : dnc' = [dnc EXCEPT ![rel[t]].work = v]
        /\ Goto(t, "flush") \/ Goto(t, "disconnect")
        /\ UNCHANGED <<table, queue, life, sk>>
    <3>1. dnc[rel[t]].work \in {"none", "timer", "queue"}
      BY <1>1, <2>1, Contents
    <3>2. QED
      BY <1>8, <3>1 DEF Cancel_from_Node_Builder_Workq
  <2>3. dnc' = dnc \/ WorkOfKnown
    BY <1>1, <2>1, <2>2, StoredWork, QuietContainer, KnownTarget
  <2>4. MeetsKnown(t)
    BY <2>2, QuietGoto
  <2>5. QED
    BY <1>1, <2>2, <2>3, <2>4, QuietStepOf
<1>9. CASE Flush_Workqueue(t)
  <2>1. MeetsKnown(t)
    BY <1>9, QuietGoto DEF Flush_Workqueue
  <2>2. QED
    BY <1>1, <1>9, <2>1, QuietStepOf DEF Flush_Workqueue
<1>10. CASE Set_Disconnected(t)
  <2>1. /\ Target(t) \in Dncs /\ dnc' = [dnc EXCEPT ![Target(t)].status = "DISCONNECTED"]
        /\ \E x \in {"take", "init", "free"} : Goto(t, x)
        /\ UNCHANGED <<table, queue, life, sk>>
    BY <1>1, <1>10, SomeTarget DEF Set_Disconnected, Uses, At, Drops, AfterDrop
  <2>2. WorkOfKnown /\ MeetsKnown(t)
    BY <1>1, <2>1, StoredStatus, QuietContainer, QuietGoto
  <2>3. QED
    BY <1>1, <2>1, <2>2, QuietStepOf
<1>11. CASE Take_Socket(t)
  <2>1. /\ Target(t) \in Dncs /\ dnc' = [dnc EXCEPT ![Target(t)] = Detached(@)]
        /\ pc' = [pc EXCEPT ![t] = "stop"] /\ UNCHANGED <<job, cur, rel, at, table, queue, life, sk>>
    BY <1>1, <1>11, SomeTarget DEF Take_Socket, Uses, At, Drops
  <2>2. WorkOfKnown
    BY <1>1, <2>1, StoredDetached, QuietContainer
  <2>3. MeetsKnown(t)
    BY <1>1, <2>1 DEF MeetsKnown, ThreadTypes
  <2>4. QED
    BY <1>1, <2>1, <2>2, <2>3, QuietStepOf
<1>12. CASE Release_Socket(t)
  <2>1. /\ sk' = [sk EXCEPT ![held[t]] = [tcp |-> "released", user |-> "none"]]
        /\ \E x \in {"init", "free"} : pc' = [pc EXCEPT ![t] = x]
        /\ UNCHANGED <<job, cur, rel, at, table, queue, life, dnc>>
    BY <1>12 DEF Release_Socket, AfterDrop
  <2>2. \A s \in Socks : sk'[s].user \in {sk[s].user, "none"}
    BY <1>1, <2>1 DEF StateTypes
  <2>3. MeetsKnown(t)
    BY <1>1, <2>1 DEF MeetsKnown, ThreadTypes
  <2>4. QED
    BY <1>1, <2>1, <2>2, <2>3, QuietStepOf
<1>13. CASE Free_DMS_Node_Container(t)
  <2>1. /\ pc[t] = "free" /\ rel[t] \in Dncs /\ life' = [life EXCEPT ![rel[t]] = "freed"]
        /\ Finish(t) /\ UNCHANGED <<table, queue, dnc, sk>>
    BY <1>1, <1>13, SomeTarget DEF Free_DMS_Node_Container, Uses, At, Releases
  <2>2. MeetsKnown(t)
    BY <2>1, QuietFinish
  <2>3. InService => NotIn(rel[t])
    <3>1. InService => job[t] # "unload"
      BY <1>1 DEF InService, Control, Threads
    <3>2. QED
      BY <2>1, <3>1, ThreadsAssumption DEF TabInv, Released
  <2>4. OnlyFreed
    BY <1>1, <2>1, <2>3 DEF OnlyFreed, StateTypes
  <2>5. QED
    BY <1>1, <2>1, <2>2, <2>4, QuietStepOf
<1>14. QED
  BY <1>2, <1>3, <1>4, <1>5, <1>6, <1>7, <1>8, <1>9, <1>10, <1>11, <1>12, <1>13 DEF Step

\* The entry that a new container gets.
LEMMA OccupyKeepsTab ==
  ASSUME TypeInv, TypeInv', TabInv, NEW p \in Procs, Occupy_One_Index(p)
  PROVE  TabInv'
<1> USE PointsAre
<1>1. /\ ThreadTypes /\ ControlOK /\ StateTypes /\ OthersSame(p) /\ p \in Threads
      /\ pc[p] = "occupy" /\ rel[p] = "none" /\ cur[p] \in Dncs /\ cur[p] # "none"
      /\ life[cur[p]] = "live" /\ UNCHANGED <<queue, life, dnc, sk>>
  <2>1. p \in Threads
    BY DEF Threads
  <2>2. ProcStep(p)
    BY DEF ProcStep
  <2>3. pc[p] = "occupy" /\ life[Target(p)] = "live" /\ UNCHANGED <<queue, life, dnc, sk>>
    BY DEF Occupy_One_Index, Uses, At
  <2>4. ThreadTypes /\ ControlOK /\ StateTypes
    BY DEF TypeInv
  <2>5. rel[p] = "none" /\ cur[p] \in Dncs /\ Target(p) = cur[p]
    BY <2>1, <2>3, <2>4, SomeTarget
  <2>6. QED
    BY <2>1, <2>2, <2>3, <2>4, <2>5, ProcStepKeepsThreads, ThreadsAssumption
<1>2. CASE Finish(p) /\ UNCHANGED table
  BY <1>1, <1>2, QuietFinish, QuietStepOf
<1>3. ASSUME NEW i \in Nodes, ~Duplicate(cur[p]), table[i] = "none",
             table' = [table EXCEPT ![i] = cur[p]], Begin(p, "build", cur[p], i, "index")
      PROVE  TabInv'
  <2> DEFINE d == cur[p]
  <2>1. /\ Fresh /\ Newcomer /\ Distinct /\ Released /\ InUse
        /\ Unknown(d) /\ \A t \in Threads \ {p} : cur[t] # d
    BY <1>1 DEF TabInv, Newcomer
  <2>2. /\ i \in 0..NNodes + 1
        /\ pc'[p] = "index" /\ job'[p] = "build" /\ cur'[p] = d /\ rel'[p] = "none"
    <3>1. i \in 0..NNodes + 1
      BY SizesAssumption DEF Nodes
    <3>2. QED
      BY <1>1, <1>3, <3>1, Beginning
  <2>3. table'[i] = d /\ \A j \in Nodes \ {i} : table'[j] = table[j]
    BY <1>1, <1>3 DEF StateTypes
  <2>4. /\ \A t \in Threads : rel'[t] = rel[t] /\ cur'[t] = cur[t]
        /\ \A t \in Threads \ {p} : pc'[t] = pc[t] /\ job'[t] = job[t]
        /\ job[p] = "build"
    BY <1>1, <2>2 DEF OthersSame, Same, ControlOK, Control
  <2>5. \A j \in Nodes : table[j] # "none" => dnc[table[j]].addr # dnc[d].addr
    BY <1>3 DEF Duplicate
  <2> HIDE DEF d
  <2>6. Fresh'
    <3>1. SUFFICES ASSUME NEW e \in Dncs, life[e] = "fresh"
                   PROVE  Unknown(e)' /\ \A t \in Threads : cur'[t] # e
      BY <1>1 DEF Fresh
    <3>2. Unknown(e) /\ (\A t \in Threads : cur[t] # e) /\ e # d
      BY <1>1, <2>1, <3>1 DEF Fresh, d
    <3>3. NotIn(e)'
      BY <2>3, <3>2 DEF Unknown, NotIn
    <3>4. QED
      BY <1>1, <2>4, <3>2, <3>3 DEF Unknown
  <2>7. Newcomer'
    <3>1. SUFFICES ASSUME NEW q \in Threads \ {p}, pc[q] = "occupy"
                   PROVE  Unknown(cur[q])' /\ \A t \in Threads \ {q} : cur'[t] # cur'[q]
      BY <2>2, <2>4 DEF Newcomer
    <3>2. PICK e : e = cur[q] /\ cur'[q] = e
      BY <2>4
    <3>3. Unknown(e) /\ (\A t \in Threads \ {q} : cur[t] # e) /\ e # d
      BY <1>1, <2>1, <3>1, <3>2 DEF Newcomer
    <3>4. NotIn(e)'
      BY <2>3, <3>3 DEF Unknown, NotIn
    <3>5. Unknown(e)'
      BY <1>1, <2>4, <3>3, <3>4 DEF Unknown
    <3>6. QED
      BY <2>4, <3>2, <3>3, <3>5 DEF Unknown, NotIn
  <2>8. Distinct'
    BY <1>1, <2>1, <2>3, <2>5 DEF Distinct
  <2>9. Released'
    <3>1. SUFFICES ASSUME NEW t \in Threads, rel[t] # "none", job'[t] # "unload"
                   PROVE  NotIn(rel[t])'
      BY <2>4 DEF Released
    <3>2. PICK e : e = rel[t] /\ rel'[t] = e
      BY <2>4
    <3>3. job[t] # "unload"
      BY <2>2, <2>4, <3>1
    <3>4. NotIn(e) /\ e # d
      BY <2>1, <3>1, <3>2, <3>3 DEF Released, Unknown
    <3>5. \A j \in Nodes : table'[j] # e
      BY <2>3, <3>4 DEF NotIn
    <3>6. QED
      BY <3>2, <3>5 DEF NotIn
  <2>10. InUse'
    <3>1. InService' => InService
      BY <1>1, <2>4 DEF InService, Threads
    <3>2. life'[d] = "live"
      BY <1>1 DEF d
    <3>3. QED
      BY <1>1, <2>1, <2>3, <3>1, <3>2 DEF InUse
  <2>11. QED
    BY <2>6, <2>7, <2>8, <2>9, <2>10 DEF TabInv
<1>4. QED
  BY <1>2, <1>3 DEF Occupy_One_Index, FreeNodes

LEMMA ProcStepKeepsTab ==
  ASSUME TypeInv, TypeInv', TabInv, NEW p \in Procs, ProcStep(p)
  PROVE  TabInv'
<1> USE PointsAre
<1>1. ThreadTypes /\ ControlOK /\ StateTypes /\ p \in Threads /\ Control(p) /\ OthersSame(p)
  BY ProcStepKeepsThreads DEF TypeInv, Threads, ControlOK
<1>2. CASE Occupy_One_Index(p)
  BY <1>2, OccupyKeepsTab
<1>3. CASE Set_Index(p)
  <2>1. /\ cur[p] \in Dncs /\ at[p] \in Nodes /\ dnc' = [dnc EXCEPT ![cur[p]].index = at[p]]
        /\ Goto(p, "build") /\ UNCHANGED <<table, queue, life, sk>>
    BY <1>1, <1>3, SomeTarget DEF Set_Index, Uses, At, Control
  <2>2. WorkOfKnown /\ MeetsKnown(p)
    BY <1>1, <2>1, StoredIndex, QuietContainer, QuietGoto
  <2>3. QED
    BY <1>1, <2>1, <2>2, QuietStepOf
<1>4. CASE Check_Connected(p)
  <2>1. /\ UNCHANGED <<table, queue, life, dnc, sk>> /\ pc[p] # "builder"
        /\ Goto(p, "xmit") \/ Finish(p)
    BY <1>4 DEF Check_Connected, Uses, At
  <2>2. MeetsKnown(p)
    BY <1>1, <2>1, QuietGoto, QuietFinish
  <2>3. QED
    BY <1>1, <2>1, <2>2, QuietStepOf
<1>5. CASE Load_Socket(p)
  <2>1. /\ UNCHANGED <<table, queue, life, dnc, sk>>
        /\ \/ Same(p)
           \/ pc' = [pc EXCEPT ![p] = "sending"] /\ UNCHANGED <<job, cur, rel, at>>
    BY <1>5 DEF Load_Socket, Crash, tvars, Same
  <2>2. MeetsKnown(p)
    BY <1>1, <2>1 DEF MeetsKnown, ThreadTypes
  <2>3. QED
    BY <1>1, <2>1, <2>2, QuietStepOf
<1>6. CASE Sock_Xmit(p)
  <2>1. /\ UNCHANGED <<table, queue, life, dnc, sk>> /\ pc[p] # "builder"
        /\ Same(p) \/ Finish(p)
    BY <1>6 DEF Sock_Xmit, Crash, tvars, Same, At
  <2>2. MeetsKnown(p)
    <3>1. CASE Same(p)
      BY <3>1 DEF MeetsKnown
    <3>2. QED
      BY <1>1, <2>1, <3>1, QuietFinish
  <2>3. QED
    BY <1>1, <2>1, <2>2, QuietStepOf
<1>7. CASE Release_Next(p)
  <2>1. /\ pc[p] = "next" /\ rel[p] = "none" /\ job[p] = "unload"
        /\ UNCHANGED <<job, cur, table, queue, life, dnc, sk>>
        /\ \/ \E i \in Nodes : table[i] # "none" /\ Release(p, table[i])
           \/ UNCHANGED rel /\ pc' = pc
           \/ UNCHANGED rel /\ pc' = [pc EXCEPT ![p] = "builder"]
    BY <1>1, <1>7, IdleThread DEF Release_Next, At, Control
  <2>2. ASSUME NEW i \in Nodes, table[i] # "none", Release(p, table[i]) PROVE MeetsKnown(p)
    <3>1. rel'[p] = table[i] /\ pc'[p] = "release" /\ Known(table[i])
      BY <1>1, <2>2, KnownToOthers DEF Release, ThreadTypes
    <3>2. QED
      BY <2>1, <3>1 DEF MeetsKnown
  <2>3. ASSUME UNCHANGED rel, pc' = pc \/ pc' = [pc EXCEPT ![p] = "builder"] PROVE MeetsKnown(p)
    <3>1. /\ pc'[p] \in {"next", "builder"} /\ rel'[p] = rel[p] /\ job'[p] = "unload"
          /\ cur'[p] = cur[p]
      BY <1>1, <2>1, <2>3 DEF ThreadTypes
    <3>2. QED
      BY <2>1, <3>1 DEF MeetsKnown
  <2>4. QED
    BY <1>1, <2>1, <2>2, <2>3, QuietStepOf
<1>8. CASE Release_Node_Builder(p)
  <2>1. /\ rel[p] = "none" /\ queue' = "destroyed" /\ UNCHANGED <<cur, rel, table, life, dnc, sk>>
        /\ pc' = [pc EXCEPT ![p] = "idle"]
    BY <1>1, <1>8, IdleThread DEF Release_Node_Builder, At
  <2>2. MeetsKnown(p)
    BY <1>1, <2>1 DEF MeetsKnown, ThreadTypes
  <2>3. QED
    BY <1>1, <2>1, <2>2, QuietStepOf
<1>9. QED
  BY <1>2, <1>3, <1>4, <1>5, <1>6, <1>7, <1>8 DEF ProcStep

LEMMA HandlerStepKeepsTab ==
  ASSUME TypeInv, TypeInv', TabInv, NEW w \in Workers, HandlerStep(w)
  PROVE  TabInv'
<1> USE PointsAre
<1> DEFINE d == cur[w]
<1>1. ThreadTypes /\ ControlOK /\ StateTypes /\ w \in Threads /\ Control(w) /\ OthersSame(w)
  BY HandlerStepKeepsThreads DEF TypeInv, Threads, ControlOK
<1>2. /\ d \in Dncs /\ pc[w] \notin {"occupy", "builder"}
      /\ UNCHANGED <<table, queue, life>>
  BY <1>1, SomeTarget
  DEF HandlerStep, Node_Connection_Handler, Lock_for_Connect, Connect_OK, Connect_Fails,
      Connect_Again, Register_Callbacks, Set_Connected, Relock, Rebuild_Init, Uses, At
<1>3. MeetsKnown(w)
  <2>1. Finish(w) \/ \E x \in {"lock", "connect", "register", "schedule", "connected", "build"} : Goto(w, x)
    BY DEF HandlerStep, Node_Connection_Handler, Lock_for_Connect, Connect_OK, Connect_Fails,
      Connect_Again, Register_Callbacks, Set_Connected, Relock, Rebuild_Init
  <2>2. QED
    BY <1>1, <1>2, <2>1, QuietGoto, QuietFinish
<1>4. Known(d)
  BY <1>1, <1>2, KnownTarget
<1>6. ASSUME dnc' = dnc \/ (Only(d) /\ KeepsAddr(d)),
             (\A s \in Socks : sk'[s].user \in {sk[s].user, "none"}) \/ UserIsKnown
      PROVE  TabInv'
  BY <1>1, <1>2, <1>3, <1>4, <1>6, QuietContainer, QuietStepOf
<1>7. CASE Node_Connection_Handler(w)
  <2>1. \/ UNCHANGED <<sk, dnc>>
        \/ \E s \in Socks : NewSocket(d, s) /\ dnc' = [dnc EXCEPT ![d].sock = s]
    BY <1>7 DEF Node_Connection_Handler
  <2> HIDE DEF d
  <2>2. \A s \in Socks : sk'[s].user \in {sk[s].user, "none"}
    BY <1>1, <2>1, SocketMade, TwoParts
  <2>3. dnc' = dnc \/ (Only(d) /\ KeepsAddr(d))
    BY <1>1, <1>2, <2>1, StoredSock
  <2>4. QED
    BY <1>6, <2>2, <2>3
<1>8. CASE Lock_for_Connect(w)
  BY <1>1, <1>2, <1>6, <1>8, StoredLock DEF Lock_for_Connect, LockFor
<1>9. CASE Connect_OK(w)
  <2>1. dnc' = dnc /\ \A s \in Socks : sk'[s].user = sk[s].user
    BY <1>1, <1>9 DEF Connect_OK, StateTypes
  <2>2. QED
    BY <1>6, <2>1
<1>10. CASE Connect_Fails(w) \/ Connect_Again(w)
  BY <1>1, <1>2, <1>6, <1>10, StoredLock DEF Connect_Fails, Connect_Again, Unlock
<1>11. CASE Register_Callbacks(w)
  <2>1. dnc' = dnc /\ \A s \in Socks : sk'[s].user \in {sk[s].user, d}
    BY <1>1, <1>2, <1>11 DEF Register_Callbacks, StateTypes
  <2>2. UserIsKnown
    BY <1>4, <2>1, KnownToOthers DEF UserIsKnown
  <2>3. QED
    BY <1>6, <2>1, <2>2
<1>12. CASE Set_Connected(w)
  <2>1. StillUp(d) \in BOOLEAN
    BY DEF StillUp
  <2>2. Only(d) /\ KeepsAddr(d) /\ UNCHANGED sk
    BY <1>1, <1>2, <1>12, <2>1, StoredConnected DEF Set_Connected
  <2>3. QED
    BY <1>6, <2>2
<1>13. CASE Relock(w)
  BY <1>6, <1>13 DEF Relock
<1>14. CASE Rebuild_Init(w)
  <2>1. \/ UNCHANGED <<sk, dnc>>
        \/ \E s \in Socks : NewSocket(d, s)
                            /\ dnc' = [dnc EXCEPT ![d].sock = s, ![d].status = "INIT"]
    BY <1>14 DEF Rebuild_Init, InitState
  <2> HIDE DEF d
  <2>2. \A s \in Socks : sk'[s].user \in {sk[s].user, "none"}
    BY <1>1, <2>1, SocketMade, TwoParts
  <2>3. dnc' = dnc \/ (Only(d) /\ KeepsAddr(d))
    BY <1>1, <1>2, <2>1, StoredInit
  <2>4. QED
    BY <1>6, <2>2, <2>3
<1>15. QED
  BY <1>7, <1>8, <1>9, <1>10, <1>11, <1>12, <1>13, <1>14 DEF HandlerStep

LEMMA CreateKeepsTab ==
  ASSUME TypeInv, TypeInv', TabInv, NEW p \in Procs, NEW a \in Addrs, Create_DMS_Node_Container(p, a)
  PROVE  TabInv'
<1> USE PointsAre
<1>1. /\ ThreadTypes /\ ControlOK /\ StateTypes /\ p \in Threads /\ OthersSame(p)
      /\ Fresh /\ Newcomer /\ Distinct /\ Released /\ InUse
  <2>1. Call(p)
    BY DEF Call
  <2>2. QED
    BY <2>1, CallKeepsThreads DEF TypeInv, Threads, TabInv
<1>2. /\ pc[p] = "idle" /\ rel[p] = "none" /\ job[p] = "none" /\ UNCHANGED <<table, queue>>
  <2>1. pc[p] = "idle" /\ UNCHANGED <<table, queue>>
    BY DEF Create_DMS_Node_Container, Idle, At
  <2>2. QED
    BY <1>1, <2>1, IdleThread DEF ControlOK, Control
<1>3. ASSUME NEW d \in Dncs, life[d] = "fresh", life' = [life EXCEPT ![d] = "freed"],
             UNCHANGED <<dnc, sk, tvars>>
      PROVE  TabInv'
  <2>1. NotIn(d)
    BY <1>1, <1>3 DEF Fresh, Unknown
  <2>2. OnlyFreed
    BY <1>1, <1>3, <2>1 DEF OnlyFreed, StateTypes
  <2>3. MeetsKnown(p)
    BY <1>3 DEF MeetsKnown, Same, tvars
  <2>4. QED
    BY <1>1, <1>2, <1>3, <2>2, <2>3, QuietStepOf
<1>4. ASSUME NEW d \in Dncs, life[d] = "fresh", NEW s \in Socks, NewSocket(d, s),
             dnc' = [dnc EXCEPT ![d] = [Blank(a) EXCEPT !.sock = s, !.status = "INIT"]],
             life' = [life EXCEPT ![d] = "live"], Begin(p, "build", d, 0, "occupy")
      PROVE  TabInv'
  <2>1. /\ Unknown(d) /\ \A t \in Threads : cur[t] # d
        /\ d # "none"
    BY <1>1, <1>4, ThreadsAssumption DEF Fresh
  <2>2. /\ pc'[p] = "occupy" /\ job'[p] = "build" /\ cur'[p] = d /\ rel'[p] = rel[p]
    <3>1. 0 \in 0..NNodes + 1
      BY SizesAssumption
    <3>2. QED
      BY <1>1, <1>4, <3>1, Beginning
  <2>3. /\ \A t \in Threads \ {p} : Same(t)
        /\ \A t \in Threads : rel'[t] = rel[t]
    BY <1>1, <2>2 DEF OthersSame, Same
  <2>4. dnc'[d].work = "none" /\ \A e \in Dncs \ {d} : dnc'[e] = dnc[e]
    BY <1>1, <1>4, StoredBlank DEF Only
  <2>5. \A r \in Socks : sk'[r].user = sk[r].user
    BY <1>1, <1>4, SocketMade, TwoParts
  <2>6. \A e \in Dncs : life'[e] = IF e = d THEN "live" ELSE life[e]
    BY <1>1, <1>4 DEF StateTypes
  <2>7. \A e \in Dncs : Unknown(e) => Unknown(e)'
    BY <1>2, <2>3, <2>4, <2>5 DEF Unknown, NotIn
  <2>8. Fresh'
    <3>1. SUFFICES ASSUME NEW e \in Dncs, life'[e] = "fresh"
                   PROVE  Unknown(e)' /\ \A t \in Threads : cur'[t] # e
      BY DEF Fresh
    <3>2. e # d /\ Unknown(e) /\ \A t \in Threads : cur[t] # e
      BY <1>1, <2>6, <3>1 DEF Fresh
    <3>3. QED
      BY <2>2, <2>3, <2>7, <3>2 DEF Same
  <2>9. Newcomer'
    <3>1. SUFFICES ASSUME NEW q \in Threads, pc'[q] = "occupy"
                   PROVE  Unknown(cur[q])' /\ \A t \in Threads \ {q} : cur'[t] # cur'[q]
      BY DEF Newcomer
    <3>2. CASE q = p
      <4>1. Unknown(d)' /\ \A t \in Threads \ {p} : cur'[t] # d
        BY <2>1, <2>3, <2>7 DEF Same
      <4>2. QED
        BY <2>2, <3>2, <4>1 DEF Unknown, NotIn
    <3>3. CASE q # p
      <4>1. PICK e \in Dncs : e = cur[q] /\ cur'[q] = e
        <5>1. pc[q] = "occupy" /\ cur'[q] = cur[q]
          BY <2>3, <3>1, <3>3 DEF Same
        <5>2. QED
          BY <1>1, <5>1, SomeTarget
      <4>2. pc[q] = "occupy" /\ e # d
        BY <2>1, <2>3, <3>1, <3>3, <4>1 DEF Same
      <4>3. Unknown(e) /\ \A t \in Threads \ {q} : cur[t] # e
        BY <1>1, <4>1, <4>2 DEF Newcomer
      <4>4. Unknown(e)' /\ \A t \in Threads \ {q} : cur'[t] # e
        BY <2>2, <2>3, <2>7, <4>2, <4>3 DEF Same
      <4>5. QED
        BY <4>1, <4>4 DEF Unknown, NotIn
    <3>4. QED
      BY <3>2, <3>3
  <2>10. \A i \in Nodes : table[i] # "none" => table[i] \in Dncs \ {d}
    BY <1>1, <2>1 DEF StateTypes, Unknown, NotIn
  <2>11. Distinct'
    BY <1>1, <1>2, <2>4, <2>10 DEF Distinct
  <2>12. Released'
    BY <1>1, <1>2, <2>1, <2>2, <2>3 DEF Released, NotIn, Same
  <2>13. InUse'
    <3>1. InService' => InService
      BY <1>1, <1>2, <2>3 DEF InService, Same, Threads
    <3>2. QED
      BY <1>1, <1>2, <2>6, <2>10, <3>1 DEF InUse
  <2>14. QED
    BY <2>8, <2>9, <2>11, <2>12, <2>13 DEF TabInv
<1>5. QED
  BY <1>3, <1>4, Creating

LEMMA CallKeepsTab ==
  ASSUME TypeInv, TypeInv', TabInv, NEW p \in Procs, Call(p)
  PROVE  TabInv'
<1> USE PointsAre
<1>1. /\ ThreadTypes /\ ControlOK /\ StateTypes /\ p \in Threads /\ OthersSame(p)
      /\ pc[p] = "idle" /\ job[p] = "none" /\ rel[p] = "none"
  <2>1. p \in Threads /\ pc[p] = "idle"
    BY DEF Call, Create_DMS_Node_Container, Destroy_DMS_Node_Container, Send_Msg,
           Release_DNCS_Manager, Idle, At, Threads
  <2>2. QED
    BY <2>1, CallKeepsThreads, IdleThread DEF TypeInv, ControlOK, Control
<1>2. ASSUME NEW i \in Nodes, Destroy_DMS_Node_Container(p, i) PROVE TabInv'
  <2>1. /\ table[i] # "none" /\ Clean_One_Index(i) /\ Release(p, table[i])
        /\ job' = [job EXCEPT ![p] = "destroy"]
        /\ UNCHANGED <<cur, queue, life, dnc, sk>>
    BY <1>2 DEF Destroy_DMS_Node_Container
  <2>2. PICK d \in Dncs : d = table[i] /\ Known(d)
    BY <1>1, <2>1, KnownToOthers DEF StateTypes
  <2>3. rel'[p] = d /\ pc'[p] = "release" /\ table'[i] = "none" /\ TableShrinks
    BY <1>1, <2>1, <2>2 DEF Release, Clean_One_Index, ThreadTypes, StateTypes, TableShrinks
  <2>4. \A j \in Nodes : table'[j] # d
    <3>1. \A j \in Nodes : table[j] = d => j = i
      BY <2>2, OneEntry, ThreadsAssumption DEF TabInv
    <3>2. \A j \in Nodes : table'[j] = d => table[j] = d /\ j # i
      BY <2>2, <2>3, ThreadsAssumption DEF TableShrinks
    <3>3. QED
      BY <3>1, <3>2
  <2>5. NotIn(rel[p])'
    BY <2>3, <2>4 DEF NotIn
  <2>6. MeetsKnown(p)
    BY <1>1, <2>1, <2>2, <2>3, <2>5 DEF MeetsKnown
  <2>7. QED
    BY <1>1, <2>1, <2>3, <2>6, QuietStepOf
<1>3. ASSUME NEW i \in Nodes, Send_Msg(p, i) PROVE TabInv'
  <2>1. /\ table[i] \in Dncs /\ Known(table[i]) /\ Begin(p, "send", table[i], i, "check")
        /\ UNCHANGED <<table, queue, life, dnc, sk>> /\ i \in 0..NNodes + 1
    BY <1>1, <1>3, KnownToOthers, SizesAssumption DEF Send_Msg, StateTypes, Nodes
  <2>2. pc'[p] = "check" /\ cur'[p] = table[i] /\ rel'[p] = "none"
    BY <1>1, <2>1, Beginning
  <2>3. MeetsKnown(p)
    BY <1>1, <2>1, <2>2 DEF MeetsKnown
  <2>4. QED
    BY <1>1, <2>1, <2>3, QuietStepOf
<1>4. CASE Release_DNCS_Manager(p)
  <2>1. /\ Begin(p, "unload", "none", 0, "next") /\ 0 \in 0..NNodes + 1
        /\ UNCHANGED <<table, queue, life, dnc, sk>>
    BY <1>4, SizesAssumption DEF Release_DNCS_Manager
  <2>2. pc'[p] = "next" /\ cur'[p] = "none" /\ rel'[p] = "none"
    BY <1>1, <2>1, Beginning
  <2>3. MeetsKnown(p)
    BY <1>1, <2>2 DEF MeetsKnown
  <2>4. QED
    BY <1>1, <2>1, <2>3, QuietStepOf
<1>5. QED
  BY <1>2, <1>3, <1>4, CreateKeepsTab DEF Call

LEMMA RunWorkKeepsTab ==
  ASSUME TypeInv, TypeInv', TabInv, NEW w \in Workers, NEW d \in Dncs, Run_Work(w, d)
  PROVE  TabInv'
<1> USE PointsAre
<1>1. ThreadTypes /\ ControlOK /\ StateTypes /\ w \in Threads /\ OthersSame(w)
  BY RunWorkKeepsThreads DEF TypeInv, Threads
<1>2. /\ pc[w] = "idle" /\ dnc[d].work = "queue" /\ dnc' = [dnc EXCEPT ![d].work = "none"]
      /\ Begin(w, "handler", d, 0, "handler") \/ Begin(w, "rebuild", d, 0, "disconnect")
      /\ UNCHANGED <<table, queue, life, sk>>
  BY DEF Run_Work, At
<1>3. Known(d) /\ rel[w] = "none" /\ job[w] = "none" /\ 0 \in 0..NNodes + 1
  BY <1>1, <1>2, KnownToOthers, IdleThread, SizesAssumption DEF ControlOK, Control
<1>4. WorkOfKnown
  BY <1>1, <1>2, StoredWork, QuietContainer
<1>5. pc'[w] \in {"handler", "disconnect"} /\ cur'[w] = d /\ rel'[w] = "none"
  BY <1>1, <1>2, <1>3, Beginning
<1>6. MeetsKnown(w)
  BY <1>3, <1>5 DEF MeetsKnown
<1>7. QED
  BY <1>1, <1>2, <1>4, <1>6, QuietStepOf

LEMMA KernelKeepsTab ==
  ASSUME TypeInv, TypeInv', TabInv,
         \/ \E d \in Dncs : Timer(d) \/ Run_Freed(d)
         \/ \E s \in Socks : Lose_Unnoticed(s) \/ Socket_State_Change(s) \/ State_Change_Fault(s)
         \/ UNCHANGED vars
  PROVE  TabInv'
<1>1. StateTypes /\ UNCHANGED <<table, queue, life>>
  BY DEF TypeInv, Timer, Run_Freed, Lose_Unnoticed, Socket_State_Change, State_Change_Fault, Crash, vars
<1>2. \A t \in Threads : MeetsKnown(t)
  BY KernelKeepsThreads DEF tvars, MeetsKnown, Same
<1>3. TableShrinks /\ OnlyFreed
  BY <1>1, QuietRest
<1>4. ASSUME UNCHANGED dnc \/ WorkOfKnown, \A s \in Socks : sk'[s].user \in {sk[s].user, "none"}
      PROVE  TabInv'
  BY <1>1, <1>2, <1>3, <1>4, QuietRest, QuietStep
<1>5. ASSUME NEW d \in Dncs, Timer(d) PROVE TabInv'
  <2>1. \/ dnc[d].work = "timer" /\ dnc' = [dnc EXCEPT ![d].work = "queue"]
        \/ dnc' = dnc
    BY <1>5 DEF Timer, Crash
  <2>2. dnc' = dnc \/ WorkOfKnown
    BY <1>1, <2>1, StoredWork, QuietContainer, KnownToOthers
  <2>3. UNCHANGED sk
    BY <1>5 DEF Timer, Crash
  <2>4. QED
    BY <1>4, <2>2, <2>3
<1>6. ASSUME NEW s \in Socks, Lose_Unnoticed(s) \/ Socket_State_Change(s) PROVE TabInv'
  <2>1. \E new : sk' = [sk EXCEPT ![s].tcp = new]
    BY <1>6 DEF Lose_Unnoticed, Socket_State_Change
  <2>2. \A r \in Socks : sk'[r].user = sk[r].user
    BY <1>1, <2>1 DEF StateTypes
  <2>3. CASE Lose_Unnoticed(s)
    BY <1>4, <2>2, <2>3 DEF Lose_Unnoticed
  <2>4. CASE Socket_State_Change(s)
    <3>1. sk[s].user \in Dncs /\ sk[s].user # "none" /\ dnc' = Rebuild(sk[s].user)
      BY <1>1, <2>4 DEF Socket_State_Change, StateTypes
    <3>2. Known(sk[s].user)
      BY <3>1, KnownToOthers
    <3>3. WorkOfKnown
      BY <1>1, <3>1, <3>2, StoredRebuild, QuietContainer
    <3>4. QED
      BY <1>4, <2>2, <3>3
  <2>5. QED
    BY <1>6, <2>3, <2>4
<1>7. ASSUME UNCHANGED <<dnc, sk>> PROVE TabInv'
  BY <1>4, <1>7
<1>8. QED
  BY <1>5, <1>6, <1>7 DEF Run_Freed, State_Change_Fault, Crash, vars

LEMMA NextKeepsTab ==
  ASSUME TypeInv, TabInv, [Next]_vars
  PROVE  TabInv'
<1>1. TypeInv'
  BY NextKeepsTypes
<1>2. QED
  BY <1>1, CallKeepsTab, ProcStepKeepsTab, HandlerStepKeepsTab, RunWorkKeepsTab, StepKeepsTab,
     KernelKeepsTab DEF Next

LEMMA InitTab == Init => TabInv
<1> SUFFICES ASSUME Init PROVE TabInv
  OBVIOUS
<1>1. \A d \in Dncs : Unknown(d) /\ \A t \in Threads : cur[t] # d
  BY ThreadsAssumption DEF Init, Unknown, NotIn, Blank
<1>2. QED
  BY <1>1 DEF Init, TabInv, Fresh, Newcomer, Distinct, Released, InUse

LEMMA TableHolds == Spec => [](TypeInv /\ TabInv)
<1>1. Init => TypeInv /\ TabInv
  BY InitTypes, InitTab
<1>2. TypeInv /\ TabInv /\ [Next]_vars => (TypeInv /\ TabInv)'
  BY NextKeepsTypes, NextKeepsTab
<1>3. QED
  BY <1>1, <1>2, PTL DEF Spec

\* Whoever builds containers for one address at the same time, __Occupy_One_Index leaves one
\* entry of the table, and it is in use until the manager is released.
THEOREM AddressesAreUnique == Spec => []OneContainerPerAddress
<1>1. TabInv => OneContainerPerAddress
  BY DEF TabInv, Distinct, InUse, OneContainerPerAddress
<1>2. QED
  BY <1>1, TableHolds, PTL

-----------------------------------------------------------------------------
(* One releaser: a thread gets what it releases from the table.             *)

TakesFromTable(t) ==
    \/ rel'[t] = "none"
    \/ rel'[t] = rel[t] /\ job'[t] = job[t]
    \/ \E i \in Nodes : rel'[t] = table[i]

LEMMA StepTakes ==
  ASSUME TypeInv, NEW t \in Threads, Step(t)
  PROVE  TakesFromTable(t)
<1> USE DEF TakesFromTable
<1>1. ThreadTypes /\ ControlOK
  BY DEF TypeInv
<1>2. CASE Use_Freed(t) \/ Release_Null(t) \/ Release_DMS_Node_Container(t) \/ Flush_Workqueue(t)
           \/ Cancel_from_Node_Builder_Workq(t) \/ Set_Disconnected(t) \/ Take_Socket(t) \/ Release_Socket(t)
  <2>1. UNCHANGED <<rel, job>>
    BY <1>2 DEF Use_Freed, Release_Null, Crash, tvars, Release_DMS_Node_Container, Flush_Workqueue,
         Cancel_from_Node_Builder_Workq, Set_Disconnected, Take_Socket, Release_Socket, Goto
  <2>2. QED
    BY <2>1
<1>3. CASE Build_Connection(t) \/ Schedule_to_Node_Builder_Workq(t) \/ Set_Building(t)
           \/ Free_DMS_Node_Container(t)
  <2>1. pc[t] # "builder" /\ (UNCHANGED <<rel, job>> \/ Finish(t))
    BY <1>3 DEF Build_Connection, Schedule_to_Node_Builder_Workq, Set_Building,
                Free_DMS_Node_Container, Goto, Uses, At
  <2>2. QED
    BY <1>1, <2>1, Finishing
<1>4. CASE Destroy_by_Index(t)
  <2>1. /\ pc[t] # "builder"
        /\ \/ UNCHANGED <<rel, job>>
           \/ Finish(t)
           \/ \E i \in Nodes : Release(t, table[i])
    BY <1>4 DEF Destroy_by_Index, Goto, Uses, At
  <2>2. ASSUME NEW i \in Nodes, Release(t, table[i]) PROVE TakesFromTable(t)
    BY <1>1, <2>2 DEF Release, ThreadTypes
  <2>3. QED
    BY <1>1, <2>1, <2>2, Finishing
<1>5. QED
  BY <1>2, <1>3, <1>4 DEF Step

LEMMA ProcTakes ==
  ASSUME TypeInv, NEW p \in Procs, Call(p) \/ ProcStep(p)
  PROVE  TakesFromTable(p)
<1> USE DEF TakesFromTable
<1>1. ThreadTypes /\ ControlOK /\ p \in Threads
  BY DEF TypeInv, Threads
<1>2. ASSUME pc[p] \in {"idle", "occupy", "next", "builder"}, UNCHANGED rel PROVE TakesFromTable(p)
  BY <1>1, <1>2, IdleThread
<1>3. ASSUME NEW i \in Nodes, Release(p, table[i]) PROVE TakesFromTable(p)
  BY <1>1, <1>3 DEF Release, ThreadTypes
<1>4. CASE Call(p)
  <2>1. ASSUME NEW a \in Addrs, Create_DMS_Node_Container(p, a) PROVE TakesFromTable(p)
    BY <1>2, <2>1 DEF Create_DMS_Node_Container, Begin, Idle, At, tvars
  <2>2. ASSUME NEW i \in Nodes, Destroy_DMS_Node_Container(p, i) PROVE TakesFromTable(p)
    BY <1>3, <2>2 DEF Destroy_DMS_Node_Container
  <2>3. ASSUME NEW i \in Nodes, Send_Msg(p, i) PROVE TakesFromTable(p)
    BY <1>2, <2>3 DEF Send_Msg, Begin, Idle, At
  <2>4. CASE Release_DNCS_Manager(p)
    BY <1>2, <2>4 DEF Release_DNCS_Manager, Begin, Idle, At
  <2>5. QED
    BY <1>4, <2>1, <2>2, <2>3, <2>4 DEF Call
<1>5. CASE Occupy_One_Index(p)
  <2>1. pc[p] = "occupy" /\ (Finish(p) \/ UNCHANGED rel)
    BY <1>5 DEF Occupy_One_Index, Begin, Uses, At
  <2>2. QED
    BY <1>1, <1>2, <2>1, Finishing
<1>6. CASE Set_Index(p) \/ Check_Connected(p) \/ Load_Socket(p) \/ Sock_Xmit(p)
  <2>1. pc[p] # "builder" /\ (UNCHANGED <<rel, job>> \/ Finish(p))
    BY <1>6 DEF Set_Index, Check_Connected, Load_Socket, Sock_Xmit, Crash, tvars, Goto, Uses, At
  <2>2. QED
    BY <1>1, <2>1, Finishing
<1>7. CASE Release_Next(p)
  <2>1. pc[p] = "next" /\ (UNCHANGED rel \/ \E i \in Nodes : Release(p, table[i]))
    BY <1>7 DEF Release_Next, At
  <2>2. QED
    BY <1>2, <1>3, <2>1
<1>8. CASE Release_Node_Builder(p)
  BY <1>2, <1>8 DEF Release_Node_Builder, At
<1>9. QED
  BY <1>4, <1>5, <1>6, <1>7, <1>8 DEF ProcStep

LEMMA WorkerTakes ==
  ASSUME TypeInv, NEW w \in Workers, HandlerStep(w) \/ \E d \in Dncs : Run_Work(w, d)
  PROVE  TakesFromTable(w)
<1> USE DEF TakesFromTable
<1>1. ThreadTypes /\ ControlOK /\ w \in Threads
  BY DEF TypeInv, Threads
<1>2. ASSUME NEW d \in Dncs, Run_Work(w, d) PROVE TakesFromTable(w)
  <2>1. pc[w] = "idle" /\ UNCHANGED rel
    BY <1>2 DEF Run_Work, Begin, At
  <2>2. QED
    BY <1>1, <2>1, IdleThread
<1>3. CASE HandlerStep(w)
  <2>1. pc[w] # "builder" /\ (UNCHANGED <<rel, job>> \/ Finish(w))
    BY <1>3 DEF HandlerStep, Node_Connection_Handler, Lock_for_Connect, Connect_OK, Connect_Fails,
      Connect_Again, Register_Callbacks, Set_Connected, Relock, Rebuild_Init, Goto, Uses, At
  <2>2. QED
    BY <1>1, <2>1, Finishing
<1>4. QED
  BY <1>2, <1>3

LEMMA TakingKeepsOne ==
  ASSUME TypeInv, TabInv, ReleasedByOne, NEW t \in Threads, OthersSame(t), TakesFromTable(t)
  PROVE  ReleasedByOne'
<1> SUFFICES ASSUME NEW d \in Dncs, NEW v \in Threads, NEW u \in Threads, rel'[v] = d, rel'[u] = d,
                    v # u, job'[v] # "unload", job'[u] # "unload"
             PROVE  FALSE
  BY DEF ReleasedByOne, Releasing
<1>1. d # "none"
  BY ThreadsAssumption
<1>2. \A x \in Threads, y \in Threads : rel[x] = d /\ rel[y] = d => x = y \/ "unload" \in {job[x], job[y]}
  BY DEF ReleasedByOne, Releasing
<1>3. \A x \in Threads : rel[x] = d /\ job[x] # "unload" => \A i \in Nodes : table[i] # d
  BY <1>1 DEF TabInv, Released, NotIn
<1>4. \A x \in Threads \ {t} : rel'[x] = rel[x] /\ job'[x] = job[x]
  BY DEF OthersSame, Same
<1>5. CASE v = t
  BY <1>1, <1>2, <1>3, <1>4, <1>5 DEF TakesFromTable
<1>6. CASE u = t
  BY <1>1, <1>2, <1>3, <1>4, <1>6 DEF TakesFromTable
<1>7. CASE u # t /\ v # t
  BY <1>2, <1>4, <1>7
<1>8. QED
  BY <1>5, <1>6, <1>7

LEMMA NextKeepsOne ==
  ASSUME TypeInv, TabInv, ReleasedByOne, [Next]_vars
  PROVE  ReleasedByOne'
<1>1. ASSUME NEW p \in Procs, Call(p) \/ ProcStep(p) PROVE ReleasedByOne'
  <2>1. p \in Threads
    BY DEF Threads
  <2>2. QED
    BY <1>1, <2>1, ProcTakes, CallKeepsThreads, ProcStepKeepsThreads, TakingKeepsOne
<1>2. ASSUME NEW w \in Workers, HandlerStep(w) PROVE ReleasedByOne'
  <2>1. w \in Threads
    BY DEF Threads
  <2>2. QED
    BY <1>2, <2>1, WorkerTakes, HandlerStepKeepsThreads, TakingKeepsOne
<1>3. ASSUME NEW w \in Workers, NEW d \in Dncs, Run_Work(w, d) PROVE ReleasedByOne'
  <2>1. w \in Threads
    BY DEF Threads
  <2>2. QED
    BY <1>3, <2>1, WorkerTakes, RunWorkKeepsThreads, TakingKeepsOne
<1>4. ASSUME NEW t \in Threads, Step(t) PROVE ReleasedByOne'
  BY <1>4, StepTakes, StepKeepsThreads, TakingKeepsOne
<1>5. CASE \/ \E d \in Dncs : Timer(d) \/ Run_Freed(d)
           \/ \E s \in Socks : Lose_Unnoticed(s) \/ Socket_State_Change(s) \/ State_Change_Fault(s)
           \/ UNCHANGED vars
  BY <1>5, KernelKeepsThreads DEF tvars, ReleasedByOne, Releasing
<1>6. QED
  BY <1>1, <1>2, <1>3, <1>4, <1>5 DEF Next

\* However many threads destroy a container or give it up, one releases it: it is cleared from
\* the table, under dms_nodes_lock, by the thread that then has it.
THEOREM OneThreadReleases == Spec => []ReleasedByOne
<1>1. Init => ReleasedByOne
  BY ThreadsAssumption DEF Init, ReleasedByOne, Releasing
<1>2. TypeInv /\ TabInv /\ ReleasedByOne /\ [Next]_vars => ReleasedByOne'
  BY NextKeepsOne
<1>3. QED
  BY <1>1, <1>2, TableHolds, PTL DEF Spec

-----------------------------------------------------------------------------
(* Sockets and the lock of a container.                                     *)

\* The handler has the lock, and a socket that is connected.
Locking == {"connect", "register", "connected"}
Linking == {"register", "connected"}

\* A socket in a container is not released, and is nobody else's.
Owned ==
    \A d \in Dncs : dnc[d].sock # 0 =>
        /\ sk[dnc[d].sock].tcp \notin {"unused", "released"}
        /\ \A e \in Dncs : dnc[e].sock = dnc[d].sock => e = d
        /\ \A t \in Threads : pc[t] = "stop" => held[t] # dnc[d].sock
Used == \A t \in Threads : held[t] # 0 => sk[held[t]].tcp # "unused"
Locked == \A w \in Workers : pc[w] \in Locking => dnc[cur[w]].lock = w
Linked ==
    \A w \in Workers : pc[w] \in Linking =>
        /\ dnc[cur[w]].sock # 0
        /\ sk[dnc[cur[w]].sock].tcp \in {"established", "fin", "shut"}
SockInv == Owned /\ Used /\ Locked /\ Linked

\* Steps that leave it.
SocksKept == \A d \in Dncs : dnc'[d].sock = dnc[d].sock
LocksKept == \A d \in Dncs : dnc'[d].lock = dnc[d].lock
TcpMoves ==
    \A s \in Socks :
        \/ sk'[s].tcp = sk[s].tcp
        \/ sk[s].tcp \notin {"unused", "released"} /\ sk'[s].tcp \in {"established", "fin", "shut"}
HoldsOn(t) == held'[t] \in {held[t], 0} /\ (pc'[t] = "stop" => pc[t] = "stop")
Stays(t) ==
    pc'[t] \in Locking => /\ cur'[t] = cur[t] /\ pc[t] \in Locking
                          /\ pc'[t] \in Linking => pc[t] \in Linking

LEMMA LockingWorker ==
  ASSUME TypeInv, NEW w \in Workers, pc[w] \in Locking
  PROVE  cur[w] \in Dncs /\ w \in Threads /\ w # "none"
<1>1. w \in Threads
  BY DEF Threads
<1>2. QED
  BY <1>1, SomeTarget, ThreadsAssumption DEF TypeInv, Locking

LEMMA OwnedKept ==
  ASSUME TypeInv, Owned, SocksKept, TcpMoves, \A t \in Threads : HoldsOn(t)
  PROVE  Owned'
<1>1. \A d \in Dncs : dnc[d].sock \in Socks \cup {0}
  BY Contents DEF TypeInv
<1>2. SUFFICES ASSUME NEW d \in Dncs, NEW s, dnc[d].sock = s, s # 0
               PROVE  /\ sk'[s].tcp \notin {"unused", "released"}
                      /\ \A e \in Dncs : dnc'[e].sock = s => e = d
                      /\ \A t \in Threads : pc'[t] = "stop" => held'[t] # s
  BY DEF Owned, SocksKept
<1>3. /\ s \in Socks /\ sk[s].tcp \notin {"unused", "released"}
      /\ \A e \in Dncs : dnc[e].sock = s => e = d
      /\ \A t \in Threads : pc[t] = "stop" => held[t] # s
  BY <1>1, <1>2 DEF Owned
<1>4. sk'[s].tcp \notin {"unused", "released"}
  BY <1>3 DEF TcpMoves
<1>5. \A e \in Dncs : dnc'[e].sock = s => e = d
  BY <1>3 DEF SocksKept
<1>6. \A t \in Threads : pc'[t] = "stop" => held'[t] # s
  BY <1>2, <1>3 DEF HoldsOn
<1>7. QED
  BY <1>4, <1>5, <1>6

LEMMA UsedKept ==
  ASSUME TypeInv, Used, TcpMoves, \A t \in Threads : HoldsOn(t)
  PROVE  Used'
<1>1. SUFFICES ASSUME NEW t \in Threads, NEW s, held'[t] = s, s # 0
               PROVE  sk'[s].tcp # "unused"
  BY DEF Used
<1>2. held[t] = s /\ s \in Socks /\ sk[s].tcp # "unused"
  BY <1>1 DEF HoldsOn, Used, TypeInv, ThreadTypes
<1>3. QED
  BY <1>2 DEF TcpMoves

LEMMA LockedKept ==
  ASSUME TypeInv, Locked, \A w \in Workers : Stays(w),
         \A w \in Workers : pc[w] \in Locking /\ pc'[w] \in Locking => dnc'[cur[w]].lock = dnc[cur[w]].lock
  PROVE  Locked'
BY DEF Locked, Stays

LEMMA LinkedKept ==
  ASSUME TypeInv, Linked, TcpMoves, \A w \in Workers : Stays(w),
         \A w \in Workers : pc[w] \in Linking => dnc'[cur[w]].sock = dnc[cur[w]].sock
  PROVE  Linked'
<1>1. SUFFICES ASSUME NEW w \in Workers, pc'[w] \in Linking
               PROVE  /\ dnc'[cur'[w]].sock # 0
                      /\ sk'[dnc'[cur'[w]].sock].tcp \in {"established", "fin", "shut"}
  BY DEF Linked
<1>2. PICK s : s = dnc[cur[w]].sock
  OBVIOUS
<1>3. cur'[w] = cur[w] /\ pc[w] \in Linking /\ dnc'[cur[w]].sock = s
  BY <1>1, <1>2 DEF Stays, Locking, Linking
<1>4. s # 0 /\ sk[s].tcp \in {"established", "fin", "shut"} /\ s \in Socks
  <2>1. cur[w] \in Dncs
    BY <1>3, LockingWorker DEF Locking, Linking
  <2>2. QED
    BY <1>2, <1>3, <2>1, Contents DEF Linked, TypeInv
<1>5. sk'[s].tcp \in {"established", "fin", "shut"}
  BY <1>4 DEF TcpMoves
<1>6. QED
  BY <1>3, <1>4, <1>5

LEMMA ForAllThreads ==
  ASSUME NEW t \in Threads, OthersSame(t), HoldsOn(t), Stays(t)
  PROVE  (\A u \in Threads : HoldsOn(u)) /\ (\A w \in Workers : Stays(w))
BY DEF OthersSame, Same, HoldsOn, Stays, Linking, Locking, Threads

LEMMA QuietSocks ==
  ASSUME TypeInv, SockInv, SocksKept, LocksKept, TcpMoves,
         \A t \in Threads : HoldsOn(t), \A w \in Workers : Stays(w)
  PROVE  SockInv'
<1>1. \A w \in Workers : pc[w] \in Locking => cur[w] \in Dncs
  BY LockingWorker
<1>2. Owned'
  BY OwnedKept DEF SockInv
<1>3. Used'
  BY UsedKept DEF SockInv
<1>4. Locked'
  BY <1>1, LockedKept DEF SockInv, LocksKept
<1>5. Linked'
  BY <1>1, LinkedKept DEF SockInv, SocksKept, Linking, Locking
<1>6. QED
  BY <1>2, <1>3, <1>4, <1>5 DEF SockInv

\* A quiet step of one thread.
LEMMA QuietSocksOf ==
  ASSUME TypeInv, SockInv, NEW t \in Threads, OthersSame(t), HoldsOn(t), Stays(t),
         UNCHANGED dnc \/ \E d \in Dncs : Only(d) /\ KeepsSock(d) /\ KeepsLock(d),
         UNCHANGED sk \/ TcpMoves
  PROVE  SockInv'
<1>1. SocksKept /\ LocksKept
  BY DEF Only, KeepsSock, KeepsLock, SocksKept, LocksKept
<1>2. TcpMoves
  BY DEF TcpMoves
<1>3. QED
  BY <1>1, <1>2, ForAllThreads, QuietSocks

LEMMA QuietSocksGoto ==
  ASSUME TypeInv, NEW t \in Threads, NEW there \in Points, Goto(t, there), there \notin Locking, there # "stop"
  PROVE  HoldsOn(t) /\ Stays(t)
BY Going DEF TypeInv, HoldsOn, Stays

LEMMA QuietSocksFinish ==
  ASSUME TypeInv, NEW t \in Threads, Finish(t), pc[t] # "builder"
  PROVE  HoldsOn(t) /\ Stays(t)
<1>1. held'[t] = 0 /\ pc'[t] \in {"relock", "next", "idle"}
  BY Finishing DEF TypeInv
<1>2. QED
  BY <1>1 DEF HoldsOn, Stays, Locking

\* Who unlocks a container that it has locked leaves the others' locks.
LEMMA UnlockedByOwner ==
  ASSUME TypeInv, SockInv, NEW w \in Workers, OthersSame(w), HoldsOn(w), pc'[w] \notin Locking,
         pc[w] \in Locking, UNCHANGED sk, Only(cur[w]), KeepsSock(cur[w])
  PROVE  SockInv'
<1>1. SocksKept /\ TcpMoves /\ w \in Threads /\ Stays(w) /\ cur[w] \in Dncs
  BY LockingWorker DEF Only, KeepsSock, SocksKept, TcpMoves, Stays
<1>2. (\A u \in Threads : HoldsOn(u)) /\ (\A u \in Workers : Stays(u))
  BY <1>1, ForAllThreads
<1>3. ASSUME NEW v \in Workers, pc[v] \in Locking, pc'[v] \in Locking
      PROVE  dnc'[cur[v]].lock = dnc[cur[v]].lock
  <2>1. v # w /\ cur[v] \in Dncs
    BY <1>3, LockingWorker
  <2>2. cur[v] # cur[w]
    BY <1>3, <2>1 DEF SockInv, Locked
  <2>3. QED
    BY <2>1, <2>2 DEF Only
<1>4. \A v \in Workers : pc[v] \in Linking => dnc'[cur[v]].sock = dnc[cur[v]].sock
  BY <1>1, LockingWorker DEF SocksKept, Linking, Locking
<1>5. Owned' /\ Used'
  BY <1>1, <1>2, OwnedKept, UsedKept DEF SockInv
<1>6. Locked' /\ Linked'
  BY <1>1, <1>2, <1>3, <1>4, LockedKept, LinkedKept DEF SockInv
<1>7. QED
  BY <1>5, <1>6 DEF SockInv

\* A new socket for a container that is not locked.
LEMMA SocketAdded ==
  ASSUME TypeInv, TypeInv', SockInv, NEW t \in Threads, OthersSame(t), HoldsOn(t), Stays(t),
         NEW d \in Dncs, NEW s \in Socks, NewSocket(d, s), Only(d), dnc'[d].sock = s,
         \A w \in Workers : pc[w] \in Locking => cur[w] # d
  PROVE  SockInv'
<1>1. /\ sk[s].tcp = "unused" /\ sk'[s].tcp = "closed"
      /\ \A r \in Socks \ {s} : sk'[r] = sk[r]
  BY SocketMade, TwoParts DEF TypeInv
<1>2. /\ \A e \in Dncs : dnc[e].sock # s /\ dnc[e].sock \in Socks \cup {0}
      /\ \A u \in Threads : held[u] # s /\ held[u] \in Socks \cup {0}
      /\ s # 0
  BY <1>1, Contents DEF SockInv, Owned, Used, TypeInv, ThreadTypes, Socks
<1>3. (\A u \in Threads : HoldsOn(u)) /\ (\A u \in Workers : Stays(u))
  BY ForAllThreads
<1>4. \A w \in Workers : pc[w] \in Locking => cur[w] \in Dncs /\ dnc'[cur[w]] = dnc[cur[w]]
  BY LockingWorker DEF Only
<1>5. Owned'
  <2>1. SUFFICES ASSUME NEW e \in Dncs, NEW r, dnc'[e].sock = r, r # 0
                 PROVE  /\ sk'[r].tcp \notin {"unused", "released"}
                        /\ \A f \in Dncs : dnc'[f].sock = r => f = e
                        /\ \A u \in Threads : pc'[u] = "stop" => held'[u] # r
    BY DEF Owned
  <2>2. CASE e = d
    <3>1. r = s
      BY <2>1, <2>2
    <3>2. \A f \in Dncs : dnc'[f].sock = r => f = e
      BY <1>2, <2>2, <3>1 DEF Only
    <3>3. QED
      BY <1>1, <1>2, <1>3, <3>1, <3>2 DEF HoldsOn
  <2>3. CASE e # d
    <3>1. dnc[e].sock = r /\ r \in Socks \ {s}
      BY <1>2, <2>1, <2>3 DEF Only
    <3>2. /\ sk[r].tcp \notin {"unused", "released"}
          /\ \A f \in Dncs : dnc[f].sock = r => f = e
          /\ \A u \in Threads : pc[u] = "stop" => held[u] # r
      BY <2>1, <3>1 DEF SockInv, Owned
    <3>3. \A f \in Dncs : dnc'[f].sock = r => f = e
      BY <3>1, <3>2 DEF Only
    <3>4. \A u \in Threads : pc'[u] = "stop" => held'[u] # r
      BY <1>3, <2>1, <3>2 DEF HoldsOn
    <3>5. sk'[r].tcp \notin {"unused", "released"}
      BY <1>1, <3>1, <3>2
    <3>6. QED
      BY <3>3, <3>4, <3>5
  <2>4. QED
    BY <2>2, <2>3
<1>6. Used'
  <2>1. SUFFICES ASSUME NEW u \in Threads, NEW r, held'[u] = r, r # 0 PROVE sk'[r].tcp # "unused"
    BY DEF Used
  <2>2. held[u] = r /\ r \in Socks \ {s} /\ sk[r].tcp # "unused"
    BY <1>2, <1>3, <2>1 DEF HoldsOn, SockInv, Used
  <2>3. QED
    BY <1>1, <2>2
<1>7. Locked'
  BY <1>3, <1>4, LockedKept DEF SockInv
<1>8. Linked'
  <2>1. SUFFICES ASSUME NEW w \in Workers, pc'[w] \in Linking
                 PROVE  /\ dnc'[cur'[w]].sock # 0
                        /\ sk'[dnc'[cur'[w]].sock].tcp \in {"established", "fin", "shut"}
    BY DEF Linked
  <2>2. PICK r : r = dnc[cur[w]].sock
    OBVIOUS
  <2>3. cur'[w] = cur[w] /\ pc[w] \in Linking /\ dnc'[cur[w]].sock = r
    BY <1>3, <1>4, <2>1, <2>2 DEF Stays, Locking, Linking
  <2>4. r # 0 /\ sk[r].tcp \in {"established", "fin", "shut"} /\ r \in Socks \ {s}
    BY <1>2, <1>4, <2>2, <2>3 DEF SockInv, Linked, Locking, Linking
  <2>5. QED
    BY <1>1, <2>3, <2>4
<1>9. QED
  BY <1>5, <1>6, <1>7, <1>8 DEF SockInv

\* The socket is taken out under the lock.
LEMMA TakeKeepsSocks ==
  ASSUME TypeInv, SockInv, NEW t \in Threads, OthersSame(t), Take_Socket(t)
  PROVE  SockInv'
<1>1. ThreadTypes /\ ControlOK /\ StateTypes
  BY DEF TypeInv
<1> DEFINE d == Target(t)
           s == dnc[d].sock
<1>2. /\ d \in Dncs /\ dnc[d].lock = "none" /\ dnc' = [dnc EXCEPT ![d] = Detached(@)]
      /\ held' = [held EXCEPT ![t] = s] /\ pc' = [pc EXCEPT ![t] = "stop"]
      /\ UNCHANGED <<job, cur, sk>>
  BY <1>1, SomeTarget DEF Take_Socket, Uses, At, Drops, Unlocked
<1>3. s \in Socks \cup {0} /\ \A e \in Dncs : dnc[e].sock \in Socks \cup {0}
  BY <1>1, <1>2, Contents
<1>4. /\ Only(d) /\ dnc'[d].sock = 0 /\ dnc'[d].lock = "none"
  BY <1>1, <1>2, StoredDetached DEF KeepsLock
<1>5. held'[t] = s /\ pc'[t] = "stop"
  BY <1>1, <1>2 DEF ThreadTypes
<1> HIDE DEF d, s
<1>6. \A u \in Threads \ {t} : held'[u] = held[u] /\ pc'[u] = pc[u] /\ cur'[u] = cur[u]
  BY DEF OthersSame, Same
<1>7. \A w \in Workers : pc[w] \in Locking => cur[w] \in Dncs /\ cur[w] # d
  BY <1>2, LockingWorker DEF SockInv, Locked
<1>8. Owned'
  <2>1. SUFFICES ASSUME NEW e \in Dncs, NEW r, dnc'[e].sock = r, r # 0
                 PROVE  /\ sk[r].tcp \notin {"unused", "released"}
                        /\ \A f \in Dncs : dnc'[f].sock = r => f = e
                        /\ \A u \in Threads : pc'[u] = "stop" => held'[u] # r
    BY <1>2 DEF Owned
  <2>2. e # d /\ dnc[e].sock = r
    BY <1>4, <2>1 DEF Only
  <2>3. /\ sk[r].tcp \notin {"unused", "released"}
        /\ \A f \in Dncs : dnc[f].sock = r => f = e
        /\ \A u \in Threads : pc[u] = "stop" => held[u] # r
    BY <2>1, <2>2 DEF SockInv, Owned
  <2>4. \A f \in Dncs : dnc'[f].sock = r => f = e
    BY <1>4, <2>1, <2>3 DEF Only
  <2>5. s # r
    BY <1>2, <2>2, <2>3 DEF s
  <2>6. QED
    BY <1>5, <1>6, <2>3, <2>4, <2>5
<1>9. Used'
  BY <1>2, <1>5, <1>6 DEF SockInv, Used, Owned, s
<1>10. \A w \in Workers : Stays(w)
  BY <1>5, <1>6 DEF Stays, Locking, Linking, Threads
<1>11. Locked'
  BY <1>4, <1>7, <1>10, LockedKept DEF SockInv, Only
<1>12. Linked'
  BY <1>2, <1>4, <1>7, <1>10, LinkedKept DEF SockInv, Only, TcpMoves, Locking, Linking
<1>13. QED
  BY <1>8, <1>9, <1>11, <1>12 DEF SockInv

\* The socket that is released is in no container.
LEMMA ReleaseKeepsSocks ==
  ASSUME TypeInv, SockInv, NEW t \in Threads, OthersSame(t), Release_Socket(t)
  PROVE  SockInv'
<1>1. ThreadTypes /\ ControlOK /\ StateTypes
  BY DEF TypeInv
<1> DEFINE s == held[t]
<1>2. /\ pc[t] = "stop" /\ s # 0 /\ s \in Socks
      /\ sk' = [sk EXCEPT ![s] = [tcp |-> "released", user |-> "none"]]
      /\ \E x \in {"init", "free"} : pc' = [pc EXCEPT ![t] = x]
      /\ held' = [held EXCEPT ![t] = 0]
      /\ UNCHANGED <<job, cur, rel, dnc>>
  BY <1>1 DEF Release_Socket, Uses, At, AfterDrop, ThreadTypes
<1>3. \A d \in Dncs : dnc[d].sock # s
  BY <1>2 DEF SockInv, Owned
<1> HIDE DEF s
<1>4. sk'[s].tcp = "released" /\ \A r \in Socks \ {s} : sk'[r] = sk[r]
  BY <1>1, <1>2 DEF StateTypes
<1>5. held'[t] = 0 /\ pc'[t] \in {"init", "free"}
  BY <1>1, <1>2 DEF ThreadTypes
<1>6. (\A u \in Threads : HoldsOn(u)) /\ (\A w \in Workers : Stays(w))
  BY <1>5, ForAllThreads DEF HoldsOn, Stays, Locking
<1>7. \A d \in Dncs : dnc[d].sock \in Socks \cup {0}
  BY <1>1, Contents
<1>8. Owned'
  <2>1. SUFFICES ASSUME NEW e \in Dncs, NEW r, dnc[e].sock = r, r # 0
                 PROVE  /\ sk'[r].tcp \notin {"unused", "released"}
                        /\ \A f \in Dncs : dnc[f].sock = r => f = e
                        /\ \A u \in Threads : pc'[u] = "stop" => held'[u] # r
    BY <1>2 DEF Owned
  <2>2. /\ sk[r].tcp \notin {"unused", "released"}
        /\ \A f \in Dncs : dnc[f].sock = r => f = e
        /\ \A u \in Threads : pc[u] = "stop" => held[u] # r
    BY <2>1 DEF SockInv, Owned
  <2>3. r \in Socks \ {s}
    BY <1>3, <1>7, <2>1
  <2>4. QED
    BY <1>4, <1>6, <2>1, <2>2, <2>3 DEF HoldsOn
<1>9. Used'
  <2>1. SUFFICES ASSUME NEW u \in Threads, NEW r, held'[u] = r, r # 0 PROVE sk'[r].tcp # "unused"
    BY DEF Used
  <2>2. held[u] = r /\ r \in Socks /\ sk[r].tcp # "unused"
    BY <1>1, <1>6, <2>1 DEF HoldsOn, SockInv, Used, ThreadTypes
  <2>3. QED
    BY <1>4, <2>2
<1>10. Locked'
  BY <1>2, <1>6, LockedKept DEF SockInv
<1>11. Linked'
  <2>1. SUFFICES ASSUME NEW w \in Workers, pc'[w] \in Linking
                 PROVE  /\ dnc'[cur'[w]].sock # 0
                        /\ sk'[dnc'[cur'[w]].sock].tcp \in {"established", "fin", "shut"}
    BY DEF Linked
  <2>2. PICK r : r = dnc[cur[w]].sock
    OBVIOUS
  <2>3. cur'[w] = cur[w] /\ pc[w] \in Linking /\ dnc' = dnc
    BY <1>2, <1>6, <2>1 DEF Stays, Locking, Linking
  <2>4. cur[w] \in Dncs
    BY <2>3, LockingWorker DEF Locking, Linking
  <2>5. r # 0 /\ sk[r].tcp \in {"established", "fin", "shut"} /\ r \in Socks \ {s}
    BY <1>3, <1>7, <2>2, <2>3, <2>4 DEF SockInv, Linked
  <2>6. QED
    BY <1>4, <2>2, <2>3, <2>5
<1>12. QED
  BY <1>8, <1>9, <1>10, <1>11 DEF SockInv

LEMMA StepKeepsSocks ==
  ASSUME TypeInv, SockInv, NEW t \in Threads, Step(t)
  PROVE  SockInv'
<1> USE PointsAre
<1>1. ThreadTypes /\ ControlOK /\ StateTypes /\ OthersSame(t)
  BY StepKeepsThreads DEF TypeInv
<1>2. CASE Use_Freed(t) \/ Release_Null(t)
  <2>1. UNCHANGED <<dnc, sk>> /\ HoldsOn(t) /\ Stays(t)
    BY <1>2 DEF Use_Freed, Release_Null, Crash, tvars, HoldsOn, Stays
  <2>2. QED
    BY <1>1, <2>1, QuietSocksOf
<1>3. CASE Build_Connection(t) \/ Destroy_by_Index(t) \/ Release_DMS_Node_Container(t)
           \/ Flush_Workqueue(t) \/ Free_DMS_Node_Container(t)
  <2>1. /\ UNCHANGED <<dnc, sk>> /\ pc[t] # "builder"
        /\ \/ \E x \in {"schedule", "relock", "cancel", "disconnect", "free"} : Goto(t, x)
           \/ Finish(t)
           \/ \E d : Release(t, d) /\ UNCHANGED <<cur, held>>
    BY <1>3 DEF Build_Connection, Destroy_by_Index, Release_DMS_Node_Container, Flush_Workqueue,
                Free_DMS_Node_Container, Uses, At
  <2>2. HoldsOn(t) /\ Stays(t)
    <3>1. CASE \E d : Release(t, d) /\ UNCHANGED <<cur, held>>
      BY <1>1, <3>1 DEF Release, HoldsOn, Stays, Locking, ThreadTypes
    <3>2. CASE \E x \in {"schedule", "relock", "cancel", "disconnect", "free"} : Goto(t, x)
      BY <3>2, QuietSocksGoto DEF Locking
    <3>3. QED
      BY <2>1, <3>1, <3>2, QuietSocksFinish
  <2>3. QED
    BY <1>1, <2>1, <2>2, QuietSocksOf
<1>4. CASE Schedule_to_Node_Builder_Workq(t)
  <2>1. pc[t] = "schedule" /\ cur[t] \in Dncs
    BY <1>1, <1>4, SomeTarget DEF Schedule_to_Node_Builder_Workq, Uses, At
  <2>2. /\ dnc' = dnc \/ dnc' = Queued(cur[t])
        /\ UNCHANGED sk
        /\ \/ \E x \in {"relock", "building", "clean"} : Goto(t, x)
           \/ Finish(t)
    BY <1>4 DEF Schedule_to_Node_Builder_Workq
  <2>3. HoldsOn(t) /\ Stays(t)
    BY <2>1, <2>2, QuietSocksGoto, QuietSocksFinish DEF Locking
  <2>4. dnc' = dnc \/ \E d \in Dncs : Only(d) /\ KeepsSock(d) /\ KeepsLock(d)
    BY <1>1, <2>1, <2>2, StoredQueued
  <2>5. QED
    BY <1>1, <2>2, <2>3, <2>4, QuietSocksOf
<1>5. CASE Set_Building(t)
  <2>1. /\ cur[t] \in Dncs /\ dnc' = [dnc EXCEPT ![cur[t]].status = "BUILDING"]
        /\ pc[t] = "building" /\ Finish(t) /\ UNCHANGED sk
    BY <1>1, <1>5, SomeTarget DEF Set_Building, Uses, At
  <2>2. Only(cur[t]) /\ KeepsSock(cur[t]) /\ KeepsLock(cur[t])
    BY <1>1, <2>1, StoredStatus
  <2>3. HoldsOn(t) /\ Stays(t)
    BY <2>1, QuietSocksFinish
  <2>4. QED
    BY <1>1, <2>1, <2>2, <2>3, QuietSocksOf
<1>6. CASE Cancel_from_Node_Builder_Workq(t)
  <2>1. rel[t] \in Dncs
    BY <1>1, <1>6, SomeTarget DEF Cancel_from_Node_Builder_Workq, Uses, At, Releases
  <2>2. /\ dnc' = dnc \/ \E v \in {"none", "timer", "queue"} : dnc' = [dnc EXCEPT ![rel[t]].work = v]
        /\ Goto(t, "flush") \/ Goto(t, "disconnect")
        /\ UNCHANGED sk
    <3>1. dnc[rel[t]].work \in {"none", "timer", "queue"}
      BY <1>1, <2>1, Contents
    <3>2. QED
      BY <1>6, <3>1 DEF Cancel_from_Node_Builder_Workq
  <2>3. dnc' = dnc \/ \E d \in Dncs : Only(d) /\ KeepsSock(d) /\ KeepsLock(d)
    BY <1>1, <2>1, <2>2, StoredWork
  <2>4. HoldsOn(t) /\ Stays(t)
    BY <2>2, QuietSocksGoto DEF Locking
  <2>5. QED
    BY <1>1, <2>2, <2>3, <2>4, QuietSocksOf
<1>7. CASE Set_Disconnected(t)
  <2>1. /\ Target(t) \in Dncs /\ dnc' = [dnc EXCEPT ![Target(t)].status = "DISCONNECTED"]
        /\ \E x \in {"take", "init", "free"} : Goto(t, x)
        /\ UNCHANGED sk
    BY <1>1, <1>7, SomeTarget DEF Set_Disconnected, Uses, At, Drops, AfterDrop
  <2>2. Only(Target(t)) /\ KeepsSock(Target(t)) /\ KeepsLock(Target(t))
    BY <1>1, <2>1, StoredStatus
  <2>3. HoldsOn(t) /\ Stays(t)
    BY <2>1, QuietSocksGoto DEF Locking
  <2>4. QED
    BY <1>1, <2>1, <2>2, <2>3, QuietSocksOf
<1>8. CASE Take_Socket(t)
  BY <1>1, <1>8, TakeKeepsSocks
<1>9. CASE Release_Socket(t)
  BY <1>1, <1>9, ReleaseKeepsSocks
<1>10. QED
  BY <1>2, <1>3, <1>4, <1>5, <1>6, <1>7, <1>8, <1>9 DEF Step

LEMMA ProcStepKeepsSocks ==
  ASSUME TypeInv, SockInv, NEW p \in Procs, ProcStep(p)
  PROVE  SockInv'
<1> USE PointsAre
<1>1. ThreadTypes /\ ControlOK /\ StateTypes /\ OthersSame(p) /\ p \in Threads
  BY ProcStepKeepsThreads DEF TypeInv, Threads
<1>2. CASE Set_Index(p)
  <2>1. /\ cur[p] \in Dncs /\ at[p] \in Nodes /\ dnc' = [dnc EXCEPT ![cur[p]].index = at[p]]
        /\ Goto(p, "build") /\ UNCHANGED sk
    BY <1>1, <1>2, SomeTarget DEF Set_Index, Uses, At, ControlOK, Control
  <2>2. Only(cur[p]) /\ KeepsSock(cur[p]) /\ KeepsLock(cur[p])
    BY <1>1, <2>1, StoredIndex
  <2>3. HoldsOn(p) /\ Stays(p)
    BY <1>1, <2>1, QuietSocksGoto DEF Locking
  <2>4. QED
    BY <1>1, <2>1, <2>2, <2>3, QuietSocksOf
<1>3. CASE Occupy_One_Index(p)
  <2>1. /\ UNCHANGED <<dnc, sk>> /\ pc[p] # "builder"
        /\ Finish(p) \/ (pc' = [pc EXCEPT ![p] = "index"] /\ UNCHANGED held)
    BY <1>3 DEF Occupy_One_Index, Begin, Uses, At
  <2>2. HoldsOn(p) /\ Stays(p)
    <3>1. CASE Finish(p)
      BY <1>1, <2>1, <3>1, QuietSocksFinish
    <3>2. CASE pc' = [pc EXCEPT ![p] = "index"] /\ UNCHANGED held
      BY <1>1, <3>2 DEF HoldsOn, Stays, Locking, ThreadTypes
    <3>3. QED
      BY <2>1, <3>1, <3>2
  <2>3. QED
    BY <1>1, <2>1, <2>2, QuietSocksOf
<1>4. CASE Check_Connected(p) \/ Sock_Xmit(p)
  <2>1. /\ UNCHANGED <<dnc, sk>> /\ pc[p] # "builder"
        /\ Goto(p, "xmit") \/ Finish(p) \/ Same(p)
    BY <1>4 DEF Check_Connected, Sock_Xmit, Crash, tvars, Same, Uses, At
  <2>2. HoldsOn(p) /\ Stays(p)
    <3>1. CASE Same(p)
      BY <3>1 DEF Same, HoldsOn, Stays
    <3>2. QED
      BY <1>1, <2>1, <3>1, QuietSocksGoto, QuietSocksFinish DEF Locking
  <2>3. QED
    BY <1>1, <2>1, <2>2, QuietSocksOf
<1>5. CASE Load_Socket(p)
  <2>1. CASE UNCHANGED tvars
    <3>1. UNCHANGED <<dnc, sk>> /\ HoldsOn(p) /\ Stays(p)
      BY <1>5, <2>1 DEF Load_Socket, Crash, tvars, HoldsOn, Stays
    <3>2. QED
      BY <1>1, <3>1, QuietSocksOf
  <2>2. CASE /\ pc' = [pc EXCEPT ![p] = "sending"] /\ UNCHANGED cur
             /\ held' = [held EXCEPT ![p] = dnc[cur[p]].sock]
    <3>1. /\ pc'[p] = "sending" /\ held'[p] = dnc[cur[p]].sock /\ cur[p] \in Dncs
          /\ UNCHANGED <<dnc, sk>>
      BY <1>1, <1>5, <2>2, SomeTarget DEF Load_Socket, Crash, Uses, At, ThreadTypes
    <3>2. \A u \in Threads \ {p} : pc'[u] = pc[u] /\ held'[u] = held[u] /\ cur'[u] = cur[u]
      BY <1>1 DEF OthersSame, Same
    <3>3. \A u \in Threads : pc'[u] = "stop" => pc[u] = "stop" /\ held'[u] = held[u]
      BY <3>1, <3>2
    <3>4. Owned'
      <4>1. SUFFICES ASSUME NEW e \in Dncs, dnc[e].sock # 0
                     PROVE  /\ sk[dnc[e].sock].tcp \notin {"unused", "released"}
                            /\ \A f \in Dncs : dnc[f].sock = dnc[e].sock => f = e
                            /\ \A u \in Threads : pc'[u] = "stop" => held'[u] # dnc[e].sock
        BY <3>1 DEF Owned
      <4>2. QED
        BY <3>3, <4>1 DEF SockInv, Owned
    <3>5. Used'
      BY <3>1, <3>2 DEF SockInv, Used, Owned
    <3>6. \A w \in Workers : Stays(w)
      BY <3>1, <3>2 DEF Stays, Locking, Linking, Threads
    <3>7. Locked' /\ Linked'
      BY <3>1, <3>6, LockedKept, LinkedKept DEF SockInv, TcpMoves
    <3>8. QED
      BY <3>4, <3>5, <3>7 DEF SockInv
  <2>3. QED
    BY <1>5, <2>1, <2>2 DEF Load_Socket, Crash
<1>6. CASE Release_Next(p) \/ Release_Node_Builder(p)
  <2>1. /\ UNCHANGED <<dnc, sk, held, cur>>
        /\ \/ \E d : Release(p, d)
           \/ pc' = [pc EXCEPT ![p] = "builder"]
           \/ pc' = [pc EXCEPT ![p] = "idle"]
           \/ pc' = pc
    BY <1>6 DEF Release_Next, Release_Node_Builder
  <2>2. HoldsOn(p) /\ Stays(p)
    BY <1>1, <2>1 DEF Release, HoldsOn, Stays, Locking, ThreadTypes
  <2>3. QED
    BY <1>1, <2>1, <2>2, QuietSocksOf
<1>7. QED
  BY <1>2, <1>3, <1>4, <1>5, <1>6 DEF ProcStep

LEMMA HandlerStepKeepsSocks ==
  ASSUME TypeInv, TypeInv', SockInv, NEW w \in Workers, HandlerStep(w)
  PROVE  SockInv'
<1> USE PointsAre
<1> DEFINE d == cur[w]
<1>1. ThreadTypes /\ ControlOK /\ StateTypes /\ OthersSame(w) /\ w \in Threads
  BY HandlerStepKeepsThreads DEF TypeInv, Threads
<1>2. d \in Dncs /\ pc[w] # "builder"
  BY <1>1, SomeTarget
  DEF HandlerStep, Node_Connection_Handler, Lock_for_Connect, Connect_OK, Connect_Fails,
      Connect_Again, Register_Callbacks, Set_Connected, Relock, Rebuild_Init, Uses, At
<1>3. ASSUME dnc[d].lock = "none" PROVE \A v \in Workers : pc[v] \in Locking => cur[v] # d
  BY <1>3, LockingWorker DEF SockInv, Locked
<1>4. CASE Node_Connection_Handler(w)
  <2>1. \/ UNCHANGED <<sk, dnc>>
        \/ dnc[d].lock = "none" /\ \E s \in Socks : NewSocket(d, s) /\ dnc' = [dnc EXCEPT ![d].sock = s]
    BY <1>4 DEF Node_Connection_Handler, Unlocked
  <2>2. HoldsOn(w) /\ Stays(w)
    <3>1. Goto(w, "lock") \/ Finish(w)
      BY <1>4 DEF Node_Connection_Handler
    <3>2. QED
      BY <1>1, <1>2, <3>1, QuietSocksGoto, QuietSocksFinish DEF Locking
  <2> HIDE DEF d
  <2>3. CASE UNCHANGED <<sk, dnc>>
    BY <1>1, <2>2, <2>3, QuietSocksOf
  <2>4. ASSUME dnc[d].lock = "none", NEW s \in Socks, NewSocket(d, s), dnc' = [dnc EXCEPT ![d].sock = s]
        PROVE  SockInv'
    BY <1>1, <1>2, <1>3, <2>2, <2>4, StoredSock, SocketAdded
  <2>5. QED
    BY <2>1, <2>3, <2>4
<1>5. CASE Lock_for_Connect(w)
  <2>1. /\ dnc[d].lock = "none" /\ dnc' = [dnc EXCEPT ![d].lock = w] /\ UNCHANGED sk
        /\ Goto(w, "connect")
    BY <1>5 DEF Lock_for_Connect, LockFor, Unlocked
  <2>2. /\ pc'[w] = "connect" /\ cur'[w] = d /\ held'[w] = held[w]
    BY <1>1, <2>1, Going
  <2>3. Only(d) /\ dnc'[d].lock = w /\ KeepsSock(d)
    BY <1>1, <1>2, <2>1, StoredLock
  <2>4. /\ \A u \in Workers \ {w} : pc'[u] = pc[u] /\ cur'[u] = cur[u]
        /\ \A u \in Threads : HoldsOn(u)
    BY <1>1, <2>2 DEF OthersSame, Same, HoldsOn, Threads
  <2>5. SocksKept /\ TcpMoves
    BY <2>1, <2>3 DEF Only, KeepsSock, SocksKept, TcpMoves
  <2>6. \A u \in Workers \ {w} : pc[u] \in Locking => cur[u] \in Dncs \ {d}
    BY <1>3, <2>1, LockingWorker
  <2>7. Locked'
    BY <2>2, <2>3, <2>4, <2>6 DEF SockInv, Locked, Only
  <2>8. Linked'
    BY <2>1, <2>2, <2>3, <2>4, <2>6 DEF SockInv, Linked, Only, Linking, Locking
  <2>9. QED
    BY <2>4, <2>5, <2>7, <2>8, OwnedKept, UsedKept DEF SockInv
<1>6. CASE Connect_OK(w)
  <2>1. /\ Tcp(d) = "closed" /\ dnc' = dnc /\ sk' = [sk EXCEPT ![dnc[d].sock].tcp = "established"]
        /\ Goto(w, "register") /\ pc[w] = "connect"
    BY <1>6 DEF Connect_OK, Uses, At
  <2>2. PICK s : s = dnc[d].sock
    OBVIOUS
  <2>3. s # 0 /\ s \in Socks /\ sk[s].tcp = "closed"
    BY <1>1, <1>2, <2>1, <2>2, Contents DEF Tcp
  <2>4. sk'[s].tcp = "established" /\ \A r \in Socks \ {s} : sk'[r] = sk[r]
    BY <1>1, <2>1, <2>2, <2>3 DEF StateTypes
  <2>5. TcpMoves /\ SocksKept
    BY <2>1, <2>3, <2>4 DEF TcpMoves, SocksKept
  <2>6. pc'[w] = "register" /\ cur'[w] = d /\ held'[w] = held[w]
    BY <1>1, <2>1, Going
  <2>7. /\ \A u \in Workers \ {w} : pc'[u] = pc[u] /\ cur'[u] = cur[u]
        /\ \A u \in Threads : HoldsOn(u)
    BY <1>1, <2>6 DEF OthersSame, Same, HoldsOn, Threads
  <2>8. Locked'
    BY <2>1, <2>6, <2>7 DEF SockInv, Locked, Locking
  <2>9. Linked'
    <3>1. ASSUME NEW v \in Workers \ {w}, pc'[v] \in Linking
          PROVE  /\ dnc'[cur'[v]].sock # 0
                 /\ sk'[dnc'[cur'[v]].sock].tcp \in {"established", "fin", "shut"}
      <4>1. PICK r : r = dnc[cur[v]].sock
        OBVIOUS
      <4>2. /\ r # 0 /\ sk[r].tcp \in {"established", "fin", "shut"}
            /\ cur[v] \in Dncs /\ cur'[v] = cur[v]
        BY <2>7, <3>1, <4>1, LockingWorker DEF SockInv, Linked, Locking, Linking
      <4>3. r \in Socks \ {s}
        BY <1>1, <2>3, <4>1, <4>2, Contents
      <4>4. QED
        BY <2>1, <2>4, <4>1, <4>2, <4>3
    <3>2. /\ dnc'[cur'[w]].sock # 0
          /\ sk'[dnc'[cur'[w]].sock].tcp \in {"established", "fin", "shut"}
      BY <2>1, <2>2, <2>3, <2>4, <2>6
    <3>3. QED
      BY <3>1, <3>2 DEF Linked
  <2>10. QED
    BY <2>5, <2>7, <2>8, <2>9, OwnedKept, UsedKept DEF SockInv
<1>7. CASE Connect_Fails(w) \/ Connect_Again(w) \/ Set_Connected(w)
  <2>1. /\ pc[w] \in Locking /\ UNCHANGED sk /\ (Goto(w, "schedule") \/ Finish(w))
    BY <1>7 DEF Connect_Fails, Connect_Again, Set_Connected, Uses, At, Locking
  <2>2. HoldsOn(w) /\ pc'[w] \notin Locking
    <3>1. CASE Goto(w, "schedule")
      BY <1>1, <3>1, Going DEF HoldsOn, Locking
    <3>2. CASE Finish(w)
      BY <1>1, <1>2, <3>2, Finishing DEF HoldsOn, Locking
    <3>3. QED
      BY <2>1, <3>1, <3>2
  <2>3. Only(d) /\ KeepsSock(d)
    <3>1. CASE dnc' = Unlock(d)
      BY <1>1, <1>2, <3>1, StoredLock DEF Unlock
    <3>2. CASE Set_Connected(w)
      <4>1. StillUp(d) \in BOOLEAN
        BY DEF StillUp
      <4>2. QED
        BY <1>1, <1>2, <3>2, <4>1, StoredConnected DEF Set_Connected
    <3>3. QED
      BY <1>7, <3>1, <3>2 DEF Connect_Fails, Connect_Again
  <2>4. QED
    BY <1>1, <2>1, <2>2, <2>3, UnlockedByOwner
<1>8. CASE Register_Callbacks(w)
  <2>1. /\ UNCHANGED dnc /\ Goto(w, "connected") /\ pc[w] = "register"
        /\ \A s \in Socks : sk'[s].tcp = sk[s].tcp
    BY <1>1, <1>8 DEF Register_Callbacks, Uses, At, StateTypes
  <2>2. pc'[w] = "connected" /\ cur'[w] = d /\ held'[w] = held[w]
    BY <1>1, <2>1, Going
  <2>3. HoldsOn(w) /\ Stays(w) /\ TcpMoves
    BY <2>1, <2>2 DEF HoldsOn, Stays, TcpMoves, Locking, Linking
  <2>4. QED
    BY <1>1, <2>1, <2>3, QuietSocksOf
<1>9. CASE Relock(w)
  <2>1. UNCHANGED <<dnc, sk>> /\ HoldsOn(w) /\ Stays(w)
    BY <1>1, <1>2, <1>9, QuietSocksFinish DEF Relock
  <2>2. QED
    BY <1>1, <2>1, QuietSocksOf
<1>10. CASE Rebuild_Init(w)
  <2>1. /\ dnc[d].lock = "none" /\ Goto(w, "build")
        /\ \/ UNCHANGED <<sk, dnc>>
           \/ \E s \in Socks : NewSocket(d, s) /\ dnc' = [dnc EXCEPT ![d].sock = s, ![d].status = "INIT"]
    BY <1>10 DEF Rebuild_Init, InitState, Unlocked
  <2>2. HoldsOn(w) /\ Stays(w)
    BY <1>1, <2>1, QuietSocksGoto DEF Locking
  <2> HIDE DEF d
  <2>3. ASSUME NEW s \in Socks, NewSocket(d, s), dnc' = [dnc EXCEPT ![d].sock = s, ![d].status = "INIT"]
        PROVE  SockInv'
    BY <1>1, <1>2, <1>3, <2>1, <2>2, <2>3, StoredInit, SocketAdded
  <2>4. QED
    BY <1>1, <2>1, <2>2, <2>3, QuietSocksOf
<1>11. QED
  BY <1>4, <1>5, <1>6, <1>7, <1>8, <1>9, <1>10 DEF HandlerStep

LEMMA CallKeepsSocks ==
  ASSUME TypeInv, TypeInv', TabInv, SockInv, NEW p \in Procs, Call(p)
  PROVE  SockInv'
<1>1. ThreadTypes /\ ControlOK /\ StateTypes /\ OthersSame(p) /\ p \in Threads
  BY CallKeepsThreads DEF TypeInv, Threads
<1>2. ASSUME \E x \in {"occupy", "check", "next", "release"} : pc' = [pc EXCEPT ![p] = x],
             UNCHANGED held
      PROVE  HoldsOn(p) /\ Stays(p)
  BY <1>1, <1>2 DEF HoldsOn, Stays, Locking, ThreadTypes
<1>3. ASSUME NEW a \in Addrs, Create_DMS_Node_Container(p, a) PROVE SockInv'
  <2>1. CASE UNCHANGED <<dnc, sk, tvars>>
    <3>1. HoldsOn(p) /\ Stays(p)
      BY <2>1 DEF tvars, HoldsOn, Stays
    <3>2. QED
      BY <1>1, <2>1, <3>1, QuietSocksOf
  <2>2. ASSUME NEW d \in Dncs, life[d] = "fresh", NEW s \in Socks, NewSocket(d, s),
               dnc' = [dnc EXCEPT ![d] = [Blank(a) EXCEPT !.sock = s, !.status = "INIT"]],
               Begin(p, "build", d, 0, "occupy")
        PROVE  SockInv'
    <3>1. HoldsOn(p) /\ Stays(p)
      BY <1>2, <2>2 DEF Begin
    <3>2. Only(d) /\ dnc'[d].sock = s
      <4>1. StateTypes /\ dnc' = [dnc EXCEPT ![d] = [Blank(a) EXCEPT !.sock = s, !.status = "INIT"]]
        BY <1>1, <2>2
      <4>2. QED
        BY <4>1, StoredBlank
    <3>3. \A w \in Workers : pc[w] \in Locking => cur[w] # d
      BY <2>2 DEF TabInv, Fresh, Threads
    <3>4. QED
      BY <1>1, <2>2, <3>1, <3>2, <3>3, SocketAdded
  <2>3. QED
    BY <1>3, <2>1, <2>2, Creating
<1>4. ASSUME NEW i \in Nodes, Destroy_DMS_Node_Container(p, i) \/ Send_Msg(p, i) PROVE SockInv'
  <2>1. UNCHANGED <<dnc, sk>> /\ HoldsOn(p) /\ Stays(p)
    BY <1>2, <1>4 DEF Destroy_DMS_Node_Container, Send_Msg, Release, Begin
  <2>2. QED
    BY <1>1, <2>1, QuietSocksOf
<1>5. CASE Release_DNCS_Manager(p)
  <2>1. UNCHANGED <<dnc, sk>> /\ HoldsOn(p) /\ Stays(p)
    BY <1>2, <1>5 DEF Release_DNCS_Manager, Begin
  <2>2. QED
    BY <1>1, <2>1, QuietSocksOf
<1>6. QED
  BY <1>3, <1>4, <1>5 DEF Call

LEMMA RunWorkKeepsSocks ==
  ASSUME TypeInv, SockInv, NEW w \in Workers, NEW d \in Dncs, Run_Work(w, d)
  PROVE  SockInv'
<1>1. ThreadTypes /\ ControlOK /\ StateTypes /\ OthersSame(w) /\ w \in Threads
  BY RunWorkKeepsThreads DEF TypeInv, Threads
<1>2. /\ dnc' = [dnc EXCEPT ![d].work = "none"] /\ UNCHANGED <<sk, held>>
      /\ \E x \in {"handler", "disconnect"} : pc' = [pc EXCEPT ![w] = x]
  BY DEF Run_Work, Begin
<1>3. HoldsOn(w) /\ Stays(w)
  BY <1>1, <1>2 DEF HoldsOn, Stays, Locking, ThreadTypes
<1>4. Only(d) /\ KeepsSock(d) /\ KeepsLock(d)
  BY <1>1, <1>2, StoredWork
<1>5. QED
  BY <1>1, <1>2, <1>3, <1>4, QuietSocksOf

LEMMA KernelKeepsSocks ==
  ASSUME TypeInv, SockInv,
         \/ \E d \in Dncs : Timer(d) \/ Run_Freed(d)
         \/ \E s \in Socks : Lose_Unnoticed(s) \/ Socket_State_Change(s) \/ State_Change_Fault(s)
         \/ UNCHANGED vars
  PROVE  SockInv'
<1>1. StateTypes
  BY DEF TypeInv
<1>2. (\A t \in Threads : HoldsOn(t)) /\ (\A w \in Workers : Stays(w))
  BY KernelKeepsThreads DEF tvars, HoldsOn, Stays, Linking, Locking
<1>3. ASSUME UNCHANGED dnc \/ \E d \in Dncs : Only(d) /\ KeepsSock(d) /\ KeepsLock(d),
             UNCHANGED sk \/ TcpMoves
      PROVE  SockInv'
  <2>1. SocksKept /\ LocksKept
    BY <1>3 DEF Only, KeepsSock, KeepsLock, SocksKept, LocksKept
  <2>2. TcpMoves
    BY <1>3 DEF TcpMoves
  <2>3. QED
    BY <1>2, <2>1, <2>2, QuietSocks
<1>4. ASSUME NEW d \in Dncs, Timer(d) PROVE SockInv'
  <2>1. dnc' = [dnc EXCEPT ![d].work = "queue"] \/ dnc' = dnc
    BY <1>4 DEF Timer, Crash
  <2>2. UNCHANGED sk
    BY <1>4 DEF Timer, Crash
  <2>3. QED
    BY <1>1, <1>3, <2>1, <2>2, StoredWork
<1>5. ASSUME NEW s \in Socks, sk[s].tcp \in Losable, NEW new \in After(sk[s].tcp),
             sk' = [sk EXCEPT ![s].tcp = new]
      PROVE  TcpMoves
  <2>1. sk'[s].tcp = new /\ \A r \in Socks \ {s} : sk'[r] = sk[r]
    BY <1>1, <1>5 DEF StateTypes
  <2>2. QED
    BY <1>5, <2>1 DEF TcpMoves, Losable, After
<1>6. ASSUME NEW s \in Socks, Lose_Unnoticed(s) PROVE SockInv'
  BY <1>3, <1>5, <1>6 DEF Lose_Unnoticed
<1>7. ASSUME NEW s \in Socks, Socket_State_Change(s) PROVE SockInv'
  <2>1. sk[s].user \in Dncs /\ dnc' = Rebuild(sk[s].user)
    BY <1>1, <1>7 DEF Socket_State_Change, StateTypes
  <2>2. Only(sk[s].user) /\ KeepsSock(sk[s].user) /\ KeepsLock(sk[s].user)
    BY <1>1, <2>1, StoredRebuild
  <2>3. TcpMoves
    BY <1>5, <1>7 DEF Socket_State_Change
  <2>4. QED
    BY <1>3, <2>1, <2>2, <2>3
<1>8. ASSUME UNCHANGED <<dnc, sk>> PROVE SockInv'
  BY <1>3, <1>8
<1>9. QED
  BY <1>4, <1>6, <1>7, <1>8 DEF Run_Freed, State_Change_Fault, Crash, vars

LEMMA NextKeepsSocks ==
  ASSUME TypeInv, TabInv, SockInv, [Next]_vars
  PROVE  SockInv'
<1>1. TypeInv'
  BY NextKeepsTypes
<1>2. QED
  BY <1>1, CallKeepsSocks, ProcStepKeepsSocks, HandlerStepKeepsSocks, RunWorkKeepsSocks, StepKeepsSocks,
     KernelKeepsSocks DEF Next

LEMMA SocksHold == Spec => [](TypeInv /\ TabInv /\ SockInv)
<1>1. Init => SockInv
  BY DEF Init, SockInv, Owned, Used, Locked, Linked, Locking, Linking, Blank, Threads
<1>2. TypeInv /\ TabInv /\ SockInv /\ [Next]_vars => SockInv'
  BY NextKeepsSocks
<1>3. QED
  BY <1>1, <1>2, TableHolds, PTL DEF Spec

\* Between the connect and the creation of the receiver, Node_Connection_Handler has a socket
\* that nobody takes out or releases: it has the lock of the container.
THEOREM SocketIsKept == Spec => []HandlerKeepsSocket
<1>1. SockInv => HandlerKeepsSocket
  BY DEF SockInv, Linked, Linking, HandlerKeepsSocket, Tcp
<1>2. QED
  BY <1>1, SocksHold, PTL

-----------------------------------------------------------------------------
(* Where a container is.  Whoever gives a container up finds it by its     *)
(* index; unless it is released already, it is there.                       *)

Placed(d) ==
    \/ dnc[d].index \in Nodes /\ table[dnc[d].index] = d
    \/ \E u \in Threads : rel[u] = d

\* Somebody may still have it queued or give it up.
Works(t) == job[t] # "send" /\ pc[t] \notin {"occupy", "index"}
Touched(d) ==
    \/ dnc[d].work # "none"
    \/ \E s \in Socks : sk[s].user = d
    \/ \E t \in Threads : cur[t] = d /\ Works(t)

TouchedIsPlaced == \A d \in Dncs : life[d] = "live" /\ Touched(d) => Placed(d)
NewIsPlaced ==
    \A t \in Threads : pc[t] = "index" /\ life[cur[t]] = "live" =>
        table[at[t]] = cur[t] \/ \E u \in Threads : rel[u] = cur[t]
PlaceInv == TouchedIsPlaced /\ NewIsPlaced

\* Steps that leave it.
TableMoves ==
    \A i \in Nodes : table'[i] = table[i] \/ table[i] = "none" \/ \E u \in Threads : rel'[u] = table[i]
LifeMoves == \A d \in Dncs : life'[d] = life[d] \/ life'[d] = "freed"
IndexKept == \A d \in Dncs : dnc'[d].index = dnc[d].index
WorkOfTouched == \A d \in Dncs : dnc'[d].work # "none" => Touched(d)
UserOfTouched == \A s \in Socks : sk'[s].user # "none" => Touched(sk'[s].user)
ReleaseGoesOn(t) == rel[t] # "none" => rel'[t] = rel[t] \/ life'[rel[t]] = "freed"
TouchesTouched(t) == cur'[t] # "none" /\ Works(t)' => Touched(cur'[t])
IndexGoesOn(t) == pc'[t] = "index" => pc[t] = "index" /\ cur'[t] = cur[t] /\ at'[t] = at[t]
Quiet(t) == ReleaseGoesOn(t) /\ TouchesTouched(t) /\ IndexGoesOn(t)

LEMMA QuietOthers ==
  ASSUME NEW t \in Threads, OthersSame(t), Quiet(t)
  PROVE  \A u \in Threads : Quiet(u)
<1> SUFFICES ASSUME NEW u \in Threads, u # t PROVE Quiet(u)
  OBVIOUS
<1>1. Same(u)
  BY DEF OthersSame
<1>2. TouchesTouched(u)
  BY <1>1 DEF Same, TouchesTouched, Works, Touched
<1>3. QED
  BY <1>1, <1>2 DEF Same, Quiet, ReleaseGoesOn, IndexGoesOn

LEMMA PlaceKept ==
  ASSUME TypeInv, NEW d \in Dncs, TableMoves, \A t \in Threads : ReleaseGoesOn(t),
         life'[d] = "live"
  PROVE  /\ \A i \in Nodes : table[i] = d => table'[i] = d \/ \E u \in Threads : rel'[u] = d
         /\ (\E u \in Threads : rel[u] = d) => \E u \in Threads : rel'[u] = d
<1>1. d # "none"
  BY ThreadsAssumption
<1>2. \A i \in Nodes : table[i] = d => table'[i] = d \/ \E u \in Threads : rel'[u] = d
  BY <1>1 DEF TableMoves
<1>3. ASSUME NEW u \in Threads, rel[u] = d PROVE rel'[u] = d
  BY <1>1, <1>3 DEF ReleaseGoesOn
<1>4. QED
  BY <1>2, <1>3

LEMMA QuietPlaces ==
  ASSUME TypeInv, PlaceInv, TableMoves, LifeMoves, IndexKept, WorkOfTouched, UserOfTouched,
         \A t \in Threads : Quiet(t)
  PROVE  PlaceInv'
<1>1. (\A t \in Threads : ReleaseGoesOn(t)) /\ ThreadTypes
  BY DEF Quiet, TypeInv
<1>2. TouchedIsPlaced'
  <2>1. SUFFICES ASSUME NEW d \in Dncs, life'[d] = "live", Touched(d)' PROVE Placed(d)'
    BY DEF TouchedIsPlaced
  <2>2. Touched(d) /\ life[d] = "live" /\ d # "none"
    BY <2>1, ThreadsAssumption DEF Touched, WorkOfTouched, UserOfTouched, Quiet, TouchesTouched, LifeMoves
  <2>3. Placed(d)
    BY <2>2 DEF PlaceInv, TouchedIsPlaced
  <2>4. dnc'[d].index = dnc[d].index
    BY DEF IndexKept
  <2>5. QED
    BY <1>1, <2>1, <2>3, <2>4, PlaceKept DEF Placed
<1>3. NewIsPlaced'
  <2>1. SUFFICES ASSUME NEW t \in Threads, pc'[t] = "index", life'[cur'[t]] = "live"
                 PROVE  table'[at'[t]] = cur'[t] \/ \E u \in Threads : rel'[u] = cur'[t]
    BY DEF NewIsPlaced
  <2>2. pc[t] = "index" /\ cur'[t] = cur[t] /\ at'[t] = at[t]
    BY <2>1 DEF Quiet, IndexGoesOn
  <2>3. PICK d \in Dncs : d = cur[t]
    BY <2>2, SomeTarget DEF TypeInv
  <2>4. at[t] \in Nodes
    BY <2>2 DEF TypeInv, ControlOK, Control
  <2>5. life'[d] = "live" /\ life[d] = "live"
    BY <2>1, <2>2, <2>3 DEF LifeMoves
  <2>6. table[at[t]] = d \/ \E u \in Threads : rel[u] = d
    BY <2>2, <2>3, <2>5 DEF PlaceInv, NewIsPlaced
  <2>7. QED
    BY <1>1, <2>2, <2>3, <2>4, <2>5, <2>6, PlaceKept
<1>4. QED
  BY <1>2, <1>3 DEF PlaceInv

LEMMA QuietPlacesOf ==
  ASSUME TypeInv, PlaceInv, NEW t \in Threads, OthersSame(t), Quiet(t),
         UNCHANGED table \/ TableMoves, UNCHANGED life \/ LifeMoves,
         \/ UNCHANGED dnc
         \/ \E d \in Dncs : Only(d) /\ KeepsIndex(d) /\ (KeepsWork(d) \/ dnc'[d].work = "none" \/ Touched(d)),
         (\A s \in Socks : sk'[s].user \in {sk[s].user, "none"}) \/ UserOfTouched
  PROVE  PlaceInv'
<1>1. TableMoves /\ LifeMoves
  BY DEF TableMoves, LifeMoves
<1>2. IndexKept /\ WorkOfTouched
  BY DEF IndexKept, WorkOfTouched, Only, KeepsIndex, KeepsWork, Touched
<1>3. UserOfTouched
  BY DEF UserOfTouched, Touched
<1>4. QED
  BY <1>1, <1>2, <1>3, QuietOthers, QuietPlaces

LEMMA PlacesGoto ==
  ASSUME TypeInv, NEW t \in Threads, NEW there \in Points, Goto(t, there), there # "index",
         pc[t] \notin {"occupy", "index"}
  PROVE  Quiet(t)
<1>1. /\ pc'[t] = there /\ job'[t] = job[t] /\ cur'[t] = cur[t] /\ rel'[t] = rel[t]
  BY Going DEF TypeInv
<1>2. QED
  BY <1>1 DEF Quiet, ReleaseGoesOn, TouchesTouched, IndexGoesOn, Works, Touched

LEMMA PlacesFinish ==
  ASSUME TypeInv, NEW t \in Threads, Finish(t), pc[t] # "builder",
         rel[t] = "none" \/ life'[rel[t]] = "freed"
  PROVE  Quiet(t)
<1>1. Control(t)
  BY DEF TypeInv, ControlOK
<1>2. /\ pc'[t] \in {"relock", "next", "idle"}
      /\ \/ cur'[t] = "none"
         \/ cur'[t] = cur[t] /\ job'[t] = job[t] /\ pc[t] \notin {"occupy", "index"}
  BY <1>1, Finishing DEF TypeInv, Control
<1>3. QED
  BY <1>2 DEF Quiet, ReleaseGoesOn, TouchesTouched, IndexGoesOn, Works, Touched

\* A container's worker that is under way has it.
LEMMA WorksOn ==
  ASSUME NEW t \in Threads, Works(t), cur[t] # "none"
  PROVE  Touched(cur[t])
BY DEF Touched

LEMMA StepKeepsPlaces ==
  ASSUME TypeInv, PlaceInv, NEW t \in Threads, Step(t)
  PROVE  PlaceInv'
<1> USE PointsAre
<1>1. ThreadTypes /\ ControlOK /\ StateTypes /\ OthersSame(t) /\ Control(t)
  BY StepKeepsThreads DEF TypeInv, ControlOK
<1>2. CASE Use_Freed(t) \/ Release_Null(t)
  <2>1. UNCHANGED <<table, life, dnc, sk>> /\ Quiet(t)
    BY <1>2 DEF Use_Freed, Release_Null, Crash, tvars, Quiet, ReleaseGoesOn, TouchesTouched,
                IndexGoesOn, Works, Touched
  <2>2. QED
    BY <1>1, <2>1, QuietPlacesOf
<1>3. CASE Build_Connection(t)
  <2>1. /\ UNCHANGED <<table, life, dnc, sk>> /\ pc[t] = "build" /\ rel[t] = "none"
        /\ Goto(t, "schedule") \/ Finish(t)
    BY <1>1, <1>3, SomeTarget DEF Build_Connection, Uses, At
  <2>2. Quiet(t)
    BY <2>1, PlacesGoto, PlacesFinish
  <2>3. QED
    BY <1>1, <2>1, <2>2, QuietPlacesOf
<1>4. CASE Schedule_to_Node_Builder_Workq(t)
  <2>1. pc[t] = "schedule" /\ cur[t] \in Dncs /\ rel[t] = "none"
    BY <1>1, <1>4, SomeTarget DEF Schedule_to_Node_Builder_Workq, Uses, At
  <2>2. /\ dnc' = dnc \/ dnc' = Queued(cur[t])
        /\ UNCHANGED <<table, life, sk>>
        /\ \/ \E x \in {"relock", "building", "clean"} : Goto(t, x)
           \/ Finish(t)
    BY <1>4 DEF Schedule_to_Node_Builder_Workq
  <2>3. Quiet(t)
    BY <2>1, <2>2, PlacesGoto, PlacesFinish
  <2>4. Touched(cur[t])
    BY <1>1, <2>1 DEF Touched, Works, Control
  <2>5. QED
    BY <1>1, <2>1, <2>2, <2>3, <2>4, StoredQueued, QuietPlacesOf
<1>5. CASE Set_Building(t)
  <2>1. /\ cur[t] \in Dncs /\ rel[t] = "none" /\ dnc' = [dnc EXCEPT ![cur[t]].status = "BUILDING"]
        /\ pc[t] = "building" /\ Finish(t) /\ UNCHANGED <<table, life, sk>>
    BY <1>1, <1>5, SomeTarget DEF Set_Building, Uses, At
  <2>2. Quiet(t)
    BY <2>1, PlacesFinish
  <2>3. QED
    BY <1>1, <2>1, <2>2, StoredStatus, QuietPlacesOf
<1>6. CASE Destroy_by_Index(t)
  <2>1. pc[t] = "clean" /\ rel[t] = "none" /\ UNCHANGED <<life, dnc, sk>>
    BY <1>1, <1>6, SomeTarget DEF Destroy_by_Index, Uses, At
  <2>2. CASE UNCHANGED table /\ (Goto(t, "relock") \/ Finish(t))
    <3>1. Quiet(t)
      BY <2>1, <2>2, PlacesGoto, PlacesFinish
    <3>2. QED
      BY <1>1, <2>1, <2>2, <3>1, QuietPlacesOf
  <2>3. ASSUME NEW i \in Nodes, Clean_One_Index(i), Release(t, table[i]), UNCHANGED <<job, cur, at, held>>
        PROVE  PlaceInv'
    <3>1. pc'[t] = "release" /\ rel'[t] = table[i]
      BY <1>1, <2>3 DEF Release, ThreadTypes
    <3>2. TableMoves
      BY <1>1, <2>3, <3>1 DEF TableMoves, Clean_One_Index, StateTypes
    <3>3. Quiet(t)
      BY <2>1, <2>3, <3>1 DEF Quiet, ReleaseGoesOn, TouchesTouched, IndexGoesOn, Works, Touched
    <3>4. QED
      BY <1>1, <2>1, <3>2, <3>3, QuietPlacesOf
  <2>4. QED
    BY <1>6, <2>2, <2>3 DEF Destroy_by_Index
<1>7. CASE Release_DMS_Node_Container(t) \/ Flush_Workqueue(t)
  <2>1. /\ UNCHANGED <<table, life, dnc, sk>> /\ pc[t] \in {"release", "flush"}
        /\ \E x \in {"cancel", "disconnect", "free"} : Goto(t, x)
    BY <1>7 DEF Release_DMS_Node_Container, Flush_Workqueue, Uses, At
  <2>2. Quiet(t)
    BY <2>1, PlacesGoto
  <2>3. QED
    BY <1>1, <2>1, <2>2, QuietPlacesOf
<1>8. CASE Cancel_from_Node_Builder_Workq(t)
  <2>1. rel[t] \in Dncs /\ pc[t] = "cancel"
    BY <1>1, <1>8, SomeTarget DEF Cancel_from_Node_Builder_Workq, Uses, At, Releases
  <2>2. /\ dnc' = dnc \/ dnc' = [dnc EXCEPT ![rel[t]].work = "none"]
        /\ Goto(t, "flush") \/ Goto(t, "disconnect")
        /\ UNCHANGED <<table, life, sk>>
    <3>1. dnc[rel[t]] = [dnc[rel[t]] EXCEPT !.work = @]
      BY <1>1, <2>1 DEF StateTypes
    <3>2. [dnc EXCEPT ![rel[t]].work = @] = dnc
      BY <1>1, <2>1, <3>1 DEF StateTypes
    <3>3. QED
      BY <1>8, <3>2 DEF Cancel_from_Node_Builder_Workq
  <2>3. Quiet(t)
    BY <2>1, <2>2, PlacesGoto
  <2>4. QED
    BY <1>1, <2>1, <2>2, <2>3, StoredWork, QuietPlacesOf
<1>9. CASE Set_Disconnected(t)
  <2>1. /\ Target(t) \in Dncs /\ dnc' = [dnc EXCEPT ![Target(t)].status = "DISCONNECTED"]
        /\ \E x \in {"take", "init", "free"} : Goto(t, x)
        /\ UNCHANGED <<table, life, sk>> /\ pc[t] = "disconnect"
    BY <1>1, <1>9, SomeTarget DEF Set_Disconnected, Uses, At, Drops, AfterDrop
  <2>2. Quiet(t)
    BY <2>1, PlacesGoto
  <2>3. QED
    BY <1>1, <2>1, <2>2, StoredStatus, QuietPlacesOf
<1>10. CASE Take_Socket(t)
  <2>1. /\ Target(t) \in Dncs /\ dnc' = [dnc EXCEPT ![Target(t)] = Detached(@)]
        /\ pc' = [pc EXCEPT ![t] = "stop"] /\ UNCHANGED <<job, cur, rel, at, table, life, sk>>
        /\ pc[t] = "take"
    BY <1>1, <1>10, SomeTarget DEF Take_Socket, Uses, At, Drops
  <2>2. Quiet(t)
    BY <1>1, <2>1 DEF Quiet, ReleaseGoesOn, TouchesTouched, IndexGoesOn, Works, Touched, ThreadTypes
  <2>3. QED
    BY <1>1, <2>1, <2>2, StoredDetached, QuietPlacesOf
<1>11. CASE Release_Socket(t)
  <2>1. /\ sk' = [sk EXCEPT ![held[t]] = [tcp |-> "released", user |-> "none"]]
        /\ \E x \in {"init", "free"} : pc' = [pc EXCEPT ![t] = x]
        /\ UNCHANGED <<job, cur, rel, at, table, life, dnc>> /\ pc[t] = "stop"
    BY <1>11 DEF Release_Socket, AfterDrop, Uses, At
  <2>2. \A s \in Socks : sk'[s].user \in {sk[s].user, "none"}
    BY <1>1, <2>1 DEF StateTypes
  <2>3. Quiet(t)
    BY <1>1, <2>1 DEF Quiet, ReleaseGoesOn, TouchesTouched, IndexGoesOn, Works, Touched, ThreadTypes
  <2>4. QED
    BY <1>1, <2>1, <2>2, <2>3, QuietPlacesOf
<1>12. CASE Free_DMS_Node_Container(t)
  <2>1. /\ pc[t] = "free" /\ rel[t] \in Dncs /\ life' = [life EXCEPT ![rel[t]] = "freed"]
        /\ Finish(t) /\ UNCHANGED <<table, dnc, sk>>
    BY <1>1, <1>12, SomeTarget DEF Free_DMS_Node_Container, Uses, At, Releases
  <2>2. life'[rel[t]] = "freed" /\ LifeMoves
    BY <1>1, <2>1 DEF StateTypes, LifeMoves
  <2>3. Quiet(t)
    BY <2>1, <2>2, PlacesFinish
  <2>4. QED
    BY <1>1, <2>1, <2>2, <2>3, QuietPlacesOf
<1>13. QED
  BY <1>2, <1>3, <1>4, <1>5, <1>6, <1>7, <1>8, <1>9, <1>10, <1>11, <1>12 DEF Step

LEMMA OccupyKeepsPlaces ==
  ASSUME TypeInv, PlaceInv, NEW p \in Procs, Occupy_One_Index(p)
  PROVE  PlaceInv'
<1> USE PointsAre
<1>1. /\ ThreadTypes /\ ControlOK /\ StateTypes /\ OthersSame(p) /\ p \in Threads
      /\ pc[p] = "occupy" /\ rel[p] = "none" /\ cur[p] \in Dncs /\ UNCHANGED <<life, dnc, sk>>
  <2>1. p \in Threads /\ ProcStep(p) /\ pc[p] = "occupy" /\ UNCHANGED <<life, dnc, sk>>
    BY DEF Threads, ProcStep, Occupy_One_Index, Uses, At
  <2>2. ThreadTypes /\ ControlOK /\ StateTypes /\ OthersSame(p)
    BY <2>1, ProcStepKeepsThreads DEF TypeInv
  <2>3. QED
    BY <2>1, <2>2, SomeTarget
<1>2. CASE Finish(p) /\ UNCHANGED table
  BY <1>1, <1>2, PlacesFinish, QuietPlacesOf
<1>3. ASSUME NEW i \in Nodes, table[i] = "none",
             table' = [table EXCEPT ![i] = cur[p]], Begin(p, "build", cur[p], i, "index")
      PROVE  PlaceInv'
  <2>1. /\ i \in 0..NNodes + 1
        /\ pc'[p] = "index" /\ job'[p] = "build" /\ cur'[p] = cur[p] /\ rel'[p] = "none" /\ at'[p] = i
    <3>1. i \in 0..NNodes + 1
      BY SizesAssumption DEF Nodes
    <3>2. QED
      BY <1>1, <1>3, <3>1, Beginning
  <2>2. table'[i] = cur[p] /\ \A j \in Nodes \ {i} : table'[j] = table[j]
    BY <1>1, <1>3 DEF StateTypes
  <2>3. TableMoves
    BY <1>3, <2>2 DEF TableMoves
  <2>4. \A u \in Threads : ReleaseGoesOn(u)
    BY <1>1, <2>1 DEF OthersSame, Same, ReleaseGoesOn
  <2>5. TouchedIsPlaced'
    <3>1. SUFFICES ASSUME NEW d \in Dncs, life[d] = "live", Touched(d)' PROVE Placed(d)'
      BY <1>1 DEF TouchedIsPlaced
    <3>2. Touched(d)
      BY <1>1, <2>1, <3>1 DEF Touched, Works, OthersSame, Same
    <3>3. Placed(d)
      BY <3>1, <3>2 DEF PlaceInv, TouchedIsPlaced
    <3>4. QED
      BY <1>1, <2>3, <2>4, <3>1, <3>3, PlaceKept DEF Placed
  <2>6. NewIsPlaced'
    <3>1. SUFFICES ASSUME NEW t \in Threads \ {p}, pc[t] = "index", life[cur[t]] = "live"
                   PROVE  table'[at[t]] = cur[t] \/ \E u \in Threads : rel'[u] = cur[t]
      BY <1>1, <2>1, <2>2 DEF NewIsPlaced, OthersSame, Same
    <3>2. cur[t] \in Dncs /\ at[t] \in Nodes
      BY <1>1, <3>1, SomeTarget DEF ControlOK, Control
    <3>3. table[at[t]] = cur[t] \/ \E u \in Threads : rel[u] = cur[t]
      BY <3>1 DEF PlaceInv, NewIsPlaced
    <3>4. QED
      BY <1>1, <2>3, <2>4, <3>1, <3>2, <3>3, PlaceKept
  <2>7. QED
    BY <2>5, <2>6 DEF PlaceInv
<1>4. QED
  BY <1>2, <1>3 DEF Occupy_One_Index, FreeNodes

\* The index that is stored is where the container is, unless it was given up meanwhile.
LEMMA SetIndexKeepsPlaces ==
  ASSUME TypeInv, PlaceInv, NEW p \in Procs, Set_Index(p)
  PROVE  PlaceInv'
<1> USE PointsAre
<1>1. /\ ThreadTypes /\ ControlOK /\ StateTypes /\ OthersSame(p) /\ p \in Threads
      /\ pc[p] = "index" /\ rel[p] = "none" /\ cur[p] \in Dncs /\ at[p] \in Nodes
      /\ dnc' = [dnc EXCEPT ![cur[p]].index = at[p]] /\ Goto(p, "build")
      /\ UNCHANGED <<table, life, sk>>
  <2>1. p \in Threads /\ ProcStep(p) /\ pc[p] = "index"
        /\ dnc' = [dnc EXCEPT ![cur[p]].index = at[p]] /\ Goto(p, "build")
        /\ UNCHANGED <<table, life, sk>>
    BY DEF Threads, ProcStep, Set_Index, Uses, At
  <2>2. ThreadTypes /\ ControlOK /\ StateTypes /\ OthersSame(p)
    BY <2>1, ProcStepKeepsThreads DEF TypeInv
  <2>3. QED
    BY <2>1, <2>2, SomeTarget DEF ControlOK, Control
<1> DEFINE d == cur[p]
<1>2. Only(d) /\ dnc'[d].index = at[p] /\ KeepsWork(d)
  BY <1>1, StoredIndex
<1>3. pc'[p] = "build" /\ cur'[p] = d /\ \A u \in Threads : rel'[u] = rel[u]
  BY <1>1, Going DEF OthersSame, Same
<1>4. TouchedIsPlaced'
  <2>1. SUFFICES ASSUME NEW e \in Dncs, life[e] = "live", Touched(e)' PROVE Placed(e)'
    BY <1>1 DEF TouchedIsPlaced
  <2>2. CASE e = d
    <3>1. table[at[p]] = e \/ \E u \in Threads : rel[u] = e
      BY <1>1, <2>1, <2>2 DEF PlaceInv, NewIsPlaced
    <3>2. QED
      BY <1>1, <1>2, <1>3, <2>2, <3>1 DEF Placed
  <2>3. CASE e # d
    <3>1. dnc'[e] = dnc[e]
      BY <1>2, <2>3 DEF Only
    <3>2. Touched(e)
      BY <1>1, <1>3, <2>1, <2>3, <3>1 DEF Touched, Works, OthersSame, Same
    <3>3. Placed(e)
      BY <2>1, <3>2 DEF PlaceInv, TouchedIsPlaced
    <3>4. QED
      BY <1>1, <1>3, <3>1, <3>3 DEF Placed
  <2>4. QED
    BY <2>2, <2>3
<1>5. NewIsPlaced'
  BY <1>1, <1>3 DEF PlaceInv, NewIsPlaced, OthersSame, Same
<1>6. QED
  BY <1>4, <1>5 DEF PlaceInv

LEMMA ProcStepKeepsPlaces ==
  ASSUME TypeInv, PlaceInv, NEW p \in Procs, ProcStep(p)
  PROVE  PlaceInv'
<1> USE PointsAre
<1>1. ThreadTypes /\ ControlOK /\ StateTypes /\ OthersSame(p) /\ p \in Threads /\ Control(p)
  BY ProcStepKeepsThreads DEF TypeInv, Threads, ControlOK
<1>2. CASE Check_Connected(p) \/ Load_Socket(p) \/ Sock_Xmit(p)
  <2>1. /\ UNCHANGED <<table, life, dnc, sk>> /\ pc[p] \in {"check", "xmit", "sending"}
        /\ \/ Goto(p, "xmit")
           \/ Finish(p)
           \/ UNCHANGED tvars
           \/ pc' = [pc EXCEPT ![p] = "sending"] /\ UNCHANGED <<job, cur, rel, at>>
    BY <1>2 DEF Check_Connected, Load_Socket, Sock_Xmit, Crash, Uses, At
  <2>2. rel[p] = "none"
    BY <1>1, <2>1, SomeTarget
  <2>3. Quiet(p)
    <3>1. CASE UNCHANGED tvars
      BY <1>1, <3>1 DEF tvars, Quiet, ReleaseGoesOn, TouchesTouched, IndexGoesOn, Works, Touched
    <3>2. CASE pc' = [pc EXCEPT ![p] = "sending"] /\ UNCHANGED <<job, cur, rel, at>>
      BY <1>1, <2>1, <3>2 DEF Quiet, ReleaseGoesOn, TouchesTouched, IndexGoesOn, Works, Touched, ThreadTypes
    <3>3. QED
      BY <1>1, <2>1, <2>2, <3>1, <3>2, PlacesGoto, PlacesFinish
  <2>4. QED
    BY <1>1, <2>1, <2>3, QuietPlacesOf
<1>3. CASE Release_Next(p) \/ Release_Node_Builder(p)
  <2>1. /\ UNCHANGED <<table, life, dnc, sk, cur>> /\ pc[p] \in {"next", "builder"}
        /\ \/ \E d : Release(p, d)
           \/ pc' = [pc EXCEPT ![p] = "builder"]
           \/ pc' = [pc EXCEPT ![p] = "idle"]
           \/ pc' = pc
    BY <1>3 DEF Release_Next, Release_Node_Builder, At
  <2>2. rel[p] = "none" /\ cur[p] = "none"
    BY <1>1, <2>1, IdleThread DEF Control
  <2>3. pc'[p] # "index"
    BY <1>1, <2>1 DEF Release, ThreadTypes
  <2>4. Quiet(p)
    BY <2>1, <2>2, <2>3 DEF Quiet, ReleaseGoesOn, TouchesTouched, IndexGoesOn
  <2>5. QED
    BY <1>1, <2>1, <2>4, QuietPlacesOf
<1>4. QED
  BY <1>2, <1>3, OccupyKeepsPlaces, SetIndexKeepsPlaces DEF ProcStep

LEMMA HandlerStepKeepsPlaces ==
  ASSUME TypeInv, PlaceInv, NEW w \in Workers, HandlerStep(w)
  PROVE  PlaceInv'
<1> USE PointsAre
<1> DEFINE d == cur[w]
<1>1. ThreadTypes /\ ControlOK /\ StateTypes /\ OthersSame(w) /\ w \in Threads /\ Control(w)
  BY HandlerStepKeepsThreads DEF TypeInv, Threads, ControlOK
<1>2. d \in Dncs /\ pc[w] \notin {"builder", "occupy", "index"} /\ rel[w] = "none"
      /\ UNCHANGED <<table, life>> /\ (Finish(w) \/
          \E x \in {"lock", "connect", "register", "schedule", "connected", "build"} : Goto(w, x))
  BY <1>1, SomeTarget
  DEF HandlerStep, Node_Connection_Handler, Lock_for_Connect, Connect_OK, Connect_Fails,
      Connect_Again, Register_Callbacks, Set_Connected, Relock, Rebuild_Init, Uses, At
<1>3. Quiet(w)
  BY <1>1, <1>2, PlacesGoto, PlacesFinish
<1>4. ASSUME dnc' = dnc \/ (Only(d) /\ KeepsIndex(d) /\ KeepsWork(d)),
             (\A s \in Socks : sk'[s].user \in {sk[s].user, "none"}) \/ UserOfTouched
      PROVE  PlaceInv'
  BY <1>1, <1>2, <1>3, <1>4, QuietPlacesOf
<1>5. CASE Node_Connection_Handler(w) \/ Rebuild_Init(w)
  <2>1. \/ UNCHANGED <<sk, dnc>>
        \/ \E s \in Socks : NewSocket(d, s) /\ dnc' = [dnc EXCEPT ![d].sock = s]
        \/ \E s \in Socks : NewSocket(d, s) /\ dnc' = [dnc EXCEPT ![d].sock = s, ![d].status = "INIT"]
    BY <1>5 DEF Node_Connection_Handler, Rebuild_Init, InitState
  <2> HIDE DEF d
  <2>2. \A s \in Socks : sk'[s].user \in {sk[s].user, "none"}
    BY <1>1, <2>1, SocketMade, TwoParts
  <2>3. dnc' = dnc \/ (Only(d) /\ KeepsIndex(d) /\ KeepsWork(d))
    BY <1>1, <1>2, <2>1, StoredSock, StoredInit
  <2>4. QED
    BY <1>4, <2>2, <2>3
<1>6. CASE Lock_for_Connect(w)
  BY <1>1, <1>2, <1>4, <1>6, StoredLock DEF Lock_for_Connect, LockFor
<1>7. CASE Connect_OK(w)
  <2>1. dnc' = dnc /\ \A s \in Socks : sk'[s].user = sk[s].user
    BY <1>1, <1>7 DEF Connect_OK, StateTypes
  <2>2. QED
    BY <1>4, <2>1
<1>8. CASE Connect_Fails(w) \/ Connect_Again(w)
  BY <1>1, <1>2, <1>4, <1>8, StoredLock DEF Connect_Fails, Connect_Again, Unlock
<1>9. CASE Register_Callbacks(w)
  <2>1. dnc' = dnc /\ pc[w] = "register" /\ \A s \in Socks : sk'[s].user \in {sk[s].user, d}
    BY <1>1, <1>2, <1>9 DEF Register_Callbacks, StateTypes, Uses, At
  <2>2. Touched(d)
    BY <1>1, <1>2, <2>1 DEF Touched, Works, Control, Handles
  <2>3. UserOfTouched
    BY <2>1, <2>2 DEF UserOfTouched, Touched
  <2>4. QED
    BY <1>4, <2>1, <2>3
<1>10. CASE Set_Connected(w)
  <2>1. StillUp(d) \in BOOLEAN
    BY DEF StillUp
  <2>2. Only(d) /\ KeepsIndex(d) /\ KeepsWork(d) /\ UNCHANGED sk
    BY <1>1, <1>2, <1>10, <2>1, StoredConnected DEF Set_Connected
  <2>3. QED
    BY <1>4, <2>2
<1>11. CASE Relock(w)
  BY <1>4, <1>11 DEF Relock
<1>12. QED
  BY <1>5, <1>6, <1>7, <1>8, <1>9, <1>10, <1>11 DEF HandlerStep

LEMMA CallKeepsPlaces ==
  ASSUME TypeInv, TabInv, PlaceInv, NEW p \in Procs, Call(p)
  PROVE  PlaceInv'
<1>1. /\ ThreadTypes /\ ControlOK /\ StateTypes /\ p \in Threads /\ OthersSame(p)
      /\ pc[p] = "idle" /\ job[p] = "none" /\ rel[p] = "none" /\ cur[p] = "none"
  <2>1. p \in Threads /\ pc[p] = "idle"
    BY DEF Call, Create_DMS_Node_Container, Destroy_DMS_Node_Container, Send_Msg,
           Release_DNCS_Manager, Idle, At, Threads
  <2>2. QED
    BY <2>1, CallKeepsThreads, IdleThread DEF TypeInv, ControlOK, Control
<1>2. ASSUME NEW a \in Addrs, Create_DMS_Node_Container(p, a) PROVE PlaceInv'
  <2>1. UNCHANGED table
    BY <1>2 DEF Create_DMS_Node_Container
  <2>2. ASSUME NEW d \in Dncs, life' = [life EXCEPT ![d] = "freed"], UNCHANGED <<dnc, sk, tvars>>
        PROVE  PlaceInv'
    <3>1. LifeMoves
      BY <1>1, <2>2 DEF LifeMoves, StateTypes
    <3>2. Quiet(p)
      BY <1>1, <2>2 DEF tvars, Quiet, ReleaseGoesOn, TouchesTouched, IndexGoesOn
    <3>3. QED
      BY <1>1, <2>1, <2>2, <3>1, <3>2, QuietPlacesOf
  <2>3. ASSUME NEW d \in Dncs, life[d] = "fresh", NEW s \in Socks, NewSocket(d, s),
               dnc' = [dnc EXCEPT ![d] = [Blank(a) EXCEPT !.sock = s, !.status = "INIT"]],
               life' = [life EXCEPT ![d] = "live"], Begin(p, "build", d, 0, "occupy")
        PROVE  PlaceInv'
    <3>1. Unknown(d) /\ \A t \in Threads : cur[t] # d
      BY <2>3 DEF TabInv, Fresh
    <3>2. pc'[p] = "occupy" /\ cur'[p] = d /\ rel'[p] = rel[p]
      <4>1. 0 \in 0..NNodes + 1
        BY SizesAssumption
      <4>2. QED
        BY <1>1, <2>3, <4>1, Beginning, PointsAre
    <3>3. \A t \in Threads \ {p} : Same(t)
      BY <1>1 DEF OthersSame
    <3>4. dnc'[d].work = "none" /\ \A e \in Dncs \ {d} : dnc'[e] = dnc[e]
      <4>1. dnc' = [dnc EXCEPT ![d] = [Blank(a) EXCEPT !.sock = s, !.status = "INIT"]] /\ StateTypes
        BY <1>1, <2>3
      <4>2. QED
        BY <4>1, StoredBlank DEF Only
    <3>5. \A r \in Socks : sk'[r].user = sk[r].user
      BY <1>1, <2>3, SocketMade, TwoParts
    <3>6. \A e \in Dncs : life'[e] = IF e = d THEN "live" ELSE life[e]
      BY <1>1, <2>3 DEF StateTypes
    <3>7. TouchedIsPlaced'
      <4>1. SUFFICES ASSUME NEW e \in Dncs, life'[e] = "live", Touched(e)' PROVE Placed(e)'
        BY DEF TouchedIsPlaced
      <4>2. e # d
        BY <3>1, <3>2, <3>3, <3>4, <3>5, <4>1 DEF Touched, Works, Unknown, Same
      <4>3. life[e] = "live" /\ Touched(e)
        BY <3>2, <3>3, <3>4, <3>5, <3>6, <4>1, <4>2 DEF Touched, Works, Same
      <4>4. Placed(e)
        BY <4>3 DEF PlaceInv, TouchedIsPlaced
      <4>5. QED
        BY <2>1, <3>2, <3>3, <3>4, <4>2, <4>4 DEF Placed, Same
    <3>8. NewIsPlaced'
      <4>1. SUFFICES ASSUME NEW t \in Threads \ {p}, pc[t] = "index", life'[cur[t]] = "live"
                     PROVE  table[at[t]] = cur[t] \/ \E u \in Threads : rel'[u] = cur[t]
        BY <2>1, <3>2, <3>3 DEF NewIsPlaced, Same
      <4>2. cur[t] \in Dncs \ {d}
        BY <1>1, <3>1, <4>1, SomeTarget
      <4>3. table[at[t]] = cur[t] \/ \E u \in Threads : rel[u] = cur[t]
        BY <3>6, <4>1, <4>2 DEF PlaceInv, NewIsPlaced
      <4>4. QED
        BY <3>2, <3>3, <4>3 DEF Same
    <3>9. QED
      BY <3>7, <3>8 DEF PlaceInv
  <2>4. QED
    BY <1>2, <2>2, <2>3, Creating
<1>3. ASSUME NEW i \in Nodes, Destroy_DMS_Node_Container(p, i) PROVE PlaceInv'
  <2>1. /\ Clean_One_Index(i) /\ Release(p, table[i]) /\ UNCHANGED <<cur, life, dnc, sk>>
    BY <1>3 DEF Destroy_DMS_Node_Container
  <2>2. rel'[p] = table[i] /\ pc'[p] = "release" /\ TableMoves
    BY <1>1, <2>1 DEF Release, Clean_One_Index, ThreadTypes, StateTypes, TableMoves
  <2>3. Quiet(p)
    BY <1>1, <2>1, <2>2 DEF Quiet, ReleaseGoesOn, TouchesTouched, IndexGoesOn
  <2>4. QED
    BY <1>1, <2>1, <2>2, <2>3, QuietPlacesOf
<1>4. ASSUME NEW i \in Nodes, Send_Msg(p, i) PROVE PlaceInv'
  <2>1. /\ Begin(p, "send", table[i], i, "check")
        /\ UNCHANGED <<table, life, dnc, sk>>
    BY <1>4 DEF Send_Msg
  <2>2. pc'[p] = "check" /\ job'[p] = "send"
    BY <1>1, <2>1 DEF Begin, ThreadTypes
  <2>3. Quiet(p)
    BY <1>1, <2>2 DEF Quiet, ReleaseGoesOn, TouchesTouched, IndexGoesOn, Works
  <2>4. QED
    BY <1>1, <2>1, <2>3, QuietPlacesOf
<1>5. CASE Release_DNCS_Manager(p)
  <2>1. Begin(p, "unload", "none", 0, "next") /\ UNCHANGED <<table, life, dnc, sk>>
    BY <1>5 DEF Release_DNCS_Manager
  <2>2. pc'[p] = "next" /\ cur'[p] = "none"
    BY <1>1, <2>1 DEF Begin, ThreadTypes
  <2>3. Quiet(p)
    BY <1>1, <2>2 DEF Quiet, ReleaseGoesOn, TouchesTouched, IndexGoesOn
  <2>4. QED
    BY <1>1, <2>1, <2>3, QuietPlacesOf
<1>6. QED
  BY <1>2, <1>3, <1>4, <1>5 DEF Call

LEMMA RunWorkKeepsPlaces ==
  ASSUME TypeInv, PlaceInv, NEW w \in Workers, NEW d \in Dncs, Run_Work(w, d)
  PROVE  PlaceInv'
<1>1. ThreadTypes /\ ControlOK /\ StateTypes /\ OthersSame(w) /\ w \in Threads
  BY RunWorkKeepsThreads DEF TypeInv, Threads
<1>2. /\ dnc[d].work = "queue" /\ dnc' = [dnc EXCEPT ![d].work = "none"]
      /\ UNCHANGED <<table, life, sk, rel>> /\ cur' = [cur EXCEPT ![w] = d]
      /\ \E x \in {"handler", "disconnect"} : pc' = [pc EXCEPT ![w] = x]
  BY DEF Run_Work, Begin
<1>3. pc'[w] # "index" /\ cur'[w] = d /\ Touched(d)
  BY <1>1, <1>2 DEF ThreadTypes, Touched
<1>4. Quiet(w)
  BY <1>2, <1>3 DEF Quiet, ReleaseGoesOn, TouchesTouched, IndexGoesOn
<1>5. Only(d) /\ KeepsIndex(d) /\ dnc'[d].work = "none"
  BY <1>1, <1>2, StoredWork
<1>6. QED
  BY <1>1, <1>2, <1>4, <1>5, QuietPlacesOf

LEMMA KernelKeepsPlaces ==
  ASSUME TypeInv, PlaceInv,
         \/ \E d \in Dncs : Timer(d) \/ Run_Freed(d)
         \/ \E s \in Socks : Lose_Unnoticed(s) \/ Socket_State_Change(s) \/ State_Change_Fault(s)
         \/ UNCHANGED vars
  PROVE  PlaceInv'
<1>1. StateTypes /\ UNCHANGED <<table, life>>
  BY DEF TypeInv, Timer, Run_Freed, Lose_Unnoticed, Socket_State_Change, State_Change_Fault, Crash, vars
<1>2. \A t \in Threads : Quiet(t)
  BY KernelKeepsThreads DEF tvars, Quiet, ReleaseGoesOn, TouchesTouched, IndexGoesOn, Works, Touched
<1>3. ASSUME \/ UNCHANGED dnc
             \/ \E d \in Dncs : Only(d) /\ KeepsIndex(d) /\ Touched(d),
             \A s \in Socks : sk'[s].user = sk[s].user
      PROVE  PlaceInv'
  <2>1. TableMoves /\ LifeMoves
    BY <1>1 DEF TableMoves, LifeMoves
  <2>2. IndexKept /\ WorkOfTouched /\ UserOfTouched
    BY <1>3 DEF IndexKept, WorkOfTouched, UserOfTouched, Only, KeepsIndex, Touched
  <2>3. QED
    BY <1>2, <2>1, <2>2, QuietPlaces
<1>4. ASSUME NEW d \in Dncs, Timer(d) PROVE PlaceInv'
  <2>1. /\ dnc[d].work = "timer"
        /\ dnc' = [dnc EXCEPT ![d].work = "queue"] \/ dnc' = dnc
    BY <1>4 DEF Timer, Crash
  <2>2. UNCHANGED sk /\ Touched(d)
    BY <1>4, <2>1 DEF Timer, Crash, Touched
  <2>3. QED
    BY <1>1, <1>3, <2>1, <2>2, StoredWork
<1>5. ASSUME NEW s \in Socks, NEW new, sk' = [sk EXCEPT ![s].tcp = new]
      PROVE  \A r \in Socks : sk'[r].user = sk[r].user
  BY <1>1, <1>5 DEF StateTypes
<1>6. ASSUME NEW s \in Socks, Lose_Unnoticed(s) PROVE PlaceInv'
  BY <1>3, <1>5, <1>6 DEF Lose_Unnoticed
<1>7. ASSUME NEW s \in Socks, Socket_State_Change(s) PROVE PlaceInv'
  <2>1. sk[s].user \in Dncs /\ dnc' = Rebuild(sk[s].user) /\ Touched(sk[s].user)
    BY <1>1, <1>7 DEF Socket_State_Change, StateTypes, Touched
  <2>2. Only(sk[s].user) /\ KeepsIndex(sk[s].user)
    BY <1>1, <2>1, StoredRebuild
  <2>3. \A r \in Socks : sk'[r].user = sk[r].user
    BY <1>5, <1>7 DEF Socket_State_Change
  <2>4. QED
    BY <1>3, <2>1, <2>2, <2>3
<1>8. ASSUME UNCHANGED <<dnc, sk>> PROVE PlaceInv'
  BY <1>3, <1>8
<1>9. QED
  BY <1>4, <1>6, <1>7, <1>8 DEF Run_Freed, State_Change_Fault, Crash, vars

LEMMA NextKeepsPlaces ==
  ASSUME TypeInv, TabInv, PlaceInv, [Next]_vars
  PROVE  PlaceInv'
BY CallKeepsPlaces, ProcStepKeepsPlaces, HandlerStepKeepsPlaces, RunWorkKeepsPlaces, StepKeepsPlaces,
   KernelKeepsPlaces DEF Next

LEMMA PlacesHold == Spec => [](TypeInv /\ TabInv /\ SockInv /\ PlaceInv)
<1>1. Init => PlaceInv
  BY DEF Init, PlaceInv, TouchedIsPlaced, NewIsPlaced
<1>2. TypeInv /\ TabInv /\ PlaceInv /\ [Next]_vars => PlaceInv'
  BY NextKeepsPlaces
<1>3. QED
  BY <1>1, <1>2, SocksHold, PTL DEF Spec

-----------------------------------------------------------------------------
(* Containers that are being built.                                         *)

\* It could be connected, and its status says, or will say, that it is being built.
Needs(d) ==
    /\ life[d] = "live" /\ dnc[d].sock # 0 /\ sk[dnc[d].sock].tcp = "closed"
    /\ dnc[d].status = "BUILDING" \/ \E t \in Threads : pc[t] = "building" /\ cur[t] = d

\* A thread that will have it queued, connect it, take its socket, or miss it knowingly.
Committed(t, d) ==
    \/ rel[t] = d
    \/ /\ rel[t] = "none" /\ cur[t] = d
       /\ \/ pc[t] \in {"schedule", "clean", "handler", "lock", "connect", "disconnect", "take"}
          \/ pc[t] = "build" /\ dnc[d].status \in {"INIT", "BUILDING"}
Answered(d) == dnc[d].work # "none" \/ missed[d] # "no" \/ \E t \in Threads : Committed(t, d)
NeedIsAnswered == \A d \in Dncs : Needs(d) => Answered(d)

\* Sockets that become connectable are new.
SocksClose == \A s \in Socks : sk'[s].tcp = "closed" => sk[s].tcp \in {"closed", "unused"}
BuildsOn(t, d) == pc'[t] = "building" /\ cur'[t] = d => pc[t] = "building" /\ cur[t] = d
StatusKept(t, d) ==
    /\ dnc'[d].status = "BUILDING" => dnc[d].status = "BUILDING" \/ (pc[t] = "building" /\ cur[t] = d)
    /\ dnc[d].status \in {"INIT", "BUILDING"} => dnc'[d].status \in {"INIT", "BUILDING"}

\* A thread's step that leaves a container to the others.
LEMMA LeftToOthers ==
  ASSUME TypeInv, SockInv, NEW t \in Threads, NEW d \in Dncs, OthersSame(t), NeedIsAnswered, SocksClose,
         Needs(d)', life'[d] = "live" => life[d] = "live",
         dnc'[d].sock = dnc[d].sock, BuildsOn(t, d), StatusKept(t, d)
  PROVE  Needs(d) /\ Answered(d)
<1>1. \A u \in Threads \ {t} : pc'[u] = pc[u] /\ cur'[u] = cur[u]
  BY DEF OthersSame, Same
<1>2. PICK s : s = dnc[d].sock
  OBVIOUS
<1>3. s # 0 /\ sk'[s].tcp = "closed" /\ s \in Socks
  BY <1>2, Contents DEF Needs, TypeInv
<1>4. sk[s].tcp = "closed"
  BY <1>2, <1>3 DEF SocksClose, SockInv, Owned
<1>5. Needs(d)
  BY <1>1, <1>2, <1>3, <1>4 DEF Needs, BuildsOn, StatusKept
<1>6. QED
  BY <1>5 DEF NeedIsAnswered

LEMMA OthersCommitted ==
  ASSUME NEW t \in Threads, NEW d \in Dncs, OthersSame(t), NEW u \in Threads \ {t}, Committed(u, d),
         dnc[d].status \in {"INIT", "BUILDING"} => dnc'[d].status \in {"INIT", "BUILDING"}
  PROVE  Committed(u, d)'
BY DEF OthersSame, Same, Committed

LEMMA StillAnswered ==
  ASSUME TypeInv, SockInv, NEW t \in Threads, NEW d \in Dncs, OthersSame(t), NeedIsAnswered, SocksClose,
         Needs(d)', life'[d] = "live" => life[d] = "live",
         dnc'[d].sock = dnc[d].sock, BuildsOn(t, d), StatusKept(t, d),
         dnc[d].work # "none" => dnc'[d].work # "none",
         missed[d] # "no" => missed'[d] # "no",
         Committed(t, d) => Answered(d)'
  PROVE  Answered(d)'
<1>1. Answered(d)
  BY LeftToOthers
<1>2. CASE dnc[d].work # "none" \/ missed[d] # "no"
  BY <1>2 DEF Answered
<1>3. ASSUME NEW u \in Threads, Committed(u, d) PROVE Answered(d)'
  <2>1. CASE u # t
    <3>1. Committed(u, d)'
      BY <1>3, <2>1, OthersCommitted DEF StatusKept
    <3>2. QED
      BY <3>1 DEF Answered
  <2>2. QED
    BY <1>3, <2>1
<1>4. QED
  BY <1>1, <1>2, <1>3 DEF Answered

\* A container that a thread's step does not touch.
LEMMA Elsewhere ==
  ASSUME TypeInv, SockInv, NEW t \in Threads, NEW d \in Dncs, OthersSame(t), NeedIsAnswered, SocksClose,
         Needs(d)', life'[d] = "live" => life[d] = "live", dnc'[d] = dnc[d], missed'[d] = missed[d],
         Target(t) # d, pc'[t] # "building" \/ (rel[t] = "none" /\ cur'[t] = cur[t])
  PROVE  Answered(d)'
<1>1. ~Committed(t, d) /\ BuildsOn(t, d)
  BY ThreadsAssumption DEF Committed, Target, BuildsOn
<1>2. StatusKept(t, d)
  BY DEF StatusKept
<1>3. QED
  BY <1>1, <1>2, StillAnswered

LEMMA TargetOnly ==
  ASSUME TypeInv, SockInv, NEW t \in Threads, NEW c, OthersSame(t), NeedIsAnswered, SocksClose,
         \A e \in Dncs \ {c} : /\ dnc'[e] = dnc[e] /\ missed'[e] = missed[e]
                               /\ life'[e] = "live" => life[e] = "live",
         Target(t) = c \/ Target(t) = "none",
         pc'[t] # "building" \/ (rel[t] = "none" /\ cur'[t] = cur[t]),
         c \in Dncs /\ Needs(c)' => Answered(c)'
  PROVE  NeedIsAnswered'
<1> SUFFICES ASSUME NEW d \in Dncs, Needs(d)' PROVE Answered(d)'
  BY DEF NeedIsAnswered
<1>1. CASE d = c
  BY <1>1
<1>2. CASE d # c
  <2>1. Target(t) # d
    BY <1>2, ThreadsAssumption
  <2>2. QED
    BY <1>2, <2>1, Elsewhere
<1>3. QED
  BY <1>1, <1>2

LEMMA SameSocks == UNCHANGED sk => SocksClose
BY DEF SocksClose

LEMMA StillReleased ==
  ASSUME NEW t \in Threads, NEW d, rel'[t] = d
  PROVE  Answered(d)'
BY DEF Answered, Committed

LEMMA StillGoing ==
  ASSUME NEW t \in Threads, NEW d, rel'[t] = "none", cur'[t] = d,
         pc'[t] \in {"schedule", "clean", "handler", "lock", "connect", "disconnect", "take"}
  PROVE  Answered(d)'
BY DEF Answered, Committed

LEMMA NotCommitted ==
  ASSUME NEW t \in Threads, NEW d \in Dncs, rel[t] = "none",
         pc[t] \notin {"schedule", "clean", "handler", "lock", "connect", "disconnect", "take", "build"}
  PROVE  ~Committed(t, d)
BY ThreadsAssumption DEF Committed

LEMMA StepAnswers ==
  ASSUME TypeInv, SockInv, PlaceInv, NeedIsAnswered, NEW t \in Threads, Step(t)
  PROVE  NeedIsAnswered'
<1> USE PointsAre
<1>1. ThreadTypes /\ ControlOK /\ StateTypes /\ OthersSame(t) /\ Control(t)
  BY StepKeepsThreads DEF TypeInv, ControlOK
<1>20. PICK c : c = Target(t)
  OBVIOUS
<1>2. CASE Use_Freed(t) \/ Release_Null(t)
  <2>1. UNCHANGED <<life, dnc, sk, pc, cur, rel, missed>>
    BY <1>2 DEF Use_Freed, Release_Null, Crash, tvars
  <2>2. QED
    BY <2>1 DEF NeedIsAnswered, Needs, Answered, Committed
<1>3. CASE Build_Connection(t)
  <2>1. /\ UNCHANGED <<life, dnc, sk>> /\ pc[t] = "build" /\ rel[t] = "none"
        /\ cur[t] \in Dncs /\ c = cur[t] /\ SocksClose
        /\ missed' = missed \/ missed' = [missed EXCEPT ![cur[t]] = "rebuild"]
        /\ \/ dnc[c].sock # 0 /\ dnc[c].status = "INIT" /\ Goto(t, "schedule")
           \/ dnc[c].sock = 0 /\ Finish(t)
           \/ dnc[c].status = "BUILDING" /\ Finish(t) /\ missed' = [missed EXCEPT ![cur[t]] = "rebuild"]
           \/ dnc[c].status \notin {"INIT", "BUILDING"} /\ Finish(t) /\ missed' = missed
    <3>1. pc[t] = "build" /\ rel[t] = "none" /\ cur[t] \in Dncs /\ c = cur[t]
      BY <1>1, <1>3, <1>20, SomeTarget DEF Build_Connection, Uses, At
    <3>2. [missed EXCEPT ![cur[t]] = @] = missed
      BY <1>1, <3>1 DEF StateTypes
    <3>3. /\ UNCHANGED <<life, dnc, sk>>
          /\ \/ /\ dnc[cur[t]].sock # 0 /\ dnc[cur[t]].status = "INIT"
                /\ Goto(t, "schedule")
                /\ UNCHANGED missed
             \/ /\ dnc[cur[t]].sock = 0 \/ dnc[cur[t]].status # "INIT"
                /\ Finish(t)
                /\ missed' = [missed EXCEPT ![cur[t]] = IF dnc[cur[t]].status = "BUILDING" THEN "rebuild" ELSE @]
      BY <1>3 DEF Build_Connection
    <3>4. SocksClose
      BY <3>3, SameSocks
    <3>5. CASE dnc[cur[t]].status = "BUILDING"
      BY <3>1, <3>3, <3>4, <3>5
    <3>6. CASE dnc[cur[t]].status # "BUILDING"
      BY <3>1, <3>2, <3>3, <3>4, <3>6
    <3>7. QED
      BY <3>5, <3>6
  <2>2. pc'[t] # "building" /\ \A e \in Dncs \ {c} : missed'[e] = missed[e]
    BY <1>1, <2>1, Going, Finishing DEF StateTypes
  <2>3. ASSUME Needs(c)' PROVE Answered(c)'
    <3>1. CASE Goto(t, "schedule")
      BY <1>1, <2>1, <3>1, Going, StillGoing
    <3>2. CASE dnc[c].sock = 0
      BY <2>1, <2>3, <3>2 DEF Needs
    <3>3. CASE missed' = [missed EXCEPT ![cur[t]] = "rebuild"]
      <4>1. missed'[c] = "rebuild"
        BY <1>1, <2>1, <3>3 DEF StateTypes
      <4>2. QED
        BY <4>1 DEF Answered
    <3>4. CASE dnc[c].status \notin {"INIT", "BUILDING"} /\ missed' = missed
      <4>1. ~Committed(t, c)
        BY <2>1, <3>4, ThreadsAssumption DEF Committed
      <4>2. BuildsOn(t, c) /\ StatusKept(t, c)
        BY <2>1, <2>2 DEF BuildsOn, StatusKept
      <4>3. QED
        BY <1>1, <2>1, <2>3, <3>4, <4>1, <4>2, StillAnswered
    <3>5. QED
      BY <2>1, <3>1, <3>2, <3>3, <3>4
  <2>4. QED
    BY <1>1, <2>1, <2>2, <2>3, TargetOnly, <1>20
<1>4. CASE Schedule_to_Node_Builder_Workq(t)
  <2>1. /\ UNCHANGED <<life, sk>> /\ pc[t] = "schedule" /\ rel[t] = "none"
        /\ cur[t] \in Dncs /\ c = cur[t] /\ SocksClose
    BY <1>1, <1>4, <1>20, SomeTarget, SameSocks DEF Schedule_to_Node_Builder_Workq, Uses, At
  <2>2. /\ missed' = [missed EXCEPT ![cur[t]] = "no"]
        /\ \/ dnc[c].sock = 0 /\ dnc' = dnc /\ (Finish(t) \/ Goto(t, "relock"))
           \/ dnc[c].work # "none" /\ dnc' = dnc /\ (Goto(t, "building") \/ Goto(t, "relock"))
           \/ dnc' = Queued(c) /\ (Goto(t, "building") \/ Goto(t, "relock"))
           \/ dnc' = dnc /\ Goto(t, "clean")
    BY <1>4, <2>1 DEF Schedule_to_Node_Builder_Workq
  <2>3. /\ \A e \in Dncs \ {c} : dnc'[e] = dnc[e] /\ missed'[e] = missed[e]
        /\ dnc' = Queued(c) => dnc'[c].work = "timer"
    BY <1>1, <2>1, <2>2, StoredQueued DEF Only, StateTypes
  <2>4. pc'[t] # "building" \/ cur'[t] = cur[t]
    BY <1>1, <2>1, <2>2, Going, Finishing
  <2>5. ASSUME Needs(c)' PROVE Answered(c)'
    <3>1. CASE dnc[c].sock = 0 /\ dnc' = dnc
      BY <2>5, <3>1 DEF Needs
    <3>2. CASE dnc'[c].work # "none"
      BY <3>2 DEF Answered
    <3>3. CASE Goto(t, "clean")
      BY <1>1, <2>1, <3>3, Going, StillGoing
    <3>4. QED
      BY <2>2, <2>3, <3>1, <3>2, <3>3
  <2>6. QED
    BY <1>1, <2>1, <2>3, <2>4, <2>5, TargetOnly, <1>20
<1>5. CASE Set_Building(t)
  <2>1. /\ UNCHANGED <<life, sk, missed>> /\ pc[t] = "building" /\ rel[t] = "none"
        /\ cur[t] \in Dncs /\ c = cur[t] /\ SocksClose
        /\ dnc' = [dnc EXCEPT ![c].status = "BUILDING"] /\ Finish(t)
    BY <1>1, <1>5, <1>20, SomeTarget, SameSocks DEF Set_Building, Uses, At
  <2>2. /\ Only(c) /\ KeepsSock(c) /\ KeepsWork(c) /\ dnc'[c].status = "BUILDING"
        /\ pc'[t] # "building"
    <3>1. pc'[t] # "building"
      BY <1>1, <2>1, Finishing
    <3>2. QED
      BY <1>1, <2>1, <3>1, StoredStatus
  <2>3. ASSUME Needs(c)' PROVE Answered(c)'
    <3>1. ~Committed(t, c) /\ BuildsOn(t, c) /\ StatusKept(t, c)
      BY <2>1, <2>2, NotCommitted DEF BuildsOn, StatusKept
    <3>2. QED
      BY <1>1, <2>1, <2>2, <2>3, <3>1, StillAnswered DEF KeepsSock, KeepsWork
  <2>4. QED
    BY <1>1, <2>1, <2>2, <2>3, TargetOnly, <1>20 DEF Only
<1>6. CASE Destroy_by_Index(t)
  <2>1. /\ UNCHANGED <<life, dnc, sk, missed>> /\ pc[t] = "clean" /\ rel[t] = "none"
        /\ cur[t] \in Dncs /\ c = cur[t] /\ SocksClose /\ job[t] # "send"
    BY <1>1, <1>6, <1>20, SomeTarget, SameSocks DEF Destroy_by_Index, Uses, At, Control
  <2>2. \/ \E i \in Nodes : i = dnc[c].index /\ pc' = [pc EXCEPT ![t] = "release"]
                             /\ rel' = [rel EXCEPT ![t] = table[i]]
        \/ /\ Goto(t, "relock") \/ Finish(t)
           /\ ~(dnc[c].index \in Nodes /\ table[dnc[c].index] # "none")
    BY <1>6, <2>1 DEF Destroy_by_Index, Release
  <2>3. pc'[t] # "building"
    BY <1>1, <2>1, <2>2, Going, Finishing DEF ThreadTypes
  <2>4. ASSUME Needs(c)' PROVE Answered(c)'
    <3>1. Placed(c)
      <4>1. life[c] = "live" /\ Touched(c)
        BY <2>1, <2>4 DEF Needs, Touched, Works
      <4>2. QED
        BY <2>1, <4>1 DEF PlaceInv, TouchedIsPlaced
    <3>2. ASSUME NEW u \in Threads, rel[u] = c PROVE Answered(c)'
      <4>1. u # t
        BY <2>1, <3>2, ThreadsAssumption
      <4>2. rel'[u] = c
        BY <1>1, <3>2, <4>1 DEF OthersSame, Same
      <4>3. QED
        BY <4>2, StillReleased
    <3>3. CASE dnc[c].index \in Nodes /\ table[dnc[c].index] = c
      <4>1. rel' = [rel EXCEPT ![t] = c]
        BY <2>1, <2>2, <3>3, ThreadsAssumption
      <4>2. rel'[t] = c
        BY <1>1, <4>1 DEF ThreadTypes
      <4>3. QED
        BY <4>2, StillReleased
    <3>4. QED
      BY <3>1, <3>2, <3>3 DEF Placed
  <2>5. QED
    BY <1>1, <2>1, <2>3, <2>4, TargetOnly, <1>20
<1>7. CASE Release_DMS_Node_Container(t) \/ Flush_Workqueue(t)
  <2>1. /\ UNCHANGED <<life, dnc, sk, missed>> /\ pc[t] \in {"release", "flush"}
        /\ \E x \in {"cancel", "disconnect", "free"} : Goto(t, x)
    BY <1>7 DEF Release_DMS_Node_Container, Flush_Workqueue, Uses, At
  <2>2. rel[t] \in Dncs /\ c = rel[t] /\ SocksClose
    BY <1>1, <2>1, <1>20, SomeTarget, SameSocks DEF Releases
  <2>3. rel'[t] = c /\ pc'[t] # "building"
    BY <1>1, <2>1, <2>2, Going
  <2>4. Answered(c)'
    BY <2>3, StillReleased
  <2>5. QED
    BY <1>1, <2>1, <2>2, <2>3, <2>4, TargetOnly, <1>20
<1>8. CASE Cancel_from_Node_Builder_Workq(t)
  <2>1. rel[t] \in Dncs /\ c = rel[t] /\ UNCHANGED <<life, sk, missed>> /\ SocksClose
    BY <1>1, <1>8, <1>20, SomeTarget, SameSocks DEF Cancel_from_Node_Builder_Workq, Uses, At, Releases
  <2>2. /\ dnc' = dnc \/ \E v \in {"none", "timer", "queue"} : dnc' = [dnc EXCEPT ![rel[t]].work = v]
        /\ Goto(t, "flush") \/ Goto(t, "disconnect")
    <3>1. dnc[rel[t]].work \in {"none", "timer", "queue"}
      BY <1>1, <2>1, Contents
    <3>2. QED
      BY <1>8, <3>1 DEF Cancel_from_Node_Builder_Workq
  <2>3. rel'[t] = c /\ pc'[t] # "building"
    BY <1>1, <2>1, <2>2, Going
  <2>4. \A e \in Dncs \ {c} : dnc'[e] = dnc[e]
    BY <1>1, <2>1, <2>2, StoredWork DEF Only
  <2>5. Answered(c)'
    BY <2>3, StillReleased
  <2>6. QED
    BY <1>1, <2>1, <2>3, <2>4, <2>5, TargetOnly, <1>20
<1>9. CASE Set_Disconnected(t)
  <2>1. /\ c \in Dncs /\ dnc' = [dnc EXCEPT ![c].status = "DISCONNECTED"]
        /\ Goto(t, IF dnc[c].sock # 0 THEN "take" ELSE AfterDrop(t))
        /\ UNCHANGED <<life, sk, missed>> /\ SocksClose /\ pc[t] = "disconnect"
    BY <1>1, <1>9, <1>20, SomeTarget, SameSocks DEF Set_Disconnected, Uses, At, Drops
  <2>2. (rel[t] # "none" => c = rel[t]) /\ (rel[t] = "none" => c = cur[t])
    BY <1>20 DEF Target
  <2>3. Only(c) /\ KeepsSock(c)
    BY <1>1, <2>1, StoredStatus
  <2>4. /\ pc'[t] # "building" /\ rel'[t] = rel[t] /\ cur'[t] = cur[t]
        /\ dnc[c].sock # 0 => pc'[t] = "take"
    <3>1. \E x \in {"take", "init", "free"} : Goto(t, x) /\ (dnc[c].sock # 0 => x = "take")
      BY <2>1 DEF AfterDrop
    <3>2. QED
      BY <1>1, <3>1, Going
  <2>5. ASSUME Needs(c)' PROVE Answered(c)'
    <3>1. dnc[c].sock # 0
      BY <2>3, <2>5 DEF Needs, KeepsSock
    <3>2. CASE rel[t] # "none"
      BY <2>2, <2>4, <3>2, StillReleased
    <3>3. CASE rel[t] = "none"
      BY <2>2, <2>4, <3>1, <3>3, StillGoing
    <3>4. QED
      BY <3>2, <3>3
  <2>6. QED
    BY <1>1, <2>1, <2>3, <2>4, <2>5, TargetOnly, <1>20 DEF Only
<1>10. CASE Take_Socket(t)
  <2>1. /\ c \in Dncs /\ dnc' = [dnc EXCEPT ![c] = Detached(@)]
        /\ pc' = [pc EXCEPT ![t] = "stop"]
        /\ UNCHANGED <<life, sk, missed>> /\ SocksClose
    BY <1>1, <1>10, <1>20, SomeTarget, SameSocks DEF Take_Socket, Uses, At, Drops
  <2>2. Only(c) /\ dnc'[c].sock = 0 /\ pc'[t] # "building"
    BY <1>1, <2>1, StoredDetached DEF ThreadTypes
  <2>3. ~Needs(c)'
    BY <2>2 DEF Needs
  <2>4. QED
    BY <1>1, <2>1, <2>2, <2>3, TargetOnly, <1>20 DEF Only
<1>11. CASE Release_Socket(t)
  <2>1. /\ sk' = [sk EXCEPT ![held[t]] = [tcp |-> "released", user |-> "none"]]
        /\ \E x \in {"init", "free"} : pc' = [pc EXCEPT ![t] = x]
        /\ UNCHANGED <<job, cur, rel, life, dnc, missed>> /\ pc[t] = "stop"
    BY <1>11 DEF Release_Socket, AfterDrop, Uses, At
  <2>2. c \in Dncs /\ (rel[t] # "none" => c = rel[t])
    BY <1>1, <2>1, <1>20, SomeTarget DEF Drops, Target
  <2>3. SocksClose /\ pc'[t] # "building"
    BY <1>1, <2>1 DEF SocksClose, StateTypes, ThreadTypes
  <2>4. ASSUME Needs(c)' PROVE Answered(c)'
    <3>1. CASE rel[t] # "none"
      BY <2>1, <2>2, <3>1, StillReleased
    <3>2. CASE rel[t] = "none"
      <4>1. ~Committed(t, c) /\ BuildsOn(t, c) /\ StatusKept(t, c)
        BY <2>1, <2>2, <2>3, <3>2, NotCommitted DEF BuildsOn, StatusKept
      <4>2. QED
        BY <1>1, <2>1, <2>2, <2>3, <2>4, <4>1, StillAnswered
    <3>3. QED
      BY <3>1, <3>2
  <2>5. QED
    BY <1>1, <2>1, <2>3, <2>4, TargetOnly, <1>20
<1>12. CASE Free_DMS_Node_Container(t)
  <2>1. /\ pc[t] = "free" /\ rel[t] \in Dncs /\ c = rel[t] /\ life' = [life EXCEPT ![rel[t]] = "freed"]
        /\ Finish(t) /\ UNCHANGED <<dnc, sk, missed>> /\ SocksClose
    BY <1>1, <1>12, <1>20, SomeTarget, SameSocks DEF Free_DMS_Node_Container, Uses, At, Releases
  <2>2. /\ life'[c] = "freed" /\ \A e \in Dncs \ {c} : life'[e] = life[e]
        /\ pc'[t] # "building"
    BY <1>1, <2>1, Finishing DEF StateTypes
  <2>3. ~Needs(c)'
    BY <2>2 DEF Needs
  <2>4. QED
    BY <1>1, <2>1, <2>2, <2>3, TargetOnly, <1>20
<1>13. QED
  BY <1>2, <1>3, <1>4, <1>5, <1>6, <1>7, <1>8, <1>9, <1>10, <1>11, <1>12 DEF Step

LEMMA ProcStepAnswers ==
  ASSUME TypeInv, SockInv, NeedIsAnswered, NEW p \in Procs, ProcStep(p)
  PROVE  NeedIsAnswered'
<1> USE PointsAre
<1>1. ThreadTypes /\ ControlOK /\ StateTypes /\ OthersSame(p) /\ p \in Threads /\ Control(p)
  BY ProcStepKeepsThreads DEF TypeInv, Threads, ControlOK
<1>2. PICK c : c = Target(p)
  OBVIOUS
<1>3. CASE Release_Next(p) \/ Release_Node_Builder(p)
  <2>1. /\ UNCHANGED <<life, dnc, sk, missed>> /\ pc[p] \in {"next", "builder"}
        /\ \/ \E d : Release(p, d)
           \/ pc' = [pc EXCEPT ![p] = "builder"]
           \/ pc' = [pc EXCEPT ![p] = "idle"]
           \/ pc' = pc
    BY <1>3 DEF Release_Next, Release_Node_Builder, At
  <2>2. c = "none" /\ c \notin Dncs
    BY <1>1, <1>2, <2>1, IdleThread, ThreadsAssumption DEF Control, Target
  <2>3. pc'[p] # "building" /\ SocksClose
    BY <1>1, <2>1, SameSocks DEF Release, ThreadTypes
  <2>4. QED
    BY <1>1, <1>2, <2>1, <2>2, <2>3, TargetOnly
<1>4. CASE Occupy_One_Index(p) \/ Set_Index(p) \/ Check_Connected(p) \/ Load_Socket(p) \/ Sock_Xmit(p)
  <2>1. /\ UNCHANGED <<life, sk, missed>> /\ pc[p] \in {"occupy", "index", "check", "xmit", "sending"}
        /\ \/ Finish(p)
           \/ \E x \in {"build", "xmit"} : Goto(p, x)
           \/ \E x \in {"index", "sending"} : pc' = [pc EXCEPT ![p] = x]
           \/ pc' = pc
        /\ \/ dnc' = dnc
           \/ dnc' = [dnc EXCEPT ![cur[p]].index = at[p]] /\ at[p] \in Nodes
    <3>1. pc[p] = "index" => at[p] \in Nodes
      BY <1>1 DEF Control
    <3>2. QED
      BY <1>4, <3>1 DEF Occupy_One_Index, Set_Index, Check_Connected, Load_Socket, Sock_Xmit,
                        Crash, tvars, Begin, Uses, At
  <2>2. rel[p] = "none" /\ cur[p] \in Dncs /\ c = cur[p] /\ SocksClose
    BY <1>1, <1>2, <2>1, SomeTarget, SameSocks
  <2>3. pc'[p] # "building"
    BY <1>1, <2>1, Going, Finishing DEF ThreadTypes
  <2>4. /\ \A e \in Dncs \ {c} : dnc'[e] = dnc[e]
        /\ dnc'[c].sock = dnc[c].sock /\ dnc'[c].status = dnc[c].status /\ dnc'[c].work = dnc[c].work
    BY <1>1, <2>1, <2>2, StoredIndex DEF Only, KeepsSock, KeepsStatus, KeepsWork
  <2>5. ~Committed(p, c) /\ BuildsOn(p, c) /\ StatusKept(p, c)
    BY <1>1, <2>1, <2>2, <2>3, <2>4, NotCommitted DEF BuildsOn, StatusKept
  <2>6. Needs(c)' => Answered(c)'
    BY <1>1, <2>1, <2>2, <2>4, <2>5, StillAnswered
  <2>7. QED
    BY <1>1, <1>2, <2>1, <2>2, <2>3, <2>4, <2>6, TargetOnly
<1>5. QED
  BY <1>3, <1>4 DEF ProcStep

LEMMA HandlerStepAnswers ==
  ASSUME TypeInv, SockInv, NeedIsAnswered, NEW w \in Workers, HandlerStep(w)
  PROVE  NeedIsAnswered'
<1> USE PointsAre
<1>1. ThreadTypes /\ ControlOK /\ StateTypes /\ OthersSame(w) /\ w \in Threads
  BY HandlerStepKeepsThreads DEF TypeInv, Threads
<1>2. PICK c : c = cur[w]
  OBVIOUS
<1>3. /\ c \in Dncs /\ rel[w] = "none" /\ Target(w) = c /\ UNCHANGED life
      /\ pc[w] # "builder"
      /\ Finish(w) \/ \E x \in {"lock", "connect", "register", "schedule", "connected", "build"} : Goto(w, x)
  BY <1>1, <1>2, SomeTarget
  DEF HandlerStep, Node_Connection_Handler, Lock_for_Connect, Connect_OK, Connect_Fails,
      Connect_Again, Register_Callbacks, Set_Connected, Relock, Rebuild_Init, Uses, At
<1>4. pc'[w] # "building" /\ rel'[w] = "none"
  BY <1>1, <1>3, Going, Finishing
<1>5. ASSUME NEW x \in {"lock", "connect", "schedule"}, Goto(w, x) PROVE Answered(c)'
  <2>1. pc'[w] = x /\ cur'[w] = c
    BY <1>1, <1>2, <1>5, Going
  <2>2. QED
    BY <1>1, <1>4, <2>1, StillGoing
<1>6. ASSUME SocksClose, \A e \in Dncs \ {c} : dnc'[e] = dnc[e] /\ missed'[e] = missed[e],
             Needs(c)' => Answered(c)'
      PROVE  NeedIsAnswered'
  BY <1>1, <1>3, <1>4, <1>6, TargetOnly
<1>7. ASSUME SocksClose, ~Committed(w, c), Needs(c)', missed' = missed,
             dnc'[c].sock = dnc[c].sock, dnc'[c].status = dnc[c].status, dnc'[c].work = dnc[c].work
      PROVE  Answered(c)'
  <2>1. BuildsOn(w, c) /\ StatusKept(w, c)
    BY <1>4, <1>7 DEF BuildsOn, StatusKept
  <2>2. QED
    BY <1>1, <1>3, <1>7, <2>1, StillAnswered
<1>8. CASE Node_Connection_Handler(w)
  <2>1. /\ \/ UNCHANGED <<sk, dnc>>
           \/ \E s \in Socks : NewSocket(c, s) /\ dnc' = [dnc EXCEPT ![c].sock = s]
        /\ \/ Goto(w, "lock") /\ UNCHANGED missed
           \/ missed' = [missed EXCEPT ![c] = "handler"]
    BY <1>2, <1>8 DEF Node_Connection_Handler
  <2>2. SocksClose
    BY <1>1, <2>1, SocketMade, TwoParts DEF SocksClose
  <2>3. \A e \in Dncs \ {c} : dnc'[e] = dnc[e] /\ missed'[e] = missed[e]
    BY <1>1, <1>3, <2>1, StoredSock DEF Only, StateTypes
  <2>4. CASE missed' = [missed EXCEPT ![c] = "handler"]
    <3>1. missed'[c] = "handler"
      BY <1>1, <1>3, <2>4 DEF StateTypes
    <3>2. QED
      BY <1>6, <2>2, <2>3, <3>1 DEF Answered
  <2>5. QED
    BY <1>5, <1>6, <2>1, <2>2, <2>3, <2>4
<1>9. CASE Lock_for_Connect(w) \/ Connect_Fails(w)
  <2>1. /\ \E v \in Workers \cup {"none"} : dnc' = [dnc EXCEPT ![c].lock = v]
        /\ \E x \in {"connect", "schedule"} : Goto(w, x)
        /\ UNCHANGED <<sk, missed>>
    BY <1>2, <1>9 DEF Lock_for_Connect, Connect_Fails, LockFor, Unlock
  <2>2. Only(c) /\ SocksClose
    BY <1>1, <1>3, <2>1, StoredLock, SameSocks
  <2>3. QED
    BY <1>5, <1>6, <2>1, <2>2 DEF Only
<1>10. CASE Connect_OK(w)
  <2>1. /\ dnc' = dnc /\ missed' = missed /\ sk' = [sk EXCEPT ![dnc[c].sock].tcp = "established"]
    BY <1>2, <1>10 DEF Connect_OK
  <2>2. \A s \in Socks : sk'[s].tcp = IF s = dnc[c].sock THEN "established" ELSE sk[s].tcp
    BY <1>1, <2>1 DEF StateTypes
  <2>3. ~Needs(c)' /\ SocksClose
    BY <1>1, <1>3, <2>1, <2>2, Contents DEF Needs, SocksClose
  <2>4. QED
    BY <1>6, <2>1, <2>3
<1>11. CASE Connect_Again(w)
  <2>1. /\ dnc' = [dnc EXCEPT ![c].lock = "none"] /\ UNCHANGED <<sk, missed>>
        /\ Tcp(c) \notin {"none", "closed"}
    BY <1>2, <1>11 DEF Connect_Again, Unlock
  <2>2. Only(c) /\ KeepsSock(c) /\ SocksClose
    BY <1>1, <1>3, <2>1, StoredLock, SameSocks
  <2>3. ~Needs(c)'
    BY <2>1, <2>2 DEF Needs, KeepsSock, Tcp
  <2>4. QED
    BY <1>6, <2>1, <2>2, <2>3 DEF Only
<1>12. CASE Register_Callbacks(w)
  <2>1. /\ dnc' = dnc /\ missed' = missed /\ pc[w] = "register"
        /\ \A s \in Socks : sk'[s].tcp = sk[s].tcp
    BY <1>1, <1>12 DEF Register_Callbacks, StateTypes, Uses, At
  <2>2. SocksClose /\ ~Committed(w, c)
    BY <1>1, <1>3, <2>1, NotCommitted DEF SocksClose
  <2>3. QED
    BY <1>6, <1>7, <2>1, <2>2
<1>13. CASE Set_Connected(w)
  <2>1. StillUp(c) \in BOOLEAN
    BY DEF StillUp
  <2>2. /\ Only(c) /\ KeepsSock(c) /\ KeepsWork(c)
        /\ dnc'[c].status = IF StillUp(c) THEN "CONNECTED" ELSE dnc[c].status
    BY <1>1, <1>2, <1>3, <1>13, <2>1, StoredConnected DEF Set_Connected
  <2>3. UNCHANGED <<sk, missed>> /\ pc[w] = "connected"
    BY <1>13 DEF Set_Connected, Uses, At
  <2>4. SocksClose /\ ~Committed(w, c)
    BY <1>1, <1>3, <2>3, NotCommitted, SameSocks
  <2>5. StillUp(c) => ~Needs(c)'
    BY <2>2, <2>3 DEF StillUp, Tcp, Needs, KeepsSock
  <2>6. Needs(c)' => Answered(c)'
    BY <1>7, <2>2, <2>3, <2>4, <2>5 DEF KeepsSock, KeepsWork
  <2>7. QED
    BY <1>6, <2>2, <2>3, <2>4, <2>6 DEF Only
<1>14. CASE Relock(w)
  <2>1. UNCHANGED <<sk, dnc, missed>> /\ pc[w] = "relock"
    BY <1>14 DEF Relock, Uses, At
  <2>2. SocksClose /\ ~Committed(w, c)
    BY <1>1, <1>3, <2>1, NotCommitted, SameSocks
  <2>3. QED
    BY <1>6, <1>7, <2>1, <2>2
<1>15. CASE Rebuild_Init(w)
  <2>1. /\ UNCHANGED missed /\ pc[w] = "init" /\ Goto(w, "build")
        /\ \/ UNCHANGED <<sk, dnc>>
           \/ \E s \in Socks : NewSocket(c, s) /\ dnc' = [dnc EXCEPT ![c].sock = s, ![c].status = "INIT"]
    BY <1>2, <1>15 DEF Rebuild_Init, InitState, Uses, At
  <2>2. SocksClose
    BY <1>1, <2>1, SocketMade, TwoParts DEF SocksClose
  <2>3. \A e \in Dncs \ {c} : dnc'[e] = dnc[e]
    BY <1>1, <1>3, <2>1, StoredInit DEF Only
  <2>4. CASE UNCHANGED <<sk, dnc>>
    <3>1. ~Committed(w, c)
      BY <1>1, <1>3, <2>1, NotCommitted
    <3>2. QED
      BY <1>6, <1>7, <2>1, <2>2, <2>4, <3>1
  <2>5. CASE \E s \in Socks : NewSocket(c, s) /\ dnc' = [dnc EXCEPT ![c].sock = s, ![c].status = "INIT"]
    <3>1. dnc'[c].status = "INIT"
      BY <1>1, <1>3, <2>5, StoredInit
    <3>2. pc'[w] = "build" /\ cur'[w] = c
      BY <1>1, <1>2, <2>1, Going
    <3>3. Answered(c)'
      BY <1>1, <1>4, <3>1, <3>2 DEF Answered, Committed
    <3>4. QED
      BY <1>6, <2>1, <2>2, <2>3, <3>3
  <2>6. QED
    BY <2>1, <2>4, <2>5
<1>16. QED
  BY <1>8, <1>9, <1>10, <1>11, <1>12, <1>13, <1>14, <1>15 DEF HandlerStep

LEMMA CallAnswers ==
  ASSUME TypeInv, TabInv, SockInv, NeedIsAnswered, NEW p \in Procs, Call(p)
  PROVE  NeedIsAnswered'
<1>1. /\ ThreadTypes /\ ControlOK /\ StateTypes /\ p \in Threads /\ OthersSame(p)
      /\ pc[p] = "idle" /\ Target(p) = "none"
  <2>1. p \in Threads /\ pc[p] = "idle"
    BY DEF Call, Create_DMS_Node_Container, Destroy_DMS_Node_Container, Send_Msg,
           Release_DNCS_Manager, Idle, At, Threads
  <2>2. QED
    BY <2>1, CallKeepsThreads, IdleThread DEF TypeInv, ControlOK, Control, Target
<1>2. ASSUME NEW c \in Dncs \cup {"none"}, SocksClose,
             \A e \in Dncs \ {c} : /\ dnc'[e] = dnc[e] /\ missed'[e] = missed[e]
                                   /\ life'[e] = "live" => life[e] = "live",
             pc'[p] # "building", c \in Dncs /\ Needs(c)' => Answered(c)'
      PROVE  NeedIsAnswered'
  BY <1>1, <1>2, TargetOnly
<1>3. ASSUME NEW a \in Addrs, Create_DMS_Node_Container(p, a) PROVE NeedIsAnswered'
  <2>1. UNCHANGED missed
    BY <1>3 DEF Create_DMS_Node_Container
  <2>2. ASSUME NEW d \in Dncs, life' = [life EXCEPT ![d] = "freed"], UNCHANGED <<dnc, sk, tvars>>
        PROVE  NeedIsAnswered'
    <3>1. life'[d] = "freed" /\ \A e \in Dncs \ {d} : life'[e] = life[e]
      BY <1>1, <2>2 DEF StateTypes
    <3>2. ~Needs(d)'
      BY <3>1 DEF Needs
    <3>3. pc'[p] # "building" /\ SocksClose
      BY <1>1, <2>2, SameSocks DEF tvars
    <3>4. QED
      BY <1>2, <2>1, <2>2, <3>1, <3>2, <3>3
  <2>3. ASSUME NEW d \in Dncs, life[d] = "fresh", NEW s \in Socks, NewSocket(d, s),
               dnc' = [dnc EXCEPT ![d] = [Blank(a) EXCEPT !.sock = s, !.status = "INIT"]],
               life' = [life EXCEPT ![d] = "live"], Begin(p, "build", d, 0, "occupy")
        PROVE  NeedIsAnswered'
    <3>1. \A t \in Threads : cur[t] # d
      BY <2>3 DEF TabInv, Fresh
    <3>2. pc'[p] = "occupy" /\ \A t \in Threads \ {p} : cur'[t] = cur[t]
      BY <1>1, <2>3 DEF Begin, ThreadTypes, OthersSame, Same
    <3>3. dnc'[d].status = "INIT" /\ \A e \in Dncs \ {d} : dnc'[e] = dnc[e]
      <4>1. dnc' = [dnc EXCEPT ![d] = [Blank(a) EXCEPT !.sock = s, !.status = "INIT"]] /\ StateTypes
        BY <1>1, <2>3
      <4>2. QED
        BY <4>1, StoredBlank DEF Only
    <3>4. \A e \in Dncs \ {d} : life'[e] = life[e]
      BY <1>1, <2>3 DEF StateTypes
    <3>5. ~Needs(d)'
      BY <3>1, <3>2, <3>3 DEF Needs
    <3>6. SocksClose
      BY <1>1, <2>3, SocketMade, TwoParts DEF SocksClose
    <3>7. QED
      BY <1>2, <2>1, <3>2, <3>3, <3>4, <3>5, <3>6
  <2>4. QED
    BY <1>3, <2>2, <2>3, Creating
<1>4. ASSUME UNCHANGED <<life, dnc, sk, missed>>, \E x \in {"check", "next", "release"} : pc' = [pc EXCEPT ![p] = x]
      PROVE  NeedIsAnswered'
  <2>1. SocksClose /\ pc'[p] # "building"
    BY <1>1, <1>4, SameSocks DEF ThreadTypes
  <2>2. QED
    BY <1>2, <1>4, <2>1, ThreadsAssumption
<1>5. ASSUME NEW i \in Nodes, Destroy_DMS_Node_Container(p, i) \/ Send_Msg(p, i) PROVE NeedIsAnswered'
  BY <1>4, <1>5 DEF Destroy_DMS_Node_Container, Send_Msg, Release, Begin
<1>6. CASE Release_DNCS_Manager(p)
  BY <1>4, <1>6 DEF Release_DNCS_Manager, Begin
<1>7. QED
  BY <1>3, <1>5, <1>6 DEF Call

LEMMA RunWorkAnswers ==
  ASSUME TypeInv, SockInv, NeedIsAnswered, NEW w \in Workers, NEW d \in Dncs, Run_Work(w, d)
  PROVE  NeedIsAnswered'
<1>1. ThreadTypes /\ ControlOK /\ StateTypes /\ OthersSame(w) /\ w \in Threads
  BY RunWorkKeepsThreads DEF TypeInv, Threads
<1>2. /\ pc[w] = "idle" /\ dnc' = [dnc EXCEPT ![d].work = "none"]
      /\ UNCHANGED <<life, sk, rel, missed>> /\ cur' = [cur EXCEPT ![w] = d]
      /\ \E x \in {"handler", "disconnect"} : pc' = [pc EXCEPT ![w] = x]
  BY DEF Run_Work, Begin, At
<1>3. /\ pc'[w] \in {"handler", "disconnect"} /\ cur'[w] = d /\ rel'[w] = "none"
      /\ Target(w) = "none"
  BY <1>1, <1>2, IdleThread DEF ThreadTypes, Target, ControlOK, Control
<1>4. Answered(d)'
  BY <1>1, <1>3, StillGoing
<1>5. Only(d) /\ SocksClose
  BY <1>1, <1>2, StoredWork, SameSocks
<1>6. QED
  BY <1>1, <1>2, <1>3, <1>4, <1>5, TargetOnly DEF Only

LEMMA KernelAnswers ==
  ASSUME TypeInv, SockInv, NeedIsAnswered,
         \/ \E d \in Dncs : Timer(d) \/ Run_Freed(d)
         \/ \E s \in Socks : Lose_Unnoticed(s) \/ Socket_State_Change(s) \/ State_Change_Fault(s)
         \/ UNCHANGED vars
  PROVE  NeedIsAnswered'
<1>1. StateTypes /\ UNCHANGED <<life, missed, pc, cur, rel>>
  BY KernelKeepsThreads
  DEF TypeInv, Timer, Run_Freed, Lose_Unnoticed, Socket_State_Change, State_Change_Fault, Crash, vars, tvars
<1>2. ASSUME \A d \in Dncs : dnc'[d] = dnc[d] \/ dnc'[d].work # "none",
             \A s \in Socks : sk'[s].tcp = "closed" => sk[s].tcp = "closed"
      PROVE  NeedIsAnswered'
  <2>1. SUFFICES ASSUME NEW d \in Dncs, Needs(d)' PROVE Answered(d)'
    BY DEF NeedIsAnswered
  <2>2. CASE dnc'[d].work # "none"
    BY <2>2 DEF Answered
  <2>3. CASE dnc'[d] = dnc[d]
    <3>1. dnc[d].sock \in Socks \cup {0}
      BY <1>1, Contents
    <3>2. Needs(d)
      BY <1>1, <1>2, <2>1, <2>3, <3>1 DEF Needs
    <3>3. QED
      BY <1>1, <2>3, <3>2 DEF NeedIsAnswered, Answered, Committed
  <2>4. QED
    BY <1>2, <2>2, <2>3
<1>3. ASSUME NEW d \in Dncs, Timer(d) PROVE NeedIsAnswered'
  <2>1. dnc' = [dnc EXCEPT ![d].work = "queue"] \/ dnc' = dnc
    BY <1>3 DEF Timer, Crash
  <2>2. \A e \in Dncs : dnc'[e] = dnc[e] \/ dnc'[e].work # "none"
    BY <1>1, <2>1, StoredWork DEF Only
  <2>3. UNCHANGED sk
    BY <1>3 DEF Timer, Crash
  <2>4. QED
    BY <1>2, <2>2, <2>3
<1>4. ASSUME NEW s \in Socks, NEW new \in After(sk[s].tcp), sk' = [sk EXCEPT ![s].tcp = new]
      PROVE  \A r \in Socks : sk'[r].tcp = "closed" => sk[r].tcp = "closed"
  BY <1>1, <1>4 DEF StateTypes, After
<1>5. ASSUME NEW s \in Socks, Lose_Unnoticed(s) PROVE NeedIsAnswered'
  BY <1>2, <1>4, <1>5 DEF Lose_Unnoticed
<1>6. ASSUME NEW s \in Socks, Socket_State_Change(s) PROVE NeedIsAnswered'
  <2>1. sk[s].user \in Dncs /\ dnc' = Rebuild(sk[s].user)
    BY <1>1, <1>6 DEF Socket_State_Change, StateTypes
  <2>2. \A e \in Dncs : dnc'[e] = dnc[e] \/ dnc'[e].work # "none"
    BY <1>1, <2>1, StoredRebuild DEF Only
  <2>3. QED
    BY <1>2, <1>4, <1>6, <2>2 DEF Socket_State_Change
<1>7. ASSUME UNCHANGED <<dnc, sk>> PROVE NeedIsAnswered'
  BY <1>2, <1>7
<1>8. QED
  BY <1>3, <1>5, <1>6, <1>7 DEF Run_Freed, State_Change_Fault, Crash, vars

LEMMA NextAnswers ==
  ASSUME TypeInv, TabInv, SockInv, PlaceInv, NeedIsAnswered, [Next]_vars
  PROVE  NeedIsAnswered'
BY CallAnswers, ProcStepAnswers, HandlerStepAnswers, RunWorkAnswers, StepAnswers, KernelAnswers DEF Next

\* A container that says it is being built, with a socket that could be connected, has its
\* work queued or a thread at it, unless its building was missed in one of two known ways.
THEOREM KnownStalls == Spec => []StallsAreKnown
<1>1. Init => NeedIsAnswered
  BY DEF Init, NeedIsAnswered, Needs
<1>2. TypeInv /\ TabInv /\ SockInv /\ PlaceInv /\ NeedIsAnswered /\ [Next]_vars => NeedIsAnswered'
  BY NextAnswers
<1>3. TypeInv /\ NeedIsAnswered => StallsAreKnown
  <2>1. SUFFICES ASSUME TypeInv, NeedIsAnswered, NEW d \in Dncs, life[d] = "live",
                        dnc[d].status = "BUILDING", Tcp(d) = "closed"
                 PROVE  Attended(d) \/ missed[d] # "no"
    BY DEF StallsAreKnown
  <2>2. Answered(d)
    BY <2>1 DEF NeedIsAnswered, Needs, Tcp
  <2>3. ASSUME NEW t \in Threads, Committed(t, d) PROVE Attended(d)
    <3>1. Control(t) /\ d # "none"
      BY <2>1, ThreadsAssumption DEF TypeInv, ControlOK
    <3>2. Target(t) = d /\ job[t] # "send"
      BY <2>3, <3>1 DEF Committed, Target, Control, Releases, Drops
    <3>3. QED
      BY <3>2 DEF Attended
  <2>4. QED
    BY <2>2, <2>3 DEF Answered, Attended
<1>4. QED
  BY <1>1, <1>2, <1>3, PlacesHold, PTL DEF Spec

-----------------------------------------------------------------------------
(* Who holds the locks, and who waits for them.                             *)

\* The lock of a container is held by a handler that connects it, ...
Holder == \A d \in Dncs : dnc[d].lock # "none" =>
              pc[dnc[d].lock] \in Locking /\ cur[dnc[d].lock] = d
\* ... and dms_nodes_lock, from one step to the next, by who releases the manager and has
\* not come to the work queue yet.
Holding == mgr # "none" => job[mgr] = "unload" /\ pc[mgr] # "builder"

WaitInv == Holder /\ Holding

\* What a step does that takes no lock.
LocksOpen == \A d \in Dncs : dnc'[d].lock \in {dnc[d].lock, "none"}
KeepsAtLock(t) == pc[t] \in Locking => pc'[t] \in Locking /\ cur'[t] = cur[t]
UnloadsOn(t) == job[t] = "unload" => job'[t] = "unload" /\ (pc'[t] = "builder" => pc[t] = "builder")

LEMMA LocksAreOpen ==
  ASSUME StateTypes,
         \/ UNCHANGED dnc
         \/ \E d \in Dncs : Only(d) /\ (KeepsLock(d) \/ dnc'[d].lock = "none")
  PROVE  LocksOpen
BY DEF LocksOpen, Only, KeepsLock

LEMMA HolderKept ==
  ASSUME StateTypes, Holder, LocksOpen, NEW t \in Threads, OthersSame(t), KeepsAtLock(t)
  PROVE  Holder'
<1> SUFFICES ASSUME NEW d \in Dncs, NEW w, w = dnc'[d].lock, w # "none"
             PROVE  pc'[w] \in Locking /\ cur'[w] = d
  BY DEF Holder
<1>1. dnc[d].lock = w /\ w \in Threads
  BY Contents DEF LocksOpen, Threads
<1>2. pc[w] \in Locking /\ cur[w] = d
  BY <1>1 DEF Holder
<1>3. CASE w = t
  BY <1>2, <1>3 DEF KeepsAtLock
<1>4. CASE w # t
  BY <1>1, <1>2, <1>4 DEF OthersSame, Same
<1>5. QED
  BY <1>3, <1>4

\* The handler that unlocks its container holds no other.
LEMMA HolderLeaves ==
  ASSUME StateTypes, Holder, LocksOpen, NEW t \in Threads, OthersSame(t), dnc'[cur[t]].lock = "none"
  PROVE  Holder'
<1> SUFFICES ASSUME NEW d \in Dncs, NEW w, w = dnc'[d].lock, w # "none"
             PROVE  pc'[w] \in Locking /\ cur'[w] = d
  BY DEF Holder
<1>1. dnc[d].lock = w /\ w \in Threads
  BY Contents DEF LocksOpen, Threads
<1>2. pc[w] \in Locking /\ cur[w] = d
  BY <1>1 DEF Holder
<1>3. w # t
  BY <1>2
<1>4. QED
  BY <1>1, <1>2, <1>3 DEF OthersSame, Same

LEMMA HoldingKept ==
  ASSUME StateTypes, Holding, UNCHANGED mgr, NEW t \in Threads, OthersSame(t), mgr = t => UnloadsOn(t)
  PROVE  Holding'
<1> SUFFICES ASSUME mgr # "none" PROVE job'[mgr] = "unload" /\ pc'[mgr] # "builder"
  BY DEF Holding
<1>1. mgr \in Threads /\ job[mgr] = "unload" /\ pc[mgr] # "builder"
  BY DEF Holding, StateTypes, Threads
<1>2. QED
  BY <1>1 DEF UnloadsOn, OthersSame, Same

LEMMA UnloadsGoto ==
  ASSUME TypeInv, NEW t \in Threads, NEW there \in Points, Goto(t, there), there # "builder"
  PROVE  UnloadsOn(t) /\ (pc[t] \notin Locking => KeepsAtLock(t))
BY Going DEF TypeInv, UnloadsOn, KeepsAtLock

LEMMA UnloadsFinish ==
  ASSUME TypeInv, NEW t \in Threads, Finish(t), pc[t] # "builder"
  PROVE  UnloadsOn(t) /\ (pc[t] \notin Locking => KeepsAtLock(t))
<1>1. job[t] = "unload" => job'[t] = "unload" /\ pc'[t] = "next"
  BY Finishing DEF TypeInv
<1>2. QED
  BY <1>1 DEF UnloadsOn, KeepsAtLock

LEMMA StepKeepsWaits ==
  ASSUME TypeInv, WaitInv, NEW t \in Threads, Step(t)
  PROVE  WaitInv'
<1> USE PointsAre
<1>1. ThreadTypes /\ ControlOK /\ StateTypes /\ OthersSame(t)
  BY StepKeepsThreads DEF TypeInv
<1>2. ASSUME LocksOpen, UnloadsOn(t), KeepsAtLock(t), UNCHANGED mgr PROVE WaitInv'
  BY <1>1, <1>2, HolderKept, HoldingKept DEF WaitInv
<1>3. CASE Use_Freed(t) \/ Release_Null(t)
  <2>1. UNCHANGED <<dnc, mgr, tvars>>
    BY <1>3 DEF Use_Freed, Release_Null, Crash
  <2>2. UnloadsOn(t) /\ KeepsAtLock(t)
    BY <2>1 DEF tvars, UnloadsOn, KeepsAtLock
  <2>3. QED
    BY <1>1, <1>2, <2>1, <2>2, LocksAreOpen
<1>4. UNCHANGED mgr
  BY DEF Step, Use_Freed, Build_Connection, Schedule_to_Node_Builder_Workq, Set_Building,
         Destroy_by_Index, Release_DMS_Node_Container, Cancel_from_Node_Builder_Workq,
         Flush_Workqueue, Set_Disconnected, Take_Socket, Release_Socket, Release_Null,
         Free_DMS_Node_Container, Crash
<1>5. CASE Build_Connection(t) \/ Destroy_by_Index(t) \/ Release_DMS_Node_Container(t)
           \/ Flush_Workqueue(t) \/ Free_DMS_Node_Container(t)
  <2>1. /\ UNCHANGED dnc /\ pc[t] \notin Locking /\ pc[t] # "builder"
        /\ \/ \E x \in {"schedule", "relock", "cancel", "disconnect", "free"} : Goto(t, x)
           \/ Finish(t)
           \/ \E d : Release(t, d) /\ UNCHANGED <<job, cur>>
    BY <1>5 DEF Build_Connection, Destroy_by_Index, Release_DMS_Node_Container, Flush_Workqueue,
                Free_DMS_Node_Container, Uses, At, Locking
  <2>2. CASE \E d : Release(t, d) /\ UNCHANGED <<job, cur>>
    <3>1. UnloadsOn(t) /\ KeepsAtLock(t)
      BY <1>1, <2>1, <2>2 DEF Release, UnloadsOn, KeepsAtLock, ThreadTypes
    <3>2. QED
      BY <1>1, <1>2, <1>4, <2>1, <3>1, LocksAreOpen
  <2>3. CASE \E x \in {"schedule", "relock", "cancel", "disconnect", "free"} : Goto(t, x)
    BY <1>1, <1>2, <1>4, <2>1, <2>3, LocksAreOpen, UnloadsGoto
  <2>4. CASE Finish(t)
    BY <1>1, <1>2, <1>4, <2>1, <2>4, LocksAreOpen, UnloadsFinish
  <2>5. QED
    BY <2>1, <2>2, <2>3, <2>4
<1>6. CASE Schedule_to_Node_Builder_Workq(t)
  <2>1. pc[t] = "schedule" /\ cur[t] \in Dncs
    BY <1>1, <1>6, SomeTarget DEF Schedule_to_Node_Builder_Workq, Uses, At
  <2>2. /\ dnc' = dnc \/ dnc' = Queued(cur[t])
        /\ \/ \E x \in {"relock", "building", "clean"} : Goto(t, x)
           \/ Finish(t)
    BY <1>6 DEF Schedule_to_Node_Builder_Workq
  <2>3. LocksOpen
    BY <1>1, <2>1, <2>2, StoredQueued, LocksAreOpen
  <2>4. UnloadsOn(t) /\ KeepsAtLock(t)
    BY <2>1, <2>2, UnloadsGoto, UnloadsFinish DEF Locking
  <2>5. QED
    BY <1>2, <1>4, <2>3, <2>4
<1>7. CASE Set_Building(t)
  <2>1. /\ cur[t] \in Dncs /\ dnc' = [dnc EXCEPT ![cur[t]].status = "BUILDING"]
        /\ pc[t] = "building" /\ Finish(t)
    BY <1>1, <1>7, SomeTarget DEF Set_Building, Uses, At
  <2>2. LocksOpen
    BY <1>1, <2>1, StoredStatus, LocksAreOpen
  <2>3. UnloadsOn(t) /\ KeepsAtLock(t)
    BY <2>1, UnloadsFinish DEF Locking
  <2>4. QED
    BY <1>2, <1>4, <2>2, <2>3
<1>8. CASE Cancel_from_Node_Builder_Workq(t)
  <2>1. rel[t] \in Dncs /\ pc[t] = "cancel"
    BY <1>1, <1>8, SomeTarget DEF Cancel_from_Node_Builder_Workq, Uses, At, Releases
  <2>2. dnc[rel[t]].work \in {"none", "timer", "queue"}
    BY <1>1, <2>1, Contents
  <2>3. /\ dnc' = dnc \/ \E v \in {"none", "timer", "queue"} : dnc' = [dnc EXCEPT ![rel[t]].work = v]
        /\ Goto(t, "flush") \/ Goto(t, "disconnect")
    BY <1>8, <2>2 DEF Cancel_from_Node_Builder_Workq
  <2>4. LocksOpen
    BY <1>1, <2>1, <2>3, StoredWork, LocksAreOpen
  <2>5. UnloadsOn(t) /\ KeepsAtLock(t)
    BY <2>1, <2>3, UnloadsGoto DEF Locking
  <2>6. QED
    BY <1>2, <1>4, <2>4, <2>5
<1>9. CASE Set_Disconnected(t)
  <2>1. /\ Target(t) \in Dncs /\ dnc' = [dnc EXCEPT ![Target(t)].status = "DISCONNECTED"]
        /\ \E x \in {"take", "init", "free"} : Goto(t, x)
        /\ pc[t] = "disconnect"
    BY <1>1, <1>9, SomeTarget DEF Set_Disconnected, Uses, At, Drops, AfterDrop
  <2>2. LocksOpen
    BY <1>1, <2>1, StoredStatus, LocksAreOpen
  <2>3. UnloadsOn(t) /\ KeepsAtLock(t)
    BY <2>1, UnloadsGoto DEF Locking
  <2>4. QED
    BY <1>2, <1>4, <2>2, <2>3
<1>10. CASE Take_Socket(t) \/ Release_Socket(t)
  <2>1. /\ pc[t] \in Drops /\ UNCHANGED <<job, cur>>
        /\ \E x \in {"stop", "init", "free"} : pc' = [pc EXCEPT ![t] = x]
        /\ dnc' = dnc \/ dnc' = [dnc EXCEPT ![Target(t)] = Detached(@)]
    BY <1>10 DEF Take_Socket, Release_Socket, AfterDrop, Uses, At, Drops
  <2>2. Target(t) \in Dncs
    BY <1>1, <2>1, SomeTarget
  <2>3. LocksOpen
    BY <1>1, <2>1, <2>2, StoredDetached, LocksAreOpen
  <2>4. UnloadsOn(t) /\ KeepsAtLock(t)
    BY <1>1, <2>1 DEF UnloadsOn, KeepsAtLock, Locking, Drops, ThreadTypes
  <2>5. QED
    BY <1>2, <1>4, <2>3, <2>4
<1>11. QED
  BY <1>3, <1>5, <1>6, <1>7, <1>8, <1>9, <1>10 DEF Step

LEMMA ProcStepKeepsWaits ==
  ASSUME TypeInv, WaitInv, NEW p \in Procs, ProcStep(p)
  PROVE  WaitInv'
<1> USE PointsAre
<1>1. ThreadTypes /\ ControlOK /\ StateTypes /\ OthersSame(p) /\ p \in Threads /\ Control(p)
  BY ProcStepKeepsThreads DEF TypeInv, ControlOK, Threads
<1>2. pc[p] \notin Locking
  BY DEF ProcStep, Occupy_One_Index, Set_Index, Check_Connected, Load_Socket, Sock_Xmit,
         Release_Next, Release_Node_Builder, Uses, At, Locking
<1>3. KeepsAtLock(p)
  BY <1>2 DEF KeepsAtLock
<1>4. LocksOpen
  <2>1. CASE Set_Index(p)
    <3>1. cur[p] \in Dncs /\ at[p] \in Nodes /\ dnc' = [dnc EXCEPT ![cur[p]].index = at[p]]
      BY <1>1, <2>1, SomeTarget DEF Set_Index, Uses, At, Control
    <3>2. QED
      BY <1>1, <3>1, StoredIndex, LocksAreOpen
  <2>2. CASE UNCHANGED dnc
    BY <1>1, <2>2, LocksAreOpen
  <2>3. QED
    BY <2>1, <2>2 DEF ProcStep, Occupy_One_Index, Check_Connected, Load_Socket, Sock_Xmit,
                      Release_Next, Release_Node_Builder, Crash
<1>5. Holder'
  BY <1>1, <1>3, <1>4, HolderKept DEF WaitInv
<1>6. CASE Occupy_One_Index(p) \/ Set_Index(p) \/ Check_Connected(p) \/ Sock_Xmit(p)
  <2>1. /\ UNCHANGED mgr /\ pc[p] # "builder"
        /\ \/ \E x \in {"build", "xmit"} : Goto(p, x)
           \/ Finish(p)
           \/ UNCHANGED tvars
           \/ \E i \in FreeNodes : Begin(p, "build", cur[p], i, "index") /\ pc[p] = "occupy"
    BY <1>6 DEF Occupy_One_Index, Set_Index, Check_Connected, Sock_Xmit, Crash, Uses, At
  <2>2. UnloadsOn(p)
    <3>1. CASE UNCHANGED tvars
      BY <3>1 DEF tvars, UnloadsOn
    <3>2. CASE pc[p] = "occupy"
      BY <1>1, <3>2 DEF Control, UnloadsOn
    <3>3. QED
      BY <1>1, <2>1, <3>1, <3>2, UnloadsGoto, UnloadsFinish
  <2>3. QED
    BY <1>1, <1>5, <2>1, <2>2, HoldingKept DEF WaitInv
<1>7. CASE Load_Socket(p)
  <2>1. UNCHANGED mgr /\ job[p] # "unload"
    BY <1>1, <1>7 DEF Load_Socket, Crash, Uses, At, Control
  <2>2. QED
    BY <1>1, <1>5, <2>1, HoldingKept DEF WaitInv, UnloadsOn
<1>8. CASE Release_Next(p)
  <2>1. CASE mgr' = "none"
    BY <1>5, <2>1 DEF WaitInv, Holding
  <2>2. CASE UNCHANGED mgr /\ (UNCHANGED pc \/ \E d : Release(p, d))
    <3>1. pc'[p] \in {pc[p], "release"} /\ job' = job
      BY <1>1, <1>8, <2>2 DEF Release, Release_Next, ThreadTypes
    <3>2. QED
      BY <1>1, <1>5, <2>2, <3>1, HoldingKept DEF WaitInv, UnloadsOn
  <2>3. QED
    BY <1>8, <2>1, <2>2 DEF Release_Next
<1>9. CASE Release_Node_Builder(p)
  <2>1. UNCHANGED mgr /\ pc[p] = "builder"
    BY <1>9 DEF Release_Node_Builder, At
  <2>2. mgr # p
    BY <2>1, ThreadsAssumption DEF WaitInv, Holding
  <2>3. QED
    BY <1>1, <1>5, <2>1, <2>2, HoldingKept DEF WaitInv
<1>10. QED
  BY <1>6, <1>7, <1>8, <1>9 DEF ProcStep

LEMMA HandlerStepKeepsWaits ==
  ASSUME TypeInv, WaitInv, NEW w \in Workers, HandlerStep(w)
  PROVE  WaitInv'
<1> USE PointsAre
<1> DEFINE d == cur[w]
<1>1. /\ ThreadTypes /\ ControlOK /\ StateTypes /\ OthersSame(w) /\ w \in Threads
      /\ Control(w) /\ w # "none"
  BY HandlerStepKeepsThreads, ThreadsAssumption DEF TypeInv, ControlOK, Threads
<1>2. d \in Dncs /\ UNCHANGED mgr
  BY <1>1, SomeTarget
  DEF HandlerStep, Node_Connection_Handler, Lock_for_Connect, Connect_OK, Connect_Fails,
      Connect_Again, Register_Callbacks, Set_Connected, Relock, Rebuild_Init, Uses, At
<1>3. Holding'
  BY <1>1, <1>2, HoldingKept DEF WaitInv, UnloadsOn, Control
<1>4. ASSUME LocksOpen, KeepsAtLock(w) PROVE WaitInv'
  BY <1>1, <1>3, <1>4, HolderKept DEF WaitInv
<1>5. CASE Node_Connection_Handler(w)
  <2>1. /\ UNCHANGED dnc \/ \E s \in Socks : dnc' = [dnc EXCEPT ![d].sock = s]
        /\ pc[w] \notin Locking
    BY <1>5 DEF Node_Connection_Handler, Uses, At, Locking
  <2> HIDE DEF d
  <2>2. LocksOpen
    BY <1>1, <1>2, <2>1, StoredSock, LocksAreOpen
  <2>3. QED
    BY <1>4, <2>1, <2>2 DEF KeepsAtLock
<1>6. CASE Lock_for_Connect(w)
  <2>1. dnc[d].lock = "none" /\ dnc' = [dnc EXCEPT ![d].lock = w] /\ Goto(w, "connect")
        /\ pc[w] = "lock"
    BY <1>6 DEF Lock_for_Connect, LockFor, Unlocked, Uses, At
  <2>2. Only(d) /\ dnc'[d].lock = w /\ pc'[w] = "connect" /\ cur'[w] = d
    BY <1>1, <1>2, <2>1, StoredLock, Going
  <2>3. ASSUME NEW e \in Dncs, NEW v, v = dnc'[e].lock, v # "none"
        PROVE  pc'[v] \in Locking /\ cur'[v] = e
    <3>1. CASE e = d
      BY <2>2, <2>3, <3>1 DEF Locking
    <3>2. CASE e # d
      <4>1. v = dnc[e].lock /\ v \in Threads
        BY <1>1, <2>2, <2>3, <3>2, Contents DEF Only, Threads
      <4>2. pc[v] \in Locking /\ cur[v] = e
        BY <2>3, <4>1 DEF WaitInv, Holder
      <4>3. v # w
        BY <2>1, <4>2 DEF Locking
      <4>4. QED
        BY <1>1, <4>1, <4>2, <4>3 DEF OthersSame, Same
    <3>3. QED
      BY <3>1, <3>2
  <2>4. QED
    BY <1>3, <2>3 DEF WaitInv, Holder
<1>7. CASE Connect_OK(w) \/ Register_Callbacks(w)
  <2>1. UNCHANGED dnc /\ (Goto(w, "register") \/ Goto(w, "connected"))
    BY <1>7 DEF Connect_OK, Register_Callbacks
  <2>2. KeepsAtLock(w)
    BY <1>1, <2>1, Going DEF KeepsAtLock, Locking
  <2>3. QED
    BY <1>1, <1>4, <2>1, <2>2, LocksAreOpen
<1>8. CASE Connect_Fails(w) \/ Connect_Again(w) \/ Set_Connected(w)
  <2>1. Only(d) /\ dnc'[d].lock = "none"
    <3>1. CASE dnc' = Unlock(d)
      BY <1>1, <1>2, <3>1, StoredLock DEF Unlock
    <3>2. CASE Set_Connected(w)
      <4>1. StillUp(d) \in BOOLEAN
        BY DEF StillUp
      <4>2. QED
        BY <1>1, <1>2, <3>2, <4>1, StoredConnected DEF Set_Connected
    <3>3. QED
      BY <1>8, <3>1, <3>2 DEF Connect_Fails, Connect_Again
  <2>2. QED
    BY <1>1, <1>2, <1>3, <2>1, LocksAreOpen, HolderLeaves DEF WaitInv
<1>9. CASE Relock(w)
  <2>1. UNCHANGED dnc /\ pc[w] \notin Locking
    BY <1>9 DEF Relock, Uses, At, Locking
  <2>2. QED
    BY <1>1, <1>4, <2>1, LocksAreOpen DEF KeepsAtLock
<1>10. CASE Rebuild_Init(w)
  <2>1. /\ \/ UNCHANGED dnc
           \/ \E s \in Socks : dnc' = [dnc EXCEPT ![d].sock = s, ![d].status = "INIT"]
        /\ pc[w] \notin Locking
    BY <1>10 DEF Rebuild_Init, InitState, Uses, At, Locking
  <2> HIDE DEF d
  <2>2. LocksOpen
    BY <1>1, <1>2, <2>1, StoredInit, LocksAreOpen
  <2>3. QED
    BY <1>4, <2>1, <2>2 DEF KeepsAtLock
<1>11. QED
  BY <1>5, <1>6, <1>7, <1>8, <1>9, <1>10 DEF HandlerStep

LEMMA CallKeepsWaits ==
  ASSUME TypeInv, WaitInv, NEW p \in Procs, Call(p)
  PROVE  WaitInv'
<1>1. ThreadTypes /\ ControlOK /\ StateTypes /\ OthersSame(p) /\ p \in Threads /\ Control(p)
  BY CallKeepsThreads DEF TypeInv, ControlOK, Threads
<1>2. pc[p] = "idle" /\ job[p] = "none"
  BY <1>1 DEF Call, Create_DMS_Node_Container, Destroy_DMS_Node_Container, Send_Msg,
              Release_DNCS_Manager, Idle, At, Control
<1>3. ASSUME LocksOpen PROVE Holder'
  BY <1>1, <1>2, <1>3, HolderKept DEF WaitInv, KeepsAtLock, Locking
<1>4. ASSUME UNCHANGED mgr PROVE Holding'
  BY <1>1, <1>2, <1>4, HoldingKept DEF WaitInv, UnloadsOn
<1>5. ASSUME NEW a \in Addrs, Create_DMS_Node_Container(p, a) PROVE WaitInv'
  <2>1. ASSUME NEW d \in Dncs, life[d] = "fresh", NEW s \in Socks, NewSocket(d, s),
               dnc' = [dnc EXCEPT ![d] = [Blank(a) EXCEPT !.sock = s, !.status = "INIT"]],
               Begin(p, "build", d, 0, "occupy")
        PROVE  LocksOpen
    <3>1. StateTypes /\ dnc' = [dnc EXCEPT ![d] = [Blank(a) EXCEPT !.sock = s, !.status = "INIT"]]
      BY <1>1, <2>1
    <3>2. Only(d) /\ dnc'[d].lock = "none"
      BY <3>1, StoredBlank
    <3>3. QED
      BY <1>1, <3>2, LocksAreOpen
  <2>2. LocksOpen
    <3>1. CASE UNCHANGED <<dnc, sk, tvars>>
      BY <1>1, <3>1, LocksAreOpen
    <3>2. QED
      BY <1>5, <2>1, <3>1, Creating
  <2>3. UNCHANGED mgr
    BY <1>5 DEF Create_DMS_Node_Container
  <2>4. QED
    BY <1>3, <1>4, <2>2, <2>3 DEF WaitInv
<1>6. ASSUME NEW i \in Nodes, Destroy_DMS_Node_Container(p, i) \/ Send_Msg(p, i) PROVE WaitInv'
  <2>1. UNCHANGED <<dnc, mgr>>
    BY <1>6 DEF Destroy_DMS_Node_Container, Send_Msg
  <2>2. QED
    BY <1>1, <1>3, <1>4, <2>1, LocksAreOpen DEF WaitInv
<1>7. CASE Release_DNCS_Manager(p)
  <2>1. UNCHANGED dnc /\ mgr' = p /\ Begin(p, "unload", "none", 0, "next")
    BY <1>7 DEF Release_DNCS_Manager
  <2>2. job'[p] = "unload" /\ pc'[p] = "next"
    BY <1>1, <2>1 DEF Begin, ThreadTypes
  <2>3. QED
    BY <1>1, <1>3, <2>1, <2>2, LocksAreOpen DEF WaitInv, Holding
<1>8. QED
  BY <1>5, <1>6, <1>7 DEF Call

LEMMA RunWorkKeepsWaits ==
  ASSUME TypeInv, WaitInv, NEW w \in Workers, NEW d \in Dncs, Run_Work(w, d)
  PROVE  WaitInv'
<1>1. ThreadTypes /\ ControlOK /\ StateTypes /\ OthersSame(w) /\ w \in Threads /\ Control(w)
  BY RunWorkKeepsThreads DEF TypeInv, ControlOK, Threads
<1>2. /\ dnc' = [dnc EXCEPT ![d].work = "none"] /\ UNCHANGED mgr
      /\ pc[w] = "idle" /\ job[w] = "none"
  BY <1>1 DEF Run_Work, At, Control
<1>3. LocksOpen
  BY <1>1, <1>2, StoredWork, LocksAreOpen
<1>4. KeepsAtLock(w) /\ UnloadsOn(w)
  BY <1>2 DEF KeepsAtLock, UnloadsOn, Locking
<1>5. QED
  BY <1>1, <1>2, <1>3, <1>4, HolderKept, HoldingKept DEF WaitInv

LEMMA KernelKeepsWaits ==
  ASSUME TypeInv, WaitInv,
         \/ \E d \in Dncs : Timer(d) \/ Run_Freed(d)
         \/ \E s \in Socks : Lose_Unnoticed(s) \/ Socket_State_Change(s) \/ State_Change_Fault(s)
         \/ UNCHANGED vars
  PROVE  WaitInv'
<1>1. StateTypes /\ UNCHANGED <<tvars, mgr>>
  BY DEF TypeInv, Timer, Run_Freed, Lose_Unnoticed, Socket_State_Change, State_Change_Fault, Crash, vars
<1>2. LocksOpen
  <2>1. ASSUME NEW d \in Dncs, Timer(d) PROVE LocksOpen
    <3>1. UNCHANGED dnc \/ dnc' = [dnc EXCEPT ![d].work = "queue"]
      BY <2>1 DEF Timer, Crash
    <3>2. QED
      BY <1>1, <3>1, StoredWork, LocksAreOpen
  <2>2. ASSUME NEW s \in Socks, Socket_State_Change(s) PROVE LocksOpen
    <3>1. sk[s].user \in Dncs /\ dnc' = Rebuild(sk[s].user)
      BY <1>1, <2>2 DEF Socket_State_Change, StateTypes
    <3>2. QED
      BY <1>1, <3>1, StoredRebuild, LocksAreOpen
  <2>3. CASE UNCHANGED dnc
    BY <1>1, <2>3, LocksAreOpen
  <2>4. QED
    BY <2>1, <2>2, <2>3 DEF Run_Freed, Lose_Unnoticed, State_Change_Fault, Crash, vars
<1>3. Holder'
  <2>1. SUFFICES ASSUME NEW d \in Dncs, NEW w, w = dnc'[d].lock, w # "none"
                 PROVE  pc[w] \in Locking /\ cur[w] = d
    BY <1>1 DEF Holder, tvars
  <2>2. QED
    BY <1>2, <2>1 DEF LocksOpen, WaitInv, Holder
<1>4. QED
  BY <1>1, <1>3 DEF WaitInv, Holding, tvars

LEMMA NextKeepsWaits ==
  ASSUME TypeInv, WaitInv, [Next]_vars
  PROVE  WaitInv'
BY CallKeepsWaits, ProcStepKeepsWaits, HandlerStepKeepsWaits, RunWorkKeepsWaits, StepKeepsWaits,
   KernelKeepsWaits DEF Next

\* No container is locked when every thread waits: who holds such a lock goes on.  So all of
\* them wait for dms_nodes_lock or for the queue to be flushed.
LEMMA WhoWaits ==
  ASSUME TypeInv, WaitInv, \A t \in Busy : Waits(t), NEW t \in Busy
  PROVE  \/ pc[t] \in {"occupy", "clean"} /\ mgr # "none"
         \/ pc[t] \in {"flush", "builder"} /\ ~Flushed(t)
<1>1. ThreadTypes /\ ControlOK /\ StateTypes /\ t \in Threads
  BY DEF TypeInv, Busy
<1>2. ASSUME NEW d \in Dncs PROVE Unlocked(d)
  <2>1. SUFFICES ASSUME NEW w, w = dnc[d].lock, w # "none" PROVE FALSE
    BY DEF Unlocked
  <2>2. w \in Threads /\ pc[w] \in Locking
    BY <1>1, <2>1, Contents DEF WaitInv, Holder, Threads
  <2>3. Waits(w)
    BY <2>2 DEF Busy, Locking
  <2>4. QED
    BY <2>2, <2>3 DEF Waits, Locking
<1>3. pc[t] \in {"schedule", "cancel", "take", "lock", "relock", "init"} => Target(t) \in Dncs
  BY <1>1, SomeTarget DEF Releases, Drops
<1>4. pc[t] = "handler" => cur[t] \in Dncs
  BY <1>1, SomeTarget
<1>5. QED
  BY <1>2, <1>3, <1>4 DEF Waits

\* When every thread waits and no work is queued, a Release_DNCS_Manager flushes the queue
\* with dms_nodes_lock held and a handler wants that lock, or two handlers flush the queue
\* for each other.
THEOREM DeadlocksAreKnown == Spec => []DeadlockIsKnown
<1>1. Init => WaitInv
  BY DEF Init, WaitInv, Holder, Holding, Blank
<1>2. TypeInv /\ WaitInv /\ [Next]_vars => WaitInv'
  BY NextKeepsWaits
<1>3. TypeInv /\ WaitInv => DeadlockIsKnown
  <2> DEFINE Manager == \E w \in Workers : pc[w] = "clean" /\ mgr # "none" /\ pc[mgr] = "flush"
             Handlers == \E v, w \in Workers : v # w /\ pc[v] = "flush" /\ pc[w] = "flush"
  <2>1. SUFFICES ASSUME TypeInv, WaitInv, NEW t \in Busy, \A u \in Busy : Waits(u),
                        \A d \in Dncs : dnc[d].work = "none"
                 PROVE  Manager \/ Handlers
    BY DEF DeadlockIsKnown
  <2> HIDE DEF Manager, Handlers
  <2>2. \A u \in Busy : \/ pc[u] \in {"occupy", "clean"} /\ mgr # "none"
                        \/ pc[u] \in {"flush", "builder"} /\ ~Flushed(u)
    BY <2>1, WhoWaits
  <2>3. ASSUME NEW w \in Workers \cap Busy
        PROVE  (pc[w] = "clean" /\ mgr # "none") \/ (pc[w] = "flush" /\ ~Flushed(w))
    <3>1. Control(w)
      BY <2>1 DEF TypeInv, ControlOK, Busy
    <3>2. QED
      BY <2>2, <2>3, <3>1 DEF Control
  <2>4. ASSUME NEW u, ~Flushed(u) PROVE \E w \in Workers \cap Busy : w # u
    BY <2>1, <2>4 DEF Flushed, Busy, Threads
  <2>5. ASSUME NEW u, ~Flushed(u)
        PROVE  (mgr # "none" /\ \E w \in Workers : pc[w] = "clean") \/ Handlers
    <3>1. PICK v \in Workers \cap Busy : v # u
      BY <2>4, <2>5
    <3>2. CASE pc[v] = "clean" /\ mgr # "none"
      BY <3>2
    <3>3. CASE pc[v] = "flush" /\ ~Flushed(v)
      <4>1. PICK w \in Workers \cap Busy : w # v
        BY <2>4, <3>3
      <4>2. QED
        BY <2>3, <3>3, <4>1 DEF Handlers
    <3>4. QED
      BY <2>3, <3>2, <3>3
  <2>6. CASE mgr = "none"
    BY <2>1, <2>2, <2>5, <2>6
  <2>7. CASE mgr # "none"
    <3>1. mgr \in Threads /\ Control(mgr) /\ job[mgr] = "unload" /\ pc[mgr] # "builder"
      BY <2>1, <2>7 DEF WaitInv, Holding, TypeInv, StateTypes, ControlOK, Threads
    <3>2. mgr \in Busy
      BY <3>1 DEF Control, Busy
    <3>3. pc[mgr] = "flush" /\ ~Flushed(mgr)
      BY <2>2, <3>1, <3>2 DEF Control
    <3>4. QED
      BY <2>5, <2>7, <3>3 DEF Manager
  <2>8. QED
    BY <2>6, <2>7
<1>4. QED
  BY <1>1, <1>2, <1>3, TypesHold, PTL DEF Spec
=============================================================================
