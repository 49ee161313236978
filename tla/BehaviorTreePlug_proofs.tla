----------------------- MODULE BehaviorTreePlug_proofs -----------------------
(***************************************************************************)
(* Safety of the plugin's lifecycle for any number of handlers, managers   *)
(* and calls.  The invariant says, for each place of on_start() and        *)
(* on_stop(), what is there (HostOK), when everything is at rest (RestOK), *)
(* who holds a lock (LockOK), whose pointer is good (PointersOK) and what  *)
(* tree the monitor may be ignorant of (KnownOK).                          *)
(***************************************************************************)
EXTENDS BehaviorTreePlug, TLAPS

-----------------------------------------------------------------------------
(* The inductive invariant *)

\* Places of the Host thread.
Building == {"init", "subscribe", "http", "monitor", "monstart", "worker", "callbacks"}
Up == {"on", "drain"}
Leaving == {"clear", "monstop"}
Ending == {"shutdown", "stop", "join", "delete"}

\* A manager lives.  (on_stop() may be called when there is none.)
Living == host \in Building \cup Up \cup Ending \/ (host \in Leaving /\ started)

\* No handler is at work and none is dispatched.
Quiet == ~subscribed /\ ~open /\ Drained

HostOK ==
  /\ Living => instance \in 1..made /\ alive = {instance}
  /\ ~Living => alive = {}
  /\ host \in {"off", "failed", "faildrain"} => instance = 0 /\ ~started
  /\ host \in Leaving /\ ~started => instance = 0
  /\ host \in Building \cup Up => started /\ ~failed
  /\ host \in {"failed", "faildrain"} => failed
  /\ host \in {"drain", "faildrain"} => ~subscribed /\ ~open
  /\ host \in {"off", "init", "subscribe"} \cup Leaving => Quiet
  /\ host \in Ending \cup {"null"} /\ ~failed => Quiet

\* stopping_, the monitor and its callbacks, place by place.
MonitorOK ==
  /\ host \in Building \cup Up => ~stopping
  /\ host \in {"stop", "join"} => stopping
  /\ host = "delete" => stopping \/ Quiet
  /\ host \in Building \ {"callbacks"} => ~worker
  /\ host = "worker" => monitor = "running"
  /\ host \in {"callbacks"} \cup Up => (monitor = "running" /\ worker) \/ stopRequested
  /\ host \in {"monstart", "callbacks"} \cup Up => monitor # "none"
  /\ host \in Leaving /\ started => monitor # "none"
  /\ host \in Up => callbacks
  /\ callbacks => host \in Up \cup {"clear"} /\ started
  /\ host \notin Up \cup {"clear"} => delivering = Free

\* Places of a handler inside start() or stop(), with lifecycle_mtx_ held.
Starting == {"switch", "tell", "telling", "run"}
Holding == Starting \cup {"spawn", "join"}

Rest ==
  /\ tick = "none" /\ ~running /\ lifecycle = Free /\ delivering = Free /\ tree = 0
  /\ \A h \in Handlers : at[h] \notin Holding

\* Before a manager can be reached, and from its stop() on, nothing moves.
RestOK == alive = {} \/ host \in {"init", "subscribe", "delete"} => Rest

LockOK ==
  /\ \A h \in Handlers :
       /\ at[h] \in Holding <=> lifecycle = h
       /\ at[h] = "telling" <=> delivering = h
       /\ at[h] \in Starting => ~running
       /\ at[h] = "spawn" => running
       /\ at[h] \in Starting \cup {"spawn"} => tick = "none" /\ op[h] = "start"
       /\ at[h] = "join" => ~running
       /\ at[h] = "load" => op[h] = "load"
  /\ lifecycle = Host => ~running
  /\ lifecycle = Free /\ ~running => tick = "none"

PointersOK ==
  \A h \in Handlers :
    /\ Living /\ at[h] \notin {"idle", "crashed"} => ptr[h] = instance
    /\ at[h] = "crashed" => failed

\* Someone is about to tell the monitor, or is telling it.
BeingTold == tick \in {"tell", "telling"} \/ \E h \in Handlers : at[h] \in {"tell", "telling"}

KnownOK ==
  /\ host \in Building => tree = 0 \/ excused
  /\ host = "on" /\ monitor = "running" => tree \in {0, monitorTree} \/ excused \/ BeingTold

IInv == TypeOK /\ HostOK /\ MonitorOK /\ RestOK /\ LockOK /\ PointersOK /\ KnownOK

-----------------------------------------------------------------------------
(* Initially *)

LEMMA InitIInv == Init => IInv
<1> SUFFICES ASSUME Init PROVE IInv
  OBVIOUS
<1> USE BoundsAssumption, ThreadsAssumption DEF Init
<1>1. TypeOK
  <2>1. {failed, started, subscribed, open, stopping, running, pending, callbacks, worker,
         stopRequested, excused} \subseteq BOOLEAN
    OBVIOUS
  <2>2. at \in [Handlers -> {"idle"}] /\ op \in [Handlers -> Operations]
    BY DEF Operations
  <2> QED
    BY <2>1, <2>2 DEF TypeOK, Host, Tick, Free
<1>2. ~Living /\ Quiet /\ Rest
  BY DEF Living, Building, Up, Ending, Leaving, Quiet, Drained, Rest, Holding, Starting
<1>3. HostOK /\ MonitorOK /\ RestOK /\ KnownOK
  BY <1>2 DEF HostOK, MonitorOK, RestOK, KnownOK, Building, Up, Ending, Leaving
<1>4. LockOK /\ PointersOK
  BY <1>2 DEF LockOK, PointersOK, Holding, Starting, Host, Free
<1> QED
  BY <1>1, <1>3, <1>4 DEF IInv

-----------------------------------------------------------------------------
(* The types *)

Flags ==
  /\ failed \in BOOLEAN /\ started \in BOOLEAN /\ subscribed \in BOOLEAN /\ open \in BOOLEAN
  /\ stopping \in BOOLEAN /\ running \in BOOLEAN /\ pending \in BOOLEAN
  /\ callbacks \in BOOLEAN /\ worker \in BOOLEAN
  /\ stopRequested \in BOOLEAN /\ excused \in BOOLEAN

LEMMA FlagsTyped == Flags <=> {failed, started, subscribed, open, stopping, running, pending,
                              callbacks, worker, stopRequested, excused} \subseteq BOOLEAN
  BY DEF Flags

-----------------------------------------------------------------------------
(* Steps and types *)

HostStep == OnStart \/ Withdraw \/ HostRuns \/ RequestStop \/ WorkerEnds

\* Only a handler changes what the handlers are doing.
LEMMA HostFrame ==
  HostStep \/ TickStep \/ UNCHANGED vars
    => UNCHANGED handling /\ (made' = made \/ made' = made + 1)
  BY DEF HostStep, HostRuns, TickStep, vars, plugin, singleton, flags, tie, view, handling,
         counts, DropTree,
         OnStart, InitManager, Subscribe, OpenEndpoint, MakeMonitor, RunMonitor, RunWorker,
         MonitorFails, RequestStop, SetMonitorCallbacks, Withdraw, OnStop, ClearMonitorCallbacks, StopMonitor,
         BeginShutdown, HostStop, HostJoin, DeleteManager, NullManager, WorkerEnds,
         TickLeave, TickStatus, TickStatusDone, TickSwitch, TickTell, TickTold

LEMMA NextFlags == Flags /\ [Next]_vars => Flags'
<1> SUFFICES ASSUME Flags, [Next]_vars PROVE Flags'
  OBVIOUS
<1> USE DEF Flags, plugin, singleton, flags, tie, view, handling, counts, HostGoto, Goto, Return,
            NewTree, TellTree, DropTree
<1>1. CASE OnStart
  BY <1>1 DEF OnStart
<1>2. CASE InitManager
  BY <1>2 DEF InitManager
<1>3. CASE Subscribe
  BY <1>3 DEF Subscribe
<1>4. CASE OpenEndpoint
  BY <1>4 DEF OpenEndpoint
<1>5. CASE MakeMonitor
  BY <1>5 DEF MakeMonitor
<1>6. CASE RunMonitor
  BY <1>6 DEF RunMonitor
<1>7. CASE RunWorker
  BY <1>7 DEF RunWorker
<1>8. CASE SetMonitorCallbacks
  BY <1>8 DEF SetMonitorCallbacks
<1>9. CASE Withdraw
  BY <1>9 DEF Withdraw
<1>10. CASE OnStop
  BY <1>10 DEF OnStop
<1>11. CASE ClearMonitorCallbacks
  BY <1>11 DEF ClearMonitorCallbacks
<1>12. CASE StopMonitor
  BY <1>12 DEF StopMonitor
<1>13. CASE BeginShutdown
  BY <1>13 DEF BeginShutdown
<1>14. CASE HostStop
  BY <1>14 DEF HostStop
<1>15. CASE HostJoin
  BY <1>15 DEF HostJoin
<1>16. CASE DeleteManager
  BY <1>16 DEF DeleteManager
<1>17. CASE NullManager
  BY <1>17 DEF NullManager
<1>18. CASE WorkerEnds
  BY <1>18 DEF WorkerEnds
<1>19. CASE MonitorFails
  BY <1>19 DEF MonitorFails
<1>20. CASE RequestStop
  BY <1>20 DEF RequestStop
<1>21. CASE TickLeave
  BY <1>21 DEF TickLeave
<1>22. CASE TickStatus
  BY <1>22 DEF TickStatus
<1>23. CASE TickStatusDone
  BY <1>23 DEF TickStatusDone
<1>24. CASE TickSwitch
  BY <1>24 DEF TickSwitch
<1>25. CASE TickTell
  BY <1>25 DEF TickTell
<1>26. CASE TickTold
  BY <1>26 DEF TickTold
<1>27. ASSUME NEW h \in Handlers, NEW o \in Operations, Enter(h, o) PROVE Flags'
  BY <1>27 DEF Enter
<1>28. ASSUME NEW h \in Handlers, Refetch(h) PROVE Flags'
  BY <1>28 DEF Refetch
<1>29. ASSUME NEW h \in Handlers, LoadTree(h) PROVE Flags'
  BY <1>29 DEF LoadTree
<1>30. ASSUME NEW h \in Handlers, CheckRunning(h) PROVE Flags'
  BY <1>30 DEF CheckRunning
<1>31. ASSUME NEW h \in Handlers, StartCheck(h) PROVE Flags'
  BY <1>31 DEF StartCheck
<1>32. ASSUME NEW h \in Handlers, StartSwitch(h) PROVE Flags'
  BY <1>32 DEF StartSwitch
<1>33. ASSUME NEW h \in Handlers, StartTell(h) PROVE Flags'
  BY <1>33 DEF StartTell
<1>34. ASSUME NEW h \in Handlers, StartTold(h) PROVE Flags'
  BY <1>34 DEF StartTold
<1>35. ASSUME NEW h \in Handlers, StartRun(h) PROVE Flags'
  BY <1>35 DEF StartRun
<1>36. ASSUME NEW h \in Handlers, StartSpawn(h) PROVE Flags'
  BY <1>36 DEF StartSpawn
<1>37. ASSUME NEW h \in Handlers, StartSpawnFails(h) PROVE Flags'
  BY <1>37 DEF StartSpawnFails
<1>38. ASSUME NEW h \in Handlers, StopExchange(h) PROVE Flags'
  BY <1>38 DEF StopExchange
<1>39. ASSUME NEW h \in Handlers, StopJoin(h) PROVE Flags'
  BY <1>39 DEF StopJoin
<1>40. ASSUME NEW h \in Handlers, Crash(h) PROVE Flags'
  BY <1>40 DEF Crash
<1>41. CASE UNCHANGED vars
  BY <1>41 DEF vars
<1> QED
  BY <1>1, <1>2, <1>3, <1>4, <1>5, <1>6, <1>7, <1>8, <1>9, <1>10, <1>11, <1>12, <1>13, <1>14,
     <1>15, <1>16, <1>17, <1>18, <1>19, <1>20, <1>21, <1>22, <1>23, <1>24, <1>25, <1>26, <1>27,
     <1>28, <1>29, <1>30, <1>31, <1>32, <1>33, <1>34, <1>35, <1>36, <1>37, <1>38, <1>39, <1>40,
     <1>41
     DEF Next, HostRuns, TickStep, HandlerStep

Places == {"idle", "refetch", "load", "check", "lock", "switch", "tell", "telling", "run",
           "spawn", "join", "crashed"}

HandlersTyped ==
  /\ at \in [Handlers -> Places] /\ op \in [Handlers -> Operations]
  /\ ptr \in [Handlers -> 0..made] /\ calls \in 0..MaxCalls

LEMMA NextHandlersTyped == TypeOK /\ [Next]_vars => HandlersTyped'
<1> SUFFICES ASSUME TypeOK, [Next]_vars PROVE HandlersTyped'
  OBVIOUS
<1>t. HandlersTyped /\ instance \in 0..made /\ made \in Nat /\ MaxCalls \in Nat
  BY BoundsAssumption DEF TypeOK, HandlersTyped, Places
<1> USE <1>t DEF HandlersTyped, plugin, singleton, flags, handling, counts, Goto, Return, Places,
                 Operations
<1>1. CASE HostStep \/ TickStep \/ UNCHANGED vars
  <2>1. UNCHANGED handling /\ made' \in Nat /\ made <= made'
    BY <1>1, HostFrame
  <2>2. \A h \in Handlers : ptr[h] \in 0..made'
    BY <2>1
  <2> QED
    BY <2>1, <2>2
<1>2. ASSUME NEW h \in Handlers, NEW o \in Operations, Enter(h, o) PROVE HandlersTyped'
  <2>1. at' = [at EXCEPT ![h] = FirstStep[o]] /\ FirstStep[o] \in Places
    BY <1>2 DEF Enter, FirstStep
  <2>2. UNCHANGED made
    BY <1>2 DEF Enter
  <2> QED
    BY <1>2, <2>1, <2>2 DEF Enter
<1>3. ASSUME NEW h \in Handlers, Refetch(h) PROVE HandlersTyped'
  BY <1>3 DEF Refetch
<1>4. ASSUME NEW h \in Handlers, UNCHANGED made,
             Return(h) \/ \E where \in Places : Goto(h, where)
      PROVE  HandlersTyped'
  BY <1>4
<1>5. ASSUME NEW h \in Handlers,
             \/ LoadTree(h) \/ CheckRunning(h) \/ StartCheck(h) \/ StartSwitch(h) \/ StartTell(h)
             \/ StartTold(h) \/ StartRun(h) \/ StartSpawn(h) \/ StartSpawnFails(h)
             \/ StopExchange(h) \/ StopJoin(h) \/ Crash(h)
      PROVE  HandlersTyped'
  <2>1. UNCHANGED made
    BY <1>5 DEF LoadTree, CheckRunning, StartCheck, StartSwitch, StartTell, StartTold, StartRun,
                StartSpawn, StartSpawnFails, StopExchange, StopJoin, Crash
  <2>2. Return(h) \/ \E where \in Places : Goto(h, where)
    BY <1>5 DEF LoadTree, CheckRunning, StartCheck, StartSwitch, StartTell, StartTold, StartRun,
                StartSpawn, StartSpawnFails, StopExchange, StopJoin, Crash
  <2> QED
    BY <1>4, <2>1, <2>2
<1> QED
  BY <1>1, <1>2, <1>3, <1>5 DEF Next, HandlerStep, HostStep

HostTyped ==
  /\ host \in {"off", "init", "subscribe", "http", "monitor", "monstart", "worker",
               "callbacks", "on", "drain", "faildrain", "failed", "clear", "monstop",
               "shutdown", "stop", "join", "delete", "null"}
  /\ instance \in 0..made /\ made \in 0..MaxManagers /\ alive \subseteq 1..made
  /\ lifecycle \in Handlers \cup {Host, Free}
  /\ delivering \in Handlers \cup {Tick, Free}
  /\ tick \in {"none", "ready", "status", "tell", "telling"}
  /\ trees \in Nat /\ tree \in 0..trees /\ monitorTree \in 0..trees
  /\ monitor \in {"none", "stopped", "running"}
  /\ delivering = Tick <=> tick \in {"status", "telling"}
  /\ lifecycle = Host <=> host = "join"

LEMMA NextHostTyped == HostTyped /\ LockOK /\ [Next]_vars => HostTyped'
<1> SUFFICES ASSUME HostTyped, LockOK, [Next]_vars PROVE HostTyped'
  OBVIOUS
<1>l. /\ Host \notin Handlers /\ Tick \notin Handlers /\ Free \notin Handlers
      /\ Host # Free /\ Tick # Free
  BY ThreadsAssumption DEF Host, Tick, Free
<1>h. \A h \in Handlers : /\ at[h] \in Starting \cup {"spawn"} => lifecycle = h /\ tick = "none"
                          /\ at[h] = "join" => lifecycle = h
                          /\ at[h] = "telling" => delivering = h
  BY DEF LockOK, Holding, Starting
<1>n. NewTree /\ UNCHANGED monitorTree =>
        trees' \in Nat /\ tree' \in 0..trees' /\ monitorTree' \in 0..trees'
  <2> SUFFICES ASSUME NewTree, UNCHANGED monitorTree
               PROVE  trees' \in Nat /\ tree' \in 0..trees' /\ monitorTree' \in 0..trees'
    OBVIOUS
  <2>1. CASE trees' = trees + 1 /\ tree' = trees'
    BY <2>1 DEF HostTyped
  <2>2. CASE tree' = 0 /\ UNCHANGED trees
    BY <2>2 DEF HostTyped
  <2> QED
    BY <2>1, <2>2 DEF NewTree
<1> USE <1>l, <1>h, BoundsAssumption
    DEF HostTyped, plugin, singleton, flags, tie, view, handling, counts, HostGoto,
        TellTree, DropTree, Starting, Inside
<1>1. CASE OnStart
  <2>1. CASE instance # 0
    BY <1>1, <2>1 DEF OnStart
  <2>2. CASE instance = 0
    <3>1. made + 1 \in 0..MaxManagers /\ made' = made + 1 /\ instance' = made'
          /\ alive' = alive \cup {made'}
      BY <1>1, <2>2 DEF OnStart
    <3>2. instance' \in 0..made' /\ made' \in 0..MaxManagers /\ alive' \subseteq 1..made'
      BY <3>1
    <3> QED
      BY <1>1, <2>2, <3>2 DEF OnStart
  <2> QED
    BY <2>1, <2>2
<1>2. CASE InitManager
  BY <1>2 DEF InitManager
<1>3. CASE Subscribe
  BY <1>3 DEF Subscribe
<1>4. CASE OpenEndpoint
  BY <1>4 DEF OpenEndpoint
<1>5. CASE MakeMonitor
  BY <1>5 DEF MakeMonitor
<1>6. CASE RunMonitor
  BY <1>6 DEF RunMonitor
<1>7. CASE RunWorker
  BY <1>7 DEF RunWorker
<1>8. CASE SetMonitorCallbacks
  BY <1>8 DEF SetMonitorCallbacks
<1>9. CASE Withdraw
  BY <1>9 DEF Withdraw
<1>10. CASE OnStop
  BY <1>10 DEF OnStop
<1>11. CASE ClearMonitorCallbacks
  BY <1>11 DEF ClearMonitorCallbacks
<1>12. CASE StopMonitor
  BY <1>12 DEF StopMonitor
<1>13. CASE BeginShutdown
  BY <1>13 DEF BeginShutdown
<1>14. CASE HostStop
  BY <1>14 DEF HostStop
<1>15. CASE HostJoin
  BY <1>15 DEF HostJoin
<1>16. CASE DeleteManager
  BY <1>16 DEF DeleteManager
<1>17. CASE NullManager
  BY <1>17 DEF NullManager
<1>18. CASE WorkerEnds
  BY <1>18 DEF WorkerEnds
<1>19. CASE MonitorFails
  BY <1>19 DEF MonitorFails
<1>20. CASE RequestStop
  BY <1>20 DEF RequestStop
<1>21. CASE TickLeave
  BY <1>21 DEF TickLeave
<1>22. CASE TickStatus
  BY <1>22 DEF TickStatus
<1>23. CASE TickStatusDone
  BY <1>23 DEF TickStatusDone
<1>24. CASE TickSwitch
  BY <1>24, <1>n DEF TickSwitch
<1>25. CASE TickTell
  BY <1>25 DEF TickTell
<1>26. CASE TickTold
  BY <1>26 DEF TickTold
<1>27. ASSUME NEW h \in Handlers, NEW o \in Operations, Enter(h, o) PROVE HostTyped'
  BY <1>27 DEF Enter
<1>28. ASSUME NEW h \in Handlers, Refetch(h) PROVE HostTyped'
  BY <1>28 DEF Refetch
<1>29. ASSUME NEW h \in Handlers, LoadTree(h) PROVE HostTyped'
  BY <1>29 DEF LoadTree
<1>30. ASSUME NEW h \in Handlers, CheckRunning(h) PROVE HostTyped'
  BY <1>30 DEF CheckRunning
<1>31. ASSUME NEW h \in Handlers, StartCheck(h) PROVE HostTyped'
  BY <1>31 DEF StartCheck
<1>32. ASSUME NEW h \in Handlers, StartSwitch(h) PROVE HostTyped'
  BY <1>32, <1>n DEF StartSwitch
<1>33. ASSUME NEW h \in Handlers, StartTell(h) PROVE HostTyped'
  BY <1>33 DEF StartTell
<1>34. ASSUME NEW h \in Handlers, StartTold(h) PROVE HostTyped'
  BY <1>34 DEF StartTold
<1>35. ASSUME NEW h \in Handlers, StartRun(h) PROVE HostTyped'
  BY <1>35 DEF StartRun
<1>36. ASSUME NEW h \in Handlers, StartSpawn(h) PROVE HostTyped'
  BY <1>36 DEF StartSpawn
<1>37. ASSUME NEW h \in Handlers, StartSpawnFails(h) PROVE HostTyped'
  BY <1>37 DEF StartSpawnFails
<1>38. ASSUME NEW h \in Handlers, StopExchange(h) PROVE HostTyped'
  BY <1>38 DEF StopExchange
<1>39. ASSUME NEW h \in Handlers, StopJoin(h) PROVE HostTyped'
  BY <1>39 DEF StopJoin
<1>40. ASSUME NEW h \in Handlers, Crash(h) PROVE HostTyped'
  BY <1>40 DEF Crash
<1>41. CASE UNCHANGED vars
  BY <1>41 DEF vars
<1> QED
  BY <1>1, <1>2, <1>3, <1>4, <1>5, <1>6, <1>7, <1>8, <1>9, <1>10, <1>11, <1>12, <1>13, <1>14,
     <1>15, <1>16, <1>17, <1>18, <1>19, <1>20, <1>21, <1>22, <1>23, <1>24, <1>25, <1>26, <1>27,
     <1>28, <1>29, <1>30, <1>31, <1>32, <1>33, <1>34, <1>35, <1>36, <1>37, <1>38, <1>39, <1>40,
     <1>41
     DEF Next, HostRuns, TickStep, HandlerStep

LEMMA NextTypeOK == TypeOK /\ LockOK /\ [Next]_vars => TypeOK'
<1> SUFFICES ASSUME TypeOK, LockOK, [Next]_vars PROVE TypeOK'
  OBVIOUS
<1>1. Flags /\ HostTyped
  BY FlagsTyped DEF TypeOK, HostTyped
<1>2. Flags' /\ HostTyped' /\ HandlersTyped'
  BY <1>1, NextFlags, NextHostTyped, NextHandlersTyped
<1>3. {failed', started', subscribed', open', stopping', running', pending', callbacks', worker',
       stopRequested', excused'} \subseteq BOOLEAN
  BY <1>2 DEF Flags
<1> QED
  BY <1>2, <1>3 DEF TypeOK, HostTyped, HandlersTyped, Places

-----------------------------------------------------------------------------
(* Handlers and the tick thread, seen from the Host thread *)

HandlerOrTick ==
  \/ TickStep
  \/ \E h \in Handlers : HandlerStep(h) \/ Crash(h) \/ \E o \in Operations : Enter(h, o)

\* They leave the plugin and the monitor's life alone, and a handler only moves
\* where the plugin is not quiet.
LEMMA HandlerFrame ==
  ASSUME HandlerOrTick
  PROVE  /\ UNCHANGED <<host, plugin, singleton, stopping, callbacks, monitor, worker,
                          stopRequested>>
         /\ (Quiet => UNCHANGED at)
         /\ delivering' # Free => delivering' = delivering \/ callbacks
<1> USE DEF plugin, singleton, flags, tie, view, handling, counts
<1>1. CASE TickStep
  BY <1>1 DEF TickStep, TickLeave, TickStatus, TickStatusDone, TickSwitch, TickTell, TickTold
<1>2. ASSUME NEW h \in Handlers, HandlerStep(h)
      PROVE  /\ UNCHANGED <<host, plugin, singleton, stopping, callbacks, monitor, worker,
                          stopRequested>>
             /\ at[h] # "idle"
             /\ delivering' # Free => delivering' = delivering \/ callbacks
  BY <1>2 DEF HandlerStep, Inside, Refetch, LoadTree, CheckRunning, StartCheck, StartSwitch,
              StartTell, StartTold, StartRun, StartSpawn, StartSpawnFails, StopExchange, StopJoin
<1>3. ASSUME NEW h \in Handlers, Crash(h)
      PROVE  /\ UNCHANGED <<host, plugin, singleton, stopping, callbacks, monitor, worker,
                          stopRequested>>
             /\ at[h] # "idle" /\ UNCHANGED delivering
  BY <1>3 DEF Crash, Using
<1>4. ASSUME NEW h \in Handlers, NEW o \in Operations, Enter(h, o)
      PROVE  /\ UNCHANGED <<host, plugin, singleton, stopping, callbacks, monitor, worker,
                          stopRequested>>
             /\ (subscribed \/ open) /\ UNCHANGED delivering
  BY <1>4 DEF Enter
<1> QED
  BY <1>1, <1>2, <1>3, <1>4 DEF HandlerOrTick, Quiet, Drained

-----------------------------------------------------------------------------
(* What is there, place by place *)

LEMMA NextHostOK == TypeOK /\ HostOK /\ [Next]_vars => HostOK'
<1> SUFFICES ASSUME TypeOK, HostOK, [Next]_vars PROVE HostOK'
  OBVIOUS
<1>t. made \in Nat
  BY BoundsAssumption DEF TypeOK
<1> USE <1>t DEF HostOK, Living, Building, Up, Leaving, Ending, Quiet, Drained, plugin, singleton,
            handling, counts, HostGoto
<1>1. CASE OnStart
  BY <1>1 DEF OnStart
<1>2. CASE InitManager
  BY <1>2 DEF InitManager
<1>3. CASE Subscribe
  BY <1>3 DEF Subscribe
<1>4. CASE OpenEndpoint
  BY <1>4 DEF OpenEndpoint
<1>5. CASE MakeMonitor
  BY <1>5 DEF MakeMonitor
<1>6. CASE RunMonitor
  BY <1>6 DEF RunMonitor
<1>7. CASE RunWorker
  BY <1>7 DEF RunWorker
<1>8. CASE SetMonitorCallbacks
  BY <1>8 DEF SetMonitorCallbacks
<1>9. CASE Withdraw
  BY <1>9 DEF Withdraw
<1>10. CASE OnStop
  BY <1>10 DEF OnStop
<1>11. CASE ClearMonitorCallbacks
  BY <1>11 DEF ClearMonitorCallbacks
<1>12. CASE StopMonitor
  BY <1>12 DEF StopMonitor
<1>13. CASE BeginShutdown
  BY <1>13 DEF BeginShutdown
<1>14. CASE HostStop
  BY <1>14 DEF HostStop
<1>15. CASE HostJoin
  BY <1>15 DEF HostJoin
<1>16. CASE DeleteManager
  BY <1>16 DEF DeleteManager
<1>17. CASE NullManager
  BY <1>17 DEF NullManager
<1>18. CASE WorkerEnds
  BY <1>18 DEF WorkerEnds
<1>19. CASE MonitorFails
  BY <1>19 DEF MonitorFails
<1>20. CASE RequestStop
  BY <1>20 DEF RequestStop
<1>21. CASE HandlerOrTick
  BY <1>21, HandlerFrame
<1>22. CASE UNCHANGED vars
  BY <1>22 DEF vars
<1> QED
  BY <1>1, <1>2, <1>3, <1>4, <1>5, <1>6, <1>7, <1>8, <1>9, <1>10, <1>11, <1>12, <1>13, <1>14,
     <1>15, <1>16, <1>17, <1>18, <1>19, <1>20, <1>21, <1>22
     DEF Next, HostRuns, HandlerOrTick

LEMMA NextMonitorOK == TypeOK /\ HostOK /\ MonitorOK /\ RestOK /\ [Next]_vars => MonitorOK'
<1> SUFFICES ASSUME TypeOK, HostOK, MonitorOK, RestOK, [Next]_vars PROVE MonitorOK'
  OBVIOUS
<1> USE DEF HostOK, MonitorOK, RestOK, Rest, Living, Building, Up, Leaving, Ending, Quiet,
            Drained, plugin, singleton, flags, tie, view, handling, counts, HostGoto
<1>1. CASE OnStart
  BY <1>1 DEF OnStart
<1>2. CASE InitManager
  BY <1>2 DEF InitManager
<1>3. CASE Subscribe
  BY <1>3 DEF Subscribe
<1>4. CASE OpenEndpoint
  BY <1>4 DEF OpenEndpoint
<1>5. CASE MakeMonitor
  BY <1>5 DEF MakeMonitor
<1>6. CASE RunMonitor
  BY <1>6 DEF RunMonitor
<1>7. CASE RunWorker
  BY <1>7 DEF RunWorker
<1>8. CASE SetMonitorCallbacks
  BY <1>8 DEF SetMonitorCallbacks
<1>9. CASE Withdraw
  BY <1>9 DEF Withdraw
<1>10. CASE OnStop
  BY <1>10 DEF OnStop
<1>11. CASE ClearMonitorCallbacks
  BY <1>11 DEF ClearMonitorCallbacks
<1>12. CASE StopMonitor
  BY <1>12 DEF StopMonitor
<1>13. CASE BeginShutdown
  BY <1>13 DEF BeginShutdown
<1>14. CASE HostStop
  BY <1>14 DEF HostStop
<1>15. CASE HostJoin
  BY <1>15 DEF HostJoin
<1>16. CASE DeleteManager
  BY <1>16 DEF DeleteManager
<1>17. CASE NullManager
  BY <1>17 DEF NullManager
<1>18. CASE WorkerEnds
  BY <1>18 DEF WorkerEnds
<1>19. CASE MonitorFails
  BY <1>19 DEF MonitorFails
<1>20. CASE RequestStop
  BY <1>20 DEF RequestStop
<1>21. CASE HandlerOrTick
  BY <1>21, HandlerFrame
<1>22. CASE UNCHANGED vars
  BY <1>22 DEF vars
<1> QED
  BY <1>1, <1>2, <1>3, <1>4, <1>5, <1>6, <1>7, <1>8, <1>9, <1>10, <1>11, <1>12, <1>13, <1>14,
     <1>15, <1>16, <1>17, <1>18, <1>19, <1>20, <1>21, <1>22
     DEF Next, HostRuns, HandlerOrTick

-----------------------------------------------------------------------------
(* When nothing moves *)

LEMMA NextRestOK ==
  TypeOK /\ HostOK /\ MonitorOK /\ RestOK /\ LockOK /\ [Next]_vars => RestOK'
<1> SUFFICES ASSUME TypeOK, HostOK, MonitorOK, RestOK, LockOK, [Next]_vars PROVE RestOK'
  OBVIOUS
<1>l. /\ Host \notin Handlers /\ Tick \notin Handlers /\ Free \notin Handlers
      /\ Host # Free /\ Tick # Free
  BY ThreadsAssumption DEF Host, Tick, Free
<1>t. delivering \in Handlers \cup {Tick, Free} /\ lifecycle \in Handlers \cup {Host, Free}
      /\ (delivering = Tick => tick # "none") /\ (lifecycle = Host <=> host = "join")
  BY DEF TypeOK
<1>h. \A h \in Handlers : at[h] \in Holding => lifecycle = h
  BY DEF LockOK
<1>n. host = "join" => \A h \in Handlers : at[h] \notin Holding
  BY <1>l, <1>t, <1>h
<1>d. host = "join" => delivering = Free
  BY DEF MonitorOK, Up
<1> USE DEF plugin, singleton, flags, tie, view, handling, counts, HostGoto, RestOK, Rest
<1>1. CASE OnStart
  BY <1>1 DEF OnStart, HostOK, Living, Building, Up, Leaving, Ending
<1>2. CASE HostJoin
  <2>1. host = "join" /\ ~running
    BY <1>2, <1>t DEF HostJoin, LockOK
  <2> QED
    BY <1>2, <1>n, <1>d, <2>1 DEF HostJoin, DropTree
<1>3. CASE \/ InitManager \/ Subscribe \/ OpenEndpoint \/ MakeMonitor \/ RunMonitor \/ RunWorker
           \/ MonitorFails \/ RequestStop \/ SetMonitorCallbacks \/ Withdraw \/ OnStop \/ ClearMonitorCallbacks \/ StopMonitor
           \/ BeginShutdown \/ DeleteManager \/ NullManager \/ WorkerEnds
  <2>1. /\ UNCHANGED <<tick, running, lifecycle, delivering, tree, at>>
        /\ (alive' = {} \/ host' \in {"init", "subscribe", "delete"}
             => alive = {} \/ host \in {"init", "subscribe", "delete"})
    BY <1>3 DEF InitManager, Subscribe, OpenEndpoint, MakeMonitor, RunMonitor, RunWorker,
         MonitorFails, RequestStop, SetMonitorCallbacks, Withdraw, OnStop, ClearMonitorCallbacks, StopMonitor,
         BeginShutdown, DeleteManager, NullManager, WorkerEnds
  <2> QED
    BY <2>1
<1>4. CASE HostStop
  <2>1. alive' # {} /\ host' = "join"
    BY <1>4 DEF HostStop, HostOK, Living, Ending
  <2> QED
    BY <2>1
<1>5. CASE TickStep
  <2>1. tick # "none" /\ UNCHANGED <<alive, host>>
    BY <1>5 DEF TickStep, TickLeave, TickStatus, TickStatusDone, TickSwitch, TickTell, TickTold
  <2> QED
    BY <2>1
<1>6. ASSUME NEW h \in Handlers, HandlerStep(h) \/ Crash(h) \/ \E o \in Operations : Enter(h, o),
             Rest, alive = {} \/ host \in {"init", "subscribe", "delete"}
      PROVE  Rest'
  <2>1. CASE Crash(h) \/ \E o \in Operations : Enter(h, o)
    BY <2>1, <1>6 DEF Crash, Enter, Goto, Holding, Starting, TypeOK, FirstStep, Operations
  <2>2. CASE Refetch(h)
    BY <2>2, <1>6 DEF Refetch, Holding, Starting, TypeOK
  <2>3. CASE LoadTree(h) \/ CheckRunning(h)
    BY <2>3, <1>6 DEF LoadTree, CheckRunning, Goto, Return, Holding, Starting, TypeOK
  <2>4. CASE StartCheck(h)
    <3>1. alive # {} /\ ~Quiet
      BY <2>4 DEF StartCheck, Inside, Quiet, Drained
    <3>2. stopping
      BY <1>6, <3>1 DEF HostOK, MonitorOK
    <3> QED
      BY <2>4, <1>6, <3>2 DEF StartCheck, Return, Holding, Starting, TypeOK
  <2>5. CASE StopExchange(h)
    BY <2>5, <1>6 DEF StopExchange, Return, Holding, Starting, TypeOK
  <2>6. CASE \/ StartSwitch(h) \/ StartTell(h) \/ StartTold(h) \/ StartRun(h) \/ StartSpawn(h)
             \/ StartSpawnFails(h) \/ StopJoin(h)
    BY <2>6, <1>6 DEF StartSwitch, StartTell, StartTold, StartRun, StartSpawn, StartSpawnFails,
                      StopJoin, Inside, Holding, Starting
  <2> QED
    BY <1>6, <2>1, <2>2, <2>3, <2>4, <2>5, <2>6 DEF HandlerStep
<1>7. CASE \E h \in Handlers : HandlerStep(h) \/ Crash(h) \/ \E o \in Operations : Enter(h, o)
  <2>1. UNCHANGED <<alive, host>>
    BY <1>7, HandlerFrame DEF HandlerOrTick
  <2> QED
    BY <1>6, <1>7, <2>1
<1>8. CASE UNCHANGED vars
  BY <1>8 DEF vars
<1> QED
  BY <1>1, <1>2, <1>3, <1>4, <1>5, <1>7, <1>8 DEF Next, HostRuns

-----------------------------------------------------------------------------
(* The locks *)

LEMMA NextLockOK == TypeOK /\ HostOK /\ RestOK /\ LockOK /\ PointersOK /\ [Next]_vars => LockOK'
<1> SUFFICES ASSUME TypeOK, HostOK, RestOK, LockOK, PointersOK, [Next]_vars PROVE LockOK'
  OBVIOUS
<1>l. /\ Host \notin Handlers /\ Tick \notin Handlers /\ Free \notin Handlers
      /\ Host # Free /\ Tick # Free
  BY ThreadsAssumption DEF Host, Tick, Free
<1>t. /\ at \in [Handlers -> Places] /\ op \in [Handlers -> Operations]
      /\ delivering \in Handlers \cup {Tick, Free} /\ lifecycle \in Handlers \cup {Host, Free}
      /\ delivering = Tick <=> tick \in {"status", "telling"}
      /\ lifecycle = Host <=> host = "join"
  BY DEF TypeOK, Places
<1> USE <1>l, <1>t DEF plugin, singleton, flags, tie, view, handling, counts, HostGoto, LockOK,
            Holding, Starting
<1>1. CASE OnStart
  <2>1. Rest
    BY <1>1 DEF OnStart, RestOK, HostOK, Living, Building, Up, Leaving, Ending
  <2> QED
    BY <1>1, <2>1 DEF OnStart, Rest
<1>2. CASE HostStop
  BY <1>2 DEF HostStop
<1>3. CASE HostJoin
  BY <1>3 DEF HostJoin, DropTree
<1>4. CASE \/ InitManager \/ Subscribe \/ OpenEndpoint \/ MakeMonitor \/ RunMonitor \/ RunWorker
           \/ MonitorFails \/ RequestStop \/ SetMonitorCallbacks \/ Withdraw \/ OnStop \/ ClearMonitorCallbacks \/ StopMonitor
           \/ BeginShutdown \/ DeleteManager \/ NullManager \/ WorkerEnds \/ UNCHANGED vars
  <2>1. UNCHANGED <<tick, running, lifecycle, delivering, at, op>>
    BY <1>4 DEF InitManager, Subscribe, OpenEndpoint, MakeMonitor, RunMonitor, RunWorker,
         MonitorFails, RequestStop, SetMonitorCallbacks, Withdraw, OnStop, ClearMonitorCallbacks, StopMonitor,
         BeginShutdown, DeleteManager, NullManager, WorkerEnds, vars
  <2> QED
    BY <2>1
<1>5. CASE TickStep
  <2>1. UNCHANGED <<at, op, running, lifecycle>> /\ tick # "none"
    BY <1>5 DEF TickStep, TickLeave, TickStatus, TickStatusDone, TickSwitch, TickTell, TickTold
  <2>2. \/ delivering' = delivering \/ (delivering = Free /\ delivering' = Tick)
        \/ (delivering = Tick /\ delivering' = Free)
    BY <1>5 DEF TickStep, TickLeave, TickStatus, TickStatusDone, TickSwitch, TickTell, TickTold
  <2>3. running \/ tick' = "none" \/ lifecycle # Free
    BY <2>1
  <2> QED
    BY <2>1, <2>2, <2>3
<1>6. ASSUME NEW h \in Handlers, NEW o \in Operations, Enter(h, o) PROVE LockOK'
  BY <1>6 DEF Enter, FirstStep, Operations
<1>7. ASSUME NEW h \in Handlers, Refetch(h) PROVE LockOK'
  BY <1>7 DEF Inside, Goto, Return, DropTree, Refetch
<1>8. ASSUME NEW h \in Handlers, LoadTree(h) PROVE LockOK'
  BY <1>8 DEF Inside, Goto, Return, DropTree, LoadTree
<1>9. ASSUME NEW h \in Handlers, CheckRunning(h) PROVE LockOK'
  BY <1>9 DEF Inside, Goto, Return, DropTree, CheckRunning
<1>10. ASSUME NEW h \in Handlers, StartCheck(h) PROVE LockOK'
  BY <1>10 DEF Inside, Goto, Return, DropTree, StartCheck
<1>11. ASSUME NEW h \in Handlers, StartSwitch(h) PROVE LockOK'
  BY <1>11 DEF Inside, Goto, Return, DropTree, StartSwitch
<1>12. ASSUME NEW h \in Handlers, StartTell(h) PROVE LockOK'
  BY <1>12 DEF Inside, Goto, Return, DropTree, StartTell
<1>13. ASSUME NEW h \in Handlers, StartTold(h) PROVE LockOK'
  BY <1>13 DEF Inside, Goto, Return, DropTree, StartTold
<1>14. ASSUME NEW h \in Handlers, StartRun(h) PROVE LockOK'
  BY <1>14 DEF Inside, Goto, Return, DropTree, StartRun
<1>15. ASSUME NEW h \in Handlers, StartSpawn(h) PROVE LockOK'
  BY <1>15 DEF Inside, Goto, Return, DropTree, StartSpawn
<1>16. ASSUME NEW h \in Handlers, StartSpawnFails(h) PROVE LockOK'
  BY <1>16 DEF Inside, Goto, Return, DropTree, StartSpawnFails
<1>17. ASSUME NEW h \in Handlers, StopExchange(h) PROVE LockOK'
  BY <1>17 DEF Inside, Goto, Return, DropTree, StopExchange
<1>18. ASSUME NEW h \in Handlers, StopJoin(h) PROVE LockOK'
  BY <1>18 DEF Inside, Goto, Return, DropTree, StopJoin
<1>19. ASSUME NEW h \in Handlers, Crash(h) PROVE LockOK'
  <2>1. at[h] \notin Holding
    <3>1. alive = {}
      BY <1>19 DEF Crash, Using, HostOK, PointersOK
    <3> QED
      BY <3>1 DEF RestOK, Rest
  <2> QED
    BY <1>19, <2>1 DEF Crash, Goto
<1> QED
  BY <1>1, <1>2, <1>3, <1>4, <1>5, <1>6, <1>7, <1>8, <1>9, <1>10, <1>11, <1>12, <1>13, <1>14,
     <1>15, <1>16, <1>17, <1>18, <1>19
     DEF Next, HostRuns, HandlerStep

-----------------------------------------------------------------------------
(* The pointers of the handlers *)

LEMMA NextPointersOK ==
  TypeOK /\ HostOK /\ PointersOK /\ [Next]_vars => PointersOK'
<1> SUFFICES ASSUME TypeOK, HostOK, PointersOK, [Next]_vars PROVE PointersOK'
  OBVIOUS
<1>t. at \in [Handlers -> Places] /\ ptr \in [Handlers -> 0..made]
  BY DEF TypeOK, Places
<1> USE DEF plugin, singleton, handling, HostGoto
<1>1. CASE OnStart
  <2>1. \A h \in Handlers : at'[h] = "idle"
    BY <1>1 DEF OnStart, HostOK, Quiet, Drained
  <2> QED
    BY <2>1 DEF PointersOK
<1>2. CASE \/ InitManager \/ Subscribe \/ OpenEndpoint \/ MakeMonitor \/ RunMonitor \/ RunWorker
           \/ MonitorFails \/ RequestStop \/ SetMonitorCallbacks \/ Withdraw \/ OnStop \/ ClearMonitorCallbacks \/ StopMonitor
           \/ BeginShutdown \/ HostStop \/ HostJoin \/ DeleteManager \/ NullManager \/ WorkerEnds
           \/ UNCHANGED vars
  <2>1. UNCHANGED <<at, ptr>> /\ (failed => failed') /\ (Living' => Living /\ UNCHANGED instance)
    BY <1>2 DEF InitManager, Subscribe, OpenEndpoint, MakeMonitor, RunMonitor, RunWorker,
         MonitorFails, RequestStop, SetMonitorCallbacks, Withdraw, OnStop, ClearMonitorCallbacks, StopMonitor,
         BeginShutdown, HostStop, HostJoin, DeleteManager, NullManager, WorkerEnds, vars,
         HostOK, Living, Building, Up, Leaving, Ending
  <2> QED
    BY <2>1 DEF PointersOK
<1>3. CASE TickStep
  <2>1. UNCHANGED <<at, ptr, failed, instance, host, started>>
    BY <1>3 DEF TickStep, TickLeave, TickStatus, TickStatusDone, TickSwitch, TickTell, TickTold
  <2> QED
    BY <2>1 DEF PointersOK, Living
<1>4. ASSUME NEW h \in Handlers, HandlerStep(h) \/ \E o \in Operations : Enter(h, o)
      PROVE  PointersOK'
  <2>1. UNCHANGED <<failed, instance, host, started>>
    BY <1>4, HandlerFrame DEF HandlerOrTick
  <2>2. /\ \A g \in Handlers \ {h} : at'[g] = at[g] /\ ptr'[g] = ptr[g]
        /\ at'[h] # "crashed"
        /\ at'[h] = "idle" \/ ptr'[h] = instance \/ (at[h] \notin {"idle", "crashed"} /\ ptr'[h] = ptr[h])
    <3>1. CASE \E o \in Operations : Enter(h, o)
      BY <3>1, <1>t DEF Enter, FirstStep, Operations
    <3>2. CASE Refetch(h)
      BY <3>2, <1>t DEF Refetch
    <3>3. CASE LoadTree(h) \/ CheckRunning(h) \/ StartCheck(h) \/ StartSwitch(h)
      BY <3>3, <1>t DEF LoadTree, CheckRunning, StartCheck, StartSwitch, Inside, Goto, Return
    <3>4. CASE \/ StartTell(h) \/ StartTold(h) \/ StartRun(h) \/ StartSpawn(h)
               \/ StartSpawnFails(h) \/ StopExchange(h) \/ StopJoin(h)
      BY <3>4, <1>t DEF StartTell, StartTold, StartRun, StartSpawn, StartSpawnFails, StopExchange,
                        StopJoin, Inside, Goto, Return
    <3> QED
      BY <1>4, <3>1, <3>2, <3>3, <3>4 DEF HandlerStep
  <2> QED
    BY <2>1, <2>2 DEF PointersOK, Living
<1>5. ASSUME NEW h \in Handlers, Crash(h) PROVE PointersOK'
  <2>1. alive = {} /\ ~Living
    BY <1>5 DEF Crash, Using, HostOK, PointersOK
  <2>2. failed
    BY <1>5, <2>1 DEF Crash, Using, HostOK, TypeOK, Living, Building, Up, Leaving, Ending, Quiet, Drained
  <2> QED
    BY <1>5, <2>1, <2>2 DEF Crash, Goto, PointersOK, Living
<1> QED
  BY <1>1, <1>2, <1>3, <1>4, <1>5 DEF Next, HostRuns

-----------------------------------------------------------------------------
(* What the monitor knows *)

LEMMA NextKnownOK ==
  TypeOK /\ HostOK /\ MonitorOK /\ RestOK /\ LockOK /\ PointersOK /\ KnownOK /\ [Next]_vars
    => KnownOK'
<1> SUFFICES ASSUME TypeOK, HostOK, MonitorOK, RestOK, LockOK, PointersOK, KnownOK, [Next]_vars
             PROVE  KnownOK'
  OBVIOUS
<1>t. at \in [Handlers -> Places]
  BY DEF TypeOK, Places
<1>m. host = "on" => callbacks
  BY DEF MonitorOK, Up
<1> USE DEF plugin, singleton, flags, tie, view, handling, counts, HostGoto
<1>1. CASE OnStart
  BY <1>1 DEF OnStart, HostOK, Living, Building, Up, Leaving, Ending, RestOK, Rest, KnownOK
<1>2. CASE \/ InitManager \/ Subscribe \/ OpenEndpoint \/ MakeMonitor \/ RunMonitor \/ RunWorker
           \/ MonitorFails \/ RequestStop \/ SetMonitorCallbacks \/ Withdraw \/ OnStop \/ ClearMonitorCallbacks \/ StopMonitor
           \/ BeginShutdown \/ HostStop \/ HostJoin \/ DeleteManager \/ NullManager \/ WorkerEnds
           \/ UNCHANGED vars
  <2>1. /\ host' \in Building => host \in Building /\ UNCHANGED <<tree, excused>>
        /\ host' = "on" => \/ host \in Building /\ UNCHANGED <<tree, excused>>
                           \/ /\ host = "on" /\ UNCHANGED <<tree, excused, monitorTree, tick, at>>
                              /\ monitor' = "running" => monitor = "running"
    BY <1>2 DEF InitManager, Subscribe, OpenEndpoint, MakeMonitor, RunMonitor, RunWorker,
         MonitorFails, RequestStop, SetMonitorCallbacks, Withdraw, OnStop, ClearMonitorCallbacks, StopMonitor,
         BeginShutdown, HostStop, HostJoin, DeleteManager, NullManager, WorkerEnds, vars, Building
  <2> QED
    BY <2>1 DEF KnownOK, BeingTold, Building
<1>n. ASSUME NewTree, UNCHANGED host, host = "on" /\ tree' # 0 => BeingTold' PROVE KnownOK'
  BY <1>n DEF NewTree, KnownOK, Building
<1>3. CASE TickSwitch
  BY <1>3, <1>n DEF TickSwitch, BeingTold
<1>4. CASE TickTold
  BY <1>4, <1>m DEF TickTold, TellTree, KnownOK
<1>5. CASE TickTell
  BY <1>5, <1>m DEF TickTell, KnownOK, BeingTold
<1>6. CASE TickLeave \/ TickStatus \/ TickStatusDone
  BY <1>6 DEF TickLeave, TickStatus, TickStatusDone, KnownOK, BeingTold
<1>7. ASSUME NEW h \in Handlers, StartSwitch(h) PROVE KnownOK'
  <2>1. tree' # 0 => at'[h] = "tell"
    BY <1>7, <1>t DEF StartSwitch, Goto
  <2> QED
    BY <1>7, <1>n, <2>1 DEF StartSwitch, BeingTold
<1>8. ASSUME NEW h \in Handlers, StartTell(h) PROVE KnownOK'
  <2>1. host = "on" => at'[h] = "telling"
    BY <1>8, <1>t, <1>m DEF StartTell, Goto
  <2> QED
    BY <1>8, <2>1 DEF StartTell, KnownOK, BeingTold
<1>9. ASSUME NEW h \in Handlers, StartTold(h) PROVE KnownOK'
  BY <1>9, <1>m DEF StartTold, TellTree, KnownOK
<1>10. ASSUME NEW h \in Handlers,
              UNCHANGED <<host, monitor, monitorTree>>,
              tree' = 0 \/ UNCHANGED <<tree, excused>>,
              at[h] \notin {"tell", "telling"} \/ host # "on",
              \A g \in Handlers \ {h} : at'[g] = at[g],
              tick' = tick \/ tick = "none"
       PROVE  KnownOK'
  BY <1>10 DEF KnownOK, BeingTold
<1>11. ASSUME NEW h \in Handlers,
              \/ Refetch(h) \/ LoadTree(h) \/ CheckRunning(h) \/ StartCheck(h)
              \/ StopExchange(h) \/ StopJoin(h) \/ \E o \in Operations : Enter(h, o)
       PROVE  KnownOK'
  <2>1. /\ UNCHANGED <<host, monitor, monitorTree, tick>>
        /\ tree' = 0 \/ UNCHANGED <<tree, excused>>
        /\ at[h] \notin {"tell", "telling"}
        /\ \A g \in Handlers \ {h} : at'[g] = at[g]
    BY <1>11, <1>t DEF Refetch, LoadTree, CheckRunning, StartCheck, StopExchange, StopJoin, Enter,
                       Inside, Goto, Return, DropTree
  <2> QED
    BY <1>10, <2>1
<1>12. ASSUME NEW h \in Handlers, StartRun(h) \/ StartSpawn(h) \/ StartSpawnFails(h)
       PROVE  KnownOK'
  <2>1. /\ UNCHANGED <<host, monitor, monitorTree>> /\ at[h] \in {"run", "spawn"}
        /\ tree' = 0 \/ UNCHANGED <<tree, excused>>
        /\ tick = "none"
        /\ \A g \in Handlers \ {h} : at'[g] = at[g]
    BY <1>12, <1>t DEF StartRun, StartSpawn, StartSpawnFails, Inside, Goto, Return, DropTree,
                       LockOK, Starting
  <2> QED
    BY <1>10, <1>12, <2>1
<1>13. ASSUME NEW h \in Handlers, Crash(h) PROVE KnownOK'
  <2>1. /\ UNCHANGED <<host, monitor, excused, monitorTree, tree, tick>>
        /\ \A g \in Handlers \ {h} : at'[g] = at[g]
    BY <1>13, <1>t DEF Crash, Goto
  <2>2. host # "on"
    BY <1>13 DEF Crash, Using, HostOK, PointersOK, Living, Up
  <2> QED
    BY <1>10, <2>1, <2>2
<1> QED
  BY <1>1, <1>2, <1>3, <1>4, <1>5, <1>6, <1>7, <1>8, <1>9, <1>11, <1>12, <1>13
     DEF Next, HostRuns, HandlerStep, TickStep

-----------------------------------------------------------------------------
(* The theorems *)

\* IInv holds in every reachable state.
THEOREM Invariance == Spec => []IInv
<1>1. IInv /\ [Next]_vars => IInv'
  BY NextTypeOK, NextHostOK, NextMonitorOK, NextRestOK, NextLockOK, NextPointersOK, NextKnownOK
     DEF IInv
<1> QED
  BY InitIInv, <1>1, PTL DEF Spec

\* The variables keep their types, and every lock is held by a thread that is
\* where the code holds it.
THEOREM TypeCorrect == Spec => []TypeOK
  BY Invariance, PTL DEF IInv

\* After any number of failed starts and restarts, a plugin that has reported
\* its start is all there, and its monitor runs until the Host stops the worker:
\* on_start() is all or nothing.
THEOREM StartIsWhole == Spec => []StartedMeansReady
<1>1. IInv => StartedMeansReady
  BY DEF IInv, HostOK, MonitorOK, StartedMeansReady, Living, Up
<1> QED
  BY Invariance, <1>1, PTL

\* Destruct() meets a manager nobody is inside of, and leaves none behind.
THEOREM DeletionAtRest == Spec => []DeletedAtRest
<1>1. IInv => DeletedAtRest
  BY DEF IInv, HostOK, RestOK, Rest, DeletedAtRest, Living, Building, Up, Leaving, Ending,
         Holding, Starting
<1> QED
  BY Invariance, <1>1, PTL

\* No event reaches the monitor once clearMonitorCallbacks() has returned.
THEOREM BarrierHolds == Spec => []CallbackBarrier
<1>1. IInv => CallbackBarrier
  BY DEF IInv, MonitorOK, CallbackBarrier, Up
<1> QED
  BY Invariance, <1>1, PTL

\* Only after a failed on_start() can a handler use a manager that is gone.
THEOREM DanglingIsFailure == Spec => []OnlyFailedStartsDangle
<1>1. IInv => OnlyFailedStartsDangle
  BY DEF IInv, PointersOK, OnlyFailedStartsDangle, Crashed
<1> QED
  BY Invariance, <1>1, PTL

\* The running monitor of a started plugin knows the tree in place, unless that
\* tree is older than the plugin's start or its callback has failed.
THEOREM KnownTree == Spec => []MonitorKnowsTree
<1>1. IInv => MonitorKnowsTree
  <2> SUFFICES ASSUME IInv, host = "on", monitor = "running", tree # 0, delivering = Free,
                      tick # "tell", \A h \in Handlers : at[h] # "tell"
               PROVE  monitorTree = tree \/ excused
    BY DEF MonitorKnowsTree
  <2>1. Free \notin Handlers /\ Tick # Free
    BY ThreadsAssumption DEF Free, Tick
  <2>2. ~BeingTold
    BY <2>1 DEF IInv, TypeOK, LockOK, BeingTold
  <2> QED
    BY <2>2 DEF IInv, KnownOK
<1> QED
  BY Invariance, <1>1, PTL

\* The Host, the handlers and the tick thread never wait in a circle.  Nobody
\* waits in a callback, so the tick thread waits for nobody who waits, nor does a
\* join, nor whoever holds the lifecycle mutex, nor a handler, nor the Host.
THEOREM NoDeadlock == Spec => []NoCircularWait
<1>1. ASSUME IInv, NEW S \in (SUBSET Threads) \ {{}}
      PROVE  \E t \in S : WaitsFor(t) \cap S = {}
  <2> SUFFICES ASSUME \A t \in S : \E u \in S : u \in WaitsFor(t) PROVE FALSE
    OBVIOUS
  <2>d. /\ Host \notin Handlers /\ Tick \notin Handlers /\ Free \notin Handlers
        /\ Host # Tick /\ Host # Free /\ Tick # Free
    BY ThreadsAssumption DEF Host, Tick, Free
  <2>1. delivering \notin S
    <3> SUFFICES ASSUME delivering \in S PROVE FALSE
      OBVIOUS
    <3>1. delivering \in Handlers \cup {Tick}
      BY <1>1, <2>d DEF IInv, TypeOK, Threads
    <3>2. CASE delivering = Tick
      BY <1>1, <2>d, <3>2 DEF IInv, TypeOK, WaitsFor, TickWaits
    <3>3. CASE delivering \in Handlers
      <4>1. at[delivering] = "telling"
        BY <1>1, <3>3 DEF IInv, LockOK
      <4> QED
        BY <2>d, <3>3, <4>1 DEF WaitsFor, HandlerWaits
    <3> QED
      BY <3>1, <3>2, <3>3
  <2>2. Tick \notin S
    BY <2>d, <2>1 DEF WaitsFor, TickWaits
  <2>3. \A h \in S \cap Handlers : at[h] = "lock" /\ lifecycle \in S
    BY <2>d, <2>1, <2>2 DEF WaitsFor, HandlerWaits
  <2>4. host # "join" \/ Host \notin S
    BY <2>d, <2>2 DEF WaitsFor, HostWaits
  <2>5. lifecycle \notin S
    <3> SUFFICES ASSUME lifecycle \in S PROVE FALSE
      OBVIOUS
    <3>1. lifecycle \in Handlers \cup {Host}
      BY <1>1, <2>d DEF IInv, TypeOK, Threads
    <3>2. CASE lifecycle = Host
      BY <1>1, <2>4, <3>2 DEF IInv, TypeOK
    <3>3. CASE lifecycle \in Handlers
      BY <1>1, <2>3, <3>3 DEF IInv, LockOK, Holding, Starting
    <3> QED
      BY <3>1, <3>2, <3>3
  <2>6. S \cap Handlers = {}
    BY <2>3, <2>5
  <2>7. S = {Host}
    BY <2>2, <2>6 DEF Threads
  <2> QED
    BY <2>d, <2>1, <2>2, <2>5, <2>6, <2>7 DEF WaitsFor, HostWaits
<1>2. IInv => NoCircularWait
  BY <1>1 DEF NoCircularWait
<1> QED
  BY Invariance, <1>2, PTL

\* The handler of a disconnect or of a gateway fault returns only when no run is
\* under way.
THEOREM FaultStops == Spec => FaultEndsRun
<1>1. IInv /\ [Next]_vars =>
        [\A h \in Handlers :
           (at[h] # "idle" /\ op[h] \in Topics /\ at'[h] = "idle")
             => ~running']_vars
  <2> SUFFICES ASSUME IInv, [Next]_vars, NEW h \in Handlers,
                      at[h] # "idle", op[h] \in Topics, at'[h] = "idle"
               PROVE  ~running'
    OBVIOUS
  <2>t. at \in [Handlers -> Places] /\ op[h] \notin {"load", "start"}
    BY DEF IInv, TypeOK, Places, Topics
  <2>l. /\ at[h] \in Starting \cup {"spawn"} => op[h] = "start"
        /\ at[h] = "load" => op[h] = "load"
        /\ at[h] = "join" => ~running
    BY DEF IInv, LockOK
  <2> USE DEF plugin, singleton, flags, tie, view, handling, counts
  <2>1. ~(HostStep \/ TickStep \/ UNCHANGED vars)
    BY HostFrame
  <2>2. PICK g \in Handlers : HandlerStep(g) \/ Crash(g) \/ \E o \in Operations : Enter(g, o)
    BY <2>1 DEF Next, HostStep
  <2>3. g = h
    BY <2>2, <2>t DEF HandlerStep, Crash, Enter, Goto, Return, Refetch, LoadTree, CheckRunning,
                      StartCheck, StartSwitch, StartTell, StartTold, StartRun, StartSpawn,
                      StartSpawnFails, StopExchange, StopJoin
  <2>4. CASE CheckRunning(h) \/ StopExchange(h) \/ StopJoin(h)
    BY <2>4, <2>l, <2>t DEF CheckRunning, StopExchange, StopJoin, DropTree, Goto, Inside
  <2>5. CASE \/ Refetch(h) \/ Crash(h) \/ \E o \in Operations : Enter(h, o)
             \/ LoadTree(h) \/ StartCheck(h) \/ StartSwitch(h) \/ StartTell(h) \/ StartTold(h)
             \/ StartRun(h) \/ StartSpawn(h) \/ StartSpawnFails(h)
    BY <2>5, <2>l, <2>t DEF Refetch, Crash, Enter, Goto, LoadTree, StartCheck, StartSwitch,
                            StartTell, StartTold, StartRun, StartSpawn, StartSpawnFails, Inside,
                            Starting
  <2> QED
    BY <2>2, <2>3, <2>4, <2>5 DEF HandlerStep
<1> QED
  BY Invariance, <1>1, PTL DEF Spec, FaultEndsRun
=============================================================================
