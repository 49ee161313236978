-------------------------- MODULE BTManager_proofs --------------------------
(***************************************************************************)
(* Safety of BTManager for any set of clients and files.                   *)
(***************************************************************************)
EXTENDS BTManager, TLAPS

\* The program counters inside the two critical sections.
TreePCs == SwitchPCs \cup {"tick"}
LifecyclePCs == StartPCs \cup StopPCs

\* A client of start() that may have a tree in place already.
BuildingPCs == SwitchPCs \cup {"setRunning", "setPaused", "spawn",
                 "unsetRunning", "setPausedAgain", "rollback", "stopClean"}

\* Mutual exclusion: a mutex is owned exactly by the thread inside.
LockOK ==
  /\ \A t \in Threads : treeMtx = t <=> pc[t] \in TreePCs
  /\ \A c \in Clients : lifecycle = c <=> pc[c] \in LifecyclePCs

\* running_ and the existence of the worker, as start() and stop() see them.
WorkerOK ==
  /\ lifecycle = NoThread => (running <=> pc[Worker] # "none")
  /\ \A c \in Clients :
       /\ pc[c] \in {"startCheck", "stopExchange"} =>
            (running <=> pc[Worker] # "none")
       /\ pc[c] \in {"startPending", "switchBegin", "setRunning",
                     "setPausedAgain", "rollback", "stopClean"} \cup SwitchPCs =>
            ~running /\ pc[Worker] = "none"
       /\ pc[c] \in {"setPaused", "spawn", "unsetRunning"} =>
            running /\ pc[Worker] = "none"
       /\ pc[c] \in {"stopNotify", "stopJoin"} =>
            ~running /\ pc[Worker] # "none"
  /\ pc[Worker] = "done" => ~running

\* Without a worker, and without a start() or stop() at work on it, there is
\* no tree.
CleanOK ==
  pc[Worker] = "none" /\ (\A c \in Clients : pc[c] \notin BuildingPCs) =>
    tree = NoTree /\ publisher = NoTree /\ observer = NoTree

\* The tree inside and outside a switch.
TreeOK ==
  /\ (\A t \in Threads : pc[t] \notin SwitchPCs) =>
       /\ publisher = tree /\ observer = tree
       /\ tree = NoTree => ~treeActive
       /\ ~hasPending /\ tree # NoTree => tree = pendingXml
  /\ \A t \in Threads : pc[t] \in SwitchPCs =>
       /\ publisher = NoTree /\ observer = NoTree
       /\ ~treeActive
       /\ pc[t] = "switchAttach" => tree = pendingXml

\* The monitor agrees with the tree, unless a callback has failed.
MonitorOK ==
  monitor # Unknown =>
    /\ monitor.active = treeActive
    /\ tree # NoTree /\ (\A t \in Threads : pc[t] \notin SwitchPCs) => monitor.tree = tree

\* The shutdown has a client that runs it, and afterwards nothing runs.
ShutdownOK ==
  /\ \A c \in Clients : closing = c =>
       stopping /\ pc[c] \in {"stopLock"} \cup StopPCs
  /\ stopping /\ closing = NoThread =>
       /\ ~running /\ pc[Worker] = "none"
       /\ \A c \in Clients :
            pc[c] \in LifecyclePCs => pc[c] \in {"startCheck", "stopExchange"}

IInv == TypeOK /\ LockOK /\ WorkerOK /\ CleanOK /\ TreeOK /\ MonitorOK /\ ShutdownOK

LEMMA InitIInv == Init => IInv
<1> SUFFICES ASSUME Init PROVE IInv
  OBVIOUS
<1> USE ThreadsAssumption, FilesAssumption
    DEF Init, Threads, Trees, ClientPCs, WorkerPCs, TreePCs, LifecyclePCs,
        BuildingPCs, StartPCs, StopPCs, SwitchPCs
<1>1. TypeOK
  BY DEF TypeOK
<1>2. LockOK
  BY DEF LockOK
<1>3. WorkerOK
  BY DEF WorkerOK
<1>4. CleanOK /\ TreeOK /\ MonitorOK
  BY DEF CleanOK, TreeOK, MonitorOK
<1>5. ShutdownOK
  BY DEF ShutdownOK
<1> QED
  BY <1>1, <1>2, <1>3, <1>4, <1>5 DEF IInv

\* A report that does not fail shows the nodes as they are, and of the same tree.
LEMMA ReportedAgrees ==
  ASSUME monitor \in [tree : Trees, active : BOOLEAN] \cup {Unknown},
         NEW active \in BOOLEAN, SetActive(active),
         monitor # Unknown => monitor.active = treeActive,
         observer = NoTree => active = treeActive
  PROVE  /\ treeActive' = active
         /\ monitor' \in [tree : Trees, active : BOOLEAN] \cup {Unknown}
         /\ monitor' # Unknown => /\ monitor # Unknown
                                  /\ monitor'.tree = monitor.tree
                                  /\ monitor'.active = treeActive'
<1>1. CASE observer = NoTree \/ monitor = Unknown
  BY <1>1 DEF SetActive, Reported
<1>2. CASE observer # NoTree /\ monitor # Unknown
  <2>1. monitor' \in {[monitor EXCEPT !.active = active], Unknown}
    BY <1>2 DEF SetActive, Reported
  <2>2. treeActive' = active
    BY DEF SetActive
  <2> QED
    BY <1>2, <2>1, <2>2
<1> QED
  BY <1>1, <1>2

\* A tree reset that does not fail shows the tree in place, all of it idle.
LEMMA ResetAgrees ==
  ASSUME tree \in Trees, OnTreeReset
  PROVE  /\ monitor' \in [tree : Trees, active : BOOLEAN] \cup {Unknown}
         /\ monitor' # Unknown => monitor'.tree = tree /\ monitor'.active = FALSE
<1> DEFINE shown == [tree |-> tree, active |-> FALSE]
<1>1. monitor' = Unknown \/ monitor' = shown
  BY Zenon DEF OnTreeReset
<1>2. shown \in [tree : Trees, active : BOOLEAN]
  OBVIOUS
<1>3. shown.tree = tree /\ shown.active = FALSE
  OBVIOUS
<1> HIDE DEF shown
<1> QED
  BY <1>1, <1>2, <1>3

LEMMA NextIInv == IInv /\ [Next]_vars => IInv'
<1> SUFFICES ASSUME IInv, [Next]_vars PROVE IInv'
  OBVIOUS
<1> USE ThreadsAssumption, FilesAssumption
    DEF IInv, TypeOK, LockOK, WorkerOK, CleanOK, TreeOK, MonitorOK, ShutdownOK,
        Threads, Trees, ClientPCs, WorkerPCs, TreePCs, LifecyclePCs,
        BuildingPCs, StartPCs, StopPCs, SwitchPCs,
        locks, calls, flags, pending, treeVars, At, Goto
<1>1. ASSUME NEW c \in Clients, NEW file \in Files, Load(c, file) PROVE IInv'
  BY <1>1 DEF Load, Call
<1>2. ASSUME NEW c \in Clients, LoadStore(c) PROVE IInv'
  BY <1>2 DEF LoadStore
<1>3. ASSUME NEW c \in Clients, LoadNotify(c) PROVE IInv'
  BY <1>3 DEF LoadNotify, NotifyAndGoto, Woken
<1>4. ASSUME NEW c \in Clients, Start(c) PROVE IInv'
  BY <1>4 DEF Start, Call
<1>5. ASSUME NEW c \in Clients, StartLock(c) PROVE IInv'
  BY <1>5 DEF StartLock
<1>6. ASSUME NEW c \in Clients, StartCheck(c) PROVE IInv'
  BY <1>6 DEF StartCheck, Return
<1>7. ASSUME NEW c \in Clients, StartPending(c) PROVE IInv'
  BY <1>7 DEF StartPending, Return
<1>8. ASSUME NEW c \in Clients, StartSetRunning(c) PROVE IInv'
  BY <1>8 DEF StartSetRunning
<1>9. ASSUME NEW c \in Clients, StartSetPaused(c) PROVE IInv'
  <2> USE <1>9 DEF StartSetPaused
  <2>1. TypeOK'
    <3>1. paused' \in BOOLEAN
      BY Zenon
    <3> QED
      BY <3>1
  <2>2. LockOK'
    OBVIOUS
  <2>3. WorkerOK'
    OBVIOUS
  <2>4. CleanOK'
    OBVIOUS
  <2>5. TreeOK'
    OBVIOUS
  <2>6. MonitorOK'
    OBVIOUS
  <2>7. ShutdownOK'
    OBVIOUS
  <2> QED
    BY <2>1, <2>2, <2>3, <2>4, <2>5, <2>6, <2>7
<1>10. ASSUME NEW c \in Clients, StartSpawn(c) PROVE IInv'
  BY <1>10 DEF StartSpawn
<1>11. ASSUME NEW c \in Clients, StartSpawnFails(c) PROVE IInv'
  BY <1>11 DEF StartSpawnFails
<1>12. ASSUME NEW c \in Clients, StartUnsetRunning(c) PROVE IInv'
  <2> USE <1>12 DEF StartUnsetRunning
  <2>1. TypeOK'
    <3>1. running' \in BOOLEAN
      BY Zenon
    <3> QED
      BY <3>1
  <2>2. LockOK'
    OBVIOUS
  <2>3. WorkerOK'
    OBVIOUS
  <2>4. CleanOK'
    OBVIOUS
  <2>5. TreeOK'
    OBVIOUS
  <2>6. MonitorOK'
    OBVIOUS
  <2>7. ShutdownOK'
    OBVIOUS
  <2> QED
    BY <2>1, <2>2, <2>3, <2>4, <2>5, <2>6, <2>7
<1>13. ASSUME NEW c \in Clients, StartSetPausedAgain(c) PROVE IInv'
  BY <1>13 DEF StartSetPausedAgain
<1>14. ASSUME NEW c \in Clients, StartRollback(c) PROVE IInv'
  <2> USE <1>14 DEF StartRollback, HaltAndReset, Return
  <2>m. /\ treeActive' = FALSE
        /\ monitor' \in [tree : Trees, active : BOOLEAN] \cup {Unknown}
        /\ monitor' # Unknown => /\ monitor # Unknown
                                 /\ monitor'.tree = monitor.tree
                                 /\ monitor'.active = treeActive'
    <3>1. observer = NoTree => ~treeActive
      OBVIOUS
    <3>2. SetActive(FALSE)
      OBVIOUS
    <3> QED
      BY <3>1, <3>2, ReportedAgrees
  <2>1. TypeOK'
    BY <2>m
  <2>2. LockOK'
    OBVIOUS
  <2>3. WorkerOK'
    OBVIOUS
  <2>4. CleanOK'
    OBVIOUS
  <2>5. TreeOK'
    BY <2>m
  <2>6. MonitorOK'
    BY <2>m
  <2>7. ShutdownOK'
    OBVIOUS
  <2> QED
    BY <2>1, <2>2, <2>3, <2>4, <2>5, <2>6, <2>7
<1>15. ASSUME NEW c \in Clients, Stop(c) PROVE IInv'
  BY <1>15 DEF Stop, Call
<1>16. ASSUME NEW c \in Clients, Shutdown(c) PROVE IInv'
  BY <1>16 DEF Shutdown, Call
<1>17. ASSUME NEW c \in Clients, StopLock(c) PROVE IInv'
  BY <1>17 DEF StopLock
<1>18. ASSUME NEW c \in Clients, StopExchange(c) PROVE IInv'
  <2> USE <1>18 DEF StopExchange, Stopped, Return
  <2>1. TypeOK'
    <3>1. running' \in BOOLEAN
      BY Zenon
    <3> QED
      BY <3>1
  <2>2. LockOK'
    OBVIOUS
  <2>3. WorkerOK'
    OBVIOUS
  <2>4. CleanOK'
    OBVIOUS
  <2>5. TreeOK'
    OBVIOUS
  <2>6. MonitorOK'
    OBVIOUS
  <2>7. ShutdownOK'
    OBVIOUS
  <2> QED
    BY <2>1, <2>2, <2>3, <2>4, <2>5, <2>6, <2>7
<1>19. ASSUME NEW c \in Clients, StopNotify(c) PROVE IInv'
  BY <1>19 DEF StopNotify, NotifyAndGoto, Woken
<1>20. ASSUME NEW c \in Clients, StopJoin(c) PROVE IInv'
  BY <1>20 DEF StopJoin
<1>21. ASSUME NEW c \in Clients, StopClean(c) PROVE IInv'
  <2> USE <1>21 DEF StopClean, Stopped, Return, HaltAndReset
  <2>m. /\ treeActive' = FALSE
        /\ monitor' \in [tree : Trees, active : BOOLEAN] \cup {Unknown}
        /\ monitor' # Unknown => /\ monitor # Unknown
                                 /\ monitor'.tree = monitor.tree
                                 /\ monitor'.active = treeActive'
    <3>1. observer = NoTree => ~treeActive
      OBVIOUS
    <3>2. SetActive(FALSE)
      OBVIOUS
    <3> QED
      BY <3>1, <3>2, ReportedAgrees
  <2>1. TypeOK'
    BY <2>m
  <2>2. LockOK'
    OBVIOUS
  <2>3. WorkerOK'
    OBVIOUS
  <2>4. CleanOK'
    OBVIOUS
  <2>5. TreeOK'
    BY <2>m
  <2>6. MonitorOK'
    BY <2>m
  <2>7. ShutdownOK'
    OBVIOUS
  <2> QED
    BY <2>1, <2>2, <2>3, <2>4, <2>5, <2>6, <2>7
<1>22. ASSUME NEW c \in Clients, Pause(c) PROVE IInv'
  BY <1>22 DEF Pause, Call
<1>23. ASSUME NEW c \in Clients, Resume(c) PROVE IInv'
  <2> USE <1>23 DEF Resume, Call
  <2>1. TypeOK'
    <3>1. paused' \in BOOLEAN
      BY Zenon
    <3> QED
      BY <3>1
  <2>2. LockOK'
    OBVIOUS
  <2>3. WorkerOK'
    OBVIOUS
  <2>4. CleanOK'
    OBVIOUS
  <2>5. TreeOK'
    OBVIOUS
  <2>6. MonitorOK'
    OBVIOUS
  <2>7. ShutdownOK'
    OBVIOUS
  <2> QED
    BY <2>1, <2>2, <2>3, <2>4, <2>5, <2>6, <2>7
<1>24. ASSUME NEW c \in Clients, ResumeNotify(c) PROVE IInv'
  BY <1>24 DEF ResumeNotify, NotifyAndGoto, Woken
<1>25. ASSUME NEW c \in Clients, Step(c) PROVE IInv'
  BY <1>25 DEF Step, Call
<1>26. ASSUME NEW c \in Clients, StepTick(c) PROVE IInv'
  BY <1>26 DEF StepTick, TickTree, SetActive, Reported
<1>27. ASSUME NEW t \in Threads, SwitchBegin(t) PROVE IInv'
  <2> USE <1>27 DEF SwitchBegin
  <2>m. /\ treeActive' = FALSE
        /\ monitor' \in [tree : Trees, active : BOOLEAN] \cup {Unknown}
        /\ monitor' # Unknown => /\ monitor # Unknown
                                 /\ monitor'.tree = monitor.tree
                                 /\ monitor'.active = treeActive'
    <3>1. observer = NoTree => ~treeActive
      OBVIOUS
    <3>2. SetActive(FALSE)
      OBVIOUS
    <3> QED
      BY <3>1, <3>2, ReportedAgrees
  <2>1. TypeOK'
    <3>1. /\ treeActive' \in BOOLEAN
          /\ monitor' \in [tree : Trees, active : BOOLEAN] \cup {Unknown}
      BY <2>m
    <3>2. /\ pc' \in [Threads -> ClientPCs \cup WorkerPCs]
          /\ \A c \in Clients : pc'[c] \in ClientPCs
          /\ pc'[Worker] \in WorkerPCs
      OBVIOUS
    <3>3. \A c \in Clients : pc'[c] = "load" => arg'[c] \in Files
      OBVIOUS
    <3>4. /\ lifecycle' \in Clients \cup {NoThread} /\ treeMtx' \in Threads \cup {NoThread}
          /\ closing' \in Clients \cup {NoThread}
      OBVIOUS
    <3>5. /\ arg' \in [Clients -> Trees] /\ ret' \in [Clients -> {"none", "ok", "failed"}]
          /\ running' \in BOOLEAN /\ paused' \in BOOLEAN /\ stopping' \in BOOLEAN
          /\ hasPending' \in BOOLEAN /\ pendingXml' \in Trees
          /\ (hasPending' => pendingXml' \in Files)
      OBVIOUS
    <3>6. /\ tree' \in Trees /\ publisher' \in Trees /\ observer' \in Trees
      OBVIOUS
    <3> QED
      BY <3>1, <3>2, <3>3, <3>4, <3>5, <3>6
  <2>2. LockOK'
    OBVIOUS
  <2>3. WorkerOK'
    OBVIOUS
  <2>4. CleanOK'
    OBVIOUS
  <2>5. TreeOK'
    BY <2>m
  <2>6. MonitorOK'
    BY <2>m
  <2>7. ShutdownOK'
    OBVIOUS
  <2> QED
    BY <2>1, <2>2, <2>3, <2>4, <2>5, <2>6, <2>7
<1>28. ASSUME NEW t \in Threads, SwitchCreate(t) PROVE IInv'
  BY <1>28 DEF SwitchCreate
<1>29. ASSUME NEW t \in Threads, SwitchAttach(t) PROVE IInv'
  <2> USE <1>29 DEF SwitchAttach, SwitchDone
  <2>m. \/ pc'[t] = "switchCleanup" /\ monitor' = monitor
        \/ /\ monitor' \in [tree : Trees, active : BOOLEAN] \cup {Unknown}
           /\ monitor' # Unknown => monitor'.tree = tree /\ monitor'.active = FALSE
    BY ResetAgrees
  <2>1. TypeOK'
    <3>1. hasPending' \in BOOLEAN
      BY Zenon
    <3>5. monitor' \in [tree : Trees, active : BOOLEAN] \cup {Unknown}
      BY <2>m
    <3>2. /\ pc' \in [Threads -> ClientPCs \cup WorkerPCs]
          /\ \A c \in Clients : pc'[c] \in ClientPCs
          /\ pc'[Worker] \in WorkerPCs
      OBVIOUS
    <3>3. \A c \in Clients : pc'[c] = "load" => arg'[c] \in Files
      OBVIOUS
    <3>4. /\ treeMtx' \in Threads \cup {NoThread}
          /\ publisher' \in Trees /\ observer' \in Trees
          /\ (hasPending' => pendingXml' \in Files)
      OBVIOUS
    <3> QED
      BY <3>1, <3>2, <3>3, <3>4, <3>5
  <2>2. LockOK'
    OBVIOUS
  <2>3. WorkerOK'
    OBVIOUS
  <2>4. CleanOK'
    OBVIOUS
  <2>5. TreeOK'
    <3>1. CASE pc'[t] = "switchCleanup"
      BY <3>1
    <3>2. CASE SwitchDone(t) /\ publisher' = tree
      <4>1. \A u \in Threads : pc'[u] \notin SwitchPCs
        BY <3>2
      <4>2. ~treeActive' /\ ~hasPending'
        BY <3>2
      <4>3. /\ publisher' = tree' /\ observer' = tree'
            /\ tree' = pendingXml'
        BY <3>2
      <4> QED
        BY <4>1, <4>2, <4>3
    <3> QED
      BY <3>1, <3>2
  <2>6. MonitorOK'
    <3>1. treeActive = FALSE
      <4>1. treeActive \in BOOLEAN /\ ~treeActive
        OBVIOUS
      <4> QED
        BY <4>1, Zenon
    <3>2. treeActive' = FALSE /\ tree' = tree
      BY <3>1
    <3> QED
      BY <2>m, <3>1, <3>2
  <2>7. ShutdownOK'
    OBVIOUS
  <2> QED
    BY <2>1, <2>2, <2>3, <2>4, <2>5, <2>6, <2>7
<1>30. ASSUME NEW t \in Threads, SwitchCleanup(t) PROVE IInv'
  <2> USE <1>30 DEF SwitchCleanup, HaltAndReset, Return
  <2>m. /\ treeActive' = FALSE
        /\ monitor' \in [tree : Trees, active : BOOLEAN] \cup {Unknown}
        /\ monitor' # Unknown => /\ monitor # Unknown
                                 /\ monitor'.tree = monitor.tree
                                 /\ monitor'.active = treeActive'
    <3>1. ~treeActive
      OBVIOUS
    <3>2. SetActive(FALSE)
      OBVIOUS
    <3> QED
      BY <3>1, <3>2, ReportedAgrees
  <2>1. TypeOK'
    <3>1. /\ hasPending' \in BOOLEAN /\ treeActive' \in BOOLEAN
          /\ monitor' \in [tree : Trees, active : BOOLEAN] \cup {Unknown}
      BY <2>m
    <3>2. ret' \in [Clients -> {"none", "ok", "failed"}]
      OBVIOUS
    <3>3. /\ pc' \in [Threads -> ClientPCs \cup WorkerPCs]
          /\ \A c \in Clients : pc'[c] \in ClientPCs
          /\ pc'[Worker] \in WorkerPCs
          /\ \A c \in Clients : pc'[c] = "load" => arg[c] \in Files
      OBVIOUS
    <3>4. lifecycle' \in Clients \cup {NoThread}
      OBVIOUS
    <3> QED
      BY <3>1, <3>2, <3>3, <3>4
  <2>2. LockOK'
    OBVIOUS
  <2>3. WorkerOK'
    OBVIOUS
  <2>4. CleanOK'
    OBVIOUS
  <2>5. TreeOK'
    <3>1. \A u \in Threads : pc'[u] \notin SwitchPCs
      OBVIOUS
    <3>2. ~treeActive'
      BY <2>m
    <3>3. tree' = NoTree /\ publisher' = NoTree /\ observer' = NoTree
      OBVIOUS
    <3> QED
      BY <3>1, <3>2, <3>3
  <2>6. MonitorOK'
    BY <2>m
  <2>7. ShutdownOK'
    OBVIOUS
  <2> QED
    BY <2>1, <2>2, <2>3, <2>4, <2>5, <2>6, <2>7
<1>31. CASE LoopWhile
  BY <1>31 DEF LoopWhile, WorkerGoto
<1>32. CASE LoopPred
  BY <1>32 DEF LoopPred, WorkerGoto
<1>33. CASE LoopBlock
  BY <1>33 DEF LoopBlock, WorkerGoto
<1>34. CASE LoopSpurious
  BY <1>34 DEF LoopSpurious, WorkerGoto
<1>35. CASE LoopCheck
  BY <1>35 DEF LoopCheck, WorkerGoto
<1>36. CASE LoopCheckPending
  BY <1>36 DEF LoopCheckPending, WorkerGoto
<1>37. CASE LoopTickLock
  BY <1>37 DEF LoopTickLock
<1>38. CASE LoopTick
  BY <1>38 DEF LoopTick, TickTree, SetActive, Reported
<1>39. CASE LoopTimedPred
  BY <1>39 DEF LoopTimedPred, WorkerGoto
<1>40. CASE LoopTimedBlock
  BY <1>40 DEF LoopTimedBlock, WorkerGoto
<1>41. CASE LoopTimeout
  BY <1>41 DEF LoopTimeout, WorkerGoto
<1>42. CASE UNCHANGED vars
  BY <1>42 DEF vars
<1> QED
  BY <1>1, <1>2, <1>3, <1>4, <1>5, <1>6, <1>7, <1>8, <1>9, <1>10, <1>11, <1>12, <1>13, <1>14, <1>15, <1>16, <1>17, <1>18, <1>19, <1>20, <1>21, <1>22, <1>23, <1>24, <1>25, <1>26, <1>27, <1>28, <1>29, <1>30, <1>31, <1>32, <1>33, <1>34, <1>35, <1>36, <1>37, <1>38, <1>39, <1>40, <1>41, <1>42
  DEF Next, ClientCalls, ClientStep, SwitchTree, WorkerStep, StopIfRunning

\* IInv holds in every reachable state.
THEOREM Invariance == Spec => []IInv
  BY InitIInv, NextIInv, PTL DEF Spec

\* Every variable of the manager keeps its type; a pending load always names
\* a file.
THEOREM TypeCorrect == Spec => []TypeOK
  BY Invariance, PTL DEF IInv

\* stop(), a failed start() and its rollback leave no tree, publisher or
\* observer behind.
THEOREM StoppedClean == Spec => []StoppedIsClean
<1>1. IInv => StoppedIsClean
  <2> SUFFICES ASSUME IInv, lifecycle = NoThread, ~running
               PROVE  tree = NoTree /\ publisher = NoTree /\ observer = NoTree
    BY DEF StoppedIsClean
  <2>1. pc[Worker] = "none"
    BY DEF IInv, WorkerOK
  <2>2. \A c \in Clients : pc[c] \notin LifecyclePCs
    BY ThreadsAssumption DEF IInv, LockOK
  <2>3. BuildingPCs \subseteq LifecyclePCs
    BY DEF BuildingPCs, LifecyclePCs, StartPCs, StopPCs
  <2> QED
    BY <2>1, <2>2, <2>3 DEF IInv, CleanOK
<1> QED
  BY Invariance, <1>1, PTL

\* While tree_mtx_ is free no thread is inside switchTree().
LEMMA NobodySwitches ==
  ASSUME IInv, treeMtx = NoThread
  PROVE  \A t \in Threads : pc[t] \notin SwitchPCs
  BY ThreadsAssumption DEF IInv, LockOK, TreePCs, Threads

\* The tree in place is the one loaded last, unless a load is pending.
THEOREM LatestLoad == Spec => []LatestLoadWins
<1>1. IInv => LatestLoadWins
  BY NobodySwitches DEF LatestLoadWins, IInv, TreeOK
<1> QED
  BY Invariance, <1>1, PTL

\* std::thread is never assigned over a joinable thread.
THEOREM SingleWorker == Spec => []OneWorker
<1>1. IInv => OneWorker
  BY DEF OneWorker, IInv, WorkerOK
<1> QED
  BY Invariance, <1>1, PTL

\* Nothing runs, and no tree exists, once the plugin's shutdown is over.
THEOREM FinalShutdown == Spec => []ShutdownIsFinal
<1>1. IInv => ShutdownIsFinal
  <2> SUFFICES ASSUME IInv, stopping, closing = NoThread
               PROVE  ~running /\ pc[Worker] = "none" /\ tree = NoTree
    BY DEF ShutdownIsFinal
  <2>1. ~running /\ pc[Worker] = "none"
    BY DEF IInv, ShutdownOK
  <2>2. \A c \in Clients : pc[c] \notin BuildingPCs
    BY DEF IInv, ShutdownOK, LifecyclePCs, BuildingPCs, StartPCs, StopPCs,
           SwitchPCs
  <2> QED
    BY <2>1, <2>2 DEF IInv, CleanOK
<1> QED
  BY Invariance, <1>1, PTL

\* The monitor knows the current tree and whether it is active, for any clients
\* and files and whichever of its callbacks fail, until one has failed.
THEOREM MonitorKnows == Spec => []MonitorInStep
<1>1. IInv => MonitorInStep
  BY NobodySwitches DEF MonitorInStep, IInv, TreeOK, MonitorOK
<1> QED
  BY Invariance, <1>1, PTL

\* paused_ as the worker may read it, when nobody pauses.
UnpausedOK ==
  /\ pc[Worker] # "none" => ~paused
  /\ \A c \in Clients : pc[c] = "spawn" => ~paused
  /\ pc[Worker] \notin {"toBlock", "blocked"}

LEMMA NextUnpausedOK ==
  ASSUME ManualStepping = FALSE, IInv, UnpausedOK, [Next]_vars
  PROVE  UnpausedOK'
<1> USE ThreadsAssumption DEF UnpausedOK, Threads, At, Goto, Call, Return, locks, calls, flags
<1>t. /\ pc \in [Threads -> ClientPCs \cup WorkerPCs]
      /\ \A c \in Clients : pc[c] = "setPausedAgain" => pc[Worker] = "none"
      /\ \A c, d \in Clients : pc[c] \in LifecyclePCs /\ pc[d] \in LifecyclePCs => c = d
  BY DEF IInv, TypeOK, LockOK, WorkerOK
<1>1. ASSUME NEW c \in Clients, ClientCalls(c) PROVE UnpausedOK'
  BY <1>1, <1>t DEF ClientCalls, Load, Start, Stop, StopIfRunning, Shutdown, Pause, Resume, Step
<1>2. ASSUME NEW c \in Clients,
             LoadStore(c) \/ LoadNotify(c) \/ StopNotify(c) \/ ResumeNotify(c) \/ StepTick(c)
      PROVE  UnpausedOK'
  BY <1>2, <1>t DEF LoadStore, LoadNotify, StopNotify, ResumeNotify, StepTick, NotifyAndGoto,
                    Woken
<1>3. ASSUME NEW c \in Clients,
             \/ StartLock(c) \/ StartCheck(c) \/ StartPending(c) \/ StartSetRunning(c)
             \/ StartSpawn(c) \/ StartSpawnFails(c) \/ StartUnsetRunning(c)
             \/ StartRollback(c)
      PROVE  UnpausedOK'
  BY <1>3, <1>t DEF StartLock, StartCheck, StartPending, StartSetRunning, StartSpawn,
                    StartSpawnFails, StartUnsetRunning, StartRollback
<1>4. ASSUME NEW c \in Clients, StartSetPaused(c) \/ StartSetPausedAgain(c)
      PROVE  UnpausedOK'
  BY <1>4, <1>t DEF StartSetPaused, StartSetPausedAgain, LifecyclePCs, StartPCs
<1>5. ASSUME NEW c \in Clients,
             StopLock(c) \/ StopExchange(c) \/ StopJoin(c) \/ StopClean(c)
      PROVE  UnpausedOK'
  BY <1>5, <1>t DEF StopLock, StopExchange, StopJoin, StopClean, Stopped
<1>6. ASSUME NEW t \in Threads, SwitchTree(t) PROVE UnpausedOK'
  <2>1. PICK label : /\ pc' = [pc EXCEPT ![t] = label]
                     /\ label \in SwitchPCs \cup {"while", "idle", "setRunning"}
    BY <1>6 DEF SwitchTree, SwitchBegin, SwitchCreate, SwitchAttach, SwitchCleanup,
                SwitchDone, SwitchPCs
  <2>2. UNCHANGED paused /\ pc[t] # "none"
    BY <1>6 DEF SwitchTree, SwitchBegin, SwitchCreate, SwitchAttach, SwitchCleanup
  <2> QED
    BY <2>1, <2>2, <1>t DEF SwitchPCs
<1>7. CASE \/ LoopWhile \/ LoopPred \/ LoopBlock \/ LoopCheck \/ LoopCheckPending
           \/ LoopTickLock \/ LoopTick
           \/ LoopTimedPred \/ LoopTimedBlock \/ LoopTimeout \/ LoopSpurious
  BY <1>7, <1>t DEF LoopWhile, LoopPred, LoopBlock, LoopCheck, LoopCheckPending, LoopTickLock,
       LoopTick, LoopTimedPred, LoopTimedBlock, LoopTimeout, LoopSpurious, WorkerGoto
<1>8. CASE UNCHANGED vars
  BY <1>8 DEF vars
<1> QED
  BY <1>1, <1>2, <1>3, <1>4, <1>5, <1>6, <1>7, <1>8 DEF Next, ClientStep, WorkerStep

\* In the plugin, which calls none of pause(), resume() and step(), the worker
\* never waits without a time limit, where a notification that stop() sends too
\* early would be lost for good: paused_ is TRUE before the first start() and
\* after one that failed, but never when a worker reads it.
THEOREM NeverParks ==
  ASSUME ManualStepping = FALSE
  PROVE  Spec => [](~Parked)
<1>1. Init => UnpausedOK
  BY ThreadsAssumption DEF Init, UnpausedOK, Threads
<1>2. IInv /\ UnpausedOK /\ [Next]_vars => UnpausedOK'
  BY NextUnpausedOK
<1>3. UnpausedOK => ~Parked
  BY DEF UnpausedOK, Parked
<1> QED
  BY <1>1, <1>2, <1>3, Invariance, PTL DEF Spec

\* stop(), start() and the worker never wait for each other in a circle.  The
\* waits are ordered: for lifecycle_mtx_, in the join, for tree_mtx_; whoever is
\* waited for waits, if at all, further on in this order, and the owner of
\* tree_mtx_ waits for nobody.
THEOREM NoDeadlock == Spec => []NoCircularWait
<1>1. ASSUME IInv, NEW S \in (SUBSET Threads) \ {{}}
      PROVE  \E t \in S : WaitsFor(t) \cap S = {}
  <2> SUFFICES ASSUME \A t \in S : WaitsFor(t) \cap S # {} PROVE FALSE
    OBVIOUS
  <2>1. \A t \in S : pc[t] \notin TreeLockPCs
    <3> SUFFICES ASSUME NEW t \in S, pc[t] \in TreeLockPCs PROVE FALSE
      OBVIOUS
    <3>1. PICK u \in S : treeMtx = u
      BY DEF WaitsFor, TreeLockPCs
    <3>2. pc[u] \in TreePCs
      BY <1>1, <3>1 DEF IInv, LockOK
    <3>3. WaitsFor(u) = {}
      BY <3>2 DEF WaitsFor, TreePCs, TreeLockPCs, SwitchPCs
    <3> QED
      BY <3>3
  <2>2. \A t \in S : pc[t] # "stopJoin"
    <3> SUFFICES ASSUME NEW t \in S, pc[t] = "stopJoin" PROVE FALSE
      OBVIOUS
    <3>1. Worker \in S
      BY DEF WaitsFor, TreeLockPCs
    <3>2. pc[Worker] \notin {"startLock", "stopLock", "stopJoin"}
      BY <1>1 DEF IInv, TypeOK, WorkerPCs, SwitchPCs
    <3>3. WaitsFor(Worker) = {}
      BY <2>1, <3>1, <3>2 DEF WaitsFor
    <3> QED
      BY <3>1, <3>3
  <2>3. PICK t \in S : TRUE
    OBVIOUS
  <2>4. PICK u \in S : u = lifecycle
    BY <2>1, <2>2, <2>3 DEF WaitsFor
  <2>5. u \in Clients
    BY <1>1, <2>4, ThreadsAssumption DEF IInv, TypeOK, Threads
  <2>6. pc[u] \in LifecyclePCs
    BY <1>1, <2>4, <2>5 DEF IInv, LockOK
  <2>7. pc[u] \notin {"startLock", "stopLock"}
    BY <2>6 DEF LifecyclePCs, StartPCs, StopPCs, SwitchPCs
  <2>8. WaitsFor(u) = {}
    BY <2>1, <2>2, <2>7 DEF WaitsFor
  <2> QED
    BY <2>8
<1>2. IInv => NoCircularWait
  BY <1>1 DEF NoCircularWait
<1> QED
  BY <1>2, Invariance, PTL

\* start() succeeds only with running_ set and a worker thread.
THEOREM StartOk == Spec => StartOkRuns
<1> DEFINE OkRuns(c) == ret[c] # "ok" /\ ret'[c] = "ok" /\ pc[c] \in StartPCs
                          => running' /\ pc'[Worker] # "none"
<1>1. IInv /\ [Next]_vars => \A c \in Clients : OkRuns(c)
  <2> SUFFICES ASSUME IInv, [Next]_vars, NEW c \in Clients,
                      ret[c] # "ok", ret'[c] = "ok", pc[c] \in StartPCs
               PROVE  running' /\ pc'[Worker] # "none"
    OBVIOUS
  <2> USE DEF IInv, TypeOK, calls, At, Goto
  <2>1. ret' # ret
    OBVIOUS
  <2>2. CASE \E d \in Clients : StartCheck(d)
    <3>1. PICK d \in Clients : StartCheck(d)
      BY <2>2
    <3>2. d = c /\ running
      BY <3>1 DEF StartCheck, Return
    <3> QED
      BY <3>1, <3>2, ThreadsAssumption
      DEF StartCheck, Return, WorkerOK, flags, Threads
  <2>3. CASE \E d \in Clients : StartSpawn(d)
    BY <2>3 DEF StartSpawn, WorkerOK, Threads, flags
  <2>4. ASSUME NEW d \in Clients,
               \/ StartPending(d) \/ StartRollback(d) \/ SwitchCleanup(d)
               \/ ClientCalls(d)
        PROVE  FALSE
    BY <2>4 DEF StartPending, StartRollback, SwitchCleanup, ClientCalls, Load,
                Start, Stop, StopIfRunning, Shutdown, Pause, Resume, Step,
                Call, Return
  <2>5. ASSUME NEW d \in Clients, StopExchange(d) \/ StopClean(d)
        PROVE  FALSE
    BY <2>5 DEF StopExchange, StopClean, Stopped, Return, StartPCs, SwitchPCs
  <2> QED
    BY <2>1, <2>2, <2>3, <2>4, <2>5, ThreadsAssumption
    DEF Next, ClientStep, WorkerStep, SwitchTree, vars, LoadStore, LoadNotify,
        StartLock, SwitchBegin, SwitchCreate, SwitchAttach, SwitchCleanup,
        StartSetRunning, StartSetPaused, StartSpawnFails, StartUnsetRunning,
        StartSetPausedAgain, StopLock, StopNotify, StopJoin, ResumeNotify,
        StepTick, LoopWhile, LoopPred, LoopBlock, LoopSpurious, LoopCheck,
        LoopCheckPending, LoopTickLock, LoopTick, LoopTimedPred,
        LoopTimedBlock, LoopTimeout, WorkerGoto
<1> QED
  BY Invariance, <1>1, PTL DEF Spec, StartOkRuns
=============================================================================
