------------------------- MODULE ManagerLife_proofs -------------------------
(***************************************************************************)
(* BTManager implements ManagerLife, for any set of clients and files:     *)
(* every step of a thread is one step of the contract, or none that can be *)
(* seen from outside.                                                      *)
(***************************************************************************)
EXTENDS BTManager_proofs

-----------------------------------------------------------------------------
(* What IInv does not say of a switch *)

\* A thread on its way into or inside switchTree() has a file to load, and only
\* it can take the file away; a start() that got through has a tree.
SwitchOK ==
  /\ \A t \in Threads : pc[t] \in {"switchBegin"} \cup SwitchPCs => hasPending
  /\ \A c \in Clients : pc[c] \in {"setRunning", "setPaused", "spawn"} => tree # NoTree

LEMMA InitSwitchOK == Init => SwitchOK
  BY ThreadsAssumption DEF Init, SwitchOK, Threads, SwitchPCs

\* Two threads are never on their way through a switch at once, nor is one while
\* a start() is between its switch and its thread.
LEMMA OneSwitch ==
  ASSUME IInv, NEW t \in Threads, pc[t] \in {"switchBegin"} \cup SwitchPCs
  PROVE  /\ \A u \in Threads : pc[u] \in {"switchBegin"} \cup SwitchPCs => u = t
         /\ \A c \in Clients : pc[c] \notin {"setRunning", "setPaused", "spawn"}
<1>1. CASE t = Worker
  BY <1>1 DEF IInv, WorkerOK, Threads, SwitchPCs
<1>2. CASE t \in Clients
  <2>1. lifecycle = t /\ pc[Worker] = "none"
    BY <1>2 DEF IInv, LockOK, WorkerOK, LifecyclePCs, StartPCs, SwitchPCs
  <2>2. \A c \in Clients : pc[c] \in LifecyclePCs => c = t
    BY <2>1 DEF IInv, LockOK
  <2> QED
    BY <2>1, <2>2 DEF Threads, LifecyclePCs, StartPCs, SwitchPCs
<1> QED
  BY <1>1, <1>2 DEF Threads

LEMMA NextSwitchOK == IInv /\ SwitchOK /\ [Next]_vars => SwitchOK'
<1> SUFFICES ASSUME IInv, SwitchOK, [Next]_vars PROVE SwitchOK'
  OBVIOUS
<1> USE ThreadsAssumption DEF Threads, At, Goto, SwitchPCs, TypeOK
<1>t. TypeOK /\ LockOK /\ WorkerOK
  BY DEF IInv
<1>1. ASSUME NEW t \in Threads, SwitchBegin(t) PROVE SwitchOK'
  BY <1>1, <1>t DEF SwitchBegin, pending, flags, calls, SwitchOK
<1>2. ASSUME NEW t \in Threads, SwitchCreate(t) PROVE SwitchOK'
  BY <1>2, <1>t, OneSwitch DEF SwitchCreate, pending, SwitchOK
<1>3. ASSUME NEW t \in Threads, SwitchAttach(t) PROVE SwitchOK'
  <2>1. hasPending /\ pendingXml \in Files /\ tree = pendingXml
    BY <1>3, <1>t DEF SwitchAttach, SwitchOK, IInv, TreeOK
  <2> QED
    BY <1>3, <1>t, <2>1, FilesAssumption, OneSwitch DEF SwitchAttach, SwitchDone, SwitchOK
<1>4. ASSUME NEW t \in Threads, SwitchCleanup(t) PROVE SwitchOK'
  BY <1>4, <1>t, OneSwitch DEF SwitchCleanup, Return, SwitchOK
<1>5. ASSUME NEW c \in Clients, StartRollback(c) \/ StopClean(c) PROVE SwitchOK'
  <2>1. \A d \in Clients \ {c} : pc[d] \notin LifecyclePCs
    BY <1>5, <1>t DEF StartRollback, StopClean, LockOK, LifecyclePCs, StartPCs, StopPCs
  <2> QED
    BY <1>5, <1>t, <2>1 DEF StartRollback, StopClean, Stopped, Return, SwitchOK, pending,
                            LifecyclePCs, StartPCs
<1>6. ASSUME NEW c \in Clients, LoadStore(c) PROVE SwitchOK'
  BY <1>6, <1>t DEF LoadStore, SwitchOK, treeVars
<1>7. ASSUME UNCHANGED <<tree, hasPending>>,
             \A t \in Threads : pc'[t] \in {"switchBegin"} \cup SwitchPCs =>
               pc[t] \in {"switchBegin"} \cup SwitchPCs \/ hasPending,
             \A c \in Clients : pc'[c] \in {"setRunning", "setPaused", "spawn"} =>
               pc[c] \in {"setRunning", "setPaused", "spawn"}
      PROVE  SwitchOK'
  BY <1>7 DEF SwitchOK
<1>8. ASSUME NEW c \in Clients, ClientCalls(c) PROVE SwitchOK'
  BY <1>7, <1>8, <1>t
     DEF ClientCalls, Load, Start, Stop, StopIfRunning, Shutdown, Pause, Resume, Step, Call,
         pending, treeVars
<1>9. ASSUME NEW c \in Clients,
             LoadNotify(c) \/ StopNotify(c) \/ ResumeNotify(c) PROVE SwitchOK'
  BY <1>7, <1>9, <1>t DEF LoadNotify, StopNotify, ResumeNotify, NotifyAndGoto, Woken,
                          pending, treeVars
<1>10. ASSUME NEW c \in Clients,
              StartLock(c) \/ StartCheck(c) \/ StartPending(c) \/ StartSetRunning(c)
                \/ StartSetPaused(c) \/ StartSpawn(c) \/ StartSpawnFails(c)
       PROVE  SwitchOK'
  BY <1>7, <1>10, <1>t DEF StartLock, StartCheck, StartPending, StartSetRunning,
       StartSetPaused, StartSpawn, StartSpawnFails, Return, pending, treeVars
<1>11. ASSUME NEW c \in Clients,
              StartUnsetRunning(c) \/ StartSetPausedAgain(c) \/ StopLock(c) \/ StopExchange(c)
                \/ StopJoin(c) \/ StepTick(c)
       PROVE  SwitchOK'
  BY <1>7, <1>11, <1>t DEF StartUnsetRunning, StartSetPausedAgain, StopLock, StopExchange,
       StopJoin, StepTick, Stopped, Return, pending, treeVars
<1>12. CASE \/ LoopWhile \/ LoopPred \/ LoopBlock \/ LoopCheck \/ LoopCheckPending
            \/ LoopTimedPred \/ LoopTimedBlock \/ LoopTimeout \/ LoopSpurious
  BY <1>7, <1>12, <1>t DEF LoopWhile, LoopPred, LoopBlock, LoopCheck, LoopCheckPending,
       LoopTimedPred, LoopTimedBlock, LoopTimeout, LoopSpurious, WorkerGoto, pending, treeVars
<1>13. CASE LoopTickLock \/ LoopTick
  BY <1>7, <1>13, <1>t DEF LoopTickLock, LoopTick, pending, treeVars
<1>14. CASE UNCHANGED vars
  BY <1>7, <1>14 DEF vars, pending, treeVars
<1> QED
  BY <1>1, <1>2, <1>3, <1>4, <1>5, <1>6, <1>8, <1>9, <1>10, <1>11, <1>12, <1>13, <1>14
     DEF Next, ClientStep, WorkerStep, SwitchTree

-----------------------------------------------------------------------------
(* The refinement mapping *)

Op == [c \in Clients |-> OpAt[pc[c]]]

\* The operation at each label.
LEMMA OpValues ==
  /\ OpAt["idle"] = "none" /\ OpAt["load"] = "load" /\ OpAt["loadNotify"] = "loaded"
  /\ \A label \in {"startLock"} \cup StartPCs : OpAt[label] = "start"
  /\ \A label \in {"stopLock"} \cup StopPCs : OpAt[label] = "stop"
  /\ OpAt["resumeNotify"] = "manual" /\ OpAt["step"] = "manual"
  BY DEF OpAt, ClientPCs, StartPCs, StopPCs, SwitchPCs

\* A client moves, and its operation with it.
LEMMA OpMoves ==
  ASSUME NEW c \in Clients, NEW label, pc'[c] = label,
         \A d \in Clients \ {c} : pc'[d] = pc[d]
  PROVE  Op' = [Op EXCEPT ![c] = OpAt[label]]
  BY DEF Op

\* It moves inside its operation, or the worker moves.
LEMMA OpStays ==
  ASSUME \A c \in Clients : OpAt[pc'[c]] = OpAt[pc[c]]
  PROVE  Op' = Op
  BY DEF Op

\* The lifecycle, seen by the client that holds the mutex and by the others.
LEMMA LifeValues ==
  ASSUME IInv, NEW c \in Clients
  PROVE  /\ pc[c] \in BuildPCs => Life = "building" /\ Owner = c
         /\ pc[c] \in EndPCs => Life = "ending" /\ Owner = c
         /\ pc[c] \in {"startCheck", "stopExchange"} =>
              Life = (IF running THEN "running" ELSE "stopped") /\ Owner = NoThread
         /\ pc[c] \notin BuildPCs \cup EndPCs => Owner # c
<1>1. lifecycle = c <=> pc[c] \in LifecyclePCs
  BY DEF IInv, LockOK
<1>2. pc[c] \in BuildPCs \cup EndPCs \cup {"startCheck", "stopExchange"} => lifecycle = c
  BY <1>1 DEF BuildPCs, EndPCs, LifecyclePCs, StartPCs, StopPCs, SwitchPCs
<1>3. pc[c] \in EndPCs \cup {"startCheck", "stopExchange"} => pc[c] \notin BuildPCs
  BY DEF BuildPCs, EndPCs, StartPCs, StopPCs, SwitchPCs
<1>4. pc[c] \in {"startCheck", "stopExchange"} => pc[c] \notin EndPCs
  BY DEF EndPCs, StopPCs
<1>5. NoThread # c
  BY ThreadsAssumption
<1> QED
  BY <1>2, <1>3, <1>4, <1>5 DEF Life, Owner

\* Nothing happens to the run.
LEMMA LifeStays ==
  ASSUME UNCHANGED <<lifecycle, running>>,
         \A c \in Clients : /\ pc'[c] \in BuildPCs <=> pc[c] \in BuildPCs
                            /\ pc'[c] \in EndPCs <=> pc[c] \in EndPCs
  PROVE  UNCHANGED <<Life, Owner>>
  BY DEF Life, Owner

\* lifecycle_mtx_ is taken or given back without a change of the run.
LEMMA LifeLocked ==
  ASSUME UNCHANGED running,
         lifecycle \in Clients => pc[lifecycle] \notin BuildPCs \cup EndPCs,
         lifecycle' \in Clients => pc'[lifecycle'] \notin BuildPCs \cup EndPCs
  PROVE  UNCHANGED <<Life, Owner>>
<1>1. Life' = Life
  BY DEF Life
<1>2. Life \notin {"building", "ending"}
  BY DEF Life
<1> QED
  BY <1>1, <1>2 DEF Owner

-----------------------------------------------------------------------------
(* Calls, returns and the steps nobody sees *)

PcTyped == pc \in [Threads -> ClientPCs \cup WorkerPCs]

LEMMA Called ==
  ASSUME PcTyped, NEW c \in Clients, NEW label \in ClientPCs \ (BuildPCs \cup EndPCs),
         Call(c, label), UNCHANGED <<lifecycle, running>>
  PROVE  Contract!Call(c, OpAt[label]) /\ UNCHANGED <<Life, Owner>>
<1>1. pc[c] = "idle" /\ pc'[c] = label /\ \A d \in Clients \ {c} : pc'[d] = pc[d]
  BY DEF PcTyped, Threads, Call, At, Goto
<1>2. Op[c] = "none" /\ Op' = [Op EXCEPT ![c] = OpAt[label]]
  BY <1>1, OpMoves, OpValues DEF Op
<1>3. Contract!Call(c, OpAt[label])
  BY <1>2 DEF Contract!Call, Call, Op
<1>4. "idle" \notin BuildPCs \cup EndPCs
  BY DEF BuildPCs, EndPCs, StartPCs, StopPCs, SwitchPCs
<1> QED
  BY <1>1, <1>3, <1>4, LifeStays

LEMMA Returned ==
  ASSUME PcTyped, NEW c \in Clients, NEW result, Return(c, result), UNCHANGED arg
  PROVE  Contract!Return(c, result)
<1>1. pc'[c] = "idle" /\ \A d \in Clients \ {c} : pc'[d] = pc[d]
  BY DEF PcTyped, Threads, Return, Goto
<1>2. Op' = [Op EXCEPT ![c] = "none"]
  BY <1>1, OpMoves, OpValues
<1> QED
  BY <1>2 DEF Contract!Return, Return, Op

\* After its return the client that held lifecycle_mtx_ has left the run alone.
LEMMA LifeReturned ==
  ASSUME PcTyped, NEW c \in Clients, NEW result, Return(c, result)
  PROVE  Life' = (IF running' THEN "running" ELSE "stopped") /\ Owner' = NoThread
<1>1. lifecycle' \notin Clients
  BY ThreadsAssumption DEF Return
<1> QED
  BY <1>1 DEF Life, Owner

LEMMA Stutters ==
  ASSUME UNCHANGED <<Op, arg, ret, Life, Owner, pending, publisher, treeActive, stopping>>
  PROVE  UNCHANGED Contract!lifeVars
  BY DEF Op, pending, Contract!lifeVars, Contract!calls, Contract!run, Contract!view

\* The labels of one operation between which nothing changes for the others.
Quiet(from, to) ==
  /\ OpAt[to] = OpAt[from]
  /\ to \in BuildPCs <=> from \in BuildPCs
  /\ to \in EndPCs <=> from \in EndPCs

\* A thread moves on inside its operation.
LEMMA MovesOn ==
  ASSUME UNCHANGED <<lifecycle, running, arg, ret, pending, publisher, treeActive,
                     stopping>>,
         \A c \in Clients : Quiet(pc[c], pc'[c])
  PROVE  UNCHANGED Contract!lifeVars
  BY OpStays, LifeStays, Stutters DEF Quiet

\* What a tick does to the view of the tree.
LEMMA TickSeen ==
  ASSUME IInv, \A t \in Threads : pc[t] \notin SwitchPCs, TickTree
  PROVE  \/ UNCHANGED treeActive
         \/ publisher # NoTree /\ treeActive' \in BOOLEAN
<1>1. publisher = tree /\ observer = tree
  BY DEF IInv, TreeOK
<1> QED
  BY <1>1 DEF TickTree, SetActive

\* What haltTree() and reset() leave of the view.
LEMMA ResetSeen ==
  ASSUME HaltAndReset
  PROVE  Contract!NothingServed
  BY DEF HaltAndReset, SetActive, Contract!NothingServed

-----------------------------------------------------------------------------
(* The steps of the contract *)

Visible == [Contract!Next]_(Contract!lifeVars)

LEMMA ClientRefines ==
  ASSUME NEW c \in Clients, Contract!ClientNext(c)
  PROVE  Visible
  BY DEF Visible, Contract!Next

\* A client calls.
LEMMA CallsRefine ==
  ASSUME IInv, NEW c \in Clients, ClientCalls(c)
  PROVE  Visible
<1>t. PcTyped
  BY DEF IInv, TypeOK, PcTyped
<1>l. {"load", "startLock", "stopLock", "idle", "resumeNotify", "step"}
        \subseteq ClientPCs \ (BuildPCs \cup EndPCs)
  BY DEF ClientPCs, BuildPCs, EndPCs, StartPCs, StopPCs, SwitchPCs
<1>o. /\ OpAt["load"] = "load" /\ OpAt["startLock"] = "start" /\ OpAt["stopLock"] = "stop"
      /\ OpAt["idle"] = "none" /\ OpAt["resumeNotify"] = "manual" /\ OpAt["step"] = "manual"
  BY OpValues
<1> USE DEF locks, flags, pending, treeVars, Contract!run, Contract!view
<1>1. ASSUME NEW file \in Files, Load(c, file) PROVE Visible
  <2>1. Contract!Call(c, "load") /\ UNCHANGED <<Life, Owner>>
    BY <1>1, <1>t, <1>l, <1>o, Called DEF Load
  <2>2. Contract!Load(c, file)
    BY <1>1, <2>1 DEF Load, Contract!Load
  <2> QED
    BY <2>2, ClientRefines DEF Contract!ClientNext
<1>2. CASE Start(c)
  <2>1. Contract!Call(c, "start") /\ UNCHANGED <<Life, Owner>>
    BY <1>2, <1>t, <1>l, <1>o, Called DEF Start
  <2>2. Contract!Start(c)
    BY <1>2, <2>1 DEF Start, Contract!Start
  <2> QED
    BY <2>2, ClientRefines DEF Contract!ClientNext
<1>3. CASE Stop(c)
  <2>1. Contract!Call(c, "stop") /\ UNCHANGED <<Life, Owner>>
    BY <1>3, <1>t, <1>l, <1>o, Called DEF Stop
  <2>2. Contract!Stop(c)
    BY <1>3, <2>1 DEF Stop, Contract!Stop
  <2> QED
    BY <2>2, ClientRefines DEF Contract!ClientNext
<1>4. CASE Shutdown(c)
  <2>1. Contract!Call(c, "stop") /\ UNCHANGED <<Life, Owner>>
    BY <1>4, <1>t, <1>l, <1>o, Called DEF Shutdown
  <2>2. Contract!Close(c)
    BY <1>4, <2>1 DEF Shutdown, Contract!Close
  <2> QED
    BY <2>2, ClientRefines DEF Contract!ClientNext
<1>5. CASE Pause(c) \/ Resume(c) \/ Step(c)
  <2>1. PICK what \in {"none", "manual"} :
          Contract!Call(c, what) /\ UNCHANGED <<Life, Owner>>
    <3>1. CASE Pause(c)
      BY <3>1, <1>t, <1>l, <1>o, Called DEF Pause
    <3>2. CASE Resume(c)
      BY <3>2, <1>t, <1>l, <1>o, Called DEF Resume
    <3>3. CASE Step(c)
      BY <3>3, <1>t, <1>l, <1>o, Called DEF Step
    <3> QED
      BY <1>5, <3>1, <3>2, <3>3
  <2>2. Contract!Manual(c, what)
    BY <1>5, <2>1 DEF Pause, Resume, Step, Contract!Manual
  <2> QED
    BY <2>2, ClientRefines DEF Contract!ClientNext
<1> QED
  BY <1>1, <1>2, <1>3, <1>4, <1>5 DEF ClientCalls, StopIfRunning

\* loadTree(): the load takes effect with the release of tree_mtx_.
LEMMA LoadRefines ==
  ASSUME IInv, NEW c \in Clients, LoadStore(c) \/ LoadNotify(c)
  PROVE  Visible
<1>t. PcTyped /\ Worker \notin Clients
  BY ThreadsAssumption DEF IInv, TypeOK, PcTyped
<1>l. {"load", "loadNotify", "idle"} \cap (BuildPCs \cup EndPCs) = {}
  BY DEF BuildPCs, EndPCs, StartPCs, StopPCs, SwitchPCs
<1> USE DEF locks, flags, pending, treeVars, Contract!run, Contract!view
<1>1. CASE LoadStore(c)
  <2>1. /\ pc[c] = "load" /\ pc'[c] = "loadNotify"
        /\ \A d \in Clients \ {c} : pc'[d] = pc[d]
    BY <1>1, <1>t DEF LoadStore, At, Goto, PcTyped, Threads
  <2>2. Op[c] = "load" /\ Op' = [Op EXCEPT ![c] = "loaded"]
    BY <2>1, OpMoves, OpValues DEF Op
  <2>3. UNCHANGED <<Life, Owner>>
    BY <1>1, <2>1, <1>l, LifeStays DEF LoadStore
  <2>4. hasPending' /\ pendingXml' = arg[c]
    BY <1>1 DEF LoadStore
  <2>5. Contract!Want(c)
    BY <1>1, <2>2, <2>3, <2>4 DEF LoadStore, Contract!Want, Op, calls
  <2> QED
    BY <2>5, ClientRefines DEF Contract!ClientNext
<1>2. CASE LoadNotify(c)
  <2>1. /\ pc[c] = "loadNotify" /\ pc'[c] = "idle"
        /\ \A d \in Clients \ {c} : pc'[d] = pc[d]
    BY <1>2, <1>t DEF LoadNotify, At, NotifyAndGoto, PcTyped, Threads
  <2>2. Op[c] = "loaded" /\ Op' = [Op EXCEPT ![c] = "none"]
    BY <2>1, OpMoves, OpValues DEF Op
  <2>3. UNCHANGED <<Life, Owner>>
    BY <1>2, <2>1, <1>l, LifeStays DEF LoadNotify
  <2>4. Contract!Loaded(c)
    BY <1>2, <2>2, <2>3 DEF LoadNotify, Contract!Loaded, Op, calls
  <2> QED
    BY <2>4, ClientRefines DEF Contract!ClientNext
<1> QED
  BY <1>1, <1>2

\* start(), but for its switch of the tree.
LEMMA StartRefines ==
  ASSUME IInv, SwitchOK, NEW c \in Clients,
         \/ StartLock(c) \/ StartCheck(c) \/ StartPending(c)
         \/ StartSetRunning(c) \/ StartSetPaused(c) \/ StartSpawn(c) \/ StartSpawnFails(c)
         \/ StartUnsetRunning(c) \/ StartSetPausedAgain(c) \/ StartRollback(c)
  PROVE  Visible
<1>t. /\ PcTyped /\ TypeOK /\ LockOK /\ WorkerOK /\ CleanOK
      /\ Worker \notin Clients /\ NoThread \notin Clients
  BY ThreadsAssumption DEF IInv, TypeOK, PcTyped
<1>o. /\ \A label \in {"startLock"} \cup StartPCs : OpAt[label] = "start"
      /\ OpAt["idle"] = "none"
  BY OpValues
<1>s. /\ {"startLock", "startCheck", "idle"} \cap (BuildPCs \cup EndPCs) = {}
      /\ {"startPending", "switchBegin", "setRunning", "setPaused", "spawn", "unsetRunning",
          "setPausedAgain", "rollback"} \subseteq BuildPCs
      /\ BuildPCs \cap EndPCs = {} /\ BuildPCs \cup {"startCheck"} = StartPCs
  BY DEF BuildPCs, EndPCs, StartPCs, StopPCs, SwitchPCs
<1> USE DEF locks, flags, calls, pending, treeVars, Contract!run, Contract!view
<1>1. CASE StartLock(c)
  <2>1. Op' = Op
    BY <1>1, <1>t, <1>o, <1>s, OpStays DEF StartLock, At, Goto, PcTyped, Threads
  <2>2. UNCHANGED <<Life, Owner>>
    BY <1>1, <1>t, <1>s, LifeLocked DEF StartLock, At, Goto, PcTyped, Threads
  <2> QED
    BY <1>1, <2>1, <2>2, Stutters DEF StartLock, Visible
<1>2. CASE StartCheck(c)
  <2>1. /\ Op[c] = "start" /\ Owner = NoThread
        /\ Life = (IF running THEN "running" ELSE "stopped")
    BY <1>2, <1>o, <1>s, LifeValues DEF StartCheck, At, Op
  <2>2. CASE Return(c, "failed") /\ stopping
    <3>1. UNCHANGED <<Life, Owner>>
      BY <1>2, <1>t, <2>1, <2>2, LifeReturned DEF StartCheck
    <3>2. Contract!Refuse(c)
      BY <1>2, <1>t, <2>1, <2>2, <3>1, Returned DEF StartCheck, Contract!Refuse, Op
    <3> QED
      BY <3>2, ClientRefines DEF Contract!ClientNext
  <2>3. CASE ~stopping /\ running /\ Return(c, "ok")
    <3>1. UNCHANGED <<Life, Owner>>
      BY <1>2, <1>t, <2>1, <2>3, LifeReturned DEF StartCheck
    <3>2. Contract!RunsAlready(c)
      BY <1>2, <1>t, <2>1, <2>3, <3>1, Returned DEF StartCheck, Contract!RunsAlready, Op
    <3> QED
      BY <3>2, ClientRefines DEF Contract!ClientNext
  <2>4. CASE ~stopping /\ ~running /\ Goto(c, "startPending") /\ UNCHANGED <<lifecycle, ret>>
    <3>1. /\ pc'[c] = "startPending" /\ \A d \in Clients \ {c} : pc'[d] = pc[d]
          /\ pc[c] = "startCheck"
      BY <1>2, <1>t, <2>4 DEF StartCheck, At, Goto, PcTyped, Threads
    <3>2. Op' = Op
      BY <3>1, <1>o, <1>s, OpStays
    <3>3. lifecycle' = c
      BY <2>4, <3>1, <1>t DEF LockOK, LifecyclePCs, StartPCs
    <3>4. Life' = "building" /\ Owner' = c
      BY <3>1, <3>3, <1>s DEF Life, Owner
    <3>5. Contract!Begin(c)
      BY <1>2, <2>1, <2>4, <3>2, <3>4 DEF StartCheck, Contract!Begin, Contract!calls, Op
    <3> QED
      BY <3>5, ClientRefines DEF Contract!ClientNext
  <2> QED
    BY <1>2, <2>2, <2>3, <2>4 DEF StartCheck
<1>3. ASSUME pc[c] \in BuildPCs, Return(c, "failed"), Contract!NothingServed, ~running',
             UNCHANGED <<arg, stopping, pending>>
      PROVE  Visible
  <2>1. Op[c] = "start" /\ Owner = c /\ Life = "building"
    BY <1>3, <1>o, <1>s, LifeValues DEF Op
  <2>2. Life' = "stopped" /\ Owner' = NoThread
    BY <1>3, <1>t, LifeReturned
  <2>3. Contract!GiveUp(c)
    BY <1>3, <1>t, <2>1, <2>2, Returned DEF Contract!GiveUp, Op
  <2> QED
    BY <2>3, ClientRefines DEF Contract!ClientNext
<1>4. CASE StartPending(c)
  <2>1. CASE Return(c, "failed")
    <3>1. publisher = NoTree /\ ~treeActive
      <4>1. \A d \in Clients \ {c} : pc[d] \notin LifecyclePCs
        BY <1>4, <1>t DEF StartPending, At, LockOK, LifecyclePCs, StartPCs
      <4>2. \A d \in Clients : pc[d] \notin BuildingPCs
        BY <1>4, <4>1 DEF StartPending, At, BuildingPCs, LifecyclePCs, StartPCs, StopPCs,
                          SwitchPCs
      <4>3. pc[Worker] = "none"
        BY <1>4, <1>t DEF StartPending, At, WorkerOK
      <4>4. publisher = NoTree /\ tree = NoTree
        BY <1>t, <4>2, <4>3 DEF CleanOK
      <4>5. \A u \in Threads : pc[u] \notin SwitchPCs
        BY <4>2, <4>3 DEF Threads, BuildingPCs, SwitchPCs
      <4> QED
        BY <4>4, <4>5 DEF IInv, TreeOK
    <3>2. Contract!NothingServed
      <4>1. treeActive \in BOOLEAN /\ UNCHANGED <<publisher, treeActive>>
        BY <1>4, <1>t DEF StartPending, TypeOK
      <4> QED
        BY <3>1, <4>1, Zenon DEF Contract!NothingServed
    <3>3. ~running
      BY <1>4, <1>t DEF StartPending, At, WorkerOK
    <3> QED
      BY <1>3, <1>4, <1>s, <2>1, <3>2, <3>3 DEF StartPending, At
  <2>2. CASE Goto(c, "switchBegin") /\ UNCHANGED <<lifecycle, ret>>
    <3>1. \A d \in Clients : Quiet(pc[d], pc'[d])
      BY <1>4, <2>2, <1>t, <1>o, <1>s DEF StartPending, At, Goto, PcTyped, Threads, Quiet
    <3> QED
      BY <1>4, <2>2, <3>1, MovesOn DEF StartPending, Visible
  <2> QED
    BY <1>4, <2>1, <2>2 DEF StartPending
<1>5. CASE StartSetRunning(c) \/ StartUnsetRunning(c)
  <2>1. /\ pc[c] \in {"setRunning", "unsetRunning"}
        /\ pc'[c] \in {"setPaused", "setPausedAgain"}
        /\ \A d \in Clients \ {c} : pc'[d] = pc[d]
    BY <1>5, <1>t DEF StartSetRunning, StartUnsetRunning, At, Goto, PcTyped, Threads
  <2>2. Op' = Op
    BY <2>1, <1>o, <1>s, OpStays
  <2>3. lifecycle = c /\ lifecycle' = c
    BY <1>5, <1>t, <2>1
       DEF StartSetRunning, StartUnsetRunning, LockOK, LifecyclePCs, StartPCs
  <2>4. UNCHANGED <<Life, Owner>>
    BY <2>1, <2>3, <1>s DEF Life, Owner
  <2> QED
    BY <1>5, <2>2, <2>4, Stutters DEF StartSetRunning, StartUnsetRunning, Visible
<1>6. CASE StartSetPaused(c) \/ StartSpawnFails(c) \/ StartSetPausedAgain(c)
  <2>1. /\ pc[c] \in {"setPaused", "spawn", "setPausedAgain"}
        /\ pc'[c] \in {"spawn", "unsetRunning", "rollback"}
        /\ \A d \in Clients \ {c} : pc'[d] = pc[d]
    BY <1>6, <1>t
       DEF StartSetPaused, StartSpawnFails, StartSetPausedAgain, At, Goto, PcTyped, Threads
  <2>2. \A d \in Clients : Quiet(pc[d], pc'[d])
    BY <2>1, <1>o, <1>s DEF Quiet
  <2> QED
    BY <1>6, <2>2, MovesOn DEF StartSetPaused, StartSpawnFails, StartSetPausedAgain, Visible
<1>7. CASE StartSpawn(c)
  <2>1. pc[c] = "spawn" /\ pc'[c] = "idle" /\ \A d \in Clients \ {c} : pc'[d] = pc[d]
    BY <1>7, <1>t DEF StartSpawn, At, PcTyped, Threads
  <2>2. Op[c] = "start" /\ Op' = [Op EXCEPT ![c] = "none"]
    BY <2>1, <1>o, <1>s, OpMoves DEF Op
  <2>3. Life = "building" /\ Owner = c
    BY <2>1, <1>s, LifeValues
  <2>4. Life' = "running" /\ Owner' = NoThread
    BY <1>7, <1>t, <2>1 DEF StartSpawn, WorkerOK, Life, Owner
  <2>5. publisher # NoTree
    <3>1. \A t \in Threads : pc[t] \notin SwitchPCs
      BY <2>1, OneSwitch
    <3> QED
      BY <2>1, <3>1 DEF SwitchOK, IInv, TreeOK
  <2>6. Contract!Run(c)
    BY <1>7, <2>2, <2>3, <2>4, <2>5 DEF StartSpawn, Contract!Run, Contract!Return, Op
  <2> QED
    BY <2>6, ClientRefines DEF Contract!ClientNext
<1>8. CASE StartRollback(c)
  <2>1. Contract!NothingServed
    BY <1>8, ResetSeen DEF StartRollback
  <2>2. ~running
    BY <1>8, <1>t DEF StartRollback, At, WorkerOK
  <2> QED
    BY <1>3, <1>8, <1>s, <2>1, <2>2 DEF StartRollback, At
<1> QED
  BY <1>1, <1>2, <1>4, <1>5, <1>6, <1>7, <1>8

\* While the worker exists a run is under way.
LEMMA WorkerLife ==
  ASSUME IInv, pc[Worker] # "none"
  PROVE  Life \in {"running", "ending"}
<1>1. CASE lifecycle = NoThread
  BY <1>1, ThreadsAssumption DEF IInv, WorkerOK, Life
<1>2. CASE lifecycle \in Clients
  <2>1. pc[lifecycle] \in LifecyclePCs
    BY <1>2 DEF IInv, LockOK
  <2>2. pc[lifecycle] \in {"startCheck", "stopExchange"} => running
    BY <1>2 DEF IInv, WorkerOK
  <2>3. pc[lifecycle] \notin BuildPCs
    BY <1>2 DEF IInv, WorkerOK, BuildPCs, StartPCs, SwitchPCs
  <2>4. pc[lifecycle] \in {"startCheck", "stopExchange"} \cup EndPCs
    BY <2>1, <2>3 DEF LifecyclePCs, BuildPCs, EndPCs
  <2> QED
    BY <1>2, <2>2, <2>3, <2>4 DEF Life
<1> QED
  BY <1>1, <1>2 DEF IInv, TypeOK

\* A thread in a switch: the run is being built by that client, or has the worker.
LEMMA SwitchLife ==
  ASSUME IInv, NEW t \in Threads, pc[t] \in {"switchBegin"} \cup SwitchPCs
  PROVE  /\ t \in Clients => Life = "building" /\ Owner = t /\ Op[t] = "start"
         /\ t = Worker => Life \in {"running", "ending"}
<1>1. pc[t] # "none" /\ pc[t] \in BuildPCs /\ OpAt[pc[t]] = "start"
  BY OpValues DEF BuildPCs, StartPCs, SwitchPCs
<1> QED
  BY <1>1, LifeValues, WorkerLife DEF Op

\* switchTree(): the old tree is withdrawn when it is halted, and the new one
\* served, or the bad file discarded, when tree_mtx_ is released.
LEMMA SwitchRefines ==
  ASSUME IInv, SwitchOK, NEW t \in Threads, SwitchTree(t)
  PROVE  Visible
<1>t. /\ PcTyped /\ TypeOK /\ LockOK /\ WorkerOK
      /\ Worker \notin Clients /\ NoThread \notin Clients
  BY ThreadsAssumption DEF IInv, TypeOK, PcTyped
<1>s. /\ {"switchBegin", "setRunning"} \cup SwitchPCs \subseteq BuildPCs
      /\ BuildPCs \cap EndPCs = {} /\ BuildPCs \subseteq StartPCs
  BY DEF BuildPCs, EndPCs, StartPCs, StopPCs, SwitchPCs
<1>o. \A label \in StartPCs : OpAt[label] = "start"
  BY OpValues
<1>p. pc[t] \in {"switchBegin"} \cup SwitchPCs
  BY DEF SwitchTree, SwitchBegin, SwitchCreate, SwitchAttach, SwitchCleanup, At, SwitchPCs
<1>w. hasPending /\ pendingXml \in Files /\ pendingXml # NoTree
  BY <1>p, <1>t, FilesAssumption DEF SwitchOK, TypeOK
<1>l. Life # "stopped"
  BY <1>p, SwitchLife DEF Threads
<1> USE DEF locks, flags, calls, pending, treeVars, Contract!run, Contract!view,
            Contract!calls
\* The thread stays in the switch, or start() leaves it with success.
<1>q. ASSUME NEW label \in {"switchBegin", "setRunning"} \cup SwitchPCs,
             Goto(t, label) \/ (t = Worker /\ Goto(t, "while"))
      PROVE  \A c \in Clients : Quiet(pc[c], pc'[c])
  BY <1>p, <1>q, <1>t, <1>s, <1>o DEF Goto, PcTyped, Threads, Quiet
<1>1. CASE SwitchBegin(t)
  <2>1. \A c \in Clients : Quiet(pc[c], pc'[c])
    BY <1>1, <1>q DEF SwitchBegin, SwitchPCs
  <2>2. UNCHANGED <<Op, Life, Owner>>
    BY <1>1, <2>1, OpStays, LifeStays DEF SwitchBegin, Quiet
  <2>3. Contract!NothingServed
    BY <1>1 DEF SwitchBegin, SetActive, Contract!NothingServed
  <2>4. Contract!Withdraw
    BY <1>1, <1>w, <1>l, <2>2, <2>3 DEF SwitchBegin, Contract!Withdraw, Op
  <2> QED
    BY <2>4 DEF Visible, Contract!Next
<1>2. CASE \/ SwitchCreate(t)
           \/ SwitchAttach(t) /\ Goto(t, "switchCleanup")
                 /\ UNCHANGED <<treeMtx, hasPending, publisher, observer, monitor>>
  <2>1. PICK label \in SwitchPCs : Goto(t, label)
    BY <1>2 DEF SwitchCreate, SwitchPCs
  <2>2. \A c \in Clients : Quiet(pc[c], pc'[c])
    BY <2>1, <1>q
  <2> QED
    BY <1>2, <2>2, MovesOn DEF SwitchCreate, SwitchAttach, Visible
<1>3. CASE /\ SwitchAttach(t) /\ publisher' = tree /\ hasPending' = FALSE
           /\ SwitchDone(t)
  <2>1. \A c \in Clients : Quiet(pc[c], pc'[c])
    BY <1>3, <1>q DEF SwitchDone
  <2>2. UNCHANGED <<Op, Life, Owner>>
    BY <1>3, <2>1, OpStays, LifeStays DEF SwitchAttach, Quiet
  <2>3. publisher' = pendingXml
    BY <1>3 DEF SwitchAttach, At, IInv, TreeOK, SwitchPCs
  <2>4. treeActive' = FALSE
    <3>1. treeActive \in BOOLEAN /\ ~treeActive /\ UNCHANGED treeActive
      BY <1>3, <1>p, <1>t DEF SwitchAttach, At, IInv, TypeOK, TreeOK, SwitchPCs
    <3> QED
      BY <3>1, Zenon
  <2>5. Contract!Serve
    BY <1>3, <1>w, <1>l, <2>2, <2>3, <2>4 DEF SwitchAttach, Contract!Serve, Op
  <2> QED
    BY <2>5 DEF Visible, Contract!Next
<1>4. CASE SwitchCleanup(t)
  <2>1. Contract!NothingServed
    BY <1>4, ResetSeen DEF SwitchCleanup
  <2>2. CASE t = Worker
    <3>1. \A c \in Clients : Quiet(pc[c], pc'[c])
      BY <1>4, <2>2, <1>q DEF SwitchCleanup
    <3>2. UNCHANGED <<Op, Life, Owner>>
      BY <1>4, <2>2, <3>1, OpStays, LifeStays DEF SwitchCleanup, Quiet
    <3>3. Life \in {"running", "ending"}
      BY <2>2, <1>p, SwitchLife
    <3>4. Contract!Discard
      BY <1>4, <2>1, <2>2, <1>w, <3>2, <3>3 DEF SwitchCleanup, Contract!Discard, Op
    <3> QED
      BY <3>4 DEF Visible, Contract!Next
  <2>3. CASE t \in Clients
    <3>1. Op[t] = "start" /\ Owner = t /\ Life = "building"
      BY <2>3, <1>p, SwitchLife
    <3>2. Return(t, "failed") /\ UNCHANGED <<arg, stopping, running>> /\ ~hasPending'
      BY <1>4, <1>t, <2>3 DEF SwitchCleanup
    <3>3. ~running
      BY <1>4, <1>t, <2>3 DEF SwitchCleanup, At, WorkerOK, SwitchPCs
    <3>4. Life' = "stopped" /\ Owner' = NoThread
      BY <1>t, <2>3, <3>2, <3>3, LifeReturned
    <3>5. Contract!GiveUp(t)
      BY <1>t, <2>1, <2>3, <3>1, <3>2, <3>4, Returned DEF Contract!GiveUp, Op
    <3> QED
      BY <2>3, <3>5, ClientRefines DEF Contract!ClientNext
  <2> QED
    BY <2>2, <2>3 DEF Threads
<1> QED
  BY <1>1, <1>2, <1>3, <1>4 DEF SwitchTree, SwitchAttach

\* stop(): the run ends when running_ is cleared, and is gone after the cleanup.
LEMMA StopRefines ==
  ASSUME IInv, NEW c \in Clients,
         StopLock(c) \/ StopExchange(c) \/ StopNotify(c) \/ StopJoin(c) \/ StopClean(c)
  PROVE  Visible
<1>t. /\ PcTyped /\ TypeOK /\ LockOK /\ WorkerOK
      /\ Worker \notin Clients /\ NoThread \notin Clients
  BY ThreadsAssumption DEF IInv, TypeOK, PcTyped
<1>o. /\ \A label \in {"stopLock"} \cup StopPCs : OpAt[label] = "stop"
      /\ OpAt["idle"] = "none"
  BY OpValues
<1>s. /\ {"stopLock", "stopExchange", "idle"} \cap (BuildPCs \cup EndPCs) = {}
      /\ {"stopNotify", "stopJoin", "stopClean"} = EndPCs
      /\ BuildPCs \cap EndPCs = {} /\ EndPCs \cup {"stopExchange"} = StopPCs
  BY DEF BuildPCs, EndPCs, StartPCs, StopPCs, SwitchPCs
<1> USE DEF locks, flags, calls, pending, treeVars, Contract!run, Contract!view
<1>1. CASE StopLock(c)
  <2>1. Op' = Op
    BY <1>1, <1>t, <1>o, <1>s, OpStays DEF StopLock, At, Goto, PcTyped, Threads
  <2>2. UNCHANGED <<Life, Owner>>
    BY <1>1, <1>t, <1>s, LifeLocked DEF StopLock, At, Goto, PcTyped, Threads
  <2> QED
    BY <1>1, <2>1, <2>2, Stutters DEF StopLock, Visible
<1>2. CASE StopExchange(c)
  <2>1. /\ Op[c] = "stop" /\ Owner = NoThread
        /\ Life = (IF running THEN "running" ELSE "stopped")
    BY <1>2, <1>o, <1>s, LifeValues DEF StopExchange, At, Op
  <2>2. CASE ~running /\ Stopped(c)
    <3>1. UNCHANGED <<Life, Owner>>
      BY <1>2, <1>t, <2>1, <2>2, LifeReturned DEF StopExchange, Stopped
    <3>2. Contract!NothingRuns(c)
      BY <1>2, <1>t, <2>1, <2>2, <3>1, Returned
         DEF StopExchange, Stopped, Contract!NothingRuns, Op
    <3> QED
      BY <3>2, ClientRefines DEF Contract!ClientNext
  <2>3. CASE running /\ Goto(c, "stopNotify") /\ UNCHANGED <<lifecycle, ret, closing>>
    <3>1. /\ pc'[c] = "stopNotify" /\ \A d \in Clients \ {c} : pc'[d] = pc[d]
          /\ pc[c] = "stopExchange"
      BY <1>2, <1>t, <2>3 DEF StopExchange, At, Goto, PcTyped, Threads
    <3>2. Op' = Op
      BY <3>1, <1>o, <1>s, OpStays
    <3>3. lifecycle' = c
      BY <2>3, <3>1, <1>t DEF LockOK, LifecyclePCs, StopPCs
    <3>4. Life' = "ending" /\ Owner' = c
      BY <3>1, <3>3, <1>s DEF Life, Owner
    <3>5. Contract!End(c)
      BY <1>2, <2>1, <2>3, <3>2, <3>4 DEF StopExchange, Contract!End, Contract!calls, Op
    <3> QED
      BY <3>5, ClientRefines DEF Contract!ClientNext
  <2> QED
    BY <1>2, <2>2, <2>3 DEF StopExchange
<1>3. CASE StopNotify(c) \/ StopJoin(c)
  <2>1. /\ pc[c] \in {"stopNotify", "stopJoin"} /\ pc'[c] \in {"stopJoin", "stopClean"}
        /\ \A d \in Clients \ {c} : pc'[d] = pc[d]
    BY <1>3, <1>t DEF StopNotify, StopJoin, NotifyAndGoto, At, PcTyped, Threads
  <2>2. \A d \in Clients : Quiet(pc[d], pc'[d])
    BY <2>1, <1>o, <1>s DEF Quiet
  <2> QED
    BY <1>3, <2>2, MovesOn DEF StopNotify, StopJoin, Visible
<1>4. CASE StopClean(c)
  <2>1. Op[c] = "stop" /\ Owner = c /\ Life = "ending"
    BY <1>4, <1>o, <1>s, LifeValues DEF StopClean, At, Op
  <2>2. Contract!NothingServed
    BY <1>4, ResetSeen DEF StopClean
  <2>3. ~running
    BY <1>4, <1>t DEF StopClean, At, WorkerOK
  <2>4. Return(c, "ok") /\ UNCHANGED <<arg, stopping, running>>
    BY <1>4 DEF StopClean, Stopped
  <2>5. Life' = "stopped" /\ Owner' = NoThread
    BY <1>t, <2>3, <2>4, LifeReturned
  <2>6. Contract!Ended(c)
    BY <1>4, <1>t, <2>1, <2>2, <2>4, <2>5, Returned DEF StopClean, Contract!Ended, Op
  <2> QED
    BY <2>6, ClientRefines DEF Contract!ClientNext
<1> QED
  BY <1>1, <1>2, <1>3, <1>4

\* The manual calls, and step() with tree_mtx_ held.
LEMMA ManualRefines ==
  ASSUME IInv, NEW c \in Clients, ResumeNotify(c) \/ StepTick(c)
  PROVE  Visible
<1>t. /\ PcTyped /\ TypeOK /\ LockOK
      /\ Worker \notin Clients /\ NoThread \notin Threads
  BY ThreadsAssumption DEF IInv, TypeOK, PcTyped, Threads
<1>s. {"resumeNotify", "step", "idle"} \cap (BuildPCs \cup EndPCs) = {}
  BY DEF BuildPCs, EndPCs, StartPCs, StopPCs, SwitchPCs
<1> USE DEF locks, flags, calls, pending, treeVars, Contract!run, Contract!view
<1>1. /\ pc[c] \in {"resumeNotify", "step"} /\ pc'[c] = "idle"
      /\ \A d \in Clients \ {c} : pc'[d] = pc[d]
  BY <1>t DEF ResumeNotify, StepTick, NotifyAndGoto, At, Goto, PcTyped, Threads
<1>2. Op[c] = "manual" /\ Op' = [Op EXCEPT ![c] = "none"]
  BY <1>1, OpMoves, OpValues DEF Op
<1>3. UNCHANGED <<Life, Owner>>
  BY <1>1, <1>s, LifeStays DEF ResumeNotify, StepTick
<1>4. /\ UNCHANGED publisher
      /\ \/ UNCHANGED treeActive
         \/ publisher # NoTree /\ treeActive' \in BOOLEAN
  <2>1. CASE ResumeNotify(c)
    BY <2>1 DEF ResumeNotify
  <2>2. CASE StepTick(c)
    <3>1. \A t \in Threads : pc[t] \notin SwitchPCs
      BY <2>2, <1>t DEF StepTick, LockOK, TreePCs
    <3> QED
      BY <2>2, <3>1, TickSeen DEF StepTick
  <2> QED
    BY <2>1, <2>2
<1>5. Contract!ManualEnds(c)
  BY <1>2, <1>3, <1>4
     DEF ResumeNotify, StepTick, Contract!ManualEnds, Contract!Ticked, Op
<1> QED
  BY <1>5, ClientRefines DEF Contract!ClientNext

\* The rest of loop(): only the tick itself is seen, and the tree it ticks is the
\* publisher's and belongs to a run.
LEMMA LoopRefines ==
  ASSUME IInv,
         \/ LoopWhile \/ LoopPred \/ LoopBlock \/ LoopCheck \/ LoopCheckPending
         \/ LoopTickLock \/ LoopTick
         \/ LoopTimedPred \/ LoopTimedBlock \/ LoopTimeout \/ LoopSpurious
  PROVE  Visible
<1>t. /\ PcTyped /\ TypeOK /\ LockOK
      /\ Worker \notin Clients /\ NoThread \notin Threads
  BY ThreadsAssumption DEF IInv, TypeOK, PcTyped, Threads
<1> USE DEF locks, flags, calls, pending, treeVars, Contract!run, Contract!view,
            Contract!calls
<1>1. \A c \in Clients : pc'[c] = pc[c]
  BY <1>t DEF LoopWhile, LoopPred, LoopBlock, LoopCheck, LoopCheckPending, LoopTickLock,
       LoopTick, LoopTimedPred, LoopTimedBlock, LoopTimeout, LoopSpurious, WorkerGoto, Goto,
       PcTyped, Threads
<1>2. CASE LoopTick
  <2>1. pc[Worker] = "tick" /\ treeMtx = Worker
    BY <1>2, <1>t DEF LoopTick, At, LockOK, TreePCs, Threads
  <2>2. \A t \in Threads : pc[t] \notin SwitchPCs
    BY <1>t, <2>1 DEF LockOK, TreePCs, SwitchPCs, Threads
  <2>3. UNCHANGED <<Op, Life, Owner>>
    BY <1>1, <1>2, OpStays, LifeStays DEF LoopTick
  <2>4. CASE UNCHANGED treeActive
    BY <1>2, <2>3, <2>4, Stutters DEF LoopTick, Visible
  <2>5. CASE publisher # NoTree /\ treeActive' \in BOOLEAN
    <3>1. Life \in {"running", "ending"}
      BY <2>1, WorkerLife
    <3>2. Contract!Tick
      BY <1>2, <2>3, <2>5, <3>1 DEF LoopTick, Contract!Tick, Contract!Ticked, Op
    <3> QED
      BY <3>2 DEF Visible, Contract!Next
  <2> QED
    BY <1>2, <2>2, <2>4, <2>5, TickSeen DEF LoopTick
<1>3. CASE ~LoopTick
  <2>1. UNCHANGED <<lifecycle, running, arg, ret, pending, publisher, treeActive, stopping>>
    BY <1>3 DEF LoopWhile, LoopPred, LoopBlock, LoopCheck, LoopCheckPending, LoopTickLock,
         LoopTimedPred, LoopTimedBlock, LoopTimeout, LoopSpurious, WorkerGoto
  <2> QED
    BY <1>1, <2>1, MovesOn DEF Quiet, Visible
<1> QED
  BY <1>2, <1>3

\* Every step of the code is a step of the contract or is not seen.
LEMMA StepRefines == IInv /\ SwitchOK /\ [Next]_vars => Visible
<1> SUFFICES ASSUME IInv, SwitchOK, [Next]_vars PROVE Visible
  OBVIOUS
<1>1. ASSUME NEW c \in Clients, ClientStep(c) PROVE Visible
  BY <1>1, LoadRefines, StartRefines, SwitchRefines, StopRefines, ManualRefines
     DEF ClientStep, Threads
<1>2. CASE WorkerStep \/ LoopSpurious
  BY <1>2, SwitchRefines, LoopRefines DEF WorkerStep, Threads
<1>3. CASE UNCHANGED vars
  BY <1>3, MovesOn DEF vars, locks, flags, calls, pending, treeVars, Quiet, Visible
<1> QED
  BY <1>1, <1>2, <1>3, CallsRefine DEF Next

\* BTManager keeps the contract of ManagerLife: for its callers, loading, starting
\* and stopping take effect at one instant each.
THEOREM Refinement == Spec => KeepsContract
<1>1. Init => Contract!Init
  <2> SUFFICES ASSUME Init PROVE Contract!Init
    OBVIOUS
  <2>1. \A c \in Clients : pc[c] = "idle"
    BY ThreadsAssumption DEF Init, Threads
  <2>2. Op = [c \in Clients |-> "none"]
    BY <2>1, OpValues DEF Op
  <2>3. Life = "stopped" /\ Owner = NoThread
    BY ThreadsAssumption DEF Init, Life, Owner
  <2> QED
    BY <2>2, <2>3 DEF Init, Contract!Init, Op
<1> QED
  BY <1>1, InitSwitchOK, NextSwitchOK, StepRefines, Invariance, PTL
     DEF Spec, KeepsContract, Contract!Spec, Visible
=============================================================================
