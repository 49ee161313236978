------------------------------ MODULE BTManager ------------------------------
(***************************************************************************)
(* source/bt_manager.cpp: the owner of the behaviour tree.  Clients (the   *)
(* HTTP handlers, the pub/sub handlers and the plugin's on_stop) call      *)
(* loadTree, start, stop, ... from their own threads; start() creates the  *)
(* worker thread, which runs loop().                                       *)
(*                                                                         *)
(* lifecycle_mtx_ orders start() and stop(); tree_mtx_ guards the tree,    *)
(* its publisher and observer and the pending load; running_, paused_,     *)
(* stopping_ and has_pending_ are atomics read without a lock, so every    *)
(* read or write of one of them that another thread can intervene at is a  *)
(* step of its own.  cv_.notify_all() is called without cv_mtx_, so the    *)
(* evaluation of a wait predicate and the blocking are separate steps and  *)
(* a notification between them is lost.                                    *)
(*                                                                         *)
(* A tree is named by the file it was created from.  Whether a file parses *)
(* is decided when it is read, since the save handler may rewrite it after *)
(* the load.  Node statuses are abstracted to one bit: some node is not    *)
(* idle.                                                                   *)
(***************************************************************************)
EXTENDS Naturals

CONSTANTS
  Clients,         \* threads that call the manager
  Worker,          \* the thread that start() creates
  NoThread,        \* no owner of a mutex
  Files,           \* behaviour tree files
  NoTree,          \* no tree, no file
  Unknown,         \* what the monitor shows after a callback that failed
  ManualStepping   \* TRUE: pause(), resume() and step() are used too

ASSUME ThreadsAssumption ==
  Worker \notin Clients /\ NoThread \notin Clients \cup {Worker}
ASSUME FilesAssumption == NoTree \notin Files
ASSUME ManualSteppingAssumption == ManualStepping \in BOOLEAN

VARIABLES
  lifecycle,       \* owner of lifecycle_mtx_
  treeMtx,         \* owner of tree_mtx_
  pc,              \* where each thread is
  arg,             \* the file each client is loading
  ret,             \* what each client's last call returned
  running, paused, stopping,
  hasPending,      \* has_pending_
  pendingXml,      \* pending_xml_
  tree,            \* tree_
  publisher,       \* the tree publisher_ serves
  observer,        \* the tree observer_ is subscribed to
  treeActive,      \* some node of tree_ is not IDLE
  monitor,         \* the tree last given to the tree reset callback, and what
                   \* the node status callbacks say of treeActive
  closing          \* the client that runs the plugin's shutdown

locks == <<lifecycle, treeMtx>>
flags == <<running, paused, stopping>>
pending == <<hasPending, pendingXml>>
treeVars == <<tree, publisher, observer, treeActive>>
calls == <<arg, ret>>
vars == <<locks, pc, calls, flags, pending, treeVars, monitor, closing>>

Threads == Clients \cup {Worker}
Trees == Files \cup {NoTree}

SwitchPCs == {"switchCreate", "switchAttach", "switchCleanup"}
StartPCs == {"startCheck", "startPending", "switchBegin", "setRunning",
             "setPaused", "spawn", "unsetRunning", "setPausedAgain",
             "rollback"} \cup SwitchPCs
StopPCs == {"stopExchange", "stopNotify", "stopJoin", "stopClean"}
ClientPCs == {"idle", "load", "loadNotify", "startLock", "stopLock",
              "resumeNotify", "step"} \cup StartPCs \cup StopPCs
WorkerPCs == {"none", "while", "pred", "toBlock", "blocked", "check",
              "checkPending", "switchBegin", "tickLock", "tick", "timedPred",
              "toTimedBlock", "timedBlocked", "done"} \cup SwitchPCs

Init ==
  /\ lifecycle = NoThread /\ treeMtx = NoThread
  /\ pc = [t \in Threads |-> IF t = Worker THEN "none" ELSE "idle"]
  /\ arg = [c \in Clients |-> NoTree]
  /\ ret = [c \in Clients |-> "none"]
  /\ running = FALSE /\ paused = TRUE /\ stopping = FALSE
  /\ hasPending = FALSE /\ pendingXml = NoTree
  /\ tree = NoTree /\ publisher = NoTree /\ observer = NoTree
  /\ treeActive = FALSE
  /\ monitor = [tree |-> NoTree, active |-> FALSE]
  /\ closing = NoThread

-----------------------------------------------------------------------------
(* Helpers *)

At(t, label) == pc[t] = label
Goto(t, label) == pc' = [pc EXCEPT ![t] = label]

\* cv_.notify_all() by client c: a blocked worker evaluates its predicate.
Woken(label) == IF label = "blocked" THEN "pred"
                ELSE IF label = "timedBlocked" THEN "timedPred" ELSE label
NotifyAndGoto(c, label) ==
  pc' = [t \in Threads |-> IF t = c THEN label
                           ELSE IF t = Worker THEN Woken(pc[t]) ELSE pc[t]]

\* What the monitor shows once the observer, if any, has reported that the nodes
\* become active or idle.  A report that throws is caught and never repeated.
Reported(active) ==
  IF observer = NoTree \/ monitor = Unknown THEN {monitor}
  ELSE {[monitor EXCEPT !.active = active], Unknown}

SetActive(active) ==
  /\ treeActive' = active
  /\ monitor' \in Reported(active)

\* Mutant: reset() before haltTree(), so that nobody reports the halt.
HaltAndReset_ResetFirst ==
  /\ tree' = NoTree /\ publisher' = NoTree /\ observer' = NoTree
  /\ treeActive' = FALSE
  /\ UNCHANGED monitor

\* haltTree() and reset(), with tree_mtx_ held.
HaltAndReset ==
  /\ tree' = NoTree /\ publisher' = NoTree /\ observer' = NoTree
  /\ SetActive(FALSE)

\* A call of client c that holds lifecycle_mtx_ returns.
Return(c, result) ==
  /\ lifecycle' = NoThread
  /\ ret' = [ret EXCEPT ![c] = result]
  /\ Goto(c, "idle")

\* Client c calls an operation that begins at label.
Call(c, label) ==
  /\ At(c, "idle")
  /\ ret' = [ret EXCEPT ![c] = "none"]
  /\ Goto(c, label)

-----------------------------------------------------------------------------
(* loadTree() *)

Load(c, file) ==
  /\ Call(c, "load")
  /\ arg' = [arg EXCEPT ![c] = file]
  /\ UNCHANGED <<locks, flags, pending, treeVars, monitor, closing>>

\* Mutant: the file is stored without tree_mtx_.
LoadStore_NoLock(c) ==
  /\ At(c, "load")
  /\ pendingXml' = arg[c]
  /\ hasPending' = TRUE
  /\ arg' = [arg EXCEPT ![c] = NoTree]
  /\ Goto(c, "loadNotify")
  /\ UNCHANGED <<locks, ret, flags, treeVars, monitor, closing>>

\* Mutant: has_pending_ is set and the file itself is forgotten.
LoadStore_FlagOnly(c) ==
  /\ At(c, "load") /\ treeMtx = NoThread
  /\ hasPending' = TRUE
  /\ arg' = [arg EXCEPT ![c] = NoTree]
  /\ Goto(c, "loadNotify")
  /\ UNCHANGED <<locks, ret, flags, pendingXml, treeVars, monitor, closing>>

\* The critical section of tree_mtx_ has no other effect, so it is one step.
LoadStore(c) ==
  /\ At(c, "load") /\ treeMtx = NoThread
  /\ pendingXml' = arg[c]
  /\ hasPending' = TRUE
  /\ arg' = [arg EXCEPT ![c] = NoTree]
  /\ Goto(c, "loadNotify")
  /\ UNCHANGED <<locks, ret, flags, treeVars, monitor, closing>>

LoadNotify(c) ==
  /\ At(c, "loadNotify")
  /\ NotifyAndGoto(c, "idle")
  /\ UNCHANGED <<locks, calls, flags, pending, treeVars, monitor, closing>>

-----------------------------------------------------------------------------
(* switchTree(), run by start() and by loop() *)

\* Takes tree_mtx_, halts the old tree while it is still observed, then
\* drops its observer and publisher.
SwitchBegin(t) ==
  /\ At(t, "switchBegin") /\ treeMtx = NoThread
  /\ treeMtx' = t
  /\ SetActive(FALSE)
  /\ publisher' = NoTree /\ observer' = NoTree
  /\ Goto(t, "switchCreate")
  /\ UNCHANGED <<lifecycle, calls, flags, pending, tree, closing>>

\* createTreeFromFile() replaces the tree, or throws and leaves the old one.
SwitchCreate(t) ==
  /\ At(t, "switchCreate")
  /\ \/ tree' = pendingXml /\ Goto(t, "switchAttach")
     \/ Goto(t, "switchCleanup") /\ UNCHANGED tree
  /\ UNCHANGED <<locks, calls, flags, pending, publisher, observer,
                 treeActive, monitor, closing>>

\* switchTree() leaves with success: where its caller goes on.
SwitchDone(t) == Goto(t, IF t = Worker THEN "while" ELSE "setRunning")

\* The monitor is given the tree, all of it idle.  If writing its XML or the
\* callback throws, that is caught, and the switch succeeds all the same.
OnTreeReset == monitor' \in {[tree |-> tree, active |-> FALSE], Unknown}

\* The publisher and the observer of the new tree, has_pending_ = false,
\* onTreeReset() and the release of tree_mtx_; the publisher may throw.
SwitchAttach(t) ==
  /\ At(t, "switchAttach")
  /\ \/ /\ publisher' = tree /\ observer' = tree
        /\ hasPending' = FALSE
        /\ OnTreeReset
        /\ SwitchDone(t)
        /\ treeMtx' = NoThread
     \/ /\ Goto(t, "switchCleanup")
        /\ UNCHANGED <<treeMtx, hasPending, publisher, observer, monitor>>
  /\ UNCHANGED <<lifecycle, calls, flags, pendingXml, tree, treeActive,
                 closing>>

\* The catch blocks.  In start() the failure is returned, in loop() dropped.
SwitchCleanup(t) ==
  /\ At(t, "switchCleanup")
  /\ hasPending' = FALSE
  /\ HaltAndReset
  /\ treeMtx' = NoThread
  /\ IF t = Worker
     THEN Goto(t, "while") /\ UNCHANGED <<lifecycle, ret>>
     ELSE Return(t, "failed")
  /\ UNCHANGED <<arg, flags, pendingXml, closing>>

SwitchTree(t) ==
  SwitchBegin(t) \/ SwitchCreate(t) \/ SwitchAttach(t) \/ SwitchCleanup(t)

-----------------------------------------------------------------------------
(* start() *)

Start(c) ==
  /\ Call(c, "startLock")
  /\ UNCHANGED <<locks, arg, flags, pending, treeVars, monitor, closing>>

StartLock(c) ==
  /\ At(c, "startLock") /\ lifecycle = NoThread
  /\ lifecycle' = c
  /\ Goto(c, "startCheck")
  /\ UNCHANGED <<treeMtx, calls, flags, pending, treeVars, monitor, closing>>

\* Mutant: start() does not look at stopping_.
StartCheck_IgnoreStopping(c) ==
  /\ At(c, "startCheck")
  /\ \/ running /\ Return(c, "ok")
     \/ ~running /\ Goto(c, "startPending") /\ UNCHANGED <<lifecycle, ret>>
  /\ UNCHANGED <<treeMtx, arg, flags, pending, treeVars, monitor, closing>>

\* stopping_ fails the call, running_ makes it an idempotent success.  Both
\* are read in one step: running_ cannot change while lifecycle_mtx_ is held.
StartCheck(c) ==
  /\ At(c, "startCheck")
  /\ \/ stopping /\ Return(c, "failed")
     \/ ~stopping /\ running /\ Return(c, "ok")
     \/ ~stopping /\ ~running /\ Goto(c, "startPending")
          /\ UNCHANGED <<lifecycle, ret>>
  /\ UNCHANGED <<treeMtx, arg, flags, pending, treeVars, monitor, closing>>

StartPending(c) ==
  /\ At(c, "startPending")
  /\ \/ ~hasPending /\ Return(c, "failed")
     \/ hasPending /\ Goto(c, "switchBegin") /\ UNCHANGED <<lifecycle, ret>>
  /\ UNCHANGED <<treeMtx, arg, flags, pending, treeVars, monitor, closing>>

StartSetRunning(c) ==
  /\ At(c, "setRunning")
  /\ running' = TRUE
  /\ Goto(c, "setPaused")
  /\ UNCHANGED <<locks, calls, paused, stopping, pending, treeVars, monitor,
                 closing>>

StartSetPaused(c) ==
  /\ At(c, "setPaused")
  /\ paused' = FALSE
  /\ Goto(c, "spawn")
  /\ UNCHANGED <<locks, calls, running, stopping, pending, treeVars, monitor,
                 closing>>

\* worker_ = std::thread(...) succeeds and start() returns success.
StartSpawn(c) ==
  /\ At(c, "spawn")
  /\ lifecycle' = NoThread
  /\ ret' = [ret EXCEPT ![c] = "ok"]
  /\ pc' = [pc EXCEPT ![c] = "idle", ![Worker] = "while"]
  /\ UNCHANGED <<treeMtx, arg, flags, pending, treeVars, monitor, closing>>

\* std::thread throws: running_, paused_ and the tree are rolled back.
StartSpawnFails(c) ==
  /\ At(c, "spawn")
  /\ Goto(c, "unsetRunning")
  /\ UNCHANGED <<locks, calls, flags, pending, treeVars, monitor, closing>>

StartUnsetRunning(c) ==
  /\ At(c, "unsetRunning")
  /\ running' = FALSE
  /\ Goto(c, "setPausedAgain")
  /\ UNCHANGED <<locks, calls, paused, stopping, pending, treeVars, monitor,
                 closing>>

StartSetPausedAgain(c) ==
  /\ At(c, "setPausedAgain")
  /\ paused' = TRUE
  /\ Goto(c, "rollback")
  /\ UNCHANGED <<locks, calls, running, stopping, pending, treeVars, monitor,
                 closing>>

StartRollback(c) ==
  /\ At(c, "rollback") /\ treeMtx = NoThread
  /\ HaltAndReset
  /\ Return(c, "failed")
  /\ UNCHANGED <<treeMtx, arg, flags, pending, closing>>

-----------------------------------------------------------------------------
(* stop() and its callers *)

Stop(c) ==
  /\ Call(c, "stopLock")
  /\ UNCHANGED <<locks, arg, flags, pending, treeVars, monitor, closing>>

\* The gateway reports a fault or the drive disconnects: is_running() is
\* read before stop() is called.
StopIfRunning(c) == running /\ Stop(c)

\* on_stop(): beginShutdown() and stop().  The plugin does it once.
Shutdown(c) ==
  /\ ~stopping
  /\ stopping' = TRUE
  /\ closing' = c
  /\ Call(c, "stopLock")
  /\ UNCHANGED <<locks, arg, running, paused, pending, treeVars, monitor>>

\* stop() has returned to client c.
Stopped(c) ==
  /\ Return(c, "ok")
  /\ closing' = IF closing = c THEN NoThread ELSE closing

StopLock(c) ==
  /\ At(c, "stopLock") /\ lifecycle = NoThread
  /\ lifecycle' = c
  /\ Goto(c, "stopExchange")
  /\ UNCHANGED <<treeMtx, calls, flags, pending, treeVars, monitor, closing>>

\* Mutant: running_ is tested but not cleared.
StopExchange_Load(c) ==
  /\ At(c, "stopExchange")
  /\ \/ ~running /\ Stopped(c)
     \/ running /\ Goto(c, "stopNotify") /\ UNCHANGED <<lifecycle, ret, closing>>
  /\ UNCHANGED <<treeMtx, arg, flags, pending, treeVars, monitor>>

StopExchange(c) ==
  /\ At(c, "stopExchange")
  /\ running' = FALSE
  /\ \/ ~running /\ Stopped(c)
     \/ running /\ Goto(c, "stopNotify") /\ UNCHANGED <<lifecycle, ret, closing>>
  /\ UNCHANGED <<treeMtx, arg, paused, stopping, pending, treeVars, monitor>>

\* Mutant: stop() takes tree_mtx_ before it joins the worker, not after.
StopNotify_TreeLocked(c) ==
  /\ At(c, "stopNotify") /\ treeMtx = NoThread
  /\ treeMtx' = c
  /\ NotifyAndGoto(c, "stopJoin")
  /\ UNCHANGED <<lifecycle, calls, flags, pending, treeVars, monitor, closing>>

StopNotify(c) ==
  /\ At(c, "stopNotify")
  /\ NotifyAndGoto(c, "stopJoin")
  /\ UNCHANGED <<locks, calls, flags, pending, treeVars, monitor, closing>>

\* Mutant: stop() does not join the worker.
StopJoin_Detach(c) ==
  /\ At(c, "stopJoin")
  /\ Goto(c, "stopClean")
  /\ UNCHANGED <<locks, calls, flags, pending, treeVars, monitor, closing>>

\* worker_.join(): the worker is done, and worker_ is not joinable any more.
StopJoin(c) ==
  /\ At(c, "stopJoin") /\ At(Worker, "done")
  /\ pc' = [pc EXCEPT ![c] = "stopClean", ![Worker] = "none"]
  /\ UNCHANGED <<locks, calls, flags, pending, treeVars, monitor, closing>>

StopClean(c) ==
  /\ At(c, "stopClean") /\ treeMtx = NoThread
  /\ HaltAndReset
  /\ Stopped(c)
  /\ UNCHANGED <<treeMtx, arg, flags, pending>>

-----------------------------------------------------------------------------
(* pause(), resume() and step(): public, though nothing in the plugin calls *)
(* them.                                                                    *)

Pause(c) ==
  /\ ManualStepping /\ Call(c, "idle")
  /\ paused' = TRUE
  /\ UNCHANGED <<locks, arg, running, stopping, pending, treeVars, monitor,
                 closing>>

Resume(c) ==
  /\ ManualStepping /\ Call(c, "resumeNotify")
  /\ paused' = FALSE
  /\ UNCHANGED <<locks, arg, running, stopping, pending, treeVars, monitor,
                 closing>>

ResumeNotify(c) ==
  /\ At(c, "resumeNotify")
  /\ NotifyAndGoto(c, "idle")
  /\ UNCHANGED <<locks, calls, flags, pending, treeVars, monitor, closing>>

Step(c) ==
  /\ ManualStepping /\ Call(c, "step")
  /\ paused' = TRUE
  /\ UNCHANGED <<locks, arg, running, stopping, pending, treeVars, monitor,
                 closing>>

\* A tick leaves nodes running or, when the tree completes, all idle.
TickTree ==
  \/ tree # NoTree /\ \E active \in BOOLEAN : SetActive(active)
  \/ tree = NoTree /\ UNCHANGED <<treeActive, monitor>>

StepTick(c) ==
  /\ At(c, "step") /\ treeMtx = NoThread
  /\ TickTree
  /\ Goto(c, "idle")
  /\ UNCHANGED <<locks, calls, flags, pending, tree, publisher, observer,
                 closing>>

-----------------------------------------------------------------------------
(* loop() *)

WorkerGoto(label) ==
  /\ Goto(Worker, label)
  /\ UNCHANGED <<locks, calls, flags, pending, treeVars, monitor, closing>>

\* while (running_)
LoopWhile == At(Worker, "while") /\ WorkerGoto(IF running THEN "pred" ELSE "done")

\* The predicate of cv_.wait().
LoopPred ==
  /\ At(Worker, "pred")
  /\ WorkerGoto(IF ~paused \/ ~running \/ hasPending THEN "check" ELSE "toBlock")

\* A notification is lost until the thread is on the condition variable.
LoopBlock == At(Worker, "toBlock") /\ WorkerGoto("blocked")

LoopSpurious ==
  \/ At(Worker, "blocked") /\ WorkerGoto("pred")
  \/ At(Worker, "timedBlocked") /\ WorkerGoto("timedPred")

LoopCheck == At(Worker, "check")
             /\ WorkerGoto(IF running THEN "checkPending" ELSE "done")

\* Mutant: a load while the tree runs is not looked at.
LoopCheckPending_Never == At(Worker, "checkPending") /\ WorkerGoto("tickLock")

LoopCheckPending ==
  /\ At(Worker, "checkPending")
  /\ WorkerGoto(IF hasPending THEN "switchBegin" ELSE "tickLock")

LoopTickLock ==
  /\ At(Worker, "tickLock") /\ treeMtx = NoThread
  /\ treeMtx' = Worker
  /\ Goto(Worker, "tick")
  /\ UNCHANGED <<lifecycle, calls, flags, pending, treeVars, monitor, closing>>

LoopTick ==
  /\ At(Worker, "tick")
  /\ TickTree
  /\ treeMtx' = NoThread
  /\ Goto(Worker, "timedPred")
  /\ UNCHANGED <<lifecycle, calls, flags, pending, tree, publisher, observer,
                 closing>>

\* cv_.wait_for(): its predicate, then the wait, which also ends by time.
LoopTimedPred ==
  /\ At(Worker, "timedPred")
  /\ WorkerGoto(IF paused \/ ~running \/ hasPending THEN "while"
                ELSE "toTimedBlock")

LoopTimedBlock == At(Worker, "toTimedBlock") /\ WorkerGoto("timedBlocked")

LoopTimeout == At(Worker, "timedBlocked") /\ WorkerGoto("while")

-----------------------------------------------------------------------------

\* A client decides to call the manager.
ClientCalls(c) ==
  \/ \E file \in Files : Load(c, file)
  \/ Start(c) \/ Stop(c) \/ StopIfRunning(c) \/ Shutdown(c)
  \/ Pause(c) \/ Resume(c) \/ Step(c)

\* A client goes on in a call it has made.
ClientStep(c) ==
  \/ LoadStore(c) \/ LoadNotify(c)
  \/ StartLock(c) \/ StartCheck(c) \/ StartPending(c)
  \/ SwitchTree(c)
  \/ StartSetRunning(c) \/ StartSetPaused(c)
  \/ StartSpawn(c) \/ StartSpawnFails(c)
  \/ StartUnsetRunning(c) \/ StartSetPausedAgain(c) \/ StartRollback(c)
  \/ StopLock(c) \/ StopExchange(c) \/ StopNotify(c) \/ StopJoin(c)
  \/ StopClean(c)
  \/ ResumeNotify(c) \/ StepTick(c)

WorkerStep ==
  \/ LoopWhile \/ LoopPred \/ LoopBlock \/ LoopCheck \/ LoopCheckPending
  \/ SwitchTree(Worker)
  \/ LoopTickLock \/ LoopTick
  \/ LoopTimedPred \/ LoopTimedBlock \/ LoopTimeout

Next ==
  \/ \E c \in Clients : ClientCalls(c) \/ ClientStep(c)
  \/ WorkerStep \/ LoopSpurious

Spec == Init /\ [][Next]_vars

(* A thread inside a call keeps running, and a thread that waits for a      *)
(* mutex which is released again and again gets it.  Nobody is obliged to   *)
(* call anything, and no wake-up is spurious.                               *)
Fairness ==
  /\ \A c \in Clients : SF_vars(ClientStep(c))
  /\ SF_vars(WorkerStep)

FairSpec == Spec /\ Fairness

-----------------------------------------------------------------------------
(* Properties *)

TypeOK ==
  /\ lifecycle \in Clients \cup {NoThread}
  /\ treeMtx \in Threads \cup {NoThread}
  /\ pc \in [Threads -> ClientPCs \cup WorkerPCs]
  /\ \A c \in Clients : pc[c] \in ClientPCs
  /\ pc[Worker] \in WorkerPCs
  /\ arg \in [Clients -> Trees]
  /\ \A c \in Clients : pc[c] = "load" => arg[c] \in Files
  /\ ret \in [Clients -> {"none", "ok", "failed"}]
  /\ running \in BOOLEAN /\ paused \in BOOLEAN /\ stopping \in BOOLEAN
  /\ hasPending \in BOOLEAN
  /\ pendingXml \in Trees
  /\ hasPending => pendingXml \in Files
  /\ tree \in Trees /\ publisher \in Trees /\ observer \in Trees
  /\ treeActive \in BOOLEAN
  /\ monitor \in [tree : Trees, active : BOOLEAN] \cup {Unknown}
  /\ closing \in Clients \cup {NoThread}

\* Between lifecycle calls a manager that does not run holds no tree, no
\* publisher and no observer: stop(), a failed start() and its rollback all
\* clean up, so the next start() never meets a half-built tree.
StoppedIsClean ==
  lifecycle = NoThread /\ ~running =>
    tree = NoTree /\ publisher = NoTree /\ observer = NoTree

\* No load is lost or overtaken: when nothing is pending, the tree in place
\* is the one loaded last.
LatestLoadWins ==
  treeMtx = NoThread /\ ~hasPending /\ tree # NoTree =>
    tree = pendingXml

\* start() assigns worker_ only when no thread is attached to it; assigning
\* over a joinable std::thread would terminate the process.
OneWorker ==
  \A c \in Clients : pc[c] = "spawn" => pc[Worker] = "none"

\* After the stop() of the plugin's shutdown has returned, no start() that
\* was under way brings the tree back: the manager can be destroyed.
ShutdownIsFinal ==
  stopping /\ closing = NoThread =>
    ~running /\ pc[Worker] = "none" /\ tree = NoTree

\* Whenever nobody is working on the tree, its publisher and observer are its
\* own, a tree that is gone has no active nodes, and the monitor shows the tree in
\* place, and shows active nodes only while there are some: halts, failed switches
\* and rollbacks are reported too.  The one exception is a callback that threw,
\* of a tree reset or of a status: the manager goes on without the monitor, about
\* which nothing is claimed until the next tree it is given.
MonitorInStep ==
  treeMtx = NoThread =>
    /\ publisher = tree /\ observer = tree
    /\ tree = NoTree => ~treeActive
    /\ monitor # Unknown =>
         /\ tree # NoTree => monitor.tree = tree
         /\ monitor.active = treeActive

\* Where a thread waits for tree_mtx_.
TreeLockPCs == {"load", "switchBegin", "rollback", "stopClean", "step", "tickLock"}

\* The threads that t waits for: the owner of the mutex it wants, and the worker
\* that it joins.
WaitsFor(t) == {u \in Threads :
  \/ pc[t] \in {"startLock", "stopLock"} /\ lifecycle = u
  \/ pc[t] = "stopJoin" /\ u = Worker /\ pc[u] # "done"
  \/ pc[t] \in TreeLockPCs /\ treeMtx = u}

\* The two mutexes and the join never close a circle: among any threads there is
\* one that waits for none of the others.  stop() joins with lifecycle_mtx_ held,
\* and both it and the worker take tree_mtx_, so the order in which they do so
\* matters, whatever the other clients hold.
NoCircularWait ==
  \A S \in (SUBSET Threads) \ {{}} : \E t \in S : WaitsFor(t) \cap S = {}

\* start() returns success only with running_ set and the worker thread in
\* existence, also when it finds the tree running already.
StartOkRuns ==
  [][\A c \in Clients : ret[c] # "ok" /\ ret'[c] = "ok" /\ pc[c] \in StartPCs
       => running' /\ pc'[Worker] # "none"]_vars

\* The worker is in the wait without a time limit, where it goes only when
\* paused_ is set, and which a notification sent too early does not end.
Parked == pc[Worker] \in {"toBlock", "blocked"}

\* stop() returns: it is not blocked by the worker it waits for, unless the tree
\* was paused.  (Then a lost notification may leave the worker parked.)
StopReturns ==
  [](\A c \in Clients : pc[c] = "stopLock" => <>(pc[c] = "idle" \/ Parked))

\* A load while the tree runs is picked up without a further call, again
\* unless the tree was paused.
LoadServed == (running /\ hasPending) ~> (~running \/ ~hasPending \/ Parked)

\* What the comments on OperationResult and handleStart say: success means
\* that a tree and its Groot2Publisher have been created.  States in which
\* the worker is just switching trees are left out.
StartOkMeansTree ==
  [][\A c \in Clients : ret[c] # "ok" /\ ret'[c] = "ok" /\ pc[c] \in StartPCs
       => (treeMtx = NoThread => tree # NoTree /\ publisher = tree)]_vars

-----------------------------------------------------------------------------
(* Refinement *)

\* The lifecycle of the run: it changes when start() begins to build, creates
\* the thread or fails, and when stop() clears running_ or has cleaned up.
BuildPCs == StartPCs \ {"startCheck"}
EndPCs == StopPCs \ {"stopExchange"}

Life ==
  IF lifecycle \in Clients /\ pc[lifecycle] \in BuildPCs THEN "building"
  ELSE IF lifecycle \in Clients /\ pc[lifecycle] \in EndPCs THEN "ending"
  ELSE IF running THEN "running" ELSE "stopped"

\* Whoever holds lifecycle_mtx_ to change it.
Owner == IF Life \in {"building", "ending"} THEN lifecycle ELSE NoThread

\* The operation a client at label is in.
OpAt == [label \in ClientPCs |->
  CASE label = "load" -> "load"
    [] label = "loadNotify" -> "loaded"
    [] label \in {"startLock"} \cup StartPCs -> "start"
    [] label \in {"stopLock"} \cup StopPCs -> "stop"
    [] label \in {"resumeNotify", "step"} -> "manual"
    [] label = "idle" -> "none"]

\* The tree served is the publisher's; what the monitor was told is inside.
Contract == INSTANCE ManagerLife WITH
  Nobody <- NoThread,
  op <- [c \in Clients |-> OpAt[pc[c]]],
  life <- Life, owner <- Owner,
  wanted <- IF hasPending THEN pendingXml ELSE NoTree,
  served <- publisher, active <- treeActive,
  closed <- stopping

\* Seen from outside, load, start, stop and the switches of the tree take effect
\* at one instant each, in spite of the two mutexes, the atomics read without
\* one, and the worker: BTManager keeps the contract ManagerLife.
KeepsContract == Contract!Spec
=============================================================================
