-------------------------- MODULE BehaviorTreePlug --------------------------
(***************************************************************************)
(* The life of the plugin: on_start() and its rollbacks, on_stop(),        *)
(* startMonitor() and stopMonitor(), the BTManager singleton and who holds *)
(* a pointer to it, and the callbacks that tie BTManager to the monitor.   *)
(*                                                                         *)
(* Three kinds of threads meet here.  The Host thread runs on_start() and  *)
(* on_stop().  Handler threads run the HTTP routes and the pub/sub         *)
(* handlers, each of which fetches G_BT_MANAGER() for itself.  The tick    *)
(* thread of a manager delivers its events, as does a start() that         *)
(* switches the tree.  BTManager and BehaviorTreeMonitor have modules of   *)
(* their own; here a manager is its flags, its lifecycle mutex and the     *)
(* number of its tree, and the monitor is whether it runs and the tree it  *)
(* was told of.                                                            *)
(*                                                                         *)
(* Assumed of the Host, which is not in the repository: it dispatches to   *)
(* what has been registered, and before it calls on_stop(), or gives up a  *)
(* plugin whose on_start() failed, it stops dispatching and waits for the  *)
(* handlers under way; it joins the managed worker before the next         *)
(* on_start().  The plugin itself never unsubscribes.                      *)
(***************************************************************************)
EXTENDS Naturals, FiniteSets

CONSTANTS
  Handlers,        \* handler threads
  MaxManagers,     \* bound: the managers constructed
  MaxCalls         \* bound: the calls the handlers make

ASSUME BoundsAssumption == MaxManagers \in Nat /\ MaxCalls \in Nat

Host == "host"
Tick == "tick"
Free == "free"

ASSUME ThreadsAssumption == {Host, Tick, Free} \cap Handlers = {}

VARIABLES
  \* the plugin
  host,            \* where the Host thread is
  failed,          \* the last on_start() is rolling back or has failed
  started,         \* started_
  subscribed,      \* the pub/sub handlers are dispatched
  open,            \* the HTTP endpoint behavior_tree is dispatched
  instance,        \* SingletonDclp::instance_: a manager, 0 for null
  alive,           \* managers constructed and not deleted
  made,            \* how many managers have been constructed
  \* the manager that lives
  stopping, running, pending,  \* its flags
  lifecycle,       \* owner of lifecycle_mtx_
  tree,            \* its tree, 0 for none
  trees,           \* how many trees have been created
  callbacks,       \* the monitor callbacks are set
  delivering,      \* who is in a callback, with monitor_callbacks_mtx_ held
  tick,            \* where the tick thread is
  \* the monitor
  monitor,         \* monitor_: none, stopped or running (its running_)
  worker,          \* a managed worker exists
  stopRequested,   \* the Host has asked the latest worker to stop
  monitorTree,     \* the tree it was told of in this run, 0 for none
  \* the handlers
  at, op, ptr,     \* where each is, what it does, the pointer it fetched
  calls,           \* how many calls have been made
  \* history
  excused          \* the tree in place is older than the plugin's start, or
                   \* the callback that was to announce it has failed

plugin == <<failed, started, subscribed, open>>
singleton == <<instance, alive, made>>
flags == <<stopping, running, pending>>
tie == <<callbacks, delivering>>
view == <<monitor, worker, stopRequested, monitorTree>>
handling == <<at, op, ptr, calls>>
counts == <<tree, trees, excused>>
vars == <<host, plugin, singleton, flags, lifecycle, tie, tick, view, handling,
          counts>>

Managers == 1..MaxManagers
Operations == {"load", "start", "stop", "disconnect", "gateway"}
Topics == {"disconnect", "gateway"}
Threads == Handlers \cup {Host, Tick}

Init ==
  /\ host = "off" /\ failed = FALSE /\ started = FALSE
  /\ subscribed = FALSE /\ open = FALSE
  /\ instance = 0 /\ alive = {} /\ made = 0
  /\ stopping = FALSE /\ running = FALSE /\ pending = FALSE /\ lifecycle = Free
  /\ tree = 0 /\ trees = 0 /\ callbacks = FALSE /\ delivering = Free /\ tick = "none"
  /\ monitor = "none" /\ worker = FALSE /\ stopRequested = FALSE /\ monitorTree = 0
  /\ at = [h \in Handlers |-> "idle"] /\ op = [h \in Handlers |-> "load"]
  /\ ptr = [h \in Handlers |-> 0] /\ calls = 0
  /\ excused = FALSE

HostGoto(where) == host' = where
Goto(h, where) == at' = [at EXCEPT ![h] = where] /\ UNCHANGED <<op, ptr, calls>>

\* A handler returns; what it was about is forgotten.
Return(h) ==
  /\ at' = [at EXCEPT ![h] = "idle"] /\ op' = [op EXCEPT ![h] = "load"]
  /\ ptr' = [ptr EXCEPT ![h] = 0]
  /\ UNCHANGED calls

\* A tree is created and still to be told of; the old one is gone either way.
\* Its file may be bad: then there is none.
NewTree ==
  /\ pending' = FALSE
  /\ \/ trees' = trees + 1 /\ tree' = trees' /\ excused' = (host # "on")
     \/ tree' = 0 /\ UNCHANGED trees /\ excused' = FALSE

\* The monitor's callback, which runs with the lock of the callbacks held: a
\* monitor that does not run drops the event.  If the tree cannot be written as
\* XML or the event not be queued, that is only logged.
TellTree ==
  \/ /\ monitorTree' = IF monitor = "running" THEN tree ELSE monitorTree
     /\ UNCHANGED excused
  \/ excused' = TRUE /\ UNCHANGED monitorTree

\* reset(): no tree.
DropTree == tree' = 0 /\ excused' = FALSE /\ UNCHANGED trees

-----------------------------------------------------------------------------
(* on_start() *)

\* Up to Construct().
OnStart ==
  /\ host = "off" /\ ~started /\ ~worker
  /\ started' = TRUE /\ failed' = FALSE
  /\ IF instance # 0
       THEN UNCHANGED <<singleton, flags, lifecycle, callbacks>>
       ELSE /\ made < MaxManagers
            /\ made' = made + 1 /\ instance' = made' /\ alive' = alive \cup {made'}
            /\ stopping' = FALSE /\ running' = FALSE /\ pending' = FALSE
            /\ lifecycle' = Free /\ callbacks' = FALSE
  /\ HostGoto("init")
  /\ UNCHANGED <<subscribed, open, delivering, tick, view, handling, counts>>

\* Mutant: on_start() goes on after it has destroyed the manager.
InitManager_GoesOn ==
  /\ host = "init"
  /\ HostGoto("subscribe")
  /\ alive' \in {alive, {}}
  /\ UNCHANGED <<plugin, instance, made, flags, lifecycle, tie, tick, view, handling, counts>>

\* init() writes bt_nodes.xml; if it cannot, the manager goes at once.
InitManager ==
  /\ host = "init"
  /\ \/ HostGoto("subscribe") /\ UNCHANGED failed
     \/ HostGoto("delete") /\ failed' = TRUE
  /\ UNCHANGED <<started, subscribed, open, singleton, flags, lifecycle, tie, tick, view,
                 handling, counts>>

Subscribe ==
  /\ host = "subscribe"
  /\ subscribed' = TRUE
  /\ HostGoto("http")
  /\ UNCHANGED <<failed, started, open, singleton, flags, lifecycle, tie, tick, view,
                 handling, counts>>

\* register_http_endpoint() for behavior_tree.
OpenEndpoint ==
  /\ host = "http"
  /\ \/ open' = TRUE /\ HostGoto("monitor") /\ UNCHANGED failed
     \/ HostGoto("shutdown") /\ failed' = TRUE /\ UNCHANGED open
  /\ UNCHANGED <<started, subscribed, singleton, flags, lifecycle, tie, tick, view,
                 handling, counts>>

\* startMonitor(): the first time it makes the monitor, if the monitor's HTTP
\* endpoint can be registered; afterwards the monitor is there.  A WebSocket
\* endpoint that cannot be registered is only logged.
MakeMonitor ==
  /\ host = "monitor"
  /\ \/ /\ monitor' = IF monitor = "none" THEN "stopped" ELSE monitor
        /\ HostGoto("monstart") /\ UNCHANGED failed
     \/ /\ monitor = "none"
        /\ HostGoto("shutdown") /\ failed' = TRUE /\ UNCHANGED monitor
  /\ UNCHANGED <<started, subscribed, open, singleton, flags, lifecycle, tie, tick, worker,
                 stopRequested, monitorTree, handling, counts>>

\* monitor_->start().
RunMonitor ==
  /\ host = "monstart"
  /\ monitor' = "running"
  /\ HostGoto("worker")
  /\ UNCHANGED <<plugin, singleton, flags, lifecycle, tie, tick, worker, stopRequested,
                 monitorTree, handling, counts>>

\* start_managed_worker(): the worker has a stop token of its own.
RunWorker ==
  /\ host = "worker"
  /\ worker' = TRUE /\ stopRequested' = FALSE
  /\ HostGoto("callbacks")
  /\ UNCHANGED <<plugin, singleton, flags, lifecycle, tie, tick, monitor, monitorTree, handling,
                 counts>>

\* The worker cannot be started, or startMonitor() throws, perhaps after it has
\* started the worker: the monitor is stopped again.
MonitorFails ==
  /\ host \in {"monstart", "worker", "callbacks"}
  /\ monitor' = "stopped" /\ monitorTree' = 0
  /\ HostGoto("shutdown") /\ failed' = TRUE
  /\ UNCHANGED <<started, subscribed, open, singleton, flags, lifecycle, tie, tick, worker,
                 stopRequested, handling, counts>>

\* Mutant: the restarted monitor is not tied to the new manager.
SetMonitorCallbacks_FirstOnly ==
  /\ host = "callbacks" /\ delivering = Free
  /\ callbacks' = (made = 1)
  /\ HostGoto("on")
  /\ UNCHANGED <<plugin, singleton, flags, lifecycle, delivering, tick, view, handling, counts>>

\* setMonitorCallbacks(), under the lock of the callbacks.
SetMonitorCallbacks ==
  /\ host = "callbacks" /\ delivering = Free
  /\ callbacks' = TRUE
  /\ HostGoto("on")
  /\ UNCHANGED <<plugin, singleton, flags, lifecycle, delivering, tick, view, handling, counts>>

-----------------------------------------------------------------------------
(* on_stop() and the rollback of on_start() *)

\* The Host stops dispatching.
Withdraw ==
  /\ host \in {"on", "failed"}
  /\ subscribed' = FALSE /\ open' = FALSE
  /\ HostGoto(IF host = "on" THEN "drain" ELSE "faildrain")
  /\ UNCHANGED <<failed, started, singleton, flags, lifecycle, tie, tick, view, handling, counts>>

Drained == \A h \in Handlers : at[h] = "idle"

\* After a failure the Host may call on_stop() or not.
OnStop ==
  /\ \/ host = "drain" /\ HostGoto("clear")
     \/ host = "faildrain" /\ host' \in {"clear", "off"}
  /\ Drained
  /\ UNCHANGED <<plugin, singleton, flags, lifecycle, tie, tick, view, handling, counts>>

\* Mutant: the callbacks are cleared without their lock.
ClearMonitorCallbacks_NoLock ==
  /\ host = "clear"
  /\ callbacks' = IF monitor # "none" /\ started THEN FALSE ELSE callbacks
  /\ HostGoto("monstop")
  /\ UNCHANGED <<plugin, singleton, flags, lifecycle, delivering, tick, view, handling, counts>>

\* stopMonitor(): clearMonitorCallbacks() waits for a callback under way.
ClearMonitorCallbacks ==
  /\ host = "clear"
  /\ IF monitor # "none" /\ started
       THEN delivering = Free /\ callbacks' = FALSE
       ELSE UNCHANGED callbacks
  /\ HostGoto("monstop")
  /\ UNCHANGED <<plugin, singleton, flags, lifecycle, delivering, tick, view, handling, counts>>

\* stopMonitor(): monitor_->stop(), then the test of started_ in on_stop().
StopMonitor ==
  /\ host = "monstop"
  /\ monitor' = IF monitor = "none" THEN "none" ELSE "stopped"
  /\ monitorTree' = 0
  /\ started' = FALSE
  /\ HostGoto(IF started THEN "shutdown" ELSE "off")
  /\ UNCHANGED <<failed, subscribed, open, singleton, flags, lifecycle, tie, tick, worker,
                 stopRequested, handling, counts>>

\* Mutant: a rollback goes without beginShutdown().
BeginShutdown_NotFailed ==
  /\ host = "shutdown"
  /\ stopping' = ~failed
  /\ HostGoto("stop")
  /\ UNCHANGED <<plugin, singleton, running, pending, lifecycle, tie, tick, view, handling,
                 counts>>

\* beginShutdown().
BeginShutdown ==
  /\ host = "shutdown"
  /\ stopping' = TRUE
  /\ HostGoto("stop")
  /\ UNCHANGED <<plugin, singleton, running, pending, lifecycle, tie, tick, view, handling,
                 counts>>

\* Mutant: stop() does not take the lifecycle lock.
HostStop_NoLock ==
  /\ host = "stop"
  /\ running' = FALSE
  /\ HostGoto("join")
  /\ UNCHANGED <<plugin, singleton, stopping, pending, lifecycle, tie, tick, view, handling,
                 counts>>

\* Mutant: stop() joins a thread it has not told to end.
HostStop_NoExchange ==
  /\ host = "stop" /\ lifecycle = Free
  /\ lifecycle' = Host
  /\ HostGoto("join")
  /\ UNCHANGED <<plugin, singleton, flags, tie, tick, view, handling, counts>>

\* BTManager::stop() in the Host thread: lock and exchange, then join.
HostStop ==
  /\ host = "stop" /\ lifecycle = Free
  /\ lifecycle' = Host /\ running' = FALSE
  /\ HostGoto("join")
  /\ UNCHANGED <<plugin, singleton, stopping, pending, tie, tick, view, handling,
                 counts>>

HostJoin ==
  /\ host = "join" /\ tick = "none"
  /\ DropTree /\ lifecycle' = Free
  /\ HostGoto("delete")
  /\ UNCHANGED <<plugin, singleton, flags, tie, tick, view, handling>>

\* Destruct(): delete, and only then the null pointer.
DeleteManager ==
  /\ host = "delete"
  /\ alive' = alive \ {instance}
  /\ HostGoto("null")
  /\ UNCHANGED <<plugin, instance, made, flags, lifecycle, tie, tick, view, handling, counts>>

\* Mutant: a failed on_start() keeps its manager.
NullManager_Kept ==
  /\ host = "null"
  /\ instance' = IF failed THEN instance ELSE 0
  /\ started' = FALSE
  /\ HostGoto(IF failed THEN "failed" ELSE "off")
  /\ UNCHANGED <<failed, subscribed, open, alive, made, flags, lifecycle, tie, tick, view,
                 handling, counts>>

NullManager ==
  /\ host = "null"
  /\ instance' = 0
  /\ started' = FALSE
  /\ HostGoto(IF failed THEN "failed" ELSE "off")
  /\ UNCHANGED <<failed, subscribed, open, alive, made, flags, lifecycle, tie, tick, view,
                 handling, counts>>

\* The Host asks the managed worker to stop, at any time.  (Once the monitor has
\* been stopped the request makes no difference.)
RequestStop ==
  /\ worker /\ ~stopRequested /\ monitor = "running"
  /\ stopRequested' = TRUE
  /\ UNCHANGED <<host, plugin, singleton, flags, lifecycle, tie, tick, monitor, worker,
                 monitorTree, handling, counts>>

\* run_event_loop() ends when the monitor has been stopped or the Host has asked
\* for it, and then clears running_ itself; what the monitor knows stays.
WorkerEnds ==
  /\ worker /\ (monitor # "running" \/ stopRequested)
  /\ worker' = FALSE /\ monitor' = "stopped"
  /\ UNCHANGED <<host, plugin, singleton, flags, lifecycle, tie, tick, stopRequested,
                 monitorTree, handling, counts>>

-----------------------------------------------------------------------------
(* The handlers *)

\* Where an operation begins once it has its pointer.
FirstStep == [load |-> "load", start |-> "lock", stop |-> "lock",
              disconnect |-> "check", gateway |-> "check"]

\* A message or a request is dispatched, and its handler fetches G_BT_MANAGER():
\* before that it touches nothing that is shared.
Enter(h, o) ==
  /\ at[h] = "idle" /\ calls < MaxCalls
  /\ IF o \in Topics THEN subscribed ELSE open
  /\ calls' = calls + 1
  /\ op' = [op EXCEPT ![h] = o]
  /\ ptr' = [ptr EXCEPT ![h] = instance]
  /\ at' = [at EXCEPT ![h] = FirstStep[o]]
  /\ UNCHANGED <<host, plugin, singleton, flags, lifecycle, tie, tick, view, counts>>

\* handleConnCodeit() fetches the pointer again before it calls stop().
Refetch(h) ==
  /\ at[h] = "refetch"
  /\ ptr' = [ptr EXCEPT ![h] = instance]
  /\ at' = [at EXCEPT ![h] = "lock"]
  /\ UNCHANGED <<op, calls>>
  /\ UNCHANGED <<host, plugin, singleton, flags, lifecycle, tie, tick, view, counts>>

Using(h) == at[h] \notin {"idle", "refetch", "crashed"}

\* Undefined behaviour: the object behind the pointer is gone.  The handler
\* stays there; nothing is claimed of what happens afterwards.
Crash(h) ==
  /\ Using(h) /\ ptr[h] \notin alive
  /\ Goto(h, "crashed")
  /\ UNCHANGED <<host, plugin, singleton, flags, lifecycle, tie, tick, view, counts>>

Inside(h, where) == at[h] = where /\ ptr[h] \in alive

LoadTree(h) ==
  /\ Inside(h, "load")
  /\ pending' = TRUE
  /\ Return(h)
  /\ UNCHANGED <<host, plugin, singleton, stopping, running, lifecycle, tie, tick, view, counts>>

\* Mutant: a disconnect and a fault look for a tree and not for a run.
CheckRunning_Tree(h) ==
  /\ Inside(h, "check")
  /\ IF tree = 0 THEN Return(h)
                 ELSE Goto(h, IF op[h] = "gateway" THEN "lock" ELSE "refetch")
  /\ UNCHANGED <<host, plugin, singleton, flags, lifecycle, tie, tick, view, counts>>

\* The test of is_running() on a disconnect or a fault, outside any lock.
CheckRunning(h) ==
  /\ Inside(h, "check")
  /\ IF ~running THEN Return(h)
                ELSE Goto(h, IF op[h] = "gateway" THEN "lock" ELSE "refetch")
  /\ UNCHANGED <<host, plugin, singleton, flags, lifecycle, tie, tick, view, counts>>

\* start(), up to switchTree().
StartCheck(h) ==
  /\ Inside(h, "lock") /\ op[h] = "start" /\ lifecycle = Free
  /\ IF stopping \/ running \/ ~pending
       THEN Return(h) /\ UNCHANGED lifecycle
       ELSE Goto(h, "switch") /\ lifecycle' = h
  /\ UNCHANGED <<host, plugin, singleton, flags, tie, tick, view, counts>>

\* switchTree() up to onTreeReset(); start() fails with the file.
StartSwitch(h) ==
  /\ Inside(h, "switch")
  /\ NewTree
  /\ IF tree' = 0 THEN Return(h) /\ lifecycle' = Free
                  ELSE Goto(h, "tell") /\ UNCHANGED lifecycle
  /\ UNCHANGED <<host, plugin, singleton, stopping, running, tie, tick, view>>

StartTell(h) ==
  /\ Inside(h, "tell") /\ delivering = Free
  /\ IF callbacks THEN delivering' = h /\ Goto(h, "telling")
                  ELSE UNCHANGED delivering /\ Goto(h, "run")
  /\ UNCHANGED <<host, plugin, singleton, flags, lifecycle, callbacks, tick, view, counts>>

StartTold(h) ==
  /\ Inside(h, "telling")
  /\ TellTree /\ delivering' = Free
  /\ Goto(h, "run")
  /\ UNCHANGED <<host, plugin, singleton, flags, lifecycle, callbacks, tick, monitor, worker,
                 stopRequested, tree, trees>>

\* start() sets running_ before there is a thread.
StartRun(h) ==
  /\ Inside(h, "run")
  /\ running' = TRUE
  /\ Goto(h, "spawn")
  /\ UNCHANGED <<host, plugin, singleton, stopping, pending, lifecycle, tie, tick, view, counts>>

StartSpawn(h) ==
  /\ Inside(h, "spawn")
  /\ tick' = "ready" /\ lifecycle' = Free
  /\ Return(h)
  /\ UNCHANGED <<host, plugin, singleton, flags, tie, view, counts>>

\* No thread can be created: the tree goes again.
StartSpawnFails(h) ==
  /\ Inside(h, "spawn")
  /\ running' = FALSE /\ lifecycle' = Free
  /\ DropTree
  /\ Return(h)
  /\ UNCHANGED <<host, plugin, singleton, stopping, pending, tie, tick, view>>

\* Mutant: stop() keeps the lock of the callbacks while it joins the thread.
StopExchange_CallbacksLocked(h) ==
  /\ Inside(h, "lock") /\ op[h] # "start" /\ lifecycle = Free /\ delivering = Free
  /\ IF running
       THEN running' = FALSE /\ lifecycle' = h /\ delivering' = h /\ Goto(h, "join")
       ELSE Return(h) /\ UNCHANGED <<running, lifecycle, delivering>>
  /\ UNCHANGED <<host, plugin, singleton, stopping, pending, callbacks, tick, view, counts>>

\* stop(), called by the route or on a fault.
StopExchange(h) ==
  /\ Inside(h, "lock") /\ op[h] # "start" /\ lifecycle = Free
  /\ IF running
       THEN running' = FALSE /\ lifecycle' = h /\ Goto(h, "join")
       ELSE Return(h) /\ UNCHANGED <<running, lifecycle>>
  /\ UNCHANGED <<host, plugin, singleton, stopping, pending, tie, tick, view, counts>>

StopJoin(h) ==
  /\ Inside(h, "join") /\ tick = "none"
  /\ DropTree /\ lifecycle' = Free
  /\ Return(h)
  /\ UNCHANGED <<host, plugin, singleton, flags, tie, tick, view>>

HandlerStep(h) ==
  \/ Refetch(h) \/ LoadTree(h) \/ CheckRunning(h)
  \/ StartCheck(h) \/ StartSwitch(h) \/ StartTell(h) \/ StartTold(h) \/ StartRun(h)
  \/ StartSpawn(h) \/ StartSpawnFails(h)
  \/ StopExchange(h) \/ StopJoin(h)

-----------------------------------------------------------------------------
(* The tick thread *)

TickLeave ==
  /\ tick = "ready" /\ ~running
  /\ tick' = "none"
  /\ UNCHANGED <<host, plugin, singleton, flags, lifecycle, tie, view, handling, counts>>

\* A tick changes the status of a node: the observer takes the lock.
TickStatus ==
  /\ tick = "ready" /\ running /\ ~pending /\ tree # 0
  /\ callbacks /\ delivering = Free
  /\ delivering' = Tick /\ tick' = "status"
  /\ UNCHANGED <<host, plugin, singleton, flags, lifecycle, callbacks, view, handling, counts>>

TickStatusDone ==
  /\ tick = "status"
  /\ delivering' = Free /\ tick' = "ready"
  /\ UNCHANGED <<host, plugin, singleton, flags, lifecycle, callbacks, view, handling, counts>>

\* A load while the tree runs.
TickSwitch ==
  /\ tick = "ready" /\ running /\ pending
  /\ NewTree
  /\ tick' = IF tree' = 0 THEN "ready" ELSE "tell"
  /\ UNCHANGED <<host, plugin, singleton, stopping, running, lifecycle, tie, view, handling>>

TickTell ==
  /\ tick = "tell" /\ delivering = Free
  /\ IF callbacks THEN delivering' = Tick /\ tick' = "telling"
                  ELSE UNCHANGED delivering /\ tick' = "ready"
  /\ UNCHANGED <<host, plugin, singleton, flags, lifecycle, callbacks, view, handling, counts>>

TickTold ==
  /\ tick = "telling"
  /\ TellTree /\ delivering' = Free /\ tick' = "ready"
  /\ UNCHANGED <<host, plugin, singleton, flags, lifecycle, callbacks, monitor, worker,
                 stopRequested, handling, tree, trees>>

TickStep ==
  TickLeave \/ TickStatus \/ TickStatusDone \/ TickSwitch \/ TickTell \/ TickTold

HostRuns ==
  \/ InitManager \/ Subscribe \/ OpenEndpoint \/ MakeMonitor \/ RunMonitor \/ RunWorker
  \/ MonitorFails \/ SetMonitorCallbacks
  \/ OnStop \/ ClearMonitorCallbacks \/ StopMonitor
  \/ BeginShutdown \/ HostStop \/ HostJoin \/ DeleteManager \/ NullManager

Next ==
  \/ OnStart \/ Withdraw \/ HostRuns \/ RequestStop \/ WorkerEnds \/ TickStep
  \/ \E h \in Handlers : HandlerStep(h) \/ Crash(h) \/ \E o \in Operations : Enter(h, o)

Spec == Init /\ [][Next]_vars

\* A call of the Host goes on, and gets a mutex that is released again and
\* again; so does a handler; the tick thread runs.  Nothing makes the Host
\* start or stop the plugin, or dispatch anything.
FairSpec ==
  /\ Spec
  /\ SF_vars(HostRuns)
  /\ WF_vars(TickStep)
  /\ \A h \in Handlers : SF_vars(HandlerStep(h))

Crashed == \E h \in Handlers : at[h] = "crashed"

-----------------------------------------------------------------------------
(* Properties *)

\* The variables keep their types, and every lock is held by a thread that is
\* where the code holds it.
TypeOK ==
  /\ host \in {"off", "init", "subscribe", "http", "monitor", "monstart", "worker",
               "callbacks", "on", "drain", "faildrain", "failed", "clear", "monstop",
               "shutdown", "stop", "join", "delete", "null"}
  /\ {failed, started, subscribed, open, stopping, running, pending, callbacks, worker,
      stopRequested, excused} \subseteq BOOLEAN
  /\ instance \in 0..made /\ made \in 0..MaxManagers /\ alive \subseteq 1..made
  /\ lifecycle \in Handlers \cup {Host, Free}
  /\ delivering \in Handlers \cup {Tick, Free}
  /\ tick \in {"none", "ready", "status", "tell", "telling"}
  /\ trees \in Nat /\ tree \in 0..trees /\ monitorTree \in 0..trees
  /\ monitor \in {"none", "stopped", "running"}
  /\ at \in [Handlers -> {"idle", "refetch", "load", "check", "lock", "switch",
                          "tell", "telling", "run", "spawn", "join", "crashed"}]
  /\ op \in [Handlers -> Operations] /\ ptr \in [Handlers -> 0..made]
  /\ calls \in 0..MaxCalls
  /\ delivering = Tick <=> tick \in {"status", "telling"}
  /\ lifecycle = Host <=> host = "join"

\* A plugin that has reported its start is all there, after any number of
\* failed starts and restarts: the singleton holds the one manager that
\* lives, which can be started and is tied to the monitor; and the monitor runs
\* and has a worker, unless the Host has asked that very worker to stop (on_start()
\* rolls back so that it is never up in part, and no worker of an earlier start
\* takes the monitor down).
StartedMeansReady ==
  host \in {"on", "drain"} =>
    /\ alive = {instance} /\ ~stopping /\ callbacks
    /\ (monitor = "running" /\ worker) \/ stopRequested

\* A manager is deleted only when its tick thread has ended, nothing can start
\* it again and nobody holds its mutexes, in on_stop() and in the rollbacks,
\* where handlers are still at work; and no second manager is left behind.
DeletedAtRest ==
  /\ host = "delete" => /\ tick = "none" /\ ~running
                        /\ lifecycle = Free /\ delivering = Free
                        /\ \A h \in Handlers : at[h] \notin {"switch", "tell", "run", "spawn"}
  /\ host \in {"null", "failed", "faildrain", "off"} => alive = {}

\* Once clearMonitorCallbacks() has returned nobody is inside a callback or
\* enters one, so the monitor is not reached by an event while it is stopped or
\* afterwards (the barrier the comments of stopMonitor() speak of).
CallbackBarrier ==
  host \in {"monstop", "shutdown", "stop", "join", "delete", "null", "off"}
    => ~callbacks /\ delivering = Free

\* No handler uses a manager that is null or deleted, except after a failed
\* on_start(), which deletes it while the endpoint and the subscriptions made
\* before are still dispatched.
OnlyFailedStartsDangle == Crashed => failed

\* With the plugin up and its monitor running, the monitor knows the tree in
\* place, whoever switched it and whatever was loaded in between.  Excused are a
\* tree whose creation came before the callbacks were registered (the HTTP
\* endpoint opens before startMonitor() is done) and one whose callback failed,
\* which onTreeReset() only logs; and a monitor whose worker the Host has stopped
\* runs no more.
MonitorKnowsTree ==
  (host = "on" /\ monitor = "running" /\ tree # 0 /\ delivering = Free /\ tick # "tell"
     /\ \A h \in Handlers : at[h] # "tell")
    => monitorTree = tree \/ excused

\* The threads that t waits for: the handlers the Host drains, the owner of the
\* lifecycle mutex, the tick thread that a stop() joins, and the thread that is
\* in a callback.  (A tick that reports a status is one of a ready thread.)
HostWaits(u) ==
  \/ host \in {"drain", "faildrain"} /\ u \in Handlers /\ at[u] # "idle"
  \/ host = "stop" /\ lifecycle = u
  \/ host = "join" /\ tick # "none" /\ u = Tick
  \/ host \in {"callbacks", "clear"} /\ delivering = u
TickWaits(u) == tick \in {"ready", "tell"} /\ delivering = u
HandlerWaits(h, u) ==
  \/ at[h] = "lock" /\ lifecycle = u
  \/ at[h] = "join" /\ tick # "none" /\ u = Tick
  \/ at[h] = "tell" /\ delivering = u
WaitsFor(t) == {u \in Threads :
  \/ t = Host /\ HostWaits(u)
  \/ t = Tick /\ TickWaits(u)
  \/ t \in Handlers /\ HandlerWaits(t, u)}

\* The Host, the handlers and the tick thread never wait in a circle, with the
\* plugin's two locks, two joins and the drain between them: start() calls the
\* monitor with the lifecycle mutex held, stop() joins with it held, the tick
\* thread calls the monitor too, and stopMonitor() waits for whoever does.
NoCircularWait ==
  \A S \in (SUBSET Threads) \ {{}} : \E t \in S : WaitsFor(t) \cap S = {}

\* A disconnect or a gateway fault ends the run: when its handler returns no run
\* is under way, whatever calls were made in between.  (A run whose start() has
\* not set running_ when the handler looks may begin afterwards: is_running() is
\* read without the lifecycle lock.)
FaultEndsRun ==
  [][\A h \in Handlers :
       (at[h] # "idle" /\ op[h] \in Topics /\ at'[h] = "idle") => ~running']_vars

\* on_stop() and the rollbacks come to an end: the Host thread is not held up
\* for ever by a join, a callback or a handler.
HostReturns ==
  host \in {"drain", "clear", "shutdown"} ~> (host \in {"off", "failed"} \/ Crashed)
=============================================================================
