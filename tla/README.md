# Verification of BehaviorTreePlugin

TLA+ models, TLC runs and TLAPS proofs for the behaviour tree plugin: a shared
library that a gateway host (xplugin) loads, which runs a BehaviorTree.CPP tree
that commands a robot, and shows it to browsers while it runs.

Contents: 1 the system · 2 the modules · 3 the runs · 4 the disagreements
found · 5 the proofs · 6 what is not modelled · 7 the plan.

## 1. The system

### Components

| Component | State | Operations | Talks to |
|---|---|---|---|
| **BTManager** (`source/bt_manager.cpp`) | `tree_`, `publisher_`, `observer_`, `worker_`; `pending_xml_`, `has_pending_`; `running_`, `paused_`, `stopping_`; cached robot state; three mutexes and a condition variable | `loadTree`, `start`, `stop`, `pause`, `resume`, `step`, `beginShutdown`, `loop`, `switchTree`; `update_rt`/`update_nrt`, `set_conn_codeit`, `set_gateway_status` | called by the HTTP and pub/sub handlers; calls the monitor's callbacks from the tick thread |
| **BtJsonRequest** (`include/bt_json_request.hpp`) | shared state (`state`, `generation`, message) under a mutex, `handle_`, `deadline_` | `start`, `tick`, `cancel`, destructor; completion callback | owned by an action node (tick thread); answered by a transport thread |
| **Action nodes** (`include/bt_action`) | request, press state, start time | `onStart`, `onRunning`, `onHalted` | read BTManager's cached state, send commands to the robot service |
| **Condition nodes** (`include/bt_condition`) | none | `tick` | read the cached state |
| **Command builder** (`include/bt_manager.hpp`) | a command under construction | `init_models`, `select_models`, `add_field`, `build`, JSON conversions | used by the action nodes |
| **BehaviorTreeMonitor** (`monitor/source/bt_monitor_plugin.cpp`) | `running_`, event queue, cached tree and statuses, viewers, counters, health | `start`, `stop`, `enqueue_*`, `run_event_loop`, WebSocket and HTTP handlers | fed by BTManager's tick thread, drained by a worker of the host, sends to WebSocket sessions |
| **Monitor bridge** (`monitor/source/bt_monitor_integration.cpp`) | `monitor_` | `startMonitor`, `stopMonitor` | wires BTManager, the monitor and the host |
| **BehaviorTreePlug** (`source/behavior_tree_plug.cpp`) | `started_`, routes | `on_start`, `on_stop`, `on_unload`, handlers `load`, `read`, `read.xml`, `start`, `stop`, `save`, pub/sub handlers | owns the lifetime of BTManager (a singleton) and of the monitor |
| **Node registry** (`include/auto_registration.hpp`) | builders and port metadata | `registerNode`, `registerAll`, `getAllMeta` | filled before `main`, read by `switchTree` |
| **Monitor page** (`web/index.html`) | tree and statuses shown | connect, HTTP snapshots, socket messages | HTTP and WebSocket |

### What makes it hard

* **Threads.** HTTP handlers (up to 8 and 16 at once), pub/sub handlers, the
  plugin thread, the tick thread, the monitor's worker, the transport's
  callbacks and the WebSocket handlers all meet in BTManager, the monitor and
  BtJsonRequest.
* **Three kinds of synchronisation at once in BTManager**: a lifecycle mutex
  held across `join`, a tree mutex shared with the tick, and atomics read
  outside both. Notifications are sent without the mutex of the condition
  variable.
* **Late answers.** A request that timed out or was halted may still be
  answered; the next request uses the same object.
* **Partial failure.** A file fails to parse, the publisher cannot bind, the
  thread cannot be created, an XML cannot be converted.
* **Snapshots used after the unlock** by the monitor, and a worker that
  `stop()` does not wait for.

### What makes each part correct

* BTManager: its operations look atomic from outside; never two workers;
  nothing half-built after a failure or a stop; no load lost; nothing starts
  after the shutdown; no circle of waiting threads; `stop()` returns; the monitor knows the tree in place and is never left with running nodes of a
  tree that is gone; `start()` says success only when that is true.
* BtJsonRequest: a result is that request's own, is final, comes within the
  deadline, and a pending request can be cancelled at the service.
* Monitor: a bounded queue; coalescing loses nothing that matters; one tree in
  the cache at a time; broadcasts in the order of the trees; counters that add up; the worker goes on and ends; no
  closed session is kept.
* Action nodes: the robot is not left under a jog press that no running node
  holds; a node succeeds only for its own command or at its own station, and
  leaves no request behind; a command tells each selected robot everything.
* Plugin lifecycle: started means all there; the Host, the handlers and the
  tick thread never wait in a circle; a manager is deleted only at rest;
  no event reaches a monitor that is being stopped; a fault ends the run it
  finds.
* Page: it shows what it was given.

## 2. The modules

### `AsyncRequest` and `BtJsonRequest`

`AsyncRequest` says what a node is promised: its requests are numbered, only
the last is live, each reaches at most one verdict, and a success is the
service's own answer to it. `BtJsonRequest` is the code.

| Code | Model |
|---|---|
| `SharedState::state`, `generation` | `state`, `generation` |
| `handle_` | `handle`: the number of the request it stands for, 0 if null |
| `now() >= deadline_` | `deadlinePassed`, set by `DeadlinePasses`, cleared by a new start |
| callbacks the transport still holds | `calls`, each with its generation |
| `start()` | `StartReset`, `StartArm`, `StartBump`, `StartSend` or `StartRefused`, `StartKeepHandle`, `StartFail` |
| `tick()` | `TickLoad`, then one of `TickNothing`, `TickTimeout`, `TickAnswer` |
| `cancel()`, the destructor | `Cancel`, `Destroy` |
| the callback (one critical section) | `Callback` |

`issued`, `answered` and `verdict` are history: what was asked, what the
service answered, what the node was told. A callback may run at any time after
`StartSend`, also before the handle is stored, after a cancellation, and after
the object has been destroyed.

### `BTManager` and `ManagerLife`

`ManagerLife` is what the manager promises whoever calls it or watches the tree,
with no thread and no mutex in it: a run is built, runs and ends; load, start,
stop and each switch of the tree take effect at one instant; the tree served is
the one wanted last when it was put in place; outside a run there is none.
`BTManager` is the code.

One program counter per thread. Each client thread calls one operation at a
time; the worker is a thread of its own that `StartSpawn` brings into being.

| Code | Model |
|---|---|
| `lifecycle_mtx_`, `tree_mtx_` | `lifecycle`, `treeMtx`: the owner |
| `running_`, `paused_`, `stopping_`, `has_pending_`, `pending_xml_` | the variables of these names |
| `tree_`, `publisher_`, `observer_` | the file each belongs to, `NoTree` if none |
| node statuses | `treeActive`: some node is not IDLE |
| monitor callbacks | `monitor`: the tree and the activity they last told of (`OnTreeReset`, `Reported`); `Unknown` after one that threw, which `onTreeReset()` and `onNodeStatusChanged()` catch |
| `worker_` joinable | `pc[Worker] # "none"` |
| `cv_.wait`, `cv_.wait_for` | the predicate (`LoopPred`, `LoopTimedPred`), the blocking (`LoopBlock`, `LoopTimedBlock`) and the wake-up (`NotifyAndGoto`, `LoopSpurious`, `LoopTimeout`) are separate steps, so a notification between the first two is lost, as in the code |
| `loadTree` | `Load`, `LoadStore`, `LoadNotify` |
| `start` | `Start`, `StartLock`, `StartCheck`, `StartPending`, `SwitchTree`, `StartSetRunning`, `StartSetPaused`, `StartSpawn` or `StartSpawnFails` and the rollback |
| `switchTree` | `SwitchBegin`, `SwitchCreate`, `SwitchAttach`, `SwitchCleanup`, shared by `start` and `loop` |
| `stop` and its callers | `Stop`, `StopIfRunning` (disconnect, gateway fault), `Shutdown` (`beginShutdown` and `stop`), `StopLock` to `StopClean` |
| `loop` | `LoopWhile` to `LoopTimeout` |

Two steps of the code are one step of the model only where no other thread can
see the state in between: a critical section of `tree_mtx_` with no effect
outside it, or reads of a flag that cannot change while the lock is held.
Whether a file parses is decided when it is read, because the save handler may
rewrite it between a load and the switch.

How `BTManager` is seen as `ManagerLife` (`Contract`):

| `ManagerLife` | `BTManager` |
|---|---|
| `op[c]`, `arg`, `ret` | the operation that `pc[c]` is in (`OpAt`), its file, its answer |
| `life`, `owner` | `building` from the checks of `start()` to the thread, `ending` from the exchange of `running_` to the cleanup, by the owner of `lifecycle_mtx_`; else `running_` |
| `wanted` | `pending_xml_` while `has_pending_` is set |
| `served`, `active` | `publisher_`, which its clients see, and whether some node is not IDLE (`treeActive`) |
| `closed` | `stopping_` |

The tree itself, the observer, what the monitor is told, `paused_`, the tree mutex, the worker and its waits
are inside. A switch is two steps of the contract, `Withdraw` and `Serve`, or
`Discard` when the file is bad and a run goes on without a tree (disagreement 1);
in a `start()` it is `GiveUp`.

### `BehaviorTreeMonitor`

| Code | Model |
|---|---|
| `running_`, the stop token | `running`, `stopRequested` |
| `event_queue_`, the three counters | `queue`, `received`, `coalesced`, `processed` |
| `latest_tree_message_`, `latest_status_` | `tree`, `status`: the latter with the tree each status is about |
| an exception of `convert_xml_to_tree()` | `ApplyTreeFails`; `refused` is the history of these trees |
| `viewers_` | `viewers` |
| `startMonitor`, `stopMonitor`, `start`, `stop` | `StartMonitor`, `StartWorker`, `Connect`, `Disconnect`, `StopRunning`, `StopQueue`, `StopViewers`, `StopState`: one step per critical section |
| `enqueue_tree_reset`, `enqueue_node_status` | `TellTree`, `TellStatus`, with `Enqueue` |
| `run_event_loop`, `process_event` | `WorkerWhile`, `WorkerLeave`, `WorkerPop`, `ApplyTree`, `ApplyTreeFails`, `ApplyStatus`, `Broadcast...`, `WorkerCount`, `WorkerExit` |
| `handle_ws_open`, `_close`, `_message`, `send_initial_snapshot` | `WsOpen`, `WsInsert`, `WsMessage`, `WsReply`, `SnapshotCopy`, `SnapshotTree`, `SnapshotStatus`, `SnapshotEnd`, `WsClose` |
| a send and `remove_dead_session` | `Send`: queued, refused, or the session is gone |

Trees are numbered as they are created. The code's status events carry no tree;
the model's do, so that the properties can tell an old status from a new one,
and no guard of the model reads that number. `truthTree` and `truthStatus` are
history: what BTManager has told of in this run. The timed wait of the worker
is not split: it ends within 250 ms whatever happens, so a lost notification
only delays.

External, and assumed from how the code relies on it: the host joins the
managed worker before the plugin is started again, calls the handlers of one
session one at a time, reports a closed session after its handlers, and
delivers the messages of a session in order.

### `JogJointToAngle`

The node against the robot: what it believes to press, and what is pressed.

| Code | Model |
|---|---|
| `pressing_`, `active_robot_` and `active_direction_`, `last_motion_id_` | `pressing`, `active`, `lastMotion` |
| `now - start_`, `now - last_pressing_` against their limits | `overdue`, `due`, set by `Minute` and `Second` |
| `onStart`, `onRunning`, `onHalted` | `OnStart`, `OnRunning`, `OnHalted` |
| `tickImpl`, up to its first request | `TickDisconnected`, `TickNoInput`, `TickReject`, `TickArrived`, `TickTurn`, `TickHold` |
| `stopPressing` | `ReleaseThen`, then `ReleaseNothing`, `ReleaseStopping`, `ReleaseSent` or `ReleaseFailed` |
| `sendJog` of a start and of a keep-alive | `PressSent`, `PressFailed`, `HoldSent`, `HoldFailed` |
| the robot | `held`: the presses it is under |

Inputs and the cached joint state are read once per tick, before anything
blocks; they are a free choice in each tick. Each request is a step of its own,
and while it waits the connection, the shutdown and the clock go on. A failed
request may have been carried out. `begun` and `lost` are history: the press
that `pressing_` stands for, and the presses the node has had a reason to lose
sight of. There are four reasons in the code, each at one step:

1. a tick finds the driver disconnected and fails without a release
   (`TickDisconnected`); the next `onStart()` forgets what was pressed;
2. `stopPressing()` during the shutdown sends nothing (`ReleaseStopping`);
3. a request fails: a start that was carried out is not released, since
   `pressing_` is still false (`PressFailed`), and the failure of a release is
   ignored (`ReleaseFailed`);
4. the `motion_id` input changed while pressing: the release names the new
   joint (`ReleaseSent`).

The robot's side is external: a press is identified by robot, direction and
motion; a request that failed has been carried out before the call returned or
never is.

### `ActionNodes`, over `AsyncRequest` and `CmdDynBuilder`

The four nodes that send one command: `MoveAbsJ`, `MoveAbsJJointTarget` and
`MobileRobotModbusTCPJGBOT`, which poll their request tick by tick, and
`JogJoint`, which waits for it in `onStart()`. `kind` says which of them is
followed, through the life of its trees.

| Code | Model |
|---|---|
| constructor, destructor | `CreateNode` (reads `models_`), `DestroyNode` (drops the request) |
| `onStart` | `OnStart` (the connection; `JogJoint` looks at `stopping_` too), `StartReject`, `StartBuild`, `StartSent` or `StartRefused` |
| `onRunning` | `OnRunning`, then `LookArrived`, `LookThrows` or `LookOn` (mobile robot), then `PollAnswer`, `PollTimeout` or `PollWait` |
| `onHalted` | `OnHalted` |
| `BtJsonRequest` | the variables of `AsyncRequest`, by the operators of that module, with the deadline in `late` |
| `CmdDynBuilder` | `Build`: `InitModels`, `SelectModels`, `AddFields`, in the order of the calls |
| `conn_codeit_`, `stopping_`, `model_size`, `nrt_msg` | `connected`, `stopping`, `modelSize`, `report`, changed between any two steps by `SetConnected`, `BeginShutdown`, `UpdateRt`, `UpdateNrt` |

The mobile robot (`robot`, `orders`) is external: it drives only to stations it
was sent to, perhaps late, perhaps never. `reached` is history: where it has
been, or was said to be, since the node was started. `std::stoi` throws on a bad
`target_station_id`, but is only evaluated once a robot has arrived; nothing
catches it below the thread, so `LookThrows` ends the behaviour.

### `BehaviorTreePlug`

Three kinds of threads: the Host thread in `on_start`/`on_stop`, the handlers,
and the tick thread of the manager.

| Code | Model |
|---|---|
| `on_start` and its rollbacks | `OnStart`, `InitManager`, `Subscribe`, `OpenEndpoint`, `MakeMonitor`, `RunMonitor`, `RunWorker`, `SetMonitorCallbacks`; those that can fail have a failing disjunct |
| `startMonitor()` without a worker, or left by an exception | `MonitorFails` |
| the managed worker and its stop token | `worker`, `stopRequested`; `RequestStop` (the host, at any time) and `WorkerEnds`, which clears `running_` as the end of `run_event_loop()` does |
| the monitor's `running_`, the tree it was told of | `monitor`, `monitorTree` |
| `on_stop` | `Withdraw` and `OnStop` (the host stops dispatching and waits), `ClearMonitorCallbacks`, `StopMonitor`, `BeginShutdown`, `HostStop`, `HostJoin`, `DeleteManager`, `NullManager` |
| `G_BT_MANAGER()`, `SingletonDclp` | `instance` (the pointer, nulled after the delete), `alive`, `ptr[h]` of each handler |
| `handleLoad`, `handleStart`, `handleStop` | `Enter`, then `LoadTree`, `StartCheck` to `StartRun`, `StartSpawn` or `StartSpawnFails`, `StopExchange`, `StopJoin` |
| `handleConnCodeit`, `handleGatewayStatus` | `CheckRunning`, `Refetch` (the first fetches the pointer twice), then as `stop()` |
| `monitor_callbacks_mtx_` | `delivering`: who is in a callback |
| `onTreeReset()` | `StartTell`, `StartTold`, `TickTell`, `TickTold`, with `TellTree`: told, dropped by a monitor that does not run, or failed and only logged |
| a use of a deleted or null manager | `Crash`: nothing is claimed of that handler afterwards |

Here a manager is its flags, its lifecycle mutex and the number of its tree;
`BTManager` has the detail. `excused` is history: the tree in place is older than
the plugin's start, or the callback that was to announce it failed.

### `MonitorPage`

The page of `web/index.html` against the cache of the monitor: `connect()` with
its three requests and the socket, the health timer, and the messages. An answer
is the record `json_response()` writes, and `Fulfilled` is the page's test of it.

### How they compose

* `ActionNodes` is written over `AsyncRequest`, which `BtJsonRequest` is shown,
  by TLC and by proof, to implement: one composition in two halves.
* `BehaviorTreePlug` composes the lifecycles: it opens and closes the
  environment in which `BTManager` and `BehaviorTreeMonitor` work. What it
  relies on in the former, that `stop()` returns with nothing left behind, is
  `StopReturns` and `StoppedIsClean` there; what it relies on in the latter,
  that the worker ends, is `WorkerEnds`.
* `BTManager` produces what `BehaviorTreeMonitor` consumes: its `monitor`
  is what the callbacks say that appear in the monitor as `TellTree`
  and `TellStatus`. `MonitorInStep` says that what is told is right,
  `MonitorKnowsTree` that it is told to a monitor that listens, and
  `ConflationLosesNothing` that what is told arrives.
* `MonitorPage` is the far end of the same chain.
* `ManagerLife` is what the handlers of `BehaviorTreePlug` rely on in a manager;
  they hold a smaller picture of it, which is not yet shown to implement the same
  contract.

### Mutants

A definition named `X_Y` beside `X` is `X` with a plausible bug `Y` (a lock not
taken, a counter not incremented). No action uses them; replacing `X` by `X_Y`
shows that a property notices.

## 3. The runs

| Run | Module, cfg | Bounds | States | Shows |
|---|---|---|---|---|
| `json_request` | `BtJsonRequest` | `MaxGeneration = 7` | 87 thousand | safety, refinement of `AsyncRequest`, `RequestEnds` |
| `manager` | `BTManager` | 2 clients, 2 files, manual stepping | 266 thousand | refinement of `ManagerLife`, the safety of the manager, no circle of waiting threads; `stop()` returns, loads are served |
| `manager_start_ok` | `BTManager`, `BTManagerStartOk.cfg` | 1 client, 1 file | | disagreement 1 |
| `monitor` | `BehaviorTreeMonitor`, `Monitor.cfg` | 2 nodes, 2 statuses, 1 viewer, 3 trees, 4 events | 972 thousand | queue, counters, cache, conflation, sessions, broadcasts in order, draining, ending |
| `monitor_source`, `monitor_forgets`, `monitor_old_status` | `BehaviorTreeMonitor` | one node, at most 3 trees and one viewer | | disagreements 2 to 4 |
| `jog` | `JogJointToAngle` | 2 robots, 2 motions | 967 thousand | nothing is left pressed but for the four reasons; what a node refreshes is pressed; a press ends |
| `action_nodes` | `MCActionNodes`, `ActionNodes.cfg` | 2 requests, 2 models, 2 stations | 690 thousand | successes are earned, nothing is left over, executions end |
| `action_nodes_shutdown` | `MCActionNodes`, `ActionNodesNotes.cfg` | the same | | disagreement 5 |
| `plug` | `BehaviorTreePlug` | 2 handlers, 2 managers, 5 calls | 379 thousand | start, rollbacks, stop and restart of the plugin, with a worker that is stopped early and callbacks that fail; no circle of waiting threads |
| `monitor_page` | `MonitorPage` | 2 trees, 1 node, 2 statuses | | disagreement 6 |

Why the bounds are enough:

* A request uses two generations and a cancel one, so seven allow three
  overlapping requests, and the late callback of the first can meet both
  successors. The proof needs no bound.
* Two clients are the least for every race between two calls, and the worker is
  a third thread; a third client would wait at the same mutexes. Two files tell
  the last load from an earlier one. The proof covers any number of both.
* Two nodes and two statuses with four events give every order of reset,
  replaced status and unrelated status, and a restart in between; two of the
  three trees may be created before or after a session is opened, which takes
  the third and, with `SessionCost = 2`, two of the events: the viewers do not
  touch the queue or the counters, so a history with a session may be short of
  events, and the other way round. `MaxTrees` and `MaxEvents` count over all
  runs of the plugin together. The proofs need no bound.
* The jog node may change between two robots, two directions and two motions,
  and after requests that failed the robots may be under several of the eight
  presses at once. The proof covers any number of robots and motions.
* Two commands are the least for the answer to one to meet the next. A
  `robot_sel` of -1 and 1 with 0, 1 or 2 models is negative, in range and too
  large. Two stations tell the one asked for from another.
* Two managers are a start and a restart. Five calls are the least for a load,
  a start and a fault of the first run to be followed by a load and a start of
  the second, and two handlers for any of them to race another.

What the properties are about:

* `SuccessIsOwnAnswer` and `ImplementsAsyncRequest` break if the callback of an
  old request is accepted.
* `CancelReachesService` breaks if a pending request has no handle: halting the
  node would then leave the robot's command alive.
* `KeepsContract` and `LoadServed` together say that a load is never lost, even
  if it meets a switch that is under way. `KeepsContract` breaks if any of the
  small windows in the code can be seen from outside: a tree served after
  `stop()` has returned, a run begun after the shutdown, a switch that takes away
  a file it has not read.
* `OneWorker`, `ShutdownIsFinal` and `MonitorInStep` relate the locks, the flags,
  the thread and the monitor over calls of several clients. A callback that
  throws is caught and the manager goes on (`bt_manager.cpp:347-377`); what the
  monitor shows is then `Unknown`, and `MonitorInStep` claims nothing of it until
  the next tree it is given, when it must be right again.
* Four properties that are stated and proved are in no run, because properties
  that are say the same and more: `VerdictIsFinal` follows from
  `ImplementsAsyncRequest`; what `StoppedIsClean`, `LatestLoadWins` and
  `StartOkRuns` say of the tree and the run is in `KeepsContract` with
  `MonitorInStep`, and that a successful start has a worker thread, which the
  contract does not know of, is the theorem `StartOk`.
* `ConflationLosesNothing` compares the cache and the queue with what
  BTManager has told of, for every prefix the worker may have got to.
* `NoCircularWait` (of `BTManager`, and of `BehaviorTreePlug`) speaks of mutexes,
  joins and the drain of the host. It says no more than that: waiting for a
  condition variable is not waiting for a thread, and is what the liveness
  properties and the theorem `NeverParks` are about. TLC's own deadlock check
  cannot replace it, since some other thread can always go on.
* `BroadcastsInOrder` is the other half of disagreement 4: only snapshots can be
  late. It rests on the assumption that the messages of a session arrive in the
  order they are sent, those on the host's "latest" topics included.
* `QueueShape` is what bounds the queue; `Accounting` relates five quantities
  that three different threads update.
* `NoForgottenPress` compares the robot with the node after any sequence of
  ticks, halts, failures and restarts; it breaks if one of the node's exits
  forgets the release. It does not say that a robot is under one press at a time:
  a turn goes on to its `LongPressStart` whatever came of the `LongPressEnd`
  (line 204), so after a failure there may be two opposite ones, the first of
  them among the lost. `PressIsHeld` is the other half: a node that goes on
  refreshing a press has the robot under that one, so it never waits out its
  time limit on a press that was released; it breaks if a release that failed
  leaves `pressing_` set.
* `NothingLeftOver` and `SuccessIsEarned` relate an execution of a node to the
  requests of the executions before it. A node that finds its mobile robot
  already reported at the station succeeds at once, before the new command is
  carried out: the model keeps that, and `reached` begins with what is reported.
* `DeletedAtRest`, `CallbackBarrier` and `OnlyFailedStartsDangle` are about who
  may still be inside an object that goes away. `Crashed` can be reached, but
  only after a failed `on_start()`, which deletes the manager while the endpoint
  and the subscriptions registered before are still dispatched.
* `StartedMeansReady` claims a running monitor with a worker unless the host has
  asked the worker of this very start to stop: `run_event_loop()` then ends and
  clears `running_`, perhaps before `on_stop()`. That a worker of an earlier
  start cannot do so is what is claimed.
* `MonitorKnowsTree` names the trees that a started plugin may hide from a
  monitor that runs: one that was created before the callbacks were registered,
  and one whose callback failed.
* `FaultEndsRun` says that no run is under way when the handler of a fault
  returns. A `start()` that has not set `running_` when the handler looks may begin
  one afterwards, since `is_running()` is read without the mutex.

### Fairness

* `BtJsonRequest`: the tick thread finishes the call it is in and ticks a live
  node again (the manager's loop does, every period), and time passes. Nothing
  is assumed of the transport.
* `BTManager`: each client finishes a call it has made, and the worker runs;
  both strongly, as a thread that waits for a mutex which is released again and
  again gets it. Nobody is obliged to make a call and no wake-up is spurious.
  `wait_for` ends by its timeout, which is a step of the worker. The run has
  `pause()`, which is used nowhere in the plugin; a paused worker waits without
  a timeout, and a notification lost between its test and its wait leaves it
  there. `StopReturns` and `LoadServed` except exactly that (`Parked`). In the
  plugin it cannot happen: without `pause()` and `step()` the worker is never
  `Parked`, which is the theorem `NeverParks`.
* `BehaviorTreeMonitor`: the worker runs, and a `stop()` that has begun goes on.
  Nothing makes the plugin start or stop, events occur or the host request a
  stop.
* `JogJointToAngle`: a tick goes on, as `call_sync` has a time limit; a running
  node is ticked again or halted; time passes. Nothing makes a request succeed
  or the joint arrive.

* `ActionNodes`: a tick goes on, a running node is ticked again or halted, the
  deadline passes. Nothing makes the service answer or the mobile robot drive.
* `BehaviorTreePlug`: a call of the Host or of a handler that has begun goes on,
  strongly for the sake of the mutexes; the tick thread runs. Nothing makes the
  Host start or stop the plugin or dispatch a call.
* `MonitorPage` has no fairness: its property is an invariant.

Deadlock is checked everywhere except in `json_request`, where a destroyed
request and an empty transport have nothing left to do, and in `plug`, where a
handler that uses a deleted manager stays where it is, and the plugin is at its
end when the managers and the calls of the bounds are used up.

## 4. Disagreements between the code and its comments

1. **`start()` succeeds without a tree** (`manager_start_ok`). Load a good file,
   start, load a bad one: the worker's `switchTree()` fails, drops the tree and
   leaves `running_` set. A second `start()` returns success at once, although
   `bt_manager.hpp:342` and `behavior_tree_plug.cpp:503` promise a created tree.
2. **`event_source_connected` is `running_`** (`monitor_source`), while
   `README.md:255` says that the callbacks are registered too.
3. **The cache comes back after `stop()`** (`monitor_forgets`). The worker may
   hold a popped tree reset; it stores the tree after `stop()` has cleared the
   cache for the reason given at `bt_monitor_plugin.cpp:171`.
4. **Old statuses after a switch** (`monitor_old_status`). A snapshot copied
   before the switch is sent after it. The comment at
   `bt_monitor_plugin.cpp:205` promises otherwise, which clearing the queue
   alone does not achieve. The same race can send the old tree last, which the
   page then shows until the next switch.
5. **A node started during the shutdown** (`action_nodes_shutdown`). The note on
   `onStart()` of the mobile robot (`mobile_robot_modbus_tcp_jgbot.hpp:45`)
   promises FAILURE when the manager is stopping; line 52 tests the connection
   only, and the command is sent. The next tick notices.
6. **The page rejects every answer of the monitor** (`monitor_page`).
   `index.html:262` throws unless `body.code` is 0; `json_response()` writes
   `request_code` and no `code`. The page has no tree until the socket brings
   one, and calls the monitor offline for ever.

## 5. The proofs

Eight modules of proofs hold for every value of the constants, from the named
assumptions of the modules: `MaxGeneration` is a natural number; the worker is no
client; `NoThread` is no thread; `NoTree` is no file; `NoPress` is no press;
`NoEvent` is no event, `NoStatus` is neither a status nor a status of a tree, and
the sessions of the monitor are finitely many; the Host and the tick thread are
no handlers; `NoStation` is no station; the bounds are natural numbers. The other
constants may be infinite sets.

* **BtJsonRequest.** The safety properties are not inductive. The invariant adds
  that no callback carries a generation newer than the counter, that an
  accepted callback belongs to the last request, and where in `start()` the
  state and the generation stand while a callback may already run.
  `Refinement` maps each step to a step of `AsyncRequest` or to a stutter.
* **BTManager.** `IInv` adds to the types: who holds a lock is where the code
  holds it, and conversely (`LockOK`); a worker exists while, and only
  while, `running_` and the position of the lifecycle owner say so (`WorkerOK`);
  outside a lifecycle call nothing is left behind (`CleanOK`); between critical
  sections the tree, its publisher and its observer agree (`TreeOK`), and so
  does the monitor, unless `Unknown` (`MonitorOK`; the lemmas `ReportedAgrees` and
  `ResetAgrees` say what a callback contributes);
  after the shutdown nothing runs (`ShutdownOK`). One step per action, one
  sub-step per part. TLC has checked `IInv` on the instance of `manager`.
  `NoDeadlock` orders the waits: for `lifecycle_mtx_`, in the join, for
  `tree_mtx_`. `LockOK` says that whoever is waited for stands further on in this
  order, and that the owner of `tree_mtx_` waits for nobody, so in any set of
  threads one that is furthest on waits for none of them; the worker, which is
  joined, takes only the last. `NeverParks` holds where `ManualStepping` is FALSE.
  It needs `UnpausedOK`: while a worker exists, `paused_` is false, though it may
  be true at other times, also inside `start()`.
* **ManagerLife_proofs.** `Refinement`: each step of `BTManager` is a step of
  `ManagerLife` or changes none of what it sees. `IInv` does not say everything
  that takes; `SwitchOK` adds that a thread on its way into or inside
  `switchTree()` has a file to load, which only it can take away, and that a
  `start()` which got through the switch has a tree. The lemmas follow the
  contract: how `op`, `life` and `owner` look before and after a step (`OpMoves`,
  `LifeValues`, `LifeStays`, `LifeLocked`), the shapes of step that recur
  (`Called`, `Returned`, `MovesOn`, `TickSeen`, `ResetSeen`), and one lemma
  for each operation of the code.
* **JogJointToAngle.** `NoForgottenPress` is nearly inductive: it needs that the
  node's record of its press agrees with the press it began (in `TypeOK`),
  or a release could name another; that a start is asked for only with
  `pressing_` false (`PlanOK`), or the record of the old press would be
  overwritten; and that a node in a tick is RUNNING (`NodeOK`). `PressIsHeld` is
  part of the same invariant: the two keep each other.

* **BehaviorTreeMonitor.** `TypeInv` adds to the types that no event, cached or
  queued, is of a tree yet to be created, and that the worker is started only
  where there is none. `QueueShape` follows from what `Enqueue` does to a
  sequence (`WithoutProperties`, `PushStatusProperties`, `EnqueueProperties`).
  `Accounting` needs only the types. `ClosedSessionsForgotten` follows from
  where the handler of a session stands (`SessionInv`). `CacheOwnStatuses` is
  the deepest of them: `OrderInv` says that the trees ascend from the cache over
  the event in hand to the queue (`ResetsAscend`), that each status, in hand,
  queued or still to come, fits the tree that will be in the cache when it gets
  there (`HandFits`, `QueueFollows`, `TruthFollows`, `CacheFits`), and that
  nothing is told to a monitor that has stopped (`Stopped`). TLC has checked
  `OrderInv` on the instance of `monitor`.
* **MonitorDelivery_proofs**, over the same invariants.
  `ConflationLosesNothing` is stated by looking for the last reset and the last
  status in what is under way. `ConflationInv` says the same without a search,
  using what the queue looks like: the tree to come is that of the reset at the
  head of the queue, else in hand, else the cached one (`ComingTree`); the status
  to come of a node is its one event in the queue, else what is behind the queue
  (`Coming`, `Behind`). That this is what the search finds is `ComingTreeCorrect`
  and `ComingCorrect`; that a push keeps it is `PushStatusKeeps`. `QueueBounded`
  counts: with finitely many nodes, `QueueShape` gives an injection of the queue
  into the nodes and one reset. `BroadcastsOrdered` needs `PagesInv`: what viewers
  and copied snapshots show is not newer than the event in hand, that not newer
  than the queue, which ascends, and that not newer than what BTManager told
  last. It must bound the snapshots too, for a late one is shown before the next
  broadcast. TLC has checked both invariants before they were proved.

* **ActionNodes.** `RequestOK` says what the request of a node stands for: before
  a command is sent and after an execution it is settled, and a request that is
  asked, or answered with ok, has no verdict yet, so `Deliver` gives it one.
  `PlaceOK` says that while a node runs, wherever the mobile robot is, or is said
  to be, counts as reached. `CommandOK` says that a command is full from the
  moment it is built; `BuildIsFull` proves that of the chain of calls of
  `CmdDynBuilder` for any size and selection.
* **BehaviorTreePlug.** The properties speak of single places of `on_start()` and
  `on_stop()`; the invariant says of each place what is there (`HostOK`,
  `MonitorOK`), when nothing can move (`RestOK`: before the first subscription,
  and from the end of `stop()` on, though handlers may still be at work in a
  rollback), who holds a lock and that a released lock means a joined thread
  (`LockOK`), whose pointer is good (`PointersOK`), and that a tree a running
  monitor does not know is excused or being told (`KnownOK`). TLC has checked `IInv` on the
  instance of `plug`. `NoDeadlock` orders the waits as in `BTManager`: the Host in
  its drain, then for the lifecycle mutex, then in the join of the tick thread,
  and last for the thread in a callback, which waits for nobody.

Only model-checked: the liveness properties (`RequestEnds`, `StopReturns`,
`LoadServed`, `QueueDrains`, `WorkerEnds`, `PressEnds`, `ExecutionEnds`,
`HostReturns`), which need fairness and are out of the prover's reach. Every safety property that a
passing run checks is the subject of a theorem.

## 6. Not modelled

* The ticks of a tree beyond "some node is active": the tree semantics are
  BehaviorTree.CPP's. The first `MoveAbsJ` of `move_absj.hpp` is not compiled.
* **Tree files** (`save`, `read`, `read.xml`). The handlers keep no state; each
  is one pass over the file system, and what a reader sees of a file that is
  rewritten in place (`behavior_tree_plug.cpp:293`) is the file system's. Load
  and start meet a file only as good or bad.
* **Condition nodes**: one stateless look at `rt_msg`, copied under its mutex.
  With them the joint data of `rt_msg`; `idle_stable_count`, which nothing
  reads.
* **Node registry**: a map filled before any thread exists and only read then.
* `on_init` and `on_unload` (the logger, and `stopMonitor()` once more);
  `load.node` (a file nothing writes after the start); `select_all()` and the
  overload of `select_models()` that nobody calls; the values of the fields of a
  command and their JSON; the conversion of a tree's XML beyond its success or
  failure; rendering and selection in the page.
* **Exceptions of the monitor.** That a tree reset may fail before it is queued
  (its XML cannot be written, no memory) is in `BTManager` and in
  `BehaviorTreePlug`; in `BehaviorTreeMonitor` every event that is told is queued,
  and a status whose callback fails, which the code loses for good, is one that
  was not told. `dump()` in `broadcast_tree()` (`bt_monitor_plugin.cpp:685`) throws
  on text that is not UTF-8, in a `noexcept` function, which ends the process:
  left out. A message of a viewer that is no object or whose `action` is no text
  (473) throws too, and is answered by nothing (`WsMessage`).
* **Reports of the mobile robot under way.** `UpdateNrt` copies what is true of
  the robot when it is delivered; an older report delivered later is left out.
* That a `LongPressing` which names another motion than the press (after
  `motion_id` has changed, `jog_joint_to_angle.hpp:155`) neither begins nor ends a
  press is assumed of the robot.
* HTTP parsing, wording, logging; `last_error` and `last_success_ms` of
  `bridge.health`.
* **Vendored code** (`3rd/`, `include/nlohmann/`): used as its callers rely on
  it. It is most of the repository: BehaviorTree.CPP, fmt and a JSON library
  come with it, and the plugin's own code is about three thousand of a hundred
  thousand lines, so a share of all lines says little about the plugin.

Four hazards have no property: what becomes of a session that outlives a stop
of the plugin (`bt_monitor_plugin.cpp:168`) is up to the host; a half-written
file (`behavior_tree_plug.cpp:293`) to the file system; and that the process
ends at a bad `target_station_id` (`mobile_robot_modbus_tcp_jgbot.hpp:121`) is
in the model, but no document promises otherwise; nor does any speak of a page
that is sent a new tree and keeps the statuses of the old one
(`index.html:383`), which the pages of `BehaviorTreeMonitor` and `MonitorPage` do.
One is covered by half: a `models_` that was read before a robot appeared
(`move_absj.hpp:132`) makes a command leave that robot out, which
`SuccessCommands` allows, as it speaks of the models the node knows.

## 7. The plan

Done: `AsyncRequest`, `BtJsonRequest`, `BTManager` over `ManagerLife`,
`BehaviorTreeMonitor`, `JogJointToAngle`, `ActionNodes` over `CmdDynBuilder` and
`BehaviorTreePlug`, each with proofs; `MonitorPage`.

What is left, in this order:

1. the manager inside `BehaviorTreePlug` (its flags, lock and tree) against
   `ManagerLife`, which would join the two modules by proof;
2. of the fair specifications, the safety half of the liveness properties: what
   is always enabled while they wait;
3. the tree files, should the repository come to say what a reader may see of
   them.
