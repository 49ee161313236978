------------------------ MODULE BehaviorTreeMonitor ------------------------
(***************************************************************************)
(* monitor/source/bt_monitor_plugin.cpp, with the start and stop sequence  *)
(* of monitor/source/bt_monitor_integration.cpp.  The tick thread of       *)
(* BTManager enqueues tree resets and node statuses; a worker managed by   *)
(* the Host pops them, updates the cached snapshot and sends it to the     *)
(* WebSocket viewers; the Host's threads run the WebSocket handlers; the   *)
(* plugin thread starts and stops it all.                                  *)
(*                                                                         *)
(* Each critical section of event_mutex_, state_mutex_ and viewers_mutex_  *)
(* is one step; whatever happens between two of them is several.  Trees    *)
(* are numbered in the order they are created, and an event carries the    *)
(* number of its tree, which the code's status events do not: with it the  *)
(* properties can tell an old status from a new one.                       *)
(*                                                                         *)
(* Assumed of the Host, which is not in the repository: it joins the       *)
(* managed worker before the plugin is started again, it calls a session's *)
(* handlers one at a time and in order, and it delivers the messages of a  *)
(* session in order.                                                       *)
(***************************************************************************)
EXTENDS Integers, Sequences, FiniteSets

CONSTANTS
  Uids,            \* node identifiers
  Statuses,        \* node statuses
  Viewers,         \* WebSocket sessions; each is opened at most once
  NoStatus,        \* a node that has not reported
  NoEvent,         \* the worker has no event in hand
  MaxTrees,        \* bound: trees created in all runs together
  MaxEvents,       \* bound: events received in all runs together
  SessionCost      \* bound: what a session takes of MaxEvents; it takes one
                   \* of MaxTrees too

ASSUME StatusAssumption ==
  NoStatus \notin Statuses \cup [tree : 1..MaxTrees, status : Statuses]
ASSUME ViewersAssumption == IsFiniteSet(Viewers)
ASSUME BoundsAssumption ==
  MaxTrees \in Nat /\ MaxEvents \in Nat /\ SessionCost \in Nat

VARIABLES
  control,         \* where the plugin thread is in startMonitor/stopMonitor
  connected,       \* BTManager's monitor callbacks are registered
  running,         \* running_
  stopRequested,   \* the PluginStopToken of the worker
  queue,           \* event_queue_
  worker,          \* where run_event_loop() is
  current,         \* the event the worker has popped
  targets,         \* the sessions a broadcast has still to send to
  tree,            \* tree of latest_tree_message_, 0 if there is none
  status,          \* latest_status_
  viewers,         \* viewers_
  received, coalesced, processed,
  session,         \* history of each session
  handler,         \* where the session's handler is
  snap,            \* what send_initial_snapshot() has copied
  page,            \* what each viewer has been sent
  created,         \* history: number of trees created
  truthTree,       \* history: the tree BTManager has told of in this run
  truthStatus,     \* history: the statuses it has told of for that tree
  cleared,         \* history: events that stop() has thrown away
  refused          \* history: trees convert_xml_to_tree() has thrown on

life == <<control, connected, running, stopRequested>>
work == <<worker, current, targets, processed>>
cache == <<tree, status, refused>>
counts == <<received, coalesced, cleared>>
truth == <<created, truthTree, truthStatus>>
watch == <<viewers, session, handler, snap, page>>
vars == <<life, queue, work, cache, counts, truth, watch>>

TreeIds == 0..MaxTrees
Reset(t) == [type |-> "TreeReset", tree |-> t]
Status(t, u, s) == [type |-> "NodeStatus", tree |-> t, uid |-> u, status |-> s]
ResetEvents == {Reset(t) : t \in 1..MaxTrees}
StatusEvents == [type : {"NodeStatus"}, tree : 1..MaxTrees, uid : Uids,
                 status : Statuses]
Events == ResetEvents \cup StatusEvents
IsReset(e) == e.type = "TreeReset"
IsStatus(e) == e.type = "NodeStatus"

\* What is sent that changes nothing a viewer shows of the tree: a bridge
\* status, a pong, an error.
Notice == [type |-> "Notice"]

ASSUME NoEventAssumption == NoEvent \notin Events \cup {Notice}

\* A cached or shown status, with the tree it is about.
Marks == [tree : 1..MaxTrees, status : Statuses] \cup {NoStatus}
Mark(e) == [tree |-> e.tree, status |-> e.status]
Blank == [u \in Uids |-> NoStatus]
Views == [tree : TreeIds, status : [Uids -> Marks]]
EmptyView == [tree |-> 0, status |-> Blank]

Init ==
  /\ control = "down" /\ connected = FALSE /\ running = FALSE
  /\ stopRequested = FALSE
  /\ queue = <<>>
  /\ worker = "none" /\ current = NoEvent /\ targets = {} /\ processed = 0
  /\ tree = 0 /\ status = Blank /\ refused = {}
  /\ received = 0 /\ coalesced = 0 /\ cleared = 0
  /\ created = 0 /\ truthTree = 0 /\ truthStatus = Blank
  /\ viewers = {}
  /\ session = [v \in Viewers |-> "new"]
  /\ handler = [v \in Viewers |-> "none"]
  /\ snap = [v \in Viewers |-> EmptyView]
  /\ page = [v \in Viewers |-> EmptyView]

\* The bounds: long histories without a session, short ones with.
Opened == Cardinality({v \in Viewers : session[v] # "new"})
Within(trees, events, sessions) ==
  /\ trees + sessions <= MaxTrees
  /\ events + SessionCost * sessions <= MaxEvents

-----------------------------------------------------------------------------
(* startMonitor() and stopMonitor() *)

\* monitor_->start(), once the Host has joined the worker of the last run.
\* The BTManager of the new run has told of nothing yet.
StartMonitor ==
  /\ control = "down" /\ worker = "none"
  /\ control' = "spawn"
  /\ running' = TRUE
  /\ truthTree' = 0 /\ truthStatus' = Blank
  /\ UNCHANGED <<connected, stopRequested, queue, work, cache, counts,
                 created, watch>>

\* start_managed_worker(); when it fails the monitor is stopped again.
StartWorker ==
  /\ control = "spawn"
  /\ \/ control' = "connect" /\ worker' = "while" /\ stopRequested' = FALSE
     \/ control' = "stop" /\ UNCHANGED <<worker, stopRequested>>
  /\ UNCHANGED <<connected, running, queue, current, targets, processed,
                 cache, counts, truth, watch>>

\* setMonitorCallbacks()
Connect ==
  /\ control = "connect"
  /\ control' = "up" /\ connected' = TRUE
  /\ UNCHANGED <<running, stopRequested, queue, work, cache, counts, truth,
                 watch>>

\* clearMonitorCallbacks(): no callback runs afterwards.
Disconnect ==
  /\ control = "up"
  /\ control' = "stop" /\ connected' = FALSE
  /\ UNCHANGED <<running, stopRequested, queue, work, cache, counts, truth,
                 watch>>

\* Mutant: stop() forgets running_.
StopRunning_Forgotten ==
  /\ control = "stop"
  /\ control' = "stop_queue"
  /\ UNCHANGED <<running, connected, stopRequested, queue, work, cache, counts,
                 truth, watch>>

\* stop(): running_ is cleared, then each container under its own mutex.
StopRunning ==
  /\ control = "stop"
  /\ control' = "stop_queue" /\ running' = FALSE
  /\ UNCHANGED <<connected, stopRequested, queue, work, cache, counts, truth,
                 watch>>

StopQueue ==
  /\ control = "stop_queue"
  /\ control' = "stop_viewers"
  /\ queue' = <<>>
  /\ cleared' = cleared + Len(queue)
  /\ UNCHANGED <<connected, running, stopRequested, work, cache, received,
                 coalesced, truth, watch>>

StopViewers ==
  /\ control = "stop_viewers"
  /\ control' = "stop_state"
  /\ viewers' = {}
  /\ UNCHANGED <<connected, running, stopRequested, queue, work, cache,
                 counts, truth, session, handler, snap, page>>

StopState ==
  /\ control = "stop_state"
  /\ control' = "down"
  /\ tree' = 0 /\ status' = Blank
  /\ UNCHANGED <<connected, running, stopRequested, queue, work, refused, counts,
                 truth, watch>>

\* The Host asks the worker to stop, which it may do before on_stop().
HostStop ==
  /\ worker # "none" /\ ~stopRequested
  /\ stopRequested' = TRUE
  /\ UNCHANGED <<control, connected, running, queue, work, cache, counts,
                 truth, watch>>

-----------------------------------------------------------------------------
(* enqueue_tree_reset() and enqueue_node_status(), in the tick thread *)

\* Mutant: a tree reset is queued behind the statuses of the old tree.
PushReset_KeepOld(e) ==
  /\ queue' = Append(queue, e)
  /\ UNCHANGED coalesced

\* Mutant: a tree reset overtakes the statuses of the old tree.
PushReset_Overtakes(e) ==
  /\ queue' = <<e>> \o queue
  /\ UNCHANGED coalesced

\* A reset makes everything queued obsolete.
PushReset(e) ==
  /\ queue' = <<e>>
  /\ coalesced' = coalesced + Len(queue)

\* The last status of node u in the queue, unless a reset follows it.
Previous(u) ==
  {i \in DOMAIN queue :
     /\ IsStatus(queue[i]) /\ queue[i].uid = u
     /\ \A j \in DOMAIN queue : j > i => IsStatus(queue[j]) /\ queue[j].uid # u}

\* The queue without position i.
Without(i) ==
  [j \in 1..(Len(queue) - 1) |-> IF j < i THEN queue[j] ELSE queue[j + 1]]

\* Mutant: a status overwrites the whole queue, not the node's own entry.
PushStatus_DropAll(e) ==
  /\ queue' = <<e>>
  /\ coalesced' = coalesced + Len(queue)

\* Mutant: the replaced status is not counted.
PushStatus_NotCounted(e) ==
  /\ \/ \E i \in Previous(e.uid) : queue' = Append(Without(i), e)
     \/ Previous(e.uid) = {} /\ queue' = Append(queue, e)
  /\ UNCHANGED coalesced

\* A status replaces the queued status of the same node, at the end.
PushStatus(e) ==
  \/ \E i \in Previous(e.uid) :
       queue' = Append(Without(i), e) /\ coalesced' = coalesced + 1
  \/ Previous(e.uid) = {} /\ queue' = Append(queue, e) /\ UNCHANGED coalesced

\* Both functions drop the event unless running_ is still set in the lock.
Enqueue(e) ==
  \/ /\ running
     /\ received' = received + 1
     /\ IF IsReset(e) THEN PushReset(e) ELSE PushStatus(e)
  \/ ~running /\ UNCHANGED <<queue, received, coalesced>>

\* BTManager::onTreeReset(): a new tree is in place, and its announcement
\* succeeds.  (BehaviorTreePlug has the one that fails.)
TellTree ==
  /\ connected /\ Within(created + 1, received + 1, Opened)
  /\ created' = created + 1
  /\ truthTree' = created + 1 /\ truthStatus' = Blank
  /\ Enqueue(Reset(created + 1))
  /\ UNCHANGED <<life, work, cache, cleared, watch>>

\* BTManager::onNodeStatusChanged() for a node of the tree in place.
TellStatus(u, s) ==
  /\ connected /\ truthTree # 0 /\ Within(created, received + 1, Opened)
  /\ truthStatus' = [truthStatus EXCEPT ![u] = Mark(Status(truthTree, u, s))]
  /\ Enqueue(Status(truthTree, u, s))
  /\ UNCHANGED <<life, work, cache, cleared, created, truthTree, watch>>

-----------------------------------------------------------------------------
(* run_event_loop() and process_event(), in the managed worker *)

\* while (running_ && !stop.stop_requested())
WorkerWhile ==
  /\ worker = "while"
  /\ worker' = IF running /\ ~stopRequested THEN "wait" ELSE "exit"
  /\ UNCHANGED <<life, queue, current, targets, processed, cache, counts,
                 truth, watch>>

\* The timed wait ends at the latest after 250 ms, so a lost notification
\* only delays what follows it.
WorkerLeave ==
  /\ worker = "wait" /\ (~running \/ stopRequested)
  /\ worker' = "exit"
  /\ UNCHANGED <<life, queue, current, targets, processed, cache, counts,
                 truth, watch>>

\* Mutant: the queue may be empty when the timed wait ends, and is popped.
WorkerPop_Unchecked ==
  /\ worker = "wait" /\ running /\ ~stopRequested
  /\ current' = IF queue = <<>> THEN NoEvent ELSE Head(queue)
  /\ queue' = IF queue = <<>> THEN queue ELSE Tail(queue)
  /\ worker' = "apply"
  /\ UNCHANGED <<life, targets, processed, cache, counts, truth, watch>>

WorkerPop ==
  /\ worker = "wait" /\ running /\ ~stopRequested /\ queue # <<>>
  /\ current' = Head(queue)
  /\ queue' = Tail(queue)
  /\ worker' = "apply"
  /\ UNCHANGED <<life, targets, processed, cache, counts, truth, watch>>

\* Mutant: a new tree keeps the statuses cached for the old one.
ApplyTree_KeepStatus ==
  /\ worker = "apply" /\ IsReset(current)
  /\ tree' = current.tree
  /\ worker' = "broadcast"
  /\ UNCHANGED <<life, queue, current, targets, processed, status, refused,
                 counts, truth, watch>>

\* A reset replaces the cached tree and forgets its statuses.
ApplyTree ==
  /\ worker = "apply" /\ IsReset(current)
  /\ tree' = current.tree /\ status' = Blank
  /\ worker' = "broadcast"
  /\ UNCHANGED <<life, queue, current, targets, processed, refused, counts,
                 truth, watch>>

\* Mutant: the exception of a failed conversion ends the worker.
ApplyTreeFails_Escapes ==
  /\ worker = "apply" /\ IsReset(current)
  /\ worker' = "none"
  /\ UNCHANGED <<life, queue, current, targets, processed, cache, counts,
                 truth, watch>>

\* convert_xml_to_tree() throws: the cache keeps the old tree; the viewers
\* only get a bridge status.
ApplyTreeFails ==
  /\ worker = "apply" /\ IsReset(current)
  /\ refused' = refused \cup {current.tree}
  /\ current' = Notice
  /\ worker' = "broadcast"
  /\ UNCHANGED <<life, queue, targets, processed, tree, status, counts, truth,
                 watch>>

\* A status that changes nothing is not broadcast.
Unchanged(e) == status[e.uid] # NoStatus /\ status[e.uid].status = e.status

ApplyStatus ==
  /\ worker = "apply" /\ IsStatus(current)
  /\ \/ Unchanged(current) /\ worker' = "count" /\ UNCHANGED status
     \/ /\ ~Unchanged(current)
        /\ status' = [status EXCEPT ![current.uid] = Mark(current)]
        /\ worker' = "broadcast"
  /\ UNCHANGED <<life, queue, current, targets, processed, tree, refused,
                 counts, truth, watch>>

\* The sessions are copied under viewers_mutex_, then sent to without it.  (A
\* message that is no UTF-8 makes dump() throw in these noexcept functions and
\* ends the process: that is left out.)
BroadcastTargets ==
  /\ worker = "broadcast"
  /\ targets' = viewers
  /\ worker' = "send"
  /\ UNCHANGED <<life, queue, current, processed, cache, counts, truth, watch>>

\* What a viewer shows after a message about the event e.
Shown(p, e) ==
  IF IsReset(e) THEN [p EXCEPT !.tree = e.tree]
  ELSE IF IsStatus(e) THEN [p EXCEPT !.status[e.uid] = Mark(e)]
  ELSE p

\* Sending e to v: the Host queues it, or refuses it because its queue is
\* full, or the session is gone and is removed from viewers_.
Send(v, e) ==
  \/ session[v] = "open" /\ page' = [page EXCEPT ![v] = Shown(@, e)]
       /\ UNCHANGED viewers
  \/ session[v] = "open" /\ UNCHANGED <<page, viewers>>
  \/ session[v] # "open" /\ viewers' = viewers \ {v} /\ UNCHANGED page

BroadcastSend(v) ==
  /\ worker = "send" /\ v \in targets
  /\ targets' = targets \ {v}
  /\ Send(v, current)
  /\ UNCHANGED <<life, queue, worker, current, processed, cache, counts,
                 truth, session, handler, snap>>

BroadcastEnd ==
  /\ worker = "send" /\ targets = {}
  /\ worker' = "count"
  /\ UNCHANGED <<life, queue, current, targets, processed, cache, counts,
                 truth, watch>>

WorkerCount ==
  /\ worker = "count"
  /\ processed' = processed + 1
  /\ current' = NoEvent
  /\ worker' = "while"
  /\ UNCHANGED <<life, queue, targets, cache, counts, truth, watch>>

\* The worker leaves, and clears running_ itself.
WorkerExit ==
  /\ worker = "exit"
  /\ running' = FALSE
  /\ worker' = "none"
  /\ UNCHANGED <<control, connected, stopRequested, queue, current, targets,
                 processed, cache, counts, truth, watch>>

WorkerStep ==
  \/ WorkerWhile \/ WorkerLeave \/ WorkerPop
  \/ ApplyTree \/ ApplyTreeFails \/ ApplyStatus
  \/ BroadcastTargets \/ (\E v \in Viewers : BroadcastSend(v)) \/ BroadcastEnd
  \/ WorkerCount \/ WorkerExit

-----------------------------------------------------------------------------
(* the WebSocket handlers, in threads of the Host *)

unwatched == <<life, queue, work, cache, counts, truth>>

\* The endpoint is registered before monitor_->start() and stays registered
\* when the monitor is stopped.
WsOpen(v) ==
  /\ session[v] = "new" /\ Within(created, received, Opened + 1)
  /\ session' = [session EXCEPT ![v] = "open"]
  /\ handler' = [handler EXCEPT ![v] = "insert"]
  /\ UNCHANGED <<unwatched, viewers, snap, page>>

WsInsert(v) ==
  /\ handler[v] = "insert"
  /\ viewers' = viewers \cup {v}
  /\ handler' = [handler EXCEPT ![v] = "copy"]
  /\ UNCHANGED <<unwatched, session, snap, page>>

\* A message: a request for a snapshot, or one that gets a short answer, or JSON
\* without a usable action, at which value() throws: no answer then.
WsMessage(v) ==
  /\ session[v] = "open" /\ handler[v] = "none"
  /\ \E next \in {"copy", "reply", "none"} : handler' = [handler EXCEPT ![v] = next]
  /\ UNCHANGED <<unwatched, viewers, session, snap, page>>

WsReply(v) ==
  /\ handler[v] = "reply"
  /\ Send(v, Notice)
  /\ handler' = [handler EXCEPT ![v] = "none"]
  /\ UNCHANGED <<unwatched, session, snap>>

\* send_initial_snapshot(): the cache is copied under state_mutex_ ...
SnapshotCopy(v) ==
  /\ handler[v] = "copy"
  /\ snap' = [snap EXCEPT ![v] = [tree |-> tree, status |-> status]]
  /\ handler' = [handler EXCEPT ![v] = "tree"]
  /\ UNCHANGED <<unwatched, viewers, session, page>>

\* ... and sent without it, the tree first
SnapshotTree(v) ==
  /\ handler[v] = "tree"
  /\ \/ snap[v].tree # 0 /\ Send(v, Reset(snap[v].tree))
     \/ snap[v].tree = 0 /\ UNCHANGED <<viewers, page>>
  /\ handler' = [handler EXCEPT ![v] = "statuses"]
  /\ UNCHANGED <<unwatched, session, snap>>

\* ... then the statuses, in any order.
SnapshotStatus(v, u) ==
  /\ handler[v] = "statuses" /\ snap[v].status[u] # NoStatus
  /\ LET mark == snap[v].status[u]
     IN  Send(v, Status(mark.tree, u, mark.status))
  /\ snap' = [snap EXCEPT ![v].status[u] = NoStatus]
  /\ UNCHANGED <<unwatched, session, handler>>

SnapshotEnd(v) ==
  /\ handler[v] = "statuses" /\ snap[v].status = Blank
  /\ snap' = [snap EXCEPT ![v] = EmptyView]
  /\ handler' = [handler EXCEPT ![v] = "none"]
  /\ UNCHANGED <<unwatched, viewers, session, page>>

\* The browser goes away; the Host reports it when no handler is running.
Leave(v) ==
  /\ session[v] = "open"
  /\ session' = [session EXCEPT ![v] = "gone"]
  /\ UNCHANGED <<unwatched, viewers, handler, snap, page>>

\* Mutant: handle_ws_close() leaves the session in viewers_.
WsClose_KeepViewer(v) ==
  /\ session[v] = "gone" /\ handler[v] = "none"
  /\ session' = [session EXCEPT ![v] = "closed"]
  /\ UNCHANGED <<unwatched, viewers, handler, snap, page>>

WsClose(v) ==
  /\ session[v] = "gone" /\ handler[v] = "none"
  /\ session' = [session EXCEPT ![v] = "closed"]
  /\ viewers' = viewers \ {v}
  /\ UNCHANGED <<unwatched, handler, snap, page>>

WsStep(v) ==
  \/ WsOpen(v) \/ WsInsert(v) \/ WsMessage(v) \/ WsReply(v) \/ SnapshotCopy(v)
  \/ SnapshotTree(v) \/ (\E u \in Uids : SnapshotStatus(v, u))
  \/ SnapshotEnd(v) \/ Leave(v) \/ WsClose(v)

-----------------------------------------------------------------------------

ControlStep == StartMonitor \/ StartWorker \/ Connect \/ Disconnect
                 \/ StopRunning \/ StopQueue \/ StopViewers \/ StopState

Next ==
  \/ ControlStep \/ HostStop
  \/ TellTree \/ (\E u \in Uids, s \in Statuses : TellStatus(u, s))
  \/ WorkerStep
  \/ \E v \in Viewers : WsStep(v)

Spec == Init /\ [][Next]_vars

(* The worker and a stop() that has begun go on.  Nothing makes the plugin  *)
(* start or stop, BTManager produce events, or the Host request a stop.     *)
Fairness ==
  /\ WF_vars(WorkerStep)
  /\ WF_vars(StopRunning \/ StopQueue \/ StopViewers \/ StopState)

FairSpec == Spec /\ Fairness

-----------------------------------------------------------------------------
(* Properties *)

TypeOK ==
  /\ control \in {"down", "spawn", "connect", "up", "stop", "stop_queue",
                  "stop_viewers", "stop_state"}
  /\ connected \in BOOLEAN /\ running \in BOOLEAN /\ stopRequested \in BOOLEAN
  /\ queue \in Seq(Events)
  /\ worker \in {"none", "while", "wait", "apply", "broadcast", "send",
                 "count", "exit"}
  /\ current \in Events \cup {Notice, NoEvent}
  /\ (current = NoEvent) = (worker \in {"none", "while", "wait", "exit"})
  /\ targets \subseteq Viewers
  /\ tree \in TreeIds /\ status \in [Uids -> Marks]
  /\ viewers \subseteq Viewers
  /\ received \in Nat /\ coalesced \in Nat /\ processed \in Nat
  /\ cleared \in Nat
  /\ session \in [Viewers -> {"new", "open", "gone", "closed"}]
  /\ handler \in [Viewers -> {"none", "insert", "reply", "copy", "tree",
                            "statuses"}]
  /\ snap \in [Viewers -> Views] /\ page \in [Viewers -> Views]
  /\ created \in TreeIds /\ truthTree \in TreeIds
  /\ truthStatus \in [Uids -> Marks]
  /\ refused \subseteq 1..created

\* The queue cannot grow without bound however slow the worker is: at most
\* one reset, at its head, and at most one status per node.
QueueShape ==
  /\ \A i \in DOMAIN queue : IsReset(queue[i]) => i = 1
  /\ \A i, j \in DOMAIN queue :
       IsStatus(queue[i]) /\ IsStatus(queue[j]) /\ queue[i].uid = queue[j].uid
         => i = j

\* The health counters add up: every received event is queued, in hand,
\* coalesced, processed, or was thrown away by stop().
InHand == IF worker \in {"apply", "broadcast", "send", "count"} THEN 1 ELSE 0
Accounting ==
  received = Len(queue) + InHand + coalesced + processed + cleared

\* Events that have not reached the cache yet, oldest first.
Unapplied == IF worker = "apply" THEN <<current>> \o queue ELSE queue

\* What the cache becomes once they have.
ResetsIn(q) == {i \in DOMAIN q : IsReset(q[i])}
StatusesIn(q, u) == {i \in DOMAIN q : IsStatus(q[i]) /\ q[i].uid = u}
EventualTree(q) ==
  IF ResetsIn(q) = {} THEN tree
  ELSE q[CHOOSE i \in ResetsIn(q) : \A j \in ResetsIn(q) : j <= i].tree
EventualStatus(q, u) ==
  LET resets == ResetsIn(q)
      since == {i \in StatusesIn(q, u) : \A j \in resets : j < i}
  IN  IF since # {}
      THEN q[CHOOSE i \in since : \A j \in since : j <= i].status
      ELSE IF resets = {} /\ status[u] # NoStatus THEN status[u].status
      ELSE NoStatus
StatusOf(mark) == IF mark = NoStatus THEN NoStatus ELSE mark.status

\* Coalescing loses nothing that matters: from the first tree of a run on,
\* what has reached the cache together with what is still under way is
\* exactly the tree and the last status of every node BTManager has told of.
\* (A tree that cannot be converted never gets there.)
ConflationLosesNothing ==
  running /\ truthTree \notin {0} \cup refused =>
    /\ EventualTree(Unapplied) = truthTree
    /\ \A u \in Uids : EventualStatus(Unapplied, u) = StatusOf(truthStatus[u])

\* The snapshot mixes trees only after a failed conversion: every cached status
\* belongs to the cached tree, or to a newer one that could not be converted,
\* whose statuses are merged in all the same.  So a uid of an older tree never
\* colours a node of the new one.
CacheOwnStatuses ==
  tree # 0 =>
    \A u \in Uids : status[u] # NoStatus =>
      \/ status[u].tree = tree
      \/ status[u].tree > tree /\ status[u].tree \in refused

\* A session the Host has reported closed is not sent to for ever.
ClosedSessionsForgotten == \A v \in viewers : session[v] # "closed"

\* Whatever is queued is worked off, or the monitor stops.
QueueDrains == queue # <<>> ~> (queue = <<>> \/ ~running)

\* After stop() the managed worker returns by itself, so that the Host can
\* join it.
WorkerEnds == control = "stop" ~> worker = "none"

\* What is broadcast comes in the order of the trees: a broadcast takes no
\* viewer back to an older tree and brings it no status older than the tree
\* it shows, whatever a snapshot has sent it in between and across restarts
\* of the monitor.  So only the snapshots can be late (NoOldStatusAfterSwitch).
BroadcastsInOrder ==
  [][\A v \in Viewers : BroadcastSend(v) =>
       /\ page'[v].tree >= page[v].tree
       /\ \A u \in Uids : page'[v].status[u] # page[v].status[u]
                            => page'[v].status[u].tree >= page[v].tree]_vars

\* README.md: event_source_connected=true means that the worker runs and the
\* BTManager callbacks are registered.
EventSourceConnected == running => connected

\* bt_monitor_plugin.cpp, in stop(): the old tree is cleared so that HTTP
\* does not return the data of the last run before a tree is loaded.
StoppedForgets == control = "down" /\ worker = "none" => tree = 0

\* bt_monitor_plugin.cpp, in enqueue_tree_reset(): after a switch no status
\* of the old tree is sent to a viewer that has been sent the new one.
NoOldStatusAfterSwitch ==
  [][\A v \in Viewers, u \in Uids :
       page[v].status[u] # page'[v].status[u]
         => page'[v].status[u].tree >= page[v].tree]_vars
=============================================================================
