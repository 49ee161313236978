--------------------- MODULE BehaviorTreeMonitor_proofs ---------------------
(***************************************************************************)
(* Safety of the monitor for any nodes, statuses, bounds and any finite    *)
(* set of sessions.                                                        *)
(***************************************************************************)
EXTENDS BehaviorTreeMonitor, TLAPS, SequenceTheorems, FiniteSetTheorems

-----------------------------------------------------------------------------
(* The queue *)

\* A queue without one of its entries.
LEMMA WithoutProperties ==
  ASSUME queue \in Seq(Events), NEW i \in DOMAIN queue
  PROVE  /\ Without(i) \in Seq(Events)
         /\ Len(Without(i)) = Len(queue) - 1
         /\ \A j \in 1..(Len(queue) - 1) :
              Without(i)[j] = IF j < i THEN queue[j] ELSE queue[j + 1]
<1> DEFINE n == Len(queue) - 1
<1>1. n \in Nat /\ DOMAIN queue = 1..Len(queue) /\ i \in 1..Len(queue)
  BY LenProperties
<1>2. \A j \in 1..n : j \in 1..Len(queue) /\ j + 1 \in 1..Len(queue)
  BY <1>1
<1>3. \A j \in 1..Len(queue) : queue[j] \in Events
  BY ElementOfSeq
<1>4. Without(i) \in [1..n -> Events]
  BY <1>2, <1>3 DEF Without
<1>5. Without(i) \in Seq(Events)
  BY <1>1, <1>4, SeqDef
<1>6. Len(Without(i)) = n
  <2>1. DOMAIN Without(i) = 1..n
    BY <1>4
  <2>2. DOMAIN Without(i) = 1..Len(Without(i)) /\ Len(Without(i)) \in Nat
    BY <1>5, LenProperties
  <2>3. \A a, b \in Nat : 1..a = 1..b => a = b
    <3> SUFFICES ASSUME NEW a \in Nat, NEW b \in Nat, 1..a = 1..b PROVE a = b
      OBVIOUS
    <3>1. \A x \in Int : x \in 1..a <=> x \in 1..b
      OBVIOUS
    <3>2. a > 0 => a <= b
      BY <3>1
    <3>3. b > 0 => b <= a
      BY <3>1
    <3> QED
      BY <3>2, <3>3
  <2> QED
    BY <1>1, <2>1, <2>2, <2>3
<1> QED
  BY <1>1, <1>2, <1>5, <1>6 DEF Without

\* What a status makes of the queue: it is last, and the others keep their
\* order.
LEMMA PushStatusProperties ==
  ASSUME queue \in Seq(Events), coalesced \in Nat,
         NEW e \in Events, PushStatus(e)
  PROVE  /\ queue' \in Seq(Events) /\ coalesced' \in Nat
         /\ Len(queue') + coalesced' = Len(queue) + coalesced + 1
         /\ Len(queue') >= 1 /\ queue'[Len(queue')] = e
         /\ \/ \E i \in Previous(e.uid) :
                 /\ Len(queue') = Len(queue)
                 /\ \A j \in 1..(Len(queue) - 1) :
                      queue'[j] = IF j < i THEN queue[j] ELSE queue[j + 1]
            \/ /\ Previous(e.uid) = {} /\ Len(queue') = Len(queue) + 1
               /\ \A j \in 1..Len(queue) : queue'[j] = queue[j]
<1>1. CASE Previous(e.uid) = {} /\ queue' = Append(queue, e) /\ UNCHANGED coalesced
  BY <1>1, AppendProperties, LenProperties
<1>2. ASSUME NEW i \in Previous(e.uid), queue' = Append(Without(i), e),
             coalesced' = coalesced + 1
      PROVE  /\ queue' \in Seq(Events) /\ coalesced' \in Nat
             /\ Len(queue') = Len(queue)
             /\ Len(queue') >= 1 /\ queue'[Len(queue')] = e
             /\ \A j \in 1..(Len(queue) - 1) :
                  queue'[j] = IF j < i THEN queue[j] ELSE queue[j + 1]
  <2>1. i \in DOMAIN queue
    BY DEF Previous
  <2>2. Len(queue) \in Nat \ {0}
    BY <2>1, LenProperties
  <2> QED
    BY <1>2, <2>1, <2>2, WithoutProperties, AppendProperties
<1> QED
  BY <1>1, <1>2, LenProperties DEF PushStatus

\* Every entry but the new one was there before.
LEMMA PushStatusEntries ==
  ASSUME queue \in Seq(Events), coalesced \in Nat,
         NEW e \in Events, PushStatus(e), NEW j \in DOMAIN queue'
  PROVE  queue'[j] = e \/ \E k \in DOMAIN queue : queue'[j] = queue[k]
<1>1. /\ queue' \in Seq(Events) /\ Len(queue) \in Nat /\ Len(queue') \in Nat
      /\ DOMAIN queue = 1..Len(queue) /\ DOMAIN queue' = 1..Len(queue')
  BY PushStatusProperties, LenProperties
<1>2. CASE j = Len(queue')
  BY <1>2, PushStatusProperties
<1>3. CASE j # Len(queue')
  <2>1. j \in 1..(Len(queue') - 1)
    BY <1>1, <1>3
  <2>2. CASE Previous(e.uid) = {} /\ Len(queue') = Len(queue) + 1
               /\ \A k \in 1..Len(queue) : queue'[k] = queue[k]
    BY <2>1, <2>2, <1>1
  <2>3. CASE \E i \in Previous(e.uid) :
               /\ Len(queue') = Len(queue)
               /\ \A k \in 1..(Len(queue) - 1) :
                    queue'[k] = IF k < i THEN queue[k] ELSE queue[k + 1]
    <3>1. queue'[j] = queue[j] \/ queue'[j] = queue[j + 1]
      BY <2>1, <2>3
    <3>2. j \in DOMAIN queue /\ j + 1 \in DOMAIN queue
      BY <2>1, <2>3, <1>1
    <3> QED
      BY <3>1, <3>2
  <2> QED
    BY <2>2, <2>3, PushStatusProperties
<1> QED
  BY <1>2, <1>3

\* The same for any event.
LEMMA EnqueueProperties ==
  ASSUME queue \in Seq(Events), coalesced \in Nat, received \in Nat,
         NEW e \in Events, Enqueue(e)
  PROVE  /\ queue' \in Seq(Events) /\ coalesced' \in Nat /\ received' \in Nat
         /\ received' - Len(queue') - coalesced' = received - Len(queue) - coalesced
         /\ \A j \in DOMAIN queue' : queue'[j] = e \/ \E k \in DOMAIN queue : queue'[j] = queue[k]
<1>1. CASE ~running /\ UNCHANGED <<queue, received, coalesced>>
  BY <1>1, LenProperties
<1>2. CASE running /\ received' = received + 1 /\ IsReset(e) /\ PushReset(e)
  <2>1. queue' = <<e>> /\ coalesced' = coalesced + Len(queue)
    BY <1>2 DEF PushReset
  <2> QED
    BY <1>2, <2>1, LenProperties
<1>3. CASE running /\ received' = received + 1 /\ ~IsReset(e) /\ PushStatus(e)
  <2>1. /\ queue' \in Seq(Events) /\ coalesced' \in Nat
        /\ Len(queue') + coalesced' = Len(queue) + coalesced + 1
        /\ Len(queue) \in Nat /\ Len(queue') \in Nat
        /\ DOMAIN queue = 1..Len(queue) /\ DOMAIN queue' = 1..Len(queue')
    BY <1>3, PushStatusProperties, LenProperties
  <2>2. \A j \in DOMAIN queue' : queue'[j] = e \/ \E k \in DOMAIN queue : queue'[j] = queue[k]
    BY <1>3, PushStatusEntries
  <2> QED
    BY <1>3, <2>1, <2>2
<1> QED
  BY <1>1, <1>2, <1>3 DEF Enqueue

-----------------------------------------------------------------------------
(* Types *)

LEMMA EventProperties ==
  /\ \A t \in 1..MaxTrees : Reset(t) \in Events /\ Reset(t).tree = t /\ IsReset(Reset(t))
  /\ \A t \in 1..MaxTrees, u \in Uids, s \in Statuses :
       LET e == Status(t, u, s)
       IN  e \in Events /\ IsStatus(e) /\ e.tree = t /\ e.uid = u /\ e.status = s
  /\ \A e \in Events :
       /\ e.tree \in 1..MaxTrees
       /\ IsReset(e) \/ IsStatus(e)
       /\ IsReset(e) => ~IsStatus(e)
       /\ IsStatus(e) => e.uid \in Uids /\ e.status \in Statuses /\ Mark(e) \in Marks
                         /\ Mark(e).tree = e.tree
  /\ ~IsReset(Notice) /\ ~IsStatus(Notice)
BY DEF Events, ResetEvents, StatusEvents, Reset, Status, IsReset, IsStatus, Mark, Marks, Notice

\* No tree is known before it has been created.
TreesKnown ==
  /\ tree <= created /\ truthTree <= created
  /\ \A i \in DOMAIN queue : queue[i].tree <= created
  /\ current \in Events => current.tree <= created

\* The worker is started only where there is none.
Joined == control = "spawn" => worker = "none"

TypeInv == TypeOK /\ TreesKnown /\ Joined

LEMMA InitTypeInv == Init => TypeInv
<1> SUFFICES ASSUME Init PROVE TypeInv
  OBVIOUS
<1> USE BoundsAssumption, NoEventAssumption DEF Init
<1>1. TypeOK
  <2>1. queue \in Seq(Events) /\ 0 \in TreeIds
    BY DEF TreeIds
  <2>2. Blank \in [Uids -> Marks]
    BY DEF Blank, Marks
  <2>3. EmptyView \in Views
    BY <2>1, <2>2 DEF EmptyView, Views
  <2> QED
    BY <2>1, <2>2, <2>3 DEF TypeOK
<1>2. TreesKnown
  BY DEF TreesKnown
<1>3. Joined
  BY DEF Joined
<1> QED
  BY <1>1, <1>2, <1>3 DEF TypeInv

\* The bound on the trees does not let their number out of its range.
LEMMA WithinProperties ==
  ASSUME NEW n \in Nat, NEW m \in Nat, Within(n, m, Opened)
  PROVE  n \in TreeIds
<1>1. Opened \in Nat
  BY ViewersAssumption, FS_Subset, FS_CardinalityType DEF Opened
<1> QED
  BY <1>1, BoundsAssumption DEF Within, TreeIds

\* What a message does to a page keeps its type.
LEMMA ShownProperties ==
  ASSUME NEW p \in Views, NEW e \in Events \cup {Notice}
  PROVE  Shown(p, e) \in Views
<1>1. p.tree \in TreeIds /\ p.status \in [Uids -> Marks]
  BY DEF Views
<1>2. CASE IsReset(e)
  <2>1. e.tree \in TreeIds
    BY <1>2, EventProperties, BoundsAssumption DEF TreeIds
  <2> QED
    BY <1>2, <2>1 DEF Shown, Views
<1>3. CASE IsStatus(e)
  <2>1. e \in Events /\ ~IsReset(e) /\ e.uid \in Uids /\ Mark(e) \in Marks
    BY <1>3, EventProperties
  <2>2. Shown(p, e) = [p EXCEPT !.status[e.uid] = Mark(e)]
    BY <1>3, <2>1 DEF Shown
  <2>3. [p.status EXCEPT ![e.uid] = Mark(e)] \in [Uids -> Marks]
    BY <1>1, <2>1
  <2> QED
    BY <2>2, <2>3 DEF Views
<1>4. CASE ~IsReset(e) /\ ~IsStatus(e)
  BY <1>4 DEF Shown
<1> QED
  BY <1>2, <1>3, <1>4

LEMMA SendProperties ==
  ASSUME TypeOK, NEW v \in Viewers, NEW e \in Events \cup {Notice}, Send(v, e)
  PROVE  page' \in [Viewers -> Views] /\ viewers' \subseteq viewers
<1>1. page \in [Viewers -> Views]
  BY DEF TypeOK
<1>2. Shown(page[v], e) \in Views
  BY <1>1, ShownProperties
<1> QED
  BY <1>1, <1>2 DEF Send

LEMMA NextTypeInv == TypeInv /\ [Next]_vars => TypeInv'
<1> SUFFICES ASSUME TypeInv, [Next]_vars PROVE TypeInv'
  OBVIOUS
<1> USE BoundsAssumption DEF TypeInv, TreesKnown, TreeIds, Joined
<1>t. TypeOK
  OBVIOUS
<1>1. CASE ControlStep
  <2> USE DEF life, work, cache, counts, truth, watch
  <2>1. CASE StartMonitor
    <3>1. Blank \in [Uids -> Marks]
      BY DEF Blank, Marks
    <3> QED
      BY <2>1, <3>1 DEF StartMonitor, TypeOK
  <2>2. CASE StartWorker
    BY <2>2 DEF StartWorker, TypeOK
  <2>3. CASE Connect \/ Disconnect \/ StopRunning
    BY <2>3 DEF Connect, Disconnect, StopRunning, TypeOK
  <2>4. CASE StopQueue
    <3>1. Len(queue) \in Nat
      BY LenProperties DEF TypeOK
    <3>2. queue' \in Seq(Events) /\ cleared' \in Nat /\ DOMAIN queue' = {}
      BY <2>4, <3>1 DEF StopQueue, TypeOK
    <3> QED
      BY <2>4, <3>2 DEF StopQueue, TypeOK
  <2>5. CASE StopViewers
    BY <2>5 DEF StopViewers, TypeOK
  <2>6. CASE StopState
    <3>1. Blank \in [Uids -> Marks]
      BY DEF Blank, Marks
    <3> QED
      BY <2>6, <3>1 DEF StopState, TypeOK
  <2> QED
    BY <1>1, <2>1, <2>2, <2>3, <2>4, <2>5, <2>6 DEF ControlStep
<1>2. CASE HostStop
  BY <1>2 DEF HostStop, TypeOK, work, cache, counts, truth, watch
<1>3. CASE TellTree
  <2> DEFINE e == Reset(created + 1)
  <2>1. created + 1 \in 1..MaxTrees
    BY <1>3, <1>t, WithinProperties DEF TellTree, TypeOK
  <2>2. e \in Events /\ e.tree = created + 1
    BY <2>1, EventProperties
  <2>3. /\ queue' \in Seq(Events) /\ coalesced' \in Nat /\ received' \in Nat
        /\ \A j \in DOMAIN queue' : queue'[j] = e \/ \E k \in DOMAIN queue : queue'[j] = queue[k]
    BY <1>3, <2>2, EnqueueProperties DEF TellTree, TypeOK
  <2>4. Blank \in [Uids -> Marks]
    BY DEF Blank, Marks
  <2>5. TypeOK'
    BY <1>3, <2>1, <2>3, <2>4 DEF TellTree, TypeOK, life, work, cache, watch
  <2>6. TreesKnown'
    <3>1. created' = created + 1 /\ truthTree' = created' /\ tree' = tree
          /\ current' = current /\ created \in Nat
      BY <1>3 DEF TellTree, TypeOK, work, cache
    <3>2. \A t \in Int : t <= created => t <= created'
      BY <3>1
    <3>3. \A k \in DOMAIN queue : queue[k] \in Events
      BY ElementOfSeq, LenProperties DEF TypeOK
    <3>4. \A k \in DOMAIN queue : queue[k].tree <= created'
      BY <3>2, <3>3, EventProperties
    <3>5. e.tree <= created'
      BY <2>2, <3>1
    <3>6. \A j \in DOMAIN queue' : queue'[j].tree <= created'
      BY <2>3, <3>4, <3>5
    <3>7. current \in Events => current.tree <= created'
      BY <3>2, EventProperties
    <3>8. tree' <= created' /\ truthTree' <= created'
      BY <3>1 DEF TypeOK
    <3> QED
      BY <3>1, <3>6, <3>7, <3>8
  <2> QED
    BY <1>3, <2>5, <2>6 DEF TellTree, life, work
<1>4. ASSUME NEW u \in Uids, NEW s \in Statuses, TellStatus(u, s) PROVE TypeInv'
  <2> DEFINE e == Status(truthTree, u, s)
  <2>1. truthTree \in 1..MaxTrees
    BY <1>4 DEF TellStatus, TypeOK
  <2>2. e \in Events /\ e.tree = truthTree /\ Mark(e) \in Marks
    BY <2>1, EventProperties
  <2>3. /\ queue' \in Seq(Events) /\ coalesced' \in Nat /\ received' \in Nat
        /\ \A j \in DOMAIN queue' : queue'[j] = e \/ \E k \in DOMAIN queue : queue'[j] = queue[k]
    BY <1>4, <2>2, EnqueueProperties DEF TellStatus, TypeOK
  <2>4. truthStatus' \in [Uids -> Marks]
    BY <1>4, <2>2 DEF TellStatus, TypeOK
  <2>5. TypeOK'
    BY <1>4, <2>3, <2>4 DEF TellStatus, TypeOK, life, work, cache, watch
  <2>6. TreesKnown'
    BY <1>4, <2>2, <2>3 DEF TellStatus, TypeOK, life, work, cache, watch
  <2> QED
    BY <1>4, <2>5, <2>6 DEF TellStatus, life, work
<1>5. CASE WorkerStep
  <2> USE DEF life, work, cache, counts, truth, watch
  <2>1. CASE WorkerWhile \/ WorkerLeave
    BY <2>1 DEF WorkerWhile, WorkerLeave, TypeOK
  <2>9. CASE WorkerExit
    BY <2>9 DEF WorkerExit, TypeOK
  <2>2. CASE WorkerPop
    <3>1. /\ Head(queue) \in Events /\ Head(queue) = queue[1] /\ 1 \in DOMAIN queue
          /\ Tail(queue) \in Seq(Events)
          /\ \A j \in DOMAIN Tail(queue) : \E k \in DOMAIN queue : Tail(queue)[j] = queue[k]
      <4>1. queue \in Seq(Events) /\ queue # <<>>
        BY <2>2 DEF WorkerPop, TypeOK
      <4>2. Len(queue) \in Nat \ {0}
        BY <4>1, EmptySeq, LenProperties
      <4>3. DOMAIN queue = 1..Len(queue)
        BY <4>1, LenProperties
      <4>4. Tail(queue) \in Seq(Events) /\ DOMAIN Tail(queue) = 1..(Len(queue) - 1)
        BY <4>1, HeadTailProperties, LenProperties
      <4>5. \A j \in 1..(Len(queue) - 1) : Tail(queue)[j] = queue[j + 1]
        BY <4>1, HeadTailProperties
      <4>6. \A j \in 1..(Len(queue) - 1) : j + 1 \in DOMAIN queue
        BY <4>2, <4>3
      <4>7. Head(queue) = queue[1] /\ Head(queue) \in Events
        BY <4>1, HeadTailProperties
      <4> QED
        BY <4>2, <4>3, <4>4, <4>5, <4>6, <4>7
    <3>2. TypeOK'
      BY <2>2, <3>1, NoEventAssumption DEF WorkerPop, TypeOK
    <3>3. TreesKnown' /\ Joined'
      BY <2>2, <3>1 DEF WorkerPop, TypeOK
    <3> QED
      BY <3>2, <3>3
  <2>3. CASE ApplyTree
    <3>1. Blank \in [Uids -> Marks]
      BY DEF Blank, Marks
    <3>2. current \in Events /\ current.tree \in 1..MaxTrees
      BY <2>3, EventProperties, NoEventAssumption DEF ApplyTree, TypeOK
    <3> QED
      BY <2>3, <3>1, <3>2 DEF ApplyTree, TypeOK
  <2>4. CASE ApplyTreeFails
    <3>1. current \in Events /\ current.tree \in 1..MaxTrees /\ Notice # NoEvent
      BY <2>4, EventProperties, NoEventAssumption DEF ApplyTreeFails, TypeOK
    <3>2. Notice \notin Events
      BY EventProperties
    <3>3. refused' \subseteq 1..created'
      <4>1. created \in Nat /\ current.tree \in 1..created
        BY <3>1 DEF TypeOK
      <4> QED
        BY <2>4, <4>1 DEF ApplyTreeFails, TypeOK
    <3>4. current' = Notice /\ worker' = "broadcast"
      BY <2>4 DEF ApplyTreeFails
    <3> QED
      BY <2>4, <3>1, <3>2, <3>3, <3>4 DEF ApplyTreeFails, TypeOK
  <2>5. CASE ApplyStatus
    <3>1. current \in Events /\ current.uid \in Uids /\ Mark(current) \in Marks
      BY <2>5, EventProperties, NoEventAssumption DEF ApplyStatus, TypeOK
    <3>2. status' \in [Uids -> Marks] /\ worker' \in {"count", "broadcast"}
      BY <2>5, <3>1 DEF ApplyStatus, TypeOK
    <3> QED
      BY <2>5, <3>2 DEF ApplyStatus, TypeOK
  <2>6. CASE BroadcastTargets
    BY <2>6 DEF BroadcastTargets, TypeOK
  <2>10. CASE BroadcastEnd
    BY <2>10 DEF BroadcastEnd, TypeOK
  <2>7. ASSUME NEW v \in Viewers, BroadcastSend(v) PROVE TypeInv'
    <3>1. current \in Events \cup {Notice}
      BY <2>7 DEF BroadcastSend, TypeOK
    <3>2. page' \in [Viewers -> Views] /\ viewers' \subseteq viewers
      BY <2>7, <3>1, <1>t, SendProperties DEF BroadcastSend
    <3> QED
      BY <2>7, <3>2 DEF BroadcastSend, TypeOK
  <2>8. CASE WorkerCount
    BY <2>8, NoEventAssumption DEF WorkerCount, TypeOK
  <2> QED
    BY <1>5, <2>1, <2>2, <2>3, <2>4, <2>5, <2>6, <2>7, <2>8, <2>9, <2>10 DEF WorkerStep
<1>6. ASSUME NEW v \in Viewers, WsStep(v) PROVE TypeInv'
  <2> USE DEF unwatched, life, work, cache, counts, truth
  <2>1. CASE WsOpen(v)
    BY <2>1 DEF WsOpen, TypeOK
  <2>7. CASE WsInsert(v)
    BY <2>7 DEF WsInsert, TypeOK
  <2>8. CASE WsMessage(v)
    BY <2>8 DEF WsMessage, TypeOK
  <2>9. CASE Leave(v)
    BY <2>9 DEF Leave, TypeOK
  <2>10. CASE WsClose(v)
    <3>1. session' \in [Viewers -> {"new", "open", "gone", "closed"}]
      BY <2>10 DEF WsClose, TypeOK
    <3> QED
      BY <2>10, <3>1 DEF WsClose, TypeOK
  <2>2. CASE WsReply(v)
    <3>1. page' \in [Viewers -> Views] /\ viewers' \subseteq viewers
      BY <2>2, <1>t, SendProperties DEF WsReply
    <3>2. handler' \in [Viewers -> {"none", "insert", "reply", "copy", "tree",
                                    "statuses"}]
      BY <2>2 DEF WsReply, TypeOK
    <3>3. viewers' \subseteq Viewers
      BY <3>1 DEF TypeOK
    <3> QED
      BY <2>2, <3>1, <3>2, <3>3 DEF WsReply, TypeOK
  <2>3. CASE SnapshotCopy(v)
    <3>1. snap' \in [Viewers -> Views]
      BY <2>3 DEF SnapshotCopy, TypeOK, Views
    <3> QED
      BY <2>3, <3>1 DEF SnapshotCopy, TypeOK
  <2>4. CASE SnapshotTree(v)
    <3>1. page' \in [Viewers -> Views] /\ viewers' \subseteq viewers
      <4>1. CASE snap[v].tree # 0 /\ Send(v, Reset(snap[v].tree))
        <5>1. snap[v].tree \in 1..MaxTrees
          BY <4>1 DEF TypeOK, Views
        <5> QED
          BY <4>1, <5>1, <1>t, SendProperties, EventProperties
      <4>2. CASE UNCHANGED <<viewers, page>>
        BY <4>2 DEF TypeOK
      <4> QED
        BY <4>1, <4>2, <2>4 DEF SnapshotTree
    <3>2. handler' \in [Viewers -> {"none", "insert", "reply", "copy", "tree",
                                    "statuses"}]
      BY <2>4 DEF SnapshotTree, TypeOK
    <3>3. viewers' \subseteq Viewers
      BY <3>1 DEF TypeOK
    <3> QED
      BY <2>4, <3>1, <3>2, <3>3 DEF SnapshotTree, TypeOK
  <2>5. ASSUME NEW u \in Uids, SnapshotStatus(v, u) PROVE TypeInv'
    <3> DEFINE mark == snap[v].status[u]
    <3>1. snap[v] \in Views /\ mark \in Marks /\ mark # NoStatus
      BY <2>5 DEF SnapshotStatus, TypeOK, Views
    <3>2. mark.tree \in 1..MaxTrees /\ mark.status \in Statuses
      BY <3>1 DEF Marks
    <3>3. Status(mark.tree, u, mark.status) \in Events
      BY <3>2, EventProperties
    <3>4. page' \in [Viewers -> Views] /\ viewers' \subseteq viewers
      BY <2>5, <3>3, <1>t, SendProperties DEF SnapshotStatus
    <3>5. [snap[v].status EXCEPT ![u] = NoStatus] \in [Uids -> Marks]
      BY <3>1 DEF Views, Marks
    <3>6. [snap[v] EXCEPT !.status[u] = NoStatus] \in Views
      BY <3>1, <3>5 DEF Views
    <3>7. snap' \in [Viewers -> Views]
      BY <2>5, <3>6 DEF SnapshotStatus, TypeOK
    <3> QED
      BY <2>5, <3>4, <3>7 DEF SnapshotStatus, TypeOK
  <2>6. CASE SnapshotEnd(v)
    <3>1. EmptyView \in Views
      BY DEF EmptyView, Views, Blank, Marks
    <3> QED
      BY <2>6, <3>1 DEF SnapshotEnd, TypeOK
  <2> QED
    BY <1>6, <2>1, <2>2, <2>3, <2>4, <2>5, <2>6, <2>7, <2>8, <2>9, <2>10 DEF WsStep
<1>7. CASE UNCHANGED vars
  BY <1>7 DEF vars, TypeOK, life, work, cache, counts, truth, watch
<1> QED
  BY <1>1, <1>2, <1>3, <1>4, <1>5, <1>6, <1>7 DEF Next

\* The state of the monitor keeps its types for any nodes and sessions, and
\* the worker has an event in hand exactly where the code has popped one.
THEOREM TypeCorrect == Spec => []TypeOK
<1>1. TypeInv => TypeOK
  BY DEF TypeInv
<1> QED
  BY <1>1, InitTypeInv, NextTypeInv, PTL DEF Spec

-----------------------------------------------------------------------------
(* The shape of the queue *)

\* The steps that touch the queue.
LEMMA QueueChanges ==
  ASSUME [Next]_vars
  PROVE  \/ UNCHANGED queue
         \/ StopQueue \/ TellTree \/ WorkerPop
         \/ \E u \in Uids, s \in Statuses : TellStatus(u, s)
BY DEF Next, vars, ControlStep, StartMonitor, StartWorker, Connect, Disconnect,
       StopRunning, StopViewers, StopState, HostStop, WorkerStep, WorkerWhile,
       WorkerLeave, ApplyTree, ApplyTreeFails, ApplyStatus, BroadcastTargets,
       BroadcastSend, BroadcastEnd, WorkerCount, WorkerExit, WsStep, WsOpen,
       WsInsert, WsMessage, WsReply, SnapshotCopy, SnapshotTree, SnapshotStatus,
       SnapshotEnd, Leave, WsClose, unwatched

\* What is left when the worker has popped an event.
LEMMA PopProperties ==
  ASSUME queue \in Seq(Events), WorkerPop
  PROVE  /\ queue' \in Seq(Events) /\ Len(queue) \in Nat /\ Len(queue) >= 1
         /\ Len(queue') = Len(queue) - 1
         /\ current' = queue[1] /\ current' \in Events
         /\ \A j \in 1..Len(queue') : queue'[j] = queue[j + 1]
<1>1. queue # <<>> /\ queue' = Tail(queue) /\ current' = Head(queue)
  BY DEF WorkerPop
<1>2. Len(queue) \in Nat \ {0}
  BY <1>1, EmptySeq, LenProperties
<1> QED
  BY <1>1, <1>2, HeadTailProperties

LEMMA NextQueueShape == TypeInv /\ QueueShape /\ [Next]_vars => QueueShape'
<1> SUFFICES ASSUME TypeInv, QueueShape, [Next]_vars PROVE QueueShape'
  OBVIOUS
<1>t. /\ queue \in Seq(Events) /\ Len(queue) \in Nat /\ DOMAIN queue = 1..Len(queue)
      /\ coalesced \in Nat /\ \A j \in DOMAIN queue : queue[j] \in Events
  BY LenProperties, ElementOfSeq DEF TypeInv, TypeOK
<1>1. CASE UNCHANGED queue
  BY <1>1 DEF QueueShape
<1>2. CASE StopQueue
  BY <1>2 DEF StopQueue, QueueShape
<1>3. CASE WorkerPop
  <2>1. /\ DOMAIN queue' = 1..Len(queue') /\ Len(queue') = Len(queue) - 1
        /\ \A j \in 1..Len(queue') : queue'[j] = queue[j + 1]
    BY <1>3, <1>t, PopProperties, LenProperties
  <2>2. \A j \in DOMAIN queue' : j \in Int /\ j >= 1 /\ j + 1 \in DOMAIN queue
    BY <1>t, <2>1
  <2>3. ASSUME NEW i \in DOMAIN queue', IsReset(queue'[i]) PROVE i = 1
    <3>1. i + 1 = 1
      BY <2>1, <2>2, <2>3 DEF QueueShape
    <3> QED
      BY <2>2, <3>1
  <2>4. ASSUME NEW i \in DOMAIN queue', NEW j \in DOMAIN queue', IsStatus(queue'[i]),
               IsStatus(queue'[j]), queue'[i].uid = queue'[j].uid
        PROVE  i = j
    <3>1. i + 1 = j + 1
      BY <2>1, <2>2, <2>4 DEF QueueShape
    <3> QED
      BY <2>2, <3>1
  <2> QED
    BY <2>3, <2>4 DEF QueueShape
<1>4. CASE TellTree
  <2>1. CASE queue' = <<Reset(created + 1)>>
    BY <2>1 DEF QueueShape, IsReset, IsStatus, Reset
  <2> QED
    BY <1>1, <1>4, <2>1 DEF TellTree, Enqueue, PushReset, IsReset, Reset
<1>5. ASSUME NEW u \in Uids, NEW s \in Statuses, TellStatus(u, s) PROVE QueueShape'
  <2> DEFINE e == Status(truthTree, u, s)
  <2>1. truthTree \in 1..MaxTrees
    BY <1>5, BoundsAssumption DEF TellStatus, TypeInv, TypeOK, TreeIds
  <2>2. e \in Events /\ IsStatus(e) /\ ~IsReset(e) /\ e.uid = u
    BY <2>1, EventProperties
  <2>3. UNCHANGED queue \/ PushStatus(e)
    BY <1>5, <2>2 DEF TellStatus, Enqueue
  <2> HIDE DEF e
  <2>4. CASE PushStatus(e)
    <3>1. /\ Len(queue') >= 1 /\ queue'[Len(queue')] = e /\ Len(queue') \in Nat
          /\ DOMAIN queue' = 1..Len(queue')
      BY <2>2, <2>4, <1>t, PushStatusProperties, LenProperties
    <3>2. ASSUME NEW i \in Previous(u), Len(queue') = Len(queue),
                 \A j \in 1..(Len(queue) - 1) :
                   queue'[j] = IF j < i THEN queue[j] ELSE queue[j + 1]
          PROVE  QueueShape'
      <4>1. i \in DOMAIN queue /\ IsStatus(queue[i]) /\ queue[i].uid = u
        BY DEF Previous
      <4> DEFINE old(j) == IF j < i THEN j ELSE j + 1
      <4>2. \A j \in 1..(Len(queue) - 1) :
              old(j) \in DOMAIN queue /\ old(j) # i /\ queue'[j] = queue[old(j)]
        BY <1>t, <3>2, <4>1
      <4>3. \A j, k \in 1..(Len(queue) - 1) : old(j) = old(k) => j = k
        BY <1>t, <4>1
      <4>4. \A j \in 1..(Len(queue) - 1) : old(j) = 1 => j = 1
        BY <1>t, <4>1
      <4>5. \A j \in DOMAIN queue' : j = Len(queue') \/ j \in 1..(Len(queue) - 1)
        BY <3>1, <3>2
      <4> HIDE DEF old
      <4>6. ASSUME NEW j \in DOMAIN queue', IsReset(queue'[j]) PROVE j = 1
        BY <2>2, <3>1, <4>2, <4>4, <4>5, <4>6 DEF QueueShape
      <4>7. ASSUME NEW j \in 1..(Len(queue) - 1), IsStatus(queue'[j]) PROVE queue'[j].uid # u
        BY <4>1, <4>2, <4>7 DEF QueueShape
      <4>8. ASSUME NEW j \in DOMAIN queue', NEW k \in DOMAIN queue', IsStatus(queue'[j]),
                   IsStatus(queue'[k]), queue'[j].uid = queue'[k].uid
            PROVE  j = k
        <5>1. CASE j \in 1..(Len(queue) - 1) /\ k \in 1..(Len(queue) - 1)
          BY <4>2, <4>3, <4>8, <5>1 DEF QueueShape
        <5> QED
          BY <2>2, <3>1, <4>5, <4>7, <4>8, <5>1
      <4> QED
        BY <4>6, <4>8 DEF QueueShape
    <3>3. ASSUME Previous(u) = {}, Len(queue') = Len(queue) + 1,
                 \A j \in 1..Len(queue) : queue'[j] = queue[j]
          PROVE  QueueShape'
      <4>1. ASSUME NEW j \in DOMAIN queue, IsStatus(queue[j]) PROVE queue[j].uid # u
        <5> SUFFICES ASSUME queue[j].uid = u PROVE FALSE
          OBVIOUS
        <5>1. ASSUME NEW k \in DOMAIN queue, k > j
              PROVE  IsStatus(queue[k]) /\ queue[k].uid # u
          <6>1. ~IsReset(queue[k])
            BY <1>t, <5>1 DEF QueueShape
          <6>2. IsStatus(queue[k])
            BY <1>t, <6>1, EventProperties
          <6> QED
            BY <1>t, <4>1, <5>1, <6>2 DEF QueueShape
        <5>2. j \in Previous(u)
          BY <4>1, <5>1 DEF Previous
        <5> QED
          BY <3>3, <5>2
      <4>2. \A j \in DOMAIN queue' : j = Len(queue') \/ j \in DOMAIN queue
        BY <1>t, <3>1, <3>3
      <4>3. \A j \in DOMAIN queue : queue'[j] = queue[j]
        BY <1>t, <3>3
      <4>4. ASSUME NEW j \in DOMAIN queue', IsReset(queue'[j]) PROVE j = 1
        BY <2>2, <3>1, <4>2, <4>3, <4>4 DEF QueueShape
      <4>5. ASSUME NEW j \in DOMAIN queue', NEW k \in DOMAIN queue', IsStatus(queue'[j]),
                   IsStatus(queue'[k]), queue'[j].uid = queue'[k].uid
            PROVE  j = k
        BY <2>2, <3>1, <4>1, <4>2, <4>3, <4>5 DEF QueueShape
      <4> QED
        BY <4>4, <4>5 DEF QueueShape
    <3> QED
      BY <2>2, <2>4, <1>t, <3>2, <3>3, PushStatusProperties
  <2> QED
    BY <1>1, <2>3, <2>4
<1> QED
  BY <1>1, <1>2, <1>3, <1>4, <1>5, QueueChanges

\* However slow the worker is, the queue holds at most one reset, at its head,
\* and one status per node.
THEOREM QueueShapeCorrect == Spec => []QueueShape
<1>1. Init => QueueShape
  BY DEF Init, QueueShape
<1>2. QueueShape /\ TypeInv /\ [Next]_vars => QueueShape' /\ TypeInv'
  BY NextTypeInv, NextQueueShape
<1> QED
  BY <1>1, <1>2, InitTypeInv, PTL DEF Spec

-----------------------------------------------------------------------------
(* The health counters *)

\* A step that neither moves an event nor counts one.
Idle ==
  /\ UNCHANGED <<queue, received, coalesced, processed, cleared>>
  /\ InHand' = InHand

LEMMA AccountingChanges ==
  ASSUME TypeInv, [Next]_vars
  PROVE  \/ Idle
         \/ StopQueue \/ TellTree \/ WorkerPop \/ WorkerCount
         \/ \E u \in Uids, s \in Statuses : TellStatus(u, s)
<1> USE DEF Idle, InHand, life, work, cache, counts, truth, watch, unwatched
<1>1. ControlStep => Idle \/ StopQueue
  BY DEF TypeInv, Joined, ControlStep, StartMonitor, StartWorker, Connect, Disconnect,
         StopRunning, StopViewers, StopState
<1>2. HostStop => Idle
  BY DEF HostStop
<1>3. WorkerStep => Idle \/ WorkerPop \/ WorkerCount
  BY DEF WorkerStep, WorkerWhile, WorkerLeave, ApplyTree, ApplyTreeFails, ApplyStatus,
         BroadcastTargets, BroadcastSend, BroadcastEnd, WorkerExit
<1>4. ASSUME NEW v \in Viewers, WsStep(v) PROVE Idle
  BY <1>4 DEF WsStep, WsOpen, WsInsert, WsMessage, WsReply, SnapshotCopy, SnapshotTree,
              SnapshotStatus, SnapshotEnd, Leave, WsClose
<1>5. UNCHANGED vars => Idle
  BY DEF vars
<1> QED
  BY <1>1, <1>2, <1>3, <1>4, <1>5 DEF Next

LEMMA NextAccounting == TypeInv /\ Accounting /\ [Next]_vars => Accounting'
<1> SUFFICES ASSUME TypeInv, Accounting, [Next]_vars PROVE Accounting'
  OBVIOUS
<1>t. /\ queue \in Seq(Events) /\ Len(queue) \in Nat /\ received \in Nat
      /\ coalesced \in Nat /\ processed \in Nat /\ cleared \in Nat
      /\ received' \in Nat /\ coalesced' \in Nat /\ Len(queue') \in Nat
      /\ InHand \in {0, 1}
  BY NextTypeInv, LenProperties DEF TypeInv, TypeOK, InHand
<1>1. CASE Idle
  BY <1>1 DEF Idle, Accounting
<1>2. CASE StopQueue
  <2>1. Len(queue') = 0 /\ InHand' = InHand /\ cleared' = cleared + Len(queue)
        /\ UNCHANGED <<received, coalesced, processed>>
    BY <1>2 DEF StopQueue, InHand, work
  <2> QED
    BY <1>t, <2>1 DEF Accounting
<1>3. CASE WorkerPop
  <2>1. Len(queue') = Len(queue) - 1
    BY <1>3, <1>t, PopProperties
  <2>2. InHand = 0 /\ InHand' = 1 /\ UNCHANGED <<received, coalesced, processed, cleared>>
    BY <1>3 DEF WorkerPop, InHand, counts
  <2> QED
    BY <1>t, <2>1, <2>2 DEF Accounting
<1>4. CASE WorkerCount
  <2>1. InHand = 1 /\ InHand' = 0 /\ processed' = processed + 1
        /\ UNCHANGED <<queue, received, coalesced, cleared>>
    BY <1>4 DEF WorkerCount, InHand, counts
  <2> QED
    BY <1>t, <2>1 DEF Accounting
<1>5. ASSUME NEW e \in Events, Enqueue(e), UNCHANGED <<work, cleared>> PROVE Accounting'
  <2>1. received' - Len(queue') - coalesced' = received - Len(queue) - coalesced
    BY <1>5, <1>t, EnqueueProperties
  <2>2. InHand' = InHand /\ processed' = processed /\ cleared' = cleared
    BY <1>5 DEF InHand, work
  <2>3. received = Len(queue) + InHand + coalesced + processed + cleared
    BY DEF Accounting
  <2>5. InHand \in Int
    BY <1>t
  <2>a. received \in Int /\ Len(queue) \in Int /\ coalesced \in Int /\ received' \in Int
        /\ Len(queue') \in Int /\ coalesced' \in Int /\ processed \in Int /\ cleared \in Int
    BY <1>t
  <2>6. received' = Len(queue') + InHand + coalesced' + processed + cleared
    BY <2>a, <2>1, <2>3, <2>5
  <2> QED
    BY <2>2, <2>6 DEF Accounting
<1>6. CASE TellTree
  <2>1. created + 1 \in 1..MaxTrees
    BY <1>6, WithinProperties DEF TellTree, TypeInv, TypeOK, TreeIds
  <2> QED
    BY <1>5, <1>6, <2>1, EventProperties DEF TellTree
<1>7. ASSUME NEW u \in Uids, NEW s \in Statuses, TellStatus(u, s) PROVE Accounting'
  <2>1. truthTree \in 1..MaxTrees
    BY <1>7, BoundsAssumption DEF TellStatus, TypeInv, TypeOK, TreeIds
  <2> QED
    BY <1>5, <1>7, <2>1, EventProperties DEF TellStatus
<1> QED
  BY <1>1, <1>2, <1>3, <1>4, <1>6, <1>7, AccountingChanges

\* No event is lost from the counters or counted twice, whatever the tick
\* thread, the worker and stop() do to the queue at the same time.
THEOREM AccountingCorrect == Spec => []Accounting
<1>1. Init => Accounting
  BY DEF Init, Accounting, InHand
<1>2. Accounting /\ TypeInv /\ [Next]_vars => Accounting' /\ TypeInv'
  BY NextTypeInv, NextAccounting
<1> QED
  BY <1>1, <1>2, InitTypeInv, PTL DEF Spec

-----------------------------------------------------------------------------
(* The sessions *)

\* Whoever is sent to, or has a handler running, has been opened and not
\* reported closed.
Attended(v) == v \in viewers \/ handler[v] # "none" => session[v] \in {"open", "gone"}
SessionInv == \A v \in Viewers : Attended(v)

LEMMA NextSessionInv == TypeInv /\ SessionInv /\ [Next]_vars => SessionInv'
<1> SUFFICES ASSUME TypeInv, SessionInv, [Next]_vars, NEW v \in Viewers PROVE Attended(v)'
  BY DEF SessionInv
<1> USE DEF Attended, SessionInv, life, work, cache, counts, truth, watch, unwatched
<1>t. TypeOK /\ session \in [Viewers -> {"new", "open", "gone", "closed"}]
      /\ handler \in [Viewers -> {"none", "insert", "reply", "copy", "tree", "statuses"}]
  BY DEF TypeInv, TypeOK
<1>1. CASE viewers' \subseteq viewers /\ UNCHANGED <<session, handler>>
  BY <1>1
<1>2. CASE ControlStep
  <2>1. viewers' \subseteq viewers /\ UNCHANGED <<session, handler>>
    BY <1>2 DEF ControlStep, StartMonitor, StartWorker, Connect, Disconnect, StopRunning,
                StopQueue, StopViewers, StopState
  <2> QED
    BY <1>1, <2>1
<1>3. CASE HostStop \/ TellTree \/ (\E u \in Uids, s \in Statuses : TellStatus(u, s))
             \/ UNCHANGED vars
  <2>1. UNCHANGED <<viewers, session, handler>>
    BY <1>3 DEF HostStop, TellTree, TellStatus, vars
  <2> QED
    BY <1>1, <2>1
<1>4. CASE WorkerStep
  <2>1. ASSUME NEW w \in Viewers, BroadcastSend(w) PROVE viewers' \subseteq viewers
    BY <2>1 DEF BroadcastSend, Send
  <2>2. viewers' \subseteq viewers /\ UNCHANGED <<session, handler>>
    BY <1>4, <2>1 DEF WorkerStep, WorkerWhile, WorkerLeave, WorkerPop, ApplyTree,
                      ApplyTreeFails, ApplyStatus, BroadcastTargets, BroadcastSend,
                      BroadcastEnd, WorkerCount, WorkerExit
  <2> QED
    BY <1>1, <2>2
<1>5. ASSUME NEW w \in Viewers, WsStep(w) PROVE Attended(v)'
  <2>1. CASE WsOpen(w) \/ WsInsert(w) \/ WsMessage(w) \/ Leave(w)
    BY <1>t, <2>1 DEF WsOpen, WsInsert, WsMessage, Leave
  <2>2. CASE WsReply(w) \/ SnapshotTree(w) \/ SnapshotCopy(w) \/ SnapshotEnd(w)
              \/ \E u \in Uids : SnapshotStatus(w, u)
    <3>1. viewers' \subseteq viewers /\ session' = session
          /\ (handler'[v] # "none" => handler[v] # "none")
      BY <1>t, <2>2 DEF WsReply, SnapshotTree, SnapshotCopy, SnapshotEnd, SnapshotStatus,
                        Send
    <3> QED
      BY <3>1
  <2>3. CASE WsClose(w)
    BY <1>t, <2>3 DEF WsClose
  <2> QED
    BY <1>5, <2>1, <2>2, <2>3 DEF WsStep
<1> QED
  BY <1>2, <1>3, <1>4, <1>5 DEF Next

\* A session the Host has reported closed is in no later broadcast: neither an
\* open handler nor a send that runs at the same time puts it back.
THEOREM SessionsForgotten == Spec => []ClosedSessionsForgotten
<1>1. Init => SessionInv
  BY DEF Init, SessionInv, Attended
<1>2. SessionInv /\ TypeInv => ClosedSessionsForgotten
  BY DEF SessionInv, Attended, TypeInv, TypeOK, ClosedSessionsForgotten
<1>3. SessionInv /\ TypeInv /\ [Next]_vars => SessionInv' /\ TypeInv'
  BY NextTypeInv, NextSessionInv
<1> QED
  BY <1>1, <1>2, <1>3, InitTypeInv, PTL DEF Spec

-----------------------------------------------------------------------------
(* The statuses in the cache *)

ResetQueued == queue # <<>> /\ IsReset(queue[1])
ResetInHand == worker = "apply" /\ IsReset(current)

\* x may colour the cached tree.
Fits(x) == tree # 0 => x = tree \/ (x > tree /\ x \in refused)

\* x is the tree the next status to enter the cache will be about.
Follows(x) ==
  IF ResetQueued THEN x = queue[1].tree
  ELSE IF ResetInHand THEN x = current.tree
  ELSE Fits(x)

Stopped == control \in {"stop_queue", "stop_viewers", "stop_state", "down"} => ~running
ResetsAscend ==
  /\ ResetQueued => queue[1].tree > tree
  /\ ResetQueued /\ ResetInHand => queue[1].tree > current.tree
  /\ ResetInHand => current.tree > tree
HandFits == worker = "apply" /\ IsStatus(current) => Fits(current.tree)
QueueFollows == \A j \in DOMAIN queue : Follows(queue[j].tree)
TruthFollows == running /\ truthTree # 0 => Follows(truthTree)
CacheFits == \A u \in Uids : status[u] # NoStatus => Fits(status[u].tree)

OrderInv ==
  Stopped /\ ResetsAscend /\ HandFits /\ QueueFollows /\ TruthFollows /\ CacheFits

\* A status leaves the reset at the head of the queue where it is.
LEMMA PushStatusReset ==
  ASSUME queue \in Seq(Events), coalesced \in Nat, QueueShape,
         NEW e \in Events, IsStatus(e), PushStatus(e)
  PROVE  ResetQueued' = ResetQueued /\ (ResetQueued => queue'[1] = queue[1])
<1>t. /\ Len(queue) \in Nat /\ DOMAIN queue = 1..Len(queue) /\ queue' \in Seq(Events)
      /\ \A j \in DOMAIN queue : queue[j] \in Events
      /\ Len(queue') >= 1 /\ Len(queue') \in Nat /\ DOMAIN queue' = 1..Len(queue')
      /\ queue'[Len(queue')] = e /\ ~IsReset(e)
  BY PushStatusProperties, LenProperties, ElementOfSeq, EventProperties
<1>1. ResetQueued => ResetQueued' /\ queue'[1] = queue[1]
  <2> SUFFICES ASSUME ResetQueued PROVE ResetQueued' /\ queue'[1] = queue[1]
    OBVIOUS
  <2>1. Len(queue) >= 1 /\ IsReset(queue[1]) /\ ~IsStatus(queue[1])
    <3>1. Len(queue) # 0
      BY <1>t, EmptySeq DEF ResetQueued
    <3> QED
      BY <1>t, <3>1, EventProperties DEF ResetQueued
  <2>2. ASSUME NEW i \in Previous(e.uid), Len(queue') = Len(queue),
               \A j \in 1..(Len(queue) - 1) :
                 queue'[j] = IF j < i THEN queue[j] ELSE queue[j + 1]
        PROVE  queue'[1] = queue[1]
    <3>1. i \in 1..Len(queue) /\ i # 1
      BY <1>t, <2>1 DEF Previous
    <3> QED
      BY <1>t, <2>2, <3>1
  <2>3. ASSUME \A j \in 1..Len(queue) : queue'[j] = queue[j] PROVE queue'[1] = queue[1]
    BY <1>t, <2>1, <2>3
  <2>4. queue'[1] = queue[1]
    BY <1>t, <2>2, <2>3, PushStatusProperties
  <2>5. queue' # <<>>
    BY <1>t
  <2> QED
    BY <2>1, <2>4, <2>5 DEF ResetQueued
<1>2. ResetQueued' => ResetQueued
  <2> SUFFICES ASSUME ResetQueued' PROVE ResetQueued
    OBVIOUS
  <2>1. IsReset(queue'[1]) /\ 1 \in DOMAIN queue'
    BY <1>t DEF ResetQueued
  <2>2. PICK k \in DOMAIN queue : queue'[1] = queue[k]
    BY <1>t, <2>1, PushStatusEntries
  <2>3. k = 1
    BY <2>1, <2>2 DEF QueueShape
  <2>4. queue # <<>>
    BY <1>t, <2>2
  <2> QED
    BY <2>1, <2>2, <2>3, <2>4 DEF ResetQueued
<1> QED
  BY <1>1, <1>2 DEF ResetQueued

\* Steps that leave the events under way and the cache alone.
LEMMA OrderFrame ==
  ASSUME OrderInv, UNCHANGED <<queue, tree, status, refused>>,
         ResetInHand' = ResetInHand, ResetInHand => current' = current,
         worker' = "apply" => worker = "apply" /\ current' = current,
         Stopped', running' /\ truthTree' # 0 => running /\ truthTree' = truthTree
  PROVE  OrderInv'
<1>1. ResetQueued' = ResetQueued
  BY DEF ResetQueued
<1>2. \A x : Fits(x)' = Fits(x)
  BY DEF Fits
<1>3. \A x : Follows(x)' = Follows(x)
  BY <1>1, <1>2 DEF Follows
<1>4. ResetsAscend'
  BY <1>1 DEF OrderInv, ResetsAscend
<1>5. HandFits'
  BY <1>2 DEF OrderInv, HandFits
<1>6. QueueFollows' /\ TruthFollows'
  BY <1>3 DEF OrderInv, QueueFollows, TruthFollows
<1>7. CacheFits'
  BY <1>2 DEF OrderInv, CacheFits
<1> QED
  BY <1>4, <1>5, <1>6, <1>7 DEF OrderInv

\* An event of the newest tree keeps the order of those under way.
LEMMA OrderEnqueue ==
  ASSUME TypeInv, QueueShape, OrderInv, NEW e \in Events, Enqueue(e),
         UNCHANGED <<work, cache, control, running>>,
         truthTree' = e.tree,
         IsReset(e) => e.tree = created + 1,
         IsStatus(e) => e.tree = truthTree /\ truthTree # 0
  PROVE  OrderInv'
<1> USE DEF work, cache
<1>t. /\ queue \in Seq(Events) /\ Len(queue) \in Nat /\ DOMAIN queue = 1..Len(queue)
      /\ coalesced \in Nat /\ \A j \in DOMAIN queue : queue[j] \in Events
      /\ tree \in Int /\ created \in Int /\ \A f \in Events : f.tree \in Int
      /\ tree <= created /\ (current \in Events => current.tree <= created)
      /\ current \in Events \cup {Notice, NoEvent} /\ running \in BOOLEAN
      /\ (worker = "apply" => current # NoEvent)
  <2>1. current # NoEvent \/ worker # "apply"
    BY DEF TypeInv, TypeOK
  <2> QED
    BY <2>1, LenProperties, ElementOfSeq, EventProperties
       DEF TypeInv, TypeOK, TreesKnown, TreeIds
<1>u. ResetInHand' = ResetInHand /\ (\A x : Fits(x)' = Fits(x)) /\ Stopped' /\ HandFits'
      /\ CacheFits'
  <2>1. ResetInHand' = ResetInHand /\ Stopped' /\ (\A x : Fits(x)' = Fits(x))
    BY DEF ResetInHand, Fits, Stopped, OrderInv
  <2> QED
    BY <2>1 DEF OrderInv, HandFits, CacheFits
<1>1. CASE ~running /\ UNCHANGED queue
  BY <1>1, OrderFrame, <1>u DEF OrderInv
<1>2. CASE running /\ IsReset(e) /\ queue' = <<e>>
  <2>1. ResetQueued' /\ queue'[1] = e /\ DOMAIN queue' = {1}
    BY <1>2 DEF ResetQueued
  <2>2. e.tree > tree
    BY <1>2, <1>t
  <2>3. ResetInHand => e.tree > current.tree
    <3>1. ResetInHand => current \in Events
      BY <1>t, EventProperties DEF ResetInHand
    <3> QED
      BY <1>2, <1>t, <3>1
  <2>4. ResetsAscend'
    <3>1. ResetInHand => current.tree > tree
      BY DEF OrderInv, ResetsAscend
    <3> QED
      BY <1>u, <2>1, <2>2, <2>3, <3>1 DEF ResetsAscend
  <2>5. QueueFollows' /\ TruthFollows'
    BY <2>1 DEF QueueFollows, TruthFollows, Follows
  <2> QED
    BY <1>u, <2>4, <2>5 DEF OrderInv
<1>3. CASE running /\ IsStatus(e) /\ ~IsReset(e) /\ PushStatus(e)
  <2>1. Len(queue') >= 1 /\ Len(queue') \in Nat /\ DOMAIN queue' = 1..Len(queue')
    BY <1>3, <1>t, PushStatusProperties, LenProperties
  <2>2. \A j \in DOMAIN queue' : queue'[j] = e \/ \E k \in DOMAIN queue : queue'[j] = queue[k]
    BY <1>t, EnqueueProperties DEF TypeInv, TypeOK
  <2>3. ResetQueued' = ResetQueued /\ (ResetQueued => queue'[1] = queue[1])
    BY <1>3, <1>t, PushStatusReset
  <2>5. \A x : Follows(x)' = Follows(x)
    <3>1. ResetInHand => current' = current
      OBVIOUS
    <3> QED
      BY <1>u, <2>3, <3>1 DEF Follows
  <2>6. Follows(e.tree)
    BY <1>3 DEF OrderInv, TruthFollows
  <2>7. QueueFollows'
    <3>1. \A j \in DOMAIN queue' : Follows(queue'[j].tree)
      BY <2>2, <2>6 DEF OrderInv, QueueFollows
    <3> QED
      BY <2>5, <3>1 DEF QueueFollows
  <2>8. TruthFollows'
    BY <2>5, <2>6 DEF TruthFollows
  <2>9. ResetsAscend'
    BY <1>u, <2>3 DEF OrderInv, ResetsAscend
  <2> QED
    BY <1>u, <2>7, <2>8, <2>9 DEF OrderInv
<1> QED
  BY <1>1, <1>2, <1>3, EventProperties DEF Enqueue, PushReset

LEMMA NextOrderInv == TypeInv /\ QueueShape /\ OrderInv /\ [Next]_vars => OrderInv'
<1> SUFFICES ASSUME TypeInv, QueueShape, OrderInv, [Next]_vars PROVE OrderInv'
  OBVIOUS
<1> USE DEF life, work, cache, counts, truth, watch, unwatched
<1>t. /\ queue \in Seq(Events) /\ Len(queue) \in Nat /\ DOMAIN queue = 1..Len(queue)
      /\ \A j \in DOMAIN queue : queue[j] \in Events
      /\ tree \in Int /\ \A f \in Events : f.tree \in Int
      /\ status \in [Uids -> Marks]
      /\ current \in Events \cup {Notice, NoEvent}
      /\ (worker = "apply" => current # NoEvent)
  <2>1. current # NoEvent \/ worker # "apply"
    BY DEF TypeInv, TypeOK
  <2> QED
    BY <2>1, LenProperties, ElementOfSeq, EventProperties DEF TypeInv, TypeOK, TreeIds
<1>s. Stopped
  BY DEF OrderInv
<1>1. ASSUME UNCHANGED <<queue, tree, status, refused, worker, current>>, Stopped',
             running' /\ truthTree' # 0 => running /\ truthTree' = truthTree
      PROVE  OrderInv'
  <2>1. ResetInHand' = ResetInHand
    BY <1>1 DEF ResetInHand
  <2> QED
    BY <1>1, <2>1, OrderFrame
<1>2. ASSUME UNCHANGED <<queue, tree, status, refused, control, truthTree>>,
             worker # "apply", worker' # "apply", running' => running
      PROVE  OrderInv'
  <2>1. ResetInHand' = ResetInHand /\ ~ResetInHand
    BY <1>2 DEF ResetInHand
  <2>2. Stopped'
    BY <1>2, <1>s DEF Stopped
  <2> QED
    BY <1>2, <2>1, <2>2, OrderFrame
<1>3. CASE StartMonitor \/ Connect \/ Disconnect \/ StopRunning \/ StopViewers
  BY <1>1, <1>3, <1>s DEF StartMonitor, Connect, Disconnect, StopRunning, StopViewers, Stopped
<1>4. CASE StartWorker
  <2>1. worker = "none" /\ worker' \in {"none", "while"} /\ Stopped'
    BY <1>4 DEF StartWorker, TypeInv, Joined, Stopped
  <2>2. ResetInHand' = ResetInHand /\ ~ResetInHand
    BY <2>1 DEF ResetInHand
  <2> QED
    BY <1>4, <2>1, <2>2, OrderFrame DEF StartWorker
<1>5. CASE StopQueue
  <2>1. ~running' /\ Stopped'
    BY <1>5, <1>s DEF StopQueue, Stopped
  <2>2. queue' = <<>> /\ ~ResetQueued' /\ DOMAIN queue' = {}
    BY <1>5 DEF StopQueue, ResetQueued
  <2>3. ResetInHand' = ResetInHand /\ \A x : Fits(x)' = Fits(x)
    BY <1>5 DEF StopQueue, ResetInHand, Fits
  <2>4. ResetsAscend' /\ HandFits' /\ CacheFits'
    BY <1>5, <2>2, <2>3 DEF StopQueue, OrderInv, ResetsAscend, HandFits, CacheFits
  <2> QED
    BY <2>1, <2>2, <2>4 DEF OrderInv, QueueFollows, TruthFollows
<1>6. CASE StopState
  <2>1. ~running' /\ Stopped'
    BY <1>6, <1>s DEF StopState, Stopped
  <2>2. \A x : Fits(x)'
    BY <1>6 DEF StopState, Fits
  <2>3. ResetInHand' = ResetInHand /\ ResetQueued' = ResetQueued
    BY <1>6 DEF StopState, ResetInHand, ResetQueued
  <2>4. HandFits' /\ CacheFits'
    BY <2>2 DEF HandFits, CacheFits
  <2>5. QueueFollows'
    BY <1>6, <2>2, <2>3 DEF StopState, OrderInv, QueueFollows, Follows
  <2>6. ResetsAscend'
    <3>1. ResetQueued => queue[1] \in Events
      <4>1. queue # <<>> => Len(queue) # 0
        BY <1>t, EmptySeq
      <4> QED
        BY <1>t, <4>1 DEF ResetQueued
    <3>2. ResetInHand => current \in Events
      BY <1>t, EventProperties DEF ResetInHand
    <3>3. \A f \in Events : f.tree > 0
      BY EventProperties
    <3> QED
      BY <1>6, <2>3, <3>1, <3>2, <3>3 DEF StopState, OrderInv, ResetsAscend
  <2> QED
    BY <2>1, <2>4, <2>5, <2>6 DEF OrderInv, TruthFollows
<1>7. CASE HostStop
  BY <1>1, <1>7, <1>s DEF HostStop, Stopped
<1>8. CASE TellTree
  <2>1. created + 1 \in 1..MaxTrees
    BY <1>8, WithinProperties DEF TellTree, TypeInv, TypeOK, TreeIds
  <2>2. LET e == Reset(created + 1)
        IN  e \in Events /\ e.tree = created + 1 /\ ~IsStatus(e)
    BY <2>1, EventProperties
  <2> QED
    BY <1>8, <2>2, OrderEnqueue DEF TellTree
<1>9. ASSUME NEW u \in Uids, NEW s \in Statuses, TellStatus(u, s) PROVE OrderInv'
  <2>1. truthTree \in 1..MaxTrees /\ truthTree # 0
    BY <1>9, BoundsAssumption DEF TellStatus, TypeInv, TypeOK, TreeIds
  <2>2. LET e == Status(truthTree, u, s)
        IN  e \in Events /\ e.tree = truthTree /\ ~IsReset(e)
    BY <2>1, EventProperties
  <2> QED
    BY <1>9, <2>1, <2>2, OrderEnqueue DEF TellStatus
<1>10. CASE WorkerWhile \/ WorkerLeave \/ BroadcastTargets \/ BroadcastEnd \/ WorkerCount
              \/ WorkerExit \/ \E v \in Viewers : BroadcastSend(v)
  BY <1>2, <1>10 DEF WorkerWhile, WorkerLeave, BroadcastTargets, BroadcastEnd, WorkerCount,
                     WorkerExit, BroadcastSend
<1>11. CASE WorkerPop
  <2>1. /\ Len(queue) >= 1 /\ Len(queue') = Len(queue) - 1 /\ queue' \in Seq(Events)
        /\ current' = queue[1] /\ current' \in Events
        /\ \A j \in 1..Len(queue') : queue'[j] = queue[j + 1]
    BY <1>11, <1>t, PopProperties
  <2>2. worker = "wait" /\ worker' = "apply" /\ queue # <<>>
        /\ UNCHANGED <<control, running, tree, status, refused, truthTree>>
    BY <1>11 DEF WorkerPop
  <2>3. \A j \in DOMAIN queue' : j + 1 \in DOMAIN queue /\ j + 1 # 1 /\ queue'[j] = queue[j + 1]
    BY <1>t, <2>1, LenProperties
  <2>4. ~ResetInHand /\ (ResetInHand' <=> ResetQueued)
    BY <2>1, <2>2 DEF ResetInHand, ResetQueued
  <2>5. ~ResetQueued'
    <3> SUFFICES ASSUME ResetQueued' PROVE FALSE
      OBVIOUS
    <3>1. 1 \in DOMAIN queue'
      <4>1. Len(queue') # 0 /\ Len(queue') \in Nat /\ DOMAIN queue' = 1..Len(queue')
        BY <2>1, EmptySeq, LenProperties DEF ResetQueued
      <4> QED
        BY <4>1
    <3>2. IsReset(queue[1 + 1]) /\ 1 + 1 \in DOMAIN queue /\ 1 + 1 # 1
      BY <2>3, <3>1 DEF ResetQueued
    <3> QED
      BY <3>2 DEF QueueShape
  <2>6. \A x : Fits(x)' = Fits(x)
    BY <2>2 DEF Fits
  <2>7. \A x : Follows(x)' = Follows(x)
    BY <2>1, <2>4, <2>5, <2>6 DEF Follows
  <2>8. ResetsAscend'
    BY <2>1, <2>2, <2>4, <2>5 DEF OrderInv, ResetsAscend
  <2>9. HandFits'
    <3>1. Follows(queue[1].tree)
      BY <1>t, <2>1 DEF OrderInv, QueueFollows
    <3>2. IsStatus(queue[1]) => ~ResetQueued
      BY <2>1, EventProperties DEF ResetQueued
    <3> QED
      BY <2>1, <2>4, <2>6, <3>1, <3>2 DEF HandFits, Follows
  <2>10. QueueFollows'
    BY <2>3, <2>7 DEF OrderInv, QueueFollows
  <2>11. TruthFollows' /\ CacheFits' /\ Stopped'
    BY <2>2, <2>6, <2>7, <1>s DEF OrderInv, TruthFollows, CacheFits, Stopped
  <2> QED
    BY <2>8, <2>9, <2>10, <2>11 DEF OrderInv
<1>12. ASSUME ResetInHand, worker' = "broadcast",
              UNCHANGED <<control, running, queue, truthTree>>,
              \/ tree' = current.tree /\ status' = Blank
              \/ UNCHANGED <<tree, status>> /\ refused' = refused \cup {current.tree}
       PROVE  OrderInv'
  <2>1. ~ResetInHand' /\ ResetQueued' = ResetQueued
    BY <1>12 DEF ResetInHand, ResetQueued
  <2>2. current.tree > tree /\ (ResetQueued => queue[1].tree > current.tree)
    BY <1>12 DEF OrderInv, ResetsAscend
  <2>3. \A x : x = current.tree => Fits(x)'
    BY <1>12, <2>2 DEF Fits
  <2>4. \A x : Follows(x) => Follows(x)'
    BY <1>12, <2>1, <2>3 DEF Follows
  <2>5. ResetsAscend'
    BY <1>12, <2>1, <2>2 DEF OrderInv, ResetsAscend
  <2>6. HandFits' /\ Stopped'
    BY <1>12, <1>s DEF HandFits, Stopped
  <2>7. QueueFollows' /\ TruthFollows'
    BY <1>12, <2>4 DEF OrderInv, QueueFollows, TruthFollows
  <2>8. CacheFits'
    <3>1. CASE status' = Blank
      BY <3>1 DEF CacheFits, Blank
    <3>2. CASE UNCHANGED <<tree, status>> /\ refused' = refused \cup {current.tree}
      BY <3>2 DEF OrderInv, CacheFits, Fits
    <3> QED
      BY <1>12, <3>1, <3>2
  <2> QED
    BY <2>5, <2>6, <2>7, <2>8 DEF OrderInv
<1>13. CASE ApplyTree \/ ApplyTreeFails
  BY <1>12, <1>13 DEF ApplyTree, ApplyTreeFails, ResetInHand
<1>14. CASE ApplyStatus
  <2>1. current \in Events /\ IsStatus(current) /\ ~IsReset(current) /\ current.uid \in Uids
        /\ Mark(current).tree = current.tree
    BY <1>14, <1>t, EventProperties DEF ApplyStatus
  <2>2. /\ UNCHANGED <<control, running, queue, truthTree, tree, refused, current>>
        /\ worker = "apply" /\ worker' # "apply"
        /\ status' = status \/ status' = [status EXCEPT ![current.uid] = Mark(current)]
    BY <1>14 DEF ApplyStatus
  <2>3. ~ResetInHand /\ ~ResetInHand' /\ ResetQueued' = ResetQueued
    BY <2>1, <2>2 DEF ResetInHand, ResetQueued
  <2>4. \A x : Fits(x)' = Fits(x)
    BY <2>2 DEF Fits
  <2>5. \A x : Follows(x)' = Follows(x)
    BY <2>2, <2>3, <2>4 DEF Follows
  <2>6. Fits(current.tree)
    BY <2>1, <2>2 DEF OrderInv, HandFits
  <2>7. CacheFits'
    BY <1>t, <2>1, <2>2, <2>4, <2>6 DEF OrderInv, CacheFits
  <2>8. ResetsAscend' /\ HandFits' /\ Stopped'
    BY <2>2, <2>3, <1>s DEF OrderInv, ResetsAscend, HandFits, Stopped
  <2>9. QueueFollows' /\ TruthFollows'
    BY <2>2, <2>5 DEF OrderInv, QueueFollows, TruthFollows
  <2> QED
    BY <2>7, <2>8, <2>9 DEF OrderInv
<1>15. ASSUME NEW v \in Viewers, WsStep(v) PROVE OrderInv'
  <2>1. UNCHANGED <<control, running, queue, worker, current, tree, status, refused, truthTree>>
    BY <1>15 DEF WsStep, WsOpen, WsInsert, WsMessage, WsReply, SnapshotCopy, SnapshotTree,
                 SnapshotStatus, SnapshotEnd, Leave, WsClose
  <2> QED
    BY <1>1, <2>1, <1>s DEF Stopped
<1>16. CASE UNCHANGED vars
  BY <1>1, <1>16, <1>s DEF vars, Stopped
<1> QED
  BY <1>3, <1>4, <1>5, <1>6, <1>7, <1>8, <1>9, <1>10, <1>11, <1>13, <1>14, <1>15, <1>16
     DEF Next, ControlStep, WorkerStep

\* Whatever the interleaving of resets, statuses, failed conversions, stops and
\* restarts, the snapshot mixes a tree only with the statuses of a newer one
\* that could not be converted, never with those of an older one.
THEOREM CacheCorrect == Spec => []CacheOwnStatuses
<1>1. Init => QueueShape /\ OrderInv
  BY DEF Init, QueueShape, OrderInv, Stopped, ResetsAscend, HandFits, QueueFollows,
         TruthFollows, CacheFits, ResetQueued, ResetInHand, Blank
<1>2. OrderInv => CacheOwnStatuses
  BY DEF OrderInv, CacheFits, Fits, CacheOwnStatuses
<1>3. /\ TypeInv /\ QueueShape /\ OrderInv /\ [Next]_vars
      => TypeInv' /\ QueueShape' /\ OrderInv'
  BY NextTypeInv, NextQueueShape, NextOrderInv
<1> QED
  BY <1>1, <1>2, <1>3, InitTypeInv, PTL DEF Spec

=============================================================================
