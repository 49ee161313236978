------------------------ MODULE MonitorDelivery_proofs ------------------------
(***************************************************************************)
(* Nothing that matters is lost on the way from BTManager to the cache of  *)
(* the monitor, and the broadcasts reach the viewers in the order of the   *)
(* trees, for any nodes, statuses, bounds and any finite set of sessions.  *)
(***************************************************************************)
EXTENDS BehaviorTreeMonitor_proofs

-----------------------------------------------------------------------------
(* Conflation *)

\* What the cache becomes, said without walking the events: the queue holds
\* at most one status of a node and a reset only at its head.
HandIs(u) == worker = "apply" /\ IsStatus(current) /\ current.uid = u
Queued(u) == {j \in DOMAIN queue : IsStatus(queue[j]) /\ queue[j].uid = u}
ComingTree ==
  IF ResetQueued THEN queue[1].tree
  ELSE IF ResetInHand THEN current.tree ELSE tree
Behind(u) ==
  IF ResetQueued THEN NoStatus
  ELSE IF HandIs(u) THEN current.status
  ELSE IF ResetInHand THEN NoStatus ELSE StatusOf(status[u])

\* Node u will have status s.
Coming(u, s) ==
  /\ \A j \in Queued(u) : queue[j].status = s
  /\ Queued(u) = {} => Behind(u) = s

ConflationInv ==
  running /\ truthTree \notin {0} \cup refused =>
    /\ ComingTree = truthTree
    /\ \A u \in Uids : Coming(u, StatusOf(truthStatus[u]))

\* The last element of a set of positions.
LEMMA LastOf ==
  ASSUME NEW S, S \subseteq Int, NEW m \in S, \A j \in S : j <= m
  PROVE  (CHOOSE i \in S : \A j \in S : j <= i) = m
<1>1. \A i \in S : (\A j \in S : j <= i) => i = m
  OBVIOUS
<1> QED
  BY <1>1

\* The event in hand comes before the queue.
Hands == IF worker = "apply" THEN 1 ELSE 0

LEMMA UnappliedProperties ==
  ASSUME TypeInv
  PROVE  /\ DOMAIN Unapplied = 1..(Len(queue) + Hands)
         /\ \A j \in 1..Len(queue) : Unapplied[j + Hands] = queue[j]
         /\ Hands = 1 => Unapplied[1] = current
         /\ Len(queue) \in Nat /\ DOMAIN queue = 1..Len(queue)
<1>1. queue \in Seq(Events) /\ Len(queue) \in Nat /\ DOMAIN queue = 1..Len(queue)
  BY LenProperties DEF TypeInv, TypeOK
<1>2. CASE worker # "apply"
  BY <1>1, <1>2 DEF Unapplied, Hands
<1>3. CASE worker = "apply"
  <2> DEFINE E == Events \cup {Notice}
  <2>1. current \in E
    BY <1>3 DEF TypeInv, TypeOK
  <2>2. <<current>> \in Seq(E) /\ Len(<<current>>) = 1 /\ <<current>>[1] = current
    BY <2>1
  <2>0. queue \in Seq(E)
    BY <1>1
  <2> HIDE DEF E
  <2>3. /\ Unapplied \in Seq(E) /\ Len(Unapplied) = 1 + Len(queue)
        /\ \A i \in 1..(1 + Len(queue)) :
             Unapplied[i] = IF i <= 1 THEN <<current>>[i] ELSE queue[i - 1]
    BY <1>1, <1>3, <2>0, <2>2, ConcatProperties DEF Unapplied
  <2>4. DOMAIN Unapplied = 1..(Len(queue) + 1)
    BY <1>1, <2>3, LenProperties
  <2> QED
    BY <1>1, <1>3, <2>2, <2>3, <2>4 DEF Hands
<1> QED
  BY <1>2, <1>3

\* Where the resets are.
LEMMA ResetsUnderWay ==
  ASSUME TypeInv, QueueShape
  PROVE  ResetsIn(Unapplied) = {j \in 1..(1 + Hands) : \/ j = 1 + Hands /\ ResetQueued
                                                       \/ j = 1 /\ Hands = 1 /\ ResetInHand}
<1> DEFINE R == {j \in 1..(1 + Hands) : \/ j = 1 + Hands /\ ResetQueued
                                        \/ j = 1 /\ Hands = 1 /\ ResetInHand}
<1>1. Hands \in {0, 1} /\ (ResetInHand <=> Hands = 1 /\ IsReset(current))
  BY DEF Hands, ResetInHand
<1>2. ResetQueued <=> Len(queue) >= 1 /\ IsReset(queue[1])
  <2>1. queue \in Seq(Events) /\ Len(queue) \in Nat /\ (queue # <<>> <=> Len(queue) # 0)
    BY EmptySeq, LenProperties DEF TypeInv, TypeOK
  <2> QED
    BY <2>1 DEF ResetQueued
<1>3. ASSUME NEW j \in ResetsIn(Unapplied) PROVE j \in R
  <2>1. j \in 1..(Len(queue) + Hands) /\ IsReset(Unapplied[j])
    BY UnappliedProperties DEF ResetsIn
  <2>2. CASE j > Hands
    <3>1. j - Hands \in 1..Len(queue) /\ Unapplied[(j - Hands) + Hands] = queue[j - Hands]
      BY <1>1, <2>1, <2>2, UnappliedProperties
    <3>2. IsReset(queue[j - Hands]) /\ j - Hands \in DOMAIN queue
      BY <1>1, <2>1, <3>1, UnappliedProperties
    <3>3. j - Hands = 1
      BY <3>2 DEF QueueShape
    <3> QED
      BY <1>1, <1>2, <2>1, <3>1, <3>2, <3>3, UnappliedProperties
  <2>3. CASE j <= Hands
    BY <1>1, <2>1, <2>3, UnappliedProperties
  <2> QED
    BY <1>1, <2>1, <2>2, <2>3
<1>4. ASSUME NEW j \in R PROVE j \in ResetsIn(Unapplied)
  <2>1. CASE j = 1 + Hands /\ ResetQueued
    BY <1>1, <1>2, <2>1, UnappliedProperties DEF ResetsIn
  <2>2. CASE j = 1 /\ Hands = 1 /\ ResetInHand
    BY <1>1, <2>2, UnappliedProperties DEF ResetsIn
  <2> QED
    BY <2>1, <2>2
<1> QED
  BY <1>3, <1>4

LEMMA ComingTreeCorrect ==
  ASSUME TypeInv, QueueShape
  PROVE  EventualTree(Unapplied) = ComingTree
<1> DEFINE R == ResetsIn(Unapplied)
<1>1. Hands \in {0, 1} /\ (ResetInHand => Hands = 1)
  BY DEF Hands, ResetInHand
<1>2. ResetQueued => 1 \in 1..Len(queue)
  <2>1. queue \in Seq(Events) /\ Len(queue) \in Nat /\ (queue # <<>> => Len(queue) # 0)
    BY EmptySeq, LenProperties DEF TypeInv, TypeOK
  <2> QED
    BY <2>1 DEF ResetQueued
<1>3. CASE ResetQueued
  <2>1. 1 + Hands \in R /\ R \subseteq Int /\ \A j \in R : j <= 1 + Hands
    BY <1>1, <1>3, ResetsUnderWay
  <2>2. (CHOOSE i \in R : \A j \in R : j <= i) = 1 + Hands
    BY <2>1, LastOf
  <2>3. Unapplied[1 + Hands] = queue[1]
    BY <1>2, <1>3, UnappliedProperties
  <2> QED
    BY <1>3, <2>1, <2>2, <2>3 DEF EventualTree, ComingTree
<1>4. CASE ~ResetQueued /\ ResetInHand
  <2>1. 1 \in R /\ R \subseteq Int /\ \A j \in R : j <= 1
    BY <1>1, <1>4, ResetsUnderWay
  <2>2. (CHOOSE i \in R : \A j \in R : j <= i) = 1
    BY <2>1, LastOf
  <2>3. Unapplied[1] = current
    BY <1>1, <1>4, UnappliedProperties
  <2> QED
    BY <1>4, <2>1, <2>2, <2>3 DEF EventualTree, ComingTree
<1>5. CASE ~ResetQueued /\ ~ResetInHand
  <2>1. R = {}
    BY <1>5, ResetsUnderWay
  <2> QED
    BY <1>5, <2>1 DEF EventualTree, ComingTree
<1> QED
  BY <1>3, <1>4, <1>5

LEMMA ComingCorrect ==
  ASSUME TypeInv, QueueShape, NEW u \in Uids, NEW s, Coming(u, s)
  PROVE  EventualStatus(Unapplied, u) = s
<1> DEFINE q == Unapplied
           R == ResetsIn(q)
           Since == {i \in StatusesIn(q, u) : \A j \in R : j < i}
<1>0. EventualStatus(q, u) =
        IF Since # {} THEN q[CHOOSE i \in Since : \A j \in Since : j <= i].status
        ELSE IF R = {} /\ status[u] # NoStatus THEN status[u].status ELSE NoStatus
  BY DEF EventualStatus
<1>1. Hands \in {0, 1} /\ (ResetInHand => Hands = 1) /\ (HandIs(u) => Hands = 1 /\ ~ResetInHand)
      /\ (Hands = 1 /\ ~HandIs(u) => ~(IsStatus(current) /\ current.uid = u))
      /\ Len(queue) \in Nat /\ DOMAIN queue = 1..Len(queue)
  BY UnappliedProperties DEF Hands, ResetInHand, HandIs, IsReset, IsStatus
<1>2. \A j \in R : j \in Int /\ (ResetQueued => j <= 1 + Hands)
                    /\ (~ResetQueued => j = 1 /\ Hands = 1 /\ ResetInHand)
  BY <1>1, ResetsUnderWay
<1>3. \A j \in 1..Len(queue) : IsStatus(queue[j]) /\ ResetQueued => j > 1
  BY <1>1 DEF ResetQueued, IsReset, IsStatus
<1>4. ASSUME NEW i \in Since
      PROVE  /\ i \in Int
             /\ i - Hands \in Queued(u) \/ (i = 1 /\ Hands = 1 /\ HandIs(u) /\ ~ResetQueued)
  <2>1. i \in 1..(Len(queue) + Hands) /\ IsStatus(q[i]) /\ q[i].uid = u
    BY UnappliedProperties DEF StatusesIn
  <2>2. CASE i > Hands
    <3>1. i - Hands \in 1..Len(queue) /\ q[(i - Hands) + Hands] = queue[i - Hands]
          /\ (i - Hands) + Hands = i
      BY <1>1, <2>1, <2>2, UnappliedProperties
    <3> QED
      BY <1>1, <2>1, <3>1 DEF Queued
  <2>3. CASE i <= Hands
    <3>1. i = 1 /\ Hands = 1 /\ q[1] = current
      BY <1>1, <2>1, <2>3, UnappliedProperties
    <3>2. ~ResetQueued
      <4> SUFFICES ASSUME ResetQueued PROVE FALSE
        OBVIOUS
      <4>1. 1 + Hands \in R
        BY <1>1, ResetsUnderWay
      <4> QED
        BY <1>1, <3>1, <4>1
    <3> QED
      BY <1>1, <2>1, <3>1, <3>2
  <2> QED
    BY <1>1, <2>1, <2>2, <2>3
<1>5. CASE Queued(u) # {}
  <2>1. PICK j \in Queued(u) : TRUE
    BY <1>5
  <2>2. j \in 1..Len(queue) /\ IsStatus(queue[j]) /\ queue[j].uid = u /\ queue[j].status = s
    BY <1>1, <2>1 DEF Queued, Coming
  <2>3. q[j + Hands] = queue[j]
    BY <2>2, UnappliedProperties
  <2>4. \A r \in R : r < j + Hands
    BY <1>1, <1>2, <1>3, <2>2
  <2>5. j + Hands \in Since
    BY <1>1, <2>2, <2>3, <2>4, UnappliedProperties DEF StatusesIn
  <2>6. \A k \in Queued(u) : k = j
    BY <1>1, <2>2 DEF Queued, QueueShape
  <2>7. \A i \in Since : i <= j + Hands
    <3> SUFFICES ASSUME NEW i \in Since PROVE i <= j + Hands
      OBVIOUS
    <3>1. CASE i - Hands \in Queued(u)
      BY <1>1, <1>4, <2>2, <2>6, <3>1
    <3>2. CASE i = 1
      BY <1>1, <2>2, <3>2
    <3> QED
      BY <1>4, <3>1, <3>2
  <2>8. (CHOOSE i \in Since : \A k \in Since : k <= i) = j + Hands
    <3>1. Since \subseteq Int
      BY <1>4
    <3> HIDE DEF Since
    <3> QED
      BY <2>5, <2>7, <3>1, LastOf
  <2> QED
    BY <1>0, <2>2, <2>3, <2>5, <2>8
<1>6. CASE Queued(u) = {} /\ ~ResetQueued /\ HandIs(u)
  <2>1. R = {}
    BY <1>1, <1>2, <1>6
  <2>2. 1 \in Since /\ q[1] = current
    BY <1>1, <1>6, <2>1, UnappliedProperties DEF StatusesIn, HandIs
  <2>3. \A i \in Since : i \in Int /\ i <= 1
    BY <1>4, <1>6
  <2>4. (CHOOSE i \in Since : \A k \in Since : k <= i) = 1
    <3> HIDE DEF Since
    <3> QED
      BY <2>2, <2>3, LastOf
  <2> QED
    BY <1>0, <1>6, <2>2, <2>4 DEF Coming, Behind
<1>7. CASE Queued(u) = {} /\ (ResetQueued \/ ~HandIs(u))
  <2>1. Since = {}
    BY <1>4, <1>7
  <2>2. R = {} <=> ~ResetQueued /\ ~ResetInHand
    <3>1. ResetQueued => 1 + Hands \in R
      BY <1>1, ResetsUnderWay
    <3>2. ResetInHand => 1 \in R
      BY <1>1, ResetsUnderWay
    <3> QED
      BY <1>2, <3>1, <3>2
  <2>3. CASE ResetQueued \/ ResetInHand
    BY <1>0, <1>7, <2>1, <2>2, <2>3 DEF Coming, Behind
  <2>4. CASE ~ResetQueued /\ ~ResetInHand
    BY <1>0, <1>7, <2>1, <2>2, <2>4 DEF Coming, Behind, StatusOf
  <2> QED
    BY <2>3, <2>4
<1> QED
  BY <1>5, <1>6, <1>7

\* Only the node's own entry is replaced.
LEMMA PushStatusKeeps ==
  ASSUME queue \in Seq(Events), coalesced \in Nat, NEW e \in Events, PushStatus(e),
         NEW w, w # e.uid
  PROVE  Queued(w)' = {} => Queued(w) = {}
<1>t. /\ Len(queue) \in Nat /\ DOMAIN queue = 1..Len(queue) /\ queue' \in Seq(Events)
      /\ Len(queue') \in Nat /\ DOMAIN queue' = 1..Len(queue')
  BY PushStatusProperties, LenProperties
<1> SUFFICES ASSUME NEW k \in Queued(w) PROVE \E j \in DOMAIN queue' : queue'[j] = queue[k]
  BY DEF Queued
<1>1. k \in 1..Len(queue)
  BY <1>t DEF Queued
<1>2. ASSUME NEW i \in Previous(e.uid), Len(queue') = Len(queue),
             \A j \in 1..(Len(queue) - 1) :
               queue'[j] = IF j < i THEN queue[j] ELSE queue[j + 1]
      PROVE  \E j \in DOMAIN queue' : queue'[j] = queue[k]
  <2>1. i \in 1..Len(queue) /\ i # k
    BY <1>t DEF Previous, Queued
  <2>2. CASE k < i
    BY <1>t, <1>1, <1>2, <2>1, <2>2
  <2>3. CASE k > i
    <3>1. k - 1 \in 1..(Len(queue) - 1) /\ ~(k - 1 < i) /\ (k - 1) + 1 = k
      BY <1>t, <1>1, <2>1, <2>3
    <3> QED
      BY <1>t, <1>2, <3>1
  <2> QED
    BY <1>1, <2>1, <2>2, <2>3
<1>3. ASSUME Len(queue') = Len(queue) + 1, \A j \in 1..Len(queue) : queue'[j] = queue[j]
      PROVE  \E j \in DOMAIN queue' : queue'[j] = queue[k]
  BY <1>t, <1>1, <1>3
<1> QED
  BY <1>2, <1>3, PushStatusProperties

\* Steps that leave the events under way and the cache alone.
LEMMA ConflationFrame ==
  ASSUME ConflationInv, UNCHANGED <<queue, tree, status, refused>>,
         ResetInHand' = ResetInHand, ResetInHand => current' = current,
         \A u \in Uids : HandIs(u)' = HandIs(u) /\ (HandIs(u) => current' = current),
         running' /\ truthTree' # 0 => running /\ UNCHANGED <<truthTree, truthStatus>>
  PROVE  ConflationInv'
<1> SUFFICES ASSUME running', truthTree' \notin {0} \cup refused
             PROVE  /\ ComingTree' = truthTree'
                    /\ \A u \in Uids : Coming(u, StatusOf(truthStatus[u]))'
  BY DEF ConflationInv
<1>1. running /\ truthTree' = truthTree /\ truthStatus' = truthStatus
  OBVIOUS
<1>2. ResetQueued' = ResetQueued
  BY DEF ResetQueued
<1>3. ComingTree' = ComingTree
  BY <1>2 DEF ComingTree
<1>4. ASSUME NEW u \in Uids PROVE Coming(u, StatusOf(truthStatus[u]))'
  <2>1. Behind(u)' = Behind(u)
    BY <1>2 DEF Behind
  <2>2. Queued(u)' = Queued(u)
    BY DEF Queued
  <2>3. Coming(u, StatusOf(truthStatus[u]))
    BY <1>1 DEF ConflationInv
  <2> QED
    BY <1>1, <2>1, <2>2, <2>3 DEF Coming
<1> QED
  BY <1>1, <1>3, <1>4 DEF ConflationInv

LEMMA NextConflation ==
  TypeInv /\ QueueShape /\ OrderInv /\ ConflationInv /\ [Next]_vars => ConflationInv'
<1> SUFFICES ASSUME TypeInv, QueueShape, OrderInv, ConflationInv, [Next]_vars
             PROVE  ConflationInv'
  OBVIOUS
<1> USE DEF life, work, cache, counts, truth, watch, unwatched
<1>t. /\ queue \in Seq(Events) /\ Len(queue) \in Nat /\ DOMAIN queue = 1..Len(queue)
      /\ \A j \in DOMAIN queue : queue[j] \in Events
      /\ coalesced \in Nat /\ status \in [Uids -> Marks] /\ truthStatus \in [Uids -> Marks]
      /\ refused \subseteq 1..created /\ created \in Nat
      /\ current \in Events \cup {Notice, NoEvent}
      /\ (worker = "apply" => current \in Events \cup {Notice})
  BY LenProperties, ElementOfSeq DEF TypeInv, TypeOK, TreeIds
<1>s. Stopped
  BY DEF OrderInv
<1>n. NoStatus \notin Statuses /\ \A m \in Marks \ {NoStatus} : StatusOf(m) = m.status
  BY StatusAssumption DEF StatusOf
<1>1. ASSUME UNCHANGED <<queue, tree, status, refused, worker, current>>,
             running' /\ truthTree' # 0 => running /\ UNCHANGED <<truthTree, truthStatus>>
      PROVE  ConflationInv'
  <2>1. ResetInHand' = ResetInHand /\ \A u \in Uids : HandIs(u)' = HandIs(u)
    BY <1>1 DEF ResetInHand, HandIs
  <2> QED
    BY <1>1, <2>1, ConflationFrame
<1>2. ASSUME UNCHANGED <<queue, tree, status, refused, truthTree, truthStatus>>,
             worker # "apply", worker' # "apply", running' => running
      PROVE  ConflationInv'
  <2>1. ResetInHand' = ResetInHand /\ ~ResetInHand
    BY <1>2 DEF ResetInHand
  <2>2. \A u \in Uids : HandIs(u)' = HandIs(u) /\ ~HandIs(u)
    BY <1>2 DEF HandIs
  <2> QED
    BY <1>2, <2>1, <2>2, ConflationFrame
<1>3. CASE StartMonitor \/ Connect \/ Disconnect \/ StopRunning \/ StopViewers
  BY <1>1, <1>3 DEF StartMonitor, Connect, Disconnect, StopRunning, StopViewers
<1>4. CASE StartWorker
  <2>1. worker = "none" /\ worker' \in {"none", "while"}
    BY <1>4 DEF StartWorker, TypeInv, Joined
  <2> QED
    BY <1>2, <1>4, <2>1 DEF StartWorker
<1>5. CASE StopQueue \/ StopState
  <2>1. ~running'
    BY <1>5, <1>s DEF StopQueue, StopState, Stopped
  <2> QED
    BY <2>1 DEF ConflationInv
<1>6. CASE HostStop
  BY <1>1, <1>6 DEF HostStop
<1>7. CASE TellTree
  <2> DEFINE e == Reset(created + 1)
  <2>1. created + 1 \in 1..MaxTrees
    BY <1>7, WithinProperties DEF TellTree, TypeInv, TypeOK, TreeIds
  <2>2. e \in Events /\ e.tree = created + 1 /\ IsReset(e) /\ ~IsStatus(e)
    BY <2>1, EventProperties
  <2>3. truthTree' = created + 1 /\ truthStatus' = Blank /\ running' = running
    BY <1>7 DEF TellTree
  <2>4. CASE ~running
    BY <2>3, <2>4 DEF ConflationInv
  <2>5. CASE running
    <3>1. queue' = <<e>>
      BY <1>7, <2>2, <2>5 DEF TellTree, Enqueue, PushReset
    <3>2. ResetQueued' /\ queue'[1] = e /\ DOMAIN queue' = {1}
      BY <2>2, <3>1 DEF ResetQueued
    <3>3. ComingTree' = created + 1
      BY <2>2, <3>2 DEF ComingTree
    <3>4. ASSUME NEW u \in Uids PROVE Queued(u)' = {} /\ Behind(u)' = NoStatus
      BY <2>2, <3>2 DEF Queued, Behind
    <3>5. \A u \in Uids : StatusOf(Blank[u]) = NoStatus
      BY DEF StatusOf, Blank
    <3> QED
      BY <2>3, <3>3, <3>4, <3>5 DEF ConflationInv, Coming
  <2> QED
    BY <2>4, <2>5
<1>8. ASSUME NEW u \in Uids, NEW s \in Statuses, TellStatus(u, s) PROVE ConflationInv'
  <2> DEFINE e == Status(truthTree, u, s)
  <2>1. truthTree \in 1..MaxTrees
    BY <1>8, BoundsAssumption DEF TellStatus, TypeInv, TypeOK, TreeIds
  <2>2. e \in Events /\ IsStatus(e) /\ ~IsReset(e) /\ e.uid = u /\ e.status = s
        /\ Mark(e).status = s /\ Mark(e) \in Marks
    BY <2>1, EventProperties DEF Mark
  <2>2a. Mark(e) # NoStatus
    BY <2>1, StatusAssumption DEF Mark, Status
  <2>3. /\ UNCHANGED <<truthTree, refused, running, tree, status, worker, current>>
        /\ truthStatus' = [truthStatus EXCEPT ![u] = Mark(e)]
    BY <1>8 DEF TellStatus
  <2>4. CASE ~running
    BY <2>3, <2>4 DEF ConflationInv
  <2>5. CASE running
    <3>1. PushStatus(e)
      BY <1>8, <2>2, <2>5 DEF TellStatus, Enqueue
    <3>2. QueueShape'
      BY NextQueueShape
    <3> HIDE DEF e
    <3>3. ResetQueued' = ResetQueued /\ (ResetQueued => queue'[1] = queue[1])
      BY <1>t, <2>2, <3>1, PushStatusReset
    <3>4. ComingTree' = ComingTree
      BY <2>3, <3>3 DEF ComingTree, ResetInHand
    <3>5. ASSUME NEW w \in Uids, w # u, NEW x, Coming(w, x)
          PROVE  (\A j \in Queued(w)' : queue'[j].status = x)
                 /\ (Queued(w)' = {} => Behind(w)' = x)
      <4>1. Behind(w)' = Behind(w)
        BY <2>3, <3>3 DEF Behind, HandIs, ResetInHand
      <4>2. Queued(w)' = {} => Queued(w) = {}
        BY <1>t, <2>2, <3>1, <3>5, PushStatusKeeps
      <4>3. ASSUME NEW j \in Queued(w)' PROVE queue'[j].status = x
        <5>1. j \in DOMAIN queue' /\ IsStatus(queue'[j]) /\ queue'[j].uid = w
          BY DEF Queued
        <5>2. PICK k \in DOMAIN queue : queue'[j] = queue[k]
          BY <1>t, <2>2, <3>1, <3>5, <5>1, PushStatusEntries
        <5>3. k \in Queued(w)
          BY <5>1, <5>2 DEF Queued
        <5> QED
          BY <3>5, <5>2, <5>3 DEF Coming
      <4> QED
        BY <3>5, <4>1, <4>2, <4>3 DEF Coming
    <3>6. (\A j \in Queued(u)' : queue'[j].status = s) /\ Queued(u)' # {}
      <4>1. Len(queue') \in DOMAIN queue' /\ queue'[Len(queue')] = e
        BY <1>t, <2>2, <3>1, PushStatusProperties, LenProperties
      <4>2. \A j \in Queued(u)' : j = Len(queue')
        BY <2>2, <3>2, <4>1 DEF Queued, QueueShape
      <4>3. Len(queue') \in Queued(u)'
        BY <2>2, <4>1 DEF Queued
      <4> QED
        BY <2>2, <4>1, <4>2, <4>3
    <3>7. StatusOf(truthStatus'[u]) = s
      BY <1>t, <1>n, <2>2, <2>2a, <2>3
    <3>8. \A w \in Uids : w # u => truthStatus'[w] = truthStatus[w]
      BY <1>t, <2>3
    <3> SUFFICES ASSUME truthTree \notin {0} \cup refused
                 PROVE  /\ ComingTree' = truthTree
                        /\ \A w \in Uids : Coming(w, StatusOf(truthStatus[w]))'
      BY <2>3 DEF ConflationInv
    <3>9. ASSUME NEW w \in Uids PROVE Coming(w, StatusOf(truthStatus[w]))'
      <4>1. CASE w = u
        BY <3>6, <3>7, <4>1 DEF Coming
      <4>2. CASE w # u
        <5>1. Coming(w, StatusOf(truthStatus[w]))
          BY <2>5 DEF ConflationInv
        <5> QED
          BY <3>5, <3>8, <4>2, <5>1 DEF Coming
      <4> QED
        BY <4>1, <4>2
    <3> QED
      BY <2>5, <3>4, <3>9 DEF ConflationInv
  <2> QED
    BY <2>4, <2>5
<1>9. CASE WorkerWhile \/ WorkerLeave \/ BroadcastTargets \/ BroadcastEnd \/ WorkerCount
             \/ WorkerExit \/ \E v \in Viewers : BroadcastSend(v)
  BY <1>2, <1>9 DEF WorkerWhile, WorkerLeave, BroadcastTargets, BroadcastEnd, WorkerCount,
                    WorkerExit, BroadcastSend
<1>10. CASE WorkerPop
  <2>1. /\ Len(queue) >= 1 /\ Len(queue') = Len(queue) - 1 /\ queue' \in Seq(Events)
        /\ current' = queue[1] /\ current' \in Events
        /\ DOMAIN queue' = 1..(Len(queue) - 1)
        /\ \A j \in DOMAIN queue' : queue'[j] = queue[j + 1]
    BY <1>10, <1>t, PopProperties, LenProperties
  <2>2. worker = "wait" /\ worker' = "apply" /\ queue # <<>>
        /\ UNCHANGED <<running, tree, status, refused, truthTree, truthStatus>>
    BY <1>10 DEF WorkerPop
  <2>3. ~ResetInHand /\ (ResetInHand' <=> ResetQueued)
    BY <2>1, <2>2 DEF ResetInHand, ResetQueued
  <2>4. ~ResetQueued'
    <3> SUFFICES ASSUME ResetQueued' PROVE FALSE
      OBVIOUS
    <3>1. 1 \in DOMAIN queue'
      <4>1. Len(queue') # 0 /\ Len(queue') \in Nat /\ DOMAIN queue' = 1..Len(queue')
        BY <2>1, EmptySeq, LenProperties DEF ResetQueued
      <4> QED
        BY <4>1
    <3>2. IsReset(queue[1 + 1]) /\ 1 + 1 \in DOMAIN queue /\ 1 + 1 # 1
      BY <1>t, <2>1, <3>1 DEF ResetQueued
    <3> QED
      BY <3>2 DEF QueueShape
  <2>5. ComingTree' = ComingTree
    BY <2>1, <2>2, <2>3, <2>4 DEF ComingTree
  <2>6. ASSUME NEW u \in Uids, NEW x, Coming(u, x)
        PROVE  (\A j \in Queued(u)' : queue'[j].status = x) /\ (Queued(u)' = {} => Behind(u)' = x)
    <3>1. \A j \in DOMAIN queue' : j + 1 \in DOMAIN queue
      BY <1>t, <2>1
    <3>2. \A j \in Queued(u)' : j + 1 \in Queued(u) /\ queue'[j] = queue[j + 1]
      BY <2>1, <3>1 DEF Queued
    <3>3. 1 \in DOMAIN queue /\ \A k \in DOMAIN queue : k # 1 => k - 1 \in DOMAIN queue'
                                                                 /\ queue'[k - 1] = queue[k]
      BY <1>t, <2>1
    <3>4. Queued(u)' = {} => Queued(u) \subseteq {1}
      BY <3>3 DEF Queued
    <3>5. HandIs(u)' <=> 1 \in Queued(u)
      BY <2>1, <2>2, <3>3 DEF HandIs, Queued
    <3>6. CASE 1 \in Queued(u)
      <4>1. queue[1].status = x /\ HandIs(u)' /\ current' = queue[1]
        BY <2>1, <2>6, <3>5, <3>6 DEF Coming
      <4>2. Behind(u)' = x
        BY <2>4, <4>1 DEF Behind
      <4> QED
        BY <2>6, <3>2, <4>2 DEF Coming
    <3>7. CASE 1 \notin Queued(u)
      <4>1. ~HandIs(u)' /\ ~HandIs(u)
        BY <2>2, <3>5, <3>7 DEF HandIs
      <4>2. Behind(u)' = Behind(u)
        BY <2>2, <2>3, <2>4, <4>1 DEF Behind
      <4> QED
        BY <2>6, <3>2, <3>4, <3>7, <4>2 DEF Coming
    <3> QED
      BY <3>6, <3>7
  <2>7. ASSUME NEW u \in Uids, Coming(u, StatusOf(truthStatus[u]))
        PROVE  Coming(u, StatusOf(truthStatus[u]))'
    BY <2>2, <2>6, <2>7 DEF Coming
  <2> QED
    BY <2>2, <2>5, <2>7 DEF ConflationInv
<1>11. CASE ApplyTree
  <2>1. ResetInHand /\ ~ResetInHand' /\ ResetQueued' = ResetQueued /\ UNCHANGED queue
        /\ tree' = current.tree /\ status' = Blank
        /\ UNCHANGED <<running, refused, truthTree, truthStatus>>
        /\ \A u \in Uids : ~HandIs(u) /\ ~HandIs(u)'
    BY <1>11 DEF ApplyTree, ResetInHand, ResetQueued, HandIs, IsReset, IsStatus
  <2>2. ComingTree' = ComingTree
    BY <2>1 DEF ComingTree
  <2>3. ASSUME NEW u \in Uids PROVE Behind(u)' = Behind(u) /\ Queued(u)' = Queued(u)
    <3>1. StatusOf(Blank[u]) = NoStatus
      BY DEF StatusOf, Blank
    <3> QED
      BY <2>1, <3>1 DEF Behind, Queued
  <2> QED
    BY <2>1, <2>2, <2>3 DEF ConflationInv, Coming
<1>12. CASE ApplyTreeFails
  <2>1. ResetInHand /\ ~ResetInHand' /\ ResetQueued' = ResetQueued
        /\ UNCHANGED <<queue, tree, status, running, truthTree, truthStatus>>
        /\ refused' = refused \cup {current.tree}
    BY <1>12 DEF ApplyTreeFails, ResetInHand, ResetQueued
  <2> SUFFICES ASSUME running, truthTree \notin {0} \cup refused'
               PROVE  /\ ComingTree' = truthTree
                      /\ \A u \in Uids : Coming(u, StatusOf(truthStatus[u]))'
    BY <2>1 DEF ConflationInv
  <2>2. ComingTree = truthTree /\ \A u \in Uids : Coming(u, StatusOf(truthStatus[u]))
    BY <2>1 DEF ConflationInv
  <2>3. ResetQueued
    BY <2>1, <2>2 DEF ComingTree
  <2>4. ComingTree' = ComingTree
    BY <2>1, <2>3 DEF ComingTree
  <2>5. ASSUME NEW u \in Uids PROVE Behind(u)' = Behind(u) /\ Queued(u)' = Queued(u)
    BY <2>1, <2>3 DEF Behind, Queued
  <2> QED
    BY <2>1, <2>2, <2>4, <2>5 DEF Coming
<1>13. CASE ApplyStatus
  <2>1. current \in Events /\ IsStatus(current) /\ ~IsReset(current) /\ current.uid \in Uids
        /\ current.tree \in 1..MaxTrees /\ current.status \in Statuses
        /\ Mark(current) \in Marks /\ Mark(current).status = current.status
    BY <1>13, <1>t, EventProperties DEF ApplyStatus, Mark
  <2>1a. Mark(current) # NoStatus
    BY <2>1, StatusAssumption DEF Mark
  <2>2. /\ UNCHANGED <<running, queue, truthTree, truthStatus, tree, refused, current>>
        /\ worker = "apply" /\ worker' # "apply"
        /\ \/ status' = status /\ status[current.uid] # NoStatus
              /\ status[current.uid].status = current.status
           \/ status' = [status EXCEPT ![current.uid] = Mark(current)]
    BY <1>13 DEF ApplyStatus, Unchanged
  <2>3. ~ResetInHand /\ ~ResetInHand' /\ ResetQueued' = ResetQueued
    BY <2>1, <2>2 DEF ResetInHand, ResetQueued
  <2>4. ComingTree' = ComingTree
    BY <2>2, <2>3 DEF ComingTree
  <2>5. StatusOf(status'[current.uid]) = current.status
    BY <1>t, <1>n, <2>1, <2>1a, <2>2
  <2>6. ASSUME NEW u \in Uids PROVE Behind(u)' = Behind(u) /\ Queued(u)' = Queued(u)
    <3>1. ~HandIs(u)' /\ (HandIs(u) <=> u = current.uid)
      BY <2>1, <2>2 DEF HandIs
    <3>2. u # current.uid => status'[u] = status[u]
      BY <1>t, <2>1, <2>2
    <3>3. Behind(u)' = Behind(u)
      BY <2>3, <2>5, <3>1, <3>2 DEF Behind
    <3> QED
      BY <2>2, <3>3 DEF Queued
  <2> QED
    BY <2>2, <2>4, <2>6 DEF ConflationInv, Coming
<1>14. ASSUME NEW v \in Viewers, WsStep(v) PROVE ConflationInv'
  <2>1. UNCHANGED <<running, queue, worker, current, tree, status, refused, truthTree,
                    truthStatus>>
    BY <1>14 DEF WsStep, WsOpen, WsInsert, WsMessage, WsReply, SnapshotCopy, SnapshotTree,
                 SnapshotStatus, SnapshotEnd, Leave, WsClose
  <2> QED
    BY <1>1, <2>1
<1>15. CASE UNCHANGED vars
  BY <1>1, <1>15 DEF vars
<1> QED
  BY <1>3, <1>4, <1>5, <1>6, <1>7, <1>8, <1>9, <1>10, <1>11, <1>12, <1>13, <1>14, <1>15
     DEF Next, ControlStep, WorkerStep

\* From the first tree of a run on, the cache together with what is still under
\* way is the tree and the last status of every node that BTManager has told of,
\* however many events the queue has thrown together and whatever the stops and
\* restarts in between.
THEOREM ConflationCorrect == Spec => []ConflationLosesNothing
<1>1. Init => QueueShape /\ OrderInv /\ ConflationInv
  BY DEF Init, QueueShape, OrderInv, Stopped, ResetsAscend, HandFits, QueueFollows,
         TruthFollows, CacheFits, ResetQueued, ResetInHand, Blank, ConflationInv
<1>2. TypeInv /\ QueueShape /\ ConflationInv => ConflationLosesNothing
  BY ComingTreeCorrect, ComingCorrect DEF ConflationInv, ConflationLosesNothing
<1>3. /\ TypeInv /\ QueueShape /\ OrderInv /\ ConflationInv /\ [Next]_vars
      => TypeInv' /\ QueueShape' /\ OrderInv' /\ ConflationInv'
  BY NextTypeInv, NextQueueShape, NextOrderInv, NextConflation
<1> QED
  BY <1>1, <1>2, <1>3, InitTypeInv, PTL DEF Spec

-----------------------------------------------------------------------------
(* The length of the queue *)

\* Every queued status is of a node of its own, so there are no more of them
\* than nodes.
LEMMA QueueLength ==
  ASSUME TypeInv, QueueShape, IsFiniteSet(Uids)
  PROVE  Len(queue) <= Cardinality(Uids) + 1
<1> DEFINE none == CHOOSE x : x \notin Uids
           f == [j \in 1..Len(queue) |-> IF IsReset(queue[j]) THEN none ELSE queue[j].uid]
           T == Uids \cup {none}
<1>1. /\ Len(queue) \in Nat /\ DOMAIN queue = 1..Len(queue)
      /\ \A j \in 1..Len(queue) : queue[j] \in Events
  BY LenProperties, ElementOfSeq DEF TypeInv, TypeOK
<1>2. none \notin Uids
  BY NoSetContainsEverything
<1> HIDE DEF none
<1>3. f \in [1..Len(queue) -> T]
  BY <1>1, EventProperties
<1>4. ASSUME NEW i \in 1..Len(queue), NEW j \in 1..Len(queue), f[i] = f[j] PROVE i = j
  <2>1. CASE IsReset(queue[i])
    <3>1. IsReset(queue[j])
      BY <1>1, <1>2, <1>4, <2>1, EventProperties
    <3> QED
      BY <1>1, <2>1, <3>1 DEF QueueShape
  <2>2. CASE ~IsReset(queue[i])
    <3>1. ~IsReset(queue[j])
      BY <1>1, <1>2, <1>4, <2>2, EventProperties
    <3>2. IsStatus(queue[i]) /\ IsStatus(queue[j]) /\ queue[i].uid = queue[j].uid
      BY <1>1, <1>4, <2>2, <3>1, EventProperties
    <3> QED
      BY <1>1, <3>2 DEF QueueShape
  <2> QED
    BY <2>1, <2>2
<1>5. f \in Injection(1..Len(queue), T)
  BY <1>3, <1>4 DEF Injection, IsInjective
<1>6. IsFiniteSet(T) /\ Cardinality(T) = Cardinality(Uids) + 1
  BY <1>2, FS_AddElement
<1>7. Cardinality(1..Len(queue)) <= Cardinality(T)
  <2> HIDE DEF f, T
  <2> QED
    BY <1>5, <1>6, FS_Injection
<1>8. Cardinality(1..Len(queue)) = Len(queue)
  BY <1>1, FS_Interval
<1> QED
  BY <1>6, <1>7, <1>8

\* However many events BTManager produces and however slow the worker is, the
\* queue never holds more events than the tree has nodes, and one reset.
THEOREM QueueBounded ==
  ASSUME IsFiniteSet(Uids)
  PROVE  Spec => [](Len(queue) <= Cardinality(Uids) + 1)
<1>1. Init => QueueShape
  BY DEF Init, QueueShape
<1>2. QueueShape /\ TypeInv /\ [Next]_vars => QueueShape' /\ TypeInv'
  BY NextTypeInv, NextQueueShape
<1>3. QueueShape /\ TypeInv => Len(queue) <= Cardinality(Uids) + 1
  BY QueueLength
<1> QED
  BY <1>1, <1>2, <1>3, InitTypeInv, PTL DEF Spec

-----------------------------------------------------------------------------
(* The order of the broadcasts *)

Hand == current \in Events

\* No viewer shows, or is about to be shown, a tree newer than x.
NoneNewer(x) ==
  /\ tree <= x
  /\ \A v \in Viewers : page[v].tree <= x /\ snap[v].tree <= x

\* What is shown is not newer than what is in hand, that not newer than what
\* is queued, and that not newer than what BTManager has told of.
PagesKnown == NoneNewer(created)
HandNewer == Hand => NoneNewer(current.tree)
QueueNewer ==
  \A j \in DOMAIN queue :
    NoneNewer(queue[j].tree) /\ (Hand => current.tree <= queue[j].tree)
QueueAscends == \A i, j \in DOMAIN queue : i <= j => queue[i].tree <= queue[j].tree
TruthNewest ==
  running /\ truthTree # 0 =>
    /\ NoneNewer(truthTree)
    /\ Hand => current.tree <= truthTree
    /\ \A j \in DOMAIN queue : queue[j].tree <= truthTree

PagesInv == PagesKnown /\ HandNewer /\ QueueNewer /\ QueueAscends /\ TruthNewest

\* The numbers of the trees are numbers.
LEMMA TreeNumbers ==
  ASSUME TypeInv
  PROVE  /\ queue \in Seq(Events) /\ Len(queue) \in Nat /\ DOMAIN queue = 1..Len(queue)
         /\ \A j \in DOMAIN queue : queue[j] \in Events
         /\ \A f \in Events : f.tree \in Nat
         /\ tree \in Nat /\ created \in Nat /\ truthTree \in Nat
         /\ \A v \in Viewers : page[v].tree \in Nat /\ snap[v].tree \in Nat
         /\ Hand => current.tree <= created
         /\ NoEvent \notin Events /\ Notice \notin Events
<1>1. \A p \in Views : p.tree \in Nat
  BY BoundsAssumption DEF Views, TreeIds
<1> QED
  BY <1>1, LenProperties, ElementOfSeq, EventProperties, BoundsAssumption, NoEventAssumption
     DEF TypeInv, TypeOK, TreesKnown, TreeIds, Hand

\* Steps that leave the queue alone and show a viewer nothing newer than what
\* is in hand.
LEMMA PagesFrame ==
  ASSUME TypeInv, PagesInv, UNCHANGED <<queue, created>>,
         \A x \in Nat : NoneNewer(x) /\ (Hand => current.tree <= x) => NoneNewer(x)',
         Hand' => current' = current,
         running' /\ truthTree' # 0 => running /\ truthTree' = truthTree
  PROVE  PagesInv'
<1>1. Hand' => Hand
  BY DEF Hand
<1>2. PagesKnown'
  BY TreeNumbers DEF PagesInv, PagesKnown
<1>3. HandNewer'
  <2>1. Hand => current.tree \in Nat /\ current.tree <= current.tree
    BY TreeNumbers DEF Hand
  <2> QED
    BY <1>1, <2>1 DEF PagesInv, HandNewer
<1>4. QueueNewer'
  <2>1. \A j \in DOMAIN queue : queue[j].tree \in Nat
    BY TreeNumbers
  <2> QED
    BY <1>1, <2>1 DEF PagesInv, QueueNewer
<1>5. QueueAscends'
  BY DEF PagesInv, QueueAscends
<1>6. TruthNewest'
  BY <1>1, TreeNumbers DEF PagesInv, TruthNewest
<1> QED
  BY <1>2, <1>3, <1>4, <1>5, <1>6 DEF PagesInv

\* A status that is not older than the rest of the queue goes to its end.
LEMMA PushStatusAscends ==
  ASSUME TypeInv, QueueAscends, NEW e \in Events, PushStatus(e),
         \A j \in DOMAIN queue : queue[j].tree <= e.tree
  PROVE  QueueAscends'
<1>t. /\ Len(queue) \in Nat /\ DOMAIN queue = 1..Len(queue) /\ coalesced \in Nat
      /\ queue \in Seq(Events) /\ queue' \in Seq(Events)
      /\ Len(queue') \in Nat /\ DOMAIN queue' = 1..Len(queue')
      /\ queue'[Len(queue')] = e /\ e.tree \in Nat
  BY TreeNumbers, PushStatusProperties, LenProperties DEF TypeInv, TypeOK
<1> SUFFICES ASSUME NEW i \in DOMAIN queue', NEW j \in DOMAIN queue', i <= j
             PROVE  queue'[i].tree <= queue'[j].tree
  BY DEF QueueAscends
<1>1. CASE j = Len(queue')
  <2>1. queue'[i] = e \/ \E k \in DOMAIN queue : queue'[i] = queue[k]
    BY <1>t, PushStatusEntries
  <2> QED
    BY <1>t, <1>1, <2>1
<1>2. CASE j # Len(queue')
  <2>1. i \in 1..(Len(queue') - 1) /\ j \in 1..(Len(queue') - 1)
    BY <1>t, <1>2
  <2>2. ASSUME NEW k \in Previous(e.uid), Len(queue') = Len(queue),
               \A l \in 1..(Len(queue) - 1) :
                 queue'[l] = IF l < k THEN queue[l] ELSE queue[l + 1]
        PROVE  queue'[i].tree <= queue'[j].tree
    <3> DEFINE old(l) == IF l < k THEN l ELSE l + 1
    <3>1. k \in 1..Len(queue)
      BY <1>t DEF Previous
    <3>2. old(i) \in DOMAIN queue /\ old(j) \in DOMAIN queue /\ old(i) <= old(j)
      BY <1>t, <2>1, <2>2, <3>1
    <3>3. queue'[i] = queue[old(i)] /\ queue'[j] = queue[old(j)]
      BY <2>1, <2>2
    <3> QED
      BY <3>2, <3>3 DEF QueueAscends
  <2>3. ASSUME Len(queue') = Len(queue) + 1, \A l \in 1..Len(queue) : queue'[l] = queue[l]
        PROVE  queue'[i].tree <= queue'[j].tree
    <3>1. i \in DOMAIN queue /\ j \in DOMAIN queue /\ queue'[i] = queue[i] /\ queue'[j] = queue[j]
      BY <1>t, <2>1, <2>3
    <3> QED
      BY <3>1 DEF QueueAscends
  <2> QED
    BY <1>t, <2>2, <2>3, PushStatusProperties
<1> QED
  BY <1>1, <1>2

\* What a message makes of a viewer's page.
LEMMA SendShows ==
  ASSUME TypeInv, NEW v \in Viewers, NEW e \in Events \cup {Notice}, Send(v, e)
  PROVE  /\ \A w \in Viewers : w # v => page'[w] = page[w]
         /\ page'[v].tree = page[v].tree \/ (IsReset(e) /\ page'[v].tree = e.tree)
         /\ \A u \in Uids : page'[v].status[u] # page[v].status[u]
                              => IsStatus(e) /\ page'[v].status[u].tree = e.tree
<1>t. page \in [Viewers -> Views] /\ page[v].status \in [Uids -> Marks]
  BY DEF TypeInv, TypeOK, Views
<1>1. CASE page' = page
  BY <1>1
<1>2. CASE page' = [page EXCEPT ![v] = Shown(@, e)]
  <2>1. page'[v] = Shown(page[v], e) /\ \A w \in Viewers : w # v => page'[w] = page[w]
    BY <1>t, <1>2
  <2>2. CASE IsReset(e)
    <3>1. Shown(page[v], e).tree = e.tree /\ Shown(page[v], e).status = page[v].status
      BY <1>t, <2>2 DEF Shown, Views
    <3> QED
      BY <2>1, <2>2, <3>1
  <2>3. CASE IsStatus(e)
    <3>1. ~IsReset(e) /\ e.uid \in Uids /\ Mark(e).tree = e.tree
      BY <2>3, EventProperties
    <3>2. Shown(page[v], e) = [page[v] EXCEPT !.status[e.uid] = Mark(e)]
      BY <2>3, <3>1 DEF Shown
    <3>3. Shown(page[v], e).tree = page[v].tree
          /\ Shown(page[v], e).status = [page[v].status EXCEPT ![e.uid] = Mark(e)]
      BY <1>t, <3>2 DEF Views
    <3>4. \A u \in Uids : Shown(page[v], e).status[u]
                            = IF u = e.uid THEN Mark(e) ELSE page[v].status[u]
      BY <1>t, <3>1, <3>3
    <3> QED
      BY <2>1, <2>3, <3>1, <3>3, <3>4
  <2>4. CASE ~IsReset(e) /\ ~IsStatus(e)
    BY <2>1, <2>4 DEF Shown
  <2> QED
    BY <2>1, <2>2, <2>3, <2>4
<1> QED
  BY <1>1, <1>2 DEF Send

LEMMA NextPagesInv == TypeInv /\ PagesInv /\ [Next]_vars => PagesInv'
<1> SUFFICES ASSUME TypeInv, PagesInv, [Next]_vars PROVE PagesInv'
  OBVIOUS
<1> USE DEF life, work, cache, counts, truth, watch, unwatched
<1>t. page \in [Viewers -> Views] /\ snap \in [Viewers -> Views] /\ 0 \in Nat
      /\ current \in Events \cup {Notice, NoEvent} /\ coalesced \in Nat /\ received \in Nat
      /\ (current = NoEvent) = (worker \in {"none", "while", "wait", "exit"})
  BY DEF TypeInv, TypeOK
<1>1. ASSUME UNCHANGED <<queue, created, tree, page, snap>>, Hand' => current' = current,
             running' /\ truthTree' # 0 => running /\ truthTree' = truthTree
      PROVE  PagesInv'
  <2>1. \A x : NoneNewer(x) => NoneNewer(x)'
    BY <1>1 DEF NoneNewer
  <2> QED
    BY <1>1, <2>1, PagesFrame
<1>2. CASE StartMonitor \/ StartWorker \/ Connect \/ Disconnect \/ StopRunning \/ StopViewers
             \/ HostStop
  BY <1>1, <1>2 DEF StartMonitor, StartWorker, Connect, Disconnect, StopRunning, StopViewers,
                    HostStop
<1>3. CASE StopQueue
  <2>1. queue' = <<>> /\ DOMAIN queue' = {}
        /\ UNCHANGED <<created, tree, page, snap, current, running, truthTree>>
    BY <1>3 DEF StopQueue
  <2>2. (\A x : NoneNewer(x)' = NoneNewer(x)) /\ Hand' = Hand
    BY <2>1 DEF NoneNewer, Hand
  <2> QED
    BY <2>1, <2>2 DEF PagesInv, PagesKnown, HandNewer, QueueNewer, QueueAscends, TruthNewest
<1>4. CASE StopState
  <2>1. tree' = 0
        /\ UNCHANGED <<queue, created, page, snap, current, running, truthTree>>
    BY <1>4 DEF StopState
  <2>2. \A x \in Nat : NoneNewer(x) => NoneNewer(x)'
    BY <2>1 DEF NoneNewer
  <2> QED
    BY <2>1, <2>2, PagesFrame DEF Hand
<1>5. CASE TellTree
  <2> DEFINE e == Reset(created + 1)
  <2>1. created + 1 \in 1..MaxTrees
    BY <1>5, WithinProperties, TreeNumbers DEF TellTree, TypeInv, TypeOK, TreeIds
  <2>2. e \in Events /\ e.tree = created + 1 /\ IsReset(e)
    BY <2>1, EventProperties
  <2>3. UNCHANGED <<tree, page, snap, current, running>> /\ truthTree' = created + 1
        /\ created' = created + 1
    BY <1>5 DEF TellTree
  <2> HIDE DEF e
  <2>4. Hand' = Hand /\ (Hand => current.tree \in Nat /\ current.tree <= created)
    BY <2>3, TreeNumbers DEF Hand
  <2>5. \A x \in Nat : NoneNewer(x) => NoneNewer(x + 1)' /\ NoneNewer(x)'
    <3>1. tree \in Nat /\ \A v \in Viewers : page[v].tree \in Nat /\ snap[v].tree \in Nat
      BY TreeNumbers
    <3> QED
      BY <2>3, <3>1 DEF NoneNewer
  <2>6. created \in Nat /\ NoneNewer(created)'
    BY <2>3, <2>5, TreeNumbers DEF PagesInv, PagesKnown
  <2>7. PagesKnown' /\ HandNewer'
    BY <2>3, <2>4, <2>5, <2>6 DEF PagesInv, PagesKnown, HandNewer
  <2>8. CASE ~running /\ UNCHANGED queue
    <3>1. QueueNewer'
      BY <2>3, <2>4, <2>5, <2>8, TreeNumbers DEF PagesInv, QueueNewer
    <3>2. QueueAscends' /\ TruthNewest'
      BY <2>3, <2>8 DEF PagesInv, QueueAscends, TruthNewest
    <3> QED
      BY <2>7, <3>1, <3>2 DEF PagesInv
  <2>9. CASE queue' = <<e>>
    <3>1. DOMAIN queue' = {1} /\ queue'[1] = e
      BY <2>9
    <3>2. QueueNewer'
      BY <2>2, <2>3, <2>4, <2>6, <3>1 DEF QueueNewer, NoneNewer
    <3>3. QueueAscends' /\ TruthNewest'
      BY <2>2, <2>3, <2>4, <2>6, <3>1 DEF QueueAscends, TruthNewest, NoneNewer
    <3> QED
      BY <2>7, <3>2, <3>3 DEF PagesInv
  <2>10. Enqueue(e)
    BY <1>5 DEF TellTree, e
  <2> QED
    BY <2>2, <2>8, <2>9, <2>10 DEF Enqueue, PushReset
<1>6. ASSUME NEW u \in Uids, NEW s \in Statuses, TellStatus(u, s) PROVE PagesInv'
  <2> DEFINE e == Status(truthTree, u, s)
  <2>1. truthTree \in 1..MaxTrees /\ truthTree # 0
    BY <1>6, BoundsAssumption DEF TellStatus, TypeInv, TypeOK, TreeIds
  <2>2. e \in Events /\ e.tree = truthTree /\ ~IsReset(e)
    BY <2>1, EventProperties
  <2>3. UNCHANGED <<tree, page, snap, current, running, created, truthTree>>
    BY <1>6 DEF TellStatus
  <2>4. Enqueue(e)
    BY <1>6 DEF TellStatus
  <2> HIDE DEF e
  <2>5. CASE ~running /\ UNCHANGED queue
    BY <1>1, <2>3, <2>5
  <2>6. CASE running /\ PushStatus(e)
    <3>1. /\ NoneNewer(truthTree) /\ (Hand => current.tree <= truthTree)
          /\ \A j \in DOMAIN queue : queue[j].tree <= truthTree
      BY <2>1, <2>6 DEF PagesInv, TruthNewest
    <3>2. QueueAscends'
      BY <2>2, <2>6, <3>1, PushStatusAscends DEF PagesInv
    <3>3. \A j \in DOMAIN queue' : queue'[j] = e \/ \E k \in DOMAIN queue : queue'[j] = queue[k]
      BY <1>t, <2>2, <2>6, PushStatusEntries, TreeNumbers
    <3>4. (\A x : NoneNewer(x)' = NoneNewer(x)) /\ Hand' = Hand
      BY <2>3 DEF NoneNewer, Hand
    <3>5. QueueNewer'
      BY <2>2, <2>3, <3>1, <3>3, <3>4 DEF PagesInv, QueueNewer
    <3>6. TruthNewest'
      BY <2>1, <2>2, <2>3, <3>1, <3>3, <3>4 DEF TruthNewest
    <3> QED
      BY <2>3, <3>2, <3>4, <3>5, <3>6 DEF PagesInv, PagesKnown, HandNewer
  <2> QED
    BY <2>2, <2>4, <2>5, <2>6 DEF Enqueue
<1>7. CASE WorkerPop
  <2>1. /\ Len(queue) \in Nat /\ Len(queue) >= 1 /\ Len(queue') = Len(queue) - 1
        /\ DOMAIN queue = 1..Len(queue) /\ DOMAIN queue' = 1..(Len(queue) - 1)
        /\ current' = queue[1] /\ current' \in Events
        /\ \A j \in DOMAIN queue' : queue'[j] = queue[j + 1]
    BY <1>7, TreeNumbers, PopProperties, LenProperties
  <2>2. UNCHANGED <<tree, page, snap, running, created, truthTree>>
    BY <1>7 DEF WorkerPop
  <2>3. \A x : NoneNewer(x)' = NoneNewer(x)
    BY <2>2 DEF NoneNewer
  <2>4. 1 \in DOMAIN queue /\ \A j \in DOMAIN queue' : j + 1 \in DOMAIN queue /\ 1 <= j + 1
    BY <2>1
  <2>5. PagesKnown' /\ HandNewer'
    BY <2>1, <2>2, <2>3, <2>4 DEF PagesInv, PagesKnown, HandNewer, QueueNewer
  <2>6. QueueNewer'
    BY <2>1, <2>3, <2>4 DEF PagesInv, QueueNewer, QueueAscends
  <2>7. QueueAscends'
    <3> SUFFICES ASSUME NEW i \in DOMAIN queue', NEW j \in DOMAIN queue', i <= j
                 PROVE  queue'[i].tree <= queue'[j].tree
      BY DEF QueueAscends
    <3>1. i + 1 <= j + 1
      BY <2>1
    <3> QED
      BY <2>1, <2>4, <3>1 DEF PagesInv, QueueAscends
  <2>8. TruthNewest'
    BY <2>1, <2>2, <2>3, <2>4 DEF PagesInv, TruthNewest
  <2> QED
    BY <2>5, <2>6, <2>7, <2>8 DEF PagesInv
<1>8. CASE WorkerWhile \/ WorkerLeave \/ ApplyTreeFails \/ ApplyStatus \/ BroadcastTargets
             \/ BroadcastEnd \/ WorkerCount \/ WorkerExit
  BY <1>1, <1>8, TreeNumbers
     DEF WorkerWhile, WorkerLeave, ApplyTreeFails, ApplyStatus, BroadcastTargets, BroadcastEnd,
         WorkerCount, WorkerExit, Hand
<1>9. CASE ApplyTree
  <2>1. tree' = current.tree
        /\ UNCHANGED <<queue, created, page, snap, current, running, truthTree>>
    BY <1>9 DEF ApplyTree
  <2>2. Hand
    BY <1>9, <1>t, EventProperties DEF ApplyTree, Hand
  <2>3. \A x \in Nat : NoneNewer(x) /\ (Hand => current.tree <= x) => NoneNewer(x)'
    BY <2>1, <2>2 DEF NoneNewer
  <2> QED
    BY <2>1, <2>3, PagesFrame DEF Hand
<1>10. ASSUME NEW v \in Viewers, BroadcastSend(v) PROVE PagesInv'
  <2>1. current \in Events \cup {Notice} /\ Send(v, current)
        /\ UNCHANGED <<queue, created, tree, snap, current, running, truthTree>>
    BY <1>10, <1>t DEF BroadcastSend
  <2>2. /\ \A w \in Viewers : w # v => page'[w] = page[w]
        /\ page'[v].tree = page[v].tree \/ (Hand /\ page'[v].tree = current.tree)
    BY <2>1, SendShows, EventProperties DEF Hand
  <2>3. \A x \in Nat : NoneNewer(x) /\ (Hand => current.tree <= x) => NoneNewer(x)'
    BY <2>1, <2>2 DEF NoneNewer
  <2> QED
    BY <2>1, <2>3, PagesFrame DEF Hand
<1>11. ASSUME NEW v \in Viewers, WsStep(v) PROVE PagesInv'
  <2>1. UNCHANGED <<queue, created, tree, current, running, truthTree>>
    BY <1>11 DEF WsStep, WsOpen, WsInsert, WsMessage, WsReply, SnapshotCopy, SnapshotTree,
                 SnapshotStatus, SnapshotEnd, Leave, WsClose
  <2>2. CASE WsOpen(v) \/ WsInsert(v) \/ WsMessage(v) \/ Leave(v) \/ WsClose(v)
    BY <1>1, <2>1, <2>2 DEF WsOpen, WsInsert, WsMessage, Leave, WsClose
  <2>3. CASE SnapshotCopy(v)
    <3>1. page' = page /\ snap'[v].tree = tree
          /\ \A w \in Viewers : w # v => snap'[w] = snap[w]
      BY <1>t, <2>3 DEF SnapshotCopy
    <3>2. \A x \in Nat : NoneNewer(x) => NoneNewer(x)'
      BY <2>1, <3>1 DEF NoneNewer
    <3> QED
      BY <2>1, <3>2, PagesFrame
  <2>4. CASE SnapshotEnd(v)
    <3>1. page' = page /\ snap'[v].tree = 0
          /\ \A w \in Viewers : w # v => snap'[w] = snap[w]
      BY <1>t, <2>4 DEF SnapshotEnd, EmptyView
    <3>2. \A x \in Nat : NoneNewer(x) => NoneNewer(x)'
      BY <2>1, <3>1 DEF NoneNewer
    <3> QED
      BY <2>1, <3>2, PagesFrame
  <2>5. ASSUME NEW e \in Events \cup {Notice}, Send(v, e), IsReset(e) => e.tree = snap[v].tree,
               \A w \in Viewers : snap'[w].tree = snap[w].tree
        PROVE  PagesInv'
    <3>1. /\ \A w \in Viewers : w # v => page'[w] = page[w]
          /\ page'[v].tree \in {page[v].tree, snap[v].tree}
      BY <2>5, SendShows
    <3>2. \A x \in Nat : NoneNewer(x) => NoneNewer(x)'
      BY <2>1, <2>5, <3>1 DEF NoneNewer
    <3> QED
      BY <2>1, <3>2, PagesFrame
  <2>6. CASE WsReply(v)
    BY <2>5, <2>6, EventProperties DEF WsReply
  <2>7. CASE SnapshotTree(v)
    <3>1. CASE snap[v].tree # 0 /\ Send(v, Reset(snap[v].tree))
      <4>1. snap[v].tree \in 1..MaxTrees
        BY <1>t, <3>1, BoundsAssumption DEF Views, TreeIds
      <4> QED
        BY <2>5, <2>7, <3>1, <4>1, EventProperties DEF SnapshotTree
    <3>2. CASE UNCHANGED page
      BY <1>1, <2>1, <2>7, <3>2 DEF SnapshotTree
    <3> QED
      BY <2>7, <3>1, <3>2 DEF SnapshotTree
  <2>8. ASSUME NEW u \in Uids, SnapshotStatus(v, u) PROVE PagesInv'
    <3> DEFINE mark == snap[v].status[u]
               e == Status(mark.tree, u, mark.status)
    <3>1. mark \in Marks /\ mark # NoStatus
      BY <1>t, <2>8 DEF SnapshotStatus, Views
    <3>2. mark.tree \in 1..MaxTrees /\ mark.status \in Statuses
      BY <3>1 DEF Marks
    <3>3. e \in Events /\ ~IsReset(e) /\ Send(v, e)
      BY <2>8, <3>2, EventProperties DEF SnapshotStatus
    <3>4. \A w \in Viewers : snap'[w].tree = snap[w].tree
      BY <1>t, <2>8 DEF SnapshotStatus, Views
    <3> QED
      BY <2>5, <3>3, <3>4
  <2> QED
    BY <1>11, <2>2, <2>3, <2>4, <2>6, <2>7, <2>8 DEF WsStep
<1>12. CASE UNCHANGED vars
  BY <1>1, <1>12 DEF vars
<1> QED
  BY <1>2, <1>3, <1>4, <1>5, <1>6, <1>7, <1>8, <1>9, <1>10, <1>11, <1>12
     DEF Next, ControlStep, WorkerStep

\* However the resets, the statuses, the snapshots and the restarts interleave,
\* no broadcast takes a viewer back to an older tree or colours the tree it
\* shows with the status of an older one.
THEOREM BroadcastsOrdered == Spec => BroadcastsInOrder
<1>1. Init => PagesInv
  BY NoEventAssumption
     DEF Init, PagesInv, PagesKnown, HandNewer, QueueNewer, QueueAscends, TruthNewest,
         NoneNewer, EmptyView, Hand
<1>2. ASSUME TypeInv, PagesInv, NEW v \in Viewers, BroadcastSend(v)
      PROVE  /\ page'[v].tree >= page[v].tree
             /\ \A u \in Uids : page'[v].status[u] # page[v].status[u]
                                  => page'[v].status[u].tree >= page[v].tree
  <2>1. current \in Events \cup {Notice} /\ Send(v, current)
    BY <1>2 DEF BroadcastSend, TypeInv, TypeOK
  <2>2. Hand => page[v].tree <= current.tree
    BY <1>2 DEF PagesInv, HandNewer, NoneNewer
  <2>3. page[v].tree \in Nat /\ (Hand => current.tree \in Nat)
    BY <1>2, TreeNumbers DEF Hand
  <2>4. IsReset(current) \/ IsStatus(current) => Hand
    BY <2>1, EventProperties DEF Hand
  <2> QED
    BY <1>2, <2>1, <2>2, <2>3, <2>4, SendShows
<1>3. TypeInv /\ PagesInv =>
        [\A v \in Viewers : BroadcastSend(v) =>
           /\ page'[v].tree >= page[v].tree
           /\ \A u \in Uids : page'[v].status[u] # page[v].status[u]
                                => page'[v].status[u].tree >= page[v].tree]_vars
  BY <1>2
<1>4. TypeInv /\ PagesInv /\ [Next]_vars => TypeInv' /\ PagesInv'
  BY NextTypeInv, NextPagesInv
<1> QED
  BY <1>1, <1>3, <1>4, InitTypeInv, PTL DEF Spec, BroadcastsInOrder

=============================================================================
