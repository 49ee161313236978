----------------------------- MODULE MonitorPage -----------------------------
(***************************************************************************)
(* web/index.html against the HTTP queries and the WebSocket of the        *)
(* monitor.  The page asks for the tree, the statuses and the health when  *)
(* it connects, before it opens the socket, and from then on follows the   *)
(* messages.  The monitor is its cached tree and statuses, which change    *)
(* while the page waits; an answer is taken from them when it is given.    *)
(*                                                                         *)
(* The page is single-threaded: between two awaits nothing else of it      *)
(* runs.  Nodes are the same uids in every tree.                           *)
(***************************************************************************)
EXTENDS Integers

CONSTANTS
  Trees,           \* behaviour trees
  Uids,            \* node identifiers
  Statuses,        \* node statuses
  None             \* nothing cached or shown; no tree and no status

VARIABLES
  cachedTree, cachedStatus,    \* latest_tree_message_, latest_status_
  page,            \* where connect() is
  answer,          \* the answers to its three requests, as far as given
  socket,          \* none, connecting or open
  timer,           \* healthTimer is set
  treeRoot, statuses,          \* what the page shows
  online           \* what the page says of the monitor

monitor == <<cachedTree, cachedStatus>>
shown == <<treeRoot, statuses>>
vars == <<monitor, page, answer, socket, timer, shown, online>>

Routes == {"tree.snapshot", "status.snapshot", "bridge.health"}
Blank == [u \in Uids |-> None]
Unanswered == [r \in Routes |-> [status |-> 0]]

Init ==
  /\ cachedTree = None /\ cachedStatus = Blank
  /\ page = "off" /\ answer = Unanswered /\ socket = "none" /\ timer = FALSE
  /\ treeRoot = None /\ statuses = Blank /\ online = FALSE

-----------------------------------------------------------------------------
(* The monitor's side *)

\* process_event() changes the cache, and sends what is new to an open socket.
NewTree(t) ==
  /\ cachedTree' = t /\ cachedStatus' = Blank
  /\ treeRoot' = IF socket = "open" THEN t ELSE treeRoot
  /\ UNCHANGED <<page, answer, socket, timer, statuses, online>>

NewStatus(u, s) ==
  /\ cachedTree # None /\ cachedStatus[u] # s
  /\ cachedStatus' = [cachedStatus EXCEPT ![u] = s]
  /\ statuses' = IF socket = "open" THEN [statuses EXCEPT ![u] = s] ELSE statuses
  /\ UNCHANGED <<cachedTree, page, answer, socket, timer, treeRoot, online>>

\* json_response(): the HTTP status, and the body with its wrapping.
Response(status, code, data) ==
  [status |-> status,
   body |-> [request_code |-> code, request_source |-> "plugin", data |-> data]]

\* handle_http_request(): a tree that is not there is a 503.
Reply(route) ==
  CASE route = "tree.snapshot" -> IF cachedTree = None THEN Response(503, -1, None)
                                                       ELSE Response(200, 0, cachedTree)
    [] route = "status.snapshot" -> Response(200, 0, cachedStatus)
    [] route = "bridge.health" -> Response(200, 0, TRUE)

\* fetch() fails.
Unreachable == [status |-> -1]

Answer(route) ==
  /\ page = "waiting" /\ answer[route].status = 0
  /\ \E a \in {Reply(route), Unreachable} : answer' = [answer EXCEPT ![route] = a]
  /\ UNCHANGED <<monitor, page, socket, timer, shown, online>>

-----------------------------------------------------------------------------
(* The page *)

\* request(): fulfilled if the answer is a 200 whose body has code 0.
Fulfilled(a) ==
  /\ a.status = 200
  /\ "code" \in DOMAIN a.body
  /\ a.body.code = 0

\* connect(), which begins with disconnect(), up to the await.  The button is
\* disabled while it waits.
Connect ==
  /\ page \in {"off", "connected"}
  /\ page' = "waiting" /\ answer' = Unanswered
  /\ socket' = "none" /\ timer' = FALSE
  /\ UNCHANGED <<monitor, shown, online>>

\* The rest of loadSnapshots() and refreshHealth(), when all have answered,
\* and the new socket.
LoadSnapshots ==
  /\ page = "waiting" /\ \A r \in Routes : answer[r].status # 0
  /\ treeRoot' = IF Fulfilled(answer["tree.snapshot"])
                   THEN answer["tree.snapshot"].body.data ELSE treeRoot
  /\ statuses' = IF Fulfilled(answer["status.snapshot"])
                   THEN answer["status.snapshot"].body.data ELSE statuses
  /\ online' = Fulfilled(answer["bridge.health"])
  /\ page' = "loaded" /\ socket' = "connecting" /\ timer' = TRUE
  /\ UNCHANGED <<monitor, answer>>

\* onopen: the session is a viewer of the monitor, and gets its snapshot.
SocketOpens ==
  /\ page = "loaded" /\ socket = "connecting"
  /\ page' = "connected" /\ socket' = "open"
  /\ treeRoot' = IF cachedTree = None THEN treeRoot ELSE cachedTree
  /\ statuses' = [u \in Uids |-> IF cachedStatus[u] = None THEN statuses[u]
                                                          ELSE cachedStatus[u]]
  /\ UNCHANGED <<monitor, answer, timer, online>>

\* onerror and onclose.
SocketCloses ==
  /\ page \in {"loaded", "connected"} /\ socket # "none"
  /\ page' = "off" /\ socket' = "none"
  /\ UNCHANGED <<monitor, answer, timer, shown, online>>

\* refreshHealth() by the timer, which goes on when the socket has closed.
PollHealth ==
  /\ timer
  /\ \E a \in {Reply("bridge.health"), Unreachable} : online' = Fulfilled(a)
  /\ UNCHANGED <<monitor, page, answer, socket, timer, shown>>

Disconnect ==
  /\ page = "connected"
  /\ page' = "off" /\ socket' = "none" /\ timer' = FALSE
  /\ UNCHANGED <<monitor, answer, shown, online>>

Next ==
  \/ \E t \in Trees : NewTree(t)
  \/ \E u \in Uids, s \in Statuses : NewStatus(u, s)
  \/ \E r \in Routes : Answer(r)
  \/ Connect \/ LoadSnapshots \/ SocketOpens \/ SocketCloses \/ PollHealth \/ Disconnect

Spec == Init /\ [][Next]_vars

-----------------------------------------------------------------------------
(* Properties *)

\* A page that has asked for the tree, and was given one, shows it: the page
\* can get the tree and the statuses over HTTP at any time (README), and the
\* wrapping of the answers is the one it expects (json_response()).
SnapshotShown ==
  (page = "loaded" /\ answer["tree.snapshot"].status = 200)
    => treeRoot # None
=============================================================================
