---------------------------- MODULE AsyncRequest ----------------------------
(***************************************************************************)
(* What a behaviour tree node is promised about an asynchronous service    *)
(* call, whatever the threads do: the requests of one node are numbered,   *)
(* only the last one is live, it reaches at most one verdict, and success  *)
(* is reported only for a request whose own answer was a success.          *)
(* BtJsonRequest (include/bt_json_request.hpp) implements this.            *)
(***************************************************************************)
EXTENDS Naturals

CONSTANT Requests        \* the numbers requests can have

VARIABLES
  request,               \* number of the last request, 0 before the first
  phase,                 \* what is known of the last request
  verdict                \* verdict[r]: what the node was told about r

asyncVars == <<request, phase, verdict>>

Phases == {"idle", "waiting", "answered_ok", "answered_failed"}

Init ==
  /\ request = 0
  /\ phase = "idle"
  /\ verdict = [r \in Requests |-> "none"]

\* The last request ends with v unless it already has a verdict.
EndWith(v) ==
  verdict' = [r \in Requests |->
                IF r = request /\ verdict[r] = "none" THEN v ELSE verdict[r]]

\* A new request supersedes the last one.
Begin ==
  /\ request + 1 \in Requests
  /\ request' = request + 1
  /\ phase' = "idle"
  /\ EndWith("dropped")

Wait ==
  /\ phase = "idle"
  /\ request \in Requests
  /\ verdict[request] = "none"
  /\ phase' = "waiting"
  /\ UNCHANGED <<request, verdict>>

\* The service answers the live request, and that request only.
Answer ==
  /\ phase = "waiting"
  /\ phase' \in {"answered_ok", "answered_failed"}
  /\ UNCHANGED <<request, verdict>>

\* The request could not be sent.
Refuse ==
  /\ phase \in {"idle", "waiting"}
  /\ phase' = "answered_failed"
  /\ EndWith("refused")
  /\ UNCHANGED request

\* The node is told the answer; it is told once.
Deliver ==
  /\ \/ phase = "answered_ok" /\ EndWith("SUCCESS")
     \/ phase = "answered_failed" /\ EndWith("FAILURE")
  /\ phase' = "idle"
  /\ UNCHANGED request

\* Deadline, halt or destruction: whatever was known is forgotten.
GiveUp ==
  /\ \E v \in {"FAILURE", "dropped"} : EndWith(v)
  /\ phase' = "idle"
  /\ UNCHANGED request

Next == Begin \/ Wait \/ Answer \/ Refuse \/ Deliver \/ GiveUp

Spec == Init /\ [][Next]_asyncVars
=============================================================================
