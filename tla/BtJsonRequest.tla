---------------------------- MODULE BtJsonRequest ----------------------------
(***************************************************************************)
(* include/bt_json_request.hpp: one asynchronous JSON request owned by an  *)
(* action node.  Two kinds of thread touch it: the tick thread runs        *)
(* start / tick / cancel / the destructor, and a transport thread runs the *)
(* completion callback, which may come late, after a new start(), during   *)
(* start() itself, or after the object is gone.                            *)
(*                                                                         *)
(* The callback and reset()/cancel() are critical sections of              *)
(* SharedState::mtx, so each is one step; start() and tick() touch the     *)
(* atomics without the mutex and are split where a callback can intervene. *)
(* The 64-bit generation counter is a natural number capped by             *)
(* MaxGeneration in the guards of the node's own calls.                    *)
(***************************************************************************)
EXTENDS Naturals

CONSTANT MaxGeneration   \* bound: no start() or cancel() beyond it

ASSUME MaxGenerationAssumption == MaxGeneration \in Nat

VARIABLES
  pc,              \* where the tick thread is inside start() or tick()
  seen,            \* the state tick() loaded
  state,           \* SharedState::state
  generation,      \* SharedState::generation
  handle,          \* handle_: number of the request it stands for, or 0
  deadlinePassed,  \* steady_clock::now() >= deadline_
  alive,           \* the BtJsonRequest has not been destroyed
  calls,           \* completion callbacks the transport still holds
  issued,          \* history: number of start() calls
  answered,        \* history: what the service answered to each request
  verdict          \* history: what the node was told about each request

vars == <<pc, seen, state, generation, handle, deadlinePassed, alive,
          calls, issued, answered, verdict>>

Requests == 1..MaxGeneration
States == {"Idle", "Pending", "Success", "Failure"}
PCs == {"ready", "arm", "bump", "call", "keep_handle", "fail", "ticking"}
Verdicts == {"none", "SUCCESS", "FAILURE", "dropped", "refused"}
Calls == [gen : Nat, req : Requests]

Init ==
  /\ pc = "ready"
  /\ seen = "Idle"
  /\ state = "Idle"
  /\ generation = 0
  /\ handle = 0
  /\ deadlinePassed = FALSE
  /\ alive = TRUE
  /\ calls = {}
  /\ issued = 0
  /\ answered = [r \in Requests |-> "none"]
  /\ verdict = [r \in Requests |-> "none"]

\* The node learns v about the last request, if it does not know better.
EndWith(v) ==
  verdict' = [r \in Requests |->
                IF r = issued /\ verdict[r] = "none" THEN v ELSE verdict[r]]

\* The node is told v about the last request, whatever it was told before.
Tell(v) ==
  verdict' = [r \in Requests |-> IF r = issued THEN v ELSE verdict[r]]

\* Mutant: a reset that forgets to invalidate the outstanding callbacks.
ResetState_KeepGeneration ==
  /\ UNCHANGED generation
  /\ state' = "Idle"
  /\ handle' = 0

\* Mutant: a reset that keeps the handle of the superseded request.
ResetState_KeepHandle ==
  /\ generation' = generation + 1
  /\ state' = "Idle"
  /\ UNCHANGED handle

\* reset(): a new generation, Idle, no handle (the call is not cancelled).
ResetState ==
  /\ generation' = generation + 1
  /\ state' = "Idle"
  /\ handle' = 0

\* cancel(): as reset(), and the transport is asked to cancel the call.  The
\* transport may still run the callback, so it stays in calls.
CancelState ==
  /\ generation' = generation + 1
  /\ state' = "Idle"
  /\ handle' = 0

-----------------------------------------------------------------------------
(* start() *)

\* reset() at the head of start(); a null reqrep or service goes to fail().
StartReset ==
  /\ pc = "ready" /\ alive
  /\ generation < MaxGeneration /\ issued < MaxGeneration
  /\ ResetState
  /\ EndWith("dropped")
  /\ issued' = issued + 1
  /\ pc' \in {"arm", "fail"}
  /\ UNCHANGED <<seen, deadlinePassed, alive, calls, answered>>

\* The deadline is set, then the state is Pending before the new generation.
StartArm ==
  /\ pc = "arm"
  /\ deadlinePassed' = FALSE
  /\ state' = "Pending"
  /\ pc' = "bump"
  /\ UNCHANGED <<seen, generation, handle, alive, calls, issued, answered,
                 verdict>>

StartBump ==
  /\ pc = "bump"
  /\ generation' = generation + 1
  /\ pc' = "call"
  /\ UNCHANGED <<seen, state, handle, deadlinePassed, alive, calls, issued,
                 answered, verdict>>

\* call_async() accepts the request: from here on the callback may run.
StartSend ==
  /\ pc = "call"
  /\ calls' = calls \cup {[gen |-> generation, req |-> issued]}
  /\ pc' = "keep_handle"
  /\ UNCHANGED <<seen, state, generation, handle, deadlinePassed, alive,
                 issued, answered, verdict>>

\* call_async() returns null.
StartRefused ==
  /\ pc = "call"
  /\ pc' = "fail"
  /\ UNCHANGED <<seen, state, generation, handle, deadlinePassed, alive,
                 calls, issued, answered, verdict>>

\* Mutant: the handle returned by call_async() is thrown away.
StartKeepHandle_Lost ==
  /\ pc = "keep_handle"
  /\ pc' = "ready"
  /\ UNCHANGED <<seen, state, generation, handle, deadlinePassed, alive,
                 calls, issued, answered, verdict>>

\* The handle is stored and start() returns true.
StartKeepHandle ==
  /\ pc = "keep_handle"
  /\ handle' = issued
  /\ pc' = "ready"
  /\ UNCHANGED <<seen, state, generation, deadlinePassed, alive, calls,
                 issued, answered, verdict>>

\* fail(): start() returns false and leaves Failure behind for tick().
StartFail ==
  /\ pc = "fail"
  /\ state' = "Failure"
  /\ EndWith("refused")
  /\ pc' = "ready"
  /\ UNCHANGED <<seen, generation, handle, deadlinePassed, alive, calls,
                 issued, answered>>

-----------------------------------------------------------------------------
(* tick(), cancel(), destruction *)

\* tick() loads the state; everything after works on the loaded value.
TickLoad ==
  /\ pc = "ready" /\ alive
  /\ seen' = state
  /\ pc' = "ticking"
  /\ UNCHANGED <<state, generation, handle, deadlinePassed, alive, calls,
                 issued, answered, verdict>>

\* Pending before the deadline: RUNNING.  Idle: FAILURE.  No effect.
TickNothing ==
  /\ pc = "ticking"
  /\ \/ seen = "Pending" /\ ~deadlinePassed
     \/ seen = "Idle"
  /\ pc' = "ready"
  /\ UNCHANGED <<seen, state, generation, handle, deadlinePassed, alive,
                 calls, issued, answered, verdict>>

\* Mutant: a request past its deadline goes on RUNNING.
TickTimeout_Ignored ==
  /\ pc = "ticking" /\ seen = "Pending" /\ deadlinePassed
  /\ pc' = "ready"
  /\ UNCHANGED <<seen, state, generation, handle, deadlinePassed, alive,
                 calls, issued, answered, verdict>>

\* Past the deadline: cancel() and FAILURE, even if the answer came in
\* between the load and the cancel.
TickTimeout ==
  /\ pc = "ticking" /\ seen = "Pending" /\ deadlinePassed
  /\ CancelState
  /\ Tell("FAILURE")
  /\ pc' = "ready"
  /\ UNCHANGED <<seen, deadlinePassed, alive, calls, issued, answered>>

\* The answer is handed over and reset() makes the request Idle again.
TickAnswer ==
  /\ pc = "ticking"
  /\ \/ seen = "Success" /\ Tell("SUCCESS")
     \/ seen = "Failure" /\ EndWith("FAILURE")
  /\ ResetState
  /\ pc' = "ready"
  /\ UNCHANGED <<seen, deadlinePassed, alive, calls, issued, answered>>

Cancel ==
  /\ pc = "ready" /\ alive
  /\ generation < MaxGeneration
  /\ CancelState
  /\ EndWith("dropped")
  /\ UNCHANGED <<pc, seen, deadlinePassed, alive, calls, issued, answered>>

\* ~BtJsonRequest() cancels; the callbacks hold only a weak pointer.
Destroy ==
  /\ pc = "ready" /\ alive
  /\ CancelState
  /\ EndWith("dropped")
  /\ alive' = FALSE
  /\ UNCHANGED <<pc, seen, deadlinePassed, calls, issued, answered>>

-----------------------------------------------------------------------------
(* the transport and the clock *)

\* Mutant: the callback does not compare its generation.
Accepts_Any(call) == alive

\* weak_state.lock() succeeds and the generation is still the call's own.
Accepts(call) == alive /\ call.gen = generation

\* The completion callback of one call, run once, with the service's answer.
Callback(call, ok) ==
  /\ calls' = calls \ {call}
  /\ answered' = [answered EXCEPT ![call.req] = IF ok THEN "ok" ELSE "failed"]
  /\ state' = IF ~Accepts(call) THEN state
              ELSE IF ok THEN "Success" ELSE "Failure"
  /\ UNCHANGED <<pc, seen, generation, handle, deadlinePassed, alive, issued,
                 verdict>>

DeadlinePasses ==
  /\ state = "Pending" /\ ~deadlinePassed
  /\ deadlinePassed' = TRUE
  /\ UNCHANGED <<pc, seen, state, generation, handle, alive, calls, issued,
                 answered, verdict>>

StartStep == StartReset \/ StartArm \/ StartBump \/ StartSend \/ StartRefused
               \/ StartKeepHandle \/ StartFail
TickStep == TickLoad \/ TickNothing \/ TickTimeout \/ TickAnswer

Next ==
  \/ StartStep \/ TickStep \/ Cancel \/ Destroy \/ DeadlinePasses
  \/ \E call \in calls, ok \in BOOLEAN : Callback(call, ok)

Spec == Init /\ [][Next]_vars

(* The tick thread finishes the call it is in and ticks a live node again   *)
(* every period; time passes.  Nothing is assumed of the transport, which   *)
(* may never answer.                                                        *)
Fairness ==
  /\ WF_vars(StartArm) /\ WF_vars(StartBump) /\ WF_vars(StartKeepHandle)
  /\ WF_vars(StartSend \/ StartRefused) /\ WF_vars(StartFail)
  /\ WF_vars(TickStep)
  /\ WF_vars(DeadlinePasses)

FairSpec == Spec /\ Fairness

-----------------------------------------------------------------------------
(* Properties *)

\* Every variable has its type; handle_ never stands for an older request.
TypeOK ==
  /\ pc \in PCs
  /\ seen \in States
  /\ state \in States
  /\ generation \in Nat
  /\ handle \in {0, issued}
  /\ deadlinePassed \in BOOLEAN
  /\ alive \in BOOLEAN
  /\ calls \in SUBSET Calls
  /\ issued \in 0..MaxGeneration
  /\ answered \in [Requests -> {"none", "ok", "failed"}]
  /\ verdict \in [Requests -> Verdicts]

\* A Success waiting in the shared state is the answer to the last request
\* and to no earlier one: the late answer of a request that timed out, was
\* halted or was superseded by start() never takes its place.
SuccessIsOwnAnswer ==
  state = "Success" =>
    issued \in Requests /\ answered[issued] = "ok" /\ verdict[issued] = "none"

\* SUCCESS is told only for a request the service itself answered with ok.
SuccessMeansAnswered ==
  \A r \in Requests : verdict[r] = "SUCCESS" => answered[r] = "ok"

\* Once the node has been told that a request timed out, failed, was refused
\* or was dropped, no later tick turns it into a success.
VerdictIsFinal ==
  [][\A r \in Requests : verdict[r] # "none" /\ verdict[r] # verdict'[r]
                            => verdict'[r] # "SUCCESS"]_vars

\* Between calls a pending request can be cancelled at the service: handle_
\* is the handle of that very request, so cancel() reaches it.
CancelReachesService ==
  pc = "ready" /\ state = "Pending" => handle = issued

\* A request always ends: the deadline bounds it even if no answer comes.
RequestEnds ==
  \A r \in Requests :
    (issued = r /\ verdict[r] = "none" /\ alive) ~> (verdict[r] # "none" \/ ~alive)

-----------------------------------------------------------------------------
(* Refinement *)

Phase == [Idle |-> "idle", Pending |-> "waiting", Success |-> "answered_ok",
          Failure |-> "answered_failed"][state]

Abstract == INSTANCE AsyncRequest WITH request <- issued, phase <- Phase

\* Seen by its node, the request behaves as AsyncRequest promises.
ImplementsAsyncRequest == Abstract!Spec
=============================================================================
