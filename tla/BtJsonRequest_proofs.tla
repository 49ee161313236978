------------------------ MODULE BtJsonRequest_proofs ------------------------
(***************************************************************************)
(* Proofs about BtJsonRequest for every bound MaxGeneration.  The heart of *)
(* the inductive invariant is CallsOK: a callback that would still pass    *)
(* the generation test belongs to the last request, which is pending.      *)
(***************************************************************************)
EXTENDS BtJsonRequest, TLAPS

\* Requests not issued yet have no history.
HistoryOK ==
  \A r \in Requests : r > issued => answered[r] = "none" /\ verdict[r] = "none"

\* The outstanding callbacks, and which of them the generation lets in.
CallsOK ==
  /\ \A c \in calls : /\ c.gen <= generation
                      /\ c.req <= issued
                      /\ answered[c.req] = "none"
  /\ \A c, d \in calls : c.req = d.req => c = d
  /\ \A c \in calls : c.gen = generation =>
       /\ c.req = issued
       /\ state = "Pending"
       /\ pc \in {"keep_handle", "ready", "ticking"}

\* Inside start(): the new request is not known to the transport yet.
StartOK ==
  /\ pc \in {"arm", "bump", "call", "fail"} =>
       /\ issued \in Requests
       /\ verdict[issued] = "none"
       /\ answered[issued] = "none"
       /\ \A c \in calls : c.req < issued
  /\ pc = "arm" => state = "Idle"
  /\ pc \in {"bump", "call"} => state = "Pending"
  /\ pc = "fail" => state \in {"Idle", "Pending"}
  /\ pc = "keep_handle" => state # "Idle"

\* The shared state and the verdict of the last request agree.
StateOK ==
  /\ state \in {"Pending", "Success"} =>
       issued \in Requests /\ verdict[issued] = "none"
  /\ state = "Success" => answered[issued] = "ok"
  /\ state = "Failure" => issued \in Requests
                            /\ verdict[issued] \in {"none", "refused"}
  /\ pc \in {"ready", "ticking"} /\ state = "Pending" => handle = issued

\* The state tick() loaded is current, except that a request loaded as
\* pending may have been answered since.
TickOK ==
  /\ pc = "ticking" /\ seen # "Pending" => state = seen
  /\ pc = "ticking" /\ seen = "Pending" =>
       state # "Idle" /\ issued \in Requests /\ verdict[issued] = "none"

IInv == TypeOK /\ HistoryOK /\ CallsOK /\ StartOK /\ StateOK /\ TickOK
          /\ SuccessMeansAnswered

LEMMA InitIInv == Init => IInv
<1> SUFFICES ASSUME Init PROVE IInv
  OBVIOUS
<1> USE MaxGenerationAssumption
    DEF Init, PCs, States, Requests, Verdicts, Calls
<1>1. TypeOK
  <2>1. alive \in BOOLEAN /\ deadlinePassed \in BOOLEAN
    BY ZenonT(30)
  <2>2. answered \in [Requests -> {"none", "ok", "failed"}]
    OBVIOUS
  <2>3. verdict \in [Requests -> Verdicts]
    OBVIOUS
  <2> QED
    BY <2>1, <2>2, <2>3 DEF TypeOK
<1>2. HistoryOK /\ SuccessMeansAnswered
  BY DEF HistoryOK, SuccessMeansAnswered
<1>3. CallsOK /\ StartOK
  BY DEF CallsOK, StartOK
<1>4. StateOK /\ TickOK
  BY DEF StateOK, TickOK
<1> QED
  BY <1>1, <1>2, <1>3, <1>4 DEF IInv

LEMMA NextIInv == IInv /\ [Next]_vars => IInv'
<1> SUFFICES ASSUME IInv, [Next]_vars PROVE IInv'
  OBVIOUS
<1> USE MaxGenerationAssumption
    DEF IInv, TypeOK, HistoryOK, CallsOK, StartOK, StateOK, TickOK,
        SuccessMeansAnswered, PCs, States, Requests, Verdicts, Calls
<1>1. CASE StartReset
  BY <1>1 DEF StartReset, ResetState, EndWith
<1>2. CASE StartArm
  BY <1>2 DEF StartArm
<1>3. CASE StartBump
  BY <1>3 DEF StartBump
<1>4. CASE StartSend
  BY <1>4 DEF StartSend
<1>5. CASE StartRefused
  BY <1>5 DEF StartRefused
<1>6. CASE StartKeepHandle
  BY <1>6 DEF StartKeepHandle
<1>7. CASE StartFail
  BY <1>7 DEF StartFail, EndWith
<1>8. CASE TickLoad
  BY <1>8 DEF TickLoad
<1>9. CASE TickNothing
  BY <1>9 DEF TickNothing
<1>10. CASE TickTimeout
  BY <1>10 DEF TickTimeout, CancelState, Tell
<1>11. CASE TickAnswer
  BY <1>11 DEF TickAnswer, ResetState, Tell, EndWith
<1>12. CASE Cancel
  BY <1>12 DEF Cancel, CancelState, EndWith
<1>13. CASE Destroy
  <2> USE <1>13 DEF Destroy, CancelState, EndWith
  <2>1. TypeOK'
    <3>1. alive' \in BOOLEAN
      BY ZenonT(30)
    <3>2. verdict' \in [Requests -> Verdicts]
      OBVIOUS
    <3> QED
      BY <3>1, <3>2
  <2>2. HistoryOK' /\ CallsOK'
    OBVIOUS
  <2>3. StartOK' /\ StateOK' /\ TickOK' /\ SuccessMeansAnswered'
    OBVIOUS
  <2> QED
    BY <2>1, <2>2, <2>3
<1>14. CASE DeadlinePasses
  BY <1>14 DEF DeadlinePasses
<1>15. ASSUME NEW call \in calls, NEW ok \in BOOLEAN, Callback(call, ok)
       PROVE  IInv'
  BY <1>15 DEF Callback, Accepts
<1>16. CASE UNCHANGED vars
  BY <1>16 DEF vars
<1>17. QED
  BY <1>1, <1>2, <1>3, <1>4, <1>5, <1>6, <1>7, <1>8, <1>9, <1>10, <1>11,
     <1>12, <1>13, <1>14, <1>15, <1>16 DEF Next, StartStep, TickStep

\* IInv holds in every reachable state.
THEOREM Invariance == Spec => []IInv
  BY InitIInv, NextIInv, PTL DEF Spec

\* Every variable keeps its type, and handle_ never stands for an older
\* request.
THEOREM TypeCorrect == Spec => []TypeOK
  BY Invariance, PTL DEF IInv

\* A Success held for the node is the answer of its last request: the
\* generation test in the callback keeps every late answer out.
THEOREM OwnAnswer == Spec => []SuccessIsOwnAnswer
<1>1. IInv => SuccessIsOwnAnswer
  BY DEF IInv, StateOK, SuccessIsOwnAnswer
<1> QED
  BY Invariance, <1>1, PTL

\* tick() returns SUCCESS only for a request the service answered with ok.
THEOREM SuccessAnswered == Spec => []SuccessMeansAnswered
  BY Invariance, PTL DEF IInv

\* cancel() between two calls reaches the pending request at the service.
THEOREM CancelReaches == Spec => []CancelReachesService
<1>1. IInv => CancelReachesService
  BY DEF IInv, StateOK, CancelReachesService
<1> QED
  BY Invariance, <1>1, PTL

\* A request that timed out, failed, was refused or was dropped never turns
\* into a success.
THEOREM FinalVerdict == Spec => VerdictIsFinal
<1> DEFINE Final == \A r \in Requests :
                      verdict[r] # "none" /\ verdict[r] # verdict'[r]
                        => verdict'[r] # "SUCCESS"
<1>1. IInv /\ [Next]_vars => Final
  <2> SUFFICES ASSUME IInv, [Next]_vars PROVE Final
    OBVIOUS
  <2> USE DEF IInv, TypeOK
  <2>1. CASE StartReset \/ StartFail \/ Cancel \/ Destroy
    BY <2>1 DEF StartReset, StartFail, Cancel, Destroy, EndWith
  <2>2. CASE TickTimeout
    BY <2>2 DEF TickTimeout, Tell
  <2>3. CASE TickAnswer
    <3>1. CASE seen = "Success" /\ Tell("SUCCESS")
      BY <2>3, <3>1 DEF TickAnswer, Tell, TickOK, StateOK
    <3>2. CASE EndWith("FAILURE")
      BY <3>2 DEF EndWith
    <3> QED
      BY <2>3, <3>1, <3>2 DEF TickAnswer
  <2>4. CASE UNCHANGED verdict
    BY <2>4
  <2> QED
    BY <2>1, <2>2, <2>3, <2>4
    DEF Next, StartStep, TickStep, vars, StartArm, StartBump, StartSend,
        StartRefused, StartKeepHandle, TickLoad, TickNothing, Callback,
        DeadlinePasses
<1> QED
  BY Invariance, <1>1, PTL DEF Spec, VerdictIsFinal

-----------------------------------------------------------------------------
(* Refinement *)

\* The value of Phase in each state.
LEMMA PhaseValue ==
  /\ state = "Idle" => Phase = "idle"
  /\ state = "Pending" => Phase = "waiting"
  /\ state = "Success" => Phase = "answered_ok"
  /\ state = "Failure" => Phase = "answered_failed"
  BY DEF Phase

\* The value of Phase after a step.
LEMMA PhaseValueNext ==
  /\ state' = "Idle" => Phase' = "idle"
  /\ state' = "Pending" => Phase' = "waiting"
  /\ state' = "Success" => Phase' = "answered_ok"
  /\ state' = "Failure" => Phase' = "answered_failed"
  /\ UNCHANGED state => UNCHANGED Phase
  BY DEF Phase

\* Every step of the code is a step of AsyncRequest or a stutter.
LEMMA StepRefines == IInv /\ [Next]_vars => [Abstract!Next]_(Abstract!asyncVars)
<1> SUFFICES ASSUME IInv, [Next]_vars
             PROVE  [Abstract!Next]_(Abstract!asyncVars)
  OBVIOUS
<1> USE PhaseValue, PhaseValueNext DEF Abstract!Next, Abstract!asyncVars
<1>1. CASE StartReset
  <2>1. issued + 1 \in Requests
    BY <1>1, MaxGenerationAssumption DEF StartReset, IInv, TypeOK, Requests
  <2>2. Abstract!Begin
    BY <1>1, <2>1 DEF StartReset, ResetState, EndWith, Abstract!Begin,
                      Abstract!EndWith
  <2> QED
    BY <2>2
<1>2. CASE StartArm
  BY <1>2 DEF StartArm, Abstract!Wait, IInv, StartOK
<1>3. CASE StartFail
  BY <1>3 DEF StartFail, EndWith, Abstract!Refuse, Abstract!EndWith, IInv,
              StartOK
<1>4. CASE TickTimeout
  <2>1. verdict[issued] = "none"
    BY <1>4 DEF TickTimeout, IInv, TickOK
  <2>2. EndWith("FAILURE")
    BY <1>4, <2>1 DEF TickTimeout, Tell, EndWith
  <2>3. Abstract!GiveUp
    BY <1>4, <2>2 DEF TickTimeout, CancelState, EndWith, Abstract!GiveUp,
                      Abstract!EndWith
  <2> QED
    BY <2>3
<1>5. CASE TickAnswer
  <2>1. CASE seen = "Success" /\ Tell("SUCCESS")
    <3>1. state = "Success" /\ verdict[issued] = "none"
      BY <1>5, <2>1 DEF TickAnswer, IInv, TickOK, StateOK
    <3>2. EndWith("SUCCESS")
      BY <2>1, <3>1 DEF Tell, EndWith
    <3> QED
      BY <1>5, <3>1, <3>2 DEF TickAnswer, ResetState, EndWith,
                              Abstract!Deliver, Abstract!EndWith
  <2>2. CASE seen = "Failure" /\ EndWith("FAILURE")
    BY <1>5, <2>2 DEF TickAnswer, IInv, TickOK, ResetState, EndWith,
                      Abstract!Deliver, Abstract!EndWith
  <2> QED
    BY <1>5, <2>1, <2>2 DEF TickAnswer
<1>6. CASE Cancel \/ Destroy
  BY <1>6 DEF Cancel, Destroy, CancelState, EndWith, Abstract!GiveUp,
              Abstract!EndWith
<1>7. ASSUME NEW call \in calls, NEW ok \in BOOLEAN, Callback(call, ok)
      PROVE  [Abstract!Next]_(Abstract!asyncVars)
  <2>1. CASE Accepts(call)
    <3>1. state = "Pending"
      BY <2>1 DEF Accepts, IInv, CallsOK
    <3> QED
      BY <1>7, <2>1, <3>1 DEF Callback, Abstract!Answer
  <2>2. CASE ~Accepts(call)
    BY <1>7, <2>2 DEF Callback
  <2> QED
    BY <2>1, <2>2
<1>8. CASE UNCHANGED <<issued, state, verdict>>
  BY <1>8
<1> QED
  BY <1>1, <1>2, <1>3, <1>4, <1>5, <1>6, <1>7, <1>8
  DEF Next, StartStep, TickStep, vars, StartBump, StartSend, StartRefused,
      StartKeepHandle, TickLoad, TickNothing, DeadlinePasses

\* BtJsonRequest implements AsyncRequest for every number of requests.
THEOREM Refinement == Spec => ImplementsAsyncRequest
<1>1. Init => Abstract!Init
  BY PhaseValue DEF Init, Abstract!Init
<1> QED
  BY <1>1, StepRefines, Invariance, PTL
  DEF Spec, ImplementsAsyncRequest, Abstract!Spec
=============================================================================
