----------------------- MODULE JogJointToAngle_proofs -----------------------
(***************************************************************************)
(* Proofs about JogJointToAngle for any robots and motions.  The invariant *)
(* is inductive once the node's record of its press is known to agree with *)
(* the press it began (TypeOK), and a press is only asked for when         *)
(* pressing_ is false (PlanOK); PressIsHeld is a part of it.               *)
(***************************************************************************)
EXTENDS JogJointToAngle, TLAPS

\* A LongPressStart follows a stopPressing().
PlanOK == pc = "press" => ~pressing

\* Inside a tick or a halt the node is running.
NodeOK == pc # "idle" => node = "RUNNING"

IInv == TypeOK /\ PlanOK /\ NodeOK /\ NoForgottenPress /\ PressIsHeld

LEMMA InitIInv == Init => IInv
<1> SUFFICES ASSUME Init PROVE IInv
  OBVIOUS
<1> USE DEF Init
<1>1. TypeOK
  BY DEF TypeOK, Verdicts
<1>2. PlanOK /\ NodeOK /\ NoForgottenPress /\ PressIsHeld
  BY DEF PlanOK, NodeOK, NoForgottenPress, PressIsHeld
<1> QED
  BY <1>1, <1>2 DEF IInv

LEMMA NextIInv == IInv /\ [Next]_vars => IInv'
<1> SUFFICES ASSUME IInv, [Next]_vars PROVE IInv'
  OBVIOUS
<1> USE NoPressAssumption
    DEF IInv, TypeOK, PlanOK, NodeOK, NoForgottenPress, PressIsHeld, Own, Verdicts, Actives,
        Directions, Presses, tick, press, clock, manager, robot,
        End, StayRunning, ReleaseThen, AfterRelease, Forget, Named, Usable
<1>1. CASE OnStart
  BY <1>1 DEF OnStart
<1>2. CASE OnRunning
  BY <1>2 DEF OnRunning
<1>3. CASE OnHalted
  BY <1>3 DEF OnHalted
<1>4. CASE TickDisconnected
  BY <1>4 DEF TickDisconnected
<1>5. CASE TickNoInput
  BY <1>5 DEF TickNoInput
<1>6. ASSUME NEW m \in Motions, TickReject(m) PROVE IInv'
  BY <1>6 DEF TickReject
<1>7. ASSUME NEW m \in Motions, TickArrived(m) PROVE IInv'
  BY <1>7 DEF TickArrived
<1>8. ASSUME NEW r \in Robots, NEW d \in Directions, NEW m \in Motions,
             TickTurn(r, d, m)
      PROVE  IInv'
  BY <1>8 DEF TickTurn
<1>9. ASSUME NEW r \in Robots, NEW d \in Directions, NEW m \in Motions,
             TickHold(r, d, m)
      PROVE  IInv'
  BY <1>9 DEF TickHold
<1>10. CASE ReleaseNothing
  BY <1>10 DEF ReleaseNothing
<1>11. CASE ReleaseStopping
  BY <1>11 DEF ReleaseStopping
<1>12. CASE ReleaseSent
  <2> USE <1>12 DEF ReleaseSent
  <2>1. TypeOK'
    <3>1. pressing' = FALSE /\ UNCHANGED <<clock, manager, lastMotion>>
      OBVIOUS
    <3> QED
      BY <3>1
  <2>2. PlanOK' /\ NodeOK' /\ PressIsHeld'
    OBVIOUS
  <2>3. held \subseteq lost \cup {begun}
    OBVIOUS
  <2>4. begun = Named \/ begun.motion # lastMotion
    <3> SUFFICES ASSUME begun.motion = lastMotion PROVE begun = Named
      OBVIOUS
    <3>1. begun \in Presses /\ active = [robot |-> begun.robot, dir |-> begun.dir]
      OBVIOUS
    <3> QED
      BY <3>1
  <2>5. held' \subseteq lost'
    BY <2>3, <2>4
  <2>6. NoForgottenPress'
    BY <2>5
  <2> QED
    BY <2>1, <2>2, <2>6
<1>13. CASE ReleaseFailed
  BY <1>13 DEF ReleaseFailed
<1>14. CASE PressSent
  BY <1>14 DEF PressSent
<1>15. CASE PressFailed
  BY <1>15 DEF PressFailed
<1>16. CASE HoldSent
  BY <1>16 DEF HoldSent
<1>17. CASE HoldFailed
  BY <1>17 DEF HoldFailed
<1>18. CASE Environment
  <2>1. CASE SetConnected
    <3>1. connected' \in BOOLEAN
      BY <2>1, ZenonT(30) DEF SetConnected
    <3> QED
      BY <2>1, <3>1 DEF SetConnected
  <2>2. CASE BeginShutdown
    BY <2>2 DEF BeginShutdown
  <2>3. CASE Second
    BY <2>3 DEF Second
  <2>4. CASE Minute
    <3>1. due' \in BOOLEAN /\ overdue' \in BOOLEAN
      BY <2>4, ZenonT(30) DEF Minute
    <3> QED
      BY <2>4, <3>1 DEF Minute
  <2> QED
    BY <1>18, <2>1, <2>2, <2>3, <2>4 DEF Environment
<1>19. CASE UNCHANGED vars
  BY <1>19 DEF vars
<1> QED
  BY <1>1, <1>2, <1>3, <1>4, <1>5, <1>6, <1>7, <1>8, <1>9, <1>10, <1>11,
     <1>12, <1>13, <1>14, <1>15, <1>16, <1>17, <1>18, <1>19
     DEF Next, TickStep, TickRead, Requesting

\* IInv holds in every reachable state.
THEOREM Invariance == Spec => []IInv
  BY InitIInv, NextIInv, PTL DEF Spec

\* The node's record of its press has its type and agrees with what it began.
THEOREM TypeCorrect == Spec => []TypeOK
  BY Invariance, PTL DEF IInv

\* Whatever the tick, the connection, the shutdown and the clock do, no press
\* outlives the node but for one of the four reasons.
THEOREM PressAccounted == Spec => []NoForgottenPress
  BY Invariance, PTL DEF IInv

\* What a running node goes on pressing is what the robot is under.
THEOREM HeldIsPressed == Spec => []PressIsHeld
  BY Invariance, PTL DEF IInv
=============================================================================
