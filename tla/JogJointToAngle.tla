--------------------------- MODULE JogJointToAngle ---------------------------
(***************************************************************************)
(* The node of include/bt_action/jog_joint_to_angle.hpp, which moves a     *)
(* joint by keeping a jog button of the robot pressed: LongPressStart,     *)
(* LongPressing every second, LongPressEnd.  The node remembers what it    *)
(* presses, the robot has its own idea, and the two are kept together by   *)
(* requests that may fail either way.                                      *)
(*                                                                         *)
(* A tick blocks in each request, for up to five seconds; meanwhile the    *)
(* connection, the shutdown flag and the clock change.  Ticks and halts of *)
(* a node exclude each other (BTManager's tree_mtx_).                      *)
(*                                                                         *)
(* Assumed of the robot, which is not in the repository: a press is        *)
(* identified by robot, direction and motion, a robot may be under several, *)
(* LongPressEnd releases the press it names, LongPressing neither begins   *)
(* nor releases one, be its motion_id that of the press or another, and a  *)
(* request that fails has taken effect before the call returns or never    *)
(* does.                                                                   *)
(***************************************************************************)
EXTENDS Integers

CONSTANTS
  Robots,          \* the valid robot_sel
  Motions,         \* the valid motion_id
  NoPress          \* nothing is pressed

Directions == {-1, 1}
Presses == [robot : Robots, dir : Directions, motion : Motions]

ASSUME NoPressAssumption == NoPress \notin Presses

VARIABLES
  node,            \* RUNNING, or IDLE: not started, ended or halted
  pc,              \* where tickImpl() or onHalted() is
  after,           \* what follows the stopPressing() under way
  plan,            \* the press that a LongPressStart will ask for
  pressing,        \* pressing_
  active,          \* active_robot_ and active_direction_
  lastMotion,      \* last_motion_id_
  due,             \* a second has passed since last_pressing_
  overdue,         \* sixty seconds have passed since start_
  connected,       \* conn_codeit_
  stopping,        \* stopping_
  held,            \* the presses the robot is under
  begun,           \* history: the press pressing_ stands for
  lost             \* history: presses the node had reason to lose sight of

tick == <<node, pc, after, plan>>
press == <<pressing, active, lastMotion>>
clock == <<due, overdue>>
manager == <<connected, stopping>>
robot == <<held, lost>>
vars == <<tick, press, clock, manager, robot, begun>>

Actives == [robot : Robots, dir : Directions]
Verdicts == {"SUCCESS", "FAILURE", "HALTED"}

Init ==
  /\ node = "IDLE" /\ pc = "idle" /\ after = "FAILURE" /\ plan = NoPress
  /\ pressing = FALSE /\ active = NoPress /\ lastMotion \in Motions
  /\ due = FALSE /\ overdue = FALSE
  /\ connected \in BOOLEAN /\ stopping = FALSE
  /\ held = {} /\ begun = NoPress /\ lost = {}

-----------------------------------------------------------------------------
(* Helpers *)

\* The press that pressing_ stands for, if there is one.
Own == IF pressing THEN {begun} ELSE {}

\* The node returns to the tree with a verdict.
End ==
  node' = "IDLE" /\ pc' = "idle"

StayRunning ==
  pc' = "idle" /\ UNCHANGED <<node, after, plan>>

\* stopPressing(), and then what comes after it.
ReleaseThen(what) ==
  pc' = "release" /\ after' = what /\ UNCHANGED node

-----------------------------------------------------------------------------
(* The tree calls the node *)

\* onStart(): what was pressed is forgotten, not released.
OnStart ==
  /\ pc = "idle" /\ node = "IDLE"
  /\ node' = "RUNNING" /\ pc' = "tick"
  /\ pressing' = FALSE /\ active' = NoPress
  /\ due' = FALSE /\ overdue' = FALSE
  /\ begun' = NoPress
  /\ UNCHANGED <<after, plan, lastMotion, manager, robot>>

OnRunning ==
  /\ pc = "idle" /\ node = "RUNNING"
  /\ pc' = "tick"
  /\ UNCHANGED <<node, after, plan, press, clock, manager, robot, begun>>

\* Mutant: onHalted() does nothing.
OnHalted_Ignored ==
  /\ pc = "idle" /\ node = "RUNNING"
  /\ End
  /\ UNCHANGED <<after, plan, press, clock, manager, robot, begun>>

OnHalted ==
  /\ pc = "idle" /\ node = "RUNNING"
  /\ ReleaseThen("HALTED")
  /\ UNCHANGED <<plan, press, clock, manager, robot, begun>>

-----------------------------------------------------------------------------
(* tickImpl() up to its first request *)

Usable == connected /\ ~stopping

\* The node fails at once and releases nothing: a press is lost.
TickDisconnected ==
  /\ pc = "tick" /\ ~Usable
  /\ End
  /\ lost' = lost \cup Own
  /\ UNCHANGED <<after, plan, press, clock, manager, held, begun>>

\* The robot_sel input is missing: last_motion_id_ keeps its old value.
TickNoInput ==
  /\ pc = "tick" /\ Usable
  /\ ReleaseThen("FAILURE")
  /\ UNCHANGED <<plan, press, clock, manager, robot, begun>>

\* An input is out of range, the time is up, or the cached robot state says
\* that the joint does not exist, is disabled or that the system is off.  (The
\* code keeps a motion_id that is out of range too; like any other motion but
\* that of the press, it makes LongPressEnd miss, once, and pressing_ is false
\* then.)
TickReject(m) ==
  /\ pc = "tick" /\ Usable
  /\ lastMotion' = m
  /\ ReleaseThen("FAILURE")
  /\ UNCHANGED <<plan, pressing, active, clock, manager, robot, begun>>

\* The joint is within the tolerance of the target.
TickArrived(m) ==
  /\ pc = "tick" /\ Usable /\ ~overdue
  /\ lastMotion' = m
  /\ ReleaseThen("SUCCESS")
  /\ UNCHANGED <<plan, pressing, active, clock, manager, robot, begun>>

\* What is pressed already moves robot r towards the target.  The motion is
\* not compared.
Presses_Right(r, d) == pressing /\ active = [robot |-> r, dir |-> d]

\* Nothing is pressed, or another robot, or the other direction.
TickTurn(r, d, m) ==
  /\ pc = "tick" /\ Usable /\ ~overdue
  /\ ~Presses_Right(r, d)
  /\ lastMotion' = m
  /\ plan' = [robot |-> r, dir |-> d, motion |-> m]
  /\ ReleaseThen("press")
  /\ UNCHANGED <<pressing, active, clock, manager, robot, begun>>

\* Mutant: the sixty seconds are not looked at.
TickHold_NoDeadline(r, d, m) ==
  /\ pc = "tick" /\ Usable
  /\ Presses_Right(r, d)
  /\ lastMotion' = m
  /\ \/ due /\ pc' = "hold" /\ UNCHANGED <<node, after, plan>>
     \/ ~due /\ StayRunning
  /\ UNCHANGED <<pressing, active, clock, manager, robot, begun>>

TickHold(r, d, m) ==
  /\ pc = "tick" /\ Usable /\ ~overdue
  /\ Presses_Right(r, d)
  /\ lastMotion' = m
  /\ \/ due /\ pc' = "hold" /\ UNCHANGED <<node, after, plan>>
     \/ ~due /\ StayRunning
  /\ UNCHANGED <<pressing, active, clock, manager, robot, begun>>

-----------------------------------------------------------------------------
(* sendJog() and stopPressing() *)

\* stopPressing() has returned.
AfterRelease ==
  /\ UNCHANGED <<after, plan>>
  /\ \/ after \in Verdicts /\ End
     \/ after = "press" /\ pc' = "press" /\ UNCHANGED node

ReleaseNothing ==
  /\ pc = "release" /\ ~pressing
  /\ AfterRelease
  /\ UNCHANGED <<press, clock, manager, robot, begun>>

Forget == pressing' = FALSE /\ active' = NoPress /\ begun' = NoPress

\* No request is sent during the shutdown: the press is lost.
ReleaseStopping ==
  /\ pc = "release" /\ pressing /\ stopping
  /\ Forget
  /\ lost' = lost \cup {begun}
  /\ AfterRelease
  /\ UNCHANGED <<lastMotion, clock, manager, held>>

\* The press a LongPressEnd names: the motion is that of the last tick.
Named == [robot |-> active.robot, dir |-> active.dir, motion |-> lastMotion]

\* LongPressEnd succeeds.  When the motion_id input has changed since the
\* start it names another press, and the node's own is lost.
ReleaseSent ==
  /\ pc = "release" /\ pressing /\ ~stopping
  /\ Forget
  /\ held' = held \ {Named}
  /\ lost' = (lost \ {Named}) \cup (IF begun.motion # lastMotion THEN {begun} ELSE {})
  /\ AfterRelease
  /\ UNCHANGED <<lastMotion, clock, manager>>

\* Mutant: a LongPressEnd that fails leaves pressing_ as it is.
ReleaseFailed_KeepsPressing ==
  /\ pc = "release" /\ pressing /\ ~stopping
  /\ held' \in {held, held \ {Named}}
  /\ AfterRelease
  /\ UNCHANGED <<press, clock, manager, begun, lost>>

\* LongPressEnd fails, which nobody looks at: the press may be lost.
ReleaseFailed ==
  /\ pc = "release" /\ pressing /\ ~stopping
  /\ Forget
  /\ held' \in {held, held \ {Named}}
  /\ lost' = (lost \cup {begun}) \cap held'
  /\ AfterRelease
  /\ UNCHANGED <<lastMotion, clock, manager>>

\* Mutant: the node forgets which direction it presses.
PressSent_NoActive ==
  /\ pc = "press" /\ ~stopping
  /\ held' = held \cup {plan} /\ lost' = lost \ {plan}
  /\ pressing' = TRUE
  /\ begun' = plan
  /\ due' = FALSE
  /\ StayRunning
  /\ UNCHANGED <<active, lastMotion, overdue, manager>>

\* LongPressStart succeeds.
PressSent ==
  /\ pc = "press" /\ ~stopping
  /\ held' = held \cup {plan} /\ lost' = lost \ {plan}
  /\ pressing' = TRUE
  /\ active' = [robot |-> plan.robot, dir |-> plan.dir]
  /\ begun' = plan
  /\ due' = FALSE
  /\ StayRunning
  /\ UNCHANGED <<lastMotion, overdue, manager>>

\* LongPressStart fails.  The stopPressing() that follows does nothing,
\* pressing_ being false: if the robot has carried it out, the press is lost.
PressFailed ==
  /\ pc = "press"
  /\ \/ UNCHANGED robot
     \/ ~stopping /\ held' = held \cup {plan} /\ lost' = lost \cup {plan}
  /\ End
  /\ UNCHANGED <<after, plan, press, clock, manager, begun>>

HoldSent ==
  /\ pc = "hold" /\ ~stopping
  /\ due' = FALSE
  /\ StayRunning
  /\ UNCHANGED <<press, overdue, manager, robot, begun>>

HoldFailed ==
  /\ pc = "hold"
  /\ ReleaseThen("FAILURE")
  /\ UNCHANGED <<plan, press, clock, manager, robot, begun>>

-----------------------------------------------------------------------------
(* The rest of the program, at any time *)

SetConnected ==
  /\ connected' = ~connected
  /\ UNCHANGED <<tick, press, clock, stopping, robot, begun>>

BeginShutdown ==
  /\ stopping' = TRUE
  /\ UNCHANGED <<tick, press, clock, connected, robot, begun>>

Second ==
  /\ ~due /\ due' = TRUE
  /\ UNCHANGED <<tick, press, overdue, manager, robot, begun>>

Minute ==
  /\ ~overdue /\ overdue' = TRUE
  /\ UNCHANGED <<tick, press, due, manager, robot, begun>>

TickRead ==
  \E m \in Motions :
    \/ TickReject(m)
    \/ TickArrived(m)
    \/ \E r \in Robots, d \in Directions : TickTurn(r, d, m) \/ TickHold(r, d, m)

Requesting ==
  \/ ReleaseNothing \/ ReleaseStopping \/ ReleaseSent \/ ReleaseFailed
  \/ PressSent \/ PressFailed
  \/ HoldSent \/ HoldFailed

TickStep == TickDisconnected \/ TickNoInput \/ TickRead \/ Requesting

Environment == SetConnected \/ BeginShutdown \/ Second \/ Minute

Next == OnStart \/ OnRunning \/ OnHalted \/ TickStep \/ Environment

Spec == Init /\ [][Next]_vars

\* A tick goes on, since every request ends with its time limit; the tick loop
\* ticks a running node again until it is halted (the plugin pauses no tree);
\* time passes.
FairSpec == Spec /\ WF_vars(TickStep) /\ WF_vars(OnRunning) /\ WF_vars(Minute)

-----------------------------------------------------------------------------
(* Properties *)

\* Every variable has its type; the node's record of the press agrees with
\* the press it last began.
TypeOK ==
  /\ node \in {"IDLE", "RUNNING"}
  /\ pc \in {"idle", "tick", "release", "press", "hold"}
  /\ after \in Verdicts \cup {"press"}
  /\ plan \in Presses \cup {NoPress}
  /\ pc = "press" \/ (pc = "release" /\ after = "press") => plan \in Presses
  /\ pressing \in BOOLEAN
  /\ active \in Actives \cup {NoPress}
  /\ lastMotion \in Motions
  /\ due \in BOOLEAN /\ overdue \in BOOLEAN
  /\ connected \in BOOLEAN /\ stopping \in BOOLEAN
  /\ held \in SUBSET Presses /\ lost \in SUBSET Presses
  /\ pressing => /\ begun \in Presses
                 /\ active = [robot |-> begun.robot, dir |-> begun.dir]

\* The robot is under no press but the one a running node knows of, and those
\* lost for one of four reasons: a request failed, the driver was disconnected
\* when the node was ticked, the program is shutting down, or motion_id changed
\* while it was pressed.  Success, every other failure, a halt and a turn to the
\* other direction or robot release.  (A turn does not look at the result of its
\* LongPressEnd: after one that failed the robot may be under two opposite
\* presses, of which the first is lost.)
NoForgottenPress ==
  held \subseteq lost \cup (IF node = "RUNNING" THEN Own ELSE {})

\* A running node that has pressing_ set, and so refreshes a press and waits for
\* the joint, has the robot under that very press, robot and direction and motion,
\* whatever turns, failed requests and earlier executions came before: it does
\* not wait out its sixty seconds on a press that was released or never begun.
PressIsHeld ==
  node = "RUNNING" /\ pressing => begun \in held \ lost

\* Pressing ends, whether the joint gets to its target or not, or is lost for one
\* of the reasons: the sixty seconds of the node see to it.
PressEnds == ~(held \subseteq lost) ~> held \subseteq lost
=============================================================================
