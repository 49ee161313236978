---------------------------- MODULE ActionNodes ----------------------------
(***************************************************************************)
(* The action nodes that send one command: MoveAbsJ, MoveAbsJJointTarget   *)
(* and MobileRobotModbusTCPJGBOT, which wait for the answer tick by tick,  *)
(* and JogJoint, which waits for it in onStart().  One node of one kind is *)
(* followed through the life of its trees: built, ticked, halted, rebuilt. *)
(*                                                                         *)
(* Its request is an AsyncRequest, which is what BtJsonRequest implements; *)
(* JogJoint's call_sync() is a request awaited in place.  The rest of the  *)
(* program writes what the node reads, between any two of its steps: the   *)
(* connection flag, the shutdown flag, the number of models, and the last  *)
(* message about the mobile robot (update_nrt), which may be older than    *)
(* the command.  Ticks, halts and the destruction of a node exclude each   *)
(* other (BTManager's tree_mtx_).                                          *)
(*                                                                         *)
(* Assumed of the mobile robot, which is not in the repository: it drives  *)
(* only to stations it was sent to, perhaps late, perhaps never.           *)
(***************************************************************************)
EXTENDS CmdDynBuilder

CONSTANTS
  MaxRequests,     \* bound: the commands the node sends
  MaxModels,       \* bound: the robot models of the controller
  Selections,      \* the robot_sel inputs tried, as sets of indices
  Stations,        \* the stations of the mobile robot
  NoStation        \* a target_station_id that is missing or no number

ASSUME BoundsAssumption ==
  /\ MaxRequests \in Nat
  /\ MaxModels \in Nat
  /\ Selections \subseteq SUBSET Int
  /\ NoStation \notin Stations

VARIABLES
  kind,            \* which node class this is
  tree,            \* the tree of the node exists
  models,          \* models_, read by the constructor
  node,            \* RUNNING, or IDLE: not started, ended or halted
  pc,              \* where onStart() or onRunning() is
  outcome,         \* how the last execution ended
  selection,       \* the robot_sel of the last command
  target,          \* the target_station_id read last
  command,         \* the sub-commands of the last command
  request, phase, verdict,     \* the request: see AsyncRequest
  late,            \* the deadline of the request has passed
  connected,       \* conn_codeit_
  stopping,        \* stopping_
  modelSize,       \* model_size
  report,          \* nrt_msg, as far as the mobile robot goes
  robot,           \* the mobile robot itself
  orders,          \* stations it was sent to and has not left for
  reached          \* history: stations it has been at, or was said to be at,
                   \* since the node was started

Requests == 1..MaxRequests

Req == INSTANCE AsyncRequest

progress == <<node, pc, outcome>>
inputs == <<selection, target, command>>
req == <<request, phase, verdict, late>>
manager == <<connected, stopping, modelSize>>
mobile == <<robot, orders, reached>>
life == <<kind, tree, models>>
vars == <<life, progress, inputs, req, manager, report, mobile>>

Polling == {"MoveAbsJ", "MoveAbsJJointTarget", "MobileRobotModbusTCPJGBOT"}
Kinds == Polling \cup {"JogJoint"}
Targets == Stations \cup {NoStation}

\* What the subsystem list of the last nrt message says: it is empty, it does
\* not name the mobile robot, or it has its data.  Data that is too short is
\* read as zeros, which is no navigation: it counts as an empty list.  Of the
\* NavState values only ARRIVED is told apart.
NavStates == {"RUNNING", "ARRIVED"}
Positions == [nav : NavStates, station : Stations]
Empty == [nav |-> "EMPTY", station |-> NoStation]
Unnamed == [nav |-> "UNNAMED", station |-> NoStation]
Reports == {Empty, Unnamed} \cup Positions

\* The fields the nodes add to their commands.
Fields ==
  [MoveAbsJ |-> {"jointtarget_variablepool"},
   MoveAbsJJointTarget |-> {"jointtarget", "speed"},
   MobileRobotModbusTCPJGBOT |-> {"navigate_open", "target_station_id"},
   JogJoint |-> {"increase_count", "motion_id", "direction"}]

Arrived(r) == r.nav = "ARRIVED"
PlaceOf(r) == IF Arrived(r) THEN {r.station} ELSE {}

Init ==
  /\ kind \in Kinds /\ tree = FALSE /\ models = 0
  /\ node = "IDLE" /\ pc = "idle" /\ outcome = "none"
  /\ selection = {} /\ target = NoStation /\ command = InitModels(0)
  /\ Req!Init /\ late = FALSE
  /\ connected = FALSE /\ stopping = FALSE /\ modelSize = 0
  /\ report = Empty
  /\ robot \in [nav : {"ARRIVED"}, station : Stations] /\ orders = {} /\ reached = {}

-----------------------------------------------------------------------------
(* Helpers *)

\* Mutant: the status of the node is not set.
End_StatusKept(how) == UNCHANGED node /\ pc' = "idle" /\ outcome' = how

End(how) == node' = "IDLE" /\ pc' = "idle" /\ outcome' = how

Goto(where) == pc' = where /\ UNCHANGED <<node, outcome>>

\* bt_req_.cancel().
Cancel ==
  /\ Req!EndWith("dropped")
  /\ phase' = "idle"
  /\ UNCHANGED <<request, late>>

\* tick() of a BtJsonRequest whose deadline has passed.
GiveUp ==
  /\ Req!EndWith("FAILURE")
  /\ phase' = "idle"
  /\ UNCHANGED <<request, late>>

-----------------------------------------------------------------------------
(* The tree of the node *)

\* The constructor: models_ is read once.
CreateNode ==
  /\ ~tree /\ tree' = TRUE
  /\ models' = modelSize
  /\ UNCHANGED <<kind, progress, inputs, req, manager, report, mobile>>

\* The destructor, after haltTree().
DestroyNode ==
  /\ tree /\ pc = "idle" /\ node = "IDLE"
  /\ tree' = FALSE
  /\ Cancel
  /\ models' = 0 /\ outcome' = "none"
  /\ selection' = {} /\ target' = NoStation /\ command' = InitModels(0)
  /\ UNCHANGED <<kind, node, pc, manager, report, mobile>>

-----------------------------------------------------------------------------
(* onStart() *)

\* Only JogJoint looks at stopping_.
MayStart == connected /\ (kind = "JogJoint" => ~stopping)

\* What the robot has been at before the node starts is still believed.
OnStart ==
  /\ tree /\ pc = "idle" /\ node = "IDLE"
  /\ IF MayStart THEN node' = "RUNNING" /\ pc' = "inputs" /\ outcome' = "none"
                 ELSE End("FAILURE")
  /\ reached' = PlaceOf(report) \cup PlaceOf(robot)
  /\ UNCHANGED <<life, inputs, req, manager, report, robot, orders>>

\* An empty subsystem list passes the search for the mobile robot.
SubsystemFound == kind # "MobileRobotModbusTCPJGBOT" \/ report # Unnamed

\* No subsystem, or robot_sel is missing.
StartReject ==
  /\ pc = "inputs"
  /\ End("FAILURE")
  /\ UNCHANGED <<life, inputs, req, manager, report, mobile>>

\* The command is built and start() drops the last request.  A missing
\* target_station_id is sent as it is.
StartBuild(sel, station) ==
  /\ pc = "inputs" /\ SubsystemFound
  /\ selection' = sel
  /\ target' = station
  /\ command' = Build(models, sel, Fields[kind])
  /\ Req!Begin
  /\ Goto("send")
  /\ UNCHANGED <<life, late, manager, report, mobile>>

StartSent ==
  /\ pc = "send"
  /\ Req!Wait /\ late' = FALSE
  /\ Goto(IF kind = "JogJoint" THEN "poll" ELSE "idle")
  /\ orders' = IF kind = "MobileRobotModbusTCPJGBOT"
                 THEN orders \cup ({target} \cap Stations) ELSE orders
  /\ UNCHANGED <<life, inputs, manager, report, robot, reached>>

StartRefused ==
  /\ pc = "send"
  /\ Req!Refuse
  /\ End("FAILURE")
  /\ UNCHANGED <<life, inputs, late, manager, report, mobile>>

-----------------------------------------------------------------------------
(* onRunning() and onHalted() *)

\* Mutant: the request goes on although the node has failed.
OnRunning_KeepRequest ==
  /\ pc = "idle" /\ node = "RUNNING"
  /\ IF connected /\ ~stopping
       THEN Goto(IF kind = "MobileRobotModbusTCPJGBOT" THEN "look" ELSE "poll")
       ELSE End("FAILURE")
  /\ UNCHANGED <<life, inputs, req, manager, report, mobile>>

OnRunning ==
  /\ pc = "idle" /\ node = "RUNNING"
  /\ IF connected /\ ~stopping
       THEN /\ Goto(IF kind = "MobileRobotModbusTCPJGBOT" THEN "look" ELSE "poll")
            /\ UNCHANGED req
       ELSE Cancel /\ End("FAILURE")
  /\ UNCHANGED <<life, inputs, manager, report, mobile>>

\* Mutant: the navigation state is not looked at.
LookArrived_AnyState(station) ==
  /\ pc = "look"
  /\ report \in Positions /\ station = report.station
  /\ target' = station
  /\ Cancel
  /\ End("ARRIVED")
  /\ UNCHANGED <<life, selection, command, manager, report, mobile>>

\* The mobile robot is said to have arrived at the station the input names now.
LookArrived(station) ==
  /\ pc = "look"
  /\ Arrived(report) /\ station = report.station
  /\ target' = station
  /\ Cancel
  /\ End("ARRIVED")
  /\ UNCHANGED <<life, selection, command, manager, report, mobile>>

\* std::stoi() is evaluated only after an arrival; it throws, and nothing
\* between the node and the worker thread catches: the process ends.
LookThrows ==
  /\ pc = "look"
  /\ Arrived(report)
  /\ target' = NoStation
  /\ Goto("terminated")
  /\ UNCHANGED <<life, selection, command, req, manager, report, mobile>>

LookOn(station) ==
  /\ pc = "look"
  /\ Arrived(report) => station \notin {report.station, NoStation}
  /\ Goto("poll")
  /\ UNCHANGED <<life, inputs, req, manager, report, mobile>>

PollAnswer ==
  /\ pc = "poll" /\ phase \in {"answered_ok", "answered_failed"}
  /\ Req!Deliver /\ UNCHANGED late
  /\ End(IF phase = "answered_ok" THEN "SUCCESS" ELSE "FAILURE")
  /\ UNCHANGED <<life, inputs, manager, report, mobile>>

\* Mutant: the deadline is not looked at.
PollTimeout_Never == FALSE

\* The deadline; an answer that comes in just now is dropped.
PollTimeout ==
  /\ pc = "poll" /\ late
  /\ GiveUp
  /\ End("FAILURE")
  /\ UNCHANGED <<life, inputs, manager, report, mobile>>

\* RUNNING.  (JogJoint does not return before the answer or the deadline.)
PollWait ==
  /\ pc = "poll" /\ kind \in Polling
  /\ phase = "waiting" /\ ~late
  /\ Goto("idle")
  /\ UNCHANGED <<life, inputs, req, manager, report, mobile>>

OnHalted ==
  /\ pc = "idle" /\ node = "RUNNING"
  /\ Cancel
  /\ End("HALTED")
  /\ UNCHANGED <<life, inputs, manager, report, mobile>>

-----------------------------------------------------------------------------
(* The rest of the world, at any time *)

Answer ==
  /\ Req!Answer
  /\ UNCHANGED <<life, progress, inputs, late, manager, report, mobile>>

DeadlinePasses ==
  /\ phase = "waiting" /\ ~late /\ late' = TRUE
  /\ UNCHANGED <<life, progress, inputs, request, phase, verdict, manager, report,
                 mobile>>

SetConnected ==
  /\ connected' = ~connected
  /\ UNCHANGED <<life, progress, inputs, req, stopping, modelSize, report, mobile>>

BeginShutdown ==
  /\ stopping' = TRUE
  /\ UNCHANGED <<life, progress, inputs, req, connected, modelSize, report, mobile>>

\* update_rt() ends in set_model_size().  Only the constructor reads it: an
\* update during the life of the node is one before the next.
UpdateRt ==
  /\ ~tree
  /\ modelSize' \in 0..MaxModels
  /\ UNCHANGED <<life, progress, inputs, req, connected, stopping, report, mobile>>

\* update_nrt(): the subsystems come and go.  Only one kind of node looks.  A
\* report tells of the robot as it is at that moment; one that was overtaken on
\* its way would count like one left over from before.
UpdateNrt ==
  /\ kind = "MobileRobotModbusTCPJGBOT"
  /\ report' \in {Empty, Unnamed, robot}
  /\ UNCHANGED <<life, progress, inputs, req, manager, mobile>>

RobotDeparts ==
  /\ \E s \in orders :
       /\ robot' = [nav |-> "RUNNING", station |-> s]
       /\ orders' = orders \ {s}
  /\ UNCHANGED <<life, progress, inputs, req, manager, report, reached>>

RobotArrives ==
  /\ robot.nav = "RUNNING"
  /\ robot' = [robot EXCEPT !.nav = "ARRIVED"]
  /\ reached' = reached \cup PlaceOf(robot')
  /\ UNCHANGED <<life, progress, inputs, req, manager, report, orders>>

NodeStep ==
  \/ StartReject
  \/ \E sel \in Selections, station \in Targets : StartBuild(sel, station)
  \/ StartSent \/ StartRefused
  \/ \E station \in Targets : LookArrived(station) \/ LookOn(station)
  \/ LookThrows
  \/ PollAnswer \/ PollTimeout \/ PollWait

Environment ==
  \/ Answer \/ DeadlinePasses
  \/ SetConnected \/ BeginShutdown \/ UpdateRt \/ UpdateNrt
  \/ RobotDeparts \/ RobotArrives

\* The process is gone.
Terminated == pc = "terminated" /\ UNCHANGED vars

Next ==
  \/ /\ pc # "terminated"
     /\ \/ CreateNode \/ DestroyNode
        \/ OnStart \/ OnRunning \/ OnHalted
        \/ NodeStep \/ Environment
  \/ Terminated

Spec == Init /\ [][Next]_vars

\* A tick goes on by itself, a running node is ticked again until it is halted,
\* and time passes.
FairSpec ==
  /\ Spec
  /\ WF_vars(NodeStep) /\ WF_vars(OnRunning)
  /\ WF_vars(pc # "terminated" /\ DeadlinePasses)

-----------------------------------------------------------------------------
(* Properties *)

\* Every variable has its type; a node that runs belongs to a tree and has not
\* ended.
TypeOK ==
  /\ kind \in Kinds /\ tree \in BOOLEAN /\ models \in 0..MaxModels
  /\ node \in {"IDLE", "RUNNING"}
  /\ pc # "idle" => node = "RUNNING"
  /\ node = "RUNNING" => tree /\ outcome = "none"
  /\ pc \in {"idle", "inputs", "send", "look", "poll", "terminated"}
  /\ outcome \in {"none", "SUCCESS", "ARRIVED", "FAILURE", "HALTED"}
  /\ selection \in Selections \cup {{}} /\ target \in Targets
  /\ \A i \in DOMAIN command :
       command[i].selected \in BOOLEAN /\ command[i].fields \subseteq Fields[kind]
  /\ request \in {0} \cup Requests /\ phase \in Req!Phases
  /\ late \in BOOLEAN
  /\ connected \in BOOLEAN /\ stopping \in BOOLEAN /\ modelSize \in 0..MaxModels
  /\ report \in Reports /\ robot \in Positions
  /\ orders \subseteq Stations /\ reached \subseteq Stations

\* However an execution ended (answer, deadline, arrival, disconnect, shutdown,
\* halt, a request that could not be sent), its request is settled: nothing
\* waits for the service, and no answer can be taken for that of the next
\* execution.
NothingLeftOver ==
  pc = "idle" /\ node = "IDLE" =>
    /\ phase \in {"idle", "answered_failed"}
    /\ request \in Requests => verdict[request] # "none"

\* A node succeeds by the answer to the command of this very execution, or,
\* the mobile robot, because it is at the station the input names: it came there
\* during the execution, or was there, or said to be there, when it started.
SuccessIsEarned ==
  /\ outcome = "SUCCESS" => verdict[request] = "SUCCESS"
  /\ outcome = "ARRIVED" => target \in reached

\* A command that led to a success told each selected robot that was known when
\* the tree was built, and no other, everything the node has to say.
SuccessCommands ==
  outcome \in {"SUCCESS", "ARRIVED"} =>
    command = [i \in 0..(models - 1) |->
                 [selected |-> i \in selection,
                  fields |-> IF i \in selection THEN Fields[kind] ELSE {}]]

\* An execution ends, though the service may never answer and the mobile robot
\* never arrive.
ExecutionEnds == node = "RUNNING" ~> node = "IDLE" \/ pc = "terminated"

\* The note on onStart() of the mobile robot: it fails when the manager is
\* stopping, so it gets past its checks only when it is not.
NoStartDuringShutdown ==
  [][kind = "MobileRobotModbusTCPJGBOT" /\ pc = "idle" /\ pc' = "inputs"
       => ~stopping]_vars
=============================================================================
