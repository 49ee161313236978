------------------------- MODULE ActionNodes_proofs -------------------------
(***************************************************************************)
(* Safety of the action nodes for any number of commands and robot models, *)
(* and any robot_sel inputs and stations.  The invariant has one part per  *)
(* question: what the request of the node stands for, where the mobile     *)
(* robot has been, and what the command says.                              *)
(***************************************************************************)
EXTENDS ActionNodes, TLAPS

-----------------------------------------------------------------------------
(* The command *)

\* A sub-command per model: the selected ones carry the fields.
Full(size, indices, fields) ==
  [i \in 0..(size - 1) |-> [selected |-> i \in indices,
                            fields |-> IF i \in indices THEN fields ELSE {}]]

\* The chain of calls ends in the full command: the fields come after the
\* selection.
LEMMA BuildIsFull ==
  ASSUME NEW size, NEW indices, NEW fields
  PROVE  Build(size, indices, fields) = Full(size, indices, fields)
<1> DEFINE D == 0..(size - 1)
           selected == SelectModels(InitModels(size), indices)
<1>1. InitModels(size) = [i \in D |-> [selected |-> FALSE, fields |-> {}]]
  BY DEF InitModels
<1>2. selected = [i \in D |-> [selected |-> i \in indices, fields |-> {}]]
  BY <1>1 DEF SelectModels
<1>3. DOMAIN selected = D
  BY <1>2
<1>4. AddFields(selected, fields)
        = [i \in D |-> [selected |-> selected[i].selected,
                       fields |-> selected[i].fields
                                    \cup (IF selected[i].selected THEN fields ELSE {})]]
  BY <1>3 DEF AddFields
<1>5. ASSUME NEW i \in D
      PROVE  [selected |-> selected[i].selected,
              fields |-> selected[i].fields
                           \cup (IF selected[i].selected THEN fields ELSE {})]
               = [selected |-> i \in indices,
                  fields |-> IF i \in indices THEN fields ELSE {}]
  <2>1. selected[i] = [selected |-> i \in indices, fields |-> {}]
    BY <1>2
  <2>2. selected[i].selected = (i \in indices) /\ selected[i].fields = {}
    BY <2>1
  <2>3. CASE i \in indices
    BY <2>2, <2>3
  <2>4. CASE i \notin indices
    BY <2>2, <2>4
  <2> QED
    BY <2>3, <2>4
<1> HIDE DEF selected
<1>6. AddFields(selected, fields) = Full(size, indices, fields)
  BY <1>4, <1>5 DEF Full
<1> QED
  BY <1>6 DEF Build, selected

\* It has the types of a command.
LEMMA BuildTyped ==
  ASSUME NEW size, NEW indices, NEW fields, NEW c, c = Build(size, indices, fields)
  PROVE  \A i \in DOMAIN c : c[i].selected \in BOOLEAN /\ c[i].fields \subseteq fields
<1>1. c = Full(size, indices, fields)
  BY BuildIsFull
<1>2. DOMAIN c = 0..(size - 1)
  BY <1>1 DEF Full
<1>3. \A i \in DOMAIN c : c[i] = [selected |-> i \in indices,
                               fields |-> IF i \in indices THEN fields ELSE {}]
  BY <1>1, <1>2 DEF Full
<1> SUFFICES ASSUME NEW i \in DOMAIN c
             PROVE  c[i].selected \in BOOLEAN /\ c[i].fields \subseteq fields
  OBVIOUS
<1>4. c[i].selected = (i \in indices) /\ c[i].fields = IF i \in indices THEN fields ELSE {}
  BY <1>3
<1>5. (i \in indices) \in BOOLEAN
  OBVIOUS
<1>6. c[i].selected \in BOOLEAN
  BY <1>4, <1>5, Zenon
<1> QED
  BY <1>4, <1>6

-----------------------------------------------------------------------------
(* The inductive invariant *)

Told == {"none", "dropped", "refused", "SUCCESS", "FAILURE"}

\* Nothing is asked of the service.
Settled ==
  /\ phase \in {"idle", "answered_failed"}
  /\ request \in Requests => verdict[request] # "none"

\* Before a command is sent and after an execution nothing is asked; a request
\* that is asked, or answered with ok, has no verdict yet.
RequestOK ==
  /\ verdict \in [Requests -> Told]
  /\ node = "IDLE" \/ pc = "inputs" => Settled
  /\ phase \in {"waiting", "answered_ok"} => request \in Requests /\ verdict[request] = "none"
  /\ outcome = "SUCCESS" => request \in Requests /\ verdict[request] = "SUCCESS"

\* While a node runs, wherever the robot is or is said to be counts as reached.
PlaceOK ==
  /\ node = "RUNNING" => PlaceOf(report) \subseteq reached /\ PlaceOf(robot) \subseteq reached
  /\ outcome = "ARRIVED" => target \in reached

\* From the moment it is built the command is full, and a node has ended only
\* in the life of its tree.
CommandOK ==
  /\ tree \/ outcome = "none"
  /\ node = "RUNNING" /\ pc # "inputs" => command = Full(models, selection, Fields[kind])
  /\ outcome \in {"SUCCESS", "ARRIVED"} => command = Full(models, selection, Fields[kind])

IInv == TypeOK /\ RequestOK /\ PlaceOK /\ CommandOK

LEMMA InitIInv == Init => IInv
<1> SUFFICES ASSUME Init PROVE IInv
  OBVIOUS
<1> USE BoundsAssumption DEF Init, Req!Init
<1>1. TypeOK
  <2>1. DOMAIN command = {}
    BY DEF InitModels
  <2>2. request \in {0} \cup Requests /\ phase \in Req!Phases
    BY DEF Requests, Req!Phases
  <2>3. report \in Reports /\ robot \in Positions /\ target \in Targets
    BY DEF Reports, Positions, NavStates, Targets
  <2>4. models \in 0..MaxModels /\ modelSize \in 0..MaxModels
    OBVIOUS
  <2> QED
    BY <2>1, <2>2, <2>3, <2>4 DEF TypeOK
<1>2. RequestOK
  BY DEF RequestOK, Settled, Told, Requests
<1>3. PlaceOK /\ CommandOK
  BY DEF PlaceOK, CommandOK
<1> QED
  BY <1>1, <1>2, <1>3 DEF IInv

-----------------------------------------------------------------------------
(* The types *)

LEMMA NextTypeOK == TypeOK /\ [Next]_vars => TypeOK'
<1> SUFFICES ASSUME TypeOK, [Next]_vars PROVE TypeOK'
  OBVIOUS
<1> USE DEF TypeOK, life, progress, inputs, req, manager, mobile, End, Goto, Cancel, GiveUp
<1>1. CASE CreateNode
  BY <1>1 DEF CreateNode
<1>2. CASE DestroyNode
  <2>1. DOMAIN command' = {}
    BY <1>2 DEF DestroyNode, InitModels
  <2>2. phase' \in Req!Phases /\ models' \in 0..MaxModels /\ target' \in Targets
    BY <1>2, BoundsAssumption DEF DestroyNode, Req!Phases, Targets
  <2> QED
    BY <1>2, <2>1, <2>2 DEF DestroyNode
<1>3. CASE OnStart
  <2>1. reached' \subseteq Stations
    BY <1>3 DEF OnStart, PlaceOf, Arrived, Reports, Positions, Empty, Unnamed
  <2> QED
    BY <1>3, <2>1 DEF OnStart
<1>4. CASE OnRunning
  BY <1>4 DEF OnRunning, Req!Phases
<1>5. CASE OnHalted
  BY <1>5 DEF OnHalted, Req!Phases
<1>6. CASE StartReject
  BY <1>6 DEF StartReject
<1>7. ASSUME NEW sel \in Selections, NEW station \in Targets, StartBuild(sel, station)
      PROVE  TypeOK'
  <2>1. \A i \in DOMAIN command' :
          command'[i].selected \in BOOLEAN /\ command'[i].fields \subseteq Fields[kind]
    BY <1>7, BuildTyped DEF StartBuild
  <2>2. request' \in {0} \cup Requests /\ phase' \in Req!Phases
    BY <1>7 DEF StartBuild, Req!Begin, Req!Phases
  <2>3. kind' = kind /\ selection' = sel /\ target' = station
    BY <1>7 DEF StartBuild
  <2> QED
    BY <1>7, <2>1, <2>2, <2>3 DEF StartBuild
<1>8. CASE StartSent
  BY <1>8 DEF StartSent, Req!Wait, Req!Phases
<1>9. CASE StartRefused
  BY <1>9 DEF StartRefused, Req!Refuse, Req!Phases
<1>10. ASSUME NEW station \in Targets, LookArrived(station) \/ LookOn(station) PROVE TypeOK'
  BY <1>10 DEF LookArrived, LookOn, Req!Phases
<1>11. CASE LookThrows
  BY <1>11 DEF LookThrows, Targets
<1>12. CASE PollAnswer
  BY <1>12 DEF PollAnswer, Req!Deliver, Req!Phases
<1>13. CASE PollTimeout \/ PollWait
  BY <1>13 DEF PollTimeout, PollWait, Req!Phases
<1>14. CASE Answer
  BY <1>14 DEF Answer, Req!Answer, Req!Phases
<1>15. CASE DeadlinePasses \/ BeginShutdown \/ UpdateRt
  BY <1>15 DEF DeadlinePasses, BeginShutdown, UpdateRt
<1>16. CASE SetConnected
  <2>1. connected' \in BOOLEAN
    BY <1>16, Zenon DEF SetConnected
  <2> QED
    BY <1>16, <2>1 DEF SetConnected
<1>17. CASE UpdateNrt
  BY <1>17 DEF UpdateNrt, Reports
<1>18. CASE RobotDeparts
  <2>1. PICK s \in orders : robot' = [nav |-> "RUNNING", station |-> s] /\ orders' = orders \ {s}
    BY <1>18 DEF RobotDeparts
  <2>2. robot' \in Positions /\ orders' \subseteq Stations
    BY <2>1 DEF Positions, NavStates
  <2> QED
    BY <1>18, <2>2 DEF RobotDeparts
<1>19. CASE RobotArrives
  <2>1. robot' \in Positions
    BY <1>19 DEF RobotArrives, Positions, NavStates
  <2>2. reached' \subseteq Stations
    BY <1>19, <2>1 DEF RobotArrives, PlaceOf, Positions
  <2> QED
    BY <1>19, <2>1, <2>2 DEF RobotArrives
<1>20. CASE UNCHANGED vars
  BY <1>20 DEF vars
<1> QED
  BY <1>1, <1>2, <1>3, <1>4, <1>5, <1>6, <1>7, <1>8, <1>9, <1>10, <1>11, <1>12, <1>13,
     <1>14, <1>15, <1>16, <1>17, <1>18, <1>19, <1>20
     DEF Next, NodeStep, Environment, Terminated

-----------------------------------------------------------------------------
(* The request *)

\* A request that is dropped, or has failed, is settled.
LEMMA EndSettles ==
  ASSUME NEW v \in Told \ {"none"}, verdict \in [Requests -> Told], Req!EndWith(v),
         UNCHANGED request, phase' \in {"idle", "answered_failed"}
  PROVE  verdict' \in [Requests -> Told] /\ Settled'
  BY DEF Req!EndWith, Settled, Told, Requests

LEMMA NextRequestOK == TypeOK /\ RequestOK /\ [Next]_vars => RequestOK'
<1> SUFFICES ASSUME TypeOK, RequestOK, [Next]_vars PROVE RequestOK'
  OBVIOUS
<1> USE DEF life, progress, inputs, req, manager, mobile, End, Goto
<1>t. /\ pc # "idle" => node = "RUNNING"
      /\ node = "RUNNING" => tree /\ outcome = "none"
      /\ node \in {"IDLE", "RUNNING"}
  BY DEF TypeOK
<1>r. verdict \in [Requests -> Told]
  BY DEF RequestOK
<1>1. ASSUME Cancel, node' = "IDLE" \/ UNCHANGED node, outcome' # "SUCCESS" PROVE RequestOK'
  BY <1>1, <1>r, EndSettles DEF Cancel, RequestOK, Settled, Told
<1>2. ASSUME UNCHANGED <<request, phase, verdict, outcome>>, node' = "IDLE" => Settled,
             pc' = "inputs" => Settled
      PROVE  RequestOK'
  BY <1>2, <1>t DEF RequestOK, Settled, TypeOK
<1>3. CASE CreateNode
  BY <1>3, <1>2 DEF CreateNode, RequestOK
<1>4. CASE DestroyNode
  BY <1>4, <1>1 DEF DestroyNode
<1>5. CASE OnStart
  BY <1>5 DEF OnStart, RequestOK, Settled
<1>6. CASE OnRunning
  <2>1. CASE Cancel /\ End("FAILURE")
    BY <1>1, <2>1
  <2>2. CASE UNCHANGED req /\ UNCHANGED <<node, outcome>> /\ pc' # "inputs"
    BY <1>6, <1>2, <2>2 DEF OnRunning
  <2> QED
    BY <1>6, <2>1, <2>2 DEF OnRunning
<1>7. CASE OnHalted
  BY <1>7, <1>1 DEF OnHalted
<1>8. CASE StartReject
  BY <1>8 DEF StartReject, RequestOK, Settled
<1>9. ASSUME NEW sel \in Selections, NEW station \in Targets, StartBuild(sel, station)
      PROVE  RequestOK'
  <2>1. verdict' \in [Requests -> Told]
    BY <1>9, <1>r DEF StartBuild, Req!Begin, Req!EndWith, Told
  <2>2. phase' = "idle" /\ pc' = "send" /\ node' = "RUNNING" /\ outcome' = "none"
    BY <1>9, <1>t DEF StartBuild, Req!Begin
  <2> QED
    BY <2>1, <2>2 DEF RequestOK
<1>10. CASE StartSent
  BY <1>10, <1>t DEF StartSent, Req!Wait, RequestOK
<1>11. CASE StartRefused
  BY <1>11, <1>r, EndSettles DEF StartRefused, Req!Refuse, RequestOK, Settled, Told
<1>12. ASSUME NEW station \in Targets, LookArrived(station) PROVE RequestOK'
  BY <1>12, <1>1 DEF LookArrived
<1>13. ASSUME NEW station \in Targets, LookOn(station) PROVE RequestOK'
  BY <1>13, <1>2, <1>t DEF LookOn
<1>14. CASE LookThrows
  BY <1>14, <1>2, <1>t DEF LookThrows
<1>15. CASE PollAnswer
  <2>1. CASE phase = "answered_ok" /\ Req!EndWith("SUCCESS")
    <3>1. request \in Requests /\ verdict[request] = "none"
      BY <2>1 DEF RequestOK
    <3>2. verdict' \in [Requests -> Told] /\ Settled' /\ verdict'[request'] = "SUCCESS"
      BY <1>15, <2>1, <3>1, <1>r, EndSettles DEF PollAnswer, Req!Deliver, Req!EndWith, Told
    <3> QED
      BY <1>15, <3>1, <3>2 DEF PollAnswer, Req!Deliver, RequestOK, Settled
  <2>2. CASE phase = "answered_failed" /\ Req!EndWith("FAILURE")
    <3>1. verdict' \in [Requests -> Told] /\ Settled'
      BY <1>15, <2>2, <1>r, EndSettles DEF PollAnswer, Req!Deliver, Told
    <3> QED
      BY <1>15, <2>2, <3>1 DEF PollAnswer, Req!Deliver, RequestOK
  <2> QED
    BY <1>15, <2>1, <2>2 DEF PollAnswer, Req!Deliver
<1>16. CASE PollTimeout
  BY <1>16, <1>r, EndSettles DEF PollTimeout, GiveUp, RequestOK, Settled, Told
<1>17. CASE PollWait
  BY <1>17, <1>2, <1>t DEF PollWait
<1>18. CASE Answer
  BY <1>18 DEF Answer, Req!Answer, RequestOK, Settled
<1>19. CASE DeadlinePasses \/ SetConnected \/ BeginShutdown \/ UpdateRt \/ UpdateNrt
            \/ RobotDeparts \/ RobotArrives \/ UNCHANGED vars
  <2>1. UNCHANGED <<request, phase, verdict, progress>>
    BY <1>19 DEF DeadlinePasses, SetConnected, BeginShutdown, UpdateRt, UpdateNrt,
                 RobotDeparts, RobotArrives, vars
  <2> QED
    BY <2>1 DEF RequestOK, Settled
<1> QED
  BY <1>3, <1>4, <1>5, <1>6, <1>7, <1>8, <1>9, <1>10, <1>11, <1>12, <1>13, <1>14, <1>15,
     <1>16, <1>17, <1>18, <1>19
     DEF Next, NodeStep, Environment, Terminated

-----------------------------------------------------------------------------
(* The mobile robot *)

LEMMA NextPlaceOK == TypeOK /\ PlaceOK /\ [Next]_vars => PlaceOK'
<1> SUFFICES ASSUME TypeOK, PlaceOK, [Next]_vars PROVE PlaceOK'
  OBVIOUS
<1> USE DEF life, progress, inputs, req, manager, mobile, End, Goto
<1>t. /\ pc # "idle" => node = "RUNNING"
      /\ node = "RUNNING" => outcome = "none"
      /\ robot \in Positions
  BY DEF TypeOK
<1>1. ASSUME UNCHANGED <<report, robot, reached>>, node' = "RUNNING" => node = "RUNNING",
             outcome' = "ARRIVED" => outcome = "ARRIVED" /\ UNCHANGED target
      PROVE  PlaceOK'
  BY <1>1 DEF PlaceOK, PlaceOf, Arrived
<1>2. CASE CreateNode \/ DestroyNode \/ OnRunning \/ OnHalted
  <2>1. /\ UNCHANGED <<report, robot, reached>> /\ (node' = "RUNNING" => node = "RUNNING")
        /\ outcome' = "ARRIVED" => outcome = "ARRIVED" /\ UNCHANGED target
    BY <1>2 DEF CreateNode, DestroyNode, OnRunning, OnHalted
  <2> QED
    BY <1>1, <2>1
<1>3. CASE OnStart
  BY <1>3 DEF OnStart, PlaceOK, PlaceOf, Arrived
<1>4. CASE StartReject \/ StartSent \/ StartRefused \/ LookThrows
  <2>1. /\ UNCHANGED <<report, robot, reached>> /\ node = "RUNNING"
        /\ outcome' # "ARRIVED"
    BY <1>4, <1>t DEF StartReject, StartSent, StartRefused, LookThrows
  <2> QED
    BY <1>1, <2>1
<1>5. ASSUME NEW sel \in Selections, NEW station \in Targets, StartBuild(sel, station)
      PROVE  PlaceOK'
  BY <1>5, <1>1, <1>t DEF StartBuild
<1>6. ASSUME NEW station \in Targets, LookArrived(station) PROVE PlaceOK'
  <2>1. station \in PlaceOf(report) /\ node = "RUNNING" /\ target' = station
    BY <1>6, <1>t DEF LookArrived, PlaceOf
  <2>2. target' \in reached' /\ node' = "IDLE"
    BY <1>6, <2>1 DEF PlaceOK, LookArrived
  <2> QED
    BY <2>2 DEF PlaceOK
<1>7. ASSUME NEW station \in Targets, LookOn(station) PROVE PlaceOK'
  BY <1>7, <1>1, <1>t DEF LookOn
<1>8. CASE PollAnswer \/ PollTimeout \/ PollWait
  <2>1. /\ UNCHANGED <<report, robot, reached>> /\ node = "RUNNING"
        /\ outcome' # "ARRIVED"
    BY <1>8, <1>t DEF PollAnswer, PollTimeout, PollWait
  <2> QED
    BY <1>1, <2>1
<1>9. CASE Answer \/ DeadlinePasses \/ SetConnected \/ BeginShutdown \/ UpdateRt
           \/ UNCHANGED vars
  <2>1. UNCHANGED <<report, robot, reached, node, outcome, target>>
    BY <1>9 DEF Answer, DeadlinePasses, SetConnected, BeginShutdown, UpdateRt, vars
  <2> QED
    BY <1>1, <2>1
<1>10. CASE UpdateNrt
  BY <1>10 DEF UpdateNrt, PlaceOK, PlaceOf, Arrived, Empty, Unnamed
<1>11. CASE RobotDeparts
  BY <1>11 DEF RobotDeparts, PlaceOK, PlaceOf, Arrived
<1>12. CASE RobotArrives
  BY <1>12 DEF RobotArrives, PlaceOK, PlaceOf, Arrived
<1> QED
  BY <1>2, <1>3, <1>4, <1>5, <1>6, <1>7, <1>8, <1>9, <1>10, <1>11, <1>12
     DEF Next, NodeStep, Environment, Terminated

-----------------------------------------------------------------------------
(* The command a node has sent *)

LEMMA NextCommandOK == TypeOK /\ CommandOK /\ [Next]_vars => CommandOK'
<1> SUFFICES ASSUME TypeOK, CommandOK, [Next]_vars PROVE CommandOK'
  OBVIOUS
<1> USE DEF life, progress, inputs, req, manager, mobile, End, Goto
<1>t. /\ pc # "idle" => node = "RUNNING"
      /\ node = "RUNNING" => tree /\ outcome = "none"
  BY DEF TypeOK
<1>1. ASSUME UNCHANGED <<kind, tree, models, selection, command>>, tree,
             node' = "RUNNING" => node = "RUNNING" /\ (pc' # "inputs" => pc # "inputs"),
             outcome' \in {"SUCCESS", "ARRIVED"} =>
               outcome' = outcome \/ (node = "RUNNING" /\ pc # "inputs")
      PROVE  CommandOK'
  BY <1>1 DEF CommandOK
<1>2. ASSUME UNCHANGED <<kind, tree, models, selection, command, progress>>
      PROVE  CommandOK'
  BY <1>2 DEF CommandOK
<1>3. CASE CreateNode
  BY <1>3, <1>t DEF CreateNode, CommandOK
<1>4. CASE DestroyNode
  BY <1>4 DEF DestroyNode, CommandOK
<1>5. CASE OnStart
  BY <1>5, <1>t DEF OnStart, CommandOK
<1>6. CASE OnRunning \/ OnHalted
  <2>1. /\ UNCHANGED <<kind, tree, models, selection, command>> /\ node = "RUNNING"
        /\ pc = "idle" /\ outcome' \notin {"SUCCESS", "ARRIVED"}
    BY <1>6, <1>t DEF OnRunning, OnHalted
  <2> QED
    BY <1>1, <2>1, <1>t
<1>7. CASE StartReject \/ StartRefused
  BY <1>7, <1>1, <1>t DEF StartReject, StartRefused
<1>8. ASSUME NEW sel \in Selections, NEW station \in Targets, StartBuild(sel, station)
      PROVE  CommandOK'
  <2>1. command' = Full(models', selection', Fields[kind'])
    BY <1>8, BuildIsFull DEF StartBuild
  <2>2. tree' = tree /\ tree
    BY <1>8, <1>t DEF StartBuild
  <2> QED
    BY <2>1, <2>2 DEF CommandOK
<1>9. CASE StartSent \/ LookThrows \/ PollAnswer \/ PollTimeout \/ PollWait
  <2>1. /\ UNCHANGED <<kind, tree, models, selection, command>>
        /\ node = "RUNNING" /\ pc # "inputs"
    BY <1>9, <1>t DEF StartSent, LookThrows, PollAnswer, PollTimeout, PollWait
  <2> QED
    BY <1>1, <2>1, <1>t
<1>10. ASSUME NEW station \in Targets, LookArrived(station) \/ LookOn(station)
       PROVE  CommandOK'
  <2>1. /\ UNCHANGED <<kind, tree, models, selection, command>>
        /\ node = "RUNNING" /\ pc # "inputs"
    BY <1>10, <1>t DEF LookArrived, LookOn
  <2> QED
    BY <1>1, <2>1, <1>t
<1>11. CASE Answer \/ DeadlinePasses \/ SetConnected \/ BeginShutdown \/ UpdateRt
            \/ UpdateNrt \/ RobotDeparts \/ RobotArrives \/ UNCHANGED vars
  <2>1. UNCHANGED <<kind, tree, models, selection, command, progress>>
    BY <1>11 DEF Answer, DeadlinePasses, SetConnected, BeginShutdown, UpdateRt, UpdateNrt,
                 RobotDeparts, RobotArrives, vars
  <2> QED
    BY <1>2, <2>1
<1> QED
  BY <1>3, <1>4, <1>5, <1>6, <1>7, <1>8, <1>9, <1>10, <1>11
     DEF Next, NodeStep, Environment, Terminated

-----------------------------------------------------------------------------
(* The theorems *)

\* IInv holds in every reachable state.
THEOREM Invariance == Spec => []IInv
<1>1. IInv /\ [Next]_vars => IInv'
  BY NextTypeOK, NextRequestOK, NextPlaceOK, NextCommandOK DEF IInv
<1> QED
  BY InitIInv, <1>1, PTL DEF Spec

\* The variables keep their types, and a node that runs belongs to a tree and
\* has not ended.
THEOREM TypeCorrect == Spec => []TypeOK
  BY Invariance, PTL DEF IInv

\* Whichever way an execution ends (onRunning(), onHalted(), a start that is
\* refused), its request is settled before the next one.
THEOREM RequestSettled == Spec => []NothingLeftOver
<1>1. IInv => NothingLeftOver
  BY DEF IInv, RequestOK, Settled, NothingLeftOver
<1> QED
  BY Invariance, <1>1, PTL

\* A node that tells SUCCESS got the answer to its own command, or its mobile
\* robot is at the station the input names.
THEOREM OwnSuccess == Spec => []SuccessIsEarned
<1>1. IInv => SuccessIsEarned
  BY DEF IInv, RequestOK, PlaceOK, SuccessIsEarned
<1> QED
  BY Invariance, <1>1, PTL

\* The command of a success told each selected robot, and no other, everything:
\* the order of the calls of CmdDynBuilder is right for any robot_sel input.
THEOREM FullCommand == Spec => []SuccessCommands
<1>1. IInv => SuccessCommands
  BY DEF IInv, CommandOK, Full, SuccessCommands
<1> QED
  BY Invariance, <1>1, PTL
=============================================================================
