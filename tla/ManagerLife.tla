---------------------------- MODULE ManagerLife ----------------------------
(***************************************************************************)
(* What BTManager promises its callers and whoever watches the tree, with  *)
(* no thread, mutex or condition variable: loading, starting and stopping  *)
(* a tree are operations that take effect at one instant between call and  *)
(* return.  A run is built, runs and ends; the tree served is always the   *)
(* one that was wanted last when it was put in place, and outside a run    *)
(* there is none.  BTManager implements this.                              *)
(***************************************************************************)
CONSTANTS
  Clients,         \* the callers
  Nobody,          \* no caller
  Files,           \* behaviour tree files
  NoTree           \* no tree, no file

VARIABLES
  op, arg, ret,    \* what each caller is doing, with which file, and was told
  life,            \* where the run is
  owner,           \* the caller that builds or ends the run
  wanted,          \* the file loaded and not yet served
  served,          \* the tree that clients of the publisher see
  active,          \* some node of it is not idle
  closed           \* the shutdown has begun

calls == <<op, arg, ret>>
run == <<life, owner>>
view == <<served, active>>
lifeVars == <<calls, run, wanted, view, closed>>

Ops == {"none", "load", "loaded", "start", "stop", "manual"}
Lives == {"stopped", "building", "running", "ending"}

Init ==
  /\ op = [c \in Clients |-> "none"]
  /\ arg = [c \in Clients |-> NoTree]
  /\ ret = [c \in Clients |-> "none"]
  /\ life = "stopped" /\ owner = Nobody
  /\ wanted = NoTree /\ served = NoTree /\ active = FALSE
  /\ closed = FALSE

Call(c, what) ==
  /\ op[c] = "none"
  /\ op' = [op EXCEPT ![c] = what]
  /\ ret' = [ret EXCEPT ![c] = "none"]

Return(c, result) ==
  /\ op' = [op EXCEPT ![c] = "none"]
  /\ ret' = [ret EXCEPT ![c] = result]
  /\ UNCHANGED arg

NothingServed == served' = NoTree /\ active' = FALSE

-----------------------------------------------------------------------------
(* Loading *)

Load(c, file) ==
  /\ Call(c, "load")
  /\ arg' = [arg EXCEPT ![c] = file]
  /\ UNCHANGED <<run, wanted, view, closed>>

\* The load takes effect: it replaces a file that has not been served yet.
Want(c) ==
  /\ op[c] = "load"
  /\ wanted' = arg[c]
  /\ op' = [op EXCEPT ![c] = "loaded"]
  /\ arg' = [arg EXCEPT ![c] = NoTree]
  /\ UNCHANGED <<ret, run, view, closed>>

Loaded(c) ==
  /\ op[c] = "loaded"
  /\ op' = [op EXCEPT ![c] = "none"]
  /\ UNCHANGED <<arg, ret, run, wanted, view, closed>>

-----------------------------------------------------------------------------
(* Starting *)

Start(c) ==
  /\ Call(c, "start")
  /\ UNCHANGED <<arg, run, wanted, view, closed>>

\* Nothing is built once the shutdown has begun.
Begin(c) ==
  /\ op[c] = "start" /\ ~closed /\ life = "stopped"
  /\ life' = "building" /\ owner' = c
  /\ UNCHANGED <<calls, wanted, view, closed>>

Refuse(c) ==
  /\ op[c] = "start" /\ owner # c /\ closed
  /\ Return(c, "failed")
  /\ UNCHANGED <<run, wanted, view, closed>>

RunsAlready(c) ==
  /\ op[c] = "start" /\ ~closed /\ life = "running"
  /\ Return(c, "ok")
  /\ UNCHANGED <<run, wanted, view, closed>>

\* A start that succeeds leaves a run with a tree.
Run(c) ==
  /\ op[c] = "start" /\ owner = c /\ life = "building"
  /\ served # NoTree
  /\ life' = "running" /\ owner' = Nobody
  /\ Return(c, "ok")
  /\ UNCHANGED <<wanted, view, closed>>

\* A start that fails leaves nothing, the bad file included.
GiveUp(c) ==
  /\ op[c] = "start" /\ owner = c /\ life = "building"
  /\ life' = "stopped" /\ owner' = Nobody
  /\ wanted' \in {wanted, NoTree}
  /\ NothingServed
  /\ Return(c, "failed")
  /\ UNCHANGED closed

-----------------------------------------------------------------------------
(* The tree of a run *)

\* A switch withdraws the old tree first, with all its nodes idle.
Withdraw ==
  /\ life # "stopped" /\ wanted # NoTree
  /\ NothingServed
  /\ UNCHANGED <<calls, run, wanted, closed>>

Serve ==
  /\ life # "stopped" /\ wanted # NoTree
  /\ served' = wanted /\ active' = FALSE
  /\ wanted' = NoTree
  /\ UNCHANGED <<calls, run, closed>>

\* A bad file while the tree runs: the run goes on without a tree.
Discard ==
  /\ life \in {"running", "ending"} /\ wanted # NoTree
  /\ wanted' = NoTree
  /\ NothingServed
  /\ UNCHANGED <<calls, run, closed>>

Ticked == active' \in BOOLEAN /\ UNCHANGED served

\* Only a run is ticked by itself.
Tick ==
  /\ life \in {"running", "ending"} /\ served # NoTree
  /\ Ticked
  /\ UNCHANGED <<calls, run, wanted, closed>>

\* pause(), resume() and step().
Manual(c, what) ==
  /\ what \in {"none", "manual"} /\ Call(c, what)
  /\ UNCHANGED <<arg, run, wanted, view, closed>>

ManualEnds(c) ==
  /\ op[c] = "manual"
  /\ op' = [op EXCEPT ![c] = "none"]
  /\ UNCHANGED view \/ (served # NoTree /\ Ticked)
  /\ UNCHANGED <<arg, ret, run, wanted, closed>>

-----------------------------------------------------------------------------
(* Stopping *)

Stop(c) ==
  /\ Call(c, "stop")
  /\ UNCHANGED <<arg, run, wanted, view, closed>>

\* The stop of the plugin's shutdown, which happens once.
Close(c) ==
  /\ Call(c, "stop")
  /\ ~closed /\ closed' = TRUE
  /\ UNCHANGED <<arg, run, wanted, view>>

NothingRuns(c) ==
  /\ op[c] = "stop" /\ life = "stopped"
  /\ Return(c, "ok")
  /\ UNCHANGED <<run, wanted, view, closed>>

End(c) ==
  /\ op[c] = "stop" /\ life = "running"
  /\ life' = "ending" /\ owner' = c
  /\ UNCHANGED <<calls, wanted, view, closed>>

\* A stop that returns leaves no run and no tree; what was loaded stays wanted.
Ended(c) ==
  /\ op[c] = "stop" /\ owner = c /\ life = "ending"
  /\ life' = "stopped" /\ owner' = Nobody
  /\ NothingServed
  /\ Return(c, "ok")
  /\ UNCHANGED <<wanted, closed>>

-----------------------------------------------------------------------------

ClientNext(c) ==
  \/ \E file \in Files : Load(c, file)
  \/ Want(c) \/ Loaded(c)
  \/ Start(c) \/ Begin(c) \/ Refuse(c) \/ RunsAlready(c) \/ Run(c) \/ GiveUp(c)
  \/ \E what \in {"none", "manual"} : Manual(c, what)
  \/ ManualEnds(c)
  \/ Stop(c) \/ Close(c) \/ NothingRuns(c) \/ End(c) \/ Ended(c)

Next == (\E c \in Clients : ClientNext(c)) \/ Withdraw \/ Serve \/ Discard \/ Tick

Spec == Init /\ [][Next]_lifeVars
=============================================================================
