---------------------------- MODULE CmdDynBuilder ----------------------------
(***************************************************************************)
(* bt_manager_cmd::CmdDynBuilder of include/bt_manager.hpp: the command an *)
(* action node sends is a list with one sub-command per robot model, each  *)
(* selected or not, and carrying its fields if it is.  Only the names of   *)
(* the fields are kept.  The order of the calls matters: select_models()   *)
(* before add_field().                                                     *)
(***************************************************************************)
EXTENDS Integers

\* init_models(): nothing selected, no field.
InitModels(size) == [i \in 0..(size - 1) |-> [selected |-> FALSE, fields |-> {}]]

\* Mutant: what was selected stays selected and an index may be one too large.
SelectModels_Loose(subs, indices) ==
  [i \in DOMAIN subs |-> [subs[i] EXCEPT !.selected = @ \/ i + 1 \in indices]]

\* select_models(): an index out of range, negative ones included (they are
\* compared as unsigned numbers), is logged and ignored.
SelectModels(subs, indices) ==
  [i \in DOMAIN subs |-> [selected |-> i \in indices, fields |-> subs[i].fields]]

\* add_field(), for a list of calls: the selected sub-commands get the field.
AddFields(subs, fields) ==
  [i \in DOMAIN subs |->
     [selected |-> subs[i].selected,
      fields |-> subs[i].fields \cup (IF subs[i].selected THEN fields ELSE {})]]

\* The chain of calls of an action node.
Build(size, indices, fields) ==
  AddFields(SelectModels(InitModels(size), indices), fields)
=============================================================================
