--------------------------- MODULE MCActionNodes ---------------------------
(* ActionNodes with a robot_sel input that is in range, too large and      *)
(* negative, depending on the number of models.                             *)
EXTENDS ActionNodes

MCSelections == {{-1, 1}}
=============================================================================
