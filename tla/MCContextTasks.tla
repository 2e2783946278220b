--------------------------- MODULE MCContextTasks ---------------------------
(***************************************************************************)
(* Instances of ContextTasks for TLC: the calls are model values.          *)
(***************************************************************************)
EXTENDS ContextTasks

CONSTANTS c1, c2, r1
=============================================================================
