---------------------------- MODULE MCACMainLoop ----------------------------
(* ACMainLoop on a small instance.                                         *)
EXTENDS ACMainLoop

=============================================================================
