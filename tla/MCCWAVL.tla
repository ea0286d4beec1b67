------------------------------- MODULE MCCWAVL -------------------------------
(* CWAVL on a small instance.                                              *)
EXTENDS CWAVL

=============================================================================
