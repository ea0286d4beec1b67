------------------------------- MODULE MCWTPRun -------------------------------
(* WTPRun on a small instance.                                             *)
EXTENDS WTPRun

=============================================================================
