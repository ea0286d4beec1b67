------------------------------ MODULE MCWTPMain ------------------------------
(***************************************************************************)
(* The WTP's way into Run, for TLC.                                        *)
(***************************************************************************)
EXTENDS WTPMain

AllFaults == FaultKinds
=============================================================================
