---------------------------- MODULE MCACInterface ----------------------------
(* ACInterface on a small instance.                                        *)
EXTENDS ACInterface, TLC

\* Clients are only ever compared with each other.
AppSymmetry == Permutations(Apps)

=============================================================================
