---------------------------- MODULE StationTable ----------------------------
(***************************************************************************)
(* What the table of stations is to its users: for every station the WTP   *)
(* (AC) or the BSS (WTP) that serves it, with the radio, or nothing.  The  *)
(* AC forwards a station's frames to the WTP the table names.  The search  *)
(* tree of CWAVL.c implements it.                                          *)
(***************************************************************************)
CONSTANTS
    Stations,   \* the stations' addresses
    Indices,    \* slots of gWTPs on the AC, BSSs on the WTP
    Radios      \* radio ids, which several WTPs may have in common

VARIABLE table

Entry == [index: Indices, radioID: Radios]
None == [index |-> "none"]

Init == table = [s \in Stations |-> None]

Holds(s, r) == table[s] # None /\ table[s].radioID = r

\* A station associates: it is entered, or moved from a WTP with the same
\* radio id.  The entry for another radio id stays as it is: deleting it is
\* refused, and inserting a station that is there does nothing.
Associate(s, i, r) ==
    table' = IF table[s] = None \/ Holds(s, r)
             THEN [table EXCEPT ![s] = [index |-> i, radioID |-> r]]
             ELSE table

\* The WTP enters a station it has been told to add.
Add(s, i, r) ==
    table' = IF table[s] = None
             THEN [table EXCEPT ![s] = [index |-> i, radioID |-> r]]
             ELSE table

\* A station has left the radio, whichever WTP the table has it at.
Delete(s, r) ==
    table' = IF Holds(s, r) THEN [table EXCEPT ![s] = None] ELSE table

\* A session closes: nobody but stations of its slot is removed.
Close(i) ==
    \E gone \in SUBSET {s \in Stations : table[s] # None /\ table[s].index = i} :
        table' = [s \in Stations |-> IF s \in gone THEN None ELSE table[s]]

Next ==
    \/ \E s \in Stations, i \in Indices, r \in Radios :
          Associate(s, i, r) \/ Add(s, i, r)
    \/ \E s \in Stations, r \in Radios : Delete(s, r)
    \/ \E i \in Indices : Close(i)

Spec == Init /\ [][Next]_table

=============================================================================
