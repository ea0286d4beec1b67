-------------------------------- MODULE CWAVL --------------------------------
(***************************************************************************)
(* The table of stations as a balanced search tree: the recursive          *)
(* functions of CWAVL.c, each by what it does at one node (CWAVLNode), and *)
(* CWAVLTable, whose parameter of that name each of them is the value of.  *)
(***************************************************************************)
EXTENDS CWAVLTable

ASSUME StationsAssumption == Stations \subseteq Nat

RECURSIVE Find(_, _)
Find(s, t) == AVLfindAt(Find, s, t)

RECURSIVE FindWTPNode(_, _)
FindWTPNode(t, i) == AVLfindWTPNodeAt(FindWTPNode, t, i)

RECURSIVE Insert(_, _, _, _)
Insert(i, s, r, t) == AVLinsertAt(Insert, i, s, r, t)

\* Mutant: the search for the smallest node ends at once.
MinValueNode_root(t) == t

RECURSIVE MinValueNode(_)
MinValueNode(t) == AVLminValueNodeAt(MinValueNode, t)

RECURSIVE RemoveNode(_, _, _)
RemoveNode(t, s, radios) == RemoveAt(RemoveNode, MinValueNode, t, s, radios)

RECURSIVE RemoveWTPNodes(_, _)
RemoveWTPNodes(t, i) ==
    RemoveWTPAt(RemoveWTPNodes, FindWTPNode, AVLdeleteNodeWithoutRadioID, t, i)

RECURSIVE NodesOf(_)
NodesOf(t) == NodesAt(NodesOf, t)

RECURSIVE DepthOf(_)
DepthOf(t) == DepthAt(DepthOf, t)

=============================================================================
