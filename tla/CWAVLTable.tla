----------------------------- MODULE CWAVLTable -----------------------------
(***************************************************************************)
(* The sections under mutexAvlTree that use the tree of stations: an       *)
(* association and a station's departure on the AC (ACRunState.c), the end *)
(* of a session (ACMainLoop.c), and the WTP's own table (WTPRadio.c).      *)
(*                                                                         *)
(* The tree's recursive functions are parameters here, because no theorem  *)
(* can be proved in a module with a RECURSIVE definition.  CWAVL has the   *)
(* definitions that are their values.  CWAVLFunctions is all that the      *)
(* theorems use of those: the equation that defines each of them.          *)
(***************************************************************************)
EXTENDS CWAVLNode, FiniteSets

CONSTANTS
    Stations,   \* the stations' addresses
    Indices,    \* slots of gWTPs on the AC, BSSs on the WTP
    Radios,     \* radio ids
    AVLfind(_, _), AVLfindWTPNode(_, _), AVLinsert(_, _, _, _),
    AVLminValueNode(_), Remove(_, _, _), RemoveWTP(_, _),
    Nodes(_), Depth(_)

VARIABLES
    avlTree,
    crashed     \* the program dereferenced NULL

vars == <<avlTree, crashed>>

AVLdeleteNode(t, s, r) == Remove(t, s, {r})
AVLdeleteNodeWithoutRadioID(t, s) == Remove(t, s, Radios)

CWAVLFunctions ==
    /\ Stations \subseteq Nat
    /\ \A s, t : AVLfind(s, t) = AVLfindAt(AVLfind, s, t)
    /\ \A t, i : AVLfindWTPNode(t, i) = AVLfindWTPNodeAt(AVLfindWTPNode, t, i)
    /\ \A i, s, r, t : AVLinsert(i, s, r, t) = AVLinsertAt(AVLinsert, i, s, r, t)
    /\ \A t : AVLminValueNode(t) = AVLminValueNodeAt(AVLminValueNode, t)
    /\ \A t, s, radios :
          Remove(t, s, radios) = RemoveAt(Remove, AVLminValueNode, t, s, radios)
    /\ \A t, i : RemoveWTP(t, i) = RemoveWTPAt(RemoveWTP, AVLfindWTPNode,
                                      AVLdeleteNodeWithoutRadioID, t, i)
    /\ \A t : Nodes(t) = NodesAt(Nodes, t) /\ Depth(t) = DepthAt(Depth, t)

-----------------------------------------------------------------------------
(* The sections under mutexAvlTree.                                        *)

Init == avlTree = NULL /\ crashed = FALSE

Becomes(t) ==
    /\ ~crashed
    /\ IF t = Crash THEN crashed' = TRUE /\ UNCHANGED avlTree
                    ELSE avlTree' = t /\ UNCHANGED crashed

\* AC: station s associates through radio r of the WTP in slot i.
Associate(s, i, r) ==
    LET n == AVLfind(s, avlTree)
        d == AVLdeleteNode(avlTree, s, r)
    IN  IF n = NULL THEN Becomes(AVLinsert(i, s, r, avlTree))
        ELSE /\ n.radioID # r \/ n.index # i
             /\ Becomes(IF d = Crash THEN Crash ELSE AVLinsert(i, s, r, d))

\* WTP: CWWTPAddNewStation.
Add(s, i, r) == Becomes(AVLinsert(i, s, r, avlTree))

\* AC: CWSaveWTPEventRequestMessage; WTP: CWWTPDelStation.
Delete(s, r) == Becomes(AVLdeleteNode(avlTree, s, r))

\* AC: the end of _CWCloseThread.
Close(i) == Becomes(RemoveWTP(avlTree, i))

Next ==
    \/ \E s \in Stations, i \in Indices, r \in Radios :
          Associate(s, i, r) \/ Add(s, i, r)
    \/ \E s \in Stations, r \in Radios : Delete(s, r)
    \/ \E i \in Indices : Close(i)

Spec == Init /\ [][Next]_vars

-----------------------------------------------------------------------------
(* Properties.                                                             *)

\* Every node of the tree is found by its address, after any sequence of
\* insertions, deletions and rotations, right or wrong.
SearchTree == \A n \in Nodes(avlTree) : AVLfind(n.staAddr, avlTree) = n

\* The stored heights, by which the code decides to rotate, are the heights
\* of the subtrees.
HeightsRight == \A n \in Nodes(avlTree) : n.height = Depth(n)

Balanced(t) == \A n \in Nodes(t) : AVLgetBalance(n) \in -1 .. 1

\* AVLinsert puts a station into a balanced tree so that it stays balanced.
InsertKeepsBalance ==
    [][Balanced(avlTree)
       /\ Cardinality(Nodes(avlTree)) < Cardinality(Nodes(avlTree'))
       => Balanced(avlTree')]_vars

\* The table a tree stands for: for every station what AVLfind finds.
TableOf(t) ==
    [s \in Stations |->
        LET n == AVLfind(s, t)
        IN  IF n = NULL THEN [index |-> "none"]
            ELSE [index |-> n.index, radioID |-> n.radioID]]

Abstract == INSTANCE StationTable WITH table <- TableOf(avlTree)

\* As long as it does not crash, the tree is a table of stations: an operation
\* on one station, or on the stations of one WTP, leaves the entries of all
\* others as they are, however nodes are copied and rotated.
ImplementsTable == Abstract!Spec

\* "note: call single_rotate_with_right only if the k1 nodeAVL has a right
\* child" (CWAVL.c:132), and the same of the left (line 113): no rotation of a
\* node without that child.
RotationsAllowed == ~crashed

=============================================================================
