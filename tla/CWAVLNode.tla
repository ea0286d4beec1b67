------------------------------ MODULE CWAVLNode ------------------------------
(***************************************************************************)
(* The nodes of the tree of stations (CWAVL.c): their rotations, when a    *)
(* node is rotated, and what each of the tree's functions does at one      *)
(* node.  A recursive function is given as its body, a parameter standing  *)
(* for the function in its recursive calls; CWAVL ties the knot.           *)
(*                                                                         *)
(* A node carries its children, so a tree is a value; a function returns   *)
(* the new root as in the code, or Crash where the code would dereference  *)
(* NULL.  Addresses are numbers, in the order of compareEthAddr.           *)
(***************************************************************************)
EXTENDS Integers

\* Both have a height, so that AVLheight needs no case.
NULL == [height |-> -1]
Crash == [height |-> -2]

AVLheight(n) == n.height
AVLgetBalance(n) ==
    IF n = NULL THEN 0 ELSE AVLheight(n.left) - AVLheight(n.right)

\* Mutant: the height of the left subtree is forgotten.
Node_right_height(n, l, r) ==
    IF Crash \in {l, r} THEN Crash
    ELSE [staAddr |-> n.staAddr, index |-> n.index, radioID |-> n.radioID,
          left |-> l, right |-> r, height |-> AVLheight(r) + 1]

\* The node n with the children l and r and the height that follows.
Node(n, l, r) ==
    IF Crash \in {l, r} THEN Crash
    ELSE [staAddr |-> n.staAddr, index |-> n.index, radioID |-> n.radioID,
          left |-> l, right |-> r,
          height |-> 1 + IF AVLheight(l) > AVLheight(r)
                         THEN AVLheight(l) ELSE AVLheight(r)]

-----------------------------------------------------------------------------
(* Rotations.                                                              *)

AVLsingle_rotate_with_left(k2) ==
    IF k2 = Crash \/ k2.left = NULL THEN Crash
    ELSE LET k1 == k2.left
         IN  Node(k1, k1.left, Node(k2, k1.right, k2.right))

AVLsingle_rotate_with_right(k1) ==
    IF k1 = Crash \/ k1.right = NULL THEN Crash
    ELSE LET k2 == k1.right
         IN  Node(k2, Node(k1, k1.left, k2.left), k2.right)

\* Mutant: a single rotation where two are needed.
AVLdouble_rotate_with_left_single(k3) == AVLsingle_rotate_with_left(k3)

AVLdouble_rotate_with_left(k3) ==
    AVLsingle_rotate_with_left(
        Node(k3, AVLsingle_rotate_with_right(k3.left), k3.right))

AVLdouble_rotate_with_right(k1) ==
    AVLsingle_rotate_with_right(
        Node(k1, k1.left, AVLsingle_rotate_with_left(k1.right)))

-----------------------------------------------------------------------------
(* After an insertion or a deletion below a node.                          *)

\* Whether or not something was inserted below t.
InsertedLeft(s, t) ==
    IF t = Crash \/ AVLheight(t.left) - AVLheight(t.right) # 2 THEN t
    ELSE IF s < t.left.staAddr THEN AVLsingle_rotate_with_left(t)
    ELSE AVLdouble_rotate_with_left(t)

InsertedRight(s, t) ==
    IF t = Crash \/ AVLheight(t.right) - AVLheight(t.left) # 2 THEN t
    ELSE IF s > t.right.staAddr THEN AVLsingle_rotate_with_right(t)
    ELSE AVLdouble_rotate_with_right(t)

\* Steps 2 and 3 of a deletion.  The rotations are those of an insertion with
\* left and right exchanged.
Rebalance(t) ==
    IF t \in {NULL, Crash} THEN t
    ELSE LET balance == AVLgetBalance(t) IN
         IF balance > 1 /\ AVLgetBalance(t.left) >= 0
         THEN AVLsingle_rotate_with_right(t)
         ELSE IF balance > 1
         THEN AVLsingle_rotate_with_right(
                 Node(t, AVLsingle_rotate_with_left(t.left), t.right))
         ELSE IF balance < -1 /\ AVLgetBalance(t.right) <= 0
         THEN AVLsingle_rotate_with_left(t)
         ELSE IF balance < -1
         THEN AVLsingle_rotate_with_left(
                 Node(t, t.left, AVLsingle_rotate_with_right(t.right)))
         ELSE t

-----------------------------------------------------------------------------
(* The functions of the tree, at one node.                                 *)

AVLfindAt(Find(_, _), s, t) ==
    IF t = NULL THEN NULL
    ELSE IF s < t.staAddr THEN Find(s, t.left)
    ELSE IF s > t.staAddr THEN Find(s, t.right)
    ELSE t

\* The recursive calls' results are not returned: what the caller gets is what
\* the last one, for the right child, left in the return register (-O0).
AVLfindWTPNodeAt(FindWTP(_, _), t, i) ==
    IF t = NULL \/ t.index = i THEN t ELSE FindWTP(t.right, i)

AVLinsertAt(Insert(_, _, _, _), i, s, r, t) ==
    IF t = NULL
    THEN Node([staAddr |-> s, index |-> i, radioID |-> r], NULL, NULL)
    ELSE IF s < t.staAddr
    THEN InsertedLeft(s, Node(t, Insert(i, s, r, t.left), t.right))
    ELSE IF s > t.staAddr
    THEN InsertedRight(s, Node(t, t.left, Insert(i, s, r, t.right)))
    ELSE t

AVLminValueNodeAt(Min(_), t) == IF t.left = NULL THEN t ELSE Min(t.left)

\* Mutant: only the successor's address is copied.
Successor_address_only(t, next) ==
    [staAddr |-> next.staAddr, index |-> t.index, radioID |-> t.radioID]

\* What a node with two children becomes: its in-order successor.
Successor(t, next) ==
    [staAddr |-> next.staAddr, index |-> next.index, radioID |-> next.radioID]

\* The deletion of s, if its radio id is one of radios.
RemoveAt(Remove(_, _, _), Min(_), t, s, radios) ==
    IF t = NULL THEN NULL
    ELSE Rebalance(
        IF s < t.staAddr THEN Node(t, Remove(t.left, s, radios), t.right)
        ELSE IF s > t.staAddr THEN Node(t, t.left, Remove(t.right, s, radios))
        ELSE IF t.radioID \notin radios THEN Node(t, t.left, t.right)
        ELSE IF t.left = NULL THEN t.right
        ELSE IF t.right = NULL THEN t.left
        ELSE LET next == Min(t.right)
             IN  Node(Successor(t, next), t.left,
                      Remove(t.right, next.staAddr, {next.radioID})))

\* The end of a session removes the stations of its slot i one by one, as long
\* as AVLfindWTPNode finds one.
RemoveWTPAt(RemoveWTP(_, _), FindWTP(_, _), Delete(_, _), t, i) ==
    LET n == FindWTP(t, i)
        d == Delete(t, n.staAddr)
    IN  IF n = NULL THEN t
        ELSE IF d \in {NULL, Crash} THEN d
        ELSE RemoveWTP(d, i)

\* Not in the code: the nodes of a tree, and its height.
NodesAt(Nodes(_), t) ==
    IF t = NULL THEN {} ELSE {t} \cup Nodes(t.left) \cup Nodes(t.right)

DepthAt(Depth(_), t) ==
    IF t = NULL THEN -1
    ELSE 1 + IF Depth(t.left) > Depth(t.right)
             THEN Depth(t.left) ELSE Depth(t.right)

=============================================================================
