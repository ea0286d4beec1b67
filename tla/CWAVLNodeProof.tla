---------------------------- MODULE CWAVLNodeProof ----------------------------
(***************************************************************************)
(* What the rotations of CWAVL.c do to a tree of any size: they keep what  *)
(* is found in it, also where a deletion makes the wrong ones, and after   *)
(* an insertion they restore the balance.                                  *)
(***************************************************************************)
EXTENDS CWAVLNode, TLAPS

\* A tree as far as its parent looks at it.
Tree(t) ==
    /\ t.height \in Int /\ -1 <= t.height
    /\ t = NULL <=> t.height = -1

\* A node with right heights: its own follows from those of its children.
Inner(t) ==
    /\ Tree(t) /\ t # NULL
    /\ t.staAddr \in Int
    /\ Tree(t.left) /\ Tree(t.right)
    /\ t.height = 1 + IF AVLheight(t.left) > AVLheight(t.right)
                      THEN AVLheight(t.left) ELSE AVLheight(t.right)

\* A tree whose root, if it has one, is such a node.
Sound(t) == Tree(t) /\ (t # NULL => Inner(t))

\* What a user of the table sees of a node.
Entry(n) == IF n = NULL THEN <<>> ELSE <<n.staAddr, n.index, n.radioID>>

\* Node makes a node of two trees.
LEMMA NodeIs ==
    ASSUME NEW n, n.staAddr \in Int, NEW l, Tree(l), NEW r, Tree(r)
    PROVE  /\ Inner(Node(n, l, r))
           /\ Node(n, l, r).left = l /\ Node(n, l, r).right = r
           /\ Node(n, l, r).staAddr = n.staAddr
           /\ Node(n, l, r).index = n.index
           /\ Node(n, l, r).radioID = n.radioID
<1>1. l # Crash /\ r # Crash
  BY DEF Tree, Crash
<1> DEFINE h == 1 + IF AVLheight(l) > AVLheight(r)
                    THEN AVLheight(l) ELSE AVLheight(r)
           q == [staAddr |-> n.staAddr, index |-> n.index,
                 radioID |-> n.radioID, left |-> l, right |-> r, height |-> h]
<1>2. Node(n, l, r) = q
  BY <1>1 DEF Node
<1>3. h \in Int /\ 0 <= h
  BY DEF Tree, AVLheight
<1> HIDE DEF h
<1>4. /\ q.left = l /\ q.right = r /\ q.staAddr = n.staAddr
      /\ q.index = n.index /\ q.radioID = n.radioID /\ q.height = h
  OBVIOUS
<1>5. q # NULL
  BY <1>3, <1>4 DEF NULL
<1> HIDE DEF q
<1>6. Inner(q)
  BY <1>3, <1>4, <1>5 DEF Inner, Tree, h
<1> QED BY <1>2, <1>4, <1>6

\* A tree is not what the model has for a crash.
LEMMA TreeRuns == ASSUME NEW t, Tree(t) PROVE t # Crash
BY DEF Tree, Crash

\* A single rotation of a node with its left child.
LEMMA RotateLeftIs ==
    ASSUME NEW k, Inner(k), k.left # NULL, Inner(k.left)
    PROVE  LET q == AVLsingle_rotate_with_left(k) IN
           /\ Inner(q) /\ Inner(q.right)
           /\ q.left = k.left.left
           /\ q.right.left = k.left.right /\ q.right.right = k.right
           /\ q.staAddr = k.left.staAddr /\ q.index = k.left.index
           /\ q.radioID = k.left.radioID
           /\ q.right.staAddr = k.staAddr /\ q.right.index = k.index
           /\ q.right.radioID = k.radioID
<1> DEFINE b == Node(k, k.left.right, k.right)
           a == Node(k.left, k.left.left, b)
<1>1. /\ k.staAddr \in Int /\ k.left.staAddr \in Int
      /\ Tree(k.left.left) /\ Tree(k.left.right) /\ Tree(k.right) /\ Tree(k)
  BY DEF Inner
<1>2. /\ Inner(b) /\ b.left = k.left.right /\ b.right = k.right
      /\ b.staAddr = k.staAddr /\ b.index = k.index /\ b.radioID = k.radioID
  BY <1>1, NodeIs
<1> HIDE DEF b
<1>3. Tree(b)
  BY <1>2 DEF Inner
<1>4. /\ Inner(a) /\ a.left = k.left.left /\ a.right = b
      /\ a.staAddr = k.left.staAddr /\ a.index = k.left.index
      /\ a.radioID = k.left.radioID
  BY <1>1, <1>3, NodeIs
<1>5. AVLsingle_rotate_with_left(k) = a
  BY <1>1, TreeRuns DEF AVLsingle_rotate_with_left, b
<1> HIDE DEF a
<1> QED BY <1>2, <1>4, <1>5

\* A single rotation of a node with its right child.
LEMMA RotateRightIs ==
    ASSUME NEW k, Inner(k), k.right # NULL, Inner(k.right)
    PROVE  LET q == AVLsingle_rotate_with_right(k) IN
           /\ Inner(q) /\ Inner(q.left)
           /\ q.right = k.right.right
           /\ q.left.left = k.left /\ q.left.right = k.right.left
           /\ q.staAddr = k.right.staAddr /\ q.index = k.right.index
           /\ q.radioID = k.right.radioID
           /\ q.left.staAddr = k.staAddr /\ q.left.index = k.index
           /\ q.left.radioID = k.radioID
<1> DEFINE b == Node(k, k.left, k.right.left)
           a == Node(k.right, b, k.right.right)
<1>1. /\ k.staAddr \in Int /\ k.right.staAddr \in Int
      /\ Tree(k.right.left) /\ Tree(k.right.right) /\ Tree(k.left) /\ Tree(k)
  BY DEF Inner
<1>2. /\ Inner(b) /\ b.left = k.left /\ b.right = k.right.left
      /\ b.staAddr = k.staAddr /\ b.index = k.index /\ b.radioID = k.radioID
  BY <1>1, NodeIs
<1> HIDE DEF b
<1>3. Tree(b)
  BY <1>2 DEF Inner
<1>4. /\ Inner(a) /\ a.left = b /\ a.right = k.right.right
      /\ a.staAddr = k.right.staAddr /\ a.index = k.right.index
      /\ a.radioID = k.right.radioID
  BY <1>1, <1>3, NodeIs
<1>5. AVLsingle_rotate_with_right(k) = a
  BY <1>1, TreeRuns DEF AVLsingle_rotate_with_right, b
<1> HIDE DEF a
<1> QED BY <1>2, <1>4, <1>5

-----------------------------------------------------------------------------
(* Insertion.                                                              *)

BalancedAt(t) == AVLgetBalance(t) \in -1 .. 1

\* The balance of a node.
LEMMA BalanceIs ==
    ASSUME NEW t, Inner(t)
    PROVE  /\ AVLgetBalance(t) = t.left.height - t.right.height
           /\ AVLgetBalance(t) \in Int
           /\ t.height \in Int /\ t.left.height \in Int /\ t.right.height \in Int
           /\ t.height = 1 + IF t.left.height > t.right.height
                             THEN t.left.height ELSE t.right.height
BY DEF Inner, Tree, AVLgetBalance, AVLheight

\* An insertion below the left child of t made it two higher than the right
\* one; the child is higher on the side of the new station s.  The rotation
\* AVLinsert then makes leaves three balanced nodes, and the subtree as high as
\* it was before the insertion.
THEOREM InsertedLeftRestores ==
    ASSUME NEW s, NEW t, Inner(t), Inner(t.left), BalancedAt(t.left),
           AVLheight(t.left) - AVLheight(t.right) = 2,
           s < t.left.staAddr =>
               AVLheight(t.left.left) > AVLheight(t.left.right),
           ~(s < t.left.staAddr) =>
               /\ AVLheight(t.left.right) > AVLheight(t.left.left)
               /\ Inner(t.left.right) /\ BalancedAt(t.left.right)
    PROVE  LET q == InsertedLeft(s, t) IN
           /\ Inner(q) /\ BalancedAt(q)
           /\ Inner(q.right) /\ BalancedAt(q.right)
           /\ q.left # t.left.left =>
                 Inner(q.left) /\ BalancedAt(q.left)
           /\ AVLheight(q) = AVLheight(t.right) + 2
<1> DEFINE c == t.left
<1>1. t # Crash /\ c # NULL /\ Tree(t) /\ Tree(t.right) /\ t.staAddr \in Int
  BY TreeRuns DEF Inner
<1>2. CASE s < t.left.staAddr
  <2> DEFINE q == AVLsingle_rotate_with_left(t)
  <2>1. InsertedLeft(s, t) = q
    BY <1>1, <1>2 DEF InsertedLeft
  <2>2. /\ Inner(q) /\ Inner(q.right) /\ q.left = c.left
        /\ q.right.left = c.right /\ q.right.right = t.right
    BY <1>1, RotateLeftIs
  <2> HIDE DEF q
  <2>3. c.left.height > c.right.height /\ c.height - t.right.height = 2
    BY <1>2 DEF AVLheight
  <2>4. BalancedAt(q.right) /\ BalancedAt(q) /\ q.height = t.right.height + 2
    BY <2>2, <2>3, BalanceIs DEF BalancedAt
  <2> QED BY <2>1, <2>2, <2>4 DEF AVLheight
<1>3. CASE ~(s < t.left.staAddr)
  <2> DEFINE g == AVLsingle_rotate_with_right(c)
             m == Node(t, g, t.right)
             q == AVLsingle_rotate_with_left(m)
  <2>0. Inner(c.right) /\ c.right # NULL
    BY <1>3 DEF Inner
  <2>1. InsertedLeft(s, t) = q
    BY <1>1, <1>3 DEF InsertedLeft, AVLdouble_rotate_with_left
  <2>2. /\ Inner(g) /\ Inner(g.left) /\ g.right = c.right.right
        /\ g.left.left = c.left /\ g.left.right = c.right.left
    BY <2>0, RotateRightIs
  <2> HIDE DEF g
  <2>3. Inner(m) /\ m.left = g /\ m.right = t.right
    <3>1. Tree(g)
      BY <2>2 DEF Inner
    <3> QED BY <1>1, <3>1, NodeIs
  <2> HIDE DEF m
  <2>4. g # NULL
    BY <2>2 DEF Inner
  <2>5. /\ Inner(q) /\ Inner(q.right) /\ q.left = g.left
        /\ q.right.left = g.right /\ q.right.right = t.right
    BY <2>2, <2>3, <2>4, RotateLeftIs
  <2> HIDE DEF q
  <2>6. /\ c.right.height > c.left.height /\ c.height - t.right.height = 2
        /\ BalancedAt(c.right)
    BY <1>3 DEF AVLheight
  <2>7. /\ BalancedAt(q.left) /\ BalancedAt(q.right) /\ BalancedAt(q)
        /\ q.height = t.right.height + 2
    BY <2>0, <2>2, <2>5, <2>6, BalanceIs DEF BalancedAt
  <2> QED BY <2>1, <2>2, <2>5, <2>7 DEF AVLheight
<1> QED BY <1>2, <1>3

\* The same on the right.
THEOREM InsertedRightRestores ==
    ASSUME NEW s, NEW t, Inner(t), Inner(t.right), BalancedAt(t.right),
           AVLheight(t.right) - AVLheight(t.left) = 2,
           s > t.right.staAddr =>
               AVLheight(t.right.right) > AVLheight(t.right.left),
           ~(s > t.right.staAddr) =>
               /\ AVLheight(t.right.left) > AVLheight(t.right.right)
               /\ Inner(t.right.left) /\ BalancedAt(t.right.left)
    PROVE  LET q == InsertedRight(s, t) IN
           /\ Inner(q) /\ BalancedAt(q)
           /\ Inner(q.left) /\ BalancedAt(q.left)
           /\ q.right # t.right.right =>
                 Inner(q.right) /\ BalancedAt(q.right)
           /\ AVLheight(q) = AVLheight(t.left) + 2
<1> DEFINE c == t.right
<1>1. t # Crash /\ c # NULL /\ Tree(t) /\ Tree(t.left) /\ t.staAddr \in Int
  BY TreeRuns DEF Inner
<1>2. CASE s > t.right.staAddr
  <2> DEFINE q == AVLsingle_rotate_with_right(t)
  <2>1. InsertedRight(s, t) = q
    BY <1>1, <1>2 DEF InsertedRight
  <2>2. /\ Inner(q) /\ Inner(q.left) /\ q.right = c.right
        /\ q.left.left = t.left /\ q.left.right = c.left
    BY <1>1, RotateRightIs
  <2> HIDE DEF q
  <2>3. c.right.height > c.left.height /\ c.height - t.left.height = 2
    BY <1>2 DEF AVLheight
  <2>4. BalancedAt(q.left) /\ BalancedAt(q) /\ q.height = t.left.height + 2
    BY <2>2, <2>3, BalanceIs DEF BalancedAt
  <2> QED BY <2>1, <2>2, <2>4 DEF AVLheight
<1>3. CASE ~(s > t.right.staAddr)
  <2> DEFINE g == AVLsingle_rotate_with_left(c)
             m == Node(t, t.left, g)
             q == AVLsingle_rotate_with_right(m)
  <2>0. Inner(c.left) /\ c.left # NULL
    BY <1>3 DEF Inner
  <2>1. InsertedRight(s, t) = q
    BY <1>1, <1>3 DEF InsertedRight, AVLdouble_rotate_with_right
  <2>2. /\ Inner(g) /\ Inner(g.right) /\ g.left = c.left.left
        /\ g.right.left = c.left.right /\ g.right.right = c.right
    BY <2>0, RotateLeftIs
  <2> HIDE DEF g
  <2>3. Inner(m) /\ m.left = t.left /\ m.right = g
    <3>1. Tree(g)
      BY <2>2 DEF Inner
    <3> QED BY <1>1, <3>1, NodeIs
  <2> HIDE DEF m
  <2>4. g # NULL
    BY <2>2 DEF Inner
  <2>5. /\ Inner(q) /\ Inner(q.left) /\ q.right = g.right
        /\ q.left.left = t.left /\ q.left.right = g.left
    BY <2>2, <2>3, <2>4, RotateRightIs
  <2> HIDE DEF q
  <2>6. /\ c.left.height > c.right.height /\ c.height - t.left.height = 2
        /\ BalancedAt(c.left)
    BY <1>3 DEF AVLheight
  <2>7. /\ BalancedAt(q.left) /\ BalancedAt(q.right) /\ BalancedAt(q)
        /\ q.height = t.left.height + 2
    <3>1. /\ c.left.height = t.left.height + 1
          /\ c.right.height = t.left.height
      BY <2>6, BalanceIs DEF BalancedAt
    <3>2. /\ BalancedAt(q.left) /\ q.left.height = t.left.height + 1
          /\ BalancedAt(q.right) /\ q.right.height = t.left.height + 1
      BY <2>0, <2>2, <2>5, <2>6, <3>1, BalanceIs DEF BalancedAt
    <3> QED BY <2>5, <3>2, BalanceIs DEF BalancedAt
  <2> QED BY <2>1, <2>2, <2>5, <2>7 DEF AVLheight
<1> QED BY <1>2, <1>3

-----------------------------------------------------------------------------
(* What is found.                                                          *)

\* The addresses of a node and its children are in order.
InOrder(t) ==
    /\ t.left # NULL => t.left.staAddr < t.staAddr
    /\ t.right # NULL => t.staAddr < t.right.staAddr

\* The part of a search tree that the rotations of t look at.
SearchNode(t) ==
    /\ Inner(t) /\ Sound(t.left) /\ Sound(t.right) /\ InOrder(t)
    /\ t.left # NULL =>
          /\ Sound(t.left.left) /\ Sound(t.left.right) /\ InOrder(t.left)
          /\ t.left.right # NULL => t.left.right.staAddr < t.staAddr
    /\ t.right # NULL =>
          /\ Sound(t.right.left) /\ Sound(t.right.right) /\ InOrder(t.right)
          /\ t.right.left # NULL => t.staAddr < t.right.left.staAddr

\* The four ways in which a node is rotated, each with a child that is there.
LEMMA RotationCases ==
    ASSUME NEW t, SearchNode(t), NEW x,
           NEW q \in {Rebalance(t), InsertedLeft(x, t), InsertedRight(x, t)},
           q # Crash
    PROVE  \/ q = t
           \/ t.left # NULL /\ q = AVLsingle_rotate_with_left(t)
           \/ t.right # NULL /\ q = AVLsingle_rotate_with_right(t)
           \/ /\ t.left # NULL /\ t.left.right # NULL
              /\ q = AVLdouble_rotate_with_left(t)
           \/ /\ t.right # NULL /\ t.right.left # NULL
              /\ q = AVLdouble_rotate_with_right(t)
           \/ /\ t.left # NULL /\ t.left.left # NULL /\ t.right # NULL
              /\ q = AVLsingle_rotate_with_right(
                        Node(t, AVLsingle_rotate_with_left(t.left), t.right))
           \/ /\ t.right # NULL /\ t.right.right # NULL /\ t.left # NULL
              /\ q = AVLsingle_rotate_with_left(
                        Node(t, t.left, AVLsingle_rotate_with_right(t.right)))
<1>0. /\ t # NULL /\ t # Crash /\ Tree(t.left) /\ Tree(t.right)
      /\ t.staAddr \in Int
  BY TreeRuns DEF SearchNode, Inner
<1>1. ASSUME AVLsingle_rotate_with_left(t) # Crash PROVE t.left # NULL
  BY <1>1 DEF AVLsingle_rotate_with_left
<1>2. ASSUME AVLsingle_rotate_with_right(t) # Crash PROVE t.right # NULL
  BY <1>2 DEF AVLsingle_rotate_with_right
<1>3. ASSUME NEW g, NEW r, AVLsingle_rotate_with_left(Node(t, g, r)) # Crash
      PROVE  g # Crash /\ r # Crash
  BY <1>3 DEF AVLsingle_rotate_with_left, Node
<1>4. ASSUME NEW g, NEW r, AVLsingle_rotate_with_right(Node(t, g, r)) # Crash
      PROVE  g # Crash /\ r # Crash
  BY <1>4 DEF AVLsingle_rotate_with_right, Node
<1>5. ASSUME NEW c, AVLsingle_rotate_with_left(c) # Crash PROVE c.left # NULL
  BY <1>5 DEF AVLsingle_rotate_with_left
<1>6. ASSUME NEW c, AVLsingle_rotate_with_right(c) # Crash PROVE c.right # NULL
  BY <1>6 DEF AVLsingle_rotate_with_right
<1>7. ASSUME NEW l, NEW r, AVLheight(l) - AVLheight(r) > 1, Tree(l), Tree(r)
      PROVE  l # NULL
  BY <1>7 DEF AVLheight, Tree
<1>8. CASE q = InsertedLeft(x, t)
  <2>1. CASE q = t
    BY <2>1
  <2>2. CASE /\ AVLheight(t.left) - AVLheight(t.right) = 2
             /\ q = AVLsingle_rotate_with_left(t)
    BY <1>1, <2>2
  <2>3. CASE /\ AVLheight(t.left) - AVLheight(t.right) = 2
             /\ q = AVLdouble_rotate_with_left(t)
    <3>1. t.left # NULL
      BY <1>0, <1>7, <2>3
    <3>2. AVLsingle_rotate_with_right(t.left) # Crash
      BY <1>3, <2>3 DEF AVLdouble_rotate_with_left
    <3> QED BY <1>6, <2>3, <3>1, <3>2
  <2> QED BY <1>8, <2>1, <2>2, <2>3 DEF InsertedLeft
<1>9. CASE q = InsertedRight(x, t)
  <2>1. CASE q = t
    BY <2>1
  <2>2. CASE /\ AVLheight(t.right) - AVLheight(t.left) = 2
             /\ q = AVLsingle_rotate_with_right(t)
    BY <1>2, <2>2
  <2>3. CASE /\ AVLheight(t.right) - AVLheight(t.left) = 2
             /\ q = AVLdouble_rotate_with_right(t)
    <3>1. t.right # NULL
      BY <1>0, <1>7, <2>3
    <3>2. AVLsingle_rotate_with_left(t.right) # Crash
      BY <1>4, <2>3 DEF AVLdouble_rotate_with_right
    <3> QED BY <1>5, <2>3, <3>1, <3>2
  <2> QED BY <1>9, <2>1, <2>2, <2>3 DEF InsertedRight
<1>10. CASE q = Rebalance(t)
  <2>0. AVLgetBalance(t) = AVLheight(t.left) - AVLheight(t.right)
    BY <1>0 DEF AVLgetBalance
  <2>1. CASE q = t
    BY <2>1
  <2>2. CASE q = AVLsingle_rotate_with_right(t)
    BY <1>2, <2>2
  <2>3. CASE q = AVLsingle_rotate_with_left(t)
    BY <1>1, <2>3
  <2>4. CASE /\ AVLgetBalance(t) > 1
             /\ q = AVLsingle_rotate_with_right(
                       Node(t, AVLsingle_rotate_with_left(t.left), t.right))
    <3> DEFINE g == AVLsingle_rotate_with_left(t.left)
    <3>1. t.left # NULL
      BY <1>0, <1>7, <2>0, <2>4
    <3>2. g # Crash /\ t.right # Crash /\ t.left.left # NULL
      BY <1>4, <1>5, <2>4
    <3>3. Node(t, g, t.right).right = t.right
      <4> HIDE DEF g
      <4> QED BY <3>2 DEF Node
    <3>4. t.right # NULL
      BY <1>6, <2>4, <3>3
    <3> QED BY <2>4, <3>1, <3>2, <3>4
  <2>5. CASE /\ AVLgetBalance(t) < -1
             /\ q = AVLsingle_rotate_with_left(
                       Node(t, t.left, AVLsingle_rotate_with_right(t.right)))
    <3> DEFINE g == AVLsingle_rotate_with_right(t.right)
    <3>1. t.right # NULL
      <4>1. AVLheight(t.right) - AVLheight(t.left) > 1
        BY <1>0, <2>0, <2>5 DEF Tree, AVLheight
      <4> QED BY <1>0, <1>7, <4>1
    <3>2. g # Crash /\ t.left # Crash /\ t.right.right # NULL
      BY <1>3, <1>6, <2>5
    <3>3. Node(t, t.left, g).left = t.left
      <4> HIDE DEF g
      <4> QED BY <3>2 DEF Node
    <3>4. t.left # NULL
      BY <1>5, <2>5, <3>3
    <3> QED BY <2>5, <3>1, <3>2, <3>4
  <2> QED BY <1>0, <1>10, <2>1, <2>2, <2>3, <2>4, <2>5 DEF Rebalance
<1> QED BY <1>8, <1>9, <1>10

\* Whatever AVLinsert and a deletion do to a node after the insertion or the
\* deletion below it, if the program survives it, every station is found there
\* that was found before, with the same WTP and radio, and no other: also
\* where a deletion rotates to the wrong side.  Find is any operator with the
\* recursion of AVLfind; there is one, since the recursion leaves the value
\* open where it does not end.
THEOREM RotationsKeepTable ==
    ASSUME NEW Find(_, _),
           \A s \in Int : \A t :
              Find(s, t) = IF t = NULL THEN NULL
                           ELSE IF s < t.staAddr THEN Find(s, t.left)
                           ELSE IF s > t.staAddr THEN Find(s, t.right)
                           ELSE t,
           NEW t, SearchNode(t), NEW x,
           NEW q \in {Rebalance(t), InsertedLeft(x, t), InsertedRight(x, t)},
           q # Crash
    PROVE  /\ Inner(q)
           /\ \A s \in Int : Entry(Find(s, q)) = Entry(Find(s, t))
<1>0. /\ \A s \in Int : \A n :
            n # NULL /\ s < n.staAddr => Find(s, n) = Find(s, n.left)
      /\ \A s \in Int : \A n :
            n # NULL /\ s > n.staAddr /\ n.staAddr \in Int =>
                Find(s, n) = Find(s, n.right)
      /\ \A s \in Int : \A n :
            n # NULL /\ s = n.staAddr => Find(s, n) = n
  OBVIOUS
<1>1. ASSUME NEW k, Inner(k), k.left # NULL, Inner(k.left),
             k.left.staAddr < k.staAddr, NEW s \in Int
      PROVE  Entry(Find(s, AVLsingle_rotate_with_left(k))) = Entry(Find(s, k))
  <2> DEFINE r == AVLsingle_rotate_with_left(k)
  <2> SUFFICES Entry(Find(s, r)) = Entry(Find(s, k))
    OBVIOUS
  <2>1. /\ Inner(r) /\ Inner(r.right)
        /\ r.left = k.left.left
        /\ r.right.left = k.left.right /\ r.right.right = k.right
        /\ r.staAddr = k.left.staAddr /\ r.index = k.left.index
        /\ r.radioID = k.left.radioID
        /\ r.right.staAddr = k.staAddr /\ r.right.index = k.index
        /\ r.right.radioID = k.radioID
    BY <1>1, RotateLeftIs
  <2> HIDE DEF r
  <2>2. /\ r # NULL /\ r.right # NULL /\ k # NULL
        /\ k.staAddr \in Int /\ k.left.staAddr \in Int
    BY <1>1, <2>1 DEF Inner
  <2>3. CASE s < k.left.staAddr
    <3>1. Find(s, r) = Find(s, k.left.left)
      BY <1>0, <2>1, <2>2, <2>3
    <3>2. Find(s, k.left) = Find(s, k.left.left) /\ s < k.staAddr
      BY <1>0, <1>1, <2>2, <2>3
    <3> QED BY <1>0, <2>2, <3>1, <3>2
  <2>4. CASE s = k.left.staAddr
    <3>1. Find(s, r) = r
      BY <1>0, <2>1, <2>2, <2>4
    <3>2. Find(s, k) = k.left
      BY <1>0, <1>1, <2>2, <2>4
    <3> QED BY <1>1, <2>1, <2>2, <3>1, <3>2 DEF Entry
  <2>5. CASE k.left.staAddr < s /\ s < k.staAddr
    <3>1. Find(s, r) = Find(s, r.right)
      BY <1>0, <2>1, <2>2, <2>5
    <3>2. Find(s, r.right) = Find(s, k.left.right)
      BY <1>0, <2>1, <2>2, <2>5
    <3>3. Find(s, k) = Find(s, k.left)
      BY <1>0, <2>2, <2>5
    <3>4. Find(s, k.left) = Find(s, k.left.right)
      BY <1>0, <1>1, <2>2, <2>5
    <3> QED BY <3>1, <3>2, <3>3, <3>4
  <2>6. CASE s = k.staAddr
    <3>1. Find(s, r) = Find(s, r.right)
      BY <1>0, <1>1, <2>1, <2>2, <2>6
    <3>2. Find(s, r.right) = r.right
      BY <1>0, <2>1, <2>2, <2>6
    <3>3. Find(s, k) = k
      BY <1>0, <2>2, <2>6
    <3> QED BY <2>1, <2>2, <3>1, <3>2, <3>3 DEF Entry
  <2>7. CASE k.staAddr < s
    <3>1. Find(s, r) = Find(s, r.right)
      BY <1>0, <1>1, <2>1, <2>2, <2>7
    <3>2. Find(s, r.right) = Find(s, k.right)
      BY <1>0, <2>1, <2>2, <2>7
    <3>3. Find(s, k) = Find(s, k.right)
      BY <1>0, <2>2, <2>7
    <3> QED BY <3>1, <3>2, <3>3
  <2> QED BY <2>2, <2>3, <2>4, <2>5, <2>6, <2>7
<1>2. ASSUME NEW k, Inner(k), k.right # NULL, Inner(k.right),
             k.staAddr < k.right.staAddr, NEW s \in Int
      PROVE  Entry(Find(s, AVLsingle_rotate_with_right(k))) = Entry(Find(s, k))
  <2> DEFINE r == AVLsingle_rotate_with_right(k)
  <2> SUFFICES Entry(Find(s, r)) = Entry(Find(s, k))
    OBVIOUS
  <2>1. /\ Inner(r) /\ Inner(r.left)
        /\ r.right = k.right.right
        /\ r.left.left = k.left /\ r.left.right = k.right.left
        /\ r.staAddr = k.right.staAddr /\ r.index = k.right.index
        /\ r.radioID = k.right.radioID
        /\ r.left.staAddr = k.staAddr /\ r.left.index = k.index
        /\ r.left.radioID = k.radioID
    BY <1>2, RotateRightIs
  <2> HIDE DEF r
  <2>2. /\ r # NULL /\ r.left # NULL /\ k # NULL
        /\ k.staAddr \in Int /\ k.right.staAddr \in Int
    BY <1>2, <2>1 DEF Inner
  <2>3. CASE s > k.right.staAddr
    <3>1. Find(s, r) = Find(s, k.right.right)
      BY <1>0, <2>1, <2>2, <2>3
    <3>2. Find(s, k.right) = Find(s, k.right.right) /\ s > k.staAddr
      BY <1>0, <1>2, <2>2, <2>3
    <3> QED BY <1>0, <2>2, <3>1, <3>2
  <2>4. CASE s = k.right.staAddr
    <3>1. Find(s, r) = r
      BY <1>0, <2>1, <2>2, <2>4
    <3>2. Find(s, k) = k.right
      BY <1>0, <1>2, <2>2, <2>4
    <3> QED BY <1>2, <2>1, <2>2, <3>1, <3>2 DEF Entry
  <2>5. CASE k.staAddr < s /\ s < k.right.staAddr
    <3>1. Find(s, r) = Find(s, r.left)
      BY <1>0, <2>1, <2>2, <2>5
    <3>2. Find(s, r.left) = Find(s, k.right.left)
      BY <1>0, <2>1, <2>2, <2>5
    <3>3. Find(s, k) = Find(s, k.right)
      BY <1>0, <2>2, <2>5
    <3>4. Find(s, k.right) = Find(s, k.right.left)
      BY <1>0, <1>2, <2>2, <2>5
    <3> QED BY <3>1, <3>2, <3>3, <3>4
  <2>6. CASE s = k.staAddr
    <3>1. Find(s, r) = Find(s, r.left)
      BY <1>0, <1>2, <2>1, <2>2, <2>6
    <3>2. Find(s, r.left) = r.left
      BY <1>0, <2>1, <2>2, <2>6
    <3>3. Find(s, k) = k
      BY <1>0, <2>2, <2>6
    <3> QED BY <2>1, <2>2, <3>1, <3>2, <3>3 DEF Entry
  <2>7. CASE s < k.staAddr
    <3>1. Find(s, r) = Find(s, r.left)
      BY <1>0, <1>2, <2>1, <2>2, <2>7
    <3>2. Find(s, r.left) = Find(s, k.left)
      BY <1>0, <2>1, <2>2, <2>7
    <3>3. Find(s, k) = Find(s, k.left)
      BY <1>0, <2>2, <2>7
    <3> QED BY <3>1, <3>2, <3>3
  <2> QED BY <2>2, <2>3, <2>4, <2>5, <2>6, <2>7
<1>3. ASSUME NEW l, NEW r, Tree(l), Tree(r),
             \A s \in Int : /\ Entry(Find(s, l)) = Entry(Find(s, t.left))
                            /\ Entry(Find(s, r)) = Entry(Find(s, t.right)),
             NEW s \in Int
      PROVE  Entry(Find(s, Node(t, l, r))) = Entry(Find(s, t))
  <2> DEFINE m == Node(t, l, r)
  <2> SUFFICES Entry(Find(s, m)) = Entry(Find(s, t))
    OBVIOUS
  <2>0. Inner(t) /\ t # NULL /\ t.staAddr \in Int
    BY DEF SearchNode, Inner
  <2>1. /\ Inner(m) /\ m.left = l /\ m.right = r /\ m.staAddr = t.staAddr
        /\ m.index = t.index /\ m.radioID = t.radioID
    BY <1>3, <2>0, NodeIs
  <2> HIDE DEF m
  <2>2. m # NULL
    BY <2>1 DEF Inner
  <2>3. CASE s < t.staAddr
    <3>1. Find(s, m) = Find(s, l) /\ Find(s, t) = Find(s, t.left)
      BY <1>0, <2>0, <2>1, <2>2, <2>3
    <3> QED BY <1>3, <3>1
  <2>4. CASE s > t.staAddr
    <3>1. Find(s, m) = Find(s, r) /\ Find(s, t) = Find(s, t.right)
      BY <1>0, <2>0, <2>1, <2>2, <2>4
    <3> QED BY <1>3, <3>1
  <2>5. CASE s = t.staAddr
    <3>1. Find(s, m) = m /\ Find(s, t) = t
      BY <1>0, <2>0, <2>1, <2>2, <2>5
    <3> QED BY <2>0, <2>1, <2>2, <3>1 DEF Entry
  <2> QED BY <2>0, <2>3, <2>4, <2>5
<1>4. /\ Inner(t) /\ Tree(t.left) /\ Tree(t.right) /\ t.staAddr \in Int
      /\ t.left # NULL => /\ Inner(t.left) /\ t.left.staAddr < t.staAddr
                          /\ t.left.left # NULL =>
                                /\ Inner(t.left.left)
                                /\ t.left.left.staAddr < t.left.staAddr
                          /\ t.left.right # NULL =>
                                /\ Inner(t.left.right)
                                /\ t.left.staAddr < t.left.right.staAddr
                                /\ t.left.right.staAddr < t.staAddr
      /\ t.right # NULL => /\ Inner(t.right) /\ t.staAddr < t.right.staAddr
                           /\ t.right.left # NULL =>
                                /\ Inner(t.right.left)
                                /\ t.right.left.staAddr < t.right.staAddr
                                /\ t.staAddr < t.right.left.staAddr
                           /\ t.right.right # NULL =>
                                /\ Inner(t.right.right)
                                /\ t.right.staAddr < t.right.right.staAddr
  BY DEF SearchNode, InOrder, Sound, Inner
<1>5. CASE q = t
  BY <1>4, <1>5
<1>6. CASE t.left # NULL /\ q = AVLsingle_rotate_with_left(t)
  BY <1>1, <1>4, <1>6, RotateLeftIs
<1>7. CASE t.right # NULL /\ q = AVLsingle_rotate_with_right(t)
  BY <1>2, <1>4, <1>7, RotateRightIs
<1>8. CASE /\ t.left # NULL /\ t.left.right # NULL
           /\ q = AVLdouble_rotate_with_left(t)
  <2> DEFINE g == AVLsingle_rotate_with_right(t.left)
             m == Node(t, g, t.right)
  <2>1. /\ \A s \in Int : Entry(Find(s, g)) = Entry(Find(s, t.left))
        /\ Inner(g) /\ g.staAddr = t.left.right.staAddr
    BY <1>2, <1>4, <1>8, RotateRightIs
  <2>2. q = AVLsingle_rotate_with_left(m)
    BY <1>8 DEF AVLdouble_rotate_with_left
  <2> HIDE DEF g
  <2>3. Tree(g) /\ g # NULL
    BY <2>1 DEF Inner
  <2>4. \A s \in Int : Entry(Find(s, m)) = Entry(Find(s, t))
    BY <1>3, <1>4, <2>1, <2>3
  <2>5. Inner(m) /\ m.left = g /\ m.staAddr = t.staAddr
    BY <1>4, <2>3, NodeIs
  <2> HIDE DEF m
  <2>6. m.left # NULL /\ Inner(m.left) /\ m.left.staAddr < m.staAddr
    BY <1>4, <1>8, <2>1, <2>3, <2>5
  <2>7. /\ Inner(q)
        /\ \A s \in Int : Entry(Find(s, q)) = Entry(Find(s, m))
    BY <1>1, <2>2, <2>5, <2>6, RotateLeftIs
  <2> QED BY <2>4, <2>7
<1>9. CASE /\ t.right # NULL /\ t.right.left # NULL
           /\ q = AVLdouble_rotate_with_right(t)
  <2> DEFINE g == AVLsingle_rotate_with_left(t.right)
             m == Node(t, t.left, g)
  <2>1. /\ \A s \in Int : Entry(Find(s, g)) = Entry(Find(s, t.right))
        /\ Inner(g) /\ g.staAddr = t.right.left.staAddr
    BY <1>1, <1>4, <1>9, RotateLeftIs
  <2>2. q = AVLsingle_rotate_with_right(m)
    BY <1>9 DEF AVLdouble_rotate_with_right
  <2> HIDE DEF g
  <2>3. Tree(g) /\ g # NULL
    BY <2>1 DEF Inner
  <2>4. \A s \in Int : Entry(Find(s, m)) = Entry(Find(s, t))
    BY <1>3, <1>4, <2>1, <2>3
  <2>5. Inner(m) /\ m.right = g /\ m.staAddr = t.staAddr
    BY <1>4, <2>3, NodeIs
  <2> HIDE DEF m
  <2>6. m.right # NULL /\ Inner(m.right) /\ m.staAddr < m.right.staAddr
    BY <1>4, <1>9, <2>1, <2>3, <2>5
  <2>7. /\ Inner(q)
        /\ \A s \in Int : Entry(Find(s, q)) = Entry(Find(s, m))
    BY <1>2, <2>2, <2>5, <2>6, RotateRightIs
  <2> QED BY <2>4, <2>7
<1>10. CASE /\ t.left # NULL /\ t.left.left # NULL /\ t.right # NULL
            /\ q = AVLsingle_rotate_with_right(
                      Node(t, AVLsingle_rotate_with_left(t.left), t.right))
  <2> DEFINE g == AVLsingle_rotate_with_left(t.left)
             m == Node(t, g, t.right)
  <2>1. /\ \A s \in Int : Entry(Find(s, g)) = Entry(Find(s, t.left))
        /\ Inner(g)
    BY <1>1, <1>4, <1>10, RotateLeftIs
  <2>2. q = AVLsingle_rotate_with_right(m)
    BY <1>10
  <2> HIDE DEF g
  <2>3. Tree(g)
    BY <2>1 DEF Inner
  <2>4. \A s \in Int : Entry(Find(s, m)) = Entry(Find(s, t))
    BY <1>3, <1>4, <2>1, <2>3
  <2>5. Inner(m) /\ m.right = t.right /\ m.staAddr = t.staAddr
    BY <1>4, <2>3, NodeIs
  <2> HIDE DEF m
  <2>6. m.right # NULL /\ Inner(m.right) /\ m.staAddr < m.right.staAddr
    BY <1>4, <1>10, <2>5
  <2>7. /\ Inner(q)
        /\ \A s \in Int : Entry(Find(s, q)) = Entry(Find(s, m))
    BY <1>2, <2>2, <2>5, <2>6, RotateRightIs
  <2> QED BY <2>4, <2>7
<1>11. CASE /\ t.right # NULL /\ t.right.right # NULL /\ t.left # NULL
            /\ q = AVLsingle_rotate_with_left(
                      Node(t, t.left, AVLsingle_rotate_with_right(t.right)))
  <2> DEFINE g == AVLsingle_rotate_with_right(t.right)
             m == Node(t, t.left, g)
  <2>1. /\ \A s \in Int : Entry(Find(s, g)) = Entry(Find(s, t.right))
        /\ Inner(g)
    BY <1>2, <1>4, <1>11, RotateRightIs
  <2>2. q = AVLsingle_rotate_with_left(m)
    BY <1>11
  <2> HIDE DEF g
  <2>3. Tree(g)
    BY <2>1 DEF Inner
  <2>4. \A s \in Int : Entry(Find(s, m)) = Entry(Find(s, t))
    BY <1>3, <1>4, <2>1, <2>3
  <2>5. Inner(m) /\ m.left = t.left /\ m.staAddr = t.staAddr
    BY <1>4, <2>3, NodeIs
  <2> HIDE DEF m
  <2>6. m.left # NULL /\ Inner(m.left) /\ m.left.staAddr < m.staAddr
    BY <1>4, <1>11, <2>5
  <2>7. /\ Inner(q)
        /\ \A s \in Int : Entry(Find(s, q)) = Entry(Find(s, m))
    BY <1>1, <2>2, <2>5, <2>6, RotateLeftIs
  <2> QED BY <2>4, <2>7
<1> QED BY <1>5, <1>6, <1>7, <1>8, <1>9, <1>10, <1>11, RotationCases

=============================================================================
