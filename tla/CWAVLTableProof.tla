--------------------------- MODULE CWAVLTableProof ---------------------------
(***************************************************************************)
(* The tree of CWAVL.c is a search tree with right heights and implements  *)
(* the table of stations, for any stations and after any sequence of       *)
(* insertions and deletions.                                               *)
(***************************************************************************)
EXTENDS CWAVLTable, CWAVLNodeProof, WellFoundedInduction, FiniteSetTheorems

-----------------------------------------------------------------------------
(* The equations of the tree's functions, one by one.                      *)

\* Addresses are numbers.
LEMMA StationsAreNumbers == CWAVLFunctions => Stations \subseteq Nat
BY Zenon DEF CWAVLFunctions

\* AVLfind at one node.
LEMMA FindEquation ==
    ASSUME CWAVLFunctions, NEW s, NEW t
    PROVE  AVLfind(s, t) = IF t = NULL THEN NULL
                           ELSE IF s < t.staAddr THEN AVLfind(s, t.left)
                           ELSE IF s > t.staAddr THEN AVLfind(s, t.right)
                           ELSE t
BY Zenon DEF CWAVLFunctions, AVLfindAt

\* AVLfindWTPNode at one node.
LEMMA FindWTPEquation ==
    ASSUME CWAVLFunctions, NEW t, NEW i
    PROVE  AVLfindWTPNode(t, i) =
             IF t = NULL \/ t.index = i THEN t ELSE AVLfindWTPNode(t.right, i)
BY Zenon DEF CWAVLFunctions, AVLfindWTPNodeAt

\* AVLinsert in an empty tree.
LEMMA InsertEmpty ==
    ASSUME CWAVLFunctions, NEW i, NEW s, NEW r
    PROVE  AVLinsert(i, s, r, NULL) =
             Node([staAddr |-> s, index |-> i, radioID |-> r], NULL, NULL)
<1>1. AVLinsert(i, s, r, NULL) = AVLinsertAt(AVLinsert, i, s, r, NULL)
  BY Zenon DEF CWAVLFunctions
<1> QED BY <1>1 DEF AVLinsertAt

\* AVLinsert at a node, by the order of the two addresses.
LEMMA InsertCases ==
    ASSUME CWAVLFunctions, NEW i, NEW s \in Int, NEW r, NEW t, t # NULL,
           t.staAddr \in Int
    PROVE  /\ s < t.staAddr =>
                AVLinsert(i, s, r, t) =
                  InsertedLeft(s, Node(t, AVLinsert(i, s, r, t.left), t.right))
           /\ s > t.staAddr =>
                AVLinsert(i, s, r, t) =
                  InsertedRight(s, Node(t, t.left, AVLinsert(i, s, r, t.right)))
           /\ s = t.staAddr => AVLinsert(i, s, r, t) = t
<1> DEFINE x == AVLinsert(i, s, r, t)
           e == Node([staAddr |-> s, index |-> i, radioID |-> r], NULL, NULL)
           l == InsertedLeft(s, Node(t, AVLinsert(i, s, r, t.left), t.right))
           g == InsertedRight(s, Node(t, t.left, AVLinsert(i, s, r, t.right)))
<1>1. x = IF t = NULL THEN e ELSE IF s < t.staAddr THEN l
          ELSE IF s > t.staAddr THEN g ELSE t
  <2>1. AVLinsert(i, s, r, t) = AVLinsertAt(AVLinsert, i, s, r, t)
    BY Zenon DEF CWAVLFunctions
  <2> QED BY <2>1 DEF AVLinsertAt
<1> HIDE DEF x, e, l, g
<1>2. (s < t.staAddr => x = l) /\ (s > t.staAddr => x = g)
      /\ (s = t.staAddr => x = t)
  BY <1>1
<1> QED BY <1>2 DEF x, l, g

\* AVLminValueNode at one node.
LEMMA MinEquation ==
    ASSUME CWAVLFunctions, NEW t
    PROVE  AVLminValueNode(t) =
             IF t.left = NULL THEN t ELSE AVLminValueNode(t.left)
BY Zenon DEF CWAVLFunctions, AVLminValueNodeAt

\* A deletion below a node.
LEMMA RemoveBelow ==
    ASSUME CWAVLFunctions, NEW s \in Int, NEW radios, NEW t, t # NULL,
           t.staAddr \in Int
    PROVE  /\ s < t.staAddr =>
                Remove(t, s, radios) =
                  Rebalance(Node(t, Remove(t.left, s, radios), t.right))
           /\ s > t.staAddr =>
                Remove(t, s, radios) =
                  Rebalance(Node(t, t.left, Remove(t.right, s, radios)))
<1> DEFINE l == Node(t, Remove(t.left, s, radios), t.right)
           g == Node(t, t.left, Remove(t.right, s, radios))
<1>1. Remove(t, s, radios) = RemoveAt(Remove, AVLminValueNode, t, s, radios)
  BY Zenon DEF CWAVLFunctions
<1>2. s < t.staAddr => Remove(t, s, radios) = Rebalance(l)
  BY <1>1 DEF RemoveAt
<1>3. s > t.staAddr => Remove(t, s, radios) = Rebalance(g)
  <2> SUFFICES ASSUME s > t.staAddr PROVE Remove(t, s, radios) = Rebalance(g)
    OBVIOUS
  <2>1. ~(s < t.staAddr)
    OBVIOUS
  <2> QED BY <1>1, <2>1 DEF RemoveAt
<1> QED BY <1>2, <1>3

\* A deletion of the node itself.
LEMMA RemoveHere ==
    ASSUME CWAVLFunctions, NEW radios, NEW t, t # NULL, t.staAddr \in Int
    PROVE  LET next == AVLminValueNode(t.right) IN
           Remove(t, t.staAddr, radios) = Rebalance(
             IF t.radioID \notin radios THEN Node(t, t.left, t.right)
             ELSE IF t.left = NULL THEN t.right
             ELSE IF t.right = NULL THEN t.left
             ELSE Node(Successor(t, next), t.left,
                       Remove(t.right, next.staAddr, {next.radioID})))
<1>1. Remove(t, t.staAddr, radios) =
        RemoveAt(Remove, AVLminValueNode, t, t.staAddr, radios)
  BY Zenon DEF CWAVLFunctions
<1>2. ~(t.staAddr < t.staAddr) /\ ~(t.staAddr > t.staAddr)
  OBVIOUS
<1> QED BY <1>1, <1>2 DEF RemoveAt

\* A deletion in an empty tree, and the two functions that are deletions.
LEMMA DeleteEquations ==
    ASSUME CWAVLFunctions, NEW t, NEW s, NEW r, NEW radios
    PROVE  /\ Remove(NULL, s, radios) = NULL
           /\ AVLdeleteNode(t, s, r) = Remove(t, s, {r})
           /\ AVLdeleteNodeWithoutRadioID(t, s) = Remove(t, s, Radios)
BY Zenon DEF CWAVLFunctions, RemoveAt, AVLdeleteNode, AVLdeleteNodeWithoutRadioID

\* The end of a session, at one station.
LEMMA RemoveWTPEquation ==
    ASSUME CWAVLFunctions, NEW t, NEW i
    PROVE  LET n == AVLfindWTPNode(t, i)
               d == Remove(t, n.staAddr, Radios)
           IN  RemoveWTP(t, i) = IF n = NULL THEN t
                                 ELSE IF d \in {NULL, Crash} THEN d
                                 ELSE RemoveWTP(d, i)
BY Zenon DEF CWAVLFunctions, RemoveWTPAt, AVLdeleteNodeWithoutRadioID

\* The nodes of a tree and its height, at one node.
LEMMA NodesEquations ==
    ASSUME CWAVLFunctions, NEW t
    PROVE  /\ Nodes(t) = IF t = NULL THEN {}
                         ELSE {t} \cup Nodes(t.left) \cup Nodes(t.right)
           /\ Depth(t) = IF t = NULL THEN -1
                         ELSE 1 + IF Depth(t.left) > Depth(t.right)
                                  THEN Depth(t.left) ELSE Depth(t.right)
BY Zenon DEF CWAVLFunctions, NodesAt, DepthAt

-----------------------------------------------------------------------------
(* Search trees.                                                           *)

\* What the table holds of a station: a node as its user sees it.
Entries == Stations \X Indices \X Radios
EntryOf(n) == <<n.staAddr, n.index, n.radioID>>

\* The entries of smaller and of larger addresses.
Below(E, a) == {e \in E : e[1] < a}
Above(E, a) == {e \in E : e[1] > a}

\* The root of a tree with the entries E.
Root(n, E) ==
    /\ Inner(n) /\ E \subseteq Entries /\ EntryOf(n) \in E
    /\ \A e \in E : e[1] = n.staAddr => e = EntryOf(n)

\* Pairs of a tree and its entries, with each pair the pairs of its subtrees:
\* what a recursive definition of a search tree would unfold to.
Certificate(C) ==
    \A p \in C :
        IF p[1] = NULL THEN p[2] = {}
        ELSE /\ Root(p[1], p[2])
             /\ <<p[1].left, Below(p[2], p[1].staAddr)>> \in C
             /\ <<p[1].right, Above(p[2], p[1].staAddr)>> \in C

\* t is a search tree with right heights that holds exactly the entries E.
Search(t, E) == \E C : Certificate(C) /\ <<t, E>> \in C

\* The recursion that Search stands for.
LEMMA SearchIs ==
    ASSUME NEW t, NEW E
    PROVE  Search(t, E) <=>
             IF t = NULL THEN E = {}
             ELSE /\ Root(t, E)
                  /\ Search(t.left, Below(E, t.staAddr))
                  /\ Search(t.right, Above(E, t.staAddr))
<1>1. ASSUME Search(t, E)
      PROVE  IF t = NULL THEN E = {}
             ELSE /\ Root(t, E)
                  /\ Search(t.left, Below(E, t.staAddr))
                  /\ Search(t.right, Above(E, t.staAddr))
  <2>1. PICK C : Certificate(C) /\ <<t, E>> \in C
    BY <1>1 DEF Search
  <2> DEFINE p == <<t, E>>
  <2>2. p \in C /\ p[1] = t /\ p[2] = E
    BY <2>1
  <2> HIDE DEF p
  <2> QED BY <2>1, <2>2 DEF Certificate, Search
<1>2. ASSUME t = NULL, E = {} PROVE Search(t, E)
  <2>1. Certificate({<<t, E>>})
    BY <1>2 DEF Certificate
  <2> QED BY <2>1 DEF Search
<1>3. ASSUME t # NULL, Root(t, E),
             Search(t.left, Below(E, t.staAddr)),
             Search(t.right, Above(E, t.staAddr))
      PROVE  Search(t, E)
  <2>1. PICK L : Certificate(L) /\ <<t.left, Below(E, t.staAddr)>> \in L
    BY <1>3 DEF Search
  <2>2. PICK R : Certificate(R) /\ <<t.right, Above(E, t.staAddr)>> \in R
    BY <1>3 DEF Search
  <2> DEFINE C == L \cup R \cup {<<t, E>>}
  <2>3. Certificate(C)
    <3> SUFFICES ASSUME NEW p \in C
                 PROVE  IF p[1] = NULL THEN p[2] = {}
                        ELSE /\ Root(p[1], p[2])
                             /\ <<p[1].left, Below(p[2], p[1].staAddr)>> \in C
                             /\ <<p[1].right, Above(p[2], p[1].staAddr)>> \in C
      BY DEF Certificate
    <3>1. CASE p \in L
      BY <2>1, <3>1 DEF Certificate
    <3>2. CASE p \in R
      BY <2>2, <3>2 DEF Certificate
    <3>3. CASE p = <<t, E>>
      <4>1. p[1] = t /\ p[2] = E
        BY <3>3
      <4> QED BY <1>3, <2>1, <2>2, <4>1
    <3> QED BY <3>1, <3>2, <3>3
  <2> QED BY <2>3 DEF Search
<1> QED BY <1>1, <1>2, <1>3

\* A set of natural numbers that is not empty has a least element.
LEMMA LeastNatural ==
    ASSUME NEW T, T \subseteq Nat, T # {}
    PROVE  \E x \in T : \A y \in T : x <= y
<1> DEFINE R == {ss \in Nat \X Nat : ss[1] < ss[2]}
<1>1. IsWellFoundedOn(R, Nat)
  BY NatLessThanWellFounded, Zenon DEF OpToRel
<1>2. \A x, y \in Nat : ~(<<y, x>> \in R) => x <= y
  <2> SUFFICES ASSUME NEW x \in Nat, NEW y \in Nat, y < x
               PROVE  <<y, x>> \in R
    OBVIOUS
  <2> QED OBVIOUS
<1> HIDE DEF R
<1>3. PICK x \in T : \A y \in T : ~(<<y, x>> \in R)
  BY <1>1, WFMin
<1> QED BY <1>2, <1>3

\* A subtree's pair of tree and entries.
Left(p) == <<p[1].left, Below(p[2], p[1].staAddr)>>
Right(p) == <<p[1].right, Above(p[2], p[1].staAddr)>>

\* C is a set of search trees with their entries and with their subtrees, and
\* induction holds in it: a part G of C that has each pair whose subtrees' pairs
\* it has is all of C.
Inductive(C) ==
    /\ \A p \in C : Search(p[1], p[2])
    /\ \A p \in C : p[1] # NULL => Left(p) \in C /\ Right(p) \in C
    /\ \A G \in SUBSET C :
          (\A p \in C : p[1] = NULL \/ (Left(p) \in G /\ Right(p) \in G)
                        => p \in G)
          => G = C

\* Induction over a search tree.
LEMMA TreeInduction ==
    ASSUME NEW t, NEW E, Search(t, E)
    PROVE  \E C : <<t, E>> \in C /\ Inductive(C)
<1>1. PICK C : Certificate(C) /\ <<t, E>> \in C
  BY DEF Search
<1> DEFINE D == {p \in C : p = <<p[1], p[2]>>}
<1>2. <<t, E>> \in D
  BY <1>1
<1>3. \A p \in D : IF p[1] = NULL THEN p[2] = {}
                   ELSE Root(p[1], p[2]) /\ Left(p) \in D /\ Right(p) \in D
  BY <1>1 DEF Certificate, Left, Right
<1>4. \A p \in D : Search(p[1], p[2])
  BY <1>1 DEF Search
<1>5. ASSUME NEW G \in SUBSET D,
             \A p \in D : p[1] = NULL \/ (Left(p) \in G /\ Right(p) \in G)
                          => p \in G
      PROVE  G = D
  <2> DEFINE T == {p[1].height + 1 : p \in D \ G}
  <2>1. \A p \in D : p[1].height \in Int /\ p[1].height + 1 \in Nat
    <3> SUFFICES ASSUME NEW p \in D PROVE Tree(p[1])
      BY DEF Tree
    <3>1. Tree(NULL)
      BY DEF Tree, NULL
    <3> QED BY <1>3, <3>1 DEF Root, Inner
  <2>2. SUFFICES ASSUME D \ G # {} PROVE FALSE
    BY <1>5
  <2>3. T \subseteq Nat /\ T # {}
    BY <2>1, <2>2
  <2>4. PICK x \in T : \A y \in T : x <= y
    BY <2>3, LeastNatural
  <2>5. PICK p \in D \ G : x = p[1].height + 1
    BY <2>4
  <2>6. p[1] # NULL /\ Root(p[1], p[2]) /\ Left(p) \in D /\ Right(p) \in D
    BY <1>3, <1>5, <2>5
  <2>7. /\ Left(p)[1].height < p[1].height
        /\ Right(p)[1].height < p[1].height
    <3>1. Left(p)[1] = p[1].left /\ Right(p)[1] = p[1].right
      BY DEF Left, Right
    <3> QED BY <2>6, <3>1 DEF Root, Inner, Tree, AVLheight
  <2>8. \A q \in D \ G : p[1].height <= q[1].height
    <3> TAKE q \in D \ G
    <3>1. q[1].height + 1 \in T
      OBVIOUS
    <3>2. p[1].height + 1 <= q[1].height + 1
      BY <2>4, <2>5, <3>1
    <3> QED BY <2>1, <2>5, <3>2
  <2>9. Left(p) \in G /\ Right(p) \in G
    BY <2>1, <2>6, <2>7, <2>8
  <2> QED BY <1>5, <2>5, <2>9
<1> HIDE DEF D
<1>6. Inductive(D)
  BY <1>3, <1>4, <1>5 DEF Inductive
<1> QED BY <1>2, <1>6

-----------------------------------------------------------------------------
(* Nodes and rotations.                                                    *)

\* Addresses are compared as numbers.
LEMMA AddressesCompare ==
    ASSUME CWAVLFunctions, NEW E, E \subseteq Entries, NEW e \in E
    PROVE  e[1] \in Stations /\ e[1] \in Int /\ e[2] \in Indices /\ e[3] \in Radios
<1>1. e \in Stations \X Indices \X Radios
  BY DEF Entries
<1>2. e[1] \in Stations /\ e[2] \in Indices /\ e[3] \in Radios
  BY <1>1
<1> QED BY <1>2, StationsAreNumbers

\* A search tree is a tree to its parent.
LEMMA SearchIsTree ==
    ASSUME NEW t, NEW E, Search(t, E)
    PROVE  /\ Sound(t) /\ Tree(t) /\ t # Crash
           /\ E \subseteq Entries
           /\ t # NULL => t.staAddr \in Int
<1>1. Tree(NULL)
  BY DEF Tree, NULL
<1>2. Sound(t) /\ E \subseteq Entries
  BY <1>1, SearchIs DEF Root, Inner, Sound
<1> QED BY <1>2, TreeRuns DEF Sound, Inner

\* What is known of a tree that is not empty.
LEMMA SearchOpen ==
    ASSUME NEW t, NEW E, Search(t, E), t # NULL
    PROVE  /\ Root(t, E) /\ Inner(t) /\ t.staAddr \in Int
           /\ E \subseteq Entries /\ EntryOf(t) \in E
           /\ \A e \in E : e[1] = t.staAddr => e = EntryOf(t)
           /\ Search(t.left, Below(E, t.staAddr))
           /\ Search(t.right, Above(E, t.staAddr))
           /\ EntryOf(t)[1] = t.staAddr
           /\ EntryOf(t)[2] = t.index
           /\ EntryOf(t)[3] = t.radioID
<1>1. /\ Root(t, E)
      /\ Search(t.left, Below(E, t.staAddr))
      /\ Search(t.right, Above(E, t.staAddr))
  BY SearchIs
<1>2. /\ EntryOf(t)[1] = t.staAddr
      /\ EntryOf(t)[2] = t.index
      /\ EntryOf(t)[3] = t.radioID
  BY DEF EntryOf
<1> QED BY <1>1, <1>2 DEF Root, Inner

\* The node that Node makes of a root and two search trees.
LEMMA NodeSearch ==
    ASSUME NEW n, n.staAddr \in Int, NEW l, NEW r, NEW E, E \subseteq Entries,
           EntryOf(n) \in E,
           \A e \in E : e[1] = n.staAddr => e = EntryOf(n),
           Search(l, Below(E, n.staAddr)), Search(r, Above(E, n.staAddr))
    PROVE  LET q == Node(n, l, r) IN
           /\ Search(q, E) /\ Inner(q) /\ q # NULL
           /\ q.left = l /\ q.right = r
           /\ q.staAddr = n.staAddr /\ q.index = n.index
           /\ q.radioID = n.radioID
<1> DEFINE q == Node(n, l, r)
<1>1. Tree(l) /\ Tree(r)
  BY SearchIsTree
<1>2. /\ Inner(q) /\ q.left = l /\ q.right = r /\ q.staAddr = n.staAddr
      /\ q.index = n.index /\ q.radioID = n.radioID
  BY <1>1, NodeIs
<1> HIDE DEF q
<1>3. EntryOf(q) = EntryOf(n) /\ q # NULL
  BY <1>2 DEF EntryOf, Inner
<1>4. Root(q, E)
  BY <1>2, <1>3 DEF Root
<1>5. Search(q, E)
  BY <1>2, <1>3, <1>4, SearchIs
<1> QED BY <1>2, <1>3, <1>5 DEF q

\* Which entries are between two addresses.
LEMMA Between ==
    ASSUME CWAVLFunctions, NEW E, E \subseteq Entries,
           NEW x \in Int, NEW y \in Int, x < y
    PROVE  /\ Below(Below(E, y), x) = Below(E, x)
           /\ Above(Above(E, x), y) = Above(E, y)
           /\ Above(Below(E, y), x) = Below(Above(E, x), y)
<1>1. \A e \in E : e[1] \in Int
  BY AddressesCompare
<1> QED BY <1>1 DEF Below, Above

\* A node's left child has a smaller address, its right child a larger one.
LEMMA ChildrenOrdered ==
    ASSUME CWAVLFunctions, NEW t, NEW E, Search(t, E), t # NULL
    PROVE  /\ t.left # NULL => t.left.staAddr \in Int /\ t.left.staAddr < t.staAddr
           /\ t.right # NULL => t.right.staAddr \in Int /\ t.right.staAddr > t.staAddr
<1>1. /\ Search(t.left, Below(E, t.staAddr))
      /\ Search(t.right, Above(E, t.staAddr))
  BY SearchOpen
<1>2. ASSUME t.left # NULL
      PROVE  t.left.staAddr \in Int /\ t.left.staAddr < t.staAddr
  <2>1. /\ EntryOf(t.left) \in Below(E, t.staAddr)
        /\ EntryOf(t.left)[1] = t.left.staAddr /\ t.left.staAddr \in Int
    BY <1>1, <1>2, SearchOpen
  <2> QED BY <2>1 DEF Below
<1>3. ASSUME t.right # NULL
      PROVE  t.right.staAddr \in Int /\ t.right.staAddr > t.staAddr
  <2>1. /\ EntryOf(t.right) \in Above(E, t.staAddr)
        /\ EntryOf(t.right)[1] = t.right.staAddr /\ t.right.staAddr \in Int
    BY <1>1, <1>3, SearchOpen
  <2> QED BY <2>1 DEF Above
<1> QED BY <1>2, <1>3

\* A rotation with the left child keeps the entries.
LEMMA RotateLeftSearch ==
    ASSUME CWAVLFunctions, NEW k, NEW E, Search(k, E), k # NULL, k.left # NULL
    PROVE  Search(AVLsingle_rotate_with_left(k), E)
<1> DEFINE c == k.left
           x == c.staAddr
           y == k.staAddr
           b == Node(k, c.right, k.right)
           a == Node(c, c.left, b)
<1>1. /\ k.staAddr \in Int /\ E \subseteq Entries /\ EntryOf(k) \in E
      /\ EntryOf(k)[1] = y
      /\ \A e \in E : e[1] = y => e = EntryOf(k)
      /\ Search(c, Below(E, y)) /\ Search(k.right, Above(E, y))
  BY SearchOpen
<1>2. /\ EntryOf(c) \in Below(E, y) /\ EntryOf(c)[1] = x
      /\ \A e \in Below(E, y) : e[1] = x => e = EntryOf(c)
      /\ Search(c.left, Below(Below(E, y), x))
      /\ Search(c.right, Above(Below(E, y), x))
  BY <1>1, SearchOpen
<1>3. x \in Int /\ x < y
  BY ChildrenOrdered
<1>4. /\ Below(Below(E, y), x) = Below(E, x)
      /\ Above(Above(E, x), y) = Above(E, y)
      /\ Above(Below(E, y), x) = Below(Above(E, x), y)
  BY <1>1, <1>3, Between
<1> HIDE DEF c, x, y
<1>5. /\ Above(E, x) \subseteq Entries /\ EntryOf(k) \in Above(E, x)
      /\ \A e \in Above(E, x) : e[1] = y => e = EntryOf(k)
      /\ EntryOf(c) \in E
      /\ \A e \in E : e[1] = x => e = EntryOf(c)
  BY <1>1, <1>2, <1>3 DEF Above, Below
<1>6. Search(b, Above(E, x))
  BY <1>1, <1>2, <1>4, <1>5, NodeSearch DEF y
<1> HIDE DEF b
<1>7. Search(a, E)
  BY <1>1, <1>2, <1>3, <1>4, <1>5, <1>6, NodeSearch DEF x
<1>8. k # Crash
  BY SearchIsTree
<1> QED BY <1>7, <1>8 DEF AVLsingle_rotate_with_left, a, b, c

\* A rotation with the right child keeps the entries.
LEMMA RotateRightSearch ==
    ASSUME CWAVLFunctions, NEW k, NEW E, Search(k, E), k # NULL, k.right # NULL
    PROVE  Search(AVLsingle_rotate_with_right(k), E)
<1> DEFINE c == k.right
           x == k.staAddr
           y == c.staAddr
           b == Node(k, k.left, c.left)
           a == Node(c, b, c.right)
<1>1. /\ k.staAddr \in Int /\ E \subseteq Entries /\ EntryOf(k) \in E
      /\ EntryOf(k)[1] = x
      /\ \A e \in E : e[1] = x => e = EntryOf(k)
      /\ Search(k.left, Below(E, x)) /\ Search(c, Above(E, x))
  BY SearchOpen
<1>2. /\ EntryOf(c) \in Above(E, x) /\ EntryOf(c)[1] = y
      /\ \A e \in Above(E, x) : e[1] = y => e = EntryOf(c)
      /\ Search(c.left, Below(Above(E, x), y))
      /\ Search(c.right, Above(Above(E, x), y))
  BY <1>1, SearchOpen
<1>3. y \in Int /\ x < y
  BY <1>1, ChildrenOrdered
<1>4. /\ Below(Below(E, y), x) = Below(E, x)
      /\ Above(Above(E, x), y) = Above(E, y)
      /\ Above(Below(E, y), x) = Below(Above(E, x), y)
  BY <1>1, <1>3, Between
<1> HIDE DEF c, x, y
<1>5. /\ Below(E, y) \subseteq Entries /\ EntryOf(k) \in Below(E, y)
      /\ \A e \in Below(E, y) : e[1] = x => e = EntryOf(k)
      /\ EntryOf(c) \in E
      /\ \A e \in E : e[1] = y => e = EntryOf(c)
  BY <1>1, <1>2, <1>3 DEF Above, Below, x
<1>6. Search(b, Below(E, y))
  BY <1>1, <1>2, <1>4, <1>5, NodeSearch DEF x
<1> HIDE DEF b
<1>7. Search(a, E)
  BY <1>1, <1>2, <1>3, <1>4, <1>5, <1>6, NodeSearch DEF y
<1>8. k # Crash
  BY SearchIsTree
<1> QED BY <1>7, <1>8 DEF AVLsingle_rotate_with_right, a, b, c

\* The shape of a search tree that the rotations rely on.
LEMMA SearchShape ==
    ASSUME CWAVLFunctions, NEW t, NEW E, Search(t, E), t # NULL
    PROVE  SearchNode(t)
<1>1. /\ Inner(t) /\ t.staAddr \in Int /\ E \subseteq Entries
      /\ Search(t.left, Below(E, t.staAddr))
      /\ Search(t.right, Above(E, t.staAddr))
  BY SearchOpen
<1>2. Sound(t.left) /\ Sound(t.right)
  BY <1>1, SearchIsTree
<1>3. ASSUME NEW c, NEW F, Search(c, F), c # NULL
      PROVE  /\ Sound(c.left) /\ Sound(c.right) /\ InOrder(c)
             /\ c.left # NULL =>
                   /\ EntryOf(c.left) \in F
                   /\ EntryOf(c.left)[1] = c.left.staAddr
             /\ c.right # NULL =>
                   /\ EntryOf(c.right) \in F
                   /\ EntryOf(c.right)[1] = c.right.staAddr
  <2>1. /\ Search(c.left, Below(F, c.staAddr))
        /\ Search(c.right, Above(F, c.staAddr)) /\ c.staAddr \in Int
    BY <1>3, SearchOpen
  <2>2. InOrder(c)
    BY <1>3, <2>1, ChildrenOrdered DEF InOrder
  <2>3. /\ c.left # NULL => /\ EntryOf(c.left) \in Below(F, c.staAddr)
                            /\ EntryOf(c.left)[1] = c.left.staAddr
        /\ c.right # NULL => /\ EntryOf(c.right) \in Above(F, c.staAddr)
                             /\ EntryOf(c.right)[1] = c.right.staAddr
    BY <2>1, SearchOpen
  <2> QED BY <2>1, <2>2, <2>3, SearchIsTree DEF Below, Above
<1>4. ASSUME t.left # NULL
      PROVE  /\ Sound(t.left.left) /\ Sound(t.left.right) /\ InOrder(t.left)
             /\ t.left.right # NULL => t.left.right.staAddr < t.staAddr
  <2>1. /\ Sound(t.left.left) /\ Sound(t.left.right) /\ InOrder(t.left)
        /\ t.left.right # NULL =>
              /\ EntryOf(t.left.right) \in Below(E, t.staAddr)
              /\ EntryOf(t.left.right)[1] = t.left.right.staAddr
    BY <1>1, <1>3, <1>4
  <2> QED BY <2>1 DEF Below
<1>5. ASSUME t.right # NULL
      PROVE  /\ Sound(t.right.left) /\ Sound(t.right.right) /\ InOrder(t.right)
             /\ t.right.left # NULL => t.staAddr < t.right.left.staAddr
  <2>1. /\ Sound(t.right.left) /\ Sound(t.right.right) /\ InOrder(t.right)
        /\ t.right.left # NULL =>
              /\ EntryOf(t.right.left) \in Above(E, t.staAddr)
              /\ EntryOf(t.right.left)[1] = t.right.left.staAddr
    BY <1>1, <1>3, <1>5
  <2>2. \A e \in Above(E, t.staAddr) : t.staAddr < e[1]
    BY <1>1, AddressesCompare DEF Above
  <2> QED BY <2>1, <2>2
<1>6. InOrder(t)
  BY <1>3
<1> QED BY <1>1, <1>2, <1>4, <1>5, <1>6 DEF SearchNode

\* Whatever is done to a node after a change below it keeps the entries.
LEMMA RotationsKeepSearch ==
    ASSUME CWAVLFunctions, NEW t, NEW E, Search(t, E), t # NULL, NEW x,
           NEW q \in {Rebalance(t), InsertedLeft(x, t), InsertedRight(x, t)},
           q # Crash
    PROVE  Search(q, E)
<1>1. /\ t.staAddr \in Int /\ E \subseteq Entries /\ EntryOf(t) \in E
      /\ \A e \in E : e[1] = t.staAddr => e = EntryOf(t)
      /\ Search(t.left, Below(E, t.staAddr))
      /\ Search(t.right, Above(E, t.staAddr))
  BY SearchOpen
<1>2. ASSUME NEW g, Search(g, Below(E, t.staAddr)), t.left # NULL
      PROVE  LET m == Node(t, g, t.right) IN
             /\ Search(m, E) /\ m # NULL /\ m.left # NULL
             /\ m.right = t.right
  <2>1. g # NULL
    <3>1. EntryOf(t.left) \in Below(E, t.staAddr)
      BY <1>1, <1>2, SearchOpen
    <3> QED BY <1>2, <3>1, SearchIs
  <2> QED BY <1>1, <1>2, <2>1, NodeSearch
<1>3. ASSUME NEW g, Search(g, Above(E, t.staAddr)), t.right # NULL
      PROVE  LET m == Node(t, t.left, g) IN
             /\ Search(m, E) /\ m # NULL /\ m.right # NULL
             /\ m.left = t.left
  <2>1. g # NULL
    <3>1. EntryOf(t.right) \in Above(E, t.staAddr)
      BY <1>1, <1>3, SearchOpen
    <3> QED BY <1>3, <3>1, SearchIs
  <2> QED BY <1>1, <1>3, <2>1, NodeSearch
<1>4. CASE q = t
  BY <1>4
<1>5. CASE t.left # NULL /\ q = AVLsingle_rotate_with_left(t)
  BY <1>5, RotateLeftSearch
<1>6. CASE t.right # NULL /\ q = AVLsingle_rotate_with_right(t)
  BY <1>6, RotateRightSearch
<1>7. CASE /\ t.left # NULL /\ t.left.right # NULL
           /\ q = AVLdouble_rotate_with_left(t)
  <2>1. Search(AVLsingle_rotate_with_right(t.left), Below(E, t.staAddr))
    BY <1>1, <1>7, RotateRightSearch
  <2> QED BY <1>2, <1>7, <2>1, RotateLeftSearch DEF AVLdouble_rotate_with_left
<1>8. CASE /\ t.right # NULL /\ t.right.left # NULL
           /\ q = AVLdouble_rotate_with_right(t)
  <2>1. Search(AVLsingle_rotate_with_left(t.right), Above(E, t.staAddr))
    BY <1>1, <1>8, RotateLeftSearch
  <2> QED BY <1>3, <1>8, <2>1, RotateRightSearch DEF AVLdouble_rotate_with_right
<1>9. CASE /\ t.left # NULL /\ t.left.left # NULL /\ t.right # NULL
           /\ q = AVLsingle_rotate_with_right(
                     Node(t, AVLsingle_rotate_with_left(t.left), t.right))
  <2>1. Search(AVLsingle_rotate_with_left(t.left), Below(E, t.staAddr))
    BY <1>1, <1>9, RotateLeftSearch
  <2> QED BY <1>2, <1>9, <2>1, RotateRightSearch
<1>10. CASE /\ t.right # NULL /\ t.right.right # NULL /\ t.left # NULL
            /\ q = AVLsingle_rotate_with_left(
                      Node(t, t.left, AVLsingle_rotate_with_right(t.right)))
  <2>1. Search(AVLsingle_rotate_with_right(t.right), Above(E, t.staAddr))
    BY <1>1, <1>10, RotateRightSearch
  <2> QED BY <1>3, <1>10, <2>1, RotateLeftSearch
<1>11. SearchNode(t)
  BY SearchShape
<1> QED BY <1>4, <1>5, <1>6, <1>7, <1>8, <1>9, <1>10, <1>11, RotationCases

-----------------------------------------------------------------------------
(* Searches.                                                               *)

\* What AVLfind returns in a tree with the entries E.
Found(s, t, E) ==
    LET n == AVLfind(s, t) IN
    IF n = NULL THEN \A e \in E : e[1] # s
    ELSE /\ n.staAddr = s /\ EntryOf(n) \in E
         /\ \A e \in E : e[1] = s => e = EntryOf(n)

\* AVLfind finds the entry of an address if there is one.
LEMMA FindIs ==
    ASSUME CWAVLFunctions, NEW t, NEW E, Search(t, E), NEW s \in Int
    PROVE  Found(s, t, E)
<1>1. PICK C : <<t, E>> \in C /\ Inductive(C)
  BY TreeInduction
<1>0. \A p \in C : Search(p[1], p[2])
  BY <1>1 DEF Inductive
<1> DEFINE G == {p \in C : Found(s, p[1], p[2])}
<1>2. ASSUME NEW p \in C, p[1] = NULL PROVE p \in G
  <2>1. p[2] = {}
    BY <1>0, <1>2, SearchIs
  <2>2. AVLfind(s, p[1]) = NULL
    BY <1>2, FindEquation
  <2> QED BY <2>1, <2>2 DEF Found
<1>3. ASSUME NEW p \in C, p[1] # NULL, Left(p) \in G, Right(p) \in G
      PROVE  p \in G
  <2> DEFINE n == p[1]
             F == p[2]
             a == n.staAddr
  <2>1. /\ Found(s, n.left, Below(F, a)) /\ Found(s, n.right, Above(F, a))
    BY <1>3 DEF Left, Right
  <2>2. /\ a \in Int /\ F \subseteq Entries /\ EntryOf(n) \in F
        /\ \A e \in F : e[1] = a => e = EntryOf(n)
    BY <1>0, <1>3, SearchOpen
  <2>3. \A e \in F : e[1] \in Int
    BY <2>2, AddressesCompare
  <2>4. CASE s < a
    <3>1. AVLfind(s, n) = AVLfind(s, n.left)
      BY <1>3, <2>4, FindEquation
    <3> HIDE DEF n, F, a
    <3>2. \A e \in F : e[1] = s <=> e \in Below(F, a) /\ e[1] = s
      BY <2>4 DEF Below
    <3>3. Below(F, a) \subseteq F
      BY DEF Below
    <3>4. Found(s, n, F)
      BY <2>1, <3>1, <3>2, <3>3 DEF Found
    <3> QED BY <3>4 DEF n, F
  <2>5. CASE s > a
    <3>1. AVLfind(s, n) = AVLfind(s, n.right)
      BY <1>3, <2>2, <2>5, FindEquation
    <3> HIDE DEF n, F, a
    <3>2. \A e \in F : e[1] = s <=> e \in Above(F, a) /\ e[1] = s
      BY <2>5 DEF Above
    <3>3. Above(F, a) \subseteq F
      BY DEF Above
    <3>4. Found(s, n, F)
      BY <2>1, <3>1, <3>2, <3>3 DEF Found
    <3> QED BY <3>4 DEF n, F
  <2>6. CASE s = a
    <3>1. AVLfind(s, n) = n
      BY <1>3, <2>2, <2>6, FindEquation
    <3> HIDE DEF F
    <3>2. Found(s, n, F)
      BY <1>3, <2>2, <2>6, <3>1 DEF Found
    <3> QED BY <3>2 DEF F
  <2> QED BY <2>2, <2>4, <2>5, <2>6
<1>4. G = C
  <2> HIDE DEF G
  <2>1. G \in SUBSET C
    BY DEF G
  <2> QED BY <1>1, <1>2, <1>3, <2>1 DEF Inductive
<1>5. <<t, E>> \in G
  BY <1>1, <1>4
<1> QED BY <1>5

\* An address has one entry.
LEMMA EntriesUnique ==
    ASSUME CWAVLFunctions, NEW t, NEW E, Search(t, E), NEW e \in E, NEW f \in E,
           e[1] = f[1]
    PROVE  e = f
<1>1. e[1] \in Int
  BY SearchIsTree, AddressesCompare
<1>2. Found(e[1], t, E)
  BY <1>1, FindIs
<1> QED BY <1>2 DEF Found

\* n has the smallest address of the entries E.
Smallest(n, E) ==
    /\ EntryOf(n) \in E /\ n.staAddr \in Int
    /\ \A e \in E : n.staAddr <= e[1]

\* AVLminValueNode finds the node with the smallest address.
LEMMA MinIs ==
    ASSUME CWAVLFunctions, NEW t, NEW E, Search(t, E), t # NULL
    PROVE  Smallest(AVLminValueNode(t), E)
<1>1. PICK C : <<t, E>> \in C /\ Inductive(C)
  BY TreeInduction
<1>0. \A p \in C : Search(p[1], p[2])
  BY <1>1 DEF Inductive
<1> DEFINE G == {p \in C : p[1] # NULL => Smallest(AVLminValueNode(p[1]), p[2])}
<1>2. ASSUME NEW p \in C, p[1] = NULL PROVE p \in G
  BY <1>2
<1>3. ASSUME NEW p \in C, p[1] # NULL, Left(p) \in G, Right(p) \in G
      PROVE  p \in G
  <2> DEFINE n == p[1]
             F == p[2]
             a == n.staAddr
  <2>1. n.left # NULL => Smallest(AVLminValueNode(n.left), Below(F, a))
    BY <1>3 DEF Left
  <2>2. /\ a \in Int /\ F \subseteq Entries /\ EntryOf(n) \in F
        /\ EntryOf(n)[1] = a /\ Search(n.left, Below(F, a))
    BY <1>0, <1>3, SearchOpen
  <2>3. \A e \in F : e[1] \in Int
    BY <2>2, AddressesCompare
  <2>4. AVLminValueNode(n) =
          IF n.left = NULL THEN n ELSE AVLminValueNode(n.left)
    BY MinEquation
  <2>5. CASE n.left = NULL
    <3>1. Below(F, a) = {}
      BY <2>2, <2>5, SearchIs
    <3>2. \A e \in F : a <= e[1]
      BY <2>2, <2>3, <3>1 DEF Below
    <3> QED BY <2>2, <2>4, <2>5, <3>2 DEF Smallest
  <2>6. CASE n.left # NULL
    <3> DEFINE m == AVLminValueNode(n.left)
    <3>1. /\ EntryOf(m) \in Below(F, a) /\ m.staAddr \in Int
          /\ \A e \in Below(F, a) : m.staAddr <= e[1]
      BY <2>1, <2>6 DEF Smallest
    <3>2. EntryOf(m)[1] = m.staAddr
      BY DEF EntryOf
    <3> HIDE DEF m, F, a
    <3>3. EntryOf(m) \in F /\ m.staAddr < a
      BY <3>1, <3>2 DEF Below
    <3>4. \A e \in F : m.staAddr <= e[1]
      BY <2>2, <2>3, <3>1, <3>3 DEF Below
    <3>5. Smallest(m, F)
      BY <3>1, <3>3, <3>4 DEF Smallest
    <3> QED BY <2>4, <2>6, <3>5 DEF m, F
  <2> QED BY <2>5, <2>6
<1>4. G = C
  <2> HIDE DEF G
  <2>1. G \in SUBSET C
    BY DEF G
  <2> QED BY <1>1, <1>2, <1>3, <2>1 DEF Inductive
<1>5. <<t, E>> \in G
  BY <1>1, <1>4
<1> QED BY <1>5

\* AVLfindWTPNode finds a node of that WTP, if it finds one.
LEMMA FindWTPIs ==
    ASSUME CWAVLFunctions, NEW t, NEW E, Search(t, E), NEW i,
           AVLfindWTPNode(t, i) # NULL
    PROVE  LET n == AVLfindWTPNode(t, i) IN
           EntryOf(n) \in E /\ n.index = i /\ n.staAddr \in Int
<1> DEFINE Good(n, F) == n # NULL => /\ EntryOf(n) \in F /\ n.index = i
                                     /\ n.staAddr \in Int
<1>1. PICK C : <<t, E>> \in C /\ Inductive(C)
  BY TreeInduction
<1>0. \A p \in C : Search(p[1], p[2])
  BY <1>1 DEF Inductive
<1> DEFINE G == {p \in C : Good(AVLfindWTPNode(p[1], i), p[2])}
<1>2. ASSUME NEW p \in C, p[1] = NULL PROVE p \in G
  <2>1. AVLfindWTPNode(p[1], i) = NULL
    BY <1>2, FindWTPEquation
  <2> QED BY <2>1
<1>3. ASSUME NEW p \in C, p[1] # NULL, Left(p) \in G, Right(p) \in G
      PROVE  p \in G
  <2>1. Good(AVLfindWTPNode(p[1].right, i), Above(p[2], p[1].staAddr))
    BY <1>3 DEF Right
  <2>2. EntryOf(p[1]) \in p[2] /\ p[1].staAddr \in Int
    BY <1>0, <1>3, SearchOpen
  <2>3. AVLfindWTPNode(p[1], i) =
          IF p[1].index = i THEN p[1] ELSE AVLfindWTPNode(p[1].right, i)
    BY <1>3, FindWTPEquation
  <2>4. Above(p[2], p[1].staAddr) \subseteq p[2]
    BY DEF Above
  <2> QED BY <2>1, <2>2, <2>3, <2>4
<1>4. G = C
  <2> HIDE DEF G
  <2>1. G \in SUBSET C
    BY DEF G
  <2> QED BY <1>1, <1>2, <1>3, <2>1 DEF Inductive
<1>5. <<t, E>> \in G
  BY <1>1, <1>4
<1> QED BY <1>5

-----------------------------------------------------------------------------
(* Insertion and deletion.                                                 *)

\* The entries after the insertion and after the deletion of a station.
Inserted(E, i, s, r) ==
    IF \E e \in E : e[1] = s THEN E ELSE E \cup {<<s, i, r>>}
Removed(E, s, radios) == {e \in E : ~(e[1] = s /\ e[3] \in radios)}

\* AVLinsert enters a station that is not there, and changes nothing else.
LEMMA InsertSearch ==
    ASSUME CWAVLFunctions, NEW t, NEW E, Search(t, E),
           NEW s \in Stations, NEW i \in Indices, NEW r \in Radios,
           AVLinsert(i, s, r, t) # Crash
    PROVE  Search(AVLinsert(i, s, r, t), Inserted(E, i, s, r))
<1> DEFINE I(n) == AVLinsert(i, s, r, n)
           J(F) == Inserted(F, i, s, r)
           new == <<s, i, r>>
<1>1. PICK C : <<t, E>> \in C /\ Inductive(C)
  BY TreeInduction
<1>0. /\ \A p \in C : Search(p[1], p[2])
      /\ s \in Int /\ new \in Entries /\ new[1] = s
  BY <1>1, StationsAreNumbers DEF Inductive, Entries
<1> HIDE DEF new
<1> DEFINE G == {p \in C : I(p[1]) # Crash => Search(I(p[1]), J(p[2]))}
<1>2. ASSUME NEW p \in C, p[1] = NULL PROVE p \in G
  <2> DEFINE n == [staAddr |-> s, index |-> i, radioID |-> r]
  <2>1. p[2] = {}
    BY <1>0, <1>2, SearchIs
  <2>2. J(p[2]) = {new}
    BY <2>1 DEF Inserted, new
  <2>3. n.staAddr = s /\ EntryOf(n) = new
    BY DEF EntryOf, new
  <2> HIDE DEF n
  <2>4. Below({new}, s) = {} /\ Above({new}, s) = {}
    BY <1>0 DEF Below, Above
  <2>5. Search(NULL, {})
    BY SearchIs
  <2>6. Search(Node(n, NULL, NULL), {new})
    <3> DEFINE N == {new}
    <3>1. /\ N \subseteq Entries /\ EntryOf(n) \in N
          /\ \A e \in N : e[1] = n.staAddr => e = EntryOf(n)
          /\ Search(NULL, Below(N, n.staAddr))
          /\ Search(NULL, Above(N, n.staAddr)) /\ n.staAddr \in Int
      BY <1>0, <2>3, <2>4, <2>5
    <3> HIDE DEF N
    <3>2. Search(Node(n, NULL, NULL), N)
      BY <3>1, NodeSearch
    <3> QED BY <3>2 DEF N
  <2>7. I(p[1]) = Node(n, NULL, NULL)
    BY <1>2, InsertEmpty DEF n
  <2> QED BY <2>2, <2>6, <2>7
<1>3. ASSUME NEW p \in C, p[1] # NULL, Left(p) \in G, Right(p) \in G
      PROVE  p \in G
  <2> DEFINE n == p[1]
             F == p[2]
             a == n.staAddr
  <2>1. /\ I(n.left) # Crash => Search(I(n.left), J(Below(F, a)))
        /\ I(n.right) # Crash => Search(I(n.right), J(Above(F, a)))
    BY <1>3 DEF Left, Right
  <2>2. /\ a \in Int /\ F \subseteq Entries /\ EntryOf(n) \in F
        /\ EntryOf(n)[1] = a
        /\ \A e \in F : e[1] = a => e = EntryOf(n)
        /\ Search(n.left, Below(F, a)) /\ Search(n.right, Above(F, a))
    BY <1>0, <1>3, SearchOpen
  <2>3. \A e \in F : e[1] \in Int
    BY <2>2, AddressesCompare
  <2>4. SUFFICES ASSUME I(n) # Crash PROVE Search(I(n), J(F))
    OBVIOUS
  <2>5. /\ J(F) \subseteq Entries /\ EntryOf(n) \in J(F)
        /\ s # a => \A e \in J(F) : e[1] = a => e = EntryOf(n)
    BY <1>0, <2>2 DEF Inserted, new
  <2>6. CASE s < a
    <3> DEFINE m == Node(n, I(n.left), n.right)
    <3>1. I(n) = InsertedLeft(s, m)
      BY <1>0, <1>3, <2>2, <2>6, InsertCases
    <3>2. I(n.left) # Crash
      BY <2>4, <3>1 DEF Node, InsertedLeft
    <3>3. J(Below(F, a)) = Below(J(F), a) /\ Above(J(F), a) = Above(F, a)
      BY <1>0, <2>2, <2>3, <2>6 DEF Inserted, Below, Above, new
    <3>4. Search(m, J(F)) /\ m # NULL
      BY <1>0, <2>1, <2>2, <2>5, <2>6, <3>2, <3>3, NodeSearch
    <3> HIDE DEF m
    <3> QED BY <2>4, <3>1, <3>4, RotationsKeepSearch
  <2>7. CASE s > a
    <3> DEFINE m == Node(n, n.left, I(n.right))
    <3>1. I(n) = InsertedRight(s, m)
      BY <1>0, <1>3, <2>2, <2>7, InsertCases
    <3>2. I(n.right) # Crash
      BY <2>4, <3>1 DEF Node, InsertedRight
    <3>3. J(Above(F, a)) = Above(J(F), a) /\ Below(J(F), a) = Below(F, a)
      BY <1>0, <2>2, <2>3, <2>7 DEF Inserted, Below, Above, new
    <3>4. Search(m, J(F)) /\ m # NULL
      BY <1>0, <2>1, <2>2, <2>5, <2>7, <3>2, <3>3, NodeSearch
    <3> HIDE DEF m
    <3> QED BY <2>4, <3>1, <3>4, RotationsKeepSearch
  <2>8. CASE s = a
    <3>1. I(n) = n
      BY <1>0, <1>3, <2>2, <2>8, InsertCases
    <3>2. J(F) = F
      BY <2>2, <2>8 DEF Inserted
    <3> QED BY <1>0, <3>1, <3>2
  <2> QED BY <1>0, <2>2, <2>6, <2>7, <2>8
<1>4. G = C
  <2> HIDE DEF G
  <2>1. G \in SUBSET C
    BY DEF G
  <2> QED BY <1>1, <1>2, <1>3, <2>1 DEF Inductive
<1>5. <<t, E>> \in G
  BY <1>1, <1>4
<1> QED BY <1>5

\* The rebalancing of a deletion keeps the entries.
LEMMA RebalanceSearch ==
    ASSUME CWAVLFunctions, NEW t, NEW E, Search(t, E), Rebalance(t) # Crash
    PROVE  Search(Rebalance(t), E)
<1>1. CASE t = NULL
  BY <1>1 DEF Rebalance
<1>2. CASE t # NULL
  BY <1>2, RotationsKeepSearch
<1> QED BY <1>1, <1>2

\* Where a node was to be made of a crash, there is a crash.
LEMMA CrashSpreads ==
    ASSUME NEW n, NEW l, NEW r, Rebalance(Node(n, l, r)) # Crash
    PROVE  l # Crash /\ r # Crash
BY DEF Node, Rebalance

\* A deletion removes the entry of the address, if its radio is one of those
\* given, and changes nothing else.
LEMMA RemoveSearch ==
    ASSUME CWAVLFunctions, NEW t, NEW E, Search(t, E), NEW s \in Int, NEW radios,
           Remove(t, s, radios) # Crash
    PROVE  Search(Remove(t, s, radios), Removed(E, s, radios))
<1> DEFINE Good(n, F) ==
             \A x \in Int : \A X :
                Remove(n, x, X) # Crash => Search(Remove(n, x, X), Removed(F, x, X))
<1>1. PICK C : <<t, E>> \in C /\ Inductive(C)
  BY TreeInduction
<1>0. \A p \in C : Search(p[1], p[2])
  BY <1>1 DEF Inductive
<1> DEFINE G == {p \in C : Good(p[1], p[2])}
<1>2. ASSUME NEW p \in C, p[1] = NULL PROVE p \in G
  <2>1. p[2] = {}
    BY <1>0, <1>2, SearchIs
  <2>2. \A x, X : Remove(p[1], x, X) = NULL /\ Removed(p[2], x, X) = {}
    BY <1>2, <2>1, DeleteEquations DEF Removed
  <2>3. Search(NULL, {})
    BY SearchIs
  <2> QED BY <2>2, <2>3
<1>3. ASSUME NEW n, NEW F, Search(n, F), n # NULL,
             Good(n.left, Below(F, n.staAddr)),
             Good(n.right, Above(F, n.staAddr)),
             NEW x \in Int, NEW X, Remove(n, x, X) # Crash
      PROVE  Search(Remove(n, x, X), Removed(F, x, X))
  <2> DEFINE a == n.staAddr
             D == Removed(F, x, X)
  <2>1. /\ a \in Int /\ F \subseteq Entries /\ EntryOf(n) \in F
        /\ EntryOf(n)[1] = a /\ EntryOf(n)[3] = n.radioID
        /\ \A e \in F : e[1] = a => e = EntryOf(n)
        /\ Search(n.left, Below(F, a)) /\ Search(n.right, Above(F, a))
    BY <1>3, SearchOpen
  <2>2. \A e \in F : e[1] \in Int
    BY <2>1, AddressesCompare
  <2> HIDE DEF Good
  <2>3. /\ D \subseteq Entries
        /\ \A e \in D : e[1] = a => e = EntryOf(n)
        /\ x # a => EntryOf(n) \in D
    BY <2>1 DEF Removed
  <2>4. CASE x < a
    <3> DEFINE l == Remove(n.left, x, X)
    <3>1. Remove(n, x, X) = Rebalance(Node(n, l, n.right))
      BY <1>3, <2>1, <2>4, RemoveBelow
    <3>2. l # Crash
      BY <1>3, <3>1, CrashSpreads
    <3>3. Search(l, Removed(Below(F, a), x, X))
      BY <1>3, <3>2 DEF Good
    <3>4. Removed(Below(F, a), x, X) = Below(D, a) /\ Above(D, a) = Above(F, a)
      BY <2>1, <2>2, <2>4 DEF Removed, Below, Above
    <3> HIDE DEF l, D
    <3>5. Search(Node(n, l, n.right), D)
      BY <2>1, <2>3, <2>4, <3>3, <3>4, NodeSearch
    <3>6. Search(Remove(n, x, X), D)
      BY <1>3, <3>1, <3>5, RebalanceSearch
    <3> QED BY <3>6 DEF D
  <2>5. CASE x > a
    <3> DEFINE r == Remove(n.right, x, X)
    <3>1. Remove(n, x, X) = Rebalance(Node(n, n.left, r))
      BY <1>3, <2>1, <2>5, RemoveBelow
    <3>2. r # Crash
      BY <1>3, <3>1, CrashSpreads
    <3>3. Search(r, Removed(Above(F, a), x, X))
      BY <1>3, <3>2 DEF Good
    <3>4. Removed(Above(F, a), x, X) = Above(D, a) /\ Below(D, a) = Below(F, a)
      BY <2>1, <2>2, <2>5 DEF Removed, Below, Above
    <3> HIDE DEF r, D
    <3>5. Search(Node(n, n.left, r), D)
      BY <2>1, <2>3, <2>5, <3>3, <3>4, NodeSearch
    <3>6. Search(Remove(n, x, X), D)
      BY <1>3, <3>1, <3>5, RebalanceSearch
    <3> QED BY <3>6 DEF D
  <2>6. CASE x = a /\ n.radioID \notin X
    <3>1. Remove(n, x, X) = Rebalance(Node(n, n.left, n.right))
      BY <1>3, <2>1, <2>6, RemoveHere
    <3>2. D = F
      BY <2>1, <2>6 DEF Removed
    <3>3. Search(Node(n, n.left, n.right), F)
      BY <2>1, NodeSearch
    <3> HIDE DEF D
    <3>4. Search(Remove(n, x, X), D)
      BY <1>3, <3>1, <3>2, <3>3, RebalanceSearch
    <3> QED BY <3>4 DEF D
  <2>7. CASE x = a /\ n.radioID \in X
    <3>0. /\ D = {e \in F : e[1] # a}
          /\ Below(D, a) = Below(F, a) /\ Above(D, a) = Above(F, a)
          /\ D = Below(F, a) \cup Above(F, a)
      <4>1. D = {e \in F : e[1] # a}
        BY <2>1, <2>7 DEF Removed
      <4> HIDE DEF D
      <4> QED BY <2>1, <2>2, <4>1 DEF Below, Above
    <3>1. CASE n.left = NULL
      <4>1. Below(F, a) = {}
        BY <2>1, <3>1, SearchIs
      <4>2. Remove(n, x, X) = Rebalance(n.right)
        BY <1>3, <2>1, <2>7, <3>1, RemoveHere
      <4> HIDE DEF D
      <4>3. Search(n.right, D)
        BY <2>1, <3>0, <4>1
      <4>4. Search(Remove(n, x, X), D)
        BY <1>3, <4>2, <4>3, RebalanceSearch
      <4> QED BY <4>4 DEF D
    <3>2. CASE n.left # NULL /\ n.right = NULL
      <4>1. Above(F, a) = {}
        BY <2>1, <3>2, SearchIs
      <4>2. Remove(n, x, X) = Rebalance(n.left)
        BY <1>3, <2>1, <2>7, <3>2, RemoveHere
      <4> HIDE DEF D
      <4>3. Search(n.left, D)
        BY <2>1, <3>0, <4>1
      <4>4. Search(Remove(n, x, X), D)
        BY <1>3, <4>2, <4>3, RebalanceSearch
      <4> QED BY <4>4 DEF D
    <3>3. CASE n.left # NULL /\ n.right # NULL
      <4> DEFINE m == AVLminValueNode(n.right)
                 b == m.staAddr
                 R == {m.radioID}
                 r == Remove(n.right, b, R)
                 c == Successor(n, m)
      <4>1. Remove(n, x, X) = Rebalance(Node(c, n.left, r))
        BY <1>3, <2>1, <2>7, <3>3, RemoveHere
      <4>2. r # Crash
        BY <1>3, <4>1, CrashSpreads
      <4>3. /\ EntryOf(m) \in Above(F, a) /\ b \in Int
            /\ \A e \in Above(F, a) : b <= e[1]
        BY <2>1, <3>3, MinIs DEF Smallest
      <4>4. Search(r, Removed(Above(F, a), b, R))
        BY <1>3, <4>2, <4>3 DEF Good
      <4>5. EntryOf(m)[1] = b /\ EntryOf(m)[3] = m.radioID
        BY DEF EntryOf
      <4>6. \A e \in Above(F, a) : e[1] = b => e = EntryOf(m)
        BY <2>1, <4>3, <4>5, EntriesUnique
      <4>7. c.staAddr = b /\ EntryOf(c) = EntryOf(m)
        BY DEF Successor, EntryOf
      <4> HIDE DEF m, b, R, r, c, D
      <4>8. a < b
        BY <2>1, <4>3, <4>5 DEF Above
      <4>9. Removed(Above(F, a), b, R) = {e \in Above(F, a) : e[1] # b}
        BY <4>5, <4>6 DEF Removed, R
      <4>10. /\ EntryOf(c) \in D
             /\ \A e \in D : e[1] = b => e = EntryOf(c)
        BY <2>1, <2>2, <3>0, <4>3, <4>6, <4>7, <4>8 DEF Below
      <4>11. Below(D, b) = Below(F, a)
        BY <2>1, <2>2, <3>0, <4>3, <4>8 DEF Below, Above
      <4>12. Above(D, b) = {e \in Above(F, a) : e[1] # b}
        BY <2>1, <2>2, <3>0, <4>3, <4>8 DEF Below, Above
      <4>13. Search(Node(c, n.left, r), D)
        <5>1. /\ Search(n.left, Below(D, c.staAddr))
              /\ Search(r, Above(D, c.staAddr))
              /\ c.staAddr \in Int
              /\ \A e \in D : e[1] = c.staAddr => e = EntryOf(c)
          BY <2>1, <4>3, <4>4, <4>7, <4>9, <4>10, <4>11, <4>12
        <5> QED BY <2>3, <4>10, <5>1, NodeSearch
      <4>14. Search(Remove(n, x, X), D)
        BY <1>3, <4>1, <4>13, RebalanceSearch
      <4> QED BY <4>14 DEF D
    <3> QED BY <3>1, <3>2, <3>3
  <2> QED BY <2>1, <2>4, <2>5, <2>6, <2>7
<1>4. ASSUME NEW p \in C, p[1] # NULL, Left(p) \in G, Right(p) \in G
      PROVE  p \in G
  <2>1. /\ Good(p[1].left, Below(p[2], p[1].staAddr))
        /\ Good(p[1].right, Above(p[2], p[1].staAddr))
    BY <1>4 DEF Left, Right
  <2> QED BY <1>0, <1>3, <1>4, <2>1
<1>5. G = C
  <2> HIDE DEF G
  <2>1. G \in SUBSET C
    BY DEF G
  <2> QED BY <1>1, <1>2, <1>4, <2>1 DEF Inductive
<1>6. <<t, E>> \in G
  BY <1>1, <1>5
<1> QED BY <1>6

\* A search tree has finitely many entries.
LEMMA EntriesFinite ==
    ASSUME CWAVLFunctions, NEW t, NEW E, Search(t, E)
    PROVE  IsFiniteSet(E)
<1>1. PICK C : <<t, E>> \in C /\ Inductive(C)
  BY TreeInduction
<1>0. \A p \in C : Search(p[1], p[2])
  BY <1>1 DEF Inductive
<1> DEFINE G == {p \in C : IsFiniteSet(p[2])}
<1>2. ASSUME NEW p \in C, p[1] = NULL PROVE p \in G
  <2>1. p[2] = {}
    BY <1>0, <1>2, SearchIs
  <2> QED BY <2>1, FS_EmptySet
<1>3. ASSUME NEW p \in C, p[1] # NULL, Left(p) \in G, Right(p) \in G
      PROVE  p \in G
  <2> DEFINE n == p[1]
             F == p[2]
             a == n.staAddr
             U == Below(F, a) \cup Above(F, a)
  <2>1. IsFiniteSet(Below(F, a)) /\ IsFiniteSet(Above(F, a))
    BY <1>3 DEF Left, Right
  <2>2. /\ a \in Int /\ F \subseteq Entries /\ EntryOf(n) \in F
        /\ \A e \in F : e[1] = a => e = EntryOf(n)
    BY <1>0, <1>3, SearchOpen
  <2>3. \A e \in F : e[1] \in Int
    BY <2>2, AddressesCompare
  <2>4. F = U \cup {EntryOf(n)}
    BY <2>2, <2>3 DEF Below, Above
  <2>5. IsFiniteSet(U)
    BY <2>1, FS_Union
  <2>6. IsFiniteSet(U \cup {EntryOf(n)})
    <3> HIDE DEF U, n
    <3> QED BY <2>5, FS_AddElement
  <2> QED BY <2>4, <2>6
<1>4. G = C
  <2> HIDE DEF G
  <2>1. G \in SUBSET C
    BY DEF G
  <2> QED BY <1>1, <1>2, <1>3, <2>1 DEF Inductive
<1>5. <<t, E>> \in G
  BY <1>1, <1>4
<1> QED BY <1>5

\* The end of a session removes entries of its slot i only.
LEMMA RemoveWTPSearch ==
    ASSUME CWAVLFunctions, NEW t, NEW E, Search(t, E), NEW i,
           RemoveWTP(t, i) # Crash
    PROVE  \E D \in SUBSET E :
              Search(RemoveWTP(t, i), D) /\ \A e \in E \ D : e[2] = i
<1> DEFINE Bad(u, F) ==
             /\ Search(u, F) /\ RemoveWTP(u, i) # Crash
             /\ ~ \E D \in SUBSET F :
                    /\ Search(RemoveWTP(u, i), D)
                    /\ \A e \in F \ D : e[2] = i
           B == {F \in SUBSET E : \E u : Bad(u, F)}
           T == {Cardinality(F) : F \in B}
<1>1. SUFFICES ASSUME Bad(t, E) PROVE FALSE
  OBVIOUS
<1>2. \A F \in SUBSET E : IsFiniteSet(F) /\ Cardinality(F) \in Nat
  BY EntriesFinite, FS_Subset, FS_CardinalityType
<1>3. T \subseteq Nat /\ T # {}
  BY <1>1, <1>2
<1>4. PICK k \in T : \A y \in T : k <= y
  BY <1>3, LeastNatural
<1>5. PICK F \in B : k = Cardinality(F)
  BY <1>4
<1>6. PICK u : Bad(u, F)
  BY <1>5
<1> DEFINE n == AVLfindWTPNode(u, i)
           x == EntryOf(n)
           d == Remove(u, n.staAddr, Radios)
<1>7. RemoveWTP(u, i) = IF n = NULL THEN u
                        ELSE IF d \in {NULL, Crash} THEN d
                        ELSE RemoveWTP(d, i)
  BY RemoveWTPEquation
<1>8. n # NULL
  <2> SUFFICES ASSUME n = NULL PROVE FALSE
    OBVIOUS
  <2>1. RemoveWTP(u, i) = u
    BY <1>7
  <2> QED BY <1>6, <2>1
<1>9. x \in F /\ n.index = i /\ n.staAddr \in Int
  BY <1>6, <1>8, FindWTPIs
<1>10. d # Crash
  BY <1>6, <1>7, <1>8
<1>11. Search(d, F \ {x})
  <2>1. Search(d, Removed(F, n.staAddr, Radios))
    BY <1>6, <1>9, <1>10, RemoveSearch
  <2>2. x[1] = n.staAddr
    BY DEF EntryOf
  <2>3. x[3] \in Radios
    BY <1>6, <1>9, SearchIsTree, AddressesCompare
  <2>4. \A e \in F : e[1] = x[1] => e = x
    BY <1>6, <1>9, EntriesUnique
  <2> HIDE DEF n, x, d
  <2>5. Removed(F, n.staAddr, Radios) = F \ {x}
    BY <2>2, <2>3, <2>4 DEF Removed
  <2> QED BY <2>1, <2>5
<1>12. x[2] = i
  BY <1>9 DEF EntryOf
<1>13. RemoveWTP(u, i) = IF d = NULL THEN d ELSE RemoveWTP(d, i)
  BY <1>7, <1>8, <1>10
<1> HIDE DEF n, x, d
<1>14. CASE d = NULL
  <2>1. \A e \in F \ (F \ {x}) : e[2] = i
    BY <1>12
  <2>2. Search(RemoveWTP(u, i), F \ {x})
    BY <1>11, <1>13, <1>14
  <2> QED BY <1>6, <2>1, <2>2
<1>15. CASE d # NULL
  <2> DEFINE H == F \ {x}
  <2>1. RemoveWTP(d, i) # Crash /\ RemoveWTP(u, i) = RemoveWTP(d, i)
    BY <1>6, <1>13, <1>15
  <2>2. H \in SUBSET E /\ Cardinality(H) = Cardinality(F) - 1
    BY <1>2, <1>5, <1>9, FS_RemoveElement
  <2>3. ~ Bad(d, H)
    <3> SUFFICES ASSUME Bad(d, H) PROVE FALSE
      OBVIOUS
    <3>1. H \in B
      <4>1. \E v : Bad(v, H)
        OBVIOUS
      <4> HIDE DEF H, Bad
      <4> QED BY <2>2, <4>1
    <3>2. Cardinality(H) \in T
      <4> HIDE DEF H, B
      <4> QED BY <3>1
    <3>3. k <= Cardinality(H) /\ k \in Nat
      <4> HIDE DEF T
      <4> QED BY <1>3, <1>4, <3>2
    <3> QED BY <1>5, <2>2, <3>3
  <2>4. PICK D \in SUBSET H :
          Search(RemoveWTP(d, i), D) /\ \A e \in H \ D : e[2] = i
    BY <1>11, <2>1, <2>3
  <2>5. D \in SUBSET F /\ \A e \in F \ D : e[2] = i
    BY <1>12, <2>4
  <2> QED BY <1>6, <2>1, <2>4, <2>5
<1> QED BY <1>14, <1>15

-----------------------------------------------------------------------------
(* The nodes of a tree.                                                    *)

\* A node of the tree t with the entries E.
NodeOf(n, t, E) ==
    /\ n # NULL /\ EntryOf(n) \in E
    /\ AVLfind(n.staAddr, t) = n
    /\ \E F : Search(n, F)

\* The nodes of a search tree are those that AVLfind finds, and each is the
\* root of a search tree.
LEMMA NodesFound ==
    ASSUME CWAVLFunctions, NEW t, NEW E, Search(t, E)
    PROVE  /\ \A n \in Nodes(t) : NodeOf(n, t, E)
           /\ \A s \in Int : AVLfind(s, t) # NULL => AVLfind(s, t) \in Nodes(t)
<1> DEFINE Good(u, F) ==
             /\ \A n \in Nodes(u) : NodeOf(n, u, F)
             /\ \A s \in Int : AVLfind(s, u) # NULL => AVLfind(s, u) \in Nodes(u)
<1>1. PICK C : <<t, E>> \in C /\ Inductive(C)
  BY TreeInduction
<1>0. \A p \in C : Search(p[1], p[2])
  BY <1>1 DEF Inductive
<1> DEFINE G == {p \in C : Good(p[1], p[2])}
<1>2. ASSUME NEW p \in C, p[1] = NULL PROVE p \in G
  <2>1. Nodes(p[1]) = {}
    BY <1>2, NodesEquations
  <2>2. \A s \in Int : AVLfind(s, p[1]) = NULL
    BY <1>2, FindEquation
  <2> QED BY <2>1, <2>2
<1>3. ASSUME NEW u, NEW F, Search(u, F), u # NULL,
             Good(u.left, Below(F, u.staAddr)),
             Good(u.right, Above(F, u.staAddr))
      PROVE  Good(u, F)
  <2> DEFINE a == u.staAddr
  <2>1. /\ a \in Int /\ F \subseteq Entries /\ EntryOf(u) \in F
    BY <1>3, SearchOpen
  <2>2. Nodes(u) = {u} \cup Nodes(u.left) \cup Nodes(u.right)
    BY <1>3, NodesEquations
  <2>3. \A s \in Int : /\ s < a => AVLfind(s, u) = AVLfind(s, u.left)
                       /\ s > a => AVLfind(s, u) = AVLfind(s, u.right)
                       /\ s = a => AVLfind(s, u) = u
    <3> TAKE s \in Int
    <3>1. s < a => AVLfind(s, u) = AVLfind(s, u.left)
      BY <1>3, FindEquation
    <3>2. s > a => AVLfind(s, u) = AVLfind(s, u.right)
      BY <1>3, <2>1, FindEquation
    <3>3. s = a => AVLfind(s, u) = u
      BY <1>3, <2>1, FindEquation
    <3> QED BY <3>1, <3>2, <3>3
  <2>4. \A s \in Int : AVLfind(s, u) # NULL => AVLfind(s, u) \in Nodes(u)
    BY <1>3, <2>1, <2>2, <2>3
  <2>5. NodeOf(u, u, F)
    BY <1>3, <2>1, <2>3 DEF NodeOf
  <2>6. ASSUME NEW n \in Nodes(u.left) PROVE NodeOf(n, u, F)
    <3>1. NodeOf(n, u.left, Below(F, a))
      BY <1>3
    <3>2. EntryOf(n)[1] = n.staAddr
      BY DEF EntryOf
    <3>3. EntryOf(n) \in F /\ n.staAddr < a
      BY <3>1, <3>2 DEF NodeOf, Below
    <3>4. n.staAddr \in Int
      BY <2>1, <3>2, <3>3, AddressesCompare
    <3> QED BY <2>3, <3>1, <3>3, <3>4 DEF NodeOf
  <2>7. ASSUME NEW n \in Nodes(u.right) PROVE NodeOf(n, u, F)
    <3>1. NodeOf(n, u.right, Above(F, a))
      BY <1>3
    <3>2. EntryOf(n)[1] = n.staAddr
      BY DEF EntryOf
    <3>3. EntryOf(n) \in F /\ n.staAddr > a
      BY <3>1, <3>2 DEF NodeOf, Above
    <3>4. n.staAddr \in Int
      BY <2>1, <3>2, <3>3, AddressesCompare
    <3> QED BY <2>3, <3>1, <3>3, <3>4 DEF NodeOf
  <2> QED BY <2>2, <2>4, <2>5, <2>6, <2>7
<1>4. ASSUME NEW p \in C, p[1] # NULL, Left(p) \in G, Right(p) \in G
      PROVE  p \in G
  <2>1. /\ Good(p[1].left, Below(p[2], p[1].staAddr))
        /\ Good(p[1].right, Above(p[2], p[1].staAddr))
    BY <1>4 DEF Left, Right
  <2> HIDE DEF Good
  <2> QED BY <1>0, <1>3, <1>4, <2>1
<1>5. G = C
  <2> HIDE DEF G
  <2>1. G \in SUBSET C
    BY DEF G
  <2> QED BY <1>1, <1>2, <1>4, <2>1 DEF Inductive
<1>6. <<t, E>> \in G
  BY <1>1, <1>5
<1> QED BY <1>6

\* The height of a search tree.
LEMMA DepthIs ==
    ASSUME CWAVLFunctions, NEW t, NEW E, Search(t, E)
    PROVE  Depth(t) = t.height
<1>1. PICK C : <<t, E>> \in C /\ Inductive(C)
  BY TreeInduction
<1>0. \A p \in C : Search(p[1], p[2])
  BY <1>1 DEF Inductive
<1> DEFINE G == {p \in C : Depth(p[1]) = p[1].height}
<1>2. ASSUME NEW p \in C, p[1] = NULL PROVE p \in G
  <2>1. Depth(p[1]) = -1
    BY <1>2, NodesEquations
  <2> QED BY <1>2, <2>1 DEF NULL
<1>3. ASSUME NEW p \in C, p[1] # NULL, Left(p) \in G, Right(p) \in G
      PROVE  p \in G
  <2>1. /\ Depth(p[1].left) = p[1].left.height
        /\ Depth(p[1].right) = p[1].right.height
    BY <1>3 DEF Left, Right
  <2>2. Inner(p[1])
    BY <1>0, <1>3, SearchOpen
  <2>3. p[1].height = 1 + IF p[1].left.height > p[1].right.height
                          THEN p[1].left.height ELSE p[1].right.height
    BY <2>2, BalanceIs
  <2>4. Depth(p[1]) = 1 + IF Depth(p[1].left) > Depth(p[1].right)
                          THEN Depth(p[1].left) ELSE Depth(p[1].right)
    BY <1>3, NodesEquations
  <2> QED BY <2>1, <2>3, <2>4
<1>4. G = C
  <2> HIDE DEF G
  <2>1. G \in SUBSET C
    BY DEF G
  <2> QED BY <1>1, <1>2, <1>3, <2>1 DEF Inductive
<1>5. <<t, E>> \in G
  BY <1>1, <1>4
<1> QED BY <1>5

\* A search tree has as many nodes as entries.
LEMMA NodesCount ==
    ASSUME CWAVLFunctions, NEW t, NEW E, Search(t, E)
    PROVE  Cardinality(Nodes(t)) = Cardinality(E) /\ Cardinality(E) \in Nat
<1> DEFINE f == [e \in E |-> AVLfind(e[1], t)]
<1>1. \A e \in E : e[1] \in Int
  BY SearchIsTree, AddressesCompare
<1>2. \A e \in E : AVLfind(e[1], t) # NULL /\ e = EntryOf(AVLfind(e[1], t))
  <2> TAKE e \in E
  <2>1. Found(e[1], t, E)
    BY <1>1, FindIs
  <2> QED BY <2>1 DEF Found
<1>3. f \in [E -> Nodes(t)]
  BY <1>1, <1>2, NodesFound
<1>4. \A e1, e2 \in E : f[e1] = f[e2] => e1 = e2
  BY <1>2
<1>5. \A n \in Nodes(t) : \E e \in E : f[e] = n
  <2> SUFFICES ASSUME NEW n \in Nodes(t) PROVE \E e \in E : f[e] = n
    OBVIOUS
  <2>1. EntryOf(n) \in E /\ AVLfind(n.staAddr, t) = n
    BY NodesFound DEF NodeOf
  <2>2. EntryOf(n)[1] = n.staAddr
    BY DEF EntryOf
  <2>3. f[EntryOf(n)] = n
    BY <2>1, <2>2
  <2> QED BY <2>1, <2>3
<1>6. f \in Bijection(E, Nodes(t))
  <2> HIDE DEF f
  <2> QED BY <1>3, <1>4, <1>5
          DEF Bijection, Injection, Surjection, IsInjective
<1>7. IsFiniteSet(E)
  BY EntriesFinite
<1> QED BY <1>6, <1>7, FS_Bijection, FS_CardinalityType DEF ExistsBijection

-----------------------------------------------------------------------------
(* Insertion into a balanced tree.                                         *)

\* A tree is balanced if its root and its subtrees are.
LEMMA BalancedIs ==
    ASSUME CWAVLFunctions, NEW t, t # NULL
    PROVE  Balanced(t) <=> /\ BalancedAt(t)
                           /\ Balanced(t.left) /\ Balanced(t.right)
<1>1. Nodes(t) = {t} \cup Nodes(t.left) \cup Nodes(t.right)
  BY NodesEquations
<1> QED BY <1>1 DEF Balanced, BalancedAt

\* The empty tree is balanced, and so is its root.
LEMMA EmptyBalanced ==
    ASSUME CWAVLFunctions
    PROVE  Balanced(NULL) /\ BalancedAt(NULL)
<1>1. Nodes(NULL) = {}
  BY NodesEquations
<1> QED BY <1>1 DEF Balanced, BalancedAt, AVLgetBalance

\* The root of a balanced tree is balanced.
LEMMA RootBalanced ==
    ASSUME CWAVLFunctions, NEW t, Balanced(t)
    PROVE  BalancedAt(t)
BY BalancedIs, EmptyBalanced

\* The rotation after an insertion on the left restores the balance of the
\* whole tree.
LEMMA RestoredLeft ==
    ASSUME CWAVLFunctions,
           NEW s, NEW t, Inner(t), Inner(t.left),
           AVLheight(t.left) - AVLheight(t.right) = 2,
           s < t.left.staAddr =>
               AVLheight(t.left.left) > AVLheight(t.left.right),
           ~(s < t.left.staAddr) =>
               /\ AVLheight(t.left.right) > AVLheight(t.left.left)
               /\ Inner(t.left.right),
           Balanced(t.left), Balanced(t.right)
    PROVE  LET q == InsertedLeft(s, t) IN
           Inner(q) /\ Balanced(q) /\ q.height = t.right.height + 2
<1> DEFINE c == t.left
           q == InsertedLeft(s, t)
<1>0. t # NULL /\ c # NULL /\ Tree(t) /\ Tree(t.right) /\ t.staAddr \in Int
      /\ t # Crash
  BY TreeRuns DEF Inner
<1>1. BalancedAt(c) /\ Balanced(c.left) /\ Balanced(c.right)
  BY <1>0, BalancedIs
<1>2. BalancedAt(c.left) /\ BalancedAt(c.right)
  BY <1>1, RootBalanced
<1>3. /\ Inner(q) /\ BalancedAt(q) /\ Inner(q.right) /\ BalancedAt(q.right)
      /\ q.left # c.left => Inner(q.left) /\ BalancedAt(q.left)
      /\ AVLheight(q) = AVLheight(t.right) + 2
  BY <1>1, <1>2, InsertedLeftRestores
<1>4. q.height = t.right.height + 2 /\ BalancedAt(q.left)
  BY <1>2, <1>3 DEF AVLheight
<1>5. Balanced(q.left) /\ Balanced(q.right)
  <2>1. CASE s < t.left.staAddr
    <3>1. q = AVLsingle_rotate_with_left(t)
      BY <1>0, <2>1 DEF InsertedLeft
    <3> HIDE DEF q
    <3>2. q.left = c.left /\ q.right.left = c.right /\ q.right.right = t.right
      BY <1>0, <3>1, RotateLeftIs
    <3>3. q.right # NULL
      BY <1>3 DEF Inner
    <3> QED BY <1>1, <1>3, <3>2, <3>3, BalancedIs
  <2>2. CASE ~(s < t.left.staAddr)
    <3> DEFINE g == AVLsingle_rotate_with_right(c)
               m == Node(t, g, t.right)
    <3>0. Inner(c.right) /\ c.right # NULL
      BY <2>2 DEF Inner
    <3>1. q = AVLsingle_rotate_with_left(m)
      BY <1>0, <2>2 DEF InsertedLeft, AVLdouble_rotate_with_left
    <3> HIDE DEF q
    <3>2. /\ Inner(g) /\ Inner(g.left) /\ g.right = c.right.right
          /\ g.left.left = c.left /\ g.left.right = c.right.left
      BY <3>0, RotateRightIs
    <3> HIDE DEF g
    <3>3. Tree(g) /\ g # NULL /\ g.left # NULL
      BY <3>2 DEF Inner
    <3>4. Inner(m) /\ m.left = g /\ m.right = t.right
      BY <1>0, <3>3, NodeIs
    <3> HIDE DEF m
    <3>5. /\ q.left = g.left /\ q.right.left = g.right
          /\ q.right.right = t.right
      BY <3>1, <3>2, <3>3, <3>4, RotateLeftIs
    <3>6. Balanced(c.right.left) /\ Balanced(c.right.right)
      BY <1>1, <3>0, BalancedIs
    <3>7. Balanced(q.left)
      BY <1>1, <1>4, <3>2, <3>3, <3>5, <3>6, BalancedIs
    <3>8. q.right # NULL
      BY <1>3 DEF Inner
    <3> QED BY <1>3, <3>2, <3>5, <3>6, <3>7, <3>8, BalancedIs
  <2> QED BY <2>1, <2>2
<1>6. q # NULL
  BY <1>3 DEF Inner
<1> HIDE DEF q
<1>7. Balanced(q)
  BY <1>3, <1>5, <1>6, BalancedIs
<1> QED BY <1>3, <1>4, <1>7 DEF q

\* The same on the right.
LEMMA RestoredRight ==
    ASSUME CWAVLFunctions,
           NEW s, NEW t, Inner(t), Inner(t.right),
           AVLheight(t.right) - AVLheight(t.left) = 2,
           s > t.right.staAddr =>
               AVLheight(t.right.right) > AVLheight(t.right.left),
           ~(s > t.right.staAddr) =>
               /\ AVLheight(t.right.left) > AVLheight(t.right.right)
               /\ Inner(t.right.left),
           Balanced(t.left), Balanced(t.right)
    PROVE  LET q == InsertedRight(s, t) IN
           Inner(q) /\ Balanced(q) /\ q.height = t.left.height + 2
<1> DEFINE c == t.right
           q == InsertedRight(s, t)
<1>0. t # NULL /\ c # NULL /\ Tree(t) /\ Tree(t.left) /\ t.staAddr \in Int
      /\ t # Crash
  BY TreeRuns DEF Inner
<1>1. BalancedAt(c) /\ Balanced(c.left) /\ Balanced(c.right)
  BY <1>0, BalancedIs
<1>2. BalancedAt(c.left) /\ BalancedAt(c.right)
  BY <1>1, RootBalanced
<1>3. /\ Inner(q) /\ BalancedAt(q) /\ Inner(q.left) /\ BalancedAt(q.left)
      /\ q.right # c.right => Inner(q.right) /\ BalancedAt(q.right)
      /\ AVLheight(q) = AVLheight(t.left) + 2
  BY <1>1, <1>2, InsertedRightRestores
<1>4. q.height = t.left.height + 2 /\ BalancedAt(q.right)
  BY <1>2, <1>3 DEF AVLheight
<1>5. Balanced(q.left) /\ Balanced(q.right)
  <2>1. CASE s > t.right.staAddr
    <3>1. q = AVLsingle_rotate_with_right(t)
      BY <1>0, <2>1 DEF InsertedRight
    <3> HIDE DEF q
    <3>2. q.right = c.right /\ q.left.left = t.left /\ q.left.right = c.left
      BY <1>0, <3>1, RotateRightIs
    <3>3. q.left # NULL
      BY <1>3 DEF Inner
    <3> QED BY <1>1, <1>3, <3>2, <3>3, BalancedIs
  <2>2. CASE ~(s > t.right.staAddr)
    <3> DEFINE g == AVLsingle_rotate_with_left(c)
               m == Node(t, t.left, g)
    <3>0. Inner(c.left) /\ c.left # NULL
      BY <2>2 DEF Inner
    <3>1. q = AVLsingle_rotate_with_right(m)
      BY <1>0, <2>2 DEF InsertedRight, AVLdouble_rotate_with_right
    <3> HIDE DEF q
    <3>2. /\ Inner(g) /\ Inner(g.right) /\ g.left = c.left.left
          /\ g.right.left = c.left.right /\ g.right.right = c.right
      BY <3>0, RotateLeftIs
    <3> HIDE DEF g
    <3>3. Tree(g) /\ g # NULL /\ g.right # NULL
      BY <3>2 DEF Inner
    <3>4. Inner(m) /\ m.left = t.left /\ m.right = g
      BY <1>0, <3>3, NodeIs
    <3> HIDE DEF m
    <3>5. /\ q.right = g.right /\ q.left.left = t.left
          /\ q.left.right = g.left
      BY <3>1, <3>2, <3>3, <3>4, RotateRightIs
    <3>6. Balanced(c.left.left) /\ Balanced(c.left.right)
      BY <1>1, <3>0, BalancedIs
    <3>7. Balanced(q.right)
      BY <1>1, <1>4, <3>2, <3>3, <3>5, <3>6, BalancedIs
    <3>8. q.left # NULL
      BY <1>3 DEF Inner
    <3> QED BY <1>3, <3>2, <3>5, <3>6, <3>7, <3>8, BalancedIs
  <2> QED BY <2>1, <2>2
<1>6. q # NULL
  BY <1>3 DEF Inner
<1> HIDE DEF q
<1>7. Balanced(q)
  BY <1>3, <1>5, <1>6, BalancedIs
<1> QED BY <1>3, <1>4, <1>7 DEF q

\* What a balanced tree t becomes by the insertion of s: balanced, and at most
\* one higher; if it is higher, then on the side of s.
Grown(s, t, q) ==
    /\ q # Crash /\ Balanced(q)
    /\ q.height \in {t.height, t.height + 1}
    /\ q.height # t.height /\ t # NULL =>
          \/ s < q.staAddr /\ q.left.height > q.right.height
          \/ s > q.staAddr /\ q.right.height > q.left.height

\* AVLinsert never crashes in a balanced tree and keeps it balanced.
LEMMA InsertBalances ==
    ASSUME CWAVLFunctions, NEW t, NEW E, Search(t, E), Balanced(t),
           NEW s \in Stations, NEW i \in Indices, NEW r \in Radios
    PROVE  Grown(s, t, AVLinsert(i, s, r, t))
<1> DEFINE I(n) == AVLinsert(i, s, r, n)
           Good(u) == Balanced(u) => Grown(s, u, I(u))
<1>1. PICK C : <<t, E>> \in C /\ Inductive(C)
  BY TreeInduction
<1>0. (\A p \in C : Search(p[1], p[2])) /\ s \in Int
  BY <1>1, StationsAreNumbers DEF Inductive
<1> DEFINE G == {p \in C : Good(p[1])}
<1>2. ASSUME NEW p \in C, p[1] = NULL PROVE p \in G
  <2> DEFINE n == [staAddr |-> s, index |-> i, radioID |-> r]
             q == Node(n, NULL, NULL)
  <2>1. I(p[1]) = q
    BY <1>2, InsertEmpty
  <2>2. n.staAddr = s /\ Tree(NULL) /\ NULL.height = -1
    BY DEF Tree, NULL
  <2> HIDE DEF n
  <2>3. Inner(q) /\ q.left = NULL /\ q.right = NULL
    BY <1>0, <2>2, NodeIs
  <2> HIDE DEF q
  <2>4. q.height = 0 /\ q # NULL /\ q # Crash
    <3>1. Tree(q)
      BY <2>3 DEF Inner
    <3> QED BY <2>2, <2>3, <3>1, TreeRuns, BalanceIs DEF Inner
  <2>5. BalancedAt(q)
    BY <2>2, <2>3, BalanceIs DEF BalancedAt
  <2>6. Balanced(q)
    BY <2>3, <2>4, <2>5, EmptyBalanced, BalancedIs
  <2> QED BY <1>2, <2>1, <2>2, <2>4, <2>6 DEF Grown
<1>3. ASSUME NEW u, NEW F, Search(u, F), u # NULL, Good(u.left), Good(u.right)
      PROVE  Good(u)
  <2> SUFFICES ASSUME Balanced(u) PROVE Grown(s, u, I(u))
    OBVIOUS
  <2> DEFINE a == u.staAddr
  <2>1. /\ Inner(u) /\ a \in Int
        /\ Search(u.left, Below(F, a)) /\ Search(u.right, Above(F, a))
    BY <1>3, SearchOpen
  <2>2. BalancedAt(u) /\ Balanced(u.left) /\ Balanced(u.right)
    BY <1>3, BalancedIs
  <2>3. Tree(u.left) /\ Tree(u.right) /\ u.left # Crash /\ u.right # Crash
    BY <2>1, SearchIsTree
  <2>4. /\ u.left.height - u.right.height \in -1 .. 1
        /\ u.height \in Int /\ u.left.height \in Int /\ u.right.height \in Int
        /\ u.height = 1 + IF u.left.height > u.right.height
                          THEN u.left.height ELSE u.right.height
    BY <2>1, <2>2, BalanceIs DEF BalancedAt
  <2>5. CASE s < a
    <3> DEFINE l == I(u.left)
               m == Node(u, l, u.right)
               H == Inserted(Below(F, a), i, s, r)
    <3>1. I(u) = InsertedLeft(s, m)
      BY <1>0, <1>3, <2>1, <2>5, InsertCases
    <3>2. Grown(s, u.left, l)
      BY <1>3, <2>2
    <3>3. Search(l, H)
      BY <2>1, <3>2, InsertSearch DEF Grown
    <3> HIDE DEF l, H
    <3>4. Tree(l) /\ l # Crash /\ l.height \in Int
      BY <3>3, SearchIsTree DEF Tree
    <3>5. /\ Inner(m) /\ m.left = l /\ m.right = u.right /\ m.staAddr = a
          /\ m # NULL /\ m # Crash
      BY <2>1, <2>3, <3>4, NodeIs, TreeRuns DEF Inner
    <3> HIDE DEF m
    <3>6. /\ m.height = 1 + IF l.height > u.right.height
                            THEN l.height ELSE u.right.height
          /\ AVLgetBalance(m) = l.height - u.right.height
      BY <3>5, BalanceIs
    <3>7. l.height = u.left.height \/ l.height = u.left.height + 1
      BY <3>2 DEF Grown
    <3>8. CASE l.height - u.right.height # 2
      <4>1. I(u) = m
        BY <3>1, <3>5, <3>8 DEF InsertedLeft, AVLheight
      <4>2. BalancedAt(m)
        BY <2>4, <3>4, <3>6, <3>7, <3>8 DEF BalancedAt
      <4>3. Balanced(m)
        BY <2>2, <3>2, <3>5, <4>2, BalancedIs DEF Grown
      <4>4. m.height = u.height \/ m.height = u.height + 1
        BY <2>4, <3>4, <3>6, <3>7
      <4>5. m.height # u.height => l.height > u.right.height
        BY <2>4, <3>4, <3>6, <3>7
      <4> QED BY <2>5, <3>5, <4>1, <4>3, <4>4, <4>5 DEF Grown
    <3>9. CASE l.height - u.right.height = 2
      <4>1. l.height = u.left.height + 1 /\ u.left.height = u.right.height + 1
        BY <2>4, <3>4, <3>7, <3>9
      <4>2. u.left # NULL /\ l # NULL
        BY <2>3, <2>4, <3>4, <4>1 DEF Tree
      <4>3. \/ s < l.staAddr /\ l.left.height > l.right.height
            \/ s > l.staAddr /\ l.right.height > l.left.height
        BY <2>4, <3>2, <4>1, <4>2 DEF Grown
      <4>4. /\ Inner(l) /\ l.staAddr \in Int
            /\ Search(l.right, Above(H, l.staAddr))
            /\ Search(l.left, Below(H, l.staAddr))
        BY <3>3, <4>2, SearchOpen
      <4>5. l.right.height > l.left.height => Inner(l.right)
        <5>1. Sound(l.right) /\ Tree(l.left)
          BY <4>4, SearchIsTree
        <5> QED BY <5>1 DEF Sound, Tree
      <4>6. /\ AVLheight(m.left) - AVLheight(m.right) = 2
            /\ s < m.left.staAddr =>
                  AVLheight(m.left.left) > AVLheight(m.left.right)
            /\ ~(s < m.left.staAddr) =>
                  /\ AVLheight(m.left.right) > AVLheight(m.left.left)
                  /\ Inner(m.left.right)
        BY <1>0, <3>5, <3>9, <4>3, <4>4, <4>5 DEF AVLheight
      <4>7. Balanced(m.left) /\ Balanced(m.right)
        BY <2>2, <3>2, <3>5 DEF Grown
      <4>8. /\ Inner(I(u)) /\ Balanced(I(u))
            /\ I(u).height = u.right.height + 2
        BY <3>1, <3>5, <4>4, <4>6, <4>7, RestoredLeft
      <4>9. I(u).height = u.height
        BY <2>4, <4>1, <4>8
      <4>10. I(u) # Crash
        BY <4>8, TreeRuns DEF Inner
      <4> HIDE DEF I
      <4> QED BY <4>8, <4>9, <4>10 DEF Grown
    <3> QED BY <3>8, <3>9
  <2>6. CASE s > a
    <3> DEFINE l == I(u.right)
               m == Node(u, u.left, l)
               H == Inserted(Above(F, a), i, s, r)
    <3>1. I(u) = InsertedRight(s, m)
      BY <1>0, <1>3, <2>1, <2>6, InsertCases
    <3>2. Grown(s, u.right, l)
      BY <1>3, <2>2
    <3>3. Search(l, H)
      BY <2>1, <3>2, InsertSearch DEF Grown
    <3> HIDE DEF l, H
    <3>4. Tree(l) /\ l # Crash /\ l.height \in Int
      BY <3>3, SearchIsTree DEF Tree
    <3>5. /\ Inner(m) /\ m.left = u.left /\ m.right = l /\ m.staAddr = a
          /\ m # NULL /\ m # Crash
      BY <2>1, <2>3, <3>4, NodeIs, TreeRuns DEF Inner
    <3> HIDE DEF m
    <3>6. /\ m.height = 1 + IF u.left.height > l.height
                            THEN u.left.height ELSE l.height
          /\ AVLgetBalance(m) = u.left.height - l.height
      BY <3>5, BalanceIs
    <3>7. l.height = u.right.height \/ l.height = u.right.height + 1
      BY <3>2 DEF Grown
    <3>8. CASE l.height - u.left.height # 2
      <4>1. I(u) = m
        BY <3>1, <3>5, <3>8 DEF InsertedRight, AVLheight
      <4>2. BalancedAt(m)
        BY <2>4, <3>4, <3>6, <3>7, <3>8 DEF BalancedAt
      <4>3. Balanced(m)
        BY <2>2, <3>2, <3>5, <4>2, BalancedIs DEF Grown
      <4>4. m.height = u.height \/ m.height = u.height + 1
        BY <2>4, <3>4, <3>6, <3>7
      <4>5. m.height # u.height => l.height > u.left.height
        BY <2>4, <3>4, <3>6, <3>7
      <4> QED BY <2>6, <3>5, <4>1, <4>3, <4>4, <4>5 DEF Grown
    <3>9. CASE l.height - u.left.height = 2
      <4>1. l.height = u.right.height + 1 /\ u.right.height = u.left.height + 1
        BY <2>4, <3>4, <3>7, <3>9
      <4>2. u.right # NULL /\ l # NULL
        BY <2>3, <2>4, <3>4, <4>1 DEF Tree
      <4>3. \/ s < l.staAddr /\ l.left.height > l.right.height
            \/ s > l.staAddr /\ l.right.height > l.left.height
        BY <2>4, <3>2, <4>1, <4>2 DEF Grown
      <4>4. /\ Inner(l) /\ l.staAddr \in Int
            /\ Search(l.right, Above(H, l.staAddr))
            /\ Search(l.left, Below(H, l.staAddr))
        BY <3>3, <4>2, SearchOpen
      <4>5. l.left.height > l.right.height => Inner(l.left)
        <5>1. Sound(l.left) /\ Tree(l.right)
          BY <4>4, SearchIsTree
        <5> QED BY <5>1 DEF Sound, Tree
      <4>6. /\ AVLheight(m.right) - AVLheight(m.left) = 2
            /\ s > m.right.staAddr =>
                  AVLheight(m.right.right) > AVLheight(m.right.left)
            /\ ~(s > m.right.staAddr) =>
                  /\ AVLheight(m.right.left) > AVLheight(m.right.right)
                  /\ Inner(m.right.left)
        BY <1>0, <3>5, <3>9, <4>3, <4>4, <4>5 DEF AVLheight
      <4>7. Balanced(m.left) /\ Balanced(m.right)
        BY <2>2, <3>2, <3>5 DEF Grown
      <4>8. /\ Inner(I(u)) /\ Balanced(I(u))
            /\ I(u).height = u.left.height + 2
        BY <3>1, <3>5, <4>4, <4>6, <4>7, RestoredRight
      <4>9. I(u).height = u.height
        BY <2>4, <4>1, <4>8
      <4>10. I(u) # Crash
        BY <4>8, TreeRuns DEF Inner
      <4> HIDE DEF I
      <4> QED BY <4>8, <4>9, <4>10 DEF Grown
    <3> QED BY <3>8, <3>9
  <2>7. CASE s = a
    <3>1. I(u) = u
      BY <1>0, <1>3, <2>1, <2>7, InsertCases
    <3>2. u # Crash
      BY <1>3, SearchIsTree
    <3> QED BY <3>1, <3>2 DEF Grown
  <2> QED BY <1>0, <2>1, <2>5, <2>6, <2>7
<1>4. ASSUME NEW p \in C, p[1] # NULL, Left(p) \in G, Right(p) \in G
      PROVE  p \in G
  <2>1. Good(p[1].left) /\ Good(p[1].right)
    BY <1>4 DEF Left, Right
  <2> HIDE DEF Good
  <2> QED BY <1>0, <1>3, <1>4, <2>1
<1>5. G = C
  <2> HIDE DEF G
  <2>1. G \in SUBSET C
    BY DEF G
  <2> QED BY <1>1, <1>2, <1>4, <2>1 DEF Inductive
<1>6. <<t, E>> \in G
  BY <1>1, <1>5
<1> QED BY <1>6

-----------------------------------------------------------------------------
(* The table that a tree stands for.                                       *)

\* The line of the table for an entry.
Line(e) == [index |-> e[2], radioID |-> e[3]]

\* What the table says of a station.
LEMMA TableIs ==
    ASSUME CWAVLFunctions, NEW t, NEW E, Search(t, E), NEW s \in Stations
    PROVE  /\ \A e \in E : e[1] = s =>
                 TableOf(t)[s] = Line(e) /\ TableOf(t)[s] # Abstract!None
           /\ (\A e \in E : e[1] # s) => TableOf(t)[s] = Abstract!None
<1> DEFINE n == AVLfind(s, t)
<1>1. s \in Int
  BY StationsAreNumbers
<1>2. Found(s, t, E)
  BY <1>1, FindIs
<1>3. TableOf(t)[s] = IF n = NULL THEN [index |-> "none"]
                      ELSE [index |-> n.index, radioID |-> n.radioID]
  BY DEF TableOf
<1>4. CASE n = NULL
  BY <1>2, <1>3, <1>4 DEF Found, Abstract!None
<1>5. CASE n # NULL
  <2>1. /\ EntryOf(n) \in E /\ n.staAddr = s
        /\ \A e \in E : e[1] = s => e = EntryOf(n)
    BY <1>2, <1>5 DEF Found
  <2>2. /\ EntryOf(n)[1] = s /\ EntryOf(n)[2] = n.index
        /\ EntryOf(n)[3] = n.radioID
    BY <2>1 DEF EntryOf
  <2>3. TableOf(t)[s] = Line(EntryOf(n))
    BY <1>3, <1>5, <2>2 DEF Line
  <2>4. TableOf(t)[s] # Abstract!None
    BY <2>3 DEF Abstract!None, Line
  <2> HIDE DEF n
  <2> QED BY <2>1, <2>2, <2>3, <2>4
<1> QED BY <1>4, <1>5

\* Trees with the same entry of a station have the same line for it.
LEMMA TableSame ==
    ASSUME CWAVLFunctions, NEW t, NEW E, Search(t, E), NEW q, NEW F, Search(q, F),
           NEW s \in Stations,
           \A e \in E : e[1] = s => e \in F, \A e \in F : e[1] = s => e \in E
    PROVE  TableOf(q)[s] = TableOf(t)[s]
<1>1. CASE \A e \in E : e[1] # s
  <2>1. \A e \in F : e[1] # s
    BY <1>1
  <2> QED BY <1>1, <2>1, TableIs
<1>2. CASE \E e \in E : e[1] = s
  <2>1. PICK e \in E : e[1] = s
    BY <1>2
  <2>2. TableOf(t)[s] = Line(e) /\ TableOf(q)[s] = Line(e)
    BY <2>1, TableIs
  <2> QED BY <2>2
<1> QED BY <1>1, <1>2

\* The domain of the table.
LEMMA TableDomain ==
    ASSUME NEW t
    PROVE  /\ DOMAIN TableOf(t) = Stations
           /\ TableOf(t) = [s \in Stations |-> TableOf(t)[s]]
BY DEF TableOf

\* An insertion in the table.
LEMMA InsertTable ==
    ASSUME CWAVLFunctions, NEW t, NEW E, Search(t, E),
           NEW s \in Stations, NEW i \in Indices, NEW r \in Radios,
           AVLinsert(i, s, r, t) # Crash
    PROVE  TableOf(AVLinsert(i, s, r, t)) =
             IF TableOf(t)[s] = Abstract!None
             THEN [TableOf(t) EXCEPT ![s] = [index |-> i, radioID |-> r]]
             ELSE TableOf(t)
<1> DEFINE q == AVLinsert(i, s, r, t)
           F == Inserted(E, i, s, r)
           new == <<s, i, r>>
<1>1. Search(q, F)
  BY InsertSearch
<1> HIDE DEF q
<1>2. CASE \E e \in E : e[1] = s
  <2>1. F = E
    BY <1>2 DEF Inserted
  <2>2. TableOf(t)[s] # Abstract!None
    BY <1>2, TableIs
  <2>3. ASSUME NEW x \in Stations PROVE TableOf(q)[x] = TableOf(t)[x]
    BY <1>1, <2>1, TableSame
  <2>4. TableOf(q) = TableOf(t)
    BY <2>3, TableDomain
  <2> QED BY <2>2, <2>4 DEF q
<1>3. CASE \A e \in E : e[1] # s
  <2>1. F = E \cup {new}
    BY <1>3 DEF Inserted
  <2>2. TableOf(t)[s] = Abstract!None
    BY <1>3, TableIs
  <2>3. new \in F /\ new[1] = s /\ new[2] = i /\ new[3] = r
    BY <2>1
  <2>4. TableOf(q)[s] = [index |-> i, radioID |-> r]
    <3> HIDE DEF new
    <3>1. TableOf(q)[s] = Line(new)
      BY <1>1, <2>3, TableIs
    <3> QED BY <2>3, <3>1 DEF Line
  <2>5. ASSUME NEW x \in Stations, x # s PROVE TableOf(q)[x] = TableOf(t)[x]
    <3> HIDE DEF new, F
    <3>1. /\ \A e \in E : e[1] = x => e \in F
          /\ \A e \in F : e[1] = x => e \in E
      BY <2>1, <2>3, <2>5
    <3> QED BY <1>1, <3>1, TableSame
  <2>6. TableOf(q) = [TableOf(t) EXCEPT ![s] = [index |-> i, radioID |-> r]]
    BY <2>4, <2>5, TableDomain
  <2> QED BY <2>2, <2>6 DEF q
<1> QED BY <1>2, <1>3

\* A deletion in the table.
LEMMA RemoveTable ==
    ASSUME CWAVLFunctions, NEW t, NEW E, Search(t, E),
           NEW s \in Stations, NEW r, Remove(t, s, {r}) # Crash
    PROVE  TableOf(Remove(t, s, {r})) =
             IF TableOf(t)[s] # Abstract!None /\ TableOf(t)[s].radioID = r
             THEN [TableOf(t) EXCEPT ![s] = Abstract!None]
             ELSE TableOf(t)
<1> DEFINE q == Remove(t, s, {r})
           F == Removed(E, s, {r})
<1>1. Search(q, F)
  BY StationsAreNumbers, RemoveSearch
<1> HIDE DEF q
<1>2. \A e \in E : e \in F <=> ~(e[1] = s /\ e[3] = r)
  BY DEF Removed
<1>3. F \subseteq E
  BY DEF Removed
<1> HIDE DEF F
<1>4. ASSUME NEW x \in Stations, x # s PROVE TableOf(q)[x] = TableOf(t)[x]
  BY <1>1, <1>2, <1>3, <1>4, TableSame
<1>5. CASE \A e \in E : e[1] # s
  <2>1. TableOf(t)[s] = Abstract!None /\ TableOf(q)[s] = Abstract!None
    BY <1>1, <1>3, <1>5, TableIs
  <2>2. TableOf(q) = TableOf(t)
    BY <1>4, <2>1, TableDomain
  <2> QED BY <2>1, <2>2 DEF q
<1>6. CASE \E e \in E : e[1] = s
  <2>1. PICK e \in E : e[1] = s
    BY <1>6
  <2>2. TableOf(t)[s] = Line(e) /\ TableOf(t)[s] # Abstract!None
    BY <2>1, TableIs
  <2>3. TableOf(t)[s].radioID = e[3]
    BY <2>2 DEF Line
  <2>4. CASE e[3] = r
    <3>1. \A f \in F : f[1] # s
      BY <1>2, <1>3, <2>1, <2>4, EntriesUnique
    <3>2. TableOf(q)[s] = Abstract!None
      BY <1>1, <3>1, TableIs
    <3>3. TableOf(q) = [TableOf(t) EXCEPT ![s] = Abstract!None]
      BY <1>4, <3>2, TableDomain
    <3> QED BY <2>2, <2>3, <2>4, <3>3 DEF q
  <2>5. CASE e[3] # r
    <3>1. e \in F
      BY <1>2, <2>5
    <3>2. TableOf(q)[s] = TableOf(t)[s]
      BY <1>1, <2>1, <2>2, <3>1, TableIs
    <3>3. TableOf(q) = TableOf(t)
      BY <1>4, <3>2, TableDomain
    <3> QED BY <2>2, <2>3, <2>5, <3>3 DEF q
  <2> QED BY <2>4, <2>5
<1> QED BY <1>5, <1>6

\* The end of a session in the table.
LEMMA RemoveWTPTable ==
    ASSUME CWAVLFunctions, NEW t, NEW E, Search(t, E), NEW i,
           RemoveWTP(t, i) # Crash
    PROVE  LET T == TableOf(t) IN
           \E gone \in SUBSET {s \in Stations :
                                 T[s] # Abstract!None /\ T[s].index = i} :
              TableOf(RemoveWTP(t, i)) =
                 [s \in Stations |-> IF s \in gone THEN Abstract!None ELSE T[s]]
<1> DEFINE T == TableOf(t)
           q == RemoveWTP(t, i)
<1>1. PICK D \in SUBSET E : Search(q, D) /\ \A e \in E \ D : e[2] = i
  BY RemoveWTPSearch
<1> HIDE DEF q
<1> DEFINE gone == {s \in Stations : \E e \in E \ D : e[1] = s}
<1>2. gone \subseteq {s \in Stations : T[s] # Abstract!None /\ T[s].index = i}
  <2> SUFFICES ASSUME NEW s \in gone PROVE T[s] # Abstract!None /\ T[s].index = i
    OBVIOUS
  <2>1. PICK e \in E \ D : e[1] = s
    OBVIOUS
  <2>2. T[s] # Abstract!None /\ T[s] = Line(e)
    BY <2>1, TableIs
  <2> QED BY <1>1, <2>1, <2>2 DEF Line
<1>3. ASSUME NEW s \in Stations
      PROVE  TableOf(q)[s] = IF s \in gone THEN Abstract!None ELSE T[s]
  <2>1. CASE s \in gone
    <3>1. PICK e \in E \ D : e[1] = s
      BY <2>1
    <3>2. \A f \in D : f[1] # s
      BY <1>1, <3>1, EntriesUnique
    <3>3. TableOf(q)[s] = Abstract!None
      BY <1>1, <3>2, TableIs
    <3> QED BY <2>1, <3>3
  <2>2. CASE s \notin gone
    <3>1. \A e \in E : e[1] = s => e \in D
      BY <2>2
    <3> HIDE DEF gone
    <3>2. TableOf(q)[s] = T[s]
      BY <1>1, <3>1, TableSame
    <3> QED BY <2>2, <3>2
  <2> QED BY <2>1, <2>2
<1>4. TableOf(q) = [s \in Stations |-> IF s \in gone THEN Abstract!None ELSE T[s]]
  <2> HIDE DEF gone, T
  <2> QED BY <1>3, TableDomain
<1> QED BY <1>2, <1>4 DEF q

-----------------------------------------------------------------------------
(* The sections under mutexAvlTree.                                        *)

\* The inductive invariant: the tree is a search tree.
SearchInv == \E E : Search(avlTree, E)

\* The ways in which a section changes the tree.
Inserts(s, i, r) ==
    /\ AVLinsert(i, s, r, avlTree) # Crash
    /\ avlTree' = AVLinsert(i, s, r, avlTree)
Moves(s, i, r) ==
    LET d == Remove(avlTree, s, {r}) IN
    /\ AVLfind(s, avlTree) # NULL /\ d # Crash
    /\ AVLinsert(i, s, r, d) # Crash /\ avlTree' = AVLinsert(i, s, r, d)
Deletes(s, r) ==
    /\ Remove(avlTree, s, {r}) # Crash
    /\ avlTree' = Remove(avlTree, s, {r})
Closes(i) ==
    RemoveWTP(avlTree, i) # Crash /\ avlTree' = RemoveWTP(avlTree, i)

\* A step leaves the tree alone, also where it crashes, or changes it in one of
\* these ways.
LEMMA NextIs ==
    ASSUME CWAVLFunctions, [Next]_vars
    PROVE  \/ avlTree' = avlTree
           \/ \E s \in Stations, i \in Indices, r \in Radios :
                 Inserts(s, i, r) \/ Moves(s, i, r)
           \/ \E s \in Stations, r \in Radios : Deletes(s, r)
           \/ \E i \in Indices : Closes(i)
<1>0. ASSUME NEW q, Becomes(q)
      PROVE  avlTree' = avlTree \/ (q # Crash /\ avlTree' = q)
  BY <1>0 DEF Becomes
<1>1. ASSUME NEW s \in Stations, NEW i \in Indices, NEW r \in Radios,
             Associate(s, i, r)
      PROVE  avlTree' = avlTree \/ Inserts(s, i, r) \/ Moves(s, i, r)
  <2> DEFINE d == Remove(avlTree, s, {r})
  <2>1. AVLdeleteNode(avlTree, s, r) = d
    BY DeleteEquations
  <2>2. CASE AVLfind(s, avlTree) = NULL
    <3>1. Becomes(AVLinsert(i, s, r, avlTree))
      BY <1>1, <2>2 DEF Associate
    <3> QED BY <1>0, <3>1 DEF Inserts
  <2>3. CASE AVLfind(s, avlTree) # NULL
    <3>1. Becomes(IF d = Crash THEN Crash ELSE AVLinsert(i, s, r, d))
      BY <1>1, <2>1, <2>3 DEF Associate
    <3> HIDE DEF d
    <3>2. avlTree' = avlTree \/ (d # Crash /\ AVLinsert(i, s, r, d) # Crash
                                 /\ avlTree' = AVLinsert(i, s, r, d))
      BY <3>1 DEF Becomes
    <3> QED BY <2>3, <3>2 DEF Moves, d
  <2> QED BY <2>2, <2>3
<1>2. ASSUME NEW s \in Stations, NEW i \in Indices, NEW r \in Radios,
             Add(s, i, r)
      PROVE  avlTree' = avlTree \/ Inserts(s, i, r)
  BY <1>0, <1>2 DEF Add, Inserts
<1>3. ASSUME NEW s \in Stations, NEW r \in Radios, Delete(s, r)
      PROVE  avlTree' = avlTree \/ Deletes(s, r)
  <2>1. Becomes(Remove(avlTree, s, {r}))
    BY <1>3, DeleteEquations DEF Delete
  <2> QED BY <1>0, <2>1 DEF Deletes
<1>4. ASSUME NEW i \in Indices, Close(i)
      PROVE  avlTree' = avlTree \/ Closes(i)
  BY <1>0, <1>4 DEF Close, Closes
<1>5. CASE UNCHANGED vars
  BY <1>5 DEF vars
<1>6. CASE Next
  BY <1>1, <1>2, <1>3, <1>4, <1>6 DEF Next
<1> QED BY <1>5, <1>6

\* The entries after a step.
LEMMA EntriesAfter ==
    ASSUME CWAVLFunctions, NEW E, Search(avlTree, E)
    PROVE  /\ \A s \in Stations, i \in Indices, r \in Radios :
                 /\ Inserts(s, i, r) => Search(avlTree', Inserted(E, i, s, r))
                 /\ Moves(s, i, r) =>
                       Search(avlTree', Inserted(Removed(E, s, {r}), i, s, r))
           /\ \A s \in Stations, r \in Radios :
                 Deletes(s, r) => Search(avlTree', Removed(E, s, {r}))
           /\ \A i \in Indices :
                 Closes(i) => \E D \in SUBSET E : Search(avlTree', D)
<1>1. ASSUME NEW s \in Stations, NEW i \in Indices, NEW r \in Radios,
             Inserts(s, i, r)
      PROVE  Search(avlTree', Inserted(E, i, s, r))
  BY <1>1, InsertSearch DEF Inserts
<1>2. ASSUME NEW s \in Stations, NEW r \in Radios, Remove(avlTree, s, {r}) # Crash
      PROVE  Search(Remove(avlTree, s, {r}), Removed(E, s, {r}))
  BY <1>2, StationsAreNumbers, RemoveSearch
<1>3. ASSUME NEW s \in Stations, NEW i \in Indices, NEW r \in Radios,
             Moves(s, i, r)
      PROVE  Search(avlTree', Inserted(Removed(E, s, {r}), i, s, r))
  BY <1>2, <1>3, InsertSearch DEF Moves
<1>4. ASSUME NEW s \in Stations, NEW r \in Radios, Deletes(s, r)
      PROVE  Search(avlTree', Removed(E, s, {r}))
  BY <1>2, <1>4 DEF Deletes
<1>5. ASSUME NEW i \in Indices, Closes(i)
      PROVE  \E D \in SUBSET E : Search(avlTree', D)
  BY <1>5, RemoveWTPSearch DEF Closes
<1> QED BY <1>1, <1>3, <1>4, <1>5

\* After any sequence of associations, departures and closed sessions, on the
\* AC and on the WTP, the tree is a search tree with right heights.
THEOREM Invariance ==
    ASSUME CWAVLFunctions
    PROVE  Spec => []SearchInv
<1>1. Init => SearchInv
  BY SearchIs DEF Init, SearchInv
<1>2. SearchInv /\ [Next]_vars => SearchInv'
  <2> SUFFICES ASSUME SearchInv, [Next]_vars PROVE SearchInv'
    OBVIOUS
  <2>1. PICK E : Search(avlTree, E)
    BY DEF SearchInv
  <2>2. CASE avlTree' = avlTree
    BY <2>1, <2>2 DEF SearchInv
  <2>3. CASE avlTree' # avlTree
    <3>1. \E D : Search(avlTree', D)
      BY <2>1, <2>3, NextIs, EntriesAfter
    <3> QED BY <3>1 DEF SearchInv
  <2> QED BY <2>2, <2>3
<1> QED BY <1>1, <1>2, PTL DEF Spec

\* Every node of the tree is found by its address.
THEOREM Searchable ==
    ASSUME CWAVLFunctions
    PROVE  Spec => []SearchTree
<1>1. SearchInv => SearchTree
  BY NodesFound DEF SearchInv, SearchTree, NodeOf
<1> QED BY <1>1, Invariance, PTL

\* The stored heights are the heights of the subtrees.
THEOREM Heights ==
    ASSUME CWAVLFunctions
    PROVE  Spec => []HeightsRight
<1>1. SearchInv => HeightsRight
  <2> SUFFICES ASSUME SearchInv, NEW n \in Nodes(avlTree)
               PROVE  n.height = Depth(n)
    BY DEF HeightsRight
  <2>1. \E F : Search(n, F)
    BY NodesFound DEF SearchInv, NodeOf
  <2> QED BY <2>1, DepthIs
<1> QED BY <1>1, Invariance, PTL

\* No step but an insertion adds a node.
LEMMA OnlyInsertsAdd ==
    ASSUME CWAVLFunctions, NEW E, Search(avlTree, E), [Next]_vars,
           Cardinality(Nodes(avlTree)) < Cardinality(Nodes(avlTree'))
    PROVE  \E s \in Stations, i \in Indices, r \in Radios : Inserts(s, i, r)
<1>1. ASSUME NEW F, Search(avlTree', F), Cardinality(F) <= Cardinality(E)
      PROVE  FALSE
  BY <1>1, NodesCount
<1>2. IsFiniteSet(E) /\ Cardinality(E) \in Nat
  BY EntriesFinite, FS_CardinalityType
<1>3. \A D \in SUBSET E : Cardinality(D) <= Cardinality(E)
  BY <1>2, FS_Subset
<1>4. avlTree' # avlTree
  BY <1>1, <1>2
<1>5. ASSUME NEW s \in Stations, NEW i \in Indices, NEW r \in Radios,
             Moves(s, i, r)
      PROVE  FALSE
  <2> DEFINE D == Removed(E, s, {r})
             F == Inserted(D, i, s, r)
             new == <<s, i, r>>
  <2>1. Search(avlTree', F)
    BY <1>5, EntriesAfter
  <2>2. Found(s, avlTree, E) /\ AVLfind(s, avlTree) # NULL
    BY <1>5, StationsAreNumbers, FindIs DEF Moves
  <2>3. PICK e \in E : e[1] = s /\ \A f \in E : f[1] = s => f = e
    <3> DEFINE n == AVLfind(s, avlTree)
    <3>1. EntryOf(n) \in E /\ n.staAddr = s
          /\ \A f \in E : f[1] = s => f = EntryOf(n)
      BY <2>2 DEF Found
    <3>2. EntryOf(n)[1] = s
      BY <3>1 DEF EntryOf
    <3> QED BY <3>1, <3>2
  <2>4. CASE e[3] = r
    <3>1. D = E \ {e}
      BY <2>3, <2>4 DEF Removed
    <3>2. F = (E \ {e}) \cup {new}
      <4>1. ~ \E f \in D : f[1] = s
        BY <2>3, <3>1
      <4> HIDE DEF D
      <4> QED BY <3>1, <4>1 DEF Inserted
    <3> HIDE DEF D, F, new
    <3>3. IsFiniteSet(E \ {e}) /\ Cardinality(E \ {e}) = Cardinality(E) - 1
      BY <1>2, FS_RemoveElement
    <3>4. Cardinality(F) <= Cardinality(E)
      <4> DEFINE H == E \ {e}
      <4> HIDE DEF H
      <4>1. Cardinality(H \cup {new}) =
              IF new \in H THEN Cardinality(H) ELSE Cardinality(H) + 1
        BY <3>3, FS_AddElement DEF H
      <4> QED BY <1>2, <3>2, <3>3, <4>1 DEF H
    <3> QED BY <1>1, <2>1, <3>4
  <2>5. CASE e[3] # r
    <3>1. D = E
      BY <2>3, <2>5 DEF Removed
    <3>2. F = E
      BY <2>3, <3>1 DEF Inserted
    <3> QED BY <1>1, <1>2, <2>1, <3>2
  <2> QED BY <2>4, <2>5
<1>6. ASSUME NEW s \in Stations, NEW r \in Radios, Deletes(s, r)
      PROVE  FALSE
  <2>1. Removed(E, s, {r}) \in SUBSET E
    BY DEF Removed
  <2> QED BY <1>1, <1>3, <1>6, <2>1, EntriesAfter
<1>7. ASSUME NEW i \in Indices, Closes(i) PROVE FALSE
  BY <1>1, <1>3, <1>7, EntriesAfter
<1> QED BY <1>4, <1>5, <1>6, <1>7, NextIs

\* Whatever was deleted before, an insertion into a tree that is balanced
\* leaves a balanced tree.
THEOREM BalanceKept ==
    ASSUME CWAVLFunctions
    PROVE  Spec => InsertKeepsBalance
<1> DEFINE A == Balanced(avlTree)
                /\ Cardinality(Nodes(avlTree)) < Cardinality(Nodes(avlTree'))
                => Balanced(avlTree')
<1>1. SearchInv /\ [Next]_vars => [A]_vars
  <2> SUFFICES ASSUME SearchInv, [Next]_vars, Balanced(avlTree),
                      Cardinality(Nodes(avlTree)) < Cardinality(Nodes(avlTree'))
               PROVE  Balanced(avlTree')
    OBVIOUS
  <2>1. PICK E : Search(avlTree, E)
    BY DEF SearchInv
  <2>2. PICK s \in Stations, i \in Indices, r \in Radios : Inserts(s, i, r)
    BY <2>1, OnlyInsertsAdd
  <2>3. Grown(s, avlTree, AVLinsert(i, s, r, avlTree))
    BY <2>1, InsertBalances
  <2> QED BY <2>2, <2>3 DEF Inserts, Grown
<1> QED BY <1>1, Invariance, PTL DEF Spec, InsertKeepsBalance

\* In a balanced tree the WTP's insertion never dereferences NULL.
THEOREM InsertionSurvives ==
    ASSUME CWAVLFunctions
    PROVE  Spec => [][\A s \in Stations, i \in Indices, r \in Radios :
                        Balanced(avlTree) /\ Add(s, i, r) => UNCHANGED crashed]_vars
<1> DEFINE A == \A s \in Stations, i \in Indices, r \in Radios :
                  Balanced(avlTree) /\ Add(s, i, r) => UNCHANGED crashed
<1>1. SearchInv /\ [Next]_vars => [A]_vars
  <2> SUFFICES ASSUME SearchInv, Balanced(avlTree), NEW s \in Stations,
                      NEW i \in Indices, NEW r \in Radios, Add(s, i, r)
               PROVE  UNCHANGED crashed
    OBVIOUS
  <2>1. Grown(s, avlTree, AVLinsert(i, s, r, avlTree))
    BY InsertBalances DEF SearchInv
  <2> QED BY <2>1 DEF Grown, Add, Becomes
<1> QED BY <1>1, Invariance, PTL DEF Spec

\* The tree implements the table of stations.
THEOREM TableImplemented ==
    ASSUME CWAVLFunctions
    PROVE  Spec => ImplementsTable
<1>1. Init => Abstract!Init
  <2> SUFFICES ASSUME Init PROVE Abstract!Init
    OBVIOUS
  <2>1. \A s \in Stations : AVLfind(s, avlTree) = NULL
    BY FindEquation DEF Init
  <2>2. TableOf(avlTree) = [s \in Stations |-> Abstract!None]
    BY <2>1 DEF TableOf, Abstract!None
  <2> QED BY <2>2 DEF Abstract!Init
<1>2. SearchInv /\ [Next]_vars => [Abstract!Next]_(TableOf(avlTree))
  <2> SUFFICES ASSUME SearchInv, [Next]_vars
               PROVE  [Abstract!Next]_(TableOf(avlTree))
    OBVIOUS
  <2> DEFINE T == TableOf(avlTree)
  <2>1. PICK E : Search(avlTree, E)
    BY DEF SearchInv
  <2>2. CASE avlTree' = avlTree
    BY <2>2 DEF TableOf
  <2>3. ASSUME NEW s \in Stations, NEW i \in Indices, NEW r \in Radios,
               Inserts(s, i, r)
        PROVE  Abstract!Next
    <3>1. T' = IF T[s] = Abstract!None
               THEN [T EXCEPT ![s] = [index |-> i, radioID |-> r]]
               ELSE T
      BY <2>1, <2>3, InsertTable DEF Inserts
    <3>2. Abstract!Add(s, i, r)
      BY <3>1 DEF Abstract!Add
    <3> QED BY <3>2 DEF Abstract!Next
  <2>4. ASSUME NEW s \in Stations, NEW i \in Indices, NEW r \in Radios,
               Moves(s, i, r)
        PROVE  Abstract!Next
    <3> DEFINE d == Remove(avlTree, s, {r})
    <3>1. TableOf(d) = IF T[s] # Abstract!None /\ T[s].radioID = r
                       THEN [T EXCEPT ![s] = Abstract!None]
                       ELSE T
      BY <2>1, <2>4, RemoveTable DEF Moves
    <3>2. \E D : Search(d, D)
      BY <2>1, <2>4, StationsAreNumbers, RemoveSearch DEF Moves
    <3>3. T' = IF TableOf(d)[s] = Abstract!None
               THEN [TableOf(d) EXCEPT ![s] = [index |-> i, radioID |-> r]]
               ELSE TableOf(d)
      BY <2>4, <3>2, InsertTable DEF Moves
    <3>4. T[s] # Abstract!None
      <4>1. Found(s, avlTree, E) /\ AVLfind(s, avlTree) # NULL
        BY <2>1, <2>4, StationsAreNumbers, FindIs DEF Moves
      <4>2. EntryOf(AVLfind(s, avlTree)) \in E
            /\ EntryOf(AVLfind(s, avlTree))[1] = s
        BY <4>1 DEF Found, EntryOf
      <4> QED BY <2>1, <4>2, TableIs
    <3>5. Abstract!Associate(s, i, r)
      <4> HIDE DEF d
      <4>1. DOMAIN T = Stations
        BY TableDomain
      <4> HIDE DEF T
      <4>2. CASE T[s].radioID = r
        <5>1. TableOf(d)[s] = Abstract!None
          BY <3>1, <3>4, <4>1, <4>2
        <5>2. T' = [T EXCEPT ![s] = [index |-> i, radioID |-> r]]
          BY <3>1, <3>3, <3>4, <4>1, <4>2, <5>1
        <5> QED BY <3>4, <4>2, <5>2 DEF Abstract!Associate, Abstract!Holds, T
      <4>3. CASE T[s].radioID # r
        <5>1. T' = T
          BY <3>1, <3>3, <3>4, <4>3
        <5> QED BY <3>4, <4>3, <5>1 DEF Abstract!Associate, Abstract!Holds, T
      <4> QED BY <4>2, <4>3
    <3> QED BY <3>5 DEF Abstract!Next
  <2>5. ASSUME NEW s \in Stations, NEW r \in Radios, Deletes(s, r)
        PROVE  Abstract!Next
    <3>1. T' = IF T[s] # Abstract!None /\ T[s].radioID = r
               THEN [T EXCEPT ![s] = Abstract!None]
               ELSE T
      BY <2>1, <2>5, RemoveTable DEF Deletes
    <3>2. Abstract!Delete(s, r)
      BY <3>1 DEF Abstract!Delete, Abstract!Holds
    <3> QED BY <3>2 DEF Abstract!Next
  <2>6. ASSUME NEW i \in Indices, Closes(i)
        PROVE  Abstract!Next
    <3>1. \E gone \in SUBSET {s \in Stations :
                                T[s] # Abstract!None /\ T[s].index = i} :
            T' = [s \in Stations |-> IF s \in gone THEN Abstract!None ELSE T[s]]
      BY <2>1, <2>6, RemoveWTPTable DEF Closes
    <3>2. Abstract!Close(i)
      BY <3>1 DEF Abstract!Close
    <3> QED BY <3>2 DEF Abstract!Next
  <2> QED BY <2>2, <2>3, <2>4, <2>5, <2>6, NextIs
<1> QED BY <1>1, <1>2, Invariance, PTL DEF Spec, ImplementsTable, Abstract!Spec

=============================================================================
