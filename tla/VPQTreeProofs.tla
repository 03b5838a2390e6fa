--------------------------- MODULE VPQTreeProofs ---------------------------
(***************************************************************************)
(* The shape of the VPQ-tree for every depth, every world and every        *)
(* sequence of objects.                                                    *)
(***************************************************************************)
EXTENDS VPQTree, SequenceTheorems, FiniteSetTheorems, TLAPS

(***************************************************************************)
(* Nodes and the nodes above them.                                         *)
(***************************************************************************)
LEMMA PathsAreSequences ==
    \A p : p \in Paths <=> p \in Seq(Quads) /\ Len(p) <= TqTreeLevel
<1>1. TqTreeLevel \in Nat
  BY LevelAssumption
<1>2. ASSUME NEW p, p \in Paths PROVE p \in Seq(Quads) /\ Len(p) <= TqTreeLevel
  <2>1. PICK n \in 0..TqTreeLevel : p \in [1..n -> Quads]
    BY <1>2 DEF Paths
  <2>2. p \in Seq(Quads)
    BY <1>1, <2>1, SeqDef
  <2> QED
    BY <1>1, <2>1, <2>2, LenProperties
<1>3. ASSUME NEW p \in Seq(Quads), Len(p) <= TqTreeLevel PROVE p \in Paths
  <2>1. Len(p) \in 0..TqTreeLevel /\ p \in [1..Len(p) -> Quads]
    BY <1>1, <1>3, LenProperties
  <2> QED
    BY <2>1 DEF Paths
<1> QED
  BY <1>2, <1>3

\* The empty path, the root, is a path.
LEMMA RootIsPath == <<>> \in Paths /\ Len(<<>>) = 0 /\ <<>> \in Seq(Quads)
<1>1. ASSUME NEW p \in Seq(Quads), Len(p) = 0 PROVE p \in Paths
  <2>1. Len(p) <= TqTreeLevel
    BY <1>1, LevelAssumption
  <2> QED
    BY <2>1, PathsAreSequences
<1>2. <<>> \in Seq(Quads) /\ Len(<<>>) = 0
  BY EmptySeq
<1> QED
  BY <1>1, <1>2, Zenon

\* What the ancestor n levels down is as a sequence.
LEMMA AboveProperties ==
    ASSUME NEW p \in Seq(Quads), NEW n \in 0..Len(p)
    PROVE  /\ Above(p, n) \in Seq(Quads)
           /\ Len(Above(p, n)) = n
           /\ \A i \in 1..n : Above(p, n)[i] = p[i]
<1>1. Len(p) \in Nat /\ \A i \in 1..n : p[i] \in Quads
  BY LenProperties, ElementOfSeq
<1> QED
  BY <1>1, SubSeqProperties DEF Above

\* The ancestor of an ancestor is an ancestor.
LEMMA AboveAbove ==
    ASSUME NEW p \in Seq(Quads), NEW k \in 0..Len(p), NEW n \in 0..k
    PROVE  Above(Above(p, k), n) = Above(p, n)
<1>1. /\ Above(p, k) \in Seq(Quads) /\ Len(Above(p, k)) = k
      /\ \A i \in 1..k : Above(p, k)[i] = p[i]
  BY AboveProperties
<1>2. n \in 0..Len(p) /\ n \in 0..Len(Above(p, k))
  BY <1>1, LenProperties
<1>3. /\ Above(p, n) \in Seq(Quads) /\ Len(Above(p, n)) = n
      /\ \A i \in 1..n : Above(p, n)[i] = p[i]
  BY <1>2, AboveProperties
<1>4. /\ Above(Above(p, k), n) \in Seq(Quads) /\ Len(Above(Above(p, k), n)) = n
      /\ \A i \in 1..n : Above(Above(p, k), n)[i] = Above(p, k)[i]
  BY <1>1, <1>2, AboveProperties
<1>5. \A i \in 1..n : Above(Above(p, k), n)[i] = Above(p, n)[i]
  BY <1>1, <1>3, <1>4
<1> QED
  BY <1>3, <1>4, <1>5, SeqEqual

\* The ancestor at its own level is the node itself.
LEMMA AboveSelf ==
    ASSUME NEW p \in Seq(Quads)
    PROVE  Above(p, Len(p)) = p
<1>1. Len(p) \in 0..Len(p)
  BY LenProperties
<1> QED
  BY <1>1, AboveProperties, SeqEqual

\* The parent of a node other than the root, and its ancestors.
LEMMA ParentProperties ==
    ASSUME NEW p \in Paths, p # <<>>
    PROVE  /\ Parent(p) \in Paths
           /\ Len(p) \in Nat \ {0} /\ Len(Parent(p)) = Len(p) - 1
           /\ \A n \in 0..Len(p) - 1 : Above(Parent(p), n) = Above(p, n)
<1>1. p \in Seq(Quads) /\ Len(p) <= TqTreeLevel /\ TqTreeLevel \in Nat
  BY PathsAreSequences, LevelAssumption
<1>2. Len(p) \in Nat \ {0} /\ Len(p) - 1 \in 0..Len(p)
  BY <1>1, LenProperties, EmptySeq
<1>3. Parent(p) \in Seq(Quads) /\ Len(Parent(p)) = Len(p) - 1
  BY <1>1, <1>2, AboveProperties DEF Parent
<1>4. \A n \in 0..Len(p) - 1 : Above(Parent(p), n) = Above(p, n)
  BY <1>1, <1>2, AboveAbove DEF Parent
<1>5. Len(Parent(p)) <= TqTreeLevel
  BY <1>1, <1>2, <1>3
<1> QED
  BY <1>2, <1>3, <1>4, <1>5, PathsAreSequences

\* The child of an inner node is a node with that parent.
LEMMA ChildProperties ==
    ASSUME NEW p \in Inner, NEW q \in Quads
    PROVE  Child(p, q) \in Paths /\ Child(p, q) # <<>> /\ Parent(Child(p, q)) = p
<1> DEFINE c == Child(p, q)
<1>1. p \in Seq(Quads) /\ Len(p) < TqTreeLevel /\ TqTreeLevel \in Nat /\ Len(p) \in Nat
  BY PathsAreSequences, LevelAssumption, LenProperties DEF Inner
<1>2. /\ c \in Seq(Quads) /\ c # <<>> /\ Len(c) = Len(p) + 1
      /\ \A i \in 1..Len(p) : c[i] = p[i]
  BY <1>1, AppendProperties DEF Child
<1>3. Len(p) \in 0..Len(c) /\ Len(c) - 1 = Len(p)
  BY <1>1, <1>2
<1>4. /\ Above(c, Len(p)) \in Seq(Quads) /\ Len(Above(c, Len(p))) = Len(p)
      /\ \A i \in 1..Len(p) : Above(c, Len(p))[i] = c[i]
  BY <1>2, <1>3, AboveProperties
<1>5. Above(c, Len(p)) = p
  BY <1>1, <1>2, <1>4, SeqEqual
<1>6. c \in Paths
  BY <1>1, <1>2, PathsAreSequences
<1> QED
  BY <1>2, <1>3, <1>5, <1>6 DEF Parent

\* A bounded set of numbers has a greatest one.
LEMMA HasGreatest ==
    ASSUME NEW N \in Nat, NEW S, S \subseteq 0..N, S # {}
    PROVE  \E k \in S : \A j \in S : j <= k
<1> DEFINE After(k) == {j \in 0..N : j > k}
           T == {After(k) : k \in S}
<1>1. T \subseteq SUBSET (0..N) /\ T # {}
  OBVIOUS
<1>2. IsWellFoundedOn(StrictSubsetOrdering(0..N), SUBSET (0..N))
  <2>1. IsFiniteSet(0..N)
    BY FS_Interval
  <2>2. FiniteSubsetsOf(0..N) = SUBSET (0..N)
    BY <2>1, FS_FiniteSubsetsOfFinite, Zenon
  <2>3. IsWellFoundedOn(StrictSubsetOrdering(0..N), FiniteSubsetsOf(0..N))
    BY FS_StrictSubsetOrderingWellFounded, Zenon
  <2> QED
    BY <2>2, <2>3, Zenon
<1>3. PICK t \in T : \A u \in T : ~(<<u, t>> \in StrictSubsetOrdering(0..N))
  BY <1>1, <1>2, WFMin
<1>4. PICK k \in S : t = After(k)
  OBVIOUS
<1>5. ASSUME NEW j \in S, k < j PROVE FALSE
  <2>1. After(j) \subseteq After(k) /\ j \in After(k) /\ j \notin After(j)
    BY <1>5
  <2>2. <<After(j), After(k)>> \in StrictSubsetOrdering(0..N)
    BY <2>1 DEF StrictSubsetOrdering
  <2> QED
    BY <1>3, <1>4, <2>2
<1> QED
  BY <1>5

(***************************************************************************)
(* The descents.                                                           *)
(***************************************************************************)
\* The way down to the MBNode starts at the root and leaves out no node.
LEMMA OnTheWayProperties ==
    ASSUME NEW r
    PROVE  /\ OnTheWay(r) \subseteq Paths
           /\ <<>> \in OnTheWay(r)
           /\ \A p \in OnTheWay(r) \ {<<>>} : Parent(p) \in OnTheWay(r)
<1> DEFINE taken == {Child(p, Min(Holders(p, r))) : p \in {p \in Inner : Holders(p, r) # {}}}
<1>1. OnTheWay(r) = {p \in Paths : \A n \in 1..Len(p) : Above(p, n) \in taken}
  BY DEF OnTheWay
<1> HIDE DEF taken
<1>2. <<>> \in Paths /\ Len(<<>>) = 0
  BY RootIsPath
<1>3. <<>> \in OnTheWay(r)
  BY <1>1, <1>2
<1>4. ASSUME NEW p \in OnTheWay(r), p # <<>> PROVE Parent(p) \in OnTheWay(r)
  <2>1. p \in Paths /\ \A n \in 1..Len(p) : Above(p, n) \in taken
    BY <1>1
  <2>2. /\ Parent(p) \in Paths
        /\ Len(p) \in Nat \ {0} /\ Len(Parent(p)) = Len(p) - 1
        /\ \A n \in 0..Len(p) - 1 : Above(Parent(p), n) = Above(p, n)
    BY <1>4, <2>1, ParentProperties
  <2>3. \A n \in 1..Len(Parent(p)) : Above(Parent(p), n) \in taken
    BY <2>1, <2>2
  <2> QED
    BY <1>1, <2>2, <2>3
<1> QED
  BY <1>1, <1>3, <1>4

\* The way has an end.
LEMMA MBNodeProperties ==
    ASSUME NEW r
    PROVE  MBNode(r) \in OnTheWay(r) /\ \A p \in OnTheWay(r) : Len(p) <= Len(MBNode(r))
<1> DEFINE way == OnTheWay(r)
           S == {Len(p) : p \in way}
<1>1. way \subseteq Paths /\ <<>> \in way
  BY OnTheWayProperties
<1>2. TqTreeLevel \in Nat /\ \A p \in way : Len(p) \in 0..TqTreeLevel
  BY <1>1, PathsAreSequences, LenProperties, LevelAssumption
<1> HIDE DEF way
<1>3. S \subseteq 0..TqTreeLevel /\ S # {}
  BY <1>1, <1>2
<1>4. PICK k \in S : \A j \in S : j <= k
  <2> HIDE DEF S
  <2> QED
    BY <1>2, <1>3, HasGreatest
<1>5. PICK m \in way : Len(m) = k
  OBVIOUS
<1>6. \A p \in way : Len(p) <= Len(m)
  BY <1>4, <1>5
<1> DEFINE x == CHOOSE x \in way : \A p \in way : Len(p) <= Len(x)
<1>7. x \in way /\ \A p \in way : Len(p) <= Len(x)
  BY <1>6, Zenon
<1>8. MBNode(r) = x
  BY DEF MBNode, way
<1> HIDE DEF x
<1> QED
  BY <1>7, <1>8 DEF way

\* A segment reaches no node but through the one above it.
LEMMA ReachedProperties ==
    ASSUME NEW m \in Paths, NEW s
    PROVE  /\ Reached(m, s) \subseteq Paths
           /\ \A p \in Reached(m, s) \ {m} : p # <<>> /\ Parent(p) \in Reached(m, s)
<1> DEFINE taken == UNION {{Child(p, q) : q \in Visits(p, s)} :
                              p \in {p \in Inner : IsPrefix(m, p)}}
<1>1. Reached(m, s) =
        {p \in Paths : IsPrefix(m, p) /\ \A n \in Len(m) + 1..Len(p) : Above(p, n) \in taken}
  BY DEF Reached
<1> HIDE DEF taken
<1>2. m \in Seq(Quads) /\ Len(m) \in Nat
  BY PathsAreSequences, LenProperties
<1>3. ASSUME NEW p \in Reached(m, s), p # m
      PROVE  p # <<>> /\ Parent(p) \in Reached(m, s)
  <2>1. /\ p \in Paths /\ p \in Seq(Quads) /\ Len(p) \in Nat
        /\ Len(m) <= Len(p) /\ Above(m, Len(m)) = Above(p, Len(m))
        /\ \A n \in Len(m) + 1..Len(p) : Above(p, n) \in taken
    BY <1>1, PathsAreSequences, LenProperties DEF IsPrefix, Above
  <2>2. Len(m) # Len(p)
    BY <1>2, <1>3, <2>1, AboveSelf
  <2>3. p # <<>> /\ Len(m) \in 0..Len(p) - 1
    BY <1>2, <2>1, <2>2, EmptySeq
  <2>4. /\ Parent(p) \in Paths /\ Len(Parent(p)) = Len(p) - 1
        /\ \A n \in 0..Len(p) - 1 : Above(Parent(p), n) = Above(p, n)
    BY <2>1, <2>3, ParentProperties
  <2>5. IsPrefix(m, Parent(p))
    BY <2>1, <2>3, <2>4 DEF IsPrefix, Above
  <2>6. \A n \in Len(m) + 1..Len(Parent(p)) : Above(Parent(p), n) \in taken
    BY <1>2, <2>1, <2>3, <2>4
  <2> QED
    BY <1>1, <2>3, <2>4, <2>5, <2>6
<1> QED
  BY <1>1, <1>3

(***************************************************************************)
(* The insertions.                                                         *)
(***************************************************************************)
Shape(t) == /\ IsTree(t)
            /\ DOMAIN t \subseteq Paths
            /\ \A p \in DOMAIN t : t[p] = "m" => Len(p) = 1

\* A tree grows by nodes that hang from it or from each other.
LEMMA Grow ==
    ASSUME NEW t, Shape(t), NEW ps, ps \subseteq Paths,
           \A p \in ps : p # <<>> => Parent(p) \in DOMAIN t \cup ps,
           NEW u, DOMAIN u = DOMAIN t \cup ps, u[<<>>] = "s",
           \A p \in DOMAIN u : u[p] \in Kinds /\ (u[p] = "m" => Len(p) = 1)
    PROVE  Shape(u)
<1>1. DOMAIN u \subseteq Paths
  BY DEF Shape
<1>2. \A p \in DOMAIN u : p \in Seq(Quads)
  BY <1>1, PathsAreSequences
<1>3. \A p \in DOMAIN u \ {<<>>} : Above(p, Len(p) - 1) \in DOMAIN u
  BY DEF Shape, IsTree, Parent
<1> QED
  BY <1>1, <1>2, <1>3 DEF Shape, IsTree

\* Nodes inserted together with their parents keep the tree a tree.
LEMMA AddShape ==
    ASSUME NEW t, Shape(t), \A p \in DOMAIN t : t[p] = "s",
           NEW ps, ps \subseteq Paths,
           \A p \in ps : p # <<>> => Parent(p) \in DOMAIN t \cup ps
    PROVE  Shape(Add(t, ps)) /\ \A p \in DOMAIN Add(t, ps) : Add(t, ps)[p] = "s"
<1>1. /\ DOMAIN Add(t, ps) = DOMAIN t \cup ps
      /\ \A p \in DOMAIN Add(t, ps) : Add(t, ps)[p] = "s"
  BY DEF Add
<1>2. <<>> \in DOMAIN t
  BY DEF Shape, IsTree
<1>3. \A p \in DOMAIN Add(t, ps) : Add(t, ps)[p] \in Kinds /\ Add(t, ps)[p] # "m"
  BY <1>1 DEF Kinds
<1> QED
  BY <1>1, <1>2, <1>3, Grow

\* Inserting a point keeps the tree a tree of simple nodes.
LEMMA PointShape ==
    ASSUME NEW t, Shape(t), \A p \in DOMAIN t : t[p] = "s", NEW pt
    PROVE  /\ Shape(InsertPointObject(t, pt))
           /\ \A p \in DOMAIN InsertPointObject(t, pt) : InsertPointObject(t, pt)[p] = "s"
BY OnTheWayProperties, AddShape DEF InsertPointObject

\* Inserting a line keeps the tree a tree of simple nodes.
LEMMA LineShape ==
    ASSUME NEW t, Shape(t), \A p \in DOMAIN t : t[p] = "s", NEW pts
    PROVE  /\ Shape(InsertLine(t, pts))
           /\ \A p \in DOMAIN InsertLine(t, pts) : InsertLine(t, pts)[p] = "s"
<1> DEFINE r == MBR(Range(pts))
           m == MBNode(r)
           reached == UNION {Reached(m, s) : s \in Segments(pts)}
           ps == OnTheWay(r) \cup reached
<1>1. /\ OnTheWay(r) \subseteq Paths /\ m \in OnTheWay(r)
      /\ \A p \in OnTheWay(r) \ {<<>>} : Parent(p) \in OnTheWay(r)
  BY OnTheWayProperties, MBNodeProperties
<1>2. InsertLine(t, pts) = Add(t, ps)
  BY DEF InsertLine
<1> HIDE DEF r, m
<1>3. /\ reached \subseteq Paths
      /\ \A p \in reached \ {m} : p # <<>> /\ Parent(p) \in reached
  BY <1>1, ReachedProperties
<1> HIDE DEF reached
<1>4. ps \subseteq Paths /\ \A p \in ps : p # <<>> => Parent(p) \in ps
  BY <1>1, <1>3
<1> HIDE DEF ps
<1> QED
  BY <1>2, <1>4, AddShape

\* The way to a ring's node keeps the tree a tree, with that node in it.
LEMMA MBNodePolygonShape ==
    ASSUME NEW t, Shape(t), NEW r
    PROVE  Shape(BuildMBNodePolygon(t, r)) /\ MBNode(r) \in DOMAIN BuildMBNodePolygon(t, r)
<1> DEFINE u == BuildMBNodePolygon(t, r)
<1>1. /\ OnTheWay(r) \subseteq Paths /\ MBNode(r) \in OnTheWay(r)
      /\ \A p \in OnTheWay(r) \ {<<>>} : Parent(p) \in OnTheWay(r)
  BY OnTheWayProperties, MBNodeProperties
<1>2. DOMAIN u = DOMAIN t \cup OnTheWay(r)
  BY DEF BuildMBNodePolygon
<1>3. <<>> \in DOMAIN t /\ t[<<>>] = "s" /\ \A p \in DOMAIN t : t[p] \in Kinds
  BY DEF Shape, IsTree
<1>4. u[<<>>] = "s"
  BY <1>3 DEF BuildMBNodePolygon
<1>5. ASSUME NEW p \in DOMAIN u PROVE u[p] \in Kinds /\ (u[p] = "m" => Len(p) = 1)
  <2>1. CASE p \in DOMAIN t
    <3>1. u[p] = t[p]
      BY <2>1 DEF BuildMBNodePolygon
    <3> QED
      BY <1>3, <2>1, <3>1 DEF Shape
  <2>2. CASE p \notin DOMAIN t
    <3>1. p \in OnTheWay(r)
      BY <1>2, <2>2
    <3>2. CASE Len(p) = 1
      BY <2>2, <3>1, <3>2 DEF BuildMBNodePolygon, Kinds
    <3>3. CASE Len(p) # 1
      BY <2>2, <3>1, <3>3 DEF BuildMBNodePolygon, Kinds
    <3> QED
      BY <3>2, <3>3
  <2> QED
    BY <2>1, <2>2
<1> HIDE DEF u
<1>6. \A p \in OnTheWay(r) : p # <<>> => Parent(p) \in DOMAIN t \cup OnTheWay(r)
  BY <1>1
<1>7. Shape(u)
  BY <1>1, <1>2, <1>4, <1>5, <1>6, Grow
<1> QED
  BY <1>1, <1>2, <1>7 DEF u

\* The segments of a ring, inserted below a node of the tree, keep it a
\* tree.
LEMMA SegmentsShape ==
    ASSUME NEW t, Shape(t), NEW m, m \in DOMAIN t, NEW ring
    PROVE  Shape(InsertSegments(t, m, ring)) /\ m \in DOMAIN InsertSegments(t, m, ring)
<1> DEFINE reached == UNION {Reached(m, s) : s \in Segments(ring)}
           below == reached \ {m}
           u == InsertSegments(t, m, ring)
<1>1. m \in Paths
  BY DEF Shape
<1>2. reached \subseteq Paths /\ \A p \in below : p # <<>> /\ Parent(p) \in reached
  BY <1>1, ReachedProperties
<1>3. u = [p \in DOMAIN t \cup below |->
              IF p \in below /\ (p \notin DOMAIN t \/ t[p] = "m") THEN "s" ELSE t[p]]
  BY DEF InsertSegments
<1> HIDE DEF reached, u
<1>4. /\ <<>> \in DOMAIN t /\ t[<<>>] = "s"
      /\ \A p \in DOMAIN t : t[p] \in Kinds /\ (t[p] = "m" => Len(p) = 1)
  BY DEF Shape, IsTree
<1>5. below \subseteq Paths /\ \A p \in below : p # <<>> => Parent(p) \in DOMAIN t \cup below
  BY <1>2
<1> HIDE DEF below
<1>6. DOMAIN u = DOMAIN t \cup below /\ u[<<>>] = "s"
  BY <1>3, <1>4
<1>7. \A p \in DOMAIN u : u[p] \in Kinds /\ (u[p] = "m" => Len(p) = 1)
  BY <1>3, <1>4, <1>6 DEF Kinds
<1>8. Shape(u)
  BY <1>5, <1>6, <1>7, Grow
<1> QED
  BY <1>6, <1>8 DEF u

\* The interior nodes of a ring keep the tree a tree.
LEMMA PolygonBoxShape ==
    ASSUME NEW t, Shape(t), NEW m, NEW ring
    PROVE  Shape(InsertPolygonBox(t, m, ring))
<1> DEFINE new == Interior(t, m, ring)
           u == InsertPolygonBox(t, m, ring)
<1>1. u = [p \in DOMAIN t \cup new |-> IF p \in new THEN "b" ELSE t[p]]
  BY DEF InsertPolygonBox
<1>2. ASSUME NEW c \in new PROVE c \in Paths /\ c # <<>> /\ Parent(c) \in DOMAIN t
  <2>1. PICK p \in DOMAIN t, q \in Quads : p \in Inner /\ c = Child(p, q)
    BY DEF Interior, BoxVisits
  <2> QED
    BY <2>1, ChildProperties
<1> HIDE DEF new, u
<1>3. /\ <<>> \in DOMAIN t /\ t[<<>>] = "s"
      /\ \A p \in DOMAIN t : t[p] \in Kinds /\ (t[p] = "m" => Len(p) = 1)
  BY DEF Shape, IsTree
<1>4. DOMAIN u = DOMAIN t \cup new /\ u[<<>>] = "s"
  BY <1>1, <1>2, <1>3
<1>5. \A p \in DOMAIN u : u[p] \in Kinds /\ (u[p] = "m" => Len(p) = 1)
  BY <1>1, <1>3, <1>4 DEF Kinds
<1>6. new \subseteq Paths /\ \A p \in new : p # <<>> => Parent(p) \in DOMAIN t \cup new
  BY <1>2
<1> QED
  BY <1>4, <1>5, <1>6, Grow DEF u

\* Inserting a ring keeps the tree a tree.
LEMMA RingShape ==
    ASSUME NEW t, Shape(t), NEW ring
    PROVE  Shape(InsertRing(t, ring))
<1> DEFINE r == MBR(Range(ring))
           m == MBNode(r)
           t1 == BuildMBNodePolygon(t, r)
           t2 == InsertSegments(t1, m, ring)
<1>1. InsertRing(t, ring) = InsertPolygonBox(t2, m, ring)
  BY DEF InsertRing
<1> HIDE DEF r
<1>2. Shape(t1) /\ m \in DOMAIN t1
  BY MBNodePolygonShape
<1> HIDE DEF m, t1
<1>3. Shape(t2)
  BY <1>2, SegmentsShape
<1> HIDE DEF t2
<1> QED
  BY <1>1, <1>3, PolygonBoxShape

(***************************************************************************)
(* The build.                                                              *)
(***************************************************************************)
LEMMA InitShape == Init => TypeOK
<1> SUFFICES ASSUME Init PROVE TypeOK
  OBVIOUS
<1>1. tree = [p \in {<<>>} |-> "s"]
  BY DEF Init
<1>2. DOMAIN tree = {<<>>} /\ tree[<<>>] = "s"
  BY <1>1, Zenon
<1>3. IsTree(tree)
  BY <1>2, RootIsPath DEF IsTree, Kinds
<1> QED
  BY <1>2, <1>3, RootIsPath DEF Init, TypeOK

\* Every step keeps the types.
LEMMA NextShape == TypeOK /\ [Next]_vars => TypeOK'
<1> SUFFICES ASSUME TypeOK, [Next]_vars PROVE TypeOK'
  OBVIOUS
<1>1. Shape(tree) /\ (feature_type # "polygon" => \A p \in DOMAIN tree : tree[p] = "s")
  BY DEF TypeOK, Shape
<1>2. ASSUME NEW pt \in Points, BuildPoint(pt) PROVE TypeOK'
  <2>1. Shape(tree') /\ \A p \in DOMAIN tree' : tree'[p] = "s"
    BY <1>1, <1>2, PointShape DEF BuildPoint
  <2> QED
    BY <1>2, <2>1 DEF BuildPoint, TypeOK, Shape
<1>3. ASSUME NEW pts \in Lines, BuildLine(pts) PROVE TypeOK'
  <2>1. Shape(tree') /\ \A p \in DOMAIN tree' : tree'[p] = "s"
    BY <1>1, <1>3, LineShape DEF BuildLine
  <2> QED
    BY <1>3, <2>1 DEF BuildLine, TypeOK, Shape
<1>4. ASSUME NEW ring \in Rings, BuildRing(ring) PROVE TypeOK'
  <2>1. Shape(tree')
    BY <1>1, <1>4, RingShape DEF BuildRing
  <2> QED
    BY <1>4, <2>1 DEF BuildRing, TypeOK, Shape
<1>5. CASE UNCHANGED vars
  BY <1>5 DEF vars, TypeOK
<1> QED
  BY <1>2, <1>3, <1>4, <1>5 DEF Next

\* Whatever is inserted, in whatever order, the nodes hang together as the two
\* halves of the index file need it (VPQTreeNode.cpp:158-544,
\* VPQTreeNodeS.cpp:38-189).
THEOREM ShapeCorrect == Spec => []TypeOK
<1> QED
  BY InitShape, NextShape, PTL DEF Spec
=============================================================================
