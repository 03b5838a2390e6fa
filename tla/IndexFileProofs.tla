-------------------------- MODULE IndexFileProofs --------------------------
(***************************************************************************)
(* What holds of the index file for every set of trees and readers.        *)
(***************************************************************************)
EXTENDS IndexFile, FiniteSetTheorems, WellFoundedInduction, SequenceTheorems, TLAPS

(***************************************************************************)
(* Sequences.                                                              *)
(***************************************************************************)
\* The first n records of a file and one more are its first n + 1 records.
LEMMA PrefixGrows ==
    ASSUME NEW S, NEW s \in Seq(S), NEW n \in 0..Len(s), n < Len(s)
    PROVE  /\ SubSeq(s, 1, n) # s
           /\ Append(SubSeq(s, 1, n), s[n + 1]) = SubSeq(s, 1, n + 1)
<1>1. Len(s) \in Nat /\ \A i \in 1..Len(s) : s[i] \in S
  BY LenProperties, ElementOfSeq
<1>2. /\ SubSeq(s, 1, n) \in Seq(S) /\ Len(SubSeq(s, 1, n)) = n
      /\ \A i \in 1..n : SubSeq(s, 1, n)[i] = s[i]
  BY <1>1, SubSeqProperties
<1>3. /\ SubSeq(s, 1, n + 1) \in Seq(S) /\ Len(SubSeq(s, 1, n + 1)) = n + 1
      /\ \A i \in 1..n + 1 : SubSeq(s, 1, n + 1)[i] = s[i]
  BY <1>1, SubSeqProperties
<1>4. /\ Append(SubSeq(s, 1, n), s[n + 1]) \in Seq(S)
      /\ Len(Append(SubSeq(s, 1, n), s[n + 1])) = n + 1
      /\ \A i \in 1..n : Append(SubSeq(s, 1, n), s[n + 1])[i] = s[i]
      /\ Append(SubSeq(s, 1, n), s[n + 1])[n + 1] = s[n + 1]
  BY <1>1, <1>2, AppendProperties
<1>5. \A i \in 1..n + 1 : Append(SubSeq(s, 1, n), s[n + 1])[i] = SubSeq(s, 1, n + 1)[i]
  BY <1>3, <1>4
<1> QED
  BY <1>1, <1>2, <1>3, <1>4, <1>5, SeqEqual

\* Above an end of p, and below it.
LEMMA AboveType ==
    ASSUME NEW p \in Seq(Quads), NEW n \in 0..Len(p)
    PROVE  Above(p, n) \in Seq(Quads) /\ Len(Above(p, n)) = n
<1>1. Len(p) \in Nat /\ \A i \in 1..Len(p) : p[i] \in Quads
  BY LenProperties, ElementOfSeq
<1> QED
  BY <1>1, SubSeqProperties DEF Above

\* A node is the child of its parent in its last direction.
LEMMA BelowAbove ==
    ASSUME NEW p \in Seq(Quads), p # <<>>
    PROVE  /\ Len(p) \in Nat \ {0} /\ Last(p) \in Quads
           /\ Append(Above(p, Len(p) - 1), Last(p)) = p
<1>1. Len(p) \in Nat \ {0} /\ \A i \in 1..Len(p) : p[i] \in Quads
  BY EmptySeq, ElementOfSeq
<1>2. Last(p) = p[Len(p)] /\ Last(p) \in Quads
  BY <1>1 DEF Last
<1>3. /\ Above(p, Len(p) - 1) \in Seq(Quads) /\ Len(Above(p, Len(p) - 1)) = Len(p) - 1
      /\ \A i \in 1..Len(p) - 1 : Above(p, Len(p) - 1)[i] = p[i]
  <2> DEFINE n == Len(p) - 1
  <2>1. n \in Nat /\ \A i \in 1..n : p[i] \in Quads
    BY <1>1
  <2> HIDE DEF n
  <2>2. SubSeq(p, 1, n) \in Seq(Quads) /\ Len(SubSeq(p, 1, n)) = n
        /\ \A i \in 1..n : SubSeq(p, 1, n)[i] = p[i]
    BY <2>1, SubSeqProperties
  <2> QED
    BY <2>2 DEF Above, n
<1>4. /\ Append(Above(p, Len(p) - 1), Last(p)) \in Seq(Quads)
      /\ Len(Append(Above(p, Len(p) - 1), Last(p))) = Len(p)
      /\ \A i \in 1..Len(p) : Append(Above(p, Len(p) - 1), Last(p))[i] = p[i]
  BY <1>1, <1>2, <1>3, AppendProperties
<1> QED
  BY <1>1, <1>2, <1>4, SeqEqual

(***************************************************************************)
(* The order of a tree: Preorder is defined by recursion over the tree,    *)
(* and what it comes to is proved by induction from its leaves up.         *)
(***************************************************************************)
\* A bounded set of numbers has a greatest one.
LEMMA HasGreatest ==
    ASSUME NEW N \in Nat, NEW S, S \subseteq 0..N, S # {}
    PROVE  \E k \in S : \A j \in S : j <= k
<1> DEFINE After(k) == {j \in 0..N : j > k}
           T == {After(k) : k \in S}
<1>1. T \subseteq SUBSET (0..N) /\ T # {}
  OBVIOUS
<1>2. IsWellFoundedOn(StrictSubsetOrdering(0..N), SUBSET (0..N))
  <2>1. IsFiniteSet(0..N)
    BY FS_Interval
  <2>2. FiniteSubsetsOf(0..N) = SUBSET (0..N)
    BY <2>1, FS_FiniteSubsetsOfFinite, Zenon
  <2>3. IsWellFoundedOn(StrictSubsetOrdering(0..N), FiniteSubsetsOf(0..N))
    BY FS_StrictSubsetOrderingWellFounded, Zenon
  <2> QED
    BY <2>2, <2>3, Zenon
<1>3. PICK t \in T : \A u \in T : ~(<<u, t>> \in StrictSubsetOrdering(0..N))
  BY <1>1, <1>2, WFMin
<1>4. PICK k \in S : t = After(k)
  OBVIOUS
<1>5. ASSUME NEW j \in S, k < j PROVE FALSE
  <2>1. After(j) \subseteq After(k) /\ j \in After(k) /\ j \notin After(j)
    BY <1>5
  <2>2. <<After(j), After(k)>> \in StrictSubsetOrdering(0..N)
    BY <2>1 DEF StrictSubsetOrdering
  <2> QED
    BY <1>3, <1>4, <2>2
<1> QED
  BY <1>5

\* What holds of 0, and of n + 1 if of n, holds up to N.
LEMMA UpTo ==
    ASSUME NEW N \in Nat, NEW S, 0 \in S, \A n \in 0..N - 1 : n \in S => n + 1 \in S
    PROVE  0..N \subseteq S
<1> DEFINE T == {k \in 0..N : N - k \notin S}
<1>1. SUFFICES ASSUME T # {} PROVE FALSE
  <2>1. ASSUME NEW n \in 0..N PROVE n \in S
    <3>1. N - n \in 0..N /\ N - (N - n) = n
      OBVIOUS
    <3> QED
      BY <1>1, <3>1
  <2> QED
    BY <2>1
<1>2. T \subseteq 0..N
  OBVIOUS
<1>3. PICK k \in T : \A j \in T : j <= k
  <2> HIDE DEF T
  <2> QED
    BY <1>1, <1>2, HasGreatest
<1>4. k \in 0..N /\ N - k \notin S
  BY <1>3
<1>5. N - k # 0 /\ N - k \in 0..N
  BY <1>4
<1>6. k + 1 \in 0..N /\ k + 1 \notin T
  BY <1>3, <1>4, <1>5
<1>7. N - (k + 1) \in S
  BY <1>6
<1>8. N - (k + 1) \in 0..N - 1 /\ (N - (k + 1)) + 1 = N - k
  BY <1>4, <1>5
<1> QED
  BY <1>4, <1>7, <1>8

\* A prefix, element by element.
LEMMA PrefixIs ==
    ASSUME NEW a \in Seq(Quads), NEW b \in Seq(Quads)
    PROVE  /\ Len(a) \in Nat /\ Len(b) \in Nat
           /\ IsPrefix(a, b) <=> Len(a) <= Len(b) /\ \A i \in 1..Len(a) : a[i] = b[i]
<1>1. /\ Len(a) \in Nat /\ Len(b) \in Nat
      /\ \A i \in 1..Len(a) : a[i] \in Quads
      /\ \A i \in 1..Len(b) : b[i] \in Quads
  BY LenProperties, ElementOfSeq
<1>2. /\ SubSeq(a, 1, Len(a)) \in Seq(Quads) /\ Len(SubSeq(a, 1, Len(a))) = Len(a)
      /\ \A i \in 1..Len(a) : SubSeq(a, 1, Len(a))[i] = a[i]
  BY <1>1, SubSeqProperties
<1>3. ASSUME Len(a) <= Len(b)
      PROVE  /\ SubSeq(b, 1, Len(a)) \in Seq(Quads) /\ Len(SubSeq(b, 1, Len(a))) = Len(a)
             /\ \A i \in 1..Len(a) : SubSeq(b, 1, Len(a))[i] = b[i]
  BY <1>1, <1>3, SubSeqProperties
<1>4. ASSUME Len(a) <= Len(b), \A i \in 1..Len(a) : a[i] = b[i]
      PROVE  SubSeq(a, 1, Len(a)) = SubSeq(b, 1, Len(a))
  <2>1. \A i \in 1..Len(SubSeq(a, 1, Len(a))) : SubSeq(a, 1, Len(a))[i] = SubSeq(b, 1, Len(a))[i]
    BY <1>2, <1>3, <1>4
  <2> QED
    BY <1>2, <1>3, <1>4, <2>1, SeqEqual
<1>5. ASSUME Len(a) <= Len(b), SubSeq(a, 1, Len(a)) = SubSeq(b, 1, Len(a))
      PROVE  \A i \in 1..Len(a) : a[i] = b[i]
  BY <1>2, <1>3, <1>5
<1> QED
  BY <1>1, <1>4, <1>5 DEF IsPrefix

\* Everything is below the root.
LEMMA EmptyPrefix == \A u \in Seq(Quads) : IsPrefix(<<>>, u)
<1> TAKE u \in Seq(Quads)
<1>1. Len(<<>>) = 0 /\ Len(u) \in Nat
  BY EmptySeq, LenProperties
<1>2. SubSeq(<<>>, 1, 0) = <<>> /\ SubSeq(u, 1, 0) = <<>>
  BY SubSeqEmpty
<1> QED
  BY <1>1, <1>2 DEF IsPrefix

\* What a node's ancestors and children are, element by element.
LEMMA PathElements ==
    ASSUME NEW p \in Seq(Quads)
    PROVE  /\ Len(p) \in Nat
           /\ \A n \in 0..Len(p) : /\ Above(p, n) \in Seq(Quads) /\ Len(Above(p, n)) = n
                                   /\ \A i \in 1..n : Above(p, n)[i] = p[i]
           /\ \A q \in Quads : /\ Append(p, q) \in Seq(Quads) /\ Append(p, q) # <<>>
                               /\ Len(Append(p, q)) = Len(p) + 1
                               /\ \A i \in 1..Len(p) : Append(p, q)[i] = p[i]
                               /\ Append(p, q)[Len(p) + 1] = q
                               /\ Above(Append(p, q), Len(Append(p, q)) - 1) = p
<1>1. Len(p) \in Nat /\ \A i \in 1..Len(p) : p[i] \in Quads
  BY LenProperties, ElementOfSeq
<1>2. ASSUME NEW r \in Seq(Quads), NEW n \in 0..Len(r)
      PROVE  /\ Above(r, n) \in Seq(Quads) /\ Len(Above(r, n)) = n
             /\ \A i \in 1..n : Above(r, n)[i] = r[i]
  <2>1. Len(r) \in Nat /\ \A i \in 1..n : r[i] \in Quads
    BY LenProperties, ElementOfSeq
  <2>2. n \in Int
    BY <2>1
  <2> QED
    BY <2>1, <2>2, SubSeqProperties DEF Above
<1>3. ASSUME NEW q \in Quads
      PROVE  /\ Append(p, q) \in Seq(Quads) /\ Append(p, q) # <<>>
             /\ Len(Append(p, q)) = Len(p) + 1
             /\ \A i \in 1..Len(p) : Append(p, q)[i] = p[i]
             /\ Append(p, q)[Len(p) + 1] = q
  BY AppendProperties
<1>4. ASSUME NEW q \in Quads PROVE Above(Append(p, q), Len(Append(p, q)) - 1) = p
  <2> DEFINE c == Append(p, q)
  <2>1. c \in Seq(Quads) /\ Len(c) = Len(p) + 1 /\ \A i \in 1..Len(p) : c[i] = p[i]
    BY <1>3
  <2>2. Len(c) - 1 = Len(p) /\ Len(p) \in 0..Len(c)
    BY <1>1, <2>1
  <2> HIDE DEF c
  <2>3. /\ Above(c, Len(p)) \in Seq(Quads) /\ Len(Above(c, Len(p))) = Len(p)
        /\ \A i \in 1..Len(p) : Above(c, Len(p))[i] = c[i]
    BY <1>2, <2>1, <2>2
  <2>4. Above(c, Len(p)) = p
    <3>1. \A i \in 1..Len(Above(c, Len(p))) : Above(c, Len(p))[i] = p[i]
      BY <2>1, <2>3
    <3> QED
      BY <2>3, <3>1, SeqEqual
  <2> QED
    BY <2>2, <2>4 DEF c
<1> QED
  BY <1>1, <1>2, <1>3, <1>4

\* A tree has all the ancestors of its nodes.
LEMMA Ancestors ==
    ASSUME NEW t, IsTree(t), NEW p \in DOMAIN t, NEW n \in 0..Len(p)
    PROVE  Above(p, n) \in DOMAIN t
<1> DEFINE S == {k \in 0..Len(p) : Above(p, Len(p) - k) \in DOMAIN t}
<1>1. p \in Seq(Quads) /\ Len(p) \in Nat
  BY LenProperties DEF IsTree
<1>2. 0 \in S
  <2>1. Above(p, Len(p)) \in Seq(Quads) /\ Len(Above(p, Len(p))) = Len(p)
        /\ \A i \in 1..Len(p) : Above(p, Len(p))[i] = p[i]
    BY <1>1, PathElements
  <2>2. Above(p, Len(p)) = p
    BY <1>1, <2>1, SeqEqual
  <2> QED
    BY <1>1, <2>2
<1>3. ASSUME NEW k \in 0..Len(p) - 1, k \in S PROVE k + 1 \in S
  <2> DEFINE m == Len(p) - k
             a == Above(p, m)
  <2>1. m \in 0..Len(p) /\ m # 0 /\ m - 1 \in 0..Len(p) /\ m - 1 \in 0..m /\ m - 1 = Len(p) - (k + 1)
    BY <1>1
  <2> HIDE DEF m
  <2>2. a \in DOMAIN t
    BY <1>3 DEF m
  <2>3. a \in Seq(Quads) /\ Len(a) = m /\ \A i \in 1..m : a[i] = p[i]
    BY <1>1, <2>1, PathElements
  <2>4. a # <<>>
    BY <2>1, <2>3, EmptySeq
  <2> HIDE DEF a
  <2>5. Above(a, m - 1) \in DOMAIN t
    BY <2>2, <2>3, <2>4 DEF IsTree
  <2>6. /\ Above(a, m - 1) \in Seq(Quads) /\ Len(Above(a, m - 1)) = m - 1
        /\ \A i \in 1..m - 1 : Above(a, m - 1)[i] = a[i]
    BY <2>1, <2>3, PathElements
  <2>7. /\ Above(p, m - 1) \in Seq(Quads) /\ Len(Above(p, m - 1)) = m - 1
        /\ \A i \in 1..m - 1 : Above(p, m - 1)[i] = p[i]
    BY <1>1, <2>1, PathElements
  <2>8. Above(a, m - 1) = Above(p, m - 1)
    <3>1. \A i \in 1..Len(Above(a, m - 1)) : Above(a, m - 1)[i] = Above(p, m - 1)[i]
      BY <2>1, <2>3, <2>6, <2>7
    <3> QED
      BY <2>6, <2>7, <3>1, SeqEqual
  <2> QED
    BY <1>1, <2>1, <2>5, <2>8
<1> HIDE DEF S
<1>4. 0..Len(p) \subseteq S
  BY <1>1, <1>2, <1>3, UpTo
<1>5. Len(p) - n \in S /\ Len(p) - (Len(p) - n) = n
  BY <1>1, <1>4
<1> QED
  BY <1>5 DEF S

\* A finite tree has a greatest depth.
LEMMA Depth ==
    ASSUME NEW D, D \subseteq Seq(Quads), IsFiniteSet(D)
    PROVE  \E d \in Nat : \A p \in D : Len(p) <= d
<1>1. PICK n \in Nat : ExistsSurjection(1..n, D)
  BY FS_NatSurjection
<1>2. PICK f \in [1..n -> D] : \A p \in D : \E i \in 1..n : f[i] = p
  BY <1>1 DEF ExistsSurjection, Surjection
<1> DEFINE S == {k \in 0..n : \E d \in Nat : \A i \in 1..k : Len(f[i]) <= d}
<1>3. 0 \in S
  <2>1. \A i \in 1..0 : Len(f[i]) <= 0
    OBVIOUS
  <2> QED
    BY <2>1
<1>4. ASSUME NEW k \in 0..n - 1, k \in S PROVE k + 1 \in S
  <2>1. PICK d \in Nat : \A i \in 1..k : Len(f[i]) <= d
    BY <1>4
  <2>2. Len(f[k + 1]) \in Nat /\ \A i \in 1..k : Len(f[i]) \in Nat
    BY <1>2, LenProperties
  <2> DEFINE e == d + Len(f[k + 1])
  <2>3. e \in Nat /\ d <= e /\ Len(f[k + 1]) <= e
    BY <2>2
  <2>4. ASSUME NEW i \in 1..k + 1 PROVE Len(f[i]) <= e
    <3>1. CASE i = k + 1
      BY <2>3, <3>1
    <3>2. CASE i # k + 1
      <4>1. i \in 1..k
        BY <3>2
      <4>2. Len(f[i]) <= d /\ Len(f[i]) \in Nat
        BY <2>1, <2>2, <4>1
      <4> HIDE DEF e
      <4> QED
        BY <2>3, <4>2
    <3> QED
      BY <3>1, <3>2
  <2> HIDE DEF e
  <2> QED
    BY <2>3, <2>4
<1> HIDE DEF S
<1>5. n \in S
  <2>1. 0..n \subseteq S
    BY <1>3, <1>4, UpTo
  <2> QED
    BY <2>1
<1>6. PICK d \in Nat : \A i \in 1..n : Len(f[i]) <= d
  BY <1>5 DEF S
<1> QED
  BY <1>2, <1>6

(***************************************************************************)
(* Lists of the nodes of a part of a tree.                                 *)
(***************************************************************************)
Par(c) == Above(c, Len(c) - 1)

\* s lists the nodes in U, which are o or below it, o's children among the first: the
\* first is a child of o, the parent of any other is the node before it, or above that,
\* and no node comes after one below it.
Listing(s, U, o) ==
    /\ s \in Seq(U)
    /\ \A u \in U : \E i \in 1..Len(s) : s[i] = u
    /\ \A u \in U : IsPrefix(o, u)
    /\ Len(s) > 0 => Par(s[1]) = o
    /\ \A j \in 2..Len(s) : IsPrefix(Par(s[j]), s[j - 1])
    /\ \A j \in 1..Len(s) : \A i \in 1..j - 1 : ~IsPrefix(s[j], s[i])

\* The empty list.
LEMMA NoNodes == \A o : Listing(<<>>, {}, o)
  BY EmptySeq DEF Listing

\* The list of one node.
LEMMA OneNode ==
    ASSUME NEW p \in Seq(Quads), p # <<>>
    PROVE  Listing(<<p>>, {p}, Par(p)) /\ IsPrefix(Par(p), p)
<1>1. /\ Len(p) \in Nat \ {0} /\ Par(p) \in Seq(Quads) /\ Len(Par(p)) = Len(p) - 1
      /\ \A i \in 1..Len(p) - 1 : Par(p)[i] = p[i]
  <2>1. Len(p) \in Nat \ {0}
    BY EmptySeq
  <2>2. Len(p) - 1 \in 0..Len(p)
    BY <2>1
  <2> QED
    BY <2>1, <2>2, PathElements DEF Par
<1>2. IsPrefix(Par(p), p)
  BY <1>1, PrefixIs
<1>3. <<p>> \in Seq({p}) /\ Len(<<p>>) = 1 /\ <<p>>[1] = p
  OBVIOUS
<1> QED
  BY <1>2, <1>3 DEF Listing

\* Two lists, the second of nodes below a node that all of the first are below too.
LEMMA ListsJoin ==
    ASSUME NEW s, NEW U, NEW o \in Seq(Quads), Listing(s, U, o),
           NEW r, NEW W, NEW p \in Seq(Quads), Listing(r, W, p),
           U \subseteq Seq(Quads), W \subseteq Seq(Quads),
           \A u \in U : IsPrefix(p, u),
           IsPrefix(o, p), s = <<>> => o = p,
           \A u \in U, w \in W : ~IsPrefix(w, u)
    PROVE  Listing(s \o r, U \cup W, o)
<1> DEFINE c == s \o r
           m == Len(s)
           n == Len(r)
<1>1. /\ s \in Seq(U) /\ r \in Seq(W) /\ m \in Nat /\ n \in Nat
      /\ \A i \in 1..m : s[i] \in U
      /\ \A i \in 1..n : r[i] \in W
  BY LenProperties, ElementOfSeq DEF Listing
<1>2. s \in Seq(U \cup W) /\ r \in Seq(U \cup W)
  BY <1>1, SeqMonotonic
<1>3. /\ c \in Seq(U \cup W) /\ Len(c) = m + n
      /\ \A i \in 1..m + n : c[i] = IF i <= m THEN s[i] ELSE r[i - m]
  BY <1>2, ConcatProperties
<1>4. m = 0 => o = p
  BY <1>1, EmptySeq
<1> HIDE DEF c, m, n
<1>5. \A i \in 1..m : i \in 1..m + n /\ c[i] = s[i]
  BY <1>1, <1>3
<1>6. \A i \in 1..n : m + i \in 1..m + n /\ c[m + i] = r[i]
  <2> TAKE i \in 1..n
  <2> DEFINE k == m + i
  <2>1. k \in 1..m + n /\ ~(k <= m) /\ k - m = i
    BY <1>1
  <2> HIDE DEF k
  <2>2. c[k] = r[k - m]
    BY <1>3, <2>1
  <2>3. c[k] = r[i]
    BY <2>1, <2>2
  <2> QED
    BY <2>1, <2>3 DEF k
<1>7. \A j \in 1..m + n : j \in 1..m \/ \E i \in 1..n : j = m + i
  <2> TAKE j \in 1..m + n
  <2>1. CASE j <= m
    BY <1>1, <2>1
  <2>2. CASE ~(j <= m)
    <3>1. j - m \in 1..n /\ j = m + (j - m)
      BY <1>1, <2>2
    <3> QED
      BY <3>1
  <2> QED
    BY <2>1, <2>2
<1>8. \A u \in U \cup W : \E i \in 1..Len(c) : c[i] = u
  <2>1. ASSUME NEW u \in U PROVE \E i \in 1..Len(c) : c[i] = u
    <3>1. PICK i \in 1..m : s[i] = u
      BY DEF Listing, m
    <3> QED
      BY <1>3, <1>5, <3>1
  <2>2. ASSUME NEW u \in W PROVE \E i \in 1..Len(c) : c[i] = u
    <3>1. PICK i \in 1..n : r[i] = u
      BY DEF Listing, n
    <3> QED
      BY <1>3, <1>6, <3>1
  <2> QED
    BY <2>1, <2>2
<1>9. \A u \in U \cup W : IsPrefix(o, u)
  <2>1. \A u \in U : IsPrefix(o, u)
    BY DEF Listing
  <2>2. ASSUME NEW w \in W PROVE IsPrefix(o, w)
    <3>1. IsPrefix(p, w) /\ w \in Seq(Quads)
      BY DEF Listing
    <3> QED
      BY <3>1, PrefixIs
  <2> QED
    BY <2>1, <2>2
<1>10. Len(c) > 0 => Par(c[1]) = o
  <2> SUFFICES ASSUME Len(c) > 0 PROVE Par(c[1]) = o
    OBVIOUS
  <2>1. CASE m > 0
    <3>1. c[1] = s[1] /\ Par(s[1]) = o
      BY <1>1, <1>5, <2>1 DEF Listing, m
    <3> QED
      BY <3>1
  <2>2. CASE m = 0
    <3>1. n > 0 /\ m + 1 = 1
      BY <1>1, <1>3, <2>2
    <3>2. c[m + 1] = r[1] /\ Par(r[1]) = p
      BY <1>1, <1>6, <3>1 DEF Listing, n
    <3> QED
      BY <1>4, <2>2, <3>1, <3>2
  <2> QED
    BY <1>1, <2>1, <2>2
<1>11. \A j \in 2..Len(c) : IsPrefix(Par(c[j]), c[j - 1])
  <2> TAKE j \in 2..Len(c)
  <2>1. CASE j \in 1..m
    <3>1. j \in 2..m /\ j - 1 \in 1..m
      BY <1>1, <2>1
    <3>2. IsPrefix(Par(s[j]), s[j - 1])
      BY <3>1 DEF Listing, m
    <3> QED
      BY <1>5, <3>1, <3>2
  <2>2. ASSUME NEW i \in 1..n, j = m + i PROVE IsPrefix(Par(c[j]), c[j - 1])
    <3>1. CASE i = 1
      <4>1. m \in 1..m /\ j - 1 = m /\ n > 0
        BY <1>1, <2>2, <3>1
      <4>2. c[j] = r[1] /\ c[j - 1] = s[m] /\ s[m] \in U
        BY <1>1, <1>5, <1>6, <2>2, <3>1, <4>1
      <4>3. Par(r[1]) = p
        BY <4>1 DEF Listing, n
      <4> QED
        BY <4>2, <4>3
    <3>2. CASE i # 1
      <4>1. i \in 2..n /\ i - 1 \in 1..n /\ j - 1 = m + (i - 1)
        BY <1>1, <2>2, <3>2
      <4>2. IsPrefix(Par(r[i]), r[i - 1])
        BY <4>1 DEF Listing, n
      <4>3. c[j] = r[i] /\ c[j - 1] = r[i - 1]
        BY <1>6, <2>2, <4>1
      <4> QED
        BY <4>2, <4>3
    <3> QED
      BY <3>1, <3>2
  <2>3. j \in 1..m + n
    BY <1>1, <1>3
  <2> QED
    BY <1>7, <2>1, <2>2, <2>3
<1>12. \A j \in 1..Len(c) : \A k \in 1..j - 1 : ~IsPrefix(c[j], c[k])
  <2> TAKE j \in 1..Len(c)
  <2> TAKE k \in 1..j - 1
  <2>1. j \in 1..m + n /\ k \in 1..m + n /\ k < j
    BY <1>1, <1>3
  <2>2. CASE j \in 1..m
    <3>1. k \in 1..m /\ k \in 1..j - 1
      BY <1>1, <2>1, <2>2
    <3>2. ~IsPrefix(s[j], s[k])
      BY <2>2 DEF Listing, m
    <3> QED
      BY <1>5, <2>2, <3>1, <3>2
  <2>3. ASSUME NEW i \in 1..n, j = m + i PROVE ~IsPrefix(c[j], c[k])
    <3>1. CASE k \in 1..m
      BY <1>1, <1>5, <1>6, <2>3, <3>1
    <3>2. ASSUME NEW l \in 1..n, k = m + l PROVE ~IsPrefix(c[j], c[k])
      <4>1. l \in 1..i - 1
        BY <1>1, <2>1, <2>3, <3>2
      <4>2. ~IsPrefix(r[i], r[l])
        BY <4>1 DEF Listing, n
      <4> QED
        BY <1>6, <2>3, <3>2, <4>2
    <3> QED
      BY <1>7, <2>1, <3>1, <3>2
  <2> QED
    BY <1>7, <2>1, <2>2, <2>3
<1> QED
  BY <1>3, <1>8, <1>9, <1>10, <1>11, <1>12 DEF Listing, c

(***************************************************************************)
(* The recursion of saveToFile.                                            *)
(***************************************************************************)
Deep(t, d, n) == {p \in DOMAIN t : Len(p) + n > d}

\* A visit asks for nothing but the children's.
LEMMA VisitOfChildren ==
    ASSUME NEW t, NEW f, NEW g, NEW p,
           \A q \in Quads : Append(p, q) \in DOMAIN t => f[Append(p, q)] = g[Append(p, q)]
    PROVE  Visit(t, f, p) = Visit(t, g, p)
<1> DEFINE child(h, q) == IF Append(p, q) \in DOMAIN t THEN h[Append(p, q)] ELSE <<>>
<1>1. \A q \in Quads : child(f, q) = child(g, q)
  OBVIOUS
<1>2. 1 \in Quads /\ 2 \in Quads /\ 3 \in Quads /\ 4 \in Quads
  BY DEF Quads
<1>3. /\ child(f, 1) = child(g, 1) /\ child(f, 2) = child(g, 2)
      /\ child(f, 3) = child(g, 3) /\ child(f, 4) = child(g, 4)
  <2> HIDE DEF child
  <2> QED
    BY <1>1, <1>2
<1>4. ASSUME NEW h
      PROVE  Visit(t, h, p) = (IF p = <<>> THEN <<>> ELSE <<p>>)
                                \o child(h, 1) \o child(h, 2) \o child(h, 3) \o child(h, 4)
  BY DEF Visit
<1> HIDE DEF child
<1>5. /\ Visit(t, f, p) = (IF p = <<>> THEN <<>> ELSE <<p>>)
                            \o child(f, 1) \o child(f, 2) \o child(f, 3) \o child(f, 4)
      /\ Visit(t, g, p) = (IF p = <<>> THEN <<>> ELSE <<p>>)
                            \o child(g, 1) \o child(g, 2) \o child(g, 3) \o child(g, 4)
  BY <1>4
<1> QED
  BY <1>3, <1>5

\* The function that Preorder is defined with exists.
LEMMA VisitExists ==
    ASSUME NEW t, IsTree(t), IsFiniteSet(DOMAIN t)
    PROVE  \E f : /\ f = [p \in DOMAIN t |-> Visit(t, f, p)]
                  /\ Preorder(t) = f[<<>>]
<1> DEFINE Is(f, D) == f = [p \in D |-> f[p]] /\ \A p \in D : f[p] = Visit(t, f, p)
<1>1. \A p \in DOMAIN t : p \in Seq(Quads) /\ Len(p) \in Nat
  BY LenProperties DEF IsTree
<1>2. PICK d \in Nat : \A p \in DOMAIN t : Len(p) <= d
  <2>1. DOMAIN t \subseteq Seq(Quads)
    BY <1>1
  <2> QED
    BY <2>1, Depth
<1> DEFINE S == {n \in 0..d + 1 : \E f : Is(f, Deep(t, d, n))}
<1>3. 0 \in S
  <2> DEFINE f == [p \in {} |-> <<>>]
  <2>1. Deep(t, d, 0) = {}
    BY <1>1, <1>2 DEF Deep
  <2>2. f = [p \in {} |-> f[p]]
    OBVIOUS
  <2> HIDE DEF f
  <2>3. Is(f, {})
    BY <2>2
  <2> HIDE DEF Is
  <2> QED
    BY <2>1, <2>3
<1>4. ASSUME NEW n \in 0..(d + 1) - 1, n \in S PROVE n + 1 \in S
  <2> DEFINE D == Deep(t, d, n)
             E == Deep(t, d, n + 1)
  <2>1. PICK f : Is(f, D)
    BY <1>4
  <2> DEFINE g == [p \in E |-> IF p \in D THEN f[p] ELSE Visit(t, f, p)]
  <2>2. D \subseteq E /\ E \subseteq DOMAIN t
    BY <1>1 DEF Deep
  <2>3. ASSUME NEW p \in E, NEW q \in Quads, Append(p, q) \in DOMAIN t
        PROVE  Append(p, q) \in D
    <3>1. Len(Append(p, q)) = Len(p) + 1 /\ Len(p) \in Nat /\ Len(p) + (n + 1) > d
      BY <1>1, <2>2, PathElements DEF Deep
    <3> QED
      BY <2>3, <3>1 DEF Deep
  <2>4. \A p \in D : g[p] = f[p]
    BY <2>2
  <2>5. \A p \in E : p \notin D => g[p] = Visit(t, f, p)
    OBVIOUS
  <2>6. g = [p \in E |-> g[p]]
    OBVIOUS
  <2> HIDE DEF g, D, E
  <2>7. ASSUME NEW p \in E PROVE g[p] = Visit(t, g, p)
    <3>1. \A q \in Quads : Append(p, q) \in DOMAIN t => g[Append(p, q)] = f[Append(p, q)]
      BY <2>3, <2>4
    <3>2. Visit(t, g, p) = Visit(t, f, p)
      BY <3>1, VisitOfChildren
    <3>3. p \in D => f[p] = Visit(t, f, p)
      BY <2>1
    <3> QED
      BY <2>4, <2>5, <3>2, <3>3
  <2>8. Is(g, E)
    BY <2>6, <2>7, Zenon
  <2> HIDE DEF Is
  <2>9. \E h : Is(h, Deep(t, d, n + 1))
    BY <2>8 DEF E
  <2> QED
    BY <1>2, <2>9
<1> HIDE DEF S
<1>5. d + 1 \in S
  <2>1. 0..d + 1 \subseteq S
    BY <1>2, <1>3, <1>4, UpTo
  <2> QED
    BY <1>2, <2>1
<1>6. Deep(t, d, d + 1) = DOMAIN t
  <2>1. ASSUME NEW p \in DOMAIN t PROVE Len(p) + (d + 1) > d
    BY <1>1
  <2> QED
    BY <2>1, Zenon DEF Deep
<1>7. PICK f : Is(f, DOMAIN t)
  <2> HIDE DEF Is
  <2> QED
    BY <1>5, <1>6 DEF S
<1>8. f = [p \in DOMAIN t |-> Visit(t, f, p)]
  BY <1>7, Zenon
<1> DEFINE v == CHOOSE w : w = [p \in DOMAIN t |-> Visit(t, w, p)]
<1>9. v = [p \in DOMAIN t |-> Visit(t, v, p)]
  BY <1>8, Zenon
<1>10. Preorder(t) = v[<<>>]
  BY Zenon DEF Preorder
<1> HIDE DEF v
<1> QED
  BY <1>9, <1>10

(***************************************************************************)
(* What a visit lists.                                                     *)
(***************************************************************************)
Below(t, p) == {u \in DOMAIN t : IsPrefix(p, u)}
Own(p) == IF p = <<>> THEN {} ELSE {p}
From(p) == IF p = <<>> THEN <<>> ELSE Par(p)
BelowChild(t, p, q) == IF Append(p, q) \in DOMAIN t THEN Below(t, Append(p, q)) ELSE {}

\* Where the nodes below a child are.
LEMMA ChildNodes ==
    ASSUME NEW t, IsTree(t), NEW p \in DOMAIN t, NEW q \in Quads, NEW u \in BelowChild(t, p, q)
    PROVE  /\ u \in DOMAIN t /\ u \in Seq(Quads) /\ Len(u) \in Nat /\ Len(p) \in Nat
           /\ Len(u) > Len(p) /\ u[Len(p) + 1] = q
           /\ \A i \in 1..Len(p) : u[i] = p[i]
           /\ IsPrefix(p, u) /\ u # p
<1> DEFINE c == Append(p, q)
<1>1. p \in Seq(Quads) /\ u \in DOMAIN t /\ u \in Seq(Quads) /\ IsPrefix(c, u)
  BY DEF BelowChild, Below, IsTree
<1>2. /\ Len(p) \in Nat /\ c \in Seq(Quads) /\ Len(c) = Len(p) + 1
      /\ \A i \in 1..Len(p) : c[i] = p[i]
      /\ c[Len(p) + 1] = q
  BY <1>1, PathElements
<1> HIDE DEF c
<1>3. Len(u) \in Nat /\ Len(c) <= Len(u) /\ \A i \in 1..Len(c) : c[i] = u[i]
  BY <1>1, <1>2, PrefixIs
<1>4. Len(u) > Len(p) /\ u[Len(p) + 1] = q /\ \A i \in 1..Len(p) : u[i] = p[i]
  BY <1>2, <1>3
<1>5. IsPrefix(p, u)
  BY <1>1, <1>2, <1>3, <1>4, PrefixIs
<1> QED
  BY <1>1, <1>2, <1>3, <1>4, <1>5

\* The nodes below different children are not below each other, and p is below none.
LEMMA ChildrenApart ==
    ASSUME NEW t, IsTree(t), NEW p \in DOMAIN t, NEW q \in Quads, NEW w \in BelowChild(t, p, q)
    PROVE  /\ \A u \in Own(p) : ~IsPrefix(w, u)
           /\ \A k \in Quads \ {q} : \A u \in BelowChild(t, p, k) : ~IsPrefix(w, u)
<1>1. /\ p \in Seq(Quads) /\ w \in Seq(Quads) /\ Len(w) \in Nat /\ Len(p) \in Nat
      /\ Len(w) > Len(p) /\ w[Len(p) + 1] = q
  BY ChildNodes DEF IsTree
<1>2. ~IsPrefix(w, p)
  BY <1>1, PrefixIs
<1>3. ASSUME NEW k \in Quads \ {q}, NEW u \in BelowChild(t, p, k), IsPrefix(w, u) PROVE FALSE
  <2>1. u \in Seq(Quads) /\ u[Len(p) + 1] = k
    BY ChildNodes
  <2>2. w[Len(p) + 1] = u[Len(p) + 1]
    <3>1. Len(p) + 1 \in 1..Len(w)
      BY <1>1
    <3> QED
      BY <1>1, <1>3, <2>1, <3>1, PrefixIs
  <2> QED
    BY <1>1, <2>1, <2>2
<1> QED
  BY <1>2, <1>3 DEF Own

\* A node below p is p or below one of its children.
LEMMA BelowCases ==
    ASSUME NEW t, IsTree(t), NEW p \in DOMAIN t
    PROVE  Below(t, p) = {p} \cup BelowChild(t, p, 1) \cup BelowChild(t, p, 2)
                             \cup BelowChild(t, p, 3) \cup BelowChild(t, p, 4)
<1>1. p \in Seq(Quads) /\ Len(p) \in Nat
  BY LenProperties DEF IsTree
<1>2. IsPrefix(p, p)
  BY <1>1, PrefixIs
<1>3. ASSUME NEW q \in Quads PROVE BelowChild(t, p, q) \subseteq Below(t, p)
  BY ChildNodes DEF Below
<1>4. ASSUME NEW u \in Below(t, p), u # p PROVE \E q \in Quads : u \in BelowChild(t, p, q)
  <2> DEFINE q == u[Len(p) + 1]
             c == Append(p, q)
  <2>1. u \in DOMAIN t /\ u \in Seq(Quads) /\ IsPrefix(p, u)
    BY DEF Below, IsTree
  <2>2. /\ Len(u) \in Nat /\ Len(p) <= Len(u) /\ \A i \in 1..Len(p) : p[i] = u[i]
    BY <1>1, <2>1, PrefixIs
  <2>3. Len(p) # Len(u)
    BY <1>1, <1>4, <2>1, <2>2, SeqEqual
  <2>4. Len(p) + 1 \in 1..Len(u) /\ Len(p) + 1 \in 0..Len(u)
    BY <1>1, <2>2, <2>3
  <2>5. q \in Quads
    BY <2>1, <2>4, ElementOfSeq
  <2>6. /\ c \in Seq(Quads) /\ Len(c) = Len(p) + 1
        /\ \A i \in 1..Len(p) : c[i] = p[i]
        /\ c[Len(p) + 1] = q
    BY <1>1, <2>5, PathElements
  <2> DEFINE a == Above(u, Len(p) + 1)
  <2>7. /\ a \in Seq(Quads) /\ Len(a) = Len(p) + 1
        /\ \A i \in 1..Len(p) + 1 : a[i] = u[i]
    BY <2>1, <2>4, PathElements
  <2>8. a \in DOMAIN t
    BY <2>1, <2>4, Ancestors
  <2> HIDE DEF a, c
  <2>9. \A i \in 1..Len(p) + 1 : c[i] = u[i]
    <3> TAKE i \in 1..Len(p) + 1
    <3>1. i \in 1..Len(p) \/ i = Len(p) + 1
      BY <1>1
    <3> QED
      BY <2>2, <2>6, <3>1 DEF q
  <2>10. a = c
    <3>1. \A i \in 1..Len(a) : a[i] = c[i]
      BY <2>7, <2>9
    <3> QED
      BY <2>6, <2>7, <3>1, SeqEqual
  <2>11. IsPrefix(c, u)
    BY <2>1, <2>4, <2>6, <2>9, PrefixIs
  <2> QED
    BY <2>1, <2>5, <2>8, <2>10, <2>11 DEF c, BelowChild, Below
<1>5. \A q \in Quads : q = 1 \/ q = 2 \/ q = 3 \/ q = 4
  BY DEF Quads
<1>6. 1 \in Quads /\ 2 \in Quads /\ 3 \in Quads /\ 4 \in Quads
  BY DEF Quads
<1>7. p \in Below(t, p)
  BY <1>2 DEF Below
<1> QED
  BY <1>3, <1>4, <1>5, <1>6, <1>7

Lists(t, f, p) == Listing(f[p], IF p = <<>> THEN Below(t, p) \ {p} ELSE Below(t, p), From(p))

\* A visit lists the node's part of the tree when the visits of its children do.
LEMMA VisitLists ==
    ASSUME NEW t, IsTree(t), NEW f, NEW p \in DOMAIN t, f[p] = Visit(t, f, p),
           \A q \in Quads : Append(p, q) \in DOMAIN t => Lists(t, f, Append(p, q))
    PROVE  Lists(t, f, p)
<1> DEFINE s(q) == IF Append(p, q) \in DOMAIN t THEN f[Append(p, q)] ELSE <<>>
           U(q) == BelowChild(t, p, q)
           own == IF p = <<>> THEN <<>> ELSE <<p>>
           o == From(p)
<1>1. p \in Seq(Quads) /\ <<>> \in Seq(Quads)
  BY EmptySeq DEF IsTree
<1>2. o \in Seq(Quads) /\ IsPrefix(o, p) /\ (own = <<>> => o = p)
  <2>1. CASE p = <<>>
    <3>1. IsPrefix(p, p)
      BY <1>1, PrefixIs
    <3> QED
      BY <1>1, <2>1, <3>1 DEF From
  <2>2. CASE p # <<>>
    <3>1. Len(p) - 1 \in 0..Len(p)
      BY <1>1, <2>2, EmptySeq
    <3>2. Par(p) \in Seq(Quads)
      BY <1>1, <3>1, PathElements DEF Par
    <3>3. own # <<>>
      BY <2>2
    <3> QED
      BY <1>1, <2>2, <3>2, <3>3, OneNode DEF From
  <2> QED
    BY <2>1, <2>2
<1>3. Listing(own, Own(p), o)
  BY <1>1, NoNodes, OneNode DEF Own, From
<1>4. Own(p) \subseteq Seq(Quads) /\ \A u \in Own(p) : IsPrefix(p, u)
  BY <1>1, PrefixIs DEF Own
<1>5. ASSUME NEW q \in Quads
      PROVE  /\ Listing(s(q), U(q), p)
             /\ U(q) \subseteq Seq(Quads)
             /\ \A u \in U(q) : IsPrefix(p, u)
  <2>1. CASE Append(p, q) \in DOMAIN t
    <3>1. Append(p, q) # <<>> /\ Par(Append(p, q)) = p
      BY <1>1, PathElements DEF Par
    <3>2. Lists(t, f, Append(p, q))
      BY <2>1
    <3> QED
      BY <2>1, <3>1, <3>2, ChildNodes DEF Lists, From, BelowChild
  <2>2. CASE Append(p, q) \notin DOMAIN t
    BY <2>2, NoNodes DEF BelowChild
  <2> QED
    BY <2>1, <2>2
<1>6. \A q \in Quads : \A w \in U(q) :
         /\ \A u \in Own(p) : ~IsPrefix(w, u)
         /\ \A k \in Quads \ {q} : \A u \in U(k) : ~IsPrefix(w, u)
  BY ChildrenApart
<1>7. 1 \in Quads /\ 2 \in Quads /\ 3 \in Quads /\ 4 \in Quads
  BY DEF Quads
<1>8. f[p] = own \o s(1) \o s(2) \o s(3) \o s(4)
  BY DEF Visit
<1>9. Own(p) \cup U(1) \cup U(2) \cup U(3) \cup U(4)
        = IF p = <<>> THEN Below(t, p) \ {p} ELSE Below(t, p)
  <2>1. \A q \in Quads : p \notin U(q)
    BY ChildNodes
  <2>2. Below(t, p) = {p} \cup U(1) \cup U(2) \cup U(3) \cup U(4)
    BY BelowCases
  <2> HIDE DEF U
  <2> QED
    BY <1>7, <2>1, <2>2 DEF Own
<1> HIDE DEF s, U, own, o
\* Joining one more child's list to a list of the node and of earlier children.
<1>10. ASSUME NEW r, NEW V, Listing(r, V, o), V \subseteq Seq(Quads),
              \A u \in V : IsPrefix(p, u), r = <<>> => o = p, NEW q \in Quads,
              \A u \in V, w \in U(q) : ~IsPrefix(w, u)
       PROVE  /\ Listing(r \o s(q), V \cup U(q), o)
              /\ V \cup U(q) \subseteq Seq(Quads)
              /\ \A u \in V \cup U(q) : IsPrefix(p, u)
              /\ r \o s(q) = <<>> => o = p
  <2>1. Listing(r \o s(q), V \cup U(q), o)
    BY <1>1, <1>2, <1>5, <1>10, ListsJoin
  <2>2. r \o s(q) = <<>> => r = <<>>
    <3>1. r \in Seq(V) /\ s(q) \in Seq(U(q))
      BY <1>5, <1>10 DEF Listing
    <3>2. r \in Seq(V \cup U(q)) /\ s(q) \in Seq(V \cup U(q))
      BY <3>1, SeqMonotonic
    <3>3. Len(r) \in Nat /\ Len(s(q)) \in Nat /\ Len(r \o s(q)) = Len(r) + Len(s(q))
      BY <3>2, ConcatProperties, LenProperties
    <3>4. r # <<>> => Len(r) \in Nat \ {0}
      BY <3>2, EmptySeq
    <3>5. r \o s(q) = <<>> => Len(r \o s(q)) = 0
      BY EmptySeq
    <3> QED
      BY <3>3, <3>4, <3>5
  <2> QED
    BY <1>5, <1>10, <2>1, <2>2
<1> DEFINE r1 == own \o s(1)
           r2 == r1 \o s(2)
           r3 == r2 \o s(3)
           r4 == r3 \o s(4)
           V1 == Own(p) \cup U(1)
           V2 == V1 \cup U(2)
           V3 == V2 \cup U(3)
           V4 == V3 \cup U(4)
           Fine(r, V) == /\ Listing(r, V, o) /\ V \subseteq Seq(Quads)
                         /\ \A u \in V : IsPrefix(p, u)
                         /\ r = <<>> => o = p
<1>11. Fine(r1, V1)
  BY <1>2, <1>3, <1>4, <1>6, <1>7, <1>10
<1>12. \A u \in V1, w \in U(2) : ~IsPrefix(w, u)
  BY <1>6, <1>7
<1>13. \A u \in V2, w \in U(3) : ~IsPrefix(w, u)
  BY <1>6, <1>7
<1>14. \A u \in V3, w \in U(4) : ~IsPrefix(w, u)
  BY <1>6, <1>7
<1>15. ASSUME NEW r, NEW V, Fine(r, V), NEW q \in Quads, \A u \in V, w \in U(q) : ~IsPrefix(w, u)
       PROVE  Fine(r \o s(q), V \cup U(q))
  BY <1>10, <1>15
<1> HIDE DEF Fine, r1, V1
<1>16. Fine(r2, V2)
  BY <1>7, <1>11, <1>12, <1>15
<1> HIDE DEF r2, V2
<1>17. Fine(r3, V3)
  BY <1>7, <1>13, <1>15, <1>16
<1> HIDE DEF r3, V3
<1>18. Fine(r4, V4)
  BY <1>7, <1>14, <1>15, <1>17
<1>19. r4 = f[p] /\ V4 = IF p = <<>> THEN Below(t, p) \ {p} ELSE Below(t, p)
  BY <1>8, <1>9 DEF r1, r2, r3, V1, V2, V3
<1> QED
  BY <1>18, <1>19 DEF Fine, Lists, o

\* What makes s a preorder of t: it has every node but the root; a node comes before
\* all below it, and its parent is the node that comes before it, or one above that.
Preordered(t, s) ==
    /\ s \in Seq(DOMAIN t \ {<<>>})
    /\ \A p \in DOMAIN t \ {<<>>} : \E i \in 1..Len(s) : s[i] = p
    /\ \A j \in 1..Len(s) :
          /\ IsPrefix(Above(s[j], Len(s[j]) - 1), IF j = 1 THEN <<>> ELSE s[j - 1])
          /\ \A i \in 1..j - 1 : ~IsPrefix(s[j], s[i])

\* saveToFile (VPQTreeNode.cpp:549-597) writes any finite tree in preorder: every node
\* but the root, none after one below it, each right after its parent or after a node
\* below its parent.
THEOREM PreorderCorrect ==
    ASSUME NEW t, IsTree(t), IsFiniteSet(DOMAIN t)
    PROVE  Preordered(t, Preorder(t))
<1>1. IsTree(t) /\ IsFiniteSet(DOMAIN t)
  OBVIOUS
<1>2. \A p \in DOMAIN t : p \in Seq(Quads) /\ Len(p) \in Nat
  BY <1>1, LenProperties DEF IsTree
<1>3. PICK d \in Nat : \A p \in DOMAIN t : Len(p) <= d
  <2>1. DOMAIN t \subseteq Seq(Quads)
    BY <1>2
  <2> QED
    BY <1>1, <2>1, Depth
<1>4. PICK f : f = [p \in DOMAIN t |-> Visit(t, f, p)] /\ Preorder(t) = f[<<>>]
  BY <1>1, VisitExists
<1> DEFINE S == {n \in 0..d + 1 : \A p \in Deep(t, d, n) : Lists(t, f, p)}
<1>5. 0 \in S
  <2>1. Deep(t, d, 0) = {}
    BY <1>2, <1>3 DEF Deep
  <2> QED
    BY <1>3, <2>1
<1>6. ASSUME NEW n \in 0..(d + 1) - 1, n \in S PROVE n + 1 \in S
  <2>1. ASSUME NEW p \in Deep(t, d, n + 1) PROVE Lists(t, f, p)
    <3>1. p \in DOMAIN t /\ p \in Seq(Quads) /\ Len(p) \in Nat /\ Len(p) + (n + 1) > d
      BY <1>2 DEF Deep
    <3>2. ASSUME NEW q \in Quads, Append(p, q) \in DOMAIN t PROVE Lists(t, f, Append(p, q))
      <4>1. Len(Append(p, q)) = Len(p) + 1
        BY <3>1, PathElements
      <4>2. Len(Append(p, q)) + n > d
        BY <3>1, <4>1
      <4>3. Append(p, q) \in Deep(t, d, n)
        BY <3>2, <4>2 DEF Deep
      <4> QED
        BY <1>6, <4>3
    <3>3. f[p] = Visit(t, f, p)
      BY <1>4, <3>1, Zenon
    <3> QED
      BY <1>1, <3>1, <3>2, <3>3, VisitLists
  <2> QED
    BY <1>3, <2>1
<1> HIDE DEF S
<1>7. d + 1 \in S
  <2>1. 0..d + 1 \subseteq S
    BY <1>3, <1>5, <1>6, UpTo
  <2> QED
    BY <1>3, <2>1
<1>8. <<>> \in Deep(t, d, d + 1)
  <2>1. <<>> \in DOMAIN t /\ Len(<<>>) + (d + 1) > d
    BY <1>1, EmptySeq DEF IsTree
  <2> QED
    BY <2>1 DEF Deep
<1>9. Lists(t, f, <<>>)
  BY <1>7, <1>8 DEF S
<1> DEFINE s == Preorder(t)
<1>10. Below(t, <<>>) \ {<<>>} = DOMAIN t \ {<<>>}
  <2>1. \A u \in DOMAIN t : IsPrefix(<<>>, u)
    BY <1>2, EmptyPrefix
  <2> QED
    BY <2>1 DEF Below
<1>11. Listing(s, DOMAIN t \ {<<>>}, <<>>)
  BY <1>4, <1>9, <1>10 DEF Lists, From
<1> HIDE DEF s
<1>12. Len(s) \in Nat
  BY <1>11, LenProperties DEF Listing
<1>13. ASSUME NEW j \in 1..Len(s)
       PROVE  IsPrefix(Above(s[j], Len(s[j]) - 1), IF j = 1 THEN <<>> ELSE s[j - 1])
  <2>1. CASE j = 1
    <3>1. Par(s[1]) = <<>>
      BY <1>11, <1>12, <2>1 DEF Listing
    <3>2. IsPrefix(<<>>, <<>>)
      BY EmptySeq, EmptyPrefix
    <3> QED
      BY <2>1, <3>1, <3>2 DEF Par
  <2>2. CASE j # 1
    <3>1. j \in 2..Len(s)
      BY <1>12, <2>2
    <3> QED
      BY <1>11, <2>2, <3>1 DEF Listing, Par
  <2> QED
    BY <2>1, <2>2
<1> QED
  BY <1>11, <1>13 DEF Listing, Preordered, s

\* So it does the trees that a build may come to.
LEMMA SavedInPreorder == \A t \in Trees : Preordered(t, Preorder(t))
  BY TreesAssumption, PreorderCorrect DEF IsFiniteTree

(***************************************************************************)
(* The records.                                                            *)
(***************************************************************************)
\* A node of a tree, other than the root, is a path; its record is a record.
LEMMA NodeTypes ==
    ASSUME NEW t \in Trees, NEW j \in 1..Len(Preorder(t))
    PROVE  LET p == Preorder(t)[j]
           IN  /\ p \in DOMAIN t /\ p \in Seq(Quads) /\ p # <<>>
               /\ Record(t, p) \in Records
<1> DEFINE p == Preorder(t)[j]
<1>1. Preorder(t) \in Seq(DOMAIN t \ {<<>>})
  BY SavedInPreorder DEF Preordered
<1>2. p \in DOMAIN t \ {<<>>}
  BY <1>1, ElementOfSeq
<1>3. p \in Seq(Quads) /\ t[p] \in Kinds
  BY <1>2, TreesAssumption DEF IsTree, IsFiniteTree
<1> QED
  BY <1>2, <1>3, BelowAbove DEF Record, Records

\* What a saved file is: one record per node, in the order of Preorder.
LEMMA SaveTypes ==
    \A t \in Trees : /\ SaveToFile(t) \in Seq(Records) /\ SaveToFile(t) # NoFile
                     /\ Len(SaveToFile(t)) = Len(Preorder(t)) /\ Len(Preorder(t)) \in Nat
                     /\ \A i \in 1..Len(Preorder(t)) :
                           SaveToFile(t)[i] = Record(t, Preorder(t)[i])
<1> SUFFICES ASSUME NEW t \in Trees
             PROVE  /\ SaveToFile(t) \in Seq(Records) /\ SaveToFile(t) # NoFile
                    /\ Len(SaveToFile(t)) = Len(Preorder(t)) /\ Len(Preorder(t)) \in Nat
                    /\ \A i \in 1..Len(Preorder(t)) :
                          SaveToFile(t)[i] = Record(t, Preorder(t)[i])
  OBVIOUS
<1> DEFINE s == Preorder(t)
<1>1. s \in Seq(DOMAIN t \ {<<>>})
  BY SavedInPreorder DEF Preordered
<1>2. Len(s) \in Nat
  BY <1>1, LenProperties
<1>3. SaveToFile(t) = [i \in 1..Len(s) |-> Record(t, s[i])]
  BY DEF SaveToFile
<1>4. \A i \in 1..Len(s) : Record(t, s[i]) \in Records
  BY NodeTypes
<1> HIDE DEF s
<1>5. SaveToFile(t) \in [1..Len(s) -> Records]
  BY <1>3, <1>4
<1>6. SaveToFile(t) \in Seq(Records)
  BY <1>2, <1>5, SeqDef
<1>7. Len(SaveToFile(t)) = Len(s)
  BY <1>2, <1>5, <1>6, LenProperties
<1> QED
  BY <1>2, <1>3, <1>6, <1>7, NoFileAssumption DEF s

(***************************************************************************)
(* The builder.                                                            *)
(***************************************************************************)
\* What buildIndex knows and does, apart from the readers.
BuilderInv ==
    /\ built \in Trees
    /\ bpc \in {"off", "build", "write"}
    /\ bpc = "build" => file = NoFile
    /\ bpc = "write" => /\ sent \in 0..Len(SaveToFile(built))
                        /\ file = SubSeq(SaveToFile(built), 1, sent)

\* The builder's invariant holds at the start.
LEMMA BuilderInit == Init => BuilderInv
BY DEF Init, BuilderInv

\* Every step keeps the builder's invariant.
LEMMA BuilderNext == BuilderInv /\ [Next]_vars => BuilderInv'
<1> SUFFICES ASSUME BuilderInv, [Next]_vars PROVE BuilderInv'
  OBVIOUS
<1> USE DEF BuilderInv, builderVars, readerVars
<1>1. CASE Stat
  BY <1>1 DEF Stat
<1>2. CASE Open
  <2>1. SaveToFile(built) \in Seq(Records)
    BY SaveTypes
  <2>2. SubSeq(SaveToFile(built), 1, 0) = <<>> /\ 0 \in 0..Len(SaveToFile(built))
    BY <2>1, SubSeqEmpty, LenProperties
  <2> QED
    BY <1>2, <2>2 DEF Open
<1>3. CASE Write
  <2>1. SaveToFile(built) \in Seq(Records)
    BY SaveTypes
  <2>2. file' = SubSeq(SaveToFile(built), 1, sent + 1)
    BY <1>3, <2>1, PrefixGrows DEF Write
  <2>3. sent + 1 \in 0..Len(SaveToFile(built))
    BY <1>3, <2>1, LenProperties DEF Write
  <2> QED
    BY <1>3, <2>2, <2>3 DEF Write
<1>4. CASE Close \/ Kill
  BY <1>4 DEF Close, Kill
<1>5. ASSUME NEW r \in Readers, ReadOpen(r) \/ ReadRecord(r) \/ ReadDone(r)
      PROVE  BuilderInv'
  BY <1>5 DEF ReadOpen, ReadRecord, ReadDone
<1>6. CASE UNCHANGED vars
  BY <1>6 DEF vars
<1> QED
  BY <1>1, <1>2, <1>3, <1>4, <1>5, <1>6 DEF Next

\* No later run of buildIndex touches a complete index.
THEOREM CompleteIndexStaysCorrect == Spec => CompleteIndexStays
<1>1. Spec => []BuilderInv
  BY BuilderInit, BuilderNext, PTL DEF Spec
<1>2. BuilderInv /\ [Next]_vars => [Complete => file' = file]_vars
  <2> SUFFICES ASSUME BuilderInv, Next, Complete PROVE file' = file
    OBVIOUS
  <2> USE DEF BuilderInv, builderVars, readerVars
  <2>1. ~Open
    BY SaveTypes DEF Open, Complete
  <2>2. ~Write
    <3>1. SaveToFile(built) \in Seq(Records)
      BY SaveTypes
    <3> QED
      BY <3>1, PrefixGrows DEF Write, Complete
  <2>3. CASE Stat \/ Close \/ Kill
    BY <2>3 DEF Stat, Close, Kill
  <2>4. CASE \E r \in Readers : ReadOpen(r) \/ ReadRecord(r) \/ ReadDone(r)
    BY <2>4 DEF ReadOpen, ReadRecord, ReadDone
  <2> QED
    BY <2>1, <2>2, <2>3, <2>4 DEF Next
<1> QED
  BY <1>1, <1>2, PTL DEF Spec, CompleteIndexStays

(***************************************************************************)
(* The file: at any time the first n records of the tree, and it never     *)
(* gets shorter.                                                           *)
(***************************************************************************)
FileInv ==
    file # NoFile => \E n \in 0..Len(SaveToFile(built)) : file = SubSeq(SaveToFile(built), 1, n)

\* The file stays a beginning of what is saved: a step leaves it, creates
\* it or appends one record.
LEMMA FileNext == BuilderInv /\ FileInv /\ [Next]_vars
                     => /\ FileInv' /\ built' = built
                        /\ \/ file' = file
                           \/ file = NoFile
                           \/ \E n \in 0..Len(SaveToFile(built)) :
                                 /\ n < Len(SaveToFile(built))
                                 /\ file = SubSeq(SaveToFile(built), 1, n)
                                 /\ file' = SubSeq(SaveToFile(built), 1, n + 1)
<1> SUFFICES ASSUME BuilderInv, FileInv, [Next]_vars
             PROVE  /\ FileInv' /\ built' = built
                    /\ \/ file' = file
                       \/ file = NoFile
                       \/ \E n \in 0..Len(SaveToFile(built)) :
                             /\ n < Len(SaveToFile(built))
                             /\ file = SubSeq(SaveToFile(built), 1, n)
                             /\ file' = SubSeq(SaveToFile(built), 1, n + 1)
  OBVIOUS
<1> USE DEF builderVars, readerVars
<1>0. SaveToFile(built) \in Seq(Records) /\ Len(SaveToFile(built)) \in Nat
  BY SaveTypes, LenProperties DEF BuilderInv
<1>1. CASE Open
  <2>1. SubSeq(SaveToFile(built), 1, 0) = <<>> /\ 0 \in 0..Len(SaveToFile(built))
    BY <1>0, SubSeqEmpty
  <2> QED
    BY <1>1, <2>1 DEF Open, BuilderInv, FileInv
<1>2. CASE Write
  <2>1. sent < Len(SaveToFile(built)) /\ sent \in 0..Len(SaveToFile(built))
        /\ sent + 1 \in 0..Len(SaveToFile(built))
        /\ file = SubSeq(SaveToFile(built), 1, sent) /\ built' = built
    BY <1>0, <1>2 DEF Write, BuilderInv
  <2>2. file' = SubSeq(SaveToFile(built), 1, sent + 1)
    BY <1>0, <1>2, <2>1, PrefixGrows DEF Write
  <2> QED
    BY <2>1, <2>2 DEF FileInv
<1>3. CASE Stat \/ Close \/ Kill \/ UNCHANGED vars
  BY <1>3 DEF Stat, Close, Kill, vars, FileInv
<1>4. CASE \E r \in Readers : ReadOpen(r) \/ ReadRecord(r) \/ ReadDone(r)
  BY <1>4 DEF ReadOpen, ReadRecord, ReadDone, FileInv
<1> QED
  BY <1>1, <1>2, <1>3, <1>4 DEF Next

\* Every record in the file is that of its node.
LEMMA FileRecords ==
    ASSUME BuilderInv, FileInv, file # NoFile
    PROVE  /\ Len(file) \in 0..Len(Preorder(built))
           /\ \A i \in 1..Len(file) : file[i] = Record(built, Preorder(built)[i])
<1> DEFINE s == SaveToFile(built)
<1>1. /\ s \in Seq(Records) /\ Len(s) = Len(Preorder(built)) /\ Len(s) \in Nat
      /\ \A i \in 1..Len(s) : s[i] = Record(built, Preorder(built)[i])
  BY SaveTypes DEF BuilderInv
<1>2. PICK n \in 0..Len(s) : file = SubSeq(s, 1, n)
  BY DEF FileInv
<1> HIDE DEF s
<1>3. \A i \in 1..n : s[i] \in Records
  BY <1>1, <1>2, ElementOfSeq
<1>4. Len(file) = n /\ \A i \in 1..n : file[i] = s[i]
  BY <1>1, <1>2, <1>3, SubSeqProperties
<1> QED
  BY <1>1, <1>2, <1>4

\* Once there is a file it never shrinks.
LEMMA FileGrows ==
    ASSUME BuilderInv, FileInv, [Next]_vars, file # NoFile
    PROVE  file' # NoFile /\ Len(file) \in Nat /\ Len(file') \in Nat /\ Len(file) <= Len(file')
<1> DEFINE s == SaveToFile(built)
<1>1. s \in Seq(Records) /\ Len(s) \in Nat
  BY SaveTypes, LenProperties DEF BuilderInv
<1>2. \A n \in 0..Len(s) : SubSeq(s, 1, n) \in Seq(Records) /\ Len(SubSeq(s, 1, n)) = n
  <2> TAKE n \in 0..Len(s)
  <2>1. \A i \in 1..n : s[i] \in Records
    BY <1>1, ElementOfSeq
  <2> QED
    BY <1>1, <2>1, SubSeqProperties
<1> HIDE DEF s
<1>3. PICK m \in 0..Len(s) : file = SubSeq(s, 1, m)
  BY DEF FileInv, s
<1>4. CASE file' = file
  BY <1>1, <1>2, <1>3, <1>4
<1>5. CASE \E n \in 0..Len(s) : /\ n < Len(s) /\ file = SubSeq(s, 1, n)
                                 /\ file' = SubSeq(s, 1, n + 1)
  <2>1. PICK n \in 0..Len(s) : n < Len(s) /\ file = SubSeq(s, 1, n) /\ file' = SubSeq(s, 1, n + 1)
    BY <1>5
  <2>2. n + 1 \in 0..Len(s)
    BY <1>1, <2>1
  <2> QED
    BY <1>1, <1>2, <2>1, <2>2, NoFileAssumption
<1> QED
  BY <1>4, <1>5, FileNext DEF s

(***************************************************************************)
(* The readers.  After k records a reader has the first k nodes of the     *)
(* preorder, and stands at the last of them.                               *)
(***************************************************************************)
Place(k) == IF k = 0 THEN <<>> ELSE Preorder(built)[k]
NodesRead(k) == {<<>>} \cup {Preorder(built)[i] : i \in 1..k}

\* What the order says of one node: its parent is the node before it or one
\* above that, and no earlier node is below it.
LEMMA PreorderAt ==
    ASSUME NEW t \in Trees, NEW j \in 1..Len(Preorder(t))
    PROVE  LET s == Preorder(t)
           IN  /\ IsPrefix(Above(s[j], Len(s[j]) - 1), IF j = 1 THEN <<>> ELSE s[j - 1])
               /\ \A i \in 1..j - 1 : ~IsPrefix(s[j], s[i])
<1>1. Preordered(t, Preorder(t))
  BY SavedInPreorder
<1> QED
  BY <1>1 DEF Preordered

\* The climb of readIndexFile ends at the parent of the next record's node, which
\* has not been read, nor has anything below it.
LEMMA ClimbsToParent ==
    ASSUME built \in Trees, NEW k \in Nat, k < Len(Preorder(built))
    PROVE  LET c == Preorder(built)[k + 1]
               parent == ParentFor(Place(k), Len(Place(k)), Record(built, c).level)
           IN  /\ parent # Null
               /\ Append(parent, Record(built, c).quadType) = c
               /\ \A p \in NodesRead(k) : ~IsPrefix(c, p)
<1> DEFINE s == Preorder(built)
           c == s[k + 1]
           p == Place(k)
           a == Above(c, Len(c) - 1)
<1>1. Len(s) \in Nat /\ k + 1 \in 1..Len(s) /\ (k # 0 => k \in 1..Len(s))
  BY SaveTypes
<1>2. c \in Seq(Quads) /\ c # <<>> /\ p \in Seq(Quads)
  BY <1>1, NodeTypes, EmptySeq DEF Place
<1>3. Len(c) \in Nat \ {0} /\ Len(p) \in Nat /\ Len(c) - 1 \in 0..Len(c)
  BY <1>2, BelowAbove, LenProperties
<1>4. a \in Seq(Quads) /\ Len(a) = Len(c) - 1
  BY <1>2, <1>3, AboveType
<1>5. IsPrefix(a, p)
  <2>1. IsPrefix(a, IF k + 1 = 1 THEN <<>> ELSE s[k + 1 - 1])
    BY <1>1, PreorderAt
  <2>2. (IF k + 1 = 1 THEN <<>> ELSE s[k + 1 - 1]) = p
    BY DEF Place
  <2> HIDE DEF a, p, s
  <2> QED
    BY <2>1, <2>2
<1>6. Record(built, c).level = Len(c) /\ Record(built, c).quadType = Last(c)
  BY DEF Record
<1>7. \A q \in NodesRead(k) : ~IsPrefix(c, q)
  <2>1. \A i \in 1..k : ~IsPrefix(c, s[i])
    <3>1. \A i \in 1..k + 1 - 1 : ~IsPrefix(c, s[i])
      BY <1>1, PreorderAt
    <3> HIDE DEF c, s
    <3> QED
      BY <3>1
  <2>2. ~IsPrefix(c, <<>>)
    BY <1>3, EmptySeq DEF IsPrefix
  <2> QED
    BY <2>1, <2>2 DEF NodesRead
<1> HIDE DEF s, c, p, a
<1>8. Len(a) <= Len(p) /\ a = SubSeq(p, 1, Len(a))
  BY <1>4, <1>5, SubSeqFull DEF IsPrefix
<1>9. ParentFor(p, Len(p), Len(c)) = a
  <2>1. CASE Len(c) <= Len(p)
    <3>1. Len(p) - Len(c) + 1 <= Len(p) /\ Len(p) - (Len(p) - Len(c) + 1) = Len(a)
      BY <1>3, <1>4, <2>1
    <3> QED
      BY <1>8, <2>1, <3>1 DEF ParentFor, Up
  <2>2. CASE Len(c) > Len(p)
    <3>1. Len(a) = Len(p) /\ ~(Len(c) <= Len(p))
      BY <1>3, <1>4, <1>8, <2>2
    <3>2. SubSeq(p, 1, Len(p)) = p
      BY <1>2, SubSeqFull
    <3> QED
      BY <1>8, <3>1, <3>2 DEF ParentFor
  <2> QED
    BY <1>3, <2>1, <2>2
<1>10. a # Null /\ Append(a, Last(c)) = c
  BY <1>2, <1>4, BelowAbove, NoFileAssumption DEF a
<1> QED
  BY <1>6, <1>7, <1>9, <1>10 DEF s, c, p

ReaderInv(r) ==
    LET k == IF rpc[r] = "off" THEN 0 ELSE next[r] - 1
    IN  /\ rpc[r] \in {"off", "read", "successfully"}
        /\ size[r] \in Nat /\ next[r] \in Nat /\ level_tmp[r] \in Nat
        /\ rpc[r] # "off" => /\ file # NoFile /\ size[r] <= Len(file)
                             /\ next[r] \in 1..size[r] + 1
        /\ rpc[r] = "successfully" => next[r] = size[r] + 1
        /\ seek[r] = Place(k) /\ level_tmp[r] = Len(Place(k))
        /\ DOMAIN tree[r] = NodesRead(k)
        /\ IsFiniteSet(DOMAIN tree[r]) /\ Cardinality(DOMAIN tree[r]) = k + 1
        /\ \A p \in NodesRead(k) : tree[r][p] = [level |-> Len(p), kind |-> built[p]]

Domains ==
    /\ rpc = [r \in Readers |-> rpc[r]] /\ size = [r \in Readers |-> size[r]]
    /\ next = [r \in Readers |-> next[r]] /\ level_tmp = [r \in Readers |-> level_tmp[r]]
    /\ DOMAIN seek = Readers /\ DOMAIN tree = Readers

IndexInv == BuilderInv /\ FileInv /\ Domains /\ \A r \in Readers : ReaderInv(r)

\* The invariant of the index file holds at the start.
LEMMA IndexInit == Init => IndexInv
<1> SUFFICES ASSUME Init PROVE IndexInv
  OBVIOUS
<1>1. BuilderInv /\ FileInv /\ Domains
  BY BuilderInit DEF Init, FileInv, Domains
<1>2. ASSUME NEW r \in Readers PROVE ReaderInv(r)
  <2>1. tree[r] = [p \in {<<>>} |-> Root]
    BY DEF Init
  <2>2. NodesRead(0) = {<<>>}
    BY DEF NodesRead
  <2>3. IsFiniteSet({<<>>}) /\ Cardinality({<<>>}) = 1
    BY FS_Singleton
  <2>4. built[<<>>] = "s" /\ Len(<<>>) = 0
    BY TreesAssumption, EmptySeq DEF Init, IsTree, IsFiniteTree
  <2>5. tree[r][<<>>] = [level |-> Len(<<>>), kind |-> built[<<>>]]
    BY <2>1, <2>4 DEF Root
  <2>6. /\ rpc[r] = "off" /\ size[r] = 0 /\ next[r] = 0 /\ level_tmp[r] = 0
        /\ seek[r] = <<>> /\ Place(0) = <<>>
    BY DEF Init, Place
  <2>7. DOMAIN tree[r] = {<<>>}
    BY <2>1
  <2> QED
    BY <2>2, <2>3, <2>4, <2>5, <2>6, <2>7 DEF ReaderInv
<1> QED
  BY <1>1, <1>2 DEF IndexInv

\* A step that leaves reader r alone: the file has only grown.
LEMMA ReaderKept ==
    ASSUME IndexInv, [Next]_vars, NEW r \in Readers, ReaderInv(r),
           rpc'[r] = rpc[r], size'[r] = size[r], next'[r] = next[r], seek'[r] = seek[r],
           level_tmp'[r] = level_tmp[r], tree'[r] = tree[r]
    PROVE  ReaderInv(r)'
<1>1. built' = built
  BY FileNext DEF IndexInv
<1>2. file # NoFile => /\ file' # NoFile /\ Len(file) \in Nat /\ Len(file') \in Nat
                       /\ Len(file) <= Len(file')
  BY FileGrows DEF IndexInv
<1>3. rpc[r] # "off" => /\ file' # NoFile /\ size[r] <= Len(file')
  BY <1>2 DEF ReaderInv
<1>4. \A k : Place(k)' = Place(k) /\ NodesRead(k)' = NodesRead(k)
  BY <1>1 DEF Place, NodesRead
<1> QED
  BY <1>1, <1>3, <1>4 DEF ReaderInv

\* One record more.
LEMMA ReadRecordKeeps ==
    ASSUME IndexInv, NEW r \in Readers, ReadRecord(r)
    PROVE  ReaderInv(r)'
<1> DEFINE k == next[r] - 1
           c == Preorder(built)[k + 1]
           rec == file[next[r]]
           parent == ParentFor(seek[r], level_tmp[r], rec.level)
<1>1. ReaderInv(r) /\ rpc[r] = "read" /\ built' = built /\ file' = file /\ size' = size
  BY DEF IndexInv, ReadRecord, builderVars
<1>2. /\ next[r] \in 1..size[r] /\ next[r] = k + 1 /\ k \in Nat
      /\ file # NoFile /\ size[r] <= Len(file) /\ size[r] \in Nat
  BY <1>1 DEF ReaderInv, ReadRecord
<1>3. /\ k < Len(Preorder(built)) /\ k + 1 \in 1..Len(Preorder(built)) /\ built \in Trees
      /\ rec = Record(built, c)
  <2>1. /\ Len(file) \in 0..Len(Preorder(built)) /\ built \in Trees
        /\ \A i \in 1..Len(file) : file[i] = Record(built, Preorder(built)[i])
    BY <1>2, FileRecords DEF IndexInv, BuilderInv
  <2>2. Len(Preorder(built)) \in Nat
    BY <2>1, SaveTypes
  <2>3. k + 1 \in 1..Len(file)
    BY <1>2, <2>1, <2>2
  <2>4. k < Len(Preorder(built)) /\ k + 1 \in 1..Len(Preorder(built))
    BY <1>2, <2>1, <2>2, <2>3
  <2>5. rec = Record(built, Preorder(built)[k + 1])
    BY <1>2, <2>1, <2>3
  <2> QED
    BY <2>1, <2>4, <2>5
<1>4. /\ seek[r] = Place(k) /\ level_tmp[r] = Len(Place(k))
      /\ DOMAIN tree[r] = NodesRead(k)
      /\ IsFiniteSet(NodesRead(k)) /\ Cardinality(NodesRead(k)) = k + 1
      /\ \A p \in NodesRead(k) : tree[r][p] = [level |-> Len(p), kind |-> built[p]]
  BY <1>1 DEF ReaderInv
<1>5. /\ parent # Null /\ Append(parent, rec.quadType) = c
      /\ \A p \in NodesRead(k) : ~IsPrefix(c, p)
  BY <1>2, <1>3, <1>4, ClimbsToParent
<1>6. /\ rec.level = Len(c) /\ rec.kind = built[c] /\ Len(c) \in Nat /\ c \in Seq(Quads)
  BY <1>3, NodeTypes, LenProperties DEF Record
<1>7. NodesRead(k + 1) = NodesRead(k) \cup {c} /\ Place(k + 1) = c /\ c \notin NodesRead(k)
  <2>1. IsPrefix(c, c)
    BY <1>6 DEF IsPrefix
  <2>2. 1..k + 1 = (1..k) \cup {k + 1}
    BY <1>2
  <2> QED
    BY <1>2, <1>5, <2>1, <2>2 DEF NodesRead, Place
<1>8. IsFiniteSet(NodesRead(k + 1)) /\ Cardinality(NodesRead(k + 1)) = k + 2
  <2>1. /\ IsFiniteSet(NodesRead(k) \cup {c})
        /\ Cardinality(NodesRead(k) \cup {c}) = Cardinality(NodesRead(k)) + 1
    BY <1>4, <1>7, FS_AddElement, ZenonT(60)
  <2>2. Cardinality(NodesRead(k)) + 1 = k + 2
    BY <1>2, <1>4
  <2>3. NodesRead(k + 1) = NodesRead(k) \cup {c}
    BY <1>7
  <2> HIDE DEF k, c, NodesRead
  <2> QED
    BY <2>1, <2>2, <2>3
<1>9. /\ tree'[r] = NewChild(tree[r], parent, rec) /\ seek'[r] = Append(parent, rec.quadType)
      /\ level_tmp'[r] = rec.level /\ next'[r] = next[r] + 1 /\ rpc' = rpc
  BY <1>5 DEF ReadRecord, IndexInv, Domains
<1> HIDE DEF parent, rec, c
<1>10. NewChild(tree[r], parent, rec) =
         [d \in NodesRead(k + 1) |-> IF d = c THEN [level |-> Len(c), kind |-> built[c]]
                                              ELSE tree[r][d]]
  <2>1. {d \in NodesRead(k) : ~IsPrefix(c, d)} = NodesRead(k)
    BY <1>5
  <2> QED
    BY <1>4, <1>5, <1>6, <1>7, <2>1 DEF NewChild
<1>11. /\ DOMAIN tree'[r] = NodesRead(k + 1)
       /\ \A p \in NodesRead(k + 1) : tree'[r][p] = [level |-> Len(p), kind |-> built[p]]
  BY <1>4, <1>7, <1>9, <1>10
<1>12. PICK m \in Nat : m = k + 1
  BY <1>2
<1>13. /\ next'[r] = m + 1 /\ next'[r] - 1 = m /\ m + 1 \in 1..size[r] + 1 /\ m + 1 \in Nat
  BY <1>2, <1>9, <1>12
<1>14. /\ Place(m)' = c /\ NodesRead(m)' = NodesRead(m)
       /\ NodesRead(m) = NodesRead(k + 1)
  BY <1>1, <1>7, <1>12 DEF Place, NodesRead
<1>15. /\ seek'[r] = Place(m)' /\ level_tmp'[r] = Len(Place(m)') /\ level_tmp'[r] \in Nat
       /\ DOMAIN tree'[r] = NodesRead(m)'
       /\ IsFiniteSet(DOMAIN tree'[r]) /\ Cardinality(DOMAIN tree'[r]) = m + 1
       /\ \A p \in NodesRead(m)' : tree'[r][p] = [level |-> Len(p), kind |-> built'[p]]
  BY <1>1, <1>2, <1>5, <1>6, <1>8, <1>9, <1>11, <1>12, <1>14
<1> HIDE DEF k
<1>16. /\ rpc'[r] = "read" /\ size'[r] \in Nat /\ file' # NoFile /\ size'[r] <= Len(file')
       /\ next'[r] \in 1..size'[r] + 1 /\ next'[r] \in Nat
  BY <1>1, <1>2, <1>9, <1>13
<1> QED
  BY <1>13, <1>15, <1>16 DEF ReaderInv

\* Every step keeps the invariant of the index file.
LEMMA IndexNext == IndexInv /\ [Next]_vars => IndexInv'
<1> SUFFICES ASSUME IndexInv, [Next]_vars PROVE IndexInv'
  OBVIOUS
<1> USE DEF builderVars, readerVars
<1>1. BuilderInv' /\ FileInv'
  BY BuilderNext, FileNext DEF IndexInv
<1>2. Domains'
  <2> USE DEF IndexInv, Domains
  <2>1. CASE Stat \/ Open \/ Write \/ Close \/ Kill \/ UNCHANGED vars
    BY <2>1 DEF Stat, Open, Write, Close, Kill, vars
  <2>2. ASSUME NEW r \in Readers, ReadOpen(r) PROVE Domains'
    BY <2>2 DEF ReadOpen
  <2>3. ASSUME NEW r \in Readers, ReadRecord(r) PROVE Domains'
    BY <2>3 DEF ReadRecord
  <2>4. ASSUME NEW r \in Readers, ReadDone(r) PROVE Domains'
    BY <2>4 DEF ReadDone
  <2> QED
    BY <2>1, <2>2, <2>3, <2>4 DEF Next
<1>3. ASSUME NEW r \in Readers PROVE ReaderInv(r)'
  <2>0. ReaderInv(r) /\ Domains
    BY DEF IndexInv
  <2> DEFINE Same == /\ rpc'[r] = rpc[r] /\ size'[r] = size[r] /\ next'[r] = next[r]
                     /\ seek'[r] = seek[r] /\ level_tmp'[r] = level_tmp[r]
                     /\ tree'[r] = tree[r]
  <2>1. Same => ReaderInv(r)'
    BY <2>0, ReaderKept
  <2>2. CASE Stat \/ Open \/ Write \/ Close \/ Kill \/ UNCHANGED vars
    BY <2>1, <2>2 DEF Stat, Open, Write, Close, Kill, vars
  <2>3. ASSUME NEW q \in Readers, q # r, ReadOpen(q) \/ ReadRecord(q) \/ ReadDone(q)
        PROVE  Same
    BY <2>0, <2>3 DEF ReadOpen, ReadRecord, ReadDone, Domains
  <2>4. CASE ReadOpen(r)
    <3>1. /\ rpc[r] = "off" /\ rpc'[r] = "read" /\ size'[r] = Len(file) /\ next'[r] = 1
          /\ UNCHANGED <<file, built, seek, level_tmp, tree>> /\ file # NoFile
      BY <2>0, <2>4 DEF ReadOpen, Domains
    <3>2. Len(file) \in Nat
      BY <3>1, FileGrows DEF IndexInv
    <3>3. Place(0)' = Place(0) /\ NodesRead(0)' = NodesRead(0)
      BY <3>1 DEF Place, NodesRead
    <3>4. next'[r] - 1 = 0 /\ 1 \in 1..Len(file) + 1
      BY <3>1, <3>2
    <3>5. /\ seek[r] = Place(0) /\ level_tmp[r] = Len(Place(0)) /\ level_tmp[r] \in Nat
          /\ DOMAIN tree[r] = NodesRead(0)
          /\ IsFiniteSet(DOMAIN tree[r]) /\ Cardinality(DOMAIN tree[r]) = 0 + 1
          /\ \A p \in NodesRead(0) : tree[r][p] = [level |-> Len(p), kind |-> built[p]]
      BY <2>0, <3>1 DEF ReaderInv
    <3> QED
      BY <3>1, <3>2, <3>3, <3>4, <3>5 DEF ReaderInv
  <2>5. CASE ReadRecord(r)
    BY <2>5, ReadRecordKeeps
  <2>6. CASE ReadDone(r)
    <3>1. /\ rpc[r] = "read" /\ rpc'[r] = "successfully" /\ next[r] > size[r]
          /\ UNCHANGED <<file, built, size, next, seek, level_tmp, tree>>
      BY <2>0, <2>6 DEF ReadDone, Domains
    <3>2. next[r] = size[r] + 1
      BY <2>0, <3>1 DEF ReaderInv
    <3>3. \A k : Place(k)' = Place(k) /\ NodesRead(k)' = NodesRead(k)
      BY <3>1 DEF Place, NodesRead
    <3> QED
      BY <2>0, <3>1, <3>2, <3>3 DEF ReaderInv
  <2> QED
    BY <2>1, <2>2, <2>3, <2>4, <2>5, <2>6 DEF Next
<1> QED
  BY <1>1, <1>2, <1>3 DEF IndexInv

\* The invariant holds in every reachable state.
LEMMA IndexCorrect == Spec => []IndexInv
<1>1. Init => IndexInv
  BY IndexInit
<1>2. IndexInv /\ [Next]_vars => IndexInv'
  BY IndexNext
<1> QED
  BY <1>1, <1>2, PTL DEF Spec

\* During a build the file holds the records sent so far, and the readers' counters
\* stay what they are.
THEOREM IndexTypesCorrect == Spec => []TypeOK
<1>1. IndexInv => TypeOK
  <2> SUFFICES ASSUME IndexInv PROVE TypeOK
    OBVIOUS
  <2> USE DEF IndexInv, Domains, ReaderInv
  <2>1. BuilderInv
    OBVIOUS
  <2> QED
    BY <2>1 DEF TypeOK, BuilderInv
<1> QED
  BY <1>1, IndexCorrect, PTL

\* However much of a file there is, of whatever tree, reading it never climbs above
\* the root, and puts every record where its node is.
THEOREM ReadsWhatIsThereCorrect == Spec => []ReadsWhatIsThere
<1>1. IndexInv => ReadsWhatIsThere
  <2> SUFFICES ASSUME IndexInv, NEW r \in Readers
               PROVE  /\ rpc[r] # "segv"
                      /\ \A p \in DOMAIN tree[r] :
                            /\ p \in DOMAIN built
                            /\ tree[r][p] = [level |-> Len(p), kind |-> built[p]]
                      /\ rpc[r] # "off" => Cardinality(DOMAIN tree[r]) = next[r]
    BY DEF ReadsWhatIsThere
  <2> DEFINE k == IF rpc[r] = "off" THEN 0 ELSE next[r] - 1
  <2>1. ReaderInv(r) /\ built \in Trees
    BY DEF IndexInv, BuilderInv
  <2>2. /\ DOMAIN tree[r] = NodesRead(k) /\ Cardinality(DOMAIN tree[r]) = k + 1
        /\ \A p \in NodesRead(k) : tree[r][p] = [level |-> Len(p), kind |-> built[p]]
    BY <2>1 DEF ReaderInv
  <2>3. k \in 0..Len(Preorder(built))
    <3>1. Len(Preorder(built)) \in Nat
      BY <2>1, SaveTypes
    <3>2. CASE rpc[r] # "off"
      <4>1. Len(file) \in 0..Len(Preorder(built))
        BY <2>1, <3>2, FileRecords DEF IndexInv, ReaderInv
      <4> QED
        BY <2>1, <3>1, <3>2, <4>1 DEF ReaderInv
    <3> QED
      BY <3>1, <3>2
  <2>4. NodesRead(k) \subseteq DOMAIN built
    <3>1. <<>> \in DOMAIN built
      BY <2>1, TreesAssumption DEF IsTree, IsFiniteTree
    <3>2. \A i \in 1..k : i \in 1..Len(Preorder(built))
      BY <2>1, <2>3, SaveTypes
    <3>3. \A i \in 1..k : Preorder(built)[i] \in DOMAIN built
      BY <2>1, <3>2, NodeTypes
    <3> QED
      BY <3>1, <3>3 DEF NodesRead
  <2>5. rpc[r] # "off" => k + 1 = next[r]
    BY <2>1 DEF ReaderInv
  <2> QED
    BY <2>1, <2>2, <2>4, <2>5 DEF ReaderInv
<1> QED
  BY <1>1, IndexCorrect, PTL

\* A tree that was wholly in the file is read back.
THEOREM RoundTripCorrect == Spec => []RoundTrip
<1>1. IndexInv => RoundTrip
  <2> SUFFICES ASSUME IndexInv, NEW r \in Readers, rpc[r] = "successfully",
                      size[r] = Len(SaveToFile(built))
               PROVE  Loaded(r) = built
    BY DEF RoundTrip
  <2> DEFINE s == Preorder(built)
  <2>1. ReaderInv(r) /\ built \in Trees
    BY DEF IndexInv, BuilderInv
  <2>2. Len(s) \in Nat /\ next[r] - 1 = Len(s)
    BY <2>1, SaveTypes DEF ReaderInv
  <2>3. /\ DOMAIN tree[r] = NodesRead(Len(s))
        /\ \A p \in NodesRead(Len(s)) : tree[r][p] = [level |-> Len(p), kind |-> built[p]]
    BY <2>1, <2>2 DEF ReaderInv
  <2>4. NodesRead(Len(s)) = DOMAIN built
    <3>1. <<>> \in DOMAIN built
      BY <2>1, TreesAssumption DEF IsTree, IsFiniteTree
    <3>2. \A i \in 1..Len(s) : s[i] \in DOMAIN built
      BY <2>1, NodeTypes
    <3>3. \A p \in DOMAIN built \ {<<>>} : \E i \in 1..Len(s) : s[i] = p
      BY <2>1, SavedInPreorder DEF Preordered
    <3> QED
      BY <3>1, <3>2, <3>3 DEF NodesRead
  <2>5. built \in [DOMAIN built -> Kinds]
    BY <2>1, TreesAssumption DEF IsFiniteTree
  <2>6. \A p \in DOMAIN built : tree[r][p].kind = built[p]
    <3> TAKE p \in DOMAIN built
    <3>1. p \in NodesRead(Len(s))
      BY <2>4
    <3> HIDE DEF s
    <3>2. tree[r][p] = [level |-> Len(p), kind |-> built[p]]
      BY <2>3, <3>1
    <3> QED
      BY <3>2
  <2>7. Loaded(r) = [p \in DOMAIN built |-> built[p]]
    BY <2>3, <2>4, <2>6 DEF Loaded
  <2> QED
    BY <2>5, <2>7
<1> QED
  BY <1>1, IndexCorrect, PTL
=============================================================================
