----------------------------- MODULE LineProofs -----------------------------
(***************************************************************************)
(* What a VPQ-tree of points or lines holds, for every depth, every world, *)
(* and every sequence of objects.                                          *)
(***************************************************************************)
EXTENDS VPQTreeProofs

(***************************************************************************)
(* Numbers.  Induction is over sets: a bounded set of numbers that is not  *)
(* empty has a least element.                                              *)
(***************************************************************************)
LEMMA UpTo ==
    ASSUME NEW N \in Nat, NEW S, 0 \in S, \A n \in 0..N - 1 : n \in S => n + 1 \in S
    PROVE  0..N \subseteq S
<1> DEFINE T == {k \in 0..N : N - k \notin S}
<1>1. SUFFICES ASSUME T # {} PROVE FALSE
  <2>1. ASSUME NEW n \in 0..N PROVE n \in S
    <3>1. N - n \in 0..N /\ N - (N - n) = n
      OBVIOUS
    <3> QED
      BY <1>1, <3>1
  <2> QED
    BY <2>1
<1>2. T \subseteq 0..N
  OBVIOUS
<1>3. PICK k \in T : \A j \in T : j <= k
  <2> HIDE DEF T
  <2> QED
    BY <1>1, <1>2, HasGreatest
<1>4. k \in 0..N /\ N - k \notin S
  BY <1>3
<1>5. N - k # 0 /\ N - k \in 0..N
  BY <1>4
<1>6. k + 1 \in 0..N /\ k + 1 \notin T
  BY <1>3, <1>4, <1>5
<1>7. N - (k + 1) \in S
  BY <1>6
<1>8. N - (k + 1) \in 0..N - 1 /\ (N - (k + 1)) + 1 = N - k
  BY <1>4, <1>5
<1> QED
  BY <1>4, <1>7, <1>8

\* A bounded set of integers that is not empty has a least and a greatest one.
LEMMA IntervalMinMax ==
    ASSUME NEW lo \in Int, NEW hi \in Int, NEW S, S \subseteq lo..hi, S # {}
    PROVE  /\ Min(S) \in S /\ \A y \in S : Min(S) <= y
           /\ Max(S) \in S /\ \A y \in S : Max(S) >= y
<1>1. hi - lo \in Nat
  <2>1. PICK y \in S : TRUE
    OBVIOUS
  <2> QED
    BY <2>1
<1>2. \E x \in S : \A y \in S : x >= y
  <2> DEFINE T == {y - lo : y \in S}
  <2>1. T \subseteq 0..hi - lo /\ T # {}
    <3>1. \A y \in S : y - lo \in 0..hi - lo
      OBVIOUS
    <3> QED
      BY <3>1
  <2>2. PICK k \in T : \A j \in T : j <= k
    <3> HIDE DEF T
    <3> QED
      BY <1>1, <2>1, HasGreatest
  <2>3. PICK x \in S : k = x - lo
    BY <2>2
  <2>4. ASSUME NEW y \in S PROVE x >= y
    <3>1. y - lo <= x - lo
      BY <2>2, <2>3
    <3> QED
      BY <2>3, <3>1
  <2> QED
    BY <2>4
<1>3. \E x \in S : \A y \in S : x <= y
  <2> DEFINE T == {hi - y : y \in S}
  <2>1. T \subseteq 0..hi - lo /\ T # {}
    <3>1. \A y \in S : hi - y \in 0..hi - lo
      OBVIOUS
    <3> QED
      BY <3>1
  <2>2. PICK k \in T : \A j \in T : j <= k
    <3> HIDE DEF T
    <3> QED
      BY <1>1, <2>1, HasGreatest
  <2>3. PICK x \in S : k = hi - x
    BY <2>2
  <2>4. ASSUME NEW y \in S PROVE x <= y
    <3>1. hi - y <= hi - x
      BY <2>2, <2>3
    <3> QED
      BY <2>3, <3>1
  <2> QED
    BY <2>4
<1> QED
  BY <1>2, <1>3, Zenon DEF Min, Max

\* Products.
LEMMA ProductMonotone ==
    ASSUME NEW i \in Int, NEW j \in Int, NEW k \in Int, j <= k
    PROVE  /\ i >= 0 => i * j <= i * k
           /\ i <= 0 => i * j >= i * k
OBVIOUS

(***************************************************************************)
(* Pow2 and Box are what their definitions say they are.                   *)
(***************************************************************************)
LEMMA Pow2Definition ==
    /\ Pow2[0] = 1
    /\ \A n \in Nat : Pow2[n] \in Nat \ {0} /\ Pow2[n + 1] = 2 * Pow2[n]
<1> DEFINE G(n) == {g \in [0..n -> Nat \ {0}] : g[0] = 1 /\ \A k \in 0..n - 1 : g[k + 1] = 2 * g[k]}
           g(n) == CHOOSE h \in G(n) : TRUE
           f == [n \in Nat |-> g(n)[n]]
<1>1. ASSUME NEW N \in Nat PROVE G(N) # {}
  <2> DEFINE S == {n \in 0..N : G(n) # {}}
  <2>1. 0 \in S
    <3>1. [k \in 0..0 |-> 1] \in G(0)
      OBVIOUS
    <3> QED
      BY <3>1
  <2>2. ASSUME NEW n \in 0..N - 1, n \in S PROVE n + 1 \in S
    <3>1. PICK h \in G(n) : TRUE
      BY <2>2
    <3> DEFINE e == [k \in 0..n + 1 |-> IF k = n + 1 THEN 2 * h[n] ELSE h[k]]
    <3>2. h \in [0..n -> Nat \ {0}] /\ h[0] = 1 /\ \A k \in 0..n - 1 : h[k + 1] = 2 * h[k]
      BY <3>1
    <3>3. e \in [0..n + 1 -> Nat \ {0}] /\ e[0] = 1
      BY <3>2
    <3>4. \A k \in 0..(n + 1) - 1 : e[k + 1] = 2 * e[k]
      BY <3>2
    <3>5. e \in G(n + 1)
      BY <3>3, <3>4
    <3>6. n + 1 \in 0..N
      OBVIOUS
    <3> HIDE DEF G, e
    <3> QED
      BY <3>5, <3>6
  <2> HIDE DEF S
  <2>3. 0..N \subseteq S
    BY <2>1, <2>2, UpTo
  <2> HIDE DEF G
  <2> QED
    BY <2>3 DEF S
<1>2. \A n \in Nat : g(n) \in G(n)
  BY <1>1
<1>3. ASSUME NEW n \in Nat, NEW h \in G(n), NEW e \in G(n + 1)
      PROVE  e[n + 1] = 2 * h[n]
  <2> DEFINE S == {k \in 0..n : e[k] = h[k]}
  <2>1. /\ h[0] = 1 /\ \A k \in 0..n - 1 : h[k + 1] = 2 * h[k]
        /\ e[0] = 1 /\ \A k \in 0..(n + 1) - 1 : e[k + 1] = 2 * e[k]
    OBVIOUS
  <2>2. 0 \in S /\ \A k \in 0..n - 1 : k \in S => k + 1 \in S
    BY <2>1
  <2> HIDE DEF S
  <2>3. 0..n \subseteq S
    BY <2>2, UpTo
  <2>4. e[n] = h[n] /\ n \in 0..(n + 1) - 1
    BY <2>3 DEF S
  <2> QED
    BY <2>1, <2>4
<1>4. \A n \in Nat : f[n] \in Nat \ {0} /\ f[n] = g(n)[n]
  <2>1. \A n \in Nat : g(n) \in [0..n -> Nat \ {0}] /\ n \in 0..n
    BY <1>2
  <2> HIDE DEF g, G
  <2> QED
    BY <2>1
<1>5. f[0] = 1
  <2>1. g(0)[0] = 1
    BY <1>2
  <2> HIDE DEF g, G
  <2> QED
    BY <2>1
<1>6. ASSUME NEW n \in Nat PROVE f[n + 1] = 2 * f[n]
  <2>1. n + 1 \in Nat
    OBVIOUS
  <2> HIDE DEF g, G
  <2>2. g(n) \in G(n) /\ g(n + 1) \in G(n + 1)
    BY <1>2, <2>1
  <2>3. g(n + 1)[n + 1] = 2 * g(n)[n]
    BY <1>3, <2>2
  <2> QED
    BY <1>4, <2>1, <2>3
<1> HIDE DEF f
<1>7. ASSUME NEW n \in Nat PROVE f[n] = IF n = 0 THEN 1 ELSE 2 * f[n - 1]
  <2>1. CASE n = 0
    BY <2>1, <1>5, Zenon
  <2>2. CASE n # 0
    <3>1. n - 1 \in Nat /\ (n - 1) + 1 = n
      BY <2>2
    <3>2. f[(n - 1) + 1] = 2 * f[n - 1]
      BY <1>6, <3>1, Zenon
    <3> QED
      BY <2>2, <3>1, <3>2
  <2> QED
    BY <2>1, <2>2
<1>8. f = [n \in Nat |-> IF n = 0 THEN 1 ELSE 2 * f[n - 1]]
  <2>1. f = [n \in Nat |-> f[n]]
    <3> HIDE DEF g, G
    <3> QED
      BY SMTT(60) DEF f
  <2> QED
    BY <1>7, <2>1
<1>9. Pow2 = [n \in Nat |-> IF n = 0 THEN 1 ELSE 2 * Pow2[n - 1]]
  BY <1>8, Zenon DEF Pow2
<1>10. Pow2[0] = 1 /\ \A n \in Nat : Pow2[n + 1] = 2 * Pow2[n]
  <2>1. \A n \in Nat : Pow2[n] = IF n = 0 THEN 1 ELSE 2 * Pow2[n - 1]
    BY <1>9, Zenon
  <2>2. \A n \in Nat : n + 1 \in Nat /\ n + 1 # 0 /\ (n + 1) - 1 = n
    OBVIOUS
  <2> QED
    BY <2>1, <2>2
<1>11. ASSUME NEW N \in Nat PROVE Pow2[N] \in Nat \ {0}
  <2> DEFINE S == {n \in 0..N : Pow2[n] \in Nat \ {0}}
  <2>1. 0 \in S /\ \A n \in 0..N - 1 : n \in S => n + 1 \in S
    BY <1>10
  <2> HIDE DEF S
  <2>2. 0..N \subseteq S
    BY <2>1, UpTo
  <2> QED
    BY <2>2 DEF S
<1> QED
  BY <1>10, <1>11

\* A node below another is a child of the one above it.
LEMMA StepDown ==
    ASSUME NEW p \in Paths, NEW n \in 0..Len(p) - 1
    PROVE  /\ p \in Seq(Quads) /\ Len(p) \in Nat /\ Len(p) <= TqTreeLevel /\ TqTreeLevel \in Nat
           /\ p[n + 1] \in Quads
           /\ Above(p, n) \in Inner /\ Above(p, n) \in Paths /\ Len(Above(p, n)) = n
           /\ Above(p, n + 1) \in Paths /\ Len(Above(p, n + 1)) = n + 1
           /\ Above(p, n + 1) = Child(Above(p, n), p[n + 1])
<1>1. p \in Seq(Quads) /\ Len(p) \in Nat /\ Len(p) <= TqTreeLevel /\ TqTreeLevel \in Nat
  BY PathsAreSequences, LenProperties, LevelAssumption
<1>2. n \in 0..Len(p) /\ n + 1 \in 0..Len(p) /\ n + 1 \in 1..Len(p)
  BY <1>1
<1>3. p[n + 1] \in Quads
  BY <1>1, <1>2, ElementOfSeq
<1>4. /\ Above(p, n) \in Seq(Quads) /\ Len(Above(p, n)) = n
      /\ \A i \in 1..n : Above(p, n)[i] = p[i]
      /\ Above(p, n + 1) \in Seq(Quads) /\ Len(Above(p, n + 1)) = n + 1
      /\ \A i \in 1..n + 1 : Above(p, n + 1)[i] = p[i]
  BY <1>1, <1>2, AboveProperties
<1>5. Above(p, n) \in Inner /\ Above(p, n) \in Paths /\ Above(p, n + 1) \in Paths
  BY <1>1, <1>2, <1>4, PathsAreSequences DEF Inner
<1>6. /\ Child(Above(p, n), p[n + 1]) \in Seq(Quads)
      /\ Len(Child(Above(p, n), p[n + 1])) = n + 1
      /\ \A i \in 1..n : Child(Above(p, n), p[n + 1])[i] = p[i]
      /\ Child(Above(p, n), p[n + 1])[n + 1] = p[n + 1]
  BY <1>3, <1>4, AppendProperties DEF Child
<1>7. \A i \in 1..n + 1 : Child(Above(p, n), p[n + 1])[i] = Above(p, n + 1)[i]
  BY <1>2, <1>4, <1>6
<1>8. Above(p, n + 1) = Child(Above(p, n), p[n + 1])
  BY <1>4, <1>6, <1>7, SeqEqual
<1> QED
  BY <1>1, <1>3, <1>4, <1>5, <1>8

\* A child of an inner node: its length, its parent and its ancestors.
LEMMA ChildLen ==
    ASSUME NEW p \in Inner, NEW q \in Quads
    PROVE  /\ p \in Paths /\ Child(p, q) \in Paths /\ Child(p, q) # <<>>
           /\ Parent(Child(p, q)) = p /\ Last(Child(p, q)) = q
           /\ Len(p) \in Nat /\ Len(p) < TqTreeLevel /\ Len(Child(p, q)) = Len(p) + 1
           /\ Above(Child(p, q), Len(p)) = p /\ Above(Child(p, q), Len(p) + 1) = Child(p, q)
           /\ \A n \in 0..Len(p) : Above(Child(p, q), n) = Above(p, n)
<1> DEFINE c == Child(p, q)
<1>1. p \in Seq(Quads) /\ Len(p) \in Nat /\ p \in Paths /\ Len(p) < TqTreeLevel
  BY PathsAreSequences, LenProperties DEF Inner
<1>2. c \in Paths /\ c # <<>> /\ Parent(c) = p
  BY ChildProperties
<1>3. c \in Seq(Quads) /\ Len(c) = Len(p) + 1 /\ c[Len(p) + 1] = q
  BY <1>1, AppendProperties DEF Child
<1> HIDE DEF c
<1>4. Above(c, Len(p)) = p /\ Above(c, Len(p) + 1) = c /\ Last(c) = q
  BY <1>1, <1>2, <1>3, AboveSelf DEF Parent, Last
<1>5. \A n \in 0..Len(p) : Above(c, n) = Above(p, n)
  <2>1. Len(p) \in 0..Len(c)
    BY <1>1, <1>3
  <2> QED
    BY <1>3, <1>4, <2>1, AboveAbove
<1> QED
  BY <1>1, <1>2, <1>3, <1>4, <1>5 DEF c

\* The recursive function Box exists: the equations of its definition hold.
LEMMA BoxDefinition ==
    /\ Box[<<>>] = World
    /\ \A p \in Inner, q \in Quads : Box[Child(p, q)] = Quarter(Box[p], q)
<1> DEFINE Is(f, p) == f[p] = IF p = <<>> THEN World ELSE Quarter(f[Parent(p)], Last(p))
           S == {n \in 0..TqTreeLevel :
                    \E f : f = [p \in Paths |-> f[p]] /\ \A p \in Paths : Len(p) <= n => Is(f, p)}
<1>1. TqTreeLevel \in Nat /\ \A p \in Paths : Len(p) \in Nat /\ Len(p) <= TqTreeLevel
  BY PathsAreSequences, LenProperties, LevelAssumption
<1>2. 0 \in S
  <2> DEFINE f == [p \in Paths |-> World]
  <2>1. f = [p \in Paths |-> f[p]]
    OBVIOUS
  <2>2. \A p \in Paths : Len(p) <= 0 => Is(f, p)
    <3>1. \A p \in Paths : Len(p) <= 0 => p = <<>>
      BY <1>1, PathsAreSequences, EmptySeq
    <3> QED
      BY <3>1
  <2> HIDE DEF f, Is
  <2> QED
    BY <1>1, <2>1, <2>2
<1>3. ASSUME NEW n \in 0..TqTreeLevel - 1, n \in S PROVE n + 1 \in S
  <2>1. PICK f : f = [p \in Paths |-> f[p]] /\ \A p \in Paths : Len(p) <= n => Is(f, p)
    BY <1>3
  <2> DEFINE g == [p \in Paths |->
                      IF p = <<>> THEN World ELSE Quarter(f[Parent(p)], Last(p))]
  <2>2. g = [p \in Paths |-> g[p]]
    OBVIOUS
  <2>3. ASSUME NEW p \in Paths, Len(p) <= n PROVE g[p] = f[p]
    BY <2>1, <2>3
  <2>4. ASSUME NEW p \in Paths, Len(p) <= n + 1 PROVE Is(g, p)
    <3>1. CASE p = <<>>
      BY <3>1
    <3>2. CASE p # <<>>
      <4>1. Parent(p) \in Paths /\ Len(Parent(p)) = Len(p) - 1
        BY <3>2, ParentProperties
      <4>2. g[Parent(p)] = f[Parent(p)]
        BY <1>1, <2>3, <2>4, <4>1
      <4> QED
        BY <3>2, <4>2
    <3> QED
      BY <3>1, <3>2
  <2> HIDE DEF g, Is
  <2> QED
    BY <1>1, <2>2, <2>4
<1> HIDE DEF S, Is
<1>4. 0..TqTreeLevel \subseteq S
  BY <1>1, <1>2, <1>3, UpTo
<1>5. TqTreeLevel \in S
  BY <1>1, <1>4
<1>6. PICK f : f = [p \in Paths |-> f[p]] /\ \A p \in Paths : Len(p) <= TqTreeLevel => Is(f, p)
  BY <1>5 DEF S
<1>7. \A p \in Paths : Is(f, p)
  BY <1>1, <1>6
<1>8. f = [p \in Paths |-> IF p = <<>> THEN World ELSE Quarter(f[Parent(p)], Last(p))]
  BY <1>6, <1>7, Zenon DEF Is
<1>9. Box = [p \in Paths |-> IF p = <<>> THEN World ELSE Quarter(Box[Parent(p)], Last(p))]
  BY <1>8, Zenon DEF Box
<1>10. Box[<<>>] = World
  BY <1>9, RootIsPath, Zenon
<1>11. ASSUME NEW p \in Inner, NEW q \in Quads PROVE Box[Child(p, q)] = Quarter(Box[p], q)
  <2> DEFINE c == Child(p, q)
  <2>1. c \in Paths /\ c # <<>> /\ Parent(c) = p /\ Last(c) = q
    BY ChildLen
  <2> HIDE DEF c
  <2>2. Box[c] = IF c = <<>> THEN World ELSE Quarter(Box[Parent(c)], Last(c))
    BY <1>9, <2>1, Zenon
  <2>3. Box[c] = Quarter(Box[Parent(c)], Last(c))
    BY <2>1, <2>2, Zenon
  <2>4. Box[c] = Quarter(Box[p], q)
    BY <2>1, <2>3, Zenon
  <2> QED
    BY <2>4 DEF c
<1> QED
  BY <1>10, <1>11

(***************************************************************************)
(* Squares.  Those of nodes can be halved.                                 *)
(***************************************************************************)
Squares == [x : Int, y : Int, w : Nat \ {0}]

\* The centre of a square of even width and its four quarters.
LEMMA Halves ==
    ASSUME NEW b \in Squares, NEW h \in Nat \ {0}, b.w = 2 * h
    PROVE  /\ Centre(b) = [x |-> b.x + h, y |-> b.y + h]
           /\ \A q \in Quads :
                 /\ Quarter(b, q) \in Squares
                 /\ Quarter(b, q).x = (IF q \in {2, 4} THEN b.x + h ELSE b.x)
                 /\ Quarter(b, q).y = (IF q \in {1, 2} THEN b.y + h ELSE b.y)
                 /\ Quarter(b, q).w = h
<1>1. b.w \div 2 = h
  OBVIOUS
<1>2. b.x \in Int /\ b.y \in Int
  BY DEF Squares
<1> QED
  BY <1>1, <1>2 DEF Centre, Quarter, Squares

\* The square of a node: its width times 2^depth is the width of the world,
\* and it is even.
LEMMA BoxSize ==
    ASSUME NEW p \in Paths
    PROVE  /\ Box[p] \in Squares
           /\ Box[p].w * Pow2[Len(p)] = Width
           /\ \E h \in Nat \ {0} : Box[p].w = 2 * h
<1> DEFINE L == TqTreeLevel
           P(o) == /\ Box[o] \in Squares
                   /\ Box[o].w * Pow2[Len(o)] = Width
                   /\ \E k \in Nat \ {0} : Box[o].w = k * Pow2[L + 1 - Len(o)]
           S == {n \in 0..Len(p) : P(Above(p, n))}
<1>1. /\ p \in Seq(Quads) /\ Len(p) \in Nat /\ Len(p) <= L /\ L \in Nat
      /\ Width \in Nat \ {0} /\ Width % Pow2[L + 1] = 0
  BY PathsAreSequences, LenProperties, LevelAssumption, WidthAssumption
<1>2. 0 \in S
  <2>1. Above(p, 0) = <<>> /\ Len(<<>>) = 0
    BY <1>1, AboveProperties, EmptySeq
  <2>2. Box[<<>>] \in Squares /\ Box[<<>>].w = Width
    BY <1>1, BoxDefinition DEF World, Squares
  <2>3. Pow2[0] = 1 /\ Pow2[L + 1] \in Nat \ {0}
    BY <1>1, Pow2Definition
  <2>4. \E k \in Nat \ {0} : Width = k * Pow2[L + 1]
    <3> DEFINE M == Pow2[L + 1]
               k == Width \div M
    <3>1. M \in Nat \ {0} /\ Width % M = 0
      BY <1>1, <2>3
    <3> HIDE DEF M
    <3>2. Width = M * k + (Width % M) /\ k \in Nat
      BY <1>1, <3>1
    <3> HIDE DEF k
    <3>3. Width = k * M
      BY <3>1, <3>2
    <3>4. k # 0
      BY <1>1, <3>1, <3>3
    <3> QED
      BY <3>2, <3>3, <3>4 DEF M
  <2>5. L + 1 - 0 = L + 1
    BY <1>1
  <2>6. Width * 1 = Width
    BY <1>1
  <2> QED
    BY <1>1, <2>1, <2>2, <2>3, <2>4, <2>5, <2>6
<1>3. ASSUME NEW n \in 0..Len(p) - 1, n \in S PROVE n + 1 \in S
  <2> DEFINE a == Above(p, n)
             c == Above(p, n + 1)
             q == p[n + 1]
  <2>1. /\ a \in Inner /\ Len(a) = n /\ Len(c) = n + 1 /\ c = Child(a, q) /\ q \in Quads
    BY <1>1, StepDown
  <2>2. Box[c] = Quarter(Box[a], q)
    BY <2>1, BoxDefinition
  <2>3. P(a)
    BY <1>3
  <2>4. PICK k \in Nat \ {0} : Box[a].w = k * Pow2[L + 1 - n]
    BY <2>1, <2>3
  <2>5. L - n \in Nat /\ L + 1 - n = (L - n) + 1 /\ L + 1 - (n + 1) = L - n /\ n \in Nat
    BY <1>1
  <2>6. /\ Pow2[L + 1 - n] = 2 * Pow2[L - n] /\ Pow2[L - n] \in Nat \ {0}
        /\ Pow2[n + 1] = 2 * Pow2[n] /\ Pow2[n] \in Nat \ {0}
    BY <2>5, Pow2Definition
  <2> DEFINE h == k * Pow2[L - n]
  <2>7. h \in Nat \ {0} /\ Box[a].w = 2 * h
    BY <2>4, <2>6, SMTT(30)
  <2>8. Box[c] \in Squares /\ Box[c].w = h
    <3> HIDE DEF h, a, c, q
    <3> QED
      BY <2>1, <2>2, <2>3, <2>7, Halves
  <2>9. h * Pow2[n + 1] = Width
    <3>1. (2 * h) * Pow2[n] = Width
      BY <2>1, <2>3, <2>7
    <3> HIDE DEF h
    <3> QED
      BY <2>6, <2>7, <3>1
  <2>10. P(c)
    BY <2>1, <2>5, <2>8, <2>9
  <2> HIDE DEF P, c
  <2> QED
    BY <1>1, <2>10 DEF c
<1> HIDE DEF S
<1>4. 0..Len(p) \subseteq S
  BY <1>1, <1>2, <1>3, UpTo
<1>5. P(p)
  <2>1. Len(p) \in S
    BY <1>1, <1>4
  <2> QED
    BY <1>1, <2>1, AboveSelf DEF S
<1>6. PICK k \in Nat \ {0} : Box[p].w = k * Pow2[L + 1 - Len(p)]
  BY <1>5
<1>7. L + 1 - Len(p) = (L - Len(p)) + 1 /\ L - Len(p) \in Nat
  BY <1>1
<1>8. Pow2[L + 1 - Len(p)] = 2 * Pow2[L - Len(p)] /\ Pow2[L - Len(p)] \in Nat \ {0}
  BY <1>7, Pow2Definition
<1>9. k * Pow2[L - Len(p)] \in Nat \ {0} /\ Box[p].w = 2 * (k * Pow2[L - Len(p)])
  BY <1>6, <1>8
<1> QED
  BY <1>5, <1>9

(***************************************************************************)
(* Bounding rectangles.                                                    *)
(***************************************************************************)
Rects == [x_min : Int, x_max : Int, y_min : Int, y_max : Int]

\* The least and the greatest of two integers.
LEMMA PairMinMax ==
    ASSUME NEW u \in Int, NEW v \in Int
    PROVE  /\ Min({u, v}) = (IF u <= v THEN u ELSE v)
           /\ Max({u, v}) = (IF u <= v THEN v ELSE u)
<1> DEFINE lo == IF u <= v THEN u ELSE v
           hi == IF u <= v THEN v ELSE u
<1>1. lo \in Int /\ hi \in Int /\ {u, v} \subseteq lo..hi /\ {u, v} # {}
  OBVIOUS
<1> HIDE DEF lo, hi
<1>2. /\ Min({u, v}) \in {u, v} /\ \A y \in {u, v} : Min({u, v}) <= y
      /\ Max({u, v}) \in {u, v} /\ \A y \in {u, v} : Max({u, v}) >= y
  BY <1>1, IntervalMinMax
<1> QED
  BY <1>2 DEF lo, hi

\* The bounding rectangle of two points.
LEMMA PairMBR ==
    ASSUME NEW a \in Locations, NEW b \in Locations
    PROVE  /\ MBR({a, b}) \in Rects
           /\ MBR({a, b}).x_min = (IF a.x <= b.x THEN a.x ELSE b.x)
           /\ MBR({a, b}).x_max = (IF a.x <= b.x THEN b.x ELSE a.x)
           /\ MBR({a, b}).y_min = (IF a.y <= b.y THEN a.y ELSE b.y)
           /\ MBR({a, b}).y_max = (IF a.y <= b.y THEN b.y ELSE a.y)
<1>1. a.x \in Int /\ a.y \in Int /\ b.x \in Int /\ b.y \in Int
  BY DEF Locations
<1>2. {p.x : p \in {a, b}} = {a.x, b.x} /\ {p.y : p \in {a, b}} = {a.y, b.y}
  OBVIOUS
<1>3. MBR({a, b}) = [x_min |-> Min({a.x, b.x}), x_max |-> Max({a.x, b.x}),
                     y_min |-> Min({a.y, b.y}), y_max |-> Max({a.y, b.y})]
  BY <1>2 DEF MBR
<1>4. /\ Min({a.x, b.x}) = (IF a.x <= b.x THEN a.x ELSE b.x)
      /\ Max({a.x, b.x}) = (IF a.x <= b.x THEN b.x ELSE a.x)
      /\ Min({a.y, b.y}) = (IF a.y <= b.y THEN a.y ELSE b.y)
      /\ Max({a.y, b.y}) = (IF a.y <= b.y THEN b.y ELSE a.y)
  BY <1>1, PairMinMax
<1> QED
  BY <1>1, <1>3, <1>4 DEF Rects

\* The bounding rectangle of one point.
LEMMA PointMBR ==
    ASSUME NEW a \in Locations
    PROVE  MBR({a}) = [x_min |-> a.x, x_max |-> a.x, y_min |-> a.y, y_max |-> a.y]
<1>1. {a} = {a, a} /\ a.x \in Int /\ a.y \in Int
  BY DEF Locations
<1>2. /\ MBR({a, a}).x_min = a.x /\ MBR({a, a}).x_max = a.x
      /\ MBR({a, a}).y_min = a.y /\ MBR({a, a}).y_max = a.y
  BY <1>1, PairMBR
<1>3. MBR({a, a}) = [x_min |-> MBR({a, a}).x_min, x_max |-> MBR({a, a}).x_max,
                     y_min |-> MBR({a, a}).y_min, y_max |-> MBR({a, a}).y_max]
  BY DEF MBR
<1> QED
  BY <1>1, <1>2, <1>3

\* The values of a finite sequence of numbers are bounded.
LEMMA Bounded ==
    ASSUME NEW N \in Nat, NEW f, \A i \in 1..N : f[i] \in Int
    PROVE  \E lo \in Int, hi \in Int : \A i \in 1..N : f[i] \in lo..hi
<1> DEFINE P(n) == \E lo \in Int, hi \in Int : \A i \in 1..n : f[i] \in lo..hi
           S == {n \in 0..N : P(n)}
<1>1. 0 \in S
  OBVIOUS
<1>2. ASSUME NEW n \in 0..N - 1, n \in S PROVE n + 1 \in S
  <2>1. PICK lo \in Int, hi \in Int : \A i \in 1..n : f[i] \in lo..hi
    BY <1>2
  <2>2. f[n + 1] \in Int
    OBVIOUS
  <2> DEFINE l == IF f[n + 1] < lo THEN f[n + 1] ELSE lo
             h == IF f[n + 1] > hi THEN f[n + 1] ELSE hi
  <2>3. l \in Int /\ h \in Int /\ \A i \in 1..n + 1 : f[i] \in l..h
    BY <2>1, <2>2
  <2> HIDE DEF l, h
  <2>4. P(n + 1)
    BY <2>3, Zenon
  <2>5. n + 1 \in 0..N
    OBVIOUS
  <2> HIDE DEF P
  <2> QED
    BY <2>4, <2>5
<1> HIDE DEF S
<1>3. 0..N \subseteq S
  BY <1>1, <1>2, UpTo
<1> HIDE DEF P
<1>4. P(N)
  BY <1>3 DEF S
<1> QED
  BY <1>4 DEF P

\* The bounding rectangle of a sequence of points holds them, and each of
\* its four sides touches one.
LEMMA SequenceMBR ==
    ASSUME NEW pts \in Seq(Locations), Len(pts) > 0
    PROVE  /\ MBR(Range(pts)) \in Rects
           /\ \A i \in 1..Len(pts) : /\ pts[i] \in Locations
                                      /\ pts[i].x >= MBR(Range(pts)).x_min
                                      /\ pts[i].x <= MBR(Range(pts)).x_max
                                      /\ pts[i].y >= MBR(Range(pts)).y_min
                                      /\ pts[i].y <= MBR(Range(pts)).y_max
           /\ \E i \in 1..Len(pts) : pts[i].x = MBR(Range(pts)).x_min
           /\ \E i \in 1..Len(pts) : pts[i].x = MBR(Range(pts)).x_max
           /\ \E i \in 1..Len(pts) : pts[i].y = MBR(Range(pts)).y_min
           /\ \E i \in 1..Len(pts) : pts[i].y = MBR(Range(pts)).y_max
<1> DEFINE N == Len(pts)
           X == {p.x : p \in Range(pts)}
           Y == {p.y : p \in Range(pts)}
<1>1. N \in Nat /\ DOMAIN pts = 1..N /\ \A i \in 1..N : pts[i] \in Locations
  BY LenProperties, ElementOfSeq
<1>2. \A i \in 1..N : pts[i].x \in Int /\ pts[i].y \in Int
  BY <1>1 DEF Locations
<1>3. Range(pts) = {pts[i] : i \in 1..N}
  BY <1>1 DEF Range
<1>4. X = {pts[i].x : i \in 1..N} /\ Y = {pts[i].y : i \in 1..N}
  BY <1>3
<1>5. 1 \in 1..N
  BY <1>1
<1>6. MBR(Range(pts)) = [x_min |-> Min(X), x_max |-> Max(X), y_min |-> Min(Y), y_max |-> Max(Y)]
  BY DEF MBR
<1> HIDE DEF N, X, Y
<1>7. /\ Min(X) \in X /\ \A y \in X : Min(X) <= y
      /\ Max(X) \in X /\ \A y \in X : Max(X) >= y
  <2> DEFINE f == [i \in 1..N |-> pts[i].x]
  <2>1. \A i \in 1..N : f[i] \in Int
    BY <1>2
  <2>2. PICK lo \in Int, hi \in Int : \A i \in 1..N : f[i] \in lo..hi
    <3> HIDE DEF f
    <3> QED
      BY <1>1, <2>1, Bounded
  <2>3. X \subseteq lo..hi /\ X # {}
    BY <1>4, <1>5, <2>2
  <2> QED
    BY <2>3, IntervalMinMax
<1>8. /\ Min(Y) \in Y /\ \A y \in Y : Min(Y) <= y
      /\ Max(Y) \in Y /\ \A y \in Y : Max(Y) >= y
  <2> DEFINE f == [i \in 1..N |-> pts[i].y]
  <2>1. \A i \in 1..N : f[i] \in Int
    BY <1>2
  <2>2. PICK lo \in Int, hi \in Int : \A i \in 1..N : f[i] \in lo..hi
    <3> HIDE DEF f
    <3> QED
      BY <1>1, <2>1, Bounded
  <2>3. Y \subseteq lo..hi /\ Y # {}
    BY <1>4, <1>5, <2>2
  <2> QED
    BY <2>3, IntervalMinMax
<1>9. /\ \E i \in 1..N : Min(X) = pts[i].x
      /\ \E i \in 1..N : Max(X) = pts[i].x
      /\ \E i \in 1..N : Min(Y) = pts[i].y
      /\ \E i \in 1..N : Max(Y) = pts[i].y
  BY <1>4, <1>7, <1>8
<1>10. MBR(Range(pts)) \in Rects
  BY <1>2, <1>6, <1>9 DEF Rects
<1>11. \A i \in 1..N : pts[i].x \in X /\ pts[i].y \in Y
  BY <1>4
<1>12. \A i \in 1..N : /\ pts[i] \in Locations
                        /\ pts[i].x >= Min(X) /\ pts[i].x <= Max(X)
                        /\ pts[i].y >= Min(Y) /\ pts[i].y <= Max(Y)
  <2>1. Min(X) \in Int /\ Max(X) \in Int /\ Min(Y) \in Int /\ Max(Y) \in Int
    BY <1>2, <1>9
  <2> QED
    BY <1>1, <1>2, <1>7, <1>8, <1>11, <2>1
<1> QED
  BY <1>6, <1>9, <1>10, <1>12 DEF N

(***************************************************************************)
(* Segments and squares.                                                   *)
(***************************************************************************)
At(x, y) == [x |-> x, y |-> y]

Within(c, b) == /\ b.x <= c.x /\ c.x + c.w <= b.x + b.w
                /\ b.y <= c.y /\ c.y + c.w <= b.y + b.w

Holds(b, pt) == /\ b.x <= pt.x /\ pt.x <= b.x + b.w
                /\ b.y <= pt.y /\ pt.y <= b.y + b.w

\* The four corners of a square, all held by it.
LEMMA CornerSet ==
    ASSUME NEW b \in Squares
    PROVE  /\ Corners(b) = {At(b.x, b.y), At(b.x + b.w, b.y), At(b.x, b.y + b.w), At(b.x + b.w, b.y + b.w)}
           /\ \A c \in Corners(b) : c \in Locations /\ Holds(b, c)
<1>1. b.x \in Int /\ b.y \in Int /\ b.w \in Nat \ {0}
  BY DEF Squares
<1>2. /\ b.x + 0 * b.w = b.x /\ b.x + 1 * b.w = b.x + b.w
      /\ b.y + 0 * b.w = b.y /\ b.y + 1 * b.w = b.y + b.w
  BY <1>1
<1>3. 0..1 = {0, 1}
  OBVIOUS
<1>4. Corners(b) = {At(b.x + i * b.w, b.y + j * b.w) : i \in {0, 1}, j \in {0, 1}}
  BY <1>3 DEF Corners, At
<1>5. Corners(b) = {At(b.x + 0 * b.w, b.y + 0 * b.w), At(b.x + 1 * b.w, b.y + 0 * b.w),
                    At(b.x + 0 * b.w, b.y + 1 * b.w), At(b.x + 1 * b.w, b.y + 1 * b.w)}
  BY <1>4
<1>6. Corners(b) = {At(b.x, b.y), At(b.x + b.w, b.y), At(b.x, b.y + b.w), At(b.x + b.w, b.y + b.w)}
  BY <1>2, <1>5
<1>7. \A c \in Corners(b) : c \in Locations /\ Holds(b, c)
  BY <1>1, <1>6 DEF At, Locations, Holds
<1> QED
  BY <1>6, <1>7

\* Cross is linear, so it is greatest and least in a corner.
LEMMA CornerExtremes ==
    ASSUME NEW a \in Locations, NEW b \in Locations, NEW box \in Squares,
           NEW pt \in Locations, Holds(box, pt)
    PROVE  /\ \E c \in Corners(box) : Cross(a, b, c) >= Cross(a, b, pt)
           /\ \E c \in Corners(box) : Cross(a, b, c) <= Cross(a, b, pt)
<1> DEFINE dx == b.x - a.x
           dy == b.y - a.y
           l == box.x - a.x
           r == (box.x + box.w) - a.x
           d == box.y - a.y
           u == (box.y + box.w) - a.y
           px == pt.x - a.x
           py == pt.y - a.y
<1>1. /\ a.x \in Int /\ a.y \in Int /\ b.x \in Int /\ b.y \in Int
      /\ pt.x \in Int /\ pt.y \in Int
      /\ box.x \in Int /\ box.y \in Int /\ box.w \in Nat \ {0}
  BY DEF Locations, Squares
<1>2. /\ dx \in Int /\ dy \in Int /\ l \in Int /\ r \in Int /\ d \in Int /\ u \in Int
      /\ px \in Int /\ py \in Int
      /\ l <= px /\ px <= r /\ d <= py /\ py <= u
  BY <1>1 DEF Holds
<1>3. /\ Cross(a, b, pt) = dx * py - dy * px
      /\ Cross(a, b, At(box.x, box.y)) = dx * d - dy * l
      /\ Cross(a, b, At(box.x + box.w, box.y)) = dx * d - dy * r
      /\ Cross(a, b, At(box.x, box.y + box.w)) = dx * u - dy * l
      /\ Cross(a, b, At(box.x + box.w, box.y + box.w)) = dx * u - dy * r
  BY DEF Cross, At
<1>4. /\ At(box.x, box.y) \in Corners(box) /\ At(box.x + box.w, box.y) \in Corners(box)
      /\ At(box.x, box.y + box.w) \in Corners(box)
      /\ At(box.x + box.w, box.y + box.w) \in Corners(box)
  BY CornerSet
<1> HIDE DEF dx, dy, l, r, d, u, px, py
<1>5. /\ dx >= 0 => dx * d <= dx * py /\ dx * py <= dx * u
      /\ dx <= 0 => dx * d >= dx * py /\ dx * py >= dx * u
      /\ dy >= 0 => dy * l <= dy * px /\ dy * px <= dy * r
      /\ dy <= 0 => dy * l >= dy * px /\ dy * px >= dy * r
  BY <1>2, ProductMonotone
<1>6. /\ dx * d \in Int /\ dx * u \in Int /\ dx * py \in Int
      /\ dy * l \in Int /\ dy * r \in Int /\ dy * px \in Int
  BY <1>2
<1>7. dx >= 0 \/ dx <= 0
  BY <1>2
<1>8. dy >= 0 \/ dy <= 0
  BY <1>2
<1>9. \/ dx * u - dy * l >= dx * py - dy * px \/ dx * u - dy * r >= dx * py - dy * px
      \/ dx * d - dy * l >= dx * py - dy * px \/ dx * d - dy * r >= dx * py - dy * px
  BY <1>5, <1>6, <1>7, <1>8
<1>10. \/ dx * u - dy * l <= dx * py - dy * px \/ dx * u - dy * r <= dx * py - dy * px
       \/ dx * d - dy * l <= dx * py - dy * px \/ dx * d - dy * r <= dx * py - dy * px
  BY <1>5, <1>6, <1>7, <1>8
<1>11. \E c \in Corners(box) : Cross(a, b, c) >= Cross(a, b, pt)
  BY <1>3, <1>4, <1>9
<1>12. \E c \in Corners(box) : Cross(a, b, c) <= Cross(a, b, pt)
  BY <1>3, <1>4, <1>10
<1> QED
  BY <1>11, <1>12

\* The cross product is an integer.
LEMMA CrossInt ==
    ASSUME NEW a \in Locations, NEW b \in Locations, NEW c \in Locations
    PROVE  Cross(a, b, c) \in Int
BY DEF Cross, Locations

\* What enters a square enters every square around it.
LEMMA EntersWithin ==
    ASSUME NEW a \in Locations, NEW b \in Locations,
           NEW c \in Squares, NEW box \in Squares, Within(c, box), Enters(a, b, c)
    PROVE  Enters(a, b, box)
<1>1. MBR({a, b}) \in Rects
  BY PairMBR
<1>2. IsIntersect(box, MBR({a, b}))
  BY <1>1 DEF Enters, IsIntersect, Within, Squares, Rects
<1>3. ASSUME NEW e \in Corners(c)
      PROVE  /\ e \in Locations
             /\ \E f \in Corners(box) : Cross(a, b, f) >= Cross(a, b, e)
             /\ \E f \in Corners(box) : Cross(a, b, f) <= Cross(a, b, e)
  <2>1. e \in Locations /\ Holds(c, e)
    BY CornerSet
  <2>2. Holds(box, e)
    BY <2>1 DEF Holds, Within, Squares, Locations
  <2> QED
    BY <2>1, <2>2, CornerExtremes
<1>4. \A f \in Corners(box) : Cross(a, b, f) \in Int
  BY CornerSet, CrossInt
<1>5. \A e \in Corners(c) : Cross(a, b, e) \in Int
  BY <1>3, CrossInt
<1>6. ASSUME a # b
      PROVE  /\ \E f \in Corners(box) : Cross(a, b, f) > 0
             /\ \E f \in Corners(box) : Cross(a, b, f) < 0
  <2>1. PICK e \in Corners(c) : Cross(a, b, e) > 0
    BY <1>6 DEF Enters
  <2>2. PICK g \in Corners(c) : Cross(a, b, g) < 0
    BY <1>6 DEF Enters
  <2>3. PICK f \in Corners(box) : Cross(a, b, f) >= Cross(a, b, e)
    BY <1>3
  <2>4. PICK h \in Corners(box) : Cross(a, b, h) <= Cross(a, b, g)
    BY <1>3
  <2>5. Cross(a, b, f) > 0 /\ Cross(a, b, h) < 0
    BY <1>4, <1>5, <2>1, <2>2, <2>3, <2>4
  <2> QED
    BY <2>5
<1> QED
  BY <1>2, <1>6 DEF Enters

\* A segment with an end in a square touches it.
LEMMA EndTouches ==
    ASSUME NEW a \in Locations, NEW b \in Locations, NEW box \in Squares, Holds(box, a)
    PROVE  Touches(a, b, box)
<1>1. MBR({a, b}) \in Rects
  BY PairMBR
<1>2. Cross(a, b, a) = 0
  BY DEF Cross, Locations
<1>3. /\ \E c \in Corners(box) : Cross(a, b, c) >= 0
      /\ \E c \in Corners(box) : Cross(a, b, c) <= 0
  BY <1>2, CornerExtremes
<1> DEFINE r == MBR({a, b})
<1>4. r.x_min <= a.x /\ a.x <= r.x_max /\ r.y_min <= a.y /\ a.y <= r.y_max
  BY PairMBR DEF Locations
<1>5. /\ r.x_min <= box.x + box.w /\ r.x_max >= box.x
      /\ r.y_min <= box.y + box.w /\ r.y_max >= box.y
  <2> HIDE DEF r
  <2> QED
    BY <1>1, <1>4 DEF Holds, Locations, Squares, Rects, r
<1> QED
  BY <1>3, <1>5 DEF Touches

\* What goes through the inside of a square touches it.
LEMMA EntersTouches ==
    ASSUME NEW a \in Locations, NEW b \in Locations, NEW box \in Squares, Enters(a, b, box)
    PROVE  Touches(a, b, box)
<1>1. MBR({a, b}) \in Rects
  BY PairMBR
<1>2. \A c \in Corners(box) : Cross(a, b, c) \in Int
  BY CornerSet, CrossInt
<1> DEFINE r == MBR({a, b})
<1>3. /\ r.x_min <= box.x + box.w /\ r.x_max >= box.x
      /\ r.y_min <= box.y + box.w /\ r.y_max >= box.y
  BY <1>1 DEF Enters, IsIntersect, Squares, Rects
<1>4. /\ \E c \in Corners(box) : Cross(a, b, c) >= 0
      /\ \E c \in Corners(box) : Cross(a, b, c) <= 0
  <2>1. CASE a # b
    BY <1>2, <2>1 DEF Enters
  <2>2. CASE a = b
    <3>1. \A c \in Locations : Cross(a, b, c) = 0
      BY <2>2 DEF Cross, Locations
    <3>2. \A c \in Corners(box) : Cross(a, b, c) = 0
      BY <3>1, CornerSet
    <3>3. \E c \in Corners(box) : TRUE
      BY CornerSet
    <3> QED
      BY <3>2, <3>3
  <2> QED
    BY <2>1, <2>2
<1> QED
  BY <1>3, <1>4 DEF Touches

(***************************************************************************)
(* The code's test of a segment against a square.                          *)
(***************************************************************************)
LEMMA SegmentFields ==
    ASSUME NEW a \in Locations, NEW b \in Locations
    PROVE  /\ Segment(a, b).mbr = MBR({a, b}) /\ Segment(a, b).mbr \in Rects
           /\ Segment(a, b).obj_type = ObjType(a, b) /\ ObjType(a, b) \in {"0", "1"}
BY PairMBR DEF Segment, ObjType

\* The side of a point is that of the cross product, or for some segments the
\* opposite one.
LEMMA SideIsCross ==
    ASSUME NEW a \in Locations, NEW b \in Locations
    PROVE  \/ \A pt \in Locations : Side(Segment(a, b), pt.x, pt.y) = Cross(a, b, pt)
           \/ \A pt \in Locations : Side(Segment(a, b), pt.x, pt.y) = 0 - Cross(a, b, pt)
<1> DEFINE s == Segment(a, b)
           r == MBR({a, b})
<1>1. /\ a.x \in Int /\ a.y \in Int /\ b.x \in Int /\ b.y \in Int
      /\ \A pt \in Locations : pt.x \in Int /\ pt.y \in Int
  BY DEF Locations
<1>2. s.mbr = r /\ s.obj_type = ObjType(a, b)
  BY SegmentFields
<1>3. /\ r.x_min = (IF a.x <= b.x THEN a.x ELSE b.x)
      /\ r.x_max = (IF a.x <= b.x THEN b.x ELSE a.x)
      /\ r.y_min = (IF a.y <= b.y THEN a.y ELSE b.y)
      /\ r.y_max = (IF a.y <= b.y THEN b.y ELSE a.y)
  BY PairMBR
<1> HIDE DEF s, r
<1>4. CASE b.x >= a.x /\ b.y >= a.y
  <2>1. ObjType(a, b) = "0" /\ r.x_min = a.x /\ r.x_max = b.x /\ r.y_min = a.y /\ r.y_max = b.y
    BY <1>1, <1>3, <1>4 DEF ObjType
  <2>2. \A pt \in Locations :
          Side(s, pt.x, pt.y) = (b.x - a.x) * (pt.y - a.y) - (pt.x - a.x) * (b.y - a.y)
    BY <1>2, <2>1 DEF Side
  <2>3. \A pt \in Locations : Side(s, pt.x, pt.y) = Cross(a, b, pt)
    BY <1>1, <2>2 DEF Cross
  <2> QED
    BY <2>3 DEF s
<1>5. CASE b.x <= a.x /\ b.y <= a.y /\ ~(b.x >= a.x /\ b.y >= a.y)
  <2>1. ObjType(a, b) = "0" /\ r.x_min = b.x /\ r.x_max = a.x /\ r.y_min = b.y /\ r.y_max = a.y
    BY <1>1, <1>3, <1>5 DEF ObjType
  <2>2. \A pt \in Locations :
          Side(s, pt.x, pt.y) = (a.x - b.x) * (pt.y - b.y) - (pt.x - b.x) * (a.y - b.y)
    BY <1>2, <2>1 DEF Side
  <2>3. \A pt \in Locations : Side(s, pt.x, pt.y) = 0 - Cross(a, b, pt)
    BY <1>1, <2>2 DEF Cross
  <2> QED
    BY <2>3 DEF s
<1>6. CASE b.x > a.x /\ b.y < a.y
  <2>1. ObjType(a, b) = "1" /\ r.x_min = a.x /\ r.x_max = b.x /\ r.y_min = b.y /\ r.y_max = a.y
    BY <1>1, <1>3, <1>6 DEF ObjType
  <2>2. \A pt \in Locations :
          Side(s, pt.x, pt.y) = (b.x - a.x) * (pt.y - a.y) + (pt.x - a.x) * (a.y - b.y)
    BY <1>2, <2>1 DEF Side
  <2>3. \A pt \in Locations : Side(s, pt.x, pt.y) = Cross(a, b, pt)
    BY <1>1, <2>2 DEF Cross
  <2> QED
    BY <2>3 DEF s
<1>7. CASE b.x < a.x /\ b.y > a.y
  <2>1. ObjType(a, b) = "1" /\ r.x_min = b.x /\ r.x_max = a.x /\ r.y_min = a.y /\ r.y_max = b.y
    BY <1>1, <1>3, <1>7 DEF ObjType
  <2>2. \A pt \in Locations :
          Side(s, pt.x, pt.y) = (a.x - b.x) * (pt.y - b.y) + (pt.x - b.x) * (b.y - a.y)
    BY <1>2, <2>1 DEF Side
  <2>3. \A pt \in Locations : Side(s, pt.x, pt.y) = 0 - Cross(a, b, pt)
    BY <1>1, <2>2 DEF Cross
  <2> QED
    BY <2>3 DEF s
<1> QED
  BY <1>1, <1>4, <1>5, <1>6, <1>7

\* It grows upwards, and to the left of a rising segment, to the right of a
\* falling one.
LEMMA SideMonotone ==
    ASSUME NEW a \in Locations, NEW b \in Locations,
           NEW pt \in Locations, NEW e \in Locations, pt.y <= e.y,
           IF ObjType(a, b) = "0" THEN e.x <= pt.x ELSE pt.x <= e.x
    PROVE  /\ Side(Segment(a, b), pt.x, pt.y) <= Side(Segment(a, b), e.x, e.y)
           /\ Side(Segment(a, b), pt.x, pt.y) \in Int
<1> DEFINE s == Segment(a, b)
           r == MBR({a, b})
           width == r.x_max - r.x_min
           height == r.y_max - r.y_min
<1>1. pt.x \in Int /\ pt.y \in Int /\ e.x \in Int /\ e.y \in Int
  BY DEF Locations
<1>2. s.mbr = r /\ s.obj_type = ObjType(a, b) /\ ObjType(a, b) \in {"0", "1"}
  BY SegmentFields
<1>3. /\ r.x_min \in Int /\ r.x_max \in Int /\ r.y_min \in Int /\ r.y_max \in Int
      /\ width \in Int /\ width >= 0 /\ height \in Int /\ height >= 0
  BY PairMBR DEF Rects, Locations
<1> HIDE DEF s, r
<1>4. CASE ObjType(a, b) = "0"
  <2>1. /\ Side(s, pt.x, pt.y) = width * (pt.y - r.y_min) - (pt.x - r.x_min) * height
        /\ Side(s, e.x, e.y) = width * (e.y - r.y_min) - (e.x - r.x_min) * height
    BY <1>2, <1>4 DEF Side
  <2> HIDE DEF width, height
  <2>2. /\ width * (pt.y - r.y_min) <= width * (e.y - r.y_min)
        /\ height * (e.x - r.x_min) <= height * (pt.x - r.x_min)
    BY <1>1, <1>3, <1>4, ProductMonotone
  <2> QED
    BY <1>1, <1>3, <2>1, <2>2 DEF s
<1>5. CASE ObjType(a, b) = "1"
  <2>1. /\ Side(s, pt.x, pt.y) = width * (pt.y - r.y_max) + (pt.x - r.x_min) * height
        /\ Side(s, e.x, e.y) = width * (e.y - r.y_max) + (e.x - r.x_min) * height
    BY <1>2, <1>5 DEF Side
  <2> HIDE DEF width, height
  <2>2. /\ width * (pt.y - r.y_max) <= width * (e.y - r.y_max)
        /\ height * (pt.x - r.x_min) <= height * (e.x - r.x_min)
    BY <1>1, <1>3, <1>5, ProductMonotone
  <2> QED
    BY <1>1, <1>3, <2>1, <2>2 DEF s
<1> QED
  BY <1>2, <1>4, <1>5

\* The corners on either side that IsCoverNode looks at.
Low(b, s) == At(IF s.obj_type = "1" THEN b.x ELSE b.x + b.w, b.y)
High(b, s) == At(IF s.obj_type = "1" THEN b.x + b.w ELSE b.x, b.y + b.w)

\* The corners Low and High have the least and the greatest side of a line
\* in the square, and the code's cover test is a test of the centre, Low
\* and High.
LEMMA CoverCorners ==
    ASSUME NEW a \in Locations, NEW b \in Locations, NEW box \in Squares,
           NEW h \in Nat \ {0}, box.w = 2 * h
    PROVE  LET s == Segment(a, b)
               side(c) == Side(s, c.x, c.y)
           IN  /\ Low(box, s) \in Corners(box) /\ High(box, s) \in Corners(box)
               /\ Centre(box) \in Locations /\ Holds(box, Centre(box))
               /\ \A c \in Corners(box) \cup {Centre(box)} :
                     /\ c \in Locations /\ side(c) \in Int
                     /\ side(Low(box, s)) <= side(c) /\ side(c) <= side(High(box, s))
               /\ IsCoverNode(box, s) <=>
                     /\ IsIntersect(box, s.mbr)
                     /\ \/ side(Centre(box)) = 0
                        \/ side(Centre(box)) > 0 /\ side(Low(box, s)) < 0
                        \/ side(Centre(box)) < 0 /\ side(High(box, s)) > 0
<1> DEFINE s == Segment(a, b)
           side(c) == Side(s, c.x, c.y)
           lo == Low(box, s)
           hi == High(box, s)
           mid == Centre(box)
<1>1. box.x \in Int /\ box.y \in Int /\ box.w \in Nat \ {0}
  BY DEF Squares
<1>2. mid = At(box.x + h, box.y + h)
  BY Halves DEF At
<1>3. s.obj_type = ObjType(a, b) /\ ObjType(a, b) \in {"0", "1"}
  BY SegmentFields
<1>4. Corners(box) = {At(box.x, box.y), At(box.x + box.w, box.y),
                      At(box.x, box.y + box.w), At(box.x + box.w, box.y + box.w)}
  BY CornerSet
<1>5. lo \in Corners(box) /\ hi \in Corners(box)
  BY <1>4 DEF Low, High
<1>6. mid \in Locations /\ Holds(box, mid)
  BY <1>1, <1>2 DEF At, Locations, Holds
<1>7. \A c \in Corners(box) \cup {mid} : c \in Locations /\ Holds(box, c)
  BY <1>6, CornerSet
<1>8. /\ lo.x = (IF ObjType(a, b) = "1" THEN box.x ELSE box.x + box.w) /\ lo.y = box.y
      /\ hi.x = (IF ObjType(a, b) = "1" THEN box.x + box.w ELSE box.x) /\ hi.y = box.y + box.w
  BY <1>3 DEF Low, High, At
<1>9. lo \in Locations /\ hi \in Locations
  BY <1>5, <1>7
<1>10. IsCoverNode(box, s) <=>
         /\ IsIntersect(box, s.mbr)
         /\ \/ side(mid) = 0
            \/ side(mid) > 0 /\ side(lo) < 0
            \/ side(mid) < 0 /\ side(hi) > 0
  BY <1>3, <1>8, Zenon DEF IsCoverNode
<1> HIDE DEF lo, hi, mid
<1>11. ASSUME NEW c \in Corners(box) \cup {mid}
       PROVE  /\ c \in Locations /\ side(c) \in Int
              /\ side(lo) <= side(c) /\ side(c) <= side(hi)
  <2>1. c \in Locations /\ Holds(box, c)
    BY <1>7
  <2>2. side(lo) <= side(c)
    BY <1>1, <1>3, <1>8, <1>9, <2>1, SideMonotone DEF Holds, Locations
  <2>3. side(c) <= side(hi) /\ side(c) \in Int
    BY <1>1, <1>3, <1>8, <1>9, <2>1, SideMonotone DEF Holds, Locations
  <2> QED
    BY <2>1, <2>2, <2>3
<1> QED
  BY <1>5, <1>6, <1>10, <1>11 DEF lo, hi, mid

\* A segment that enters a square passes the cover test of the code.
LEMMA EntersCovers ==
    ASSUME NEW a \in Locations, NEW b \in Locations, NEW box \in Squares,
           NEW h \in Nat \ {0}, box.w = 2 * h, Enters(a, b, box)
    PROVE  IsCoverNode(box, Segment(a, b))
<1> DEFINE s == Segment(a, b)
           side(c) == Side(s, c.x, c.y)
           lo == Low(box, s)
           hi == High(box, s)
           mid == Centre(box)
<1>1. /\ lo \in Corners(box) /\ hi \in Corners(box) /\ mid \in Locations
      /\ \A c \in Corners(box) \cup {mid} :
            /\ c \in Locations /\ side(c) \in Int
            /\ side(lo) <= side(c) /\ side(c) <= side(hi)
      /\ IsCoverNode(box, s) <=>
            /\ IsIntersect(box, s.mbr)
            /\ \/ side(mid) = 0
               \/ side(mid) > 0 /\ side(lo) < 0
               \/ side(mid) < 0 /\ side(hi) > 0
  BY CoverCorners
<1>2. s.mbr = MBR({a, b})
  BY SegmentFields
<1>3. IsIntersect(box, s.mbr)
  BY <1>2 DEF Enters
<1>4. \/ \A pt \in Locations : side(pt) = Cross(a, b, pt)
      \/ \A pt \in Locations : side(pt) = 0 - Cross(a, b, pt)
  BY SideIsCross
<1>5. \A pt \in Locations : Cross(a, b, pt) \in Int
  BY CrossInt
<1> HIDE DEF s, lo, hi, mid, side
<1>6. side(mid) = 0 \/ (side(lo) < 0 /\ side(hi) > 0)
  <2>1. CASE a = b
    <3>1. Cross(a, b, mid) = 0
      BY <1>1, <2>1 DEF Cross, Locations
    <3> QED
      BY <1>1, <1>4, <3>1
  <2>2. CASE a # b
    <3>1. PICK c \in Corners(box) : Cross(a, b, c) > 0
      BY <2>2 DEF Enters
    <3>2. PICK d \in Corners(box) : Cross(a, b, d) < 0
      BY <2>2 DEF Enters
    <3>3. /\ c \in Locations /\ side(c) \in Int /\ side(lo) <= side(c) /\ side(c) <= side(hi)
          /\ d \in Locations /\ side(d) \in Int /\ side(lo) <= side(d) /\ side(d) <= side(hi)
          /\ side(lo) \in Int /\ side(hi) \in Int
      BY <1>1
    <3>4. Cross(a, b, c) \in Int /\ Cross(a, b, d) \in Int
      BY <1>5, <3>3
    <3>5. \/ side(c) = Cross(a, b, c) /\ side(d) = Cross(a, b, d)
          \/ side(c) = 0 - Cross(a, b, c) /\ side(d) = 0 - Cross(a, b, d)
      BY <1>4, <3>3
    <3> QED
      BY <3>1, <3>2, <3>3, <3>4, <3>5
  <2> QED
    BY <2>1, <2>2
<1>7. side(mid) \in Int
  BY <1>1
<1> QED
  BY <1>1, <1>3, <1>6, <1>7 DEF s

\* A segment that passes the cover test touches the square.
LEMMA CoversTouches ==
    ASSUME NEW a \in Locations, NEW b \in Locations, NEW box \in Squares,
           NEW h \in Nat \ {0}, box.w = 2 * h, IsCoverNode(box, Segment(a, b))
    PROVE  Touches(a, b, box)
<1> DEFINE s == Segment(a, b)
           side(c) == Side(s, c.x, c.y)
           lo == Low(box, s)
           hi == High(box, s)
           mid == Centre(box)
           r == MBR({a, b})
<1>1. /\ lo \in Corners(box) /\ hi \in Corners(box) /\ mid \in Locations /\ Holds(box, mid)
      /\ \A c \in Corners(box) \cup {mid} :
            /\ c \in Locations /\ side(c) \in Int
            /\ side(lo) <= side(c) /\ side(c) <= side(hi)
      /\ IsCoverNode(box, s) <=>
            /\ IsIntersect(box, s.mbr)
            /\ \/ side(mid) = 0
               \/ side(mid) > 0 /\ side(lo) < 0
               \/ side(mid) < 0 /\ side(hi) > 0
  BY CoverCorners
<1>2. s.mbr = r /\ r \in Rects
  BY SegmentFields, PairMBR
<1>3. \/ \A pt \in Locations : side(pt) = Cross(a, b, pt)
      \/ \A pt \in Locations : side(pt) = 0 - Cross(a, b, pt)
  BY SideIsCross
<1>4. \A pt \in Locations : Cross(a, b, pt) \in Int
  BY CrossInt
<1> HIDE DEF lo, hi, mid, side, r
<1>5. IsIntersect(box, r)
  BY <1>1, <1>2
<1>6. /\ r.x_min <= box.x + box.w /\ r.x_max >= box.x
      /\ r.y_min <= box.y + box.w /\ r.y_max >= box.y
  BY <1>2, <1>5 DEF IsIntersect, Squares, Rects
<1>7. /\ \E c \in Corners(box) : Cross(a, b, c) >= 0
      /\ \E c \in Corners(box) : Cross(a, b, c) <= 0
  <2>1. CASE side(mid) = 0
    <3>1. Cross(a, b, mid) = 0
      BY <1>1, <1>3, <1>4, <2>1
    <3> QED
      BY <1>1, <3>1, CornerExtremes
  <2>2. CASE side(mid) # 0
    <3>1. /\ side(lo) \in Int /\ side(hi) \in Int /\ side(mid) \in Int
          /\ side(lo) <= side(mid) /\ side(mid) <= side(hi)
      BY <1>1
    <3>2. side(lo) < 0 /\ side(hi) > 0
      BY <1>1, <2>2, <3>1
    <3>3. lo \in Locations /\ hi \in Locations
      BY <1>1
    <3>4. Cross(a, b, lo) \in Int /\ Cross(a, b, hi) \in Int
      BY <1>4, <3>3
    <3>5. \/ side(lo) = Cross(a, b, lo) /\ side(hi) = Cross(a, b, hi)
          \/ side(lo) = 0 - Cross(a, b, lo) /\ side(hi) = 0 - Cross(a, b, hi)
      BY <1>3, <3>3
    <3>6. \/ Cross(a, b, lo) >= 0 /\ Cross(a, b, hi) <= 0
          \/ Cross(a, b, lo) <= 0 /\ Cross(a, b, hi) >= 0
      BY <3>1, <3>2, <3>4, <3>5
    <3> QED
      BY <1>1, <3>6
  <2> QED
    BY <2>1, <2>2
<1> QED
  BY <1>6, <1>7 DEF Touches, r

(***************************************************************************)
(* The squares on the way to a node.                                       *)
(***************************************************************************)
LEMMA ChildBox ==
    ASSUME NEW p \in Inner, NEW q \in Quads
    PROVE  /\ Box[Child(p, q)] = Quarter(Box[p], q)
           /\ Quarter(Box[p], q) \in Squares
           /\ Within(Quarter(Box[p], q), Box[p])
<1>1. p \in Paths
  BY DEF Inner
<1>2. Box[p] \in Squares
  BY <1>1, BoxSize
<1>3. PICK h \in Nat \ {0} : Box[p].w = 2 * h
  BY <1>1, BoxSize
<1>4. /\ Quarter(Box[p], q) \in Squares
      /\ Quarter(Box[p], q).x = (IF q \in {2, 4} THEN Box[p].x + h ELSE Box[p].x)
      /\ Quarter(Box[p], q).y = (IF q \in {1, 2} THEN Box[p].y + h ELSE Box[p].y)
      /\ Quarter(Box[p], q).w = h
  BY <1>2, <1>3, Halves
<1>5. Box[p].x \in Int /\ Box[p].y \in Int /\ Box[p].w \in Nat
  BY <1>2 DEF Squares
<1>6. Within(Quarter(Box[p], q), Box[p])
  BY <1>3, <1>4, <1>5 DEF Within
<1> QED
  BY <1>4, <1>6, BoxDefinition

\* Squares within squares.
LEMMA WithinTransitive ==
    ASSUME NEW c \in Squares, NEW b \in Squares, NEW a \in Squares, Within(c, b), Within(b, a)
    PROVE  Within(c, a)
<1>1. /\ c.x \in Int /\ c.y \in Int /\ c.w \in Int /\ b.x \in Int /\ b.y \in Int /\ b.w \in Int
      /\ a.x \in Int /\ a.y \in Int /\ a.w \in Int
  BY DEF Squares
<1> QED
  BY <1>1 DEF Within

\* The square of a node is within those of its ancestors.
LEMMA BoxWithin ==
    ASSUME NEW p \in Paths, NEW n \in 0..Len(p)
    PROVE  Within(Box[p], Box[Above(p, n)])
<1> DEFINE S == {k \in 0..Len(p) - n : Within(Box[Above(p, n + k)], Box[Above(p, n)])}
<1>1. p \in Seq(Quads) /\ Len(p) \in Nat /\ n \in Nat /\ Len(p) - n \in Nat
  BY PathsAreSequences, LenProperties
<1>2. \A k \in 0..Len(p) : Above(p, k) \in Paths /\ Box[Above(p, k)] \in Squares
  <2>1. ASSUME NEW k \in 0..Len(p) PROVE Above(p, k) \in Paths
    <3>1. Above(p, k) \in Seq(Quads) /\ Len(Above(p, k)) = k
      BY <1>1, AboveProperties
    <3>2. Len(p) <= TqTreeLevel /\ TqTreeLevel \in Nat
      BY PathsAreSequences, LevelAssumption
    <3> QED
      BY <1>1, <3>1, <3>2, PathsAreSequences
  <2> QED
    BY <2>1, BoxSize
<1>3. 0 \in S
  <2>1. n + 0 = n /\ Box[Above(p, n)] \in Squares
    BY <1>1, <1>2
  <2>2. Within(Box[Above(p, n)], Box[Above(p, n)])
    BY <2>1 DEF Within, Squares
  <2> QED
    BY <1>1, <2>1, <2>2
<1>4. ASSUME NEW k \in 0..(Len(p) - n) - 1, k \in S PROVE k + 1 \in S
  <2>1. n + k \in 0..Len(p) - 1 /\ n + (k + 1) = (n + k) + 1 /\ k + 1 \in 0..Len(p) - n
    BY <1>1
  <2> DEFINE o == Above(p, n + k)
             c == Above(p, (n + k) + 1)
             a == Above(p, n)
  <2>2. o \in Inner /\ p[(n + k) + 1] \in Quads /\ c = Child(o, p[(n + k) + 1])
    BY <2>1, StepDown
  <2>3. Within(Box[c], Box[o])
    BY <2>2, ChildBox
  <2>4. Within(Box[o], Box[a])
    BY <1>4
  <2>5. Box[c] \in Squares /\ Box[o] \in Squares /\ Box[a] \in Squares
    BY <1>1, <1>2, <2>1
  <2> HIDE DEF o, c, a
  <2>6. Within(Box[c], Box[a])
    BY <2>3, <2>4, <2>5, WithinTransitive
  <2> QED
    BY <2>1, <2>6 DEF c, a
<1> HIDE DEF S
<1>5. 0..Len(p) - n \subseteq S
  BY <1>1, <1>3, <1>4, UpTo
<1>6. Len(p) - n \in S
  BY <1>1, <1>5
<1>7. n + (Len(p) - n) = Len(p)
  BY <1>1
<1> QED
  BY <1>1, <1>6, <1>7, AboveSelf DEF S

(***************************************************************************)
(* The way to the MBNode.                                                  *)
(***************************************************************************)
LEMMA MinHolder ==
    ASSUME NEW p, NEW r, Holders(p, r) # {}
    PROVE  /\ Min(Holders(p, r)) \in Quads
           /\ IsContain(Quarter(Box[p], Min(Holders(p, r))), r)
<1>1. Holders(p, r) \subseteq 1..4
  BY DEF Holders, Quads
<1>2. Min(Holders(p, r)) \in Holders(p, r)
  BY <1>1, IntervalMinMax
<1> QED
  BY <1>2 DEF Holders

\* The way to a rectangle's node goes on while a child holds the rectangle.
LEMMA OnTheWayStep ==
    ASSUME NEW r, NEW p \in OnTheWay(r), p \in Inner, Holders(p, r) # {}
    PROVE  Child(p, Min(Holders(p, r))) \in OnTheWay(r)
<1> DEFINE taken == {Child(o, Min(Holders(o, r))) : o \in {o \in Inner : Holders(o, r) # {}}}
           c == Child(p, Min(Holders(p, r)))
<1>1. OnTheWay(r) = {o \in Paths : \A n \in 1..Len(o) : Above(o, n) \in taken}
  BY DEF OnTheWay
<1>2. c \in taken
  OBVIOUS
<1>3. /\ c \in Paths /\ Len(p) \in Nat /\ Len(c) = Len(p) + 1
      /\ Above(c, Len(p) + 1) = c /\ \A n \in 0..Len(p) : Above(c, n) = Above(p, n)
  BY MinHolder, ChildLen
<1> HIDE DEF c, taken
<1>4. \A n \in 1..Len(c) : Above(c, n) \in taken
  <2> SUFFICES ASSUME NEW n \in 1..Len(c) PROVE Above(c, n) \in taken
    OBVIOUS
  <2>1. CASE n = Len(p) + 1
    BY <1>2, <1>3, <2>1
  <2>2. CASE n \in 1..Len(p)
    BY <1>1, <1>3, <2>2
  <2> QED
    BY <1>3, <2>1, <2>2
<1> QED
  BY <1>1, <1>3, <1>4 DEF c

\* Every step of the way went to the first child that holds the rectangle.
LEMMA OnTheWayTaken ==
    ASSUME NEW r, NEW p \in OnTheWay(r), NEW n \in 0..Len(p) - 1
    PROVE  /\ p \in Paths /\ Len(p) \in Nat
           /\ Above(p, n) \in Inner /\ Holders(Above(p, n), r) # {}
           /\ Above(p, n + 1) = Child(Above(p, n), Min(Holders(Above(p, n), r)))
<1> DEFINE taken == {Child(o, Min(Holders(o, r))) : o \in {o \in Inner : Holders(o, r) # {}}}
<1>1. OnTheWay(r) = {o \in Paths : \A k \in 1..Len(o) : Above(o, k) \in taken}
  BY DEF OnTheWay
<1>2. p \in Paths /\ \A k \in 1..Len(p) : Above(p, k) \in taken
  BY <1>1, Zenon
<1>3. /\ Len(p) \in Nat /\ p[n + 1] \in Quads /\ Above(p, n) \in Inner
      /\ Above(p, n + 1) = Child(Above(p, n), p[n + 1])
  BY <1>2, StepDown
<1>4. n + 1 \in 1..Len(p)
  BY <1>3
<1>5. PICK o \in Inner : Holders(o, r) # {} /\ Above(p, n + 1) = Child(o, Min(Holders(o, r)))
  BY <1>2, <1>4
<1>6. Parent(Above(p, n + 1)) = Above(p, n)
  BY <1>3, ChildProperties
<1>7. Parent(Above(p, n + 1)) = o
  BY <1>5, MinHolder, ChildProperties
<1> QED
  BY <1>2, <1>3, <1>5, <1>6, <1>7

\* There is one way, and the MBNode is where it ends.
LEMMA EndOfTheWay ==
    ASSUME NEW r, NEW p \in OnTheWay(r), p \notin Inner \/ Holders(p, r) = {}
    PROVE  MBNode(r) = p
<1> DEFINE m == MBNode(r)
           S == {n \in 0..Len(p) : Above(m, n) = Above(p, n)}
<1>1. m \in OnTheWay(r) /\ Len(p) <= Len(m)
  BY MBNodeProperties
<1>2. p \in Paths /\ m \in Paths
  BY <1>1, OnTheWayProperties
<1> HIDE DEF m
<1>3. /\ p \in Seq(Quads) /\ Len(p) \in Nat /\ m \in Seq(Quads) /\ Len(m) \in Nat
  BY <1>2, PathsAreSequences, LenProperties
<1>4. 0 \in S
  <2>1. Above(m, 0) = <<>> /\ Above(p, 0) = <<>>
    BY <1>3, AboveProperties, EmptySeq
  <2> QED
    BY <1>3, <2>1
<1>5. ASSUME NEW n \in 0..Len(p) - 1, n \in S PROVE n + 1 \in S
  <2>1. n \in 0..Len(m) - 1 /\ n + 1 \in 0..Len(p)
    BY <1>1, <1>3
  <2>2. /\ Above(p, n + 1) = Child(Above(p, n), Min(Holders(Above(p, n), r)))
        /\ Above(m, n + 1) = Child(Above(m, n), Min(Holders(Above(m, n), r)))
    BY <1>1, <2>1, OnTheWayTaken
  <2> QED
    BY <1>5, <2>1, <2>2
<1> HIDE DEF S
<1>6. 0..Len(p) \subseteq S
  BY <1>3, <1>4, <1>5, UpTo
<1>7. Above(m, Len(p)) = p
  <2>1. Len(p) \in S
    BY <1>3, <1>6
  <2> QED
    BY <1>3, <2>1, AboveSelf DEF S
<1>8. ~(Len(p) < Len(m))
  <2> SUFFICES ASSUME Len(p) < Len(m) PROVE FALSE
    OBVIOUS
  <2>1. Len(p) \in 0..Len(m) - 1
    BY <1>3
  <2>2. p \in Inner /\ Holders(p, r) # {}
    BY <1>1, <1>7, <2>1, OnTheWayTaken
  <2> QED
    BY <2>2
<1>9. Len(p) = Len(m)
  BY <1>1, <1>3, <1>8
<1> QED
  BY <1>3, <1>7, <1>9, AboveSelf DEF m

\* The nodes on the way, the root aside, hold the rectangle.
LEMMA OnTheWayContains ==
    ASSUME NEW r, NEW p \in OnTheWay(r), p # <<>>
    PROVE  IsContain(Box[p], r)
<1>1. p \in Paths
  BY OnTheWayProperties
<1>2. p \in Seq(Quads) /\ Len(p) \in Nat \ {0}
  BY <1>1, PathsAreSequences, ParentProperties
<1>3. Len(p) - 1 \in 0..Len(p) - 1 /\ (Len(p) - 1) + 1 = Len(p)
  BY <1>2
<1> DEFINE o == Above(p, Len(p) - 1)
           q == Min(Holders(o, r))
<1>4. o \in Inner /\ Holders(o, r) # {} /\ Above(p, Len(p)) = Child(o, q)
  BY <1>3, OnTheWayTaken
<1>5. p = Child(o, q)
  BY <1>2, <1>4, AboveSelf
<1>6. q \in Quads /\ IsContain(Quarter(Box[o], q), r)
  BY <1>4, MinHolder
<1>7. Box[Child(o, q)] = Quarter(Box[o], q)
  BY <1>4, <1>6, ChildBox
<1> HIDE DEF o, q
<1> QED
  BY <1>5, <1>6, <1>7

(***************************************************************************)
(* The nodes a segment reaches.                                            *)
(***************************************************************************)
LEMMA VisitsQuads == \A p, s : Visits(p, s) \subseteq Quads
<1> SUFFICES ASSUME NEW p, NEW s PROVE Visits(p, s) \subseteq Quads
  OBVIOUS
<1>1. CASE Holders(p, s.mbr) # {}
  <2>1. Min(Holders(p, s.mbr)) \in Quads
    BY <1>1, MinHolder
  <2>2. Visits(p, s) = {Min(Holders(p, s.mbr))}
    BY <1>1 DEF Visits
  <2> QED
    BY <2>1, <2>2
<1>2. CASE Holders(p, s.mbr) = {}
  BY <1>2 DEF Visits
<1> QED
  BY <1>1, <1>2

\* A segment's descent reaches the node it starts from.
LEMMA ReachedSelf ==
    ASSUME NEW m \in Paths, NEW s
    PROVE  m \in Reached(m, s)
<1>1. Len(m) \in Nat
  BY PathsAreSequences, LenProperties
<1>2. Len(m) + 1..Len(m) = {}
  BY <1>1
<1>3. IsPrefix(m, m)
  BY <1>1 DEF IsPrefix
<1> QED
  BY <1>2, <1>3, Zenon DEF Reached

\* It goes on to every child it visits.
LEMMA ReachedStep ==
    ASSUME NEW m \in Paths, NEW s, NEW p \in Reached(m, s), p \in Inner, NEW q \in Visits(p, s)
    PROVE  Child(p, q) \in Reached(m, s)
<1> DEFINE taken == UNION {{Child(o, k) : k \in Visits(o, s)} : o \in {o \in Inner : IsPrefix(m, o)}}
           c == Child(p, q)
<1>1. Reached(m, s) =
        {o \in Paths : IsPrefix(m, o) /\ \A n \in Len(m) + 1..Len(o) : Above(o, n) \in taken}
  BY DEF Reached
<1>2. IsPrefix(m, p) /\ \A n \in Len(m) + 1..Len(p) : Above(p, n) \in taken
  BY <1>1, Zenon
<1>3. c \in taken
  BY <1>2
<1>4. /\ c \in Paths /\ Len(p) \in Nat /\ Len(c) = Len(p) + 1
      /\ Above(c, Len(p) + 1) = c /\ \A n \in 0..Len(p) : Above(c, n) = Above(p, n)
  BY VisitsQuads, ChildLen
<1> HIDE DEF c, taken
<1>5. Len(m) \in Nat /\ Len(m) <= Len(p) /\ Above(m, Len(m)) = Above(p, Len(m))
  BY <1>2, PathsAreSequences, LenProperties DEF IsPrefix, Above
<1>6. IsPrefix(m, c)
  <2>1. Len(m) <= Len(c) /\ Len(m) \in 0..Len(p)
    BY <1>4, <1>5
  <2>2. Above(c, Len(m)) = Above(p, Len(m))
    BY <1>4, <2>1
  <2> QED
    BY <1>5, <2>1, <2>2 DEF IsPrefix, Above
<1>7. \A n \in Len(m) + 1..Len(c) : Above(c, n) \in taken
  <2> SUFFICES ASSUME NEW n \in Len(m) + 1..Len(c) PROVE Above(c, n) \in taken
    OBVIOUS
  <2>1. CASE n = Len(p) + 1
    BY <1>3, <1>4, <2>1
  <2>2. CASE n \in Len(m) + 1..Len(p)
    BY <1>2, <1>4, <1>5, <2>2
  <2> QED
    BY <1>4, <1>5, <2>1, <2>2
<1> QED
  BY <1>1, <1>4, <1>6, <1>7 DEF c

\* It reaches nothing in any other way.
LEMMA ReachedTaken ==
    ASSUME NEW m \in Paths, NEW s, NEW p \in Reached(m, s), p # m
    PROVE  /\ p \in Paths
           /\ \E o \in Reached(m, s) \cap Inner : \E q \in Visits(o, s) : p = Child(o, q)
<1> DEFINE taken == UNION {{Child(o, k) : k \in Visits(o, s)} : o \in {o \in Inner : IsPrefix(m, o)}}
<1>1. Reached(m, s) =
        {o \in Paths : IsPrefix(m, o) /\ \A n \in Len(m) + 1..Len(o) : Above(o, n) \in taken}
  BY DEF Reached
<1>2. p \in Paths /\ IsPrefix(m, p) /\ \A n \in Len(m) + 1..Len(p) : Above(p, n) \in taken
  BY <1>1, Zenon
<1>3. p # <<>> /\ Parent(p) \in Reached(m, s)
  BY ReachedProperties
<1>4. p \in Seq(Quads) /\ Len(p) \in Nat \ {0} /\ m \in Seq(Quads) /\ Len(m) \in Nat
  BY <1>2, <1>3, PathsAreSequences, ParentProperties, LenProperties
<1>5. Len(m) <= Len(p) /\ Above(m, Len(m)) = Above(p, Len(m))
  BY <1>2 DEF IsPrefix, Above
<1>6. Len(m) # Len(p)
  BY <1>4, <1>5, AboveSelf
<1>7. Above(p, Len(p)) \in taken
  BY <1>2, <1>4, <1>5, <1>6
<1>8. p \in taken
  BY <1>4, <1>7, AboveSelf
<1>9. \E o \in Inner : \E q \in Visits(o, s) : p = Child(o, q)
  BY <1>8
<1>10. PICK o \in Inner : \E q \in Visits(o, s) : p = Child(o, q)
  BY <1>9
<1>11. Parent(p) = o
  BY <1>10, VisitsQuads, ChildProperties
<1> QED
  BY <1>2, <1>3, <1>10, <1>11

(***************************************************************************)
(* What a segment enters is in the tree.                                   *)
(***************************************************************************)
\* No other quadrant's interior meets what lies in one quadrant.
LEMMA SoleHolder ==
    ASSUME NEW p \in Inner, NEW k \in Quads, NEW q \in Quads, NEW r \in Rects, NEW s \in Rects,
           IsContain(Quarter(Box[p], k), r),
           r.x_min <= s.x_min, s.x_max <= r.x_max, r.y_min <= s.y_min, s.y_max <= r.y_max,
           IsIntersect(Quarter(Box[p], q), s)
    PROVE  q = k
<1>1. p \in Paths
  BY DEF Inner
<1>2. Box[p] \in Squares
  BY <1>1, BoxSize
<1>3. PICK h \in Nat \ {0} : Box[p].w = 2 * h
  BY <1>1, BoxSize
<1> DEFINE X == Box[p].x
           Y == Box[p].y
           K == Quarter(Box[p], k)
           Q == Quarter(Box[p], q)
<1>4. X \in Int /\ Y \in Int
  BY <1>2 DEF Squares
<1>5. /\ K.x = (IF k \in {2, 4} THEN X + h ELSE X) /\ K.y = (IF k \in {1, 2} THEN Y + h ELSE Y)
      /\ Q.x = (IF q \in {2, 4} THEN X + h ELSE X) /\ Q.y = (IF q \in {1, 2} THEN Y + h ELSE Y)
      /\ K.w = h /\ Q.w = h
  BY <1>2, <1>3, Halves
<1>6. /\ r.x_min >= K.x /\ r.x_max <= K.x + h /\ r.y_min >= K.y /\ r.y_max <= K.y + h
      /\ s.x_min < Q.x + h /\ s.x_max > Q.x /\ s.y_min < Q.y + h /\ s.y_max > Q.y
  BY <1>5 DEF IsContain, IsIntersect
<1> HIDE DEF X, Y, K, Q
<1>7. /\ r.x_min \in Int /\ r.x_max \in Int /\ r.y_min \in Int /\ r.y_max \in Int
      /\ s.x_min \in Int /\ s.x_max \in Int /\ s.y_min \in Int /\ s.y_max \in Int
  BY DEF Rects
<1>8. k \in {2, 4} <=> q \in {2, 4}
  BY <1>4, <1>5, <1>6, <1>7
<1>9. k \in {1, 2} <=> q \in {1, 2}
  BY <1>4, <1>5, <1>6, <1>7
<1> QED
  BY <1>8, <1>9 DEF Quads

\* The bounding rectangle of a segment lies in that of its line.
LEMMA SegmentMBR ==
    ASSUME NEW pts \in Seq(Locations), NEW j \in 1..Len(pts) - 1
    PROVE  LET r == MBR(Range(pts))
               s == MBR({pts[j], pts[j + 1]})
           IN  /\ Len(pts) \in Nat /\ Len(pts) > 0
               /\ pts[j] \in Locations /\ pts[j + 1] \in Locations
               /\ r \in Rects /\ s \in Rects
               /\ r.x_min <= s.x_min /\ s.x_max <= r.x_max
               /\ r.y_min <= s.y_min /\ s.y_max <= r.y_max
<1> DEFINE r == MBR(Range(pts))
           a == pts[j]
           b == pts[j + 1]
<1>1. Len(pts) \in Nat /\ Len(pts) > 0 /\ j \in 1..Len(pts) /\ j + 1 \in 1..Len(pts)
  BY LenProperties
<1>2. /\ r \in Rects /\ a \in Locations /\ b \in Locations
      /\ a.x >= r.x_min /\ a.x <= r.x_max /\ a.y >= r.y_min /\ a.y <= r.y_max
      /\ b.x >= r.x_min /\ b.x <= r.x_max /\ b.y >= r.y_min /\ b.y <= r.y_max
  BY <1>1, SequenceMBR
<1> HIDE DEF r, a, b
<1>3. /\ MBR({a, b}) \in Rects
      /\ r.x_min <= MBR({a, b}).x_min /\ MBR({a, b}).x_max <= r.x_max
      /\ r.y_min <= MBR({a, b}).y_min /\ MBR({a, b}).y_max <= r.y_max
  BY <1>2, PairMBR
<1> QED
  BY <1>1, <1>2, <1>3 DEF r, a, b

\* A node a segment enters is on the way to the object's node or is reached
\* below it.
LEMMA EnteredNode ==
    ASSUME NEW pts \in Seq(Locations), NEW j \in 1..Len(pts) - 1, NEW p \in Paths,
           Enters(pts[j], pts[j + 1], Box[p])
    PROVE  p \in OnTheWay(MBR(Range(pts)))
             \cup Reached(MBNode(MBR(Range(pts))), Segment(pts[j], pts[j + 1]))
<1> DEFINE r == MBR(Range(pts))
           m == MBNode(r)
           a == pts[j]
           b == pts[j + 1]
           s == Segment(a, b)
           T == OnTheWay(r) \cup Reached(m, s)
           S == {n \in 0..Len(p) : Above(p, n) \in T}
<1>1. /\ a \in Locations /\ b \in Locations
      /\ r \in Rects /\ MBR({a, b}) \in Rects
      /\ r.x_min <= MBR({a, b}).x_min /\ MBR({a, b}).x_max <= r.x_max
      /\ r.y_min <= MBR({a, b}).y_min /\ MBR({a, b}).y_max <= r.y_max
  BY SegmentMBR
<1>2. s.mbr = MBR({a, b})
  BY <1>1, SegmentFields
<1>3. p \in Seq(Quads) /\ Len(p) \in Nat
  BY PathsAreSequences, LenProperties
<1>4. m \in OnTheWay(r) /\ m \in Paths
  BY MBNodeProperties, OnTheWayProperties
<1>5. Enters(a, b, Box[p])
  OBVIOUS
<1> HIDE DEF r, m, a, b, s
<1>6. 0 \in S
  <2>1. Above(p, 0) = <<>>
    BY <1>3, AboveProperties, EmptySeq
  <2>2. <<>> \in OnTheWay(r)
    BY OnTheWayProperties
  <2> QED
    BY <1>3, <2>1, <2>2
<1>7. ASSUME NEW n \in 0..Len(p) - 1, n \in S PROVE n + 1 \in S
  <2> DEFINE o == Above(p, n)
             c == Above(p, n + 1)
             q == p[n + 1]
             box == Quarter(Box[o], q)
  <2>1. o \in Inner /\ o \in Paths /\ q \in Quads /\ c = Child(o, q) /\ c \in Paths
    BY StepDown
  <2>2. o \in T /\ n + 1 \in 0..Len(p)
    BY <1>3, <1>7
  <2>3. Box[c] = box /\ Box[c] \in Squares /\ \E h \in Nat \ {0} : Box[c].w = 2 * h
    BY <2>1, ChildBox, BoxSize
  <2>4. Within(Box[p], Box[c]) /\ Box[p] \in Squares
    BY <2>2, BoxWithin, BoxSize
  <2> HIDE DEF o, c, q
  <2>5. Enters(a, b, Box[c])
    BY <1>1, <1>5, <2>3, <2>4, EntersWithin
  <2>6. IsIntersect(box, MBR({a, b}))
    BY <2>3, <2>5 DEF Enters
  <2>7. IsCoverNode(box, s)
    BY <1>1, <2>3, <2>5, EntersCovers DEF s
  <2>8. ASSUME Holders(o, r) # {} PROVE q = Min(Holders(o, r))
    <3>1. Min(Holders(o, r)) \in Quads /\ IsContain(Quarter(Box[o], Min(Holders(o, r))), r)
      BY <2>8, MinHolder
    <3> QED
      BY <1>1, <2>1, <2>6, <3>1, SoleHolder
  <2>9. q \in Visits(o, s)
    <3>1. CASE Holders(o, s.mbr) # {}
      <4>1. Min(Holders(o, s.mbr)) \in Quads /\ IsContain(Quarter(Box[o], Min(Holders(o, s.mbr))), s.mbr)
        BY <3>1, MinHolder
      <4>2. /\ s.mbr.x_min <= s.mbr.x_min /\ s.mbr.x_max <= s.mbr.x_max
            /\ s.mbr.y_min <= s.mbr.y_min /\ s.mbr.y_max <= s.mbr.y_max
        BY <1>1, <1>2 DEF Rects
      <4>3. q = Min(Holders(o, s.mbr))
        BY <1>1, <1>2, <2>1, <2>6, <4>1, <4>2, SoleHolder
      <4> QED
        BY <3>1, <4>3 DEF Visits
    <3>2. CASE Holders(o, s.mbr) = {}
      BY <2>1, <2>7, <3>2 DEF Visits
    <3> QED
      BY <3>1, <3>2
  <2>10. CASE o \in OnTheWay(r) /\ Holders(o, r) # {}
    BY <2>1, <2>2, <2>8, <2>10, OnTheWayStep DEF c
  <2>11. CASE o \in OnTheWay(r) /\ Holders(o, r) = {}
    <3>1. o = m
      BY <2>11, EndOfTheWay DEF m
    <3>2. o \in Reached(m, s)
      BY <1>4, <3>1, ReachedSelf
    <3>3. c \in Reached(m, s)
      BY <1>4, <2>1, <2>9, <3>2, ReachedStep
    <3> QED
      BY <2>2, <3>3 DEF c
  <2>12. CASE o \in Reached(m, s)
    <3>1. c \in Reached(m, s)
      BY <1>4, <2>1, <2>9, <2>12, ReachedStep
    <3> QED
      BY <2>2, <3>1 DEF c
  <2> QED
    BY <2>2, <2>10, <2>11, <2>12
<1> HIDE DEF S, T
<1>8. 0..Len(p) \subseteq S
  BY <1>3, <1>6, <1>7, UpTo
<1>9. p \in T
  <2>1. Len(p) \in S
    BY <1>3, <1>8
  <2> QED
    BY <1>3, <2>1, AboveSelf DEF S
<1> QED
  BY <1>9 DEF T, r, m, s, a, b

\* A square that contains a rectangle holds the points in it.
LEMMA ContainHolds ==
    ASSUME NEW box \in Squares, NEW r \in Rects, NEW a \in Locations, IsContain(box, r),
           r.x_min <= a.x, a.x <= r.x_max, r.y_min <= a.y, a.y <= r.y_max
    PROVE  Holds(box, a)
<1>1. /\ a.x \in Int /\ a.y \in Int /\ box.x \in Int /\ box.y \in Int /\ box.w \in Int
      /\ r.x_min \in Int /\ r.x_max \in Int /\ r.y_min \in Int /\ r.y_max \in Int
  BY DEF Rects, Locations, Squares
<1> QED
  BY <1>1 DEF IsContain, Holds

\* What contains a bounding rectangle touches every segment in it.
LEMMA ContainTouches ==
    ASSUME NEW pts \in Seq(Locations), NEW j \in 1..Len(pts) - 1, NEW box \in Squares,
           \/ IsContain(box, MBR(Range(pts)))
           \/ IsContain(box, MBR({pts[j], pts[j + 1]}))
    PROVE  Touches(pts[j], pts[j + 1], box)
<1> DEFINE r == MBR(Range(pts))
           a == pts[j]
           b == pts[j + 1]
           s == MBR({a, b})
<1>1. /\ a \in Locations /\ b \in Locations /\ r \in Rects /\ s \in Rects
      /\ r.x_min <= s.x_min /\ s.x_max <= r.x_max
      /\ r.y_min <= s.y_min /\ s.y_max <= r.y_max
  BY SegmentMBR
<1>2. IsContain(box, r) \/ IsContain(box, s)
  OBVIOUS
<1> HIDE DEF r, a, b
<1>3. /\ s.x_min <= a.x /\ a.x <= s.x_max /\ s.y_min <= a.y /\ a.y <= s.y_max
  <2>1. /\ s.x_min = (IF a.x <= b.x THEN a.x ELSE b.x)
        /\ s.x_max = (IF a.x <= b.x THEN b.x ELSE a.x)
        /\ s.y_min = (IF a.y <= b.y THEN a.y ELSE b.y)
        /\ s.y_max = (IF a.y <= b.y THEN b.y ELSE a.y)
    BY <1>1, PairMBR, Zenon
  <2>2. a.x \in Int /\ a.y \in Int /\ b.x \in Int /\ b.y \in Int
    BY <1>1 DEF Locations
  <2> HIDE DEF s
  <2> QED
    BY <2>1, <2>2
<1> HIDE DEF s
<1>4. Holds(box, a)
  <2>1. CASE IsContain(box, r)
    <3>1. /\ r.x_min \in Int /\ r.x_max \in Int /\ r.y_min \in Int /\ r.y_max \in Int
          /\ s.x_min \in Int /\ s.x_max \in Int /\ s.y_min \in Int /\ s.y_max \in Int
          /\ a.x \in Int /\ a.y \in Int
      BY <1>1 DEF Rects, Locations
    <3>2. /\ r.x_min <= s.x_min /\ s.x_max <= r.x_max
          /\ r.y_min <= s.y_min /\ s.y_max <= r.y_max
      BY <1>1
    <3>3. r.x_min <= a.x /\ a.x <= r.x_max /\ r.y_min <= a.y /\ a.y <= r.y_max
      BY <1>3, <3>1, <3>2, SMTT(30)
    <3> QED
      BY <1>1, <2>1, <3>3, ContainHolds
  <2>2. CASE IsContain(box, s)
    BY <1>1, <1>3, <2>2, ContainHolds
  <2> QED
    BY <1>2, <2>1, <2>2
<1>5. Touches(a, b, box)
  BY <1>1, <1>4, EndTouches
<1> QED
  BY <1>5 DEF a, b

\* A node reached below the start is touched by the segment.
LEMMA ReachedTouches ==
    ASSUME NEW pts \in Seq(Locations), NEW j \in 1..Len(pts) - 1, NEW m \in Paths,
           NEW p \in Reached(m, Segment(pts[j], pts[j + 1])), p # m
    PROVE  Touches(pts[j], pts[j + 1], Box[p])
<1> DEFINE a == pts[j]
           b == pts[j + 1]
           s == Segment(a, b)
<1>1. a \in Locations /\ b \in Locations
  BY SegmentMBR
<1>2. s.mbr = MBR({a, b})
  BY <1>1, SegmentFields
<1>3. p \in Paths
  BY ReachedTaken
<1>4. PICK o \in Inner : \E q \in Visits(o, s) : p = Child(o, q)
  BY ReachedTaken
<1>5. PICK q \in Visits(o, s) : p = Child(o, q)
  BY <1>4
<1>6. q \in Quads
  BY VisitsQuads
<1>7. Box[p] = Quarter(Box[o], q) /\ Box[p] \in Squares /\ \E h \in Nat \ {0} : Box[p].w = 2 * h
  BY <1>3, <1>5, <1>6, ChildBox, BoxSize
<1> HIDE DEF a, b, s
<1>8. CASE Holders(o, s.mbr) # {}
  <2>1. q = Min(Holders(o, s.mbr))
    BY <1>8 DEF Visits
  <2>2. IsContain(Box[p], MBR({a, b}))
    BY <1>2, <1>7, <1>8, <2>1, MinHolder
  <2> QED
    BY <1>7, <2>2, ContainTouches DEF a, b
<1>9. CASE Holders(o, s.mbr) = {}
  <2>1. IsCoverNode(Box[p], s)
    BY <1>7, <1>9 DEF Visits
  <2>2. Touches(a, b, Box[p])
    BY <1>1, <1>7, <2>1, CoversTouches DEF s
  <2> QED
    BY <2>2 DEF a, b
<1> QED
  BY <1>8, <1>9

(***************************************************************************)
(* The objects of a behaviour.                                             *)
(***************************************************************************)
ObjectsOK ==
    /\ inserted \in Seq(Points \cup Lines \cup Rings)
    /\ feature_type = "point" => Objects \subseteq Points
    /\ feature_type = "line" => Objects \subseteq Lines
    /\ feature_type = "polygon" => Objects \subseteq Rings

\* The elements of a sequence with one more at its end.
LEMMA RangeAppend ==
    ASSUME NEW S, NEW s \in Seq(S), NEW e \in S
    PROVE  Append(s, e) \in Seq(S) /\ Range(Append(s, e)) = Range(s) \cup {e}
<1>1. /\ Append(s, e) \in Seq(S) /\ Len(Append(s, e)) = Len(s) + 1 /\ Len(s) \in Nat
      /\ \A i \in 1..Len(s) : Append(s, e)[i] = s[i]
      /\ Append(s, e)[Len(s) + 1] = e
  BY AppendProperties, LenProperties
<1>2. DOMAIN s = 1..Len(s) /\ DOMAIN Append(s, e) = 1..Len(s) + 1
  BY <1>1, LenProperties
<1>3. Range(Append(s, e)) \subseteq Range(s) \cup {e}
  BY <1>1, <1>2 DEF Range
<1>4. Range(s) \cup {e} \subseteq Range(Append(s, e))
  BY <1>1, <1>2 DEF Range
<1> QED
  BY <1>1, <1>3, <1>4

\* No object is inserted at the start.
LEMMA ObjectsInit == Init => ObjectsOK /\ Objects = {}
BY EmptySeq DEF Init, ObjectsOK, Objects, Range

\* What a step does to the objects: it inserts one of its kind, or changes
\* nothing.
LEMMA ObjectsNext ==
    ASSUME ObjectsOK, [Next]_vars
    PROVE  /\ ObjectsOK'
           /\ feature_type' = feature_type
           /\ \/ UNCHANGED vars /\ Objects' = Objects
              \/ \E pt \in Points : BuildPoint(pt) /\ Objects' = Objects \cup {pt}
              \/ \E pts \in Lines : BuildLine(pts) /\ Objects' = Objects \cup {pts}
              \/ \E ring \in Rings : BuildRing(ring) /\ Objects' = Objects \cup {ring}
<1> DEFINE All == Points \cup Lines \cup Rings
<1>1. ASSUME NEW e \in All, inserted' = Append(inserted, e)
      PROVE  inserted' \in Seq(All) /\ Objects' = Objects \cup {e}
  BY <1>1, RangeAppend DEF ObjectsOK, Objects
<1>2. ASSUME NEW pt \in Points, BuildPoint(pt)
      PROVE  ObjectsOK' /\ feature_type' = feature_type /\ Objects' = Objects \cup {pt}
  BY <1>1, <1>2 DEF BuildPoint, ObjectsOK
<1>3. ASSUME NEW pts \in Lines, BuildLine(pts)
      PROVE  ObjectsOK' /\ feature_type' = feature_type /\ Objects' = Objects \cup {pts}
  BY <1>1, <1>3 DEF BuildLine, ObjectsOK
<1>4. ASSUME NEW ring \in Rings, BuildRing(ring)
      PROVE  ObjectsOK' /\ feature_type' = feature_type /\ Objects' = Objects \cup {ring}
  BY <1>1, <1>4 DEF BuildRing, ObjectsOK
<1>5. CASE UNCHANGED vars
  BY <1>5 DEF vars, ObjectsOK, Objects
<1> QED
  BY <1>2, <1>3, <1>4, <1>5 DEF Next

(***************************************************************************)
(* Points.                                                                 *)
(***************************************************************************)
\* The squares of the four quadrants leave no gap.
LEMMA PointHeld ==
    ASSUME NEW pt \in Locations, NEW p \in Inner, IsContain(Box[p], MBR({pt}))
    PROVE  Holders(p, MBR({pt})) # {}
<1>1. p \in Paths
  BY DEF Inner
<1>2. Box[p] \in Squares
  BY <1>1, BoxSize
<1>3. PICK h \in Nat \ {0} : Box[p].w = 2 * h
  BY <1>1, BoxSize
<1> DEFINE X == Box[p].x
           Y == Box[p].y
           q == IF pt.x >= X + h THEN (IF pt.y >= Y + h THEN 2 ELSE 4)
                ELSE (IF pt.y >= Y + h THEN 1 ELSE 3)
           Q == Quarter(Box[p], q)
<1>4. X \in Int /\ Y \in Int /\ pt.x \in Int /\ pt.y \in Int
  BY <1>2 DEF Squares, Locations
<1>5. q \in Quads
  BY DEF Quads
<1>6. /\ Q.x = (IF q \in {2, 4} THEN X + h ELSE X) /\ Q.y = (IF q \in {1, 2} THEN Y + h ELSE Y)
      /\ Q.w = h
  BY <1>2, <1>3, <1>5, Halves
<1>7. MBR({pt}) = [x_min |-> pt.x, x_max |-> pt.x, y_min |-> pt.y, y_max |-> pt.y]
  BY PointMBR
<1>8. X <= pt.x /\ pt.x <= X + 2 * h /\ Y <= pt.y /\ pt.y <= Y + 2 * h
  BY <1>3, <1>7 DEF IsContain
<1> HIDE DEF Q, X, Y
<1>9. IsContain(Q, MBR({pt}))
  BY <1>4, <1>6, <1>7, <1>8 DEF IsContain
<1> HIDE DEF q
<1> QED
  BY <1>5, <1>9 DEF Holders, Q

\* The way to a point in the world ends at a leaf that holds it.
LEMMA PointLeaf ==
    ASSUME NEW pt \in Locations, IsContain(World, MBR({pt}))
    PROVE  \E p \in OnTheWay(MBR({pt})) : Len(p) = TqTreeLevel /\ IsContain(Box[p], MBR({pt}))
<1> DEFINE r == MBR({pt})
           m == MBNode(r)
<1>1. m \in OnTheWay(r) /\ m \in Paths /\ \A p \in OnTheWay(r) : Len(p) <= Len(m)
  BY MBNodeProperties, OnTheWayProperties
<1>2. IsContain(Box[m], r)
  BY <1>1, OnTheWayContains, BoxDefinition
<1>3. Len(m) \in Nat /\ Len(m) <= TqTreeLevel /\ TqTreeLevel \in Nat
  BY <1>1, PathsAreSequences, LenProperties, LevelAssumption
<1>4. m \notin Inner
  <2> SUFFICES ASSUME m \in Inner PROVE FALSE
    OBVIOUS
  <2>1. Holders(m, r) # {}
    BY <1>2, PointHeld
  <2> HIDE DEF m, r
  <2>2. Child(m, Min(Holders(m, r))) \in OnTheWay(r)
    BY <1>1, <2>1, OnTheWayStep
  <2>3. Len(Child(m, Min(Holders(m, r)))) = Len(m) + 1
    BY <2>1, MinHolder, ChildLen
  <2> QED
    BY <1>1, <1>3, <2>2, <2>3
<1>5. Len(m) = TqTreeLevel
  BY <1>1, <1>3, <1>4 DEF Inner
<1> HIDE DEF m
<1> QED
  BY <1>1, <1>2, <1>5

(***************************************************************************)
(* The build.                                                              *)
(***************************************************************************)
LEMMA AddDomain == \A t, ps : DOMAIN Add(t, ps) = DOMAIN t \cup ps
BY DEF Add

\* What inserting a point does to the tree.
LEMMA PointInserted ==
    ASSUME NEW pt \in Points, BuildPoint(pt)
    PROVE  /\ DOMAIN tree' = DOMAIN tree \cup OnTheWay(MBR({pt})) /\ pt \in Locations
           /\ IsContain(World, MBR({pt})) =>
                \E p \in DOMAIN tree' : Len(p) = TqTreeLevel /\ IsContain(Box[p], MBR({pt}))
           /\ \A p \in OnTheWay(MBR({pt})) \ {<<>>} : IsContain(Box[p], MBR({pt}))
<1>1. DOMAIN tree' = DOMAIN tree \cup OnTheWay(MBR({pt}))
  BY AddDomain DEF BuildPoint, InsertPointObject
<1>2. pt \in Locations
  BY PointsAssumption
<1>3. \A p \in OnTheWay(MBR({pt})) \ {<<>>} : IsContain(Box[p], MBR({pt}))
  BY OnTheWayContains
<1> QED
  BY <1>1, <1>2, <1>3, PointLeaf

\* The nodes that an inserted line makes.
LineNodes(pts) ==
    OnTheWay(MBR(Range(pts))) \cup
        UNION {Reached(MBNode(MBR(Range(pts))), s) : s \in Segments(pts)}

\* The nodes inserted for a line are at least those its segments enter.
LEMMA LineNodesEntered ==
    ASSUME NEW pts \in Seq(Locations), NEW p \in Paths, SomeSegment(Enters, pts, Box[p])
    PROVE  p \in LineNodes(pts)
<1>1. PICK j \in 1..Len(pts) - 1 : Enters(pts[j], pts[j + 1], Box[p])
  BY DEF SomeSegment
<1>2. Segment(pts[j], pts[j + 1]) \in Segments(pts)
  BY DEF Segments
<1>3. p \in OnTheWay(MBR(Range(pts)))
             \cup Reached(MBNode(MBR(Range(pts))), Segment(pts[j], pts[j + 1]))
  BY <1>1, EnteredNode
<1> QED
  BY <1>2, <1>3 DEF LineNodes

\* The nodes inserted for a line, the root aside, are at most those its
\* segments touch.
LEMMA LineNodesTouched ==
    ASSUME NEW pts \in Seq(Locations), Len(pts) > 1, NEW p \in LineNodes(pts), p # <<>>
    PROVE  p \in Paths /\ SomeSegment(Touches, pts, Box[p])
<1> DEFINE r == MBR(Range(pts))
           m == MBNode(r)
<1>1. m \in OnTheWay(r) /\ m \in Paths
  BY MBNodeProperties, OnTheWayProperties
<1>2. Len(pts) \in Nat /\ 1 \in 1..Len(pts) - 1
  BY LenProperties
<1>3. CASE p \in OnTheWay(r)
  <2>1. p \in Paths /\ IsContain(Box[p], r)
    BY <1>3, OnTheWayProperties, OnTheWayContains
  <2>2. Touches(pts[1], pts[1 + 1], Box[p])
    BY <1>2, <2>1, BoxSize, ContainTouches
  <2> QED
    BY <1>2, <2>1, <2>2 DEF SomeSegment
<1>4. CASE p \notin OnTheWay(r)
  <2>1. PICK j \in 1..Len(pts) - 1 : p \in Reached(m, Segment(pts[j], pts[j + 1]))
    BY <1>4 DEF LineNodes, Segments
  <2>2. p # m
    BY <1>1, <1>4
  <2> HIDE DEF m, r
  <2>3. Touches(pts[j], pts[j + 1], Box[p])
    BY <1>1, <2>1, <2>2, ReachedTouches
  <2>4. p \in Paths
    BY <1>1, <2>1, ReachedProperties
  <2> QED
    BY <2>3, <2>4 DEF SomeSegment
<1> QED
  BY <1>3, <1>4

\* What inserting a line does to the tree.
LEMMA LineInserted ==
    ASSUME NEW pts \in Lines, BuildLine(pts)
    PROVE  DOMAIN tree' = DOMAIN tree \cup LineNodes(pts)
BY AddDomain DEF BuildLine, InsertLine, LineNodes

\* At every level, the leaves' among them, the nodes a polyline enters are in
\* the tree.
LinesInTree ==
    feature_type = "line" => \A pts \in Objects, p \in Paths :
        SomeSegment(Enters, pts, Box[p]) => p \in DOMAIN tree

LinesOK == TypeOK /\ ObjectsOK /\ NothingLost /\ NothingInvented /\ LinesInTree

\* The invariant of the points and lines holds at the start.
LEMMA LinesInit == Init => LinesOK
<1> SUFFICES ASSUME Init PROVE LinesOK
  OBVIOUS
<1>1. Objects = {} /\ ObjectsOK /\ TypeOK
  BY ObjectsInit, InitShape
<1>2. DOMAIN tree = {<<>>}
  BY DEF Init
<1> QED
  BY <1>1, <1>2 DEF LinesOK, NothingLost, NothingInvented, LinesInTree

\* Every step keeps the invariant of the points and lines.
LEMMA LinesNext == LinesOK /\ [Next]_vars => LinesOK'
<1> SUFFICES ASSUME LinesOK, [Next]_vars PROVE LinesOK'
  OBVIOUS
<1>1. /\ TypeOK' /\ ObjectsOK' /\ feature_type' = feature_type
      /\ \/ UNCHANGED vars /\ Objects' = Objects
         \/ \E pt \in Points : BuildPoint(pt) /\ Objects' = Objects \cup {pt}
         \/ \E pts \in Lines : BuildLine(pts) /\ Objects' = Objects \cup {pts}
         \/ \E ring \in Rings : BuildRing(ring) /\ Objects' = Objects \cup {ring}
  BY NextShape, ObjectsNext DEF LinesOK
<1>2. CASE UNCHANGED vars /\ Objects' = Objects
  BY <1>1, <1>2 DEF vars, LinesOK, NothingLost, NothingInvented, LinesInTree
<1>3. ASSUME NEW pt \in Points, BuildPoint(pt), Objects' = Objects \cup {pt}
      PROVE  LinesOK'
  <2>1. feature_type = "point" /\ feature_type' = "point"
    BY <1>3 DEF BuildPoint
  <2>2. /\ DOMAIN tree' = DOMAIN tree \cup OnTheWay(MBR({pt}))
        /\ IsContain(World, MBR({pt})) =>
                \E p \in DOMAIN tree' : Len(p) = TqTreeLevel /\ IsContain(Box[p], MBR({pt}))
        /\ \A p \in OnTheWay(MBR({pt})) \ {<<>>} : IsContain(Box[p], MBR({pt}))
    BY <1>3, PointInserted
  <2>3. NothingLost'
    BY <1>3, <2>1, <2>2 DEF LinesOK, NothingLost
  <2>4. NothingInvented'
    BY <1>3, <2>1, <2>2 DEF LinesOK, NothingInvented
  <2> QED
    BY <1>1, <2>1, <2>3, <2>4 DEF LinesOK, LinesInTree
<1>4. ASSUME NEW pts \in Lines, BuildLine(pts), Objects' = Objects \cup {pts}
      PROVE  LinesOK'
  <2>1. feature_type = "line" /\ feature_type' = "line"
    BY <1>4 DEF BuildLine
  <2>2. pts \in Seq(Locations) /\ Len(pts) > 1
    BY LinesAssumption
  <2>3. DOMAIN tree' = DOMAIN tree \cup LineNodes(pts)
    BY <1>4, LineInserted
  <2>4. Leaves \subseteq Paths
    BY LevelAssumption DEF Leaves, Paths
  <2>5. /\ \A p \in Paths : SomeSegment(Enters, pts, Box[p]) => p \in LineNodes(pts)
        /\ \A p \in LineNodes(pts) \ {<<>>} : SomeSegment(Touches, pts, Box[p])
    BY <2>2, <2>4, LineNodesEntered, LineNodesTouched
  <2> HIDE DEF SomeSegment
  <2>6. NothingLost'
    BY <1>4, <2>1, <2>3, <2>4, <2>5 DEF LinesOK, NothingLost
  <2>7. NothingInvented'
    BY <1>4, <2>1, <2>3, <2>5 DEF LinesOK, NothingInvented
  <2>8. LinesInTree'
    BY <1>4, <2>1, <2>3, <2>5 DEF LinesOK, LinesInTree
  <2> QED
    BY <1>1, <2>6, <2>7, <2>8 DEF LinesOK
<1>5. ASSUME NEW ring \in Rings, BuildRing(ring)
      PROVE  LinesOK'
  BY <1>1, <1>5 DEF BuildRing, LinesOK, NothingLost, NothingInvented, LinesInTree
<1> QED
  BY <1>1, <1>2, <1>3, <1>4, <1>5

\* Wherever its midlines lie, the tree has a leaf for every point of the world
\* and all the leaves a polyline enters (VPQTreeNode.cpp:73-123, 158-263).
THEOREM NothingLostCorrect == Spec => []NothingLost
<1>1. LinesOK => NothingLost
  BY DEF LinesOK
<1> QED
  BY <1>1, LinesInit, LinesNext, PTL DEF Spec

\* No node of a point or line tree is without an object that touches it.
THEOREM NothingInventedCorrect == Spec => []NothingInvented
<1>1. LinesOK => NothingInvented
  BY DEF LinesOK
<1> QED
  BY <1>1, LinesInit, LinesNext, PTL DEF Spec

(***************************************************************************)
(* What a build hands to saveToFile.                                       *)
(***************************************************************************)
\* There are finitely many paths.
LEMMA PathsFinite == IsFiniteSet(Paths)
<1> DEFINE P(n) == {p \in Seq(Quads) : Len(p) <= n}
           S == {n \in 0..TqTreeLevel : IsFiniteSet(P(n))}
<1>1. \A p \in Seq(Quads) : Len(p) \in Nat /\ \A i \in 1..Len(p) : p[i] \in Quads
  BY LenProperties, ElementOfSeq
<1>2. 0 \in S
  <2>1. \A p \in Seq(Quads) : p # <<>> => Len(p) \in Nat \ {0}
    BY EmptySeq
  <2>2. <<>> \in Seq(Quads) /\ Len(<<>>) = 0
    BY EmptySeq
  <2>3. \A p \in P(0) : p = <<>>
    BY <1>1, <2>1
  <2>4. <<>> \in P(0)
    BY <2>2
  <2>5. P(0) = {<<>>}
    <3> HIDE DEF P
    <3> QED
      BY <2>3, <2>4
  <2>6. IsFiniteSet({<<>>})
    BY FS_Singleton
  <2> QED
    BY <2>5, <2>6, LevelAssumption
<1>3. ASSUME NEW n \in 0..TqTreeLevel - 1, n \in S PROVE n + 1 \in S
  <2> DEFINE T == {Append(x[1], x[2]) : x \in P(n) \X Quads}
             f == [x \in P(n) \X Quads |-> Append(x[1], x[2])]
  <2>1. IsFiniteSet(P(n)) /\ IsFiniteSet(Quads)
    <3>1. 1 \in Int /\ 4 \in Int
      OBVIOUS
    <3>2. IsFiniteSet(Quads)
      BY <3>1, FS_Interval, Zenon DEF Quads
    <3> QED
      BY <1>3, <3>2
  <2>2. IsFiniteSet(P(n) \X Quads)
    <3> HIDE DEF P
    <3> QED
      BY <2>1, FS_Product
  <2>3. f \in Surjection(P(n) \X Quads, T)
    <3> HIDE DEF P
    <3> QED
      BY DEF Surjection
  <2>4. IsFiniteSet(T)
    <3> HIDE DEF P, f, T
    <3> QED
      BY <2>2, <2>3, FS_Surjection
  <2>5. P(n + 1) \subseteq P(n) \cup T
    <3> SUFFICES ASSUME NEW p \in P(n + 1), p \notin P(n) PROVE p \in T
      OBVIOUS
    <3>1. p \in Seq(Quads) /\ Len(p) = n + 1 /\ n \in Nat
      BY <1>1, LevelAssumption
    <3> DEFINE a == Above(p, n)
               q == p[n + 1]
    <3>2. n \in 0..Len(p) /\ n + 1 \in 1..Len(p)
      BY <3>1
    <3>3. a \in Seq(Quads) /\ Len(a) = n /\ \A i \in 1..n : a[i] = p[i]
      BY <3>1, <3>2, AboveProperties
    <3>4. q \in Quads
      BY <1>1, <3>1, <3>2
    <3> HIDE DEF a
    <3>5. /\ Append(a, q) \in Seq(Quads) /\ Len(Append(a, q)) = n + 1
          /\ \A i \in 1..n : Append(a, q)[i] = a[i]
          /\ Append(a, q)[n + 1] = q
      BY <3>3, <3>4, AppendProperties
    <3>6. \A i \in 1..n + 1 : i \in 1..n \/ i = n + 1
      BY <3>1
    <3>7. \A i \in 1..Len(p) : Append(a, q)[i] = p[i]
      BY <3>1, <3>3, <3>5, <3>6
    <3>8. Append(a, q) = p
      BY <3>1, <3>5, <3>7, SeqEqual
    <3>9. <<a, q>> \in P(n) \X Quads
      BY <3>1, <3>3, <3>4
    <3> QED
      BY <3>8, <3>9
  <2>6. IsFiniteSet(P(n) \cup T)
    <3> HIDE DEF P, T
    <3> QED
      BY <2>1, <2>4, FS_Union
  <2>7. IsFiniteSet(P(n + 1))
    <3> HIDE DEF P, T
    <3> QED
      BY <2>5, <2>6, FS_Subset
  <2> QED
    BY <2>7, LevelAssumption
<1>4. TqTreeLevel \in S
  <2> HIDE DEF S
  <2>1. 0..TqTreeLevel \subseteq S
    BY <1>2, <1>3, UpTo, LevelAssumption
  <2> QED
    BY <2>1, LevelAssumption
<1>5. Paths = P(TqTreeLevel)
  BY PathsAreSequences
<1> QED
  BY <1>4, <1>5

\* Every tree of a build, finished or not, is a finite tree: IndexFile assumes no more
\* of what saveToFile is given (buildVPQTree.cpp:54).
THEOREM BuiltTreesCorrect == Spec => []IsFiniteTree(tree)
<1> DEFINE F == tree = [p \in DOMAIN tree |-> tree[p]]
<1>1. Init => F
  BY DEF Init
<1>2. F /\ [Next]_vars => F'
  <2> SUFFICES ASSUME F, [Next]_vars PROVE F'
    OBVIOUS
  <2>1. ASSUME NEW pt, BuildPoint(pt) PROVE F'
    BY <2>1 DEF BuildPoint, InsertPointObject, Add
  <2>2. ASSUME NEW pts, BuildLine(pts) PROVE F'
    BY <2>2 DEF BuildLine, InsertLine, Add
  <2>3. ASSUME NEW ring, BuildRing(ring) PROVE F'
    BY <2>3 DEF BuildRing, InsertRing, InsertPolygonBox
  <2>4. CASE UNCHANGED vars
    BY <2>4 DEF vars
  <2> QED
    BY <2>1, <2>2, <2>3, <2>4 DEF Next
<1>3. TypeOK /\ F => IsFiniteTree(tree)
  <2> SUFFICES ASSUME TypeOK, F PROVE IsFiniteTree(tree)
    OBVIOUS
  <2>1. IsTree(tree) /\ DOMAIN tree \subseteq Paths
    BY DEF TypeOK
  <2>2. \A p \in DOMAIN tree : tree[p] \in Kinds
    BY <2>1 DEF IsTree
  <2>3. tree \in [DOMAIN tree -> Kinds]
    BY <2>2
  <2>4. IsFiniteSet(DOMAIN tree)
    BY <2>1, PathsFinite, FS_Subset
  <2> QED
    BY <2>1, <2>3, <2>4 DEF IsFiniteTree
<1> QED
  BY <1>1, <1>2, <1>3, ShapeCorrect, PTL DEF Spec
=============================================================================
