----------------------------- MODULE RingProofs -----------------------------
(***************************************************************************)
(* What a VPQ-tree of polygons paints, for every depth, every world, and   *)
(* every sequence of closed rings, concave and self-crossing ones and      *)
(* holes included.                                                         *)
(***************************************************************************)
EXTENDS LineProofs

(***************************************************************************)
(* Parity.                                                                 *)
(***************************************************************************)
Odd(S) == Cardinality(S) % 2 = 1

\* Parity of a set: one more element changes it.
LEMMA OddStep ==
    /\ ~Odd({})
    /\ \A S, k : IsFiniteSet(S) /\ k \notin S => (Odd(S \cup {k}) <=> ~Odd(S))
<1>1. ~Odd({})
  <2>1. Cardinality({}) = 0
    BY FS_EmptySet
  <2> QED
    BY <2>1 DEF Odd
<1>2. ASSUME NEW S, NEW k, IsFiniteSet(S), k \notin S
      PROVE  Odd(S \cup {k}) <=> ~Odd(S)
  <2>1. Cardinality(S) \in Nat
    BY <1>2, FS_CardinalityType
  <2>2. Cardinality(S \cup {k}) = Cardinality(S) + 1
    BY <1>2, FS_AddElement
  <2>3. ((Cardinality(S) + 1) % 2 = 1) <=> ~(Cardinality(S) % 2 = 1)
    <3> DEFINE n == Cardinality(S)
    <3> HIDE DEF n
    <3>1. n \in Nat => (((n + 1) % 2 = 1) <=> ~(n % 2 = 1))
      OBVIOUS
    <3> QED
      BY <2>1, <3>1 DEF n
  <2> QED
    BY <2>2, <2>3 DEF Odd
<1> QED
  BY <1>1, <1>2

\* Parity of the part of a set up to a bound, bound by bound.
LEMMA OddPrefix ==
    ASSUME NEW S, NEW k \in Nat
    PROVE  /\ ~Odd(S \cap (1..0))
           /\ k + 1 \in S => (Odd(S \cap (1..k + 1)) <=> ~Odd(S \cap (1..k)))
           /\ k + 1 \notin S => (Odd(S \cap (1..k + 1)) <=> Odd(S \cap (1..k)))
<1>1. S \cap (1..0) = {}
  OBVIOUS
<1>2. IsFiniteSet(S \cap (1..k)) /\ k + 1 \notin S \cap (1..k)
  <2>1. IsFiniteSet(1..k)
    BY FS_Interval
  <2>2. IsFiniteSet(S \cap (1..k))
    BY <2>1, FS_Subset
  <2> QED
    BY <2>2
<1>3. k + 1 \in S => S \cap (1..k + 1) = (S \cap (1..k)) \cup {k + 1}
  OBVIOUS
<1>4. k + 1 \notin S => S \cap (1..k + 1) = S \cap (1..k)
  OBVIOUS
<1>5. k + 1 \in S => (Odd(S \cap (1..k + 1)) <=> ~Odd(S \cap (1..k)))
  BY <1>2, <1>3, OddStep
<1>6. ~Odd(S \cap (1..0))
  BY <1>1, OddStep
<1> QED
  BY <1>4, <1>5, <1>6

\* The parity of where two sets differ is whether their parities differ.
LEMMA OddXor ==
    ASSUME NEW n \in Nat, NEW A, NEW B, NEW C, A \subseteq 1..n, B \subseteq 1..n, C \subseteq 1..n,
           \A j \in 1..n : j \in C <=> ~(j \in A <=> j \in B)
    PROVE  Odd(C) <=> ~(Odd(A) <=> Odd(B))
<1> DEFINE P(k) == Odd(C \cap (1..k)) <=> ~(Odd(A \cap (1..k)) <=> Odd(B \cap (1..k)))
           S == {k \in 0..n : P(k)}
<1>1. 0 \in S
  BY OddPrefix
<1>2. ASSUME NEW k \in 0..n - 1, k \in S PROVE k + 1 \in S
  <2>1. P(k) /\ k \in Nat /\ k + 1 \in 0..n /\ k + 1 \in 1..n
    BY <1>2
  <2>2. /\ k + 1 \in A => (Odd(A \cap (1..k + 1)) <=> ~Odd(A \cap (1..k)))
        /\ k + 1 \notin A => (Odd(A \cap (1..k + 1)) <=> Odd(A \cap (1..k)))
        /\ k + 1 \in B => (Odd(B \cap (1..k + 1)) <=> ~Odd(B \cap (1..k)))
        /\ k + 1 \notin B => (Odd(B \cap (1..k + 1)) <=> Odd(B \cap (1..k)))
        /\ k + 1 \in C => (Odd(C \cap (1..k + 1)) <=> ~Odd(C \cap (1..k)))
        /\ k + 1 \notin C => (Odd(C \cap (1..k + 1)) <=> Odd(C \cap (1..k)))
    BY <2>1, OddPrefix
  <2>3. k + 1 \in C <=> ~(k + 1 \in A <=> k + 1 \in B)
    BY <2>1
  <2>4. P(k + 1)
    BY <2>1, <2>2, <2>3
  <2> HIDE DEF P
  <2> QED
    BY <2>1, <2>4
<1> HIDE DEF S
<1>3. 0..n \subseteq S
  BY <1>1, <1>2, UpTo
<1>4. P(n)
  <2> HIDE DEF P
  <2> QED
    BY <1>3 DEF S
<1>5. A \cap (1..n) = A /\ B \cap (1..n) = B /\ C \cap (1..n) = C
  OBVIOUS
<1> QED
  BY <1>4, <1>5

\* The number of changes along a sequence is odd if its ends differ.
LEMMA OddChanges ==
    ASSUME NEW n \in Nat, NEW G, NEW C, C = {j \in 1..n : ~(j \in G <=> j + 1 \in G)}
    PROVE  Odd(C) <=> ~(1 \in G <=> n + 1 \in G)
<1> DEFINE P(k) == Odd(C \cap (1..k)) <=> ~(1 \in G <=> k + 1 \in G)
           S == {k \in 0..n : P(k)}
<1>1. 0 \in S
  BY OddPrefix
<1>2. ASSUME NEW k \in 0..n - 1, k \in S PROVE k + 1 \in S
  <2>1. P(k) /\ k \in Nat /\ k + 1 \in 0..n /\ k + 1 \in 1..n
    BY <1>2
  <2>2. /\ k + 1 \in C => (Odd(C \cap (1..k + 1)) <=> ~Odd(C \cap (1..k)))
        /\ k + 1 \notin C => (Odd(C \cap (1..k + 1)) <=> Odd(C \cap (1..k)))
    BY <2>1, OddPrefix
  <2>3. k + 1 \in C <=> ~(k + 1 \in G <=> (k + 1) + 1 \in G)
    BY <2>1
  <2>4. P(k + 1)
    BY <2>1, <2>2, <2>3
  <2> HIDE DEF P
  <2> QED
    BY <2>1, <2>4
<1> HIDE DEF S
<1>3. 0..n \subseteq S
  BY <1>1, <1>2, UpTo
<1>4. P(n)
  <2> HIDE DEF P
  <2> QED
    BY <1>3 DEF S
<1>5. C \cap (1..n) = C
  OBVIOUS
<1> QED
  BY <1>4, <1>5

\* Moving a set by one keeps its parity.
LEMMA OddShift ==
    ASSUME NEW n \in Nat, NEW S, S \subseteq 1..n
    PROVE  Odd({j + 1 : j \in S}) <=> Odd(S)
<1> DEFINE T == {j + 1 : j \in S}
           f == [j \in S |-> j + 1]
<1>1. IsFiniteSet(S)
  <2>1. IsFiniteSet(1..n)
    BY FS_Interval
  <2> QED
    BY <2>1, FS_Subset
<1>2. f \in Bijection(S, T)
  <2>1. f \in [S -> T]
    OBVIOUS
  <2>2. \A j, k \in S : f[j] = f[k] => j = k
    OBVIOUS
  <2>3. \A t \in T : \E j \in S : f[j] = t
    OBVIOUS
  <2>4. DOMAIN f = S
    OBVIOUS
  <2> HIDE DEF f, T
  <2> QED
    BY <2>1, <2>2, <2>3, <2>4 DEF Bijection, Injection, Surjection, IsInjective
<1>3. Cardinality(T) = Cardinality(S)
  BY <1>1, <1>2, FS_Bijection DEF ExistsBijection
<1> QED
  BY <1>3 DEF Odd

(***************************************************************************)
(* An edge that does not enter a square is apart from its rows, or on one  *)
(* side of it there.                                                       *)
(***************************************************************************)
StrictlyIn(b, pt) == /\ b.x < pt.x /\ pt.x < b.x + b.w
                     /\ b.y < pt.y /\ pt.y < b.y + b.w

Up(a, b, y) == a.y <= y /\ y < b.y

Clear(a, b, box) == \/ a.y <= box.y /\ b.y <= box.y
                    \/ a.y >= box.y + box.w /\ b.y >= box.y + box.w

InRows(v, box) == box.y < v.y /\ v.y < box.y + box.w

ToRight(a, b, box) ==
    \A pt \in Locations : StrictlyIn(box, pt) =>
        /\ Up(a, b, pt.y) => Cross(a, b, pt) > 0
        /\ Up(b, a, pt.y) => Cross(a, b, pt) < 0
        /\ InRows(a, box) => a.x > pt.x
        /\ InRows(b, box) => b.x > pt.x

ToLeft(a, b, box) ==
    \A pt \in Locations : StrictlyIn(box, pt) =>
        /\ Up(a, b, pt.y) => Cross(a, b, pt) < 0
        /\ Up(b, a, pt.y) => Cross(a, b, pt) > 0
        /\ InRows(a, box) => a.x < pt.x
        /\ InRows(b, box) => b.x < pt.x

\* The cross product of the segment turned round is the opposite.
LEMMA CrossReverse ==
    ASSUME NEW a \in Locations, NEW b \in Locations, NEW c \in Locations
    PROVE  Cross(b, a, c) = 0 - Cross(a, b, c)
BY DEF Cross, Locations

\* The sign of the cross product of an upward edge wholly to one side.
LEMMA CrossBeside ==
    ASSUME NEW a \in Locations, NEW b \in Locations, NEW pt \in Locations, Up(a, b, pt.y)
    PROVE  /\ a.x > pt.x /\ b.x > pt.x => Cross(a, b, pt) > 0
           /\ a.x < pt.x /\ b.x < pt.x => Cross(a, b, pt) < 0
<1>1. /\ a.x \in Int /\ a.y \in Int /\ b.x \in Int /\ b.y \in Int /\ pt.x \in Int /\ pt.y \in Int
  BY DEF Locations
<1> DEFINE u == b.y - pt.y
           v == pt.y - a.y
           p == a.x - pt.x
           q == b.x - pt.x
<1>2. Cross(a, b, pt) = u * p + v * q
  BY <1>1 DEF Cross
<1>3. u \in Int /\ v \in Int /\ p \in Int /\ q \in Int /\ u > 0 /\ v >= 0
  BY <1>1 DEF Up
<1> HIDE DEF u, v, p, q
<1>4. p > 0 /\ q > 0 => u * p > 0 /\ v * q >= 0
  BY <1>3
<1>5. p < 0 /\ q < 0 => u * p < 0 /\ v * q <= 0
  BY <1>3
<1>6. u * p \in Int /\ v * q \in Int
  BY <1>3
<1>7. /\ p > 0 /\ q > 0 => Cross(a, b, pt) > 0
      /\ p < 0 /\ q < 0 => Cross(a, b, pt) < 0
  BY <1>2, <1>4, <1>5, <1>6
<1> QED
  BY <1>1, <1>7 DEF p, q

\* Strictly inside a square with no corner to the right of an edge, no point is.
LEMMA CrossInside ==
    ASSUME NEW a \in Locations, NEW b \in Locations, NEW box \in Squares,
           \A c \in Corners(box) : Cross(a, b, c) >= 0, a.y # b.y,
           NEW pt \in Locations, StrictlyIn(box, pt)
    PROVE  Cross(a, b, pt) > 0
<1> DEFINE dx == b.x - a.x
           dy == b.y - a.y
           L == box.x - a.x
           R == (box.x + box.w) - a.x
           D == box.y - a.y
           U == (box.y + box.w) - a.y
           px == pt.x - a.x
           py == pt.y - a.y
<1>1. /\ a.x \in Int /\ a.y \in Int /\ b.x \in Int /\ b.y \in Int
      /\ pt.x \in Int /\ pt.y \in Int
      /\ box.x \in Int /\ box.y \in Int /\ box.w \in Nat \ {0}
  BY DEF Locations, Squares
<1>2. /\ dx \in Int /\ dy \in Int /\ L \in Int /\ R \in Int /\ D \in Int /\ U \in Int
      /\ px \in Int /\ py \in Int /\ dy # 0
      /\ L < px /\ px < R /\ D < py /\ py < U
  BY <1>1 DEF StrictlyIn
<1>3. /\ Cross(a, b, pt) = dx * py - dy * px
      /\ Cross(a, b, At(box.x, box.y)) = dx * D - dy * L
      /\ Cross(a, b, At(box.x + box.w, box.y)) = dx * D - dy * R
      /\ Cross(a, b, At(box.x, box.y + box.w)) = dx * U - dy * L
      /\ Cross(a, b, At(box.x + box.w, box.y + box.w)) = dx * U - dy * R
  BY DEF Cross, At
<1>4. /\ At(box.x, box.y) \in Corners(box) /\ At(box.x + box.w, box.y) \in Corners(box)
      /\ At(box.x, box.y + box.w) \in Corners(box)
      /\ At(box.x + box.w, box.y + box.w) \in Corners(box)
  BY CornerSet
<1>5. /\ dx * D - dy * L >= 0 /\ dx * D - dy * R >= 0
      /\ dx * U - dy * L >= 0 /\ dx * U - dy * R >= 0
  BY <1>3, <1>4
<1> HIDE DEF dx, dy, L, R, D, U, px, py
<1>6. /\ dx >= 0 => dx * D <= dx * py
      /\ dx <= 0 => dx * U <= dx * py
  BY <1>2, ProductMonotone
<1>7. /\ dy > 0 => dy * px < dy * R
      /\ dy < 0 => dy * px < dy * L
  <2>1. dy > 0 => dy * (R - px) > 0
    BY <1>2
  <2>2. dy < 0 => dy * (L - px) > 0
    BY <1>2
  <2>3. dy * (R - px) = dy * R - dy * px /\ dy * (L - px) = dy * L - dy * px
    BY <1>2
  <2>4. dy * R \in Int /\ dy * px \in Int /\ dy * L \in Int
    BY <1>2
  <2> QED
    BY <2>1, <2>2, <2>3, <2>4
<1>8. /\ dx * D \in Int /\ dx * U \in Int /\ dx * py \in Int
      /\ dy * L \in Int /\ dy * R \in Int /\ dy * px \in Int
  BY <1>2
<1>9. (dx >= 0 \/ dx <= 0) /\ (dy > 0 \/ dy < 0)
  BY <1>2
<1>10. dx * py - dy * px > 0
  BY <1>5, <1>6, <1>7, <1>8, <1>9
<1> QED
  BY <1>3, <1>10

\* A square with no corner strictly right of an edge is clear of it or
\* wholly beside it.
LEMMA BesideNotRight ==
    ASSUME NEW a \in Locations, NEW b \in Locations, a # b, NEW box \in Squares,
           \A c \in Corners(box) : Cross(a, b, c) >= 0
    PROVE  Clear(a, b, box) \/ ToRight(a, b, box) \/ ToLeft(a, b, box)
<1>1. /\ a.x \in Int /\ a.y \in Int /\ b.x \in Int /\ b.y \in Int
      /\ box.x \in Int /\ box.y \in Int /\ box.w \in Nat \ {0}
      /\ \A pt \in Locations : pt.x \in Int /\ pt.y \in Int
  BY DEF Locations, Squares
<1>2. CASE a.y = b.y
  <2> DEFINE dx == b.x - a.x
  <2>1. dx \in Int /\ dx # 0
    <3>1. a = [x |-> a.x, y |-> a.y] /\ b = [x |-> b.x, y |-> b.y]
      BY DEF Locations
    <3>2. a.x # b.x
      BY <1>2, <3>1
    <3> QED
      BY <1>1, <3>2
  <2>2. /\ Cross(a, b, At(box.x, box.y)) = dx * (box.y - a.y)
        /\ Cross(a, b, At(box.x, box.y + box.w)) = dx * ((box.y + box.w) - a.y)
    BY <1>1, <1>2 DEF Cross, At
  <2>3. At(box.x, box.y) \in Corners(box) /\ At(box.x, box.y + box.w) \in Corners(box)
    BY CornerSet
  <2>4. dx * (box.y - a.y) >= 0 /\ dx * ((box.y + box.w) - a.y) >= 0
    BY <2>2, <2>3
  <2> HIDE DEF dx
  <2>5. dx > 0 => box.y - a.y >= 0
    BY <1>1, <2>1, <2>4
  <2>6. dx < 0 => (box.y + box.w) - a.y <= 0
    BY <1>1, <2>1, <2>4
  <2>7. dx > 0 \/ dx < 0
    BY <2>1
  <2>8. Clear(a, b, box)
    BY <1>1, <1>2, <2>5, <2>6, <2>7 DEF Clear
  <2> QED
    BY <2>8
<1>3. CASE a.y # b.y
  <2> DEFINE dx == b.x - a.x
             dy == b.y - a.y
  <2>1. \A pt \in Locations : StrictlyIn(box, pt) => Cross(a, b, pt) > 0
    BY <1>3, CrossInside
  <2>2. ASSUME NEW pt \in Locations, StrictlyIn(box, pt), InRows(a, box)
        PROVE  dy * (a.x - pt.x) > 0
    <3>1. At(pt.x, a.y) \in Locations /\ StrictlyIn(box, At(pt.x, a.y))
      BY <1>1, <2>2 DEF At, Locations, StrictlyIn, InRows
    <3>2. Cross(a, b, At(pt.x, a.y)) > 0
      BY <2>1, <3>1
    <3>3. Cross(a, b, At(pt.x, a.y)) = dy * (a.x - pt.x)
      BY <1>1 DEF Cross, At
    <3> QED
      BY <3>2, <3>3
  <2>3. ASSUME NEW pt \in Locations, StrictlyIn(box, pt), InRows(b, box)
        PROVE  dy * (b.x - pt.x) > 0
    <3>1. At(pt.x, b.y) \in Locations /\ StrictlyIn(box, At(pt.x, b.y))
      BY <1>1, <2>3 DEF At, Locations, StrictlyIn, InRows
    <3>2. Cross(a, b, At(pt.x, b.y)) > 0
      BY <2>1, <3>1
    <3>3. Cross(a, b, At(pt.x, b.y)) = dy * (b.x - pt.x)
      BY <1>1 DEF Cross, At
    <3> QED
      BY <3>2, <3>3
  <2>4. dy \in Int
    BY <1>1
  <2>5. CASE dy > 0
    <3>1. ASSUME NEW pt \in Locations, StrictlyIn(box, pt)
          PROVE  /\ Up(a, b, pt.y) => Cross(a, b, pt) > 0
                 /\ ~Up(b, a, pt.y)
                 /\ InRows(a, box) => a.x > pt.x
                 /\ InRows(b, box) => b.x > pt.x
      <4>1. Up(a, b, pt.y) => Cross(a, b, pt) > 0
        BY <2>1, <3>1
      <4>2. ~Up(b, a, pt.y)
        BY <1>1, <2>5 DEF Up
      <4>3. InRows(a, box) => dy * (a.x - pt.x) > 0
        BY <2>2, <3>1
      <4>4. InRows(b, box) => dy * (b.x - pt.x) > 0
        BY <2>3, <3>1
      <4> HIDE DEF dy
      <4>5. \A k \in Int : dy * k > 0 => k > 0
        BY <2>4, <2>5
      <4>6. a.x - pt.x \in Int /\ b.x - pt.x \in Int
        BY <1>1
      <4>7. (InRows(a, box) => a.x - pt.x > 0) /\ (InRows(b, box) => b.x - pt.x > 0)
        BY <4>3, <4>4, <4>5, <4>6
      <4>8. (InRows(a, box) => a.x > pt.x) /\ (InRows(b, box) => b.x > pt.x)
        BY <1>1, <4>7
      <4> QED
        BY <4>1, <4>2, <4>8
    <3>2. ToRight(a, b, box)
      BY <3>1 DEF ToRight
    <3> QED
      BY <3>2
  <2>6. CASE dy < 0
    <3>1. ASSUME NEW pt \in Locations, StrictlyIn(box, pt)
          PROVE  /\ Up(b, a, pt.y) => Cross(a, b, pt) > 0
                 /\ ~Up(a, b, pt.y)
                 /\ InRows(a, box) => a.x < pt.x
                 /\ InRows(b, box) => b.x < pt.x
      <4>1. Up(b, a, pt.y) => Cross(a, b, pt) > 0
        BY <2>1, <3>1
      <4>2. ~Up(a, b, pt.y)
        BY <1>1, <2>6 DEF Up
      <4>3. InRows(a, box) => dy * (a.x - pt.x) > 0
        BY <2>2, <3>1
      <4>4. InRows(b, box) => dy * (b.x - pt.x) > 0
        BY <2>3, <3>1
      <4> HIDE DEF dy
      <4>5. \A k \in Int : dy * k > 0 => k < 0
        BY <2>4, <2>6
      <4>6. a.x - pt.x \in Int /\ b.x - pt.x \in Int
        BY <1>1
      <4>7. (InRows(a, box) => a.x - pt.x < 0) /\ (InRows(b, box) => b.x - pt.x < 0)
        BY <4>3, <4>4, <4>5, <4>6
      <4>8. (InRows(a, box) => a.x < pt.x) /\ (InRows(b, box) => b.x < pt.x)
        BY <1>1, <4>7
      <4> QED
        BY <4>1, <4>2, <4>8
    <3>2. ToLeft(a, b, box)
      BY <3>1 DEF ToLeft
    <3> QED
      BY <3>2
  <2>7. dy > 0 \/ dy < 0
    BY <1>1, <1>3
  <2> QED
    BY <2>5, <2>6, <2>7
<1> QED
  BY <1>2, <1>3

\* An edge that does not enter a square is clear of it or wholly beside it.
LEMMA BesideSquare ==
    ASSUME NEW a \in Locations, NEW b \in Locations, NEW box \in Squares, ~Enters(a, b, box)
    PROVE  Clear(a, b, box) \/ ToRight(a, b, box) \/ ToLeft(a, b, box)
<1> DEFINE r == MBR({a, b})
<1>1. /\ a.x \in Int /\ a.y \in Int /\ b.x \in Int /\ b.y \in Int
      /\ box.x \in Int /\ box.y \in Int /\ box.w \in Nat \ {0}
      /\ \A pt \in Locations : pt.x \in Int /\ pt.y \in Int
  BY DEF Locations, Squares
<1>2. CASE ~IsIntersect(box, r)
  <2>1. /\ r.x_min = (IF a.x <= b.x THEN a.x ELSE b.x)
        /\ r.x_max = (IF a.x <= b.x THEN b.x ELSE a.x)
        /\ r.y_min = (IF a.y <= b.y THEN a.y ELSE b.y)
        /\ r.y_max = (IF a.y <= b.y THEN b.y ELSE a.y)
    BY PairMBR
  <2> HIDE DEF r
  <2>2. \/ a.x >= box.x + box.w /\ b.x >= box.x + box.w
        \/ a.x <= box.x /\ b.x <= box.x
        \/ Clear(a, b, box)
    BY <1>1, <1>2, <2>1 DEF IsIntersect, Clear
  <2>3. CASE a.x >= box.x + box.w /\ b.x >= box.x + box.w
    <3>1. ASSUME NEW pt \in Locations, StrictlyIn(box, pt)
          PROVE  /\ Up(a, b, pt.y) => Cross(a, b, pt) > 0
                 /\ Up(b, a, pt.y) => Cross(a, b, pt) < 0
                 /\ a.x > pt.x /\ b.x > pt.x
      <4>1. a.x > pt.x /\ b.x > pt.x
        BY <1>1, <2>3, <3>1 DEF StrictlyIn
      <4>2. Up(a, b, pt.y) => Cross(a, b, pt) > 0
        BY <4>1, CrossBeside
      <4>3. Up(b, a, pt.y) => Cross(b, a, pt) > 0
        BY <4>1, CrossBeside
      <4>4. Cross(b, a, pt) = 0 - Cross(a, b, pt) /\ Cross(a, b, pt) \in Int
        BY CrossReverse, CrossInt
      <4> QED
        BY <4>1, <4>2, <4>3, <4>4
    <3> QED
      BY <3>1 DEF ToRight
  <2>4. CASE a.x <= box.x /\ b.x <= box.x
    <3>1. ASSUME NEW pt \in Locations, StrictlyIn(box, pt)
          PROVE  /\ Up(a, b, pt.y) => Cross(a, b, pt) < 0
                 /\ Up(b, a, pt.y) => Cross(a, b, pt) > 0
                 /\ a.x < pt.x /\ b.x < pt.x
      <4>1. a.x < pt.x /\ b.x < pt.x
        BY <1>1, <2>4, <3>1 DEF StrictlyIn
      <4>2. Up(a, b, pt.y) => Cross(a, b, pt) < 0
        BY <4>1, CrossBeside
      <4>3. Up(b, a, pt.y) => Cross(b, a, pt) < 0
        BY <4>1, CrossBeside
      <4>4. Cross(b, a, pt) = 0 - Cross(a, b, pt) /\ Cross(a, b, pt) \in Int
        BY CrossReverse, CrossInt
      <4> QED
        BY <4>1, <4>2, <4>3, <4>4
    <3> QED
      BY <3>1 DEF ToLeft
  <2> QED
    BY <2>2, <2>3, <2>4
<1>3. CASE IsIntersect(box, r)
  <2>1. a # b
    BY <1>3 DEF Enters
  <2>2. \A c \in Corners(box) : /\ Cross(a, b, c) \in Int
                                 /\ Cross(b, a, c) = 0 - Cross(a, b, c)
    BY CornerSet, CrossInt, CrossReverse
  <2>3. \/ \A c \in Corners(box) : ~(Cross(a, b, c) > 0)
        \/ \A c \in Corners(box) : ~(Cross(a, b, c) < 0)
    BY <1>3 DEF Enters
  <2>4. CASE \A c \in Corners(box) : ~(Cross(a, b, c) < 0)
    <3>1. \A c \in Corners(box) : Cross(a, b, c) >= 0
      BY <2>2, <2>4
    <3> QED
      BY <2>1, <3>1, BesideNotRight
  <2>5. CASE \A c \in Corners(box) : ~(Cross(a, b, c) > 0)
    <3>1. \A c \in Corners(box) : Cross(b, a, c) >= 0
      BY <2>2, <2>5
    <3>2. Clear(b, a, box) \/ ToRight(b, a, box) \/ ToLeft(b, a, box)
      BY <2>1, <3>1, BesideNotRight
    <3>3. \A pt \in Locations : /\ Cross(a, b, pt) \in Int
                                /\ Cross(b, a, pt) = 0 - Cross(a, b, pt)
      BY CrossInt, CrossReverse
    <3>4. Clear(b, a, box) => Clear(a, b, box)
      BY DEF Clear
    <3>5. ToRight(b, a, box) => ToRight(a, b, box)
      BY <3>3 DEF ToRight
    <3>6. ToLeft(b, a, box) => ToLeft(a, b, box)
      BY <3>3 DEF ToLeft
    <3> QED
      BY <3>2, <3>4, <3>5, <3>6
  <2> QED
    BY <2>3, <2>4, <2>5
<1> QED
  BY <1>2, <1>3

(***************************************************************************)
(* The even-odd rule.                                                      *)
(***************************************************************************)
Crossed(c, ring) == {j \in 1..Len(ring) - 1 : CrossesRay(ring[j], ring[j + 1], c)}

\* EvenOdd is the parity of the set of edges crossed.
LEMMA EvenOddIsOdd == \A c, ring : EvenOdd(c, ring) <=> Odd(Crossed(c, ring))
BY DEF EvenOdd, Odd, Crossed

\* From c up to d, an edge beside the square comes in or out of the ray for
\* each of its ends that is passed.
Passed(v, c, d) == c.y < v.y /\ v.y <= d.y /\ v.x > c.x

\* Between two points inside a square an edge does not enter, its crossing
\* of their rays changes exactly as its two ends are passed.
LEMMA EdgeChange ==
    ASSUME NEW a \in Locations, NEW b \in Locations, NEW box \in Squares, ~Enters(a, b, box),
           NEW c \in Locations, NEW d \in Locations, StrictlyIn(box, c), StrictlyIn(box, d),
           c.y <= d.y
    PROVE  ~(CrossesRay(a, b, c) <=> CrossesRay(a, b, d)) <=> ~(Passed(a, c, d) <=> Passed(b, c, d))
<1>1. /\ a.x \in Int /\ a.y \in Int /\ b.x \in Int /\ b.y \in Int
      /\ box.x \in Int /\ box.y \in Int /\ box.w \in Nat \ {0}
      /\ c.x \in Int /\ c.y \in Int /\ d.x \in Int /\ d.y \in Int
  BY DEF Locations, Squares
<1>2. /\ CrossesRay(a, b, c) <=> \/ Up(a, b, c.y) /\ Cross(a, b, c) > 0
                                 \/ Up(b, a, c.y) /\ Cross(a, b, c) < 0
      /\ CrossesRay(a, b, d) <=> \/ Up(a, b, d.y) /\ Cross(a, b, d) > 0
                                 \/ Up(b, a, d.y) /\ Cross(a, b, d) < 0
  BY DEF CrossesRay, Up
<1>3. Cross(a, b, c) \in Int /\ Cross(a, b, d) \in Int
  BY CrossInt
<1>4. /\ box.y < c.y /\ c.y < box.y + box.w /\ box.y < d.y /\ d.y < box.y + box.w
  BY DEF StrictlyIn
<1>5. CASE Clear(a, b, box)
  BY <1>1, <1>2, <1>4, <1>5 DEF Clear, Up, Passed
<1>6. CASE ToRight(a, b, box)
  <2>1. /\ CrossesRay(a, b, c) <=> Up(a, b, c.y) \/ Up(b, a, c.y)
        /\ CrossesRay(a, b, d) <=> Up(a, b, d.y) \/ Up(b, a, d.y)
    BY <1>2, <1>6 DEF ToRight
  <2>2. (InRows(a, box) => a.x > c.x) /\ (InRows(b, box) => b.x > c.x)
    BY <1>6 DEF ToRight
  <2>3. /\ Passed(a, c, d) <=> c.y < a.y /\ a.y <= d.y
        /\ Passed(b, c, d) <=> c.y < b.y /\ b.y <= d.y
    BY <1>1, <1>4, <2>2 DEF Passed, InRows
  <2> QED
    BY <1>1, <2>1, <2>3 DEF Up
<1>7. CASE ToLeft(a, b, box)
  <2>1. ~CrossesRay(a, b, c) /\ ~CrossesRay(a, b, d)
    <3>1. /\ Up(a, b, c.y) => Cross(a, b, c) < 0
          /\ Up(b, a, c.y) => Cross(a, b, c) > 0
          /\ Up(a, b, d.y) => Cross(a, b, d) < 0
          /\ Up(b, a, d.y) => Cross(a, b, d) > 0
      BY <1>7 DEF ToLeft
    <3> QED
      BY <1>2, <1>3, <3>1
  <2>2. (InRows(a, box) => a.x < c.x) /\ (InRows(b, box) => b.x < c.x)
    BY <1>7 DEF ToLeft
  <2>3. ~Passed(a, c, d) /\ ~Passed(b, c, d)
    BY <1>1, <1>4, <2>2 DEF Passed, InRows
  <2> QED
    BY <2>1, <2>3
<1> QED
  BY <1>5, <1>6, <1>7, BesideSquare

IsRing(ring) == ring \in Seq(Locations) /\ Len(ring) > 1 /\ ring[1] = ring[Len(ring)]

\* The points and the edges of a ring.
LEMMA RingEdges ==
    ASSUME NEW ring, IsRing(ring)
    PROVE  /\ Len(ring) \in Nat /\ Len(ring) - 1 \in Nat /\ (Len(ring) - 1) + 1 = Len(ring)
           /\ \A j \in 1..Len(ring) : ring[j] \in Locations
           /\ \A j \in 1..Len(ring) - 1 : /\ j \in 1..Len(ring) /\ j + 1 \in 1..Len(ring)
                                           /\ ring[j] \in Locations /\ ring[j + 1] \in Locations
<1>1. Len(ring) \in Nat /\ Len(ring) > 1 /\ \A j \in 1..Len(ring) : ring[j] \in Locations
  BY LenProperties, ElementOfSeq DEF IsRing
<1> QED
  BY <1>1

\* A property of vertices changes an even number of times around a ring.
LEMMA RingChanges ==
    ASSUME NEW ring, IsRing(ring), NEW G,
           NEW C, C = {j \in 1..Len(ring) - 1 : ~(ring[j] \in G <=> ring[j + 1] \in G)}
    PROVE  ~Odd(C)
<1> DEFINE n == Len(ring) - 1
           H == {j \in 1..Len(ring) : ring[j] \in G}
<1>1. n \in Nat /\ n + 1 = Len(ring) /\ 1 \in 1..Len(ring) /\ Len(ring) \in 1..Len(ring)
  BY RingEdges DEF IsRing
<1>2. \A j \in 1..n : j \in 1..Len(ring) /\ j + 1 \in 1..Len(ring)
  BY RingEdges
<1>3. C = {j \in 1..n : ~(j \in H <=> j + 1 \in H)}
  BY <1>2
<1>4. 1 \in H <=> n + 1 \in H
  BY <1>1 DEF IsRing
<1> HIDE DEF n, H
<1> QED
  BY <1>1, <1>3, <1>4, OddChanges

\* The inside of a ring does not change where no edge passes.
LEMMA ParityUp ==
    ASSUME NEW ring, IsRing(ring), NEW box \in Squares, ~SomeSegment(Enters, ring, box),
           NEW c \in Locations, NEW d \in Locations, StrictlyIn(box, c), StrictlyIn(box, d),
           c.y <= d.y
    PROVE  EvenOdd(c, ring) <=> EvenOdd(d, ring)
<1> DEFINE n == Len(ring) - 1
           A == Crossed(c, ring)
           B == Crossed(d, ring)
           G == {v \in Locations : Passed(v, c, d)}
           C == {j \in 1..n : ~(ring[j] \in G <=> ring[j + 1] \in G)}
<1>1. n \in Nat /\ \A j \in 1..n : ring[j] \in Locations /\ ring[j + 1] \in Locations
  BY RingEdges
<1>2. ASSUME NEW j \in 1..n PROVE j \in C <=> ~(j \in A <=> j \in B)
  <2>1. ~Enters(ring[j], ring[j + 1], box)
    BY DEF SomeSegment
  <2>2. ~(CrossesRay(ring[j], ring[j + 1], c) <=> CrossesRay(ring[j], ring[j + 1], d))
          <=> ~(Passed(ring[j], c, d) <=> Passed(ring[j + 1], c, d))
    BY <1>1, <2>1, EdgeChange
  <2>3. j \in C <=> ~(Passed(ring[j], c, d) <=> Passed(ring[j + 1], c, d))
    BY <1>1
  <2>4. /\ j \in A <=> CrossesRay(ring[j], ring[j + 1], c)
        /\ j \in B <=> CrossesRay(ring[j], ring[j + 1], d)
    BY DEF Crossed
  <2> QED
    BY <2>2, <2>3, <2>4
<1>3. A \subseteq 1..n /\ B \subseteq 1..n /\ C \subseteq 1..n
  BY DEF Crossed
<1>4. ~Odd(C)
  BY RingChanges
<1> HIDE DEF n, A, B, C
<1>5. Odd(C) <=> ~(Odd(A) <=> Odd(B))
  BY <1>1, <1>2, <1>3, OddXor
<1>6. Odd(A) <=> Odd(B)
  BY <1>4, <1>5
<1> QED
  BY <1>6, EvenOddIsOdd DEF A, B

\* A ring that does not enter a square has the same points inside all over
\* it.
LEMMA ParityConstant ==
    ASSUME NEW ring, IsRing(ring), NEW box \in Squares, ~SomeSegment(Enters, ring, box),
           NEW c \in Locations, NEW d \in Locations, StrictlyIn(box, c), StrictlyIn(box, d)
    PROVE  EvenOdd(c, ring) <=> EvenOdd(d, ring)
<1>1. c.y \in Int /\ d.y \in Int
  BY DEF Locations
<1>2. CASE c.y <= d.y
  BY <1>2, ParityUp
<1>3. CASE d.y <= c.y
  BY <1>3, ParityUp
<1> QED
  BY <1>1, <1>2, <1>3

\* Nothing is inside a ring but outside its bounding rectangle.
LEMMA EvenOddInMBR ==
    ASSUME NEW ring, IsRing(ring), NEW c \in Locations, EvenOdd(c, ring)
    PROVE  IsInMBR(c, MBR(Range(ring))) /\ MBR(Range(ring)) \in Rects
<1> DEFINE r == MBR(Range(ring))
           n == Len(ring) - 1
           A == Crossed(c, ring)
           G == {v \in Locations : v.y <= c.y}
           C == {j \in 1..n : ~(ring[j] \in G <=> ring[j + 1] \in G)}
<1>1. /\ r \in Rects
      /\ \A j \in 1..Len(ring) : /\ ring[j] \in Locations
                                  /\ ring[j].x >= r.x_min /\ ring[j].x <= r.x_max
                                  /\ ring[j].y >= r.y_min /\ ring[j].y <= r.y_max
  BY SequenceMBR DEF IsRing
<1>2. \A j \in 1..n : j \in 1..Len(ring) /\ j + 1 \in 1..Len(ring)
  BY RingEdges
<1>3. Odd(A)
  BY EvenOddIsOdd
<1> HIDE DEF r
<1>4. /\ c.x \in Int /\ c.y \in Int
      /\ r.x_min \in Int /\ r.x_max \in Int /\ r.y_min \in Int /\ r.y_max \in Int
      /\ \A j \in 1..Len(ring) : ring[j].x \in Int /\ ring[j].y \in Int
  BY <1>1 DEF Locations, Rects
<1>5. PICK k : k \in A
  <2>1. A # {}
    BY <1>3, OddStep
  <2> QED
    BY <2>1
<1>6. k \in 1..n /\ CrossesRay(ring[k], ring[k + 1], c)
  BY <1>5 DEF Crossed
<1>7. r.y_min <= c.y /\ c.y <= r.y_max
  <2>1. \/ ring[k].y <= c.y /\ c.y < ring[k + 1].y
        \/ ring[k + 1].y <= c.y /\ c.y < ring[k].y
    BY <1>6 DEF CrossesRay
  <2> QED
    BY <1>1, <1>2, <1>4, <1>6, <2>1
<1>8. c.x <= r.x_max
  <2> SUFFICES ASSUME c.x > r.x_max PROVE FALSE
    BY <1>4
  <2> DEFINE a == ring[k]
             b == ring[k + 1]
  <2>1. a \in Locations /\ b \in Locations /\ a.x < c.x /\ b.x < c.x
    BY <1>1, <1>2, <1>4, <1>6
  <2>2. \/ Up(a, b, c.y) /\ Cross(a, b, c) > 0
        \/ Up(b, a, c.y) /\ Cross(a, b, c) < 0
    BY <1>6 DEF CrossesRay, Up
  <2> HIDE DEF a, b
  <2>3. Up(a, b, c.y) => Cross(a, b, c) < 0
    BY <2>1, CrossBeside
  <2>4. Up(b, a, c.y) => Cross(b, a, c) < 0
    BY <2>1, CrossBeside
  <2>5. Cross(b, a, c) = 0 - Cross(a, b, c) /\ Cross(a, b, c) \in Int
    BY <2>1, CrossReverse, CrossInt
  <2> QED
    BY <2>2, <2>3, <2>4, <2>5
<1>9. r.x_min <= c.x
  <2> SUFFICES ASSUME c.x < r.x_min PROVE FALSE
    BY <1>4
  <2>1. ASSUME NEW j \in 1..n PROVE j \in A <=> j \in C
    <3> DEFINE a == ring[j]
               b == ring[j + 1]
    <3>1. a \in Locations /\ b \in Locations /\ a.x > c.x /\ b.x > c.x
      <4>1. j \in 1..Len(ring) /\ j + 1 \in 1..Len(ring)
        BY <1>2
      <4>2. /\ a \in Locations /\ a.x >= r.x_min /\ a.x \in Int
            /\ b \in Locations /\ b.x >= r.x_min /\ b.x \in Int
        BY <1>1, <1>4, <4>1
      <4> HIDE DEF a, b
      <4> QED
        BY <1>4, <4>2
    <3>2. j \in A <=> ((Up(a, b, c.y) /\ Cross(a, b, c) > 0) \/ (Up(b, a, c.y) /\ Cross(a, b, c) < 0))
      <4>1. j \in A <=> CrossesRay(a, b, c)
        BY DEF Crossed
      <4> QED
        BY <4>1 DEF CrossesRay, Up
    <3>3. j \in C <=> ~(a.y <= c.y <=> b.y <= c.y)
      BY <3>1
    <3> HIDE DEF a, b
    <3>4. Up(a, b, c.y) => Cross(a, b, c) > 0
      BY <3>1, CrossBeside
    <3>5. Up(b, a, c.y) => Cross(b, a, c) > 0
      BY <3>1, CrossBeside
    <3>6. Cross(b, a, c) = 0 - Cross(a, b, c) /\ Cross(a, b, c) \in Int
      BY <3>1, CrossReverse, CrossInt
    <3>7. j \in A <=> (Up(a, b, c.y) \/ Up(b, a, c.y))
      BY <3>2, <3>4, <3>5, <3>6
    <3>8. a.y \in Int /\ b.y \in Int
      BY <3>1 DEF Locations
    <3> QED
      BY <1>4, <3>3, <3>7, <3>8 DEF Up
  <2>2. A \subseteq 1..n /\ C \subseteq 1..n
    BY DEF Crossed
  <2>3. ~Odd(C)
    BY RingChanges
  <2> HIDE DEF A, C, n
  <2>4. A = C
    BY <2>1, <2>2
  <2> QED
    BY <1>3, <2>3, <2>4
<1>10. IsInMBR(c, r)
  BY <1>7, <1>8, <1>9 DEF IsInMBR
<1> QED
  BY <1>1, <1>10 DEF r

\* The code's test of an edge, and that of the even-odd rule.
EdgeCrossed(a, b, c) ==
    LET x0 == a.x - c.x
        y0 == a.y - c.y
        x1 == b.x - c.x
        y1 == b.y - c.y
    IN  /\ (y0 <= 0) # (y1 <= 0)
        /\ IF y0 > y1 THEN x1 * y0 - x0 * y1 > 0 ELSE x1 * y0 - x0 * y1 < 0

\* The test the code makes of an edge is whether it crosses the ray.
LEMMA EdgeTest ==
    ASSUME NEW a \in Locations, NEW b \in Locations, NEW c \in Locations
    PROVE  EdgeCrossed(a, b, c) <=> CrossesRay(a, b, c)
<1> DEFINE k == (b.x - c.x) * (a.y - c.y) - (a.x - c.x) * (b.y - c.y)
<1>1. /\ a.x \in Int /\ a.y \in Int /\ b.x \in Int /\ b.y \in Int
      /\ c.x \in Int /\ c.y \in Int
  BY DEF Locations
<1>2. Cross(a, b, c) = 0 - k /\ k \in Int
  <2> DEFINE x0 == a.x - c.x
             y0 == a.y - c.y
             x1 == b.x - c.x
             y1 == b.y - c.y
  <2>1. /\ x0 \in Int /\ y0 \in Int /\ x1 \in Int /\ y1 \in Int
        /\ b.x - a.x = x1 - x0 /\ c.y - a.y = 0 - y0
        /\ b.y - a.y = y1 - y0 /\ c.x - a.x = 0 - x0
    BY <1>1
  <2>2. Cross(a, b, c) = (x1 - x0) * (0 - y0) - (y1 - y0) * (0 - x0)
    BY <2>1, Zenon DEF Cross
  <2>3. k = x1 * y0 - x0 * y1
    BY Zenon
  <2> HIDE DEF k, x0, y0, x1, y1
  <2>4. (x1 - x0) * (0 - y0) - (y1 - y0) * (0 - x0) = 0 - (x1 * y0 - x0 * y1)
    <3>1. (x1 - x0) * (0 - y0) = x0 * y0 - x1 * y0
      BY <2>1
    <3>2. (y1 - y0) * (0 - x0) = y0 * x0 - y1 * x0
      BY <2>1
    <3>3. y0 * x0 = x0 * y0 /\ y1 * x0 = x0 * y1
      BY <2>1
    <3>4. x0 * y0 \in Int /\ x1 * y0 \in Int /\ x0 * y1 \in Int
      BY <2>1
    <3> DEFINE P == x0 * y0
               Q == x1 * y0
               R == x0 * y1
    <3>5. (P - Q) - (P - R) = 0 - (Q - R)
      BY <3>4
    <3> QED
      BY <3>1, <3>2, <3>3, <3>5
  <2>5. x1 * y0 \in Int /\ x0 * y1 \in Int
    BY <2>1
  <2> QED
    BY <2>2, <2>3, <2>4, <2>5
<1>3. EdgeCrossed(a, b, c) <=>
        (/\ ~((a.y - c.y <= 0) <=> (b.y - c.y <= 0))
         /\ IF a.y - c.y > b.y - c.y THEN k > 0 ELSE k < 0)
  BY <1>1, <1>2 DEF EdgeCrossed
<1>4. CrossesRay(a, b, c) <=>
        (\/ a.y <= c.y /\ c.y < b.y /\ Cross(a, b, c) > 0
         \/ b.y <= c.y /\ c.y < a.y /\ Cross(a, b, c) < 0)
  BY DEF CrossesRay
<1> HIDE DEF k
<1> QED
  BY <1>1, <1>2, <1>3, <1>4

\* The code counts the same edges.
LEMMA PolygonTest ==
    ASSUME NEW ring, IsRing(ring), NEW c \in Locations
    PROVE  IsInPolygon(c, ring) <=> EvenOdd(c, ring)
<1> DEFINE crossed(i) ==
             LET x0 == ring[i - 1].x - c.x
                 y0 == ring[i - 1].y - c.y
                 x1 == ring[i].x - c.x
                 y1 == ring[i].y - c.y
             IN  /\ (y0 <= 0) # (y1 <= 0)
                 /\ IF y0 > y1 THEN x1 * y0 - x0 * y1 > 0 ELSE x1 * y0 - x0 * y1 < 0
           n == Len(ring) - 1
           A == Crossed(c, ring)
           B == {i \in 2..Len(ring) : crossed(i)}
<1>1. IsInPolygon(c, ring) <=> Odd(B)
  BY DEF IsInPolygon, Odd
<1>2. Len(ring) \in Nat /\ n \in Nat /\ \A j \in 1..n : ring[j] \in Locations /\ ring[j + 1] \in Locations
  BY RingEdges
<1>3. c.x \in Int /\ c.y \in Int
  BY DEF Locations
<1>4. ASSUME NEW j \in 1..n PROVE crossed(j + 1) <=> CrossesRay(ring[j], ring[j + 1], c)
  <2>1. (j + 1) - 1 = j /\ ring[j] \in Locations /\ ring[j + 1] \in Locations
    BY <1>2
  <2>2. crossed(j + 1) <=> EdgeCrossed(ring[j], ring[j + 1], c)
    BY <2>1 DEF EdgeCrossed
  <2> HIDE DEF crossed
  <2> QED
    BY <2>1, <2>2, EdgeTest
<1> HIDE DEF crossed
<1>5. B = {j + 1 : j \in A}
  <2>1. ASSUME NEW i \in B PROVE i \in {j + 1 : j \in A}
    <3>1. i - 1 \in 1..n /\ (i - 1) + 1 = i
      BY <1>2
    <3>2. CrossesRay(ring[i - 1], ring[(i - 1) + 1], c)
      BY <1>4, <3>1
    <3>3. i - 1 \in A
      BY <3>1, <3>2 DEF Crossed
    <3> QED
      BY <3>1, <3>3
  <2>2. ASSUME NEW j \in A PROVE j + 1 \in B
    <3>1. j \in 1..n /\ CrossesRay(ring[j], ring[j + 1], c)
      BY DEF Crossed
    <3>2. crossed(j + 1) /\ j + 1 \in 2..Len(ring)
      BY <1>2, <1>4, <3>1
    <3> QED
      BY <3>2
  <2> HIDE DEF B
  <2> QED
    BY <2>1, <2>2
<1>6. A \subseteq 1..n
  BY DEF Crossed
<1> HIDE DEF A, B, n
<1>7. Odd(B) <=> Odd(A)
  BY <1>2, <1>5, <1>6, OddShift
<1> QED
  BY <1>1, <1>7, EvenOddIsOdd DEF A

(***************************************************************************)
(* The insertion of a ring: its rim, then its interior.                    *)
(***************************************************************************)
RingNode(ring) == MBNode(MBR(Range(ring)))

WithRim(t, ring) ==
    InsertSegments(BuildMBNodePolygon(t, MBR(Range(ring))), RingNode(ring), ring)

NewInterior(t, ring) == Interior(WithRim(t, ring), RingNode(ring), ring)

\* The node a ring is inserted below is the lowest on the way to its
\* rectangle.
LEMMA RingNodeProperties ==
    ASSUME NEW ring
    PROVE  /\ RingNode(ring) \in OnTheWay(MBR(Range(ring)))
           /\ RingNode(ring) \in Paths /\ RingNode(ring) \in Seq(Quads)
           /\ Len(RingNode(ring)) \in Nat
           /\ \A p \in OnTheWay(MBR(Range(ring))) : Len(p) <= Len(RingNode(ring))
<1>1. /\ RingNode(ring) \in OnTheWay(MBR(Range(ring)))
      /\ \A p \in OnTheWay(MBR(Range(ring))) : Len(p) <= Len(RingNode(ring))
  BY MBNodeProperties DEF RingNode
<1>2. RingNode(ring) \in Paths
  BY <1>1, OnTheWayProperties
<1> QED
  BY <1>1, <1>2, PathsAreSequences, LenProperties

\* A ring's rim keeps the tree a tree.
LEMMA RimShape ==
    ASSUME NEW t, Shape(t), NEW ring
    PROVE  Shape(WithRim(t, ring)) /\ RingNode(ring) \in DOMAIN WithRim(t, ring)
<1> DEFINE t1 == BuildMBNodePolygon(t, MBR(Range(ring)))
<1>1. Shape(t1) /\ RingNode(ring) \in DOMAIN t1
  BY MBNodePolygonShape DEF RingNode
<1> HIDE DEF t1
<1>2. /\ Shape(InsertSegments(t1, RingNode(ring), ring))
      /\ RingNode(ring) \in DOMAIN InsertSegments(t1, RingNode(ring), ring)
  BY <1>1, SegmentsShape
<1> QED
  BY <1>2 DEF WithRim, t1

\* The rim adds the nodes a polyline would, and changes only provisional nodes;
\* no node below the ring's that its segments reach stays provisional.
LEMMA RimNodes ==
    ASSUME NEW t, Shape(t), NEW ring
    PROVE  LET t2 == WithRim(t, ring)
               m == RingNode(ring)
           IN  /\ DOMAIN t2 = DOMAIN t \cup LineNodes(ring)
               /\ \A p \in DOMAIN t : t[p] # "m" => t2[p] = t[p]
               /\ \A p \in DOMAIN t2 : p \notin DOMAIN t /\ Len(p) # 1 => t2[p] = "s"
               /\ \A p \in DOMAIN t2 : t2[p] = "b" => p \in DOMAIN t /\ t[p] = "b"
               /\ \A p \in LineNodes(ring) :
                     p \notin OnTheWay(MBR(Range(ring))) => t2[p] # "m"
<1> DEFINE r == MBR(Range(ring))
           m == RingNode(ring)
           way == OnTheWay(r)
           t1 == BuildMBNodePolygon(t, r)
           reached == UNION {Reached(m, s) : s \in Segments(ring)}
           below == reached \ {m}
           t2 == WithRim(t, ring)
<1>1. t[<<>>] = "s"
  BY DEF Shape, IsTree
<1>2. t1 = [p \in DOMAIN t \cup way |->
               CASE p \in DOMAIN t -> t[p]
                 [] p \notin DOMAIN t /\ Len(p) = 1 -> IF t[<<>>] = "b" THEN "b" ELSE "m"
                 [] OTHER -> "s"]
  BY DEF BuildMBNodePolygon
<1>3. t2 = [p \in DOMAIN t1 \cup below |->
               IF p \in below /\ (p \notin DOMAIN t1 \/ t1[p] = "m") THEN "s" ELSE t1[p]]
  BY DEF WithRim, InsertSegments
<1>4. m \in way /\ LineNodes(ring) = way \cup reached
  BY RingNodeProperties DEF LineNodes, RingNode
<1> HIDE DEF t1, t2, way, reached, m
<1>5. DOMAIN t1 = DOMAIN t \cup way
  BY <1>2
<1>6. \A p \in DOMAIN t : t1[p] = t[p]
  BY <1>2
<1>7. \A p \in way : p \notin DOMAIN t => t1[p] = IF Len(p) = 1 THEN "m" ELSE "s"
  <2> SUFFICES ASSUME NEW p \in way, p \notin DOMAIN t
               PROVE  t1[p] = IF Len(p) = 1 THEN "m" ELSE "s"
    OBVIOUS
  <2>1. t1[p] = CASE p \in DOMAIN t -> t[p]
                  [] p \notin DOMAIN t /\ Len(p) = 1 -> IF t[<<>>] = "b" THEN "b" ELSE "m"
                  [] OTHER -> "s"
    BY <1>2
  <2>2. CASE Len(p) = 1
    BY <1>1, <2>1, <2>2
  <2>3. CASE Len(p) # 1
    BY <2>1, <2>3
  <2> QED
    BY <2>2, <2>3
<1>8. DOMAIN t2 = DOMAIN t \cup LineNodes(ring)
  BY <1>3, <1>4, <1>5
<1>9. \A p \in DOMAIN t : t[p] # "m" => t2[p] = t[p]
  BY <1>3, <1>5, <1>6
<1>10. \A p \in DOMAIN t2 : p \notin DOMAIN t /\ Len(p) # 1 => t2[p] = "s"
  BY <1>3, <1>5, <1>7
<1>11. \A p \in DOMAIN t2 : t2[p] = "b" => p \in DOMAIN t /\ t[p] = "b"
  <2> SUFFICES ASSUME NEW p \in DOMAIN t2, t2[p] = "b" PROVE p \in DOMAIN t /\ t[p] = "b"
    OBVIOUS
  <2>1. p \in DOMAIN t1 /\ t1[p] = "b"
    BY <1>3
  <2> QED
    BY <1>5, <1>6, <1>7, <2>1
<1>12. \A p \in LineNodes(ring) : p \notin way => t2[p] # "m"
  <2> SUFFICES ASSUME NEW p \in LineNodes(ring), p \notin way PROVE t2[p] # "m"
    OBVIOUS
  <2>1. p \in below
    BY <1>4
  <2> QED
    BY <1>3, <2>1
<1> QED
  BY <1>8, <1>9, <1>10, <1>11, <1>12 DEF t2, way

\* A ring's interior changes only provisional nodes.
LEMMA RingTree ==
    ASSUME NEW t, NEW ring
    PROVE  LET t2 == WithRim(t, ring)
               new == NewInterior(t, ring)
               t3 == InsertRing(t, ring)
           IN  /\ DOMAIN t3 = DOMAIN t2 \cup new
               /\ \A p \in new : t3[p] = "b" /\ (p \in DOMAIN t2 => t2[p] = "m")
               /\ \A p \in DOMAIN t2 : p \notin new => t3[p] = t2[p]
<1> DEFINE t2 == WithRim(t, ring)
           new == NewInterior(t, ring)
           t3 == InsertRing(t, ring)
<1>1. t3 = [p \in DOMAIN t2 \cup new |-> IF p \in new THEN "b" ELSE t2[p]]
  BY DEF InsertRing, InsertPolygonBox, WithRim, NewInterior, RingNode
<1>2. \A p \in new : p \in DOMAIN t2 => t2[p] = "m"
  BY DEF NewInterior, Interior
<1> HIDE DEF t2, new, t3
<1> QED
  BY <1>1, <1>2 DEF t2, new, t3

\* What the ring enters is in the tree.
LEMMA RingEntered ==
    ASSUME NEW t, Shape(t), NEW ring, IsRing(ring), NEW p \in Paths,
           SomeSegment(Enters, ring, Box[p])
    PROVE  p \in LineNodes(ring) /\ p \in DOMAIN WithRim(t, ring) /\ p \in DOMAIN InsertRing(t, ring)
<1>1. p \in LineNodes(ring)
  BY LineNodesEntered DEF IsRing
<1> HIDE DEF SomeSegment
<1>2. DOMAIN WithRim(t, ring) = DOMAIN t \cup LineNodes(ring)
  BY RimNodes
<1>3. DOMAIN InsertRing(t, ring) = DOMAIN WithRim(t, ring) \cup NewInterior(t, ring)
  BY RingTree
<1> QED
  BY <1>1, <1>2, <1>3

\* A prefix is an ancestor.
LEMMA PrefixOf ==
    ASSUME NEW m \in Seq(Quads), NEW p \in Seq(Quads)
    PROVE  IsPrefix(m, p) <=> Len(m) <= Len(p) /\ Above(p, Len(m)) = m
<1>1. Above(m, Len(m)) = m
  BY AboveSelf
<1> QED
  BY <1>1 DEF IsPrefix, Above

\* An interior node's square has its centre inside the ring, which does not
\* enter it.
LEMMA InteriorUntouched ==
    ASSUME NEW t, Shape(t), NEW ring, IsRing(ring), NEW p \in NewInterior(t, ring)
    PROVE  /\ p \in Paths /\ EvenOdd(Centre(Box[p]), ring)
           /\ ~SomeSegment(Enters, ring, Box[p])
<1> DEFINE r == MBR(Range(ring))
           m == RingNode(ring)
           t2 == WithRim(t, ring)
<1>1. PICK a \in BoxVisits(t2, m, r), q \in Quads : p = Child(a, q)
  BY DEF NewInterior, Interior
<1>2. IsInPolygon(Centre(Box[p]), ring) /\ (p \in DOMAIN t2 => t2[p] = "m")
  BY DEF NewInterior, Interior
<1>3. a \in Inner /\ IsPrefix(m, a) /\ m \in Seq(Quads)
  BY <1>1, RingNodeProperties DEF BoxVisits
<1>4. /\ p \in Paths /\ Len(p) = Len(a) + 1 /\ Len(a) \in Nat /\ a \in Paths
  BY <1>1, <1>3, ChildLen
<1>5. Len(m) <= Len(a) /\ Len(m) \in Nat
  BY <1>3, <1>4, RingNodeProperties, PathsAreSequences, PrefixOf
<1>6. Centre(Box[p]) \in Locations
  BY <1>4, BoxSize, CoverCorners, Halves, SMTT(30) DEF Locations, Squares
<1>7. EvenOdd(Centre(Box[p]), ring)
  BY <1>2, <1>6, PolygonTest
<1>8. ASSUME SomeSegment(Enters, ring, Box[p]) PROVE FALSE
  <2>1. p \in LineNodes(ring) /\ p \in DOMAIN t2
    BY <1>4, <1>8, RingEntered
  <2>2. t2[p] = "m"
    BY <1>2, <2>1
  <2>3. p \in OnTheWay(r)
    BY <2>1, <2>2, RimNodes, ZenonT(60)
  <2>4. Len(p) <= Len(m)
    BY <2>3, RingNodeProperties
  <2> QED
    BY <1>4, <1>5, <2>4
<1> QED
  BY <1>4, <1>7, <1>8

\* The centre of a node's square is strictly inside the squares of its
\* ancestors.
LEMMA CentreStrictlyIn ==
    ASSUME NEW p \in Paths, NEW n \in 0..Len(p)
    PROVE  /\ Centre(Box[p]) \in Locations /\ Above(p, n) \in Paths
           /\ Box[Above(p, n)] \in Squares /\ StrictlyIn(Box[Above(p, n)], Centre(Box[p]))
<1> DEFINE b == Box[p]
           c == Centre(b)
           o == Box[Above(p, n)]
<1>1. b \in Squares /\ \E k \in Nat \ {0} : b.w = 2 * k
  BY BoxSize
<1>2. PICK h \in Nat \ {0} : b.w = 2 * h
  BY <1>1
<1>3. c = [x |-> b.x + h, y |-> b.y + h]
  BY <1>1, <1>2, Halves
<1>4. /\ p \in Seq(Quads) /\ Len(p) \in Nat /\ Len(p) <= TqTreeLevel /\ TqTreeLevel \in Nat
  BY PathsAreSequences, LenProperties, LevelAssumption
<1>5. Above(p, n) \in Paths
  BY <1>4, AboveProperties, PathsAreSequences
<1>6. Within(b, o) /\ o \in Squares
  BY <1>5, BoxWithin, BoxSize
<1> HIDE DEF b, o, c
<1>7. c \in Locations /\ c.x = b.x + h /\ c.y = b.y + h
  BY <1>1, <1>3 DEF Locations, Squares
<1>8. /\ b.x \in Int /\ b.y \in Int /\ b.w \in Int
      /\ o.x \in Int /\ o.y \in Int /\ o.w \in Int
      /\ o.x <= b.x /\ b.x + b.w <= o.x + o.w
      /\ o.y <= b.y /\ b.y + b.w <= o.y + o.w
  BY <1>1, <1>6 DEF Within, Squares
<1>9. /\ o.x < b.x + h /\ b.x + h < o.x + o.w
      /\ o.y < b.y + h /\ b.y + h < o.y + o.w
  BY <1>2, <1>8, SMTT(30)
<1>10. StrictlyIn(o, c)
  BY <1>7, <1>9 DEF StrictlyIn
<1> QED
  BY <1>5, <1>6, <1>7, <1>10 DEF b, o, c

(***************************************************************************)
(* A pixel inside the ring lies in a node that the insertion paints.       *)
(***************************************************************************)
LEMMA WayPrefix ==
    ASSUME NEW r, NEW m \in OnTheWay(r), NEW n \in 0..Len(m)
    PROVE  Above(m, n) \in OnTheWay(r)
<1> DEFINE taken == {Child(p, Min(Holders(p, r))) : p \in {p \in Inner : Holders(p, r) # {}}}
<1>1. OnTheWay(r) = {p \in Paths : \A k \in 1..Len(p) : Above(p, k) \in taken}
  BY DEF OnTheWay
<1>2. m \in Paths /\ \A k \in 1..Len(m) : Above(m, k) \in taken
  BY <1>1, Zenon
<1> HIDE DEF taken
<1>3. m \in Seq(Quads) /\ Len(m) \in Nat /\ Len(m) <= TqTreeLevel /\ TqTreeLevel \in Nat
  BY <1>2, PathsAreSequences, LenProperties, LevelAssumption
<1>4. Above(m, n) \in Seq(Quads) /\ Len(Above(m, n)) = n
  BY <1>3, AboveProperties
<1>5. Above(m, n) \in Paths
  BY <1>3, <1>4, PathsAreSequences
<1>6. ASSUME NEW k \in 1..n PROVE Above(Above(m, n), k) \in taken
  <2>1. k \in 0..n /\ k \in 1..Len(m)
    BY <1>3
  <2>2. Above(Above(m, n), k) = Above(m, k)
    BY <1>3, <2>1, AboveAbove
  <2> QED
    BY <1>2, <2>1, <2>2
<1>7. \A k \in 1..Len(Above(m, n)) : Above(Above(m, n), k) \in taken
  BY <1>4, <1>6
<1> QED
  BY <1>1, <1>5, <1>7, Zenon

\* A node with its centre in a rectangle lies below the rectangle's MBNode, or
\* on the way to it.
LEMMA BelowMBNode ==
    ASSUME NEW r \in Rects, NEW p \in Paths, IsInMBR(Centre(Box[p]), r), p \notin OnTheWay(r)
    PROVE  Len(MBNode(r)) < Len(p) /\ Above(p, Len(MBNode(r))) = MBNode(r)
<1> DEFINE m == MBNode(r)
           c == Centre(Box[p])
           s == MBR({c})
           S == {n \in 0..Len(m) : n <= Len(p) /\ Above(p, n) = Above(m, n)}
<1>1. m \in OnTheWay(r) /\ m \in Paths /\ m \in Seq(Quads) /\ Len(m) \in Nat
  BY MBNodeProperties, OnTheWayProperties, PathsAreSequences, LenProperties
<1>2. p \in Seq(Quads) /\ Len(p) \in Nat
  BY PathsAreSequences, LenProperties
<1>3. \A n \in 0..Len(p) : StrictlyIn(Box[Above(p, n)], c) /\ Box[Above(p, n)] \in Squares
  BY CentreStrictlyIn
<1>4. c \in Locations
  <2>1. 0 \in 0..Len(p)
    BY <1>2
  <2> QED
    BY <2>1, CentreStrictlyIn
<1>5. s = [x_min |-> c.x, x_max |-> c.x, y_min |-> c.y, y_max |-> c.y]
  BY <1>4, PointMBR
<1>6. r.x_min <= c.x /\ c.x <= r.x_max /\ r.y_min <= c.y /\ c.y <= r.y_max
  BY DEF IsInMBR
<1> HIDE DEF m, c, s
<1>7. /\ s \in Rects /\ s.x_min = c.x /\ s.x_max = c.x /\ s.y_min = c.y /\ s.y_max = c.y
  BY <1>4, <1>5 DEF Rects, Locations
<1>8. \A n \in 0..Len(m) : Above(m, n) # p
  BY <1>1, WayPrefix
<1>9. 0 \in S
  <2>1. Above(p, 0) = <<>> /\ Above(m, 0) = <<>>
    BY <1>1, <1>2, AboveProperties, EmptySeq
  <2> QED
    BY <1>1, <1>2, <2>1
<1>10. ASSUME NEW n \in 0..Len(m) - 1, n \in S PROVE n + 1 \in S
  <2>1. n <= Len(p) /\ Above(p, n) = Above(m, n) /\ n \in 0..Len(m) /\ n + 1 \in 0..Len(m)
    BY <1>1, <1>10
  <2>2. n # Len(p)
    BY <1>2, <1>8, <2>1, AboveSelf
  <2>3. n \in 0..Len(p) - 1 /\ n + 1 \in 0..Len(p)
    BY <1>2, <2>1, <2>2
  <2> DEFINE o == Above(p, n)
             q == p[n + 1]
             k == Min(Holders(o, r))
  <2>4. q \in Quads /\ o \in Inner /\ Above(p, n + 1) = Child(o, q)
    BY <2>3, StepDown
  <2>5. Holders(o, r) # {} /\ Above(m, n + 1) = Child(o, k)
    BY <1>1, <2>1, OnTheWayTaken
  <2>6. k \in Quads /\ IsContain(Quarter(Box[o], k), r)
    BY <2>5, MinHolder
  <2>7. Box[Above(p, n + 1)] = Quarter(Box[o], q)
    BY <2>4, ChildBox
  <2> HIDE DEF o, q, k
  <2>8. StrictlyIn(Quarter(Box[o], q), c)
    BY <1>3, <2>3, <2>7
  <2>9. IsIntersect(Quarter(Box[o], q), s)
    BY <1>7, <2>8 DEF IsIntersect, StrictlyIn
  <2>10. q = k
    BY <1>6, <1>7, <2>4, <2>6, <2>9, SoleHolder
  <2> QED
    BY <2>1, <2>3, <2>4, <2>5, <2>10
<1> HIDE DEF S
<1>11. Len(m) \in S
  <2>1. 0..Len(m) \subseteq S
    BY <1>1, <1>9, <1>10, UpTo
  <2> QED
    BY <1>1, <2>1
<1>12. Len(m) <= Len(p) /\ Above(p, Len(m)) = m
  BY <1>1, <1>11, AboveSelf DEF S
<1>13. Len(m) # Len(p)
  <2>1. Len(m) \in 0..Len(m)
    BY <1>1
  <2> QED
    BY <1>1, <1>2, <1>8, <1>12, <2>1, AboveSelf
<1> QED
  BY <1>1, <1>2, <1>12, <1>13 DEF m

\* A square that has a strict inner point in a rectangle meets it.
LEMMA MeetsRect ==
    ASSUME NEW b \in Squares, NEW c \in Locations, NEW r \in Rects,
           StrictlyIn(b, c), IsInMBR(c, r)
    PROVE  IsIntersect(b, r)
<1>1. /\ b.x \in Int /\ b.y \in Int /\ b.w \in Int /\ c.x \in Int /\ c.y \in Int
      /\ r.x_min \in Int /\ r.x_max \in Int /\ r.y_min \in Int /\ r.y_max \in Int
  BY DEF Squares, Locations, Rects
<1> QED
  BY <1>1 DEF StrictlyIn, IsInMBR, IsIntersect

\* The child of a visited node on the way to the pixel is made interior, if
\* the ring does not enter it and it is new or provisional.
LEMMA ChildPainted ==
    ASSUME NEW t, Shape(t), NEW ring, IsRing(ring),
           NEW p \in Paths, EvenOdd(Centre(Box[p]), ring),
           NEW n \in 0..Len(p) - 1,
           Above(p, n) \in BoxVisits(WithRim(t, ring), RingNode(ring), MBR(Range(ring))),
           ~SomeSegment(Enters, ring, Box[Above(p, n + 1)]),
           Above(p, n + 1) \in DOMAIN WithRim(t, ring)
               => WithRim(t, ring)[Above(p, n + 1)] = "m"
    PROVE  Above(p, n + 1) \in NewInterior(t, ring)
<1> DEFINE r == MBR(Range(ring))
           c == Centre(Box[p])
           e == Above(p, n + 1)
           d == Centre(Box[e])
<1>1. n + 1 \in 0..Len(p)
  BY PathsAreSequences, LenProperties
<1>2. c \in Locations /\ e \in Paths /\ Box[e] \in Squares /\ StrictlyIn(Box[e], c)
  BY <1>1, CentreStrictlyIn
<1>3. d \in Locations /\ StrictlyIn(Box[e], d)
  <2>1. e \in Seq(Quads) /\ Len(e) \in 0..Len(e)
    BY <1>2, PathsAreSequences, LenProperties
  <2>2. Above(e, Len(e)) = e
    BY <2>1, AboveSelf
  <2> QED
    BY <1>2, <2>1, <2>2, CentreStrictlyIn
<1>4. EvenOdd(d, ring)
  BY <1>2, <1>3, ParityConstant
<1>5. r \in Rects /\ IsInMBR(d, r)
  BY <1>3, <1>4, EvenOddInMBR
<1>6. IsIntersect(Box[e], r)
  BY <1>2, <1>3, <1>5, MeetsRect
<1>7. IsInPolygon(d, ring)
  BY <1>3, <1>4, PolygonTest
<1>8. Above(p, n) \in Inner /\ p[n + 1] \in Quads /\ e = Child(Above(p, n), p[n + 1])
  BY StepDown
<1> HIDE DEF e, d, r
<1>9. e \in {Child(a, q) : a \in BoxVisits(WithRim(t, ring), RingNode(ring), r), q \in Quads}
  BY <1>8 DEF r
<1>10. IF e \in DOMAIN WithRim(t, ring) THEN WithRim(t, ring)[e] = "m" ELSE IsInMBR(d, r)
  BY <1>5 DEF e
<1>11. e \in NewInterior(t, ring)
  BY <1>6, <1>7, <1>9, <1>10 DEF NewInterior, Interior, r, d
<1> QED
  BY <1>11 DEF e

\* What is found in a pixel's own node is drawn; so is what it inherits.
LEMMA KindDrawn ==
    ASSUME NEW t, Shape(t), NEW p \in PixelNodes
    PROVE  /\ p \in Paths /\ p \in Seq(Quads) /\ Len(p) \in Nat /\ Len(p) > 1
           /\ p \in DOMAIN t => NodeIfExistPolygon(t, p) = t[p] /\ t[p] \in {"s", "b"}
           /\ p \notin DOMAIN t =>
                /\ NodeIfExistPolygon(t, p) \in {"b", "n"}
                /\ NodeIfExistPolygon(t, p) = "b" <=>
                     \E n \in 0..Len(p) - 1 : Above(p, n) \in DOMAIN t /\ t[Above(p, n)] = "b"
<1> DEFINE I == \E n \in 0..Len(p) - 1 : Above(p, n) \in DOMAIN t /\ t[Above(p, n)] = "b"
<1>1. p \in Paths /\ p \in Seq(Quads) /\ Len(p) \in Nat /\ Len(p) > 1
  BY PathsAreSequences, LenProperties DEF PixelNodes
<1>2. ASSUME p \in DOMAIN t PROVE NodeIfExistPolygon(t, p) = t[p] /\ t[p] \in {"s", "b"}
  <2>1. NodeIfExistPolygon(t, p) = t[p]
    BY <1>2 DEF NodeIfExistPolygon
  <2>2. t[p] \in Kinds /\ (t[p] = "m" => Len(p) = 1)
    BY <1>2 DEF Shape, IsTree
  <2>3. t[p] # "m"
    <3>1. \A k \in Nat : k > 1 => k # 1
      OBVIOUS
    <3>2. Len(p) # 1
      BY <1>1, <3>1, Zenon
    <3> QED
      BY <2>2, <3>2, Zenon
  <2>4. t[p] \in {"s", "b"}
    BY <2>2, <2>3 DEF Kinds
  <2> QED
    BY <2>1, <2>4, Zenon
<1>3. ASSUME p \notin DOMAIN t
      PROVE  NodeIfExistPolygon(t, p) \in {"b", "n"} /\ (NodeIfExistPolygon(t, p) = "b" <=> I)
  <2>1. NodeIfExistPolygon(t, p) = CASE p \in DOMAIN t -> t[p]
                                     [] p \notin DOMAIN t /\ I -> "b"
                                     [] OTHER -> "n"
    BY DEF NodeIfExistPolygon
  <2> HIDE DEF I
  <2> QED
    BY <1>3, <2>1
<1> QED
  BY <1>1, <1>2, <1>3

\* A node whose centre is inside a ring is drawn once the ring is inserted.
LEMMA InsidePainted ==
    ASSUME NEW t, Shape(t), NEW ring, IsRing(ring), NEW p \in PixelNodes,
           EvenOdd(Centre(Box[p]), ring)
    PROVE  NodeIfExistPolygon(InsertRing(t, ring), p) \in {"s", "b"}
<1> DEFINE r == MBR(Range(ring))
           m == RingNode(ring)
           t2 == WithRim(t, ring)
           t3 == InsertRing(t, ring)
           new == NewInterior(t, ring)
           S == {n \in 0..Len(p) : \A i \in 0..n : Above(p, i) \in DOMAIN t3}
<1>1. /\ Shape(t2) /\ m \in DOMAIN t2 /\ Shape(t3)
  BY RimShape, RingShape
<1>2. p \in Paths /\ p \in Seq(Quads) /\ Len(p) \in Nat /\ Len(p) > 1
  BY <1>1, KindDrawn
<1>3. CASE p \in DOMAIN t3
  BY <1>1, <1>3, KindDrawn
<1>4. CASE p \notin DOMAIN t3
  <2> SUFFICES ASSUME \A n \in 0..Len(p) - 1 : Above(p, n) \in DOMAIN t3 => t3[Above(p, n)] # "b"
               PROVE  FALSE
    BY <1>1, <1>4, KindDrawn
  <2>1. /\ DOMAIN t2 = DOMAIN t \cup LineNodes(ring)
        /\ \A e \in LineNodes(ring) : e \notin OnTheWay(r) => t2[e] # "m"
    BY RimNodes
  <2>2. /\ DOMAIN t3 = DOMAIN t2 \cup new
        /\ \A e \in new : t3[e] = "b"
        /\ \A e \in DOMAIN t2 : e \notin new => t3[e] = t2[e]
    BY RingTree, ZenonT(60)
  <2>3. OnTheWay(r) \subseteq DOMAIN t2
    BY <2>1 DEF LineNodes
  <2>4. r \in Rects /\ IsInMBR(Centre(Box[p]), r)
    <3>1. 0 \in 0..Len(p)
      BY <1>2
    <3>2. Centre(Box[p]) \in Locations
      BY <1>2, <3>1, CentreStrictlyIn
    <3> QED
      BY <3>2, EvenOddInMBR
  <2>5. m \in OnTheWay(r) /\ m \in Seq(Quads) /\ Len(m) \in Nat /\ \A e \in OnTheWay(r) : Len(e) <= Len(m)
    BY RingNodeProperties
  <2>6. Len(m) < Len(p) /\ Above(p, Len(m)) = m
    BY <1>2, <1>4, <2>2, <2>3, <2>4, BelowMBNode DEF RingNode
  <2>7. \A e \in Paths : SomeSegment(Enters, ring, Box[e]) => e \in LineNodes(ring)
    BY RingEntered
  <2>8. \A i \in 0..Len(p) : IsIntersect(Box[Above(p, i)], r)
    BY <1>2, <2>4, CentreStrictlyIn, MeetsRect
  <2>9. t2[<<>>] = "s" /\ <<>> \in DOMAIN t2 /\ \A e \in DOMAIN t2 : t2[e] = "m" => Len(e) = 1
    BY <1>1 DEF Shape, IsTree
  <2>10. \A i \in 0..Len(p) - 1 : Above(p, i) \in DOMAIN t3 =>
            Above(p, i) \notin new /\ Above(p, i) \in DOMAIN t2 /\ t2[Above(p, i)] # "b"
    BY <2>2
  <2> HIDE DEF r, m, t2, t3, new
  <2>11. \A i \in 0..Len(p) : Len(Above(p, i)) = i /\ Above(p, i) \in Paths
    BY <1>2, AboveProperties, CentreStrictlyIn
  \* The lowest node of the tree on the way to p.
  <2>12. PICK n \in 0..Len(p) - 1 : n \in S /\ n + 1 \notin S
    <3> SUFFICES ASSUME \A k \in 0..Len(p) - 1 : k \in S => k + 1 \in S PROVE FALSE
      OBVIOUS
    <3>1. 0 \in S
      <4>1. Above(p, 0) = <<>>
        BY <1>2, AboveProperties, EmptySeq
      <4> QED
        BY <1>2, <2>2, <2>9, <4>1
    <3> HIDE DEF S
    <3>2. Len(p) \in S
      <4>1. 0..Len(p) \subseteq S
        BY <1>2, <3>1, UpTo
      <4> QED
        BY <1>2, <4>1
    <3> QED
      BY <1>2, <1>4, <3>2, AboveSelf DEF S
  <2>13. /\ n + 1 \in 0..Len(p) /\ \A i \in 0..n : Above(p, i) \in DOMAIN t3
         /\ Above(p, n + 1) \notin DOMAIN t3
    <3>1. n + 1 \in 0..Len(p) /\ \A i \in 0..n : Above(p, i) \in DOMAIN t3
      BY <1>2, <2>12
    <3>2. PICK i \in 0..n + 1 : Above(p, i) \notin DOMAIN t3
      BY <2>12, <3>1
    <3>3. i = n + 1
      BY <3>1, <3>2
    <3> QED
      BY <3>1, <3>2, <3>3
  <2> HIDE DEF S
  <2>14. Len(m) <= n
    <3> SUFFICES ASSUME n + 1 <= Len(m) PROVE FALSE
      BY <2>5, <2>12
    <3>1. n + 1 \in 0..Len(m)
      BY <2>5
    <3>2. Len(m) \in 0..Len(p)
      BY <1>2, <2>5, <2>6
    <3>3. Above(p, n + 1) = Above(m, n + 1)
      BY <1>2, <2>6, <3>1, <3>2, AboveAbove
    <3>4. Above(m, n + 1) \in OnTheWay(r)
      BY <2>5, <3>1, WayPrefix
    <3> QED
      BY <2>2, <2>3, <2>13, <3>3, <3>4
  <2>15. \A i \in 0..n : Above(p, i) \notin new /\ Above(p, i) \in DOMAIN t2 /\ t2[Above(p, i)] # "b"
    BY <2>10, <2>12, <2>13
  \* A provisional one would have been painted.
  <2>16. ASSUME NEW i \in Len(m) + 1..n, t2[Above(p, i)] = "m" PROVE FALSE
    <3> DEFINE e == Above(p, i)
    <3>1. i \in 0..n /\ i \in 0..Len(p)
      BY <1>2, <2>5, <2>12
    <3>2. i = 1 /\ Len(m) = 0
      <4>1. e \in DOMAIN t2 /\ t2[e] = "m" /\ Len(e) = i
        BY <2>11, <2>15, <2>16, <3>1
      <4>2. i = 1
        BY <2>9, <4>1
      <4>3. n \in Int
        BY <1>2
      <4> QED
        BY <2>5, <4>2, <4>3
    <3>3. m = <<>>
      BY <2>5, <3>2, EmptySeq
    <3>4. e \in Paths /\ Len(e) = 1 /\ e \notin new
      BY <2>11, <2>15, <3>1, <3>2
    <3>5. ~SomeSegment(Enters, ring, Box[e])
      <4>1. e \notin OnTheWay(r)
        BY <2>5, <3>2, <3>4
      <4> QED
        BY <2>1, <2>7, <2>16, <3>4, <4>1
    <3>6. <<>> \in BoxVisits(t2, m, r)
      <4>1. <<>> \in Inner
        BY RootIsPath, LevelAssumption DEF Inner
      <4>2. IsPrefix(m, <<>>)
        BY <3>3, RootIsPath, ReachedSelf DEF IsPrefix
      <4>3. \A k \in Len(m)..Len(<<>>) : t2[Above(<<>>, k)] # "b"
        <5>1. Above(<<>>, 0) = <<>>
          BY RootIsPath, AboveSelf
        <5> QED
          BY <2>9, <3>2, <5>1, RootIsPath
      <4>4. Len(m) + 1..Len(<<>>) = {}
        BY <3>2, RootIsPath
      <4> QED
        BY <2>9, <4>1, <4>2, <4>3, <4>4 DEF BoxVisits
    <3>7. Above(p, 0) = <<>> /\ 0 \in 0..Len(p) - 1 /\ e = Above(p, 0 + 1)
      BY <1>2, <3>2, AboveProperties, EmptySeq
    <3> HIDE DEF e
    <3>8. e \in new
      BY <1>2, <2>16, <3>5, <3>6, <3>7, ChildPainted DEF e, t2, m, r, new
    <3> QED
      BY <3>4, <3>8
  <2>17. Above(p, n) \in BoxVisits(t2, m, r)
    <3> DEFINE a == Above(p, n)
    <3>1. /\ n \in 0..Len(p) /\ n \in 0..n /\ n < Len(p)
      BY <1>2, <2>12
    <3>2. a \in Inner /\ a \in Seq(Quads) /\ Len(a) = n
      BY <1>2, <2>12, <3>1, StepDown, AboveProperties
    <3>3. \A i \in 0..n : Above(a, i) = Above(p, i)
      BY <1>2, <3>1, AboveAbove
    <3>4. IsPrefix(m, a)
      BY <2>5, <2>6, <2>14, <3>2, <3>3, PrefixOf
    <3>5. a \in DOMAIN t2
      BY <2>15, <3>1
    <3> HIDE DEF a
    <3>6. \A i \in Len(m)..Len(a) : t2[Above(a, i)] # "b"
      <4> SUFFICES ASSUME NEW i \in Len(m)..n PROVE t2[Above(a, i)] # "b"
        BY <3>2
      <4>1. i \in 0..n
        BY <2>5
      <4> QED
        BY <2>15, <3>3, <4>1
    <3>7. \A i \in Len(m) + 1..Len(a) : IsIntersect(Box[Above(a, i)], r) /\ t2[Above(a, i)] # "m"
      <4> SUFFICES ASSUME NEW i \in Len(m) + 1..n
                   PROVE  IsIntersect(Box[Above(a, i)], r) /\ t2[Above(a, i)] # "m"
        BY <3>2
      <4>1. i \in 0..n /\ i \in 0..Len(p)
        BY <1>2, <2>5, <3>1
      <4>2. Above(a, i) = Above(p, i)
        BY <3>3, <4>1
      <4> QED
        BY <2>8, <2>16, <4>1, <4>2
    <3>8. a \in BoxVisits(t2, m, r)
      BY <3>2, <3>4, <3>5, <3>6, <3>7 DEF BoxVisits
    <3> QED
      BY <3>8 DEF a
  <2>18. ~SomeSegment(Enters, ring, Box[Above(p, n + 1)])
    BY <2>1, <2>2, <2>7, <2>11, <2>13
  <2>19. Above(p, n + 1) \in new
    BY <1>2, <2>2, <2>12, <2>13, <2>17, <2>18, ChildPainted DEF t2, m, r, new
  <2> QED
    BY <2>2, <2>13, <2>19
<1> QED
  BY <1>3, <1>4

(***************************************************************************)
(* The invariant: what each kind of node tells of the rings inserted.      *)
(***************************************************************************)
Enter(ring, p) == SomeSegment(Enters, ring, Box[p])
Touch(ring, p) == SomeSegment(Touches, ring, Box[p])
Enclose(ring, p) == EvenOdd(Centre(Box[p]), ring)

RimsInTree(t, R) == \A ring \in R, p \in Paths : Enter(ring, p) => p \in DOMAIN t

RimsTouched(t, R) ==
    \A p \in DOMAIN t : t[p] = "s" /\ Len(p) > 1 => \E ring \in R : Touch(ring, p)

InteriorsEnclosed(t, R) ==
    \A p \in DOMAIN t : t[p] = "b" => \E ring \in R : Enclose(ring, p) /\ ~Enter(ring, p)

InsidesDrawn(t, R) ==
    \A ring \in R, p \in PixelNodes :
        Enclose(ring, p) => NodeIfExistPolygon(t, p) \in {"s", "b"}

RingsOK ==
    /\ TypeOK
    /\ ObjectsOK
    /\ feature_type = "polygon" =>
          /\ RimsInTree(tree, Objects)
          /\ RimsTouched(tree, Objects)
          /\ InteriorsEnclosed(tree, Objects)
          /\ InsidesDrawn(tree, Objects)

\* The invariant of the rings holds at the start.
LEMMA RingsInit == Init => RingsOK
<1> SUFFICES ASSUME Init PROVE RingsOK
  OBVIOUS
<1>1. Objects = {} /\ ObjectsOK /\ TypeOK
  BY ObjectsInit, InitShape
<1>2. DOMAIN tree = {<<>>} /\ tree[<<>>] = "s"
  BY DEF Init
<1>3. Len(<<>>) = 0
  BY EmptySeq
<1> QED
  BY <1>1, <1>2, <1>3 DEF RingsOK, RimsInTree, RimsTouched, InteriorsEnclosed, InsidesDrawn

\* A ring leaves painted what is painted.
LEMMA StaysPainted ==
    ASSUME NEW t, Shape(t), NEW ring
    PROVE  LET u == InsertRing(t, ring)
           IN  /\ Shape(u) /\ DOMAIN t \subseteq DOMAIN u
               /\ \A p \in DOMAIN t : t[p] # "m" => u[p] = t[p]
               /\ \A p \in PixelNodes : NodeIfExistPolygon(t, p) \in {"s", "b"} =>
                                            NodeIfExistPolygon(u, p) \in {"s", "b"}
<1> DEFINE u == InsertRing(t, ring)
           t2 == WithRim(t, ring)
           new == NewInterior(t, ring)
<1>1. /\ DOMAIN t2 = DOMAIN t \cup LineNodes(ring)
      /\ \A p \in DOMAIN t : t[p] # "m" => t2[p] = t[p]
  BY RimNodes
<1>2. /\ DOMAIN u = DOMAIN t2 \cup new
      /\ \A p \in new : u[p] = "b" /\ (p \in DOMAIN t2 => t2[p] = "m")
      /\ \A p \in DOMAIN t2 : p \notin new => u[p] = t2[p]
  BY RingTree
<1>3. Shape(u)
  BY RingShape
<1> HIDE DEF u, t2, new
<1>4. DOMAIN t \subseteq DOMAIN u
  BY <1>1, <1>2
<1>5. \A p \in DOMAIN t : t[p] # "m" => u[p] = t[p]
  BY <1>1, <1>2
<1>6. ASSUME NEW p \in PixelNodes, NodeIfExistPolygon(t, p) \in {"s", "b"}
      PROVE  NodeIfExistPolygon(u, p) \in {"s", "b"}
  <2>1. CASE p \in DOMAIN u
    BY <1>3, <2>1, KindDrawn
  <2>2. CASE p \notin DOMAIN u
    <3>1. p \notin DOMAIN t
      BY <1>4, <2>2
    <3>2. NodeIfExistPolygon(t, p) = "b"
      BY <1>6, <3>1, KindDrawn
    <3>3. PICK n \in 0..Len(p) - 1 : Above(p, n) \in DOMAIN t /\ t[Above(p, n)] = "b"
      BY <3>1, <3>2, KindDrawn
    <3>4. Above(p, n) \in DOMAIN u /\ u[Above(p, n)] = "b"
      BY <1>4, <1>5, <3>3
    <3> QED
      BY <1>3, <2>2, <3>4, KindDrawn
  <2> QED
    BY <2>1, <2>2
<1> QED
  BY <1>3, <1>4, <1>5, <1>6 DEF u

\* Inserting a ring keeps what the tree has of the earlier ones and has it
\* of the new one.
LEMMA RingInserted ==
    ASSUME NEW t, Shape(t), NEW R, NEW ring, IsRing(ring),
           RimsInTree(t, R), RimsTouched(t, R), InteriorsEnclosed(t, R), InsidesDrawn(t, R)
    PROVE  LET u == InsertRing(t, ring)
               S == R \cup {ring}
           IN  RimsInTree(u, S) /\ RimsTouched(u, S) /\ InteriorsEnclosed(u, S) /\ InsidesDrawn(u, S)
<1> DEFINE u == InsertRing(t, ring)
           t2 == WithRim(t, ring)
           new == NewInterior(t, ring)
           S == R \cup {ring}
<1>1. /\ Shape(u) /\ DOMAIN t \subseteq DOMAIN u
      /\ \A p \in DOMAIN t : t[p] # "m" => u[p] = t[p]
      /\ \A p \in PixelNodes : NodeIfExistPolygon(t, p) \in {"s", "b"} =>
                                   NodeIfExistPolygon(u, p) \in {"s", "b"}
  BY StaysPainted
<1>2. /\ DOMAIN t2 = DOMAIN t \cup LineNodes(ring)
      /\ \A p \in DOMAIN t2 : t2[p] = "b" => p \in DOMAIN t /\ t[p] = "b"
  BY RimNodes
<1>3. /\ DOMAIN u = DOMAIN t2 \cup new
      /\ \A p \in new : u[p] = "b"
      /\ \A p \in DOMAIN t2 : p \notin new => u[p] = t2[p]
  BY RingTree
<1>4. \A p \in Paths : Enter(ring, p) => p \in DOMAIN u
  BY RingEntered DEF Enter
<1>5. \A p \in new : Enclose(ring, p) /\ ~Enter(ring, p)
  BY InteriorUntouched DEF Enter, Enclose
<1>6. \A p \in LineNodes(ring) : p # <<>> => Touch(ring, p)
  BY LineNodesTouched DEF Touch, IsRing
<1>7. \A p \in PixelNodes : Enclose(ring, p) => NodeIfExistPolygon(u, p) \in {"s", "b"}
  BY InsidePainted DEF Enclose
<1>8. \A p \in DOMAIN t : t[p] \in Kinds /\ (t[p] = "m" => Len(p) = 1)
  BY DEF Shape, IsTree
<1> HIDE DEF u, t2, new
<1>9. RimsInTree(u, S)
  BY <1>1, <1>4 DEF RimsInTree
<1>10. RimsTouched(u, S)
  <2> SUFFICES ASSUME NEW p \in DOMAIN u, u[p] = "s", Len(p) > 1
               PROVE  \E o \in S : Touch(o, p)
    BY DEF RimsTouched
  <2>1. p \in DOMAIN t2
    BY <1>3
  <2>2. CASE p \in DOMAIN t
    <3>1. t[p] # "m"
      <4>1. Len(p) = 1 => ~(Len(p) > 1)
        OBVIOUS
      <4> QED
        BY <1>8, <2>2, <4>1, Zenon
    <3>2. t[p] = "s"
      BY <1>1, <2>2, <3>1
    <3>3. \E o \in R : Touch(o, p)
      BY <2>2, <3>2 DEF RimsTouched
    <3> QED
      BY <3>3
  <2>3. CASE p \notin DOMAIN t
    <3>1. p \in LineNodes(ring)
      BY <1>2, <2>1, <2>3
    <3>2. p # <<>>
      BY EmptySeq
    <3> QED
      BY <1>6, <3>1, <3>2
  <2> QED
    BY <2>2, <2>3
<1>11. InteriorsEnclosed(u, S)
  <2> SUFFICES ASSUME NEW p \in DOMAIN u, u[p] = "b"
               PROVE  \E o \in S : Enclose(o, p) /\ ~Enter(o, p)
    BY DEF InteriorsEnclosed
  <2>1. CASE p \in new
    BY <1>5, <2>1
  <2>2. CASE p \notin new
    <3>1. p \in DOMAIN t /\ t[p] = "b"
      BY <1>2, <1>3, <2>2
    <3> QED
      BY <3>1 DEF InteriorsEnclosed
  <2> QED
    BY <2>1, <2>2
<1>12. InsidesDrawn(u, S)
  BY <1>1, <1>7 DEF InsidesDrawn
<1> QED
  BY <1>9, <1>10, <1>11, <1>12 DEF u

\* Every step keeps the invariant of the rings.
LEMMA RingsNext == RingsOK /\ [Next]_vars => RingsOK'
<1> SUFFICES ASSUME RingsOK, [Next]_vars PROVE RingsOK'
  OBVIOUS
<1>1. /\ TypeOK' /\ ObjectsOK' /\ feature_type' = feature_type
      /\ \/ UNCHANGED vars /\ Objects' = Objects
         \/ \E pt \in Points : BuildPoint(pt) /\ Objects' = Objects \cup {pt}
         \/ \E pts \in Lines : BuildLine(pts) /\ Objects' = Objects \cup {pts}
         \/ \E ring \in Rings : BuildRing(ring) /\ Objects' = Objects \cup {ring}
  BY NextShape, ObjectsNext DEF RingsOK
<1>2. SUFFICES ASSUME feature_type = "polygon", feature_type' = "polygon"
               PROVE  /\ RimsInTree(tree', Objects') /\ RimsTouched(tree', Objects')
                      /\ InteriorsEnclosed(tree', Objects') /\ InsidesDrawn(tree', Objects')
  BY <1>1 DEF RingsOK, RimsInTree, RimsTouched, InteriorsEnclosed, InsidesDrawn
<1>3. /\ RimsInTree(tree, Objects) /\ RimsTouched(tree, Objects)
      /\ InteriorsEnclosed(tree, Objects) /\ InsidesDrawn(tree, Objects)
  BY <1>2 DEF RingsOK
<1>4. CASE UNCHANGED vars /\ Objects' = Objects
  BY <1>3, <1>4 DEF vars
<1>5. ASSUME NEW ring \in Rings, BuildRing(ring), Objects' = Objects \cup {ring}
      PROVE  /\ RimsInTree(tree', Objects') /\ RimsTouched(tree', Objects')
             /\ InteriorsEnclosed(tree', Objects') /\ InsidesDrawn(tree', Objects')
  <2>1. tree' = InsertRing(tree, ring)
    BY <1>5 DEF BuildRing
  <2>2. IsRing(ring)
    BY RingsAssumption DEF IsRing
  <2>3. Shape(tree)
    BY DEF RingsOK, TypeOK, Shape
  <2> QED
    BY <1>3, <1>5, <2>1, <2>2, <2>3, RingInserted
<1>6. (\E pt \in Points : BuildPoint(pt)) \/ (\E pts \in Lines : BuildLine(pts)) => FALSE
  BY <1>2 DEF BuildPoint, BuildLine
<1> QED
  BY <1>1, <1>4, <1>5, <1>6

\* What a pixel inherits from a node above it holds for its own centre.
LEMMA InteriorAt ==
    ASSUME RingsOK, feature_type = "polygon", NEW p \in PixelNodes,
           NodeIfExistPolygon(tree, p) = "b"
    PROVE  \E ring \in Objects : Enclose(ring, p) /\ (p \in DOMAIN tree => ~Enter(ring, p))
<1>1. Shape(tree) /\ InteriorsEnclosed(tree, Objects)
  BY DEF RingsOK, TypeOK, Shape
<1>2. CASE p \in DOMAIN tree
  <2>1. tree[p] = "b"
    BY <1>1, <1>2, KindDrawn
  <2> QED
    BY <1>1, <1>2, <2>1 DEF InteriorsEnclosed
<1>3. CASE p \notin DOMAIN tree
  <2>1. PICK n \in 0..Len(p) - 1 : Above(p, n) \in DOMAIN tree /\ tree[Above(p, n)] = "b"
    BY <1>1, <1>3, KindDrawn
  <2>2. PICK ring \in Objects : Enclose(ring, Above(p, n)) /\ ~Enter(ring, Above(p, n))
    BY <1>1, <2>1 DEF InteriorsEnclosed
  <2>3. IsRing(ring)
    BY RingsAssumption DEF RingsOK, ObjectsOK, IsRing
  <2> DEFINE a == Above(p, n)
  <2>4. p \in Paths /\ n \in 0..Len(p)
    BY <1>1, <2>1, KindDrawn
  <2>5. /\ Centre(Box[p]) \in Locations /\ a \in Paths /\ Box[a] \in Squares
        /\ StrictlyIn(Box[a], Centre(Box[p]))
    BY <2>4, CentreStrictlyIn
  <2>6. Centre(Box[a]) \in Locations /\ StrictlyIn(Box[a], Centre(Box[a]))
    <3>1. a \in Seq(Quads) /\ Len(a) \in 0..Len(a)
      BY <2>5, PathsAreSequences, LenProperties
    <3>2. Above(a, Len(a)) = a
      BY <3>1, AboveSelf
    <3> QED
      BY <2>5, <3>1, <3>2, CentreStrictlyIn
  <2>7. Enclose(ring, p)
    BY <2>2, <2>3, <2>5, <2>6, ParityConstant DEF Enclose, Enter
  <2> QED
    BY <1>3, <2>7
<1> QED
  BY <1>2, <1>3

\* The three sets a ring was recorded with are what they are defined as.
LEMMA RingSets ==
    ASSUME RingsOK, feature_type = "polygon", NEW ring \in Objects
    PROVE  /\ Entered[ring] = {p \in Paths : Enter(ring, p)}
           /\ Touched[ring] = {p \in Paths : Touch(ring, p)}
           /\ Enclosed[ring] = {p \in Paths : Enclose(ring, p)}
<1>1. ring \in Rings
  BY DEF RingsOK, ObjectsOK
<1> QED
  BY <1>1 DEF Entered, Touched, Enclosed, Enter, Touch, Enclose

\* The invariant gives RingsPainted.
LEMMA RingsPaintedHolds == RingsOK => RingsPainted
<1> SUFFICES ASSUME RingsOK, feature_type = "polygon", NEW ring \in Objects,
                    NEW p \in PixelNodes, p \in Entered[ring] \cup Enclosed[ring]
             PROVE  NodeIfExistPolygon(tree, p) \in {"s", "b"}
  BY DEF RingsPainted
<1>1. Enter(ring, p) \/ Enclose(ring, p)
  BY RingSets
<1>2. Shape(tree) /\ RimsInTree(tree, Objects) /\ InsidesDrawn(tree, Objects)
  BY DEF RingsOK, TypeOK, Shape
<1>3. CASE Enter(ring, p)
  <2>1. p \in DOMAIN tree
    BY <1>2, <1>3 DEF RimsInTree, PixelNodes
  <2> QED
    BY <1>2, <2>1, KindDrawn
<1>4. CASE Enclose(ring, p)
  BY <1>2, <1>4 DEF InsidesDrawn
<1> QED
  BY <1>1, <1>3, <1>4

\* The invariant gives NothingElsePainted.
LEMMA NothingElsePaintedHolds == RingsOK => NothingElsePainted
<1> SUFFICES ASSUME RingsOK, feature_type = "polygon", NEW p \in PixelNodes
             PROVE  /\ NodeIfExistPolygon(tree, p) = "s" => \E ring \in Objects : p \in Touched[ring]
                    /\ NodeIfExistPolygon(tree, p) = "b" => \E ring \in Objects : p \in Enclosed[ring]
  BY DEF NothingElsePainted
<1>1. Shape(tree) /\ RimsTouched(tree, Objects) /\ p \in Paths
  BY DEF RingsOK, TypeOK, Shape, PixelNodes
<1>2. ASSUME NodeIfExistPolygon(tree, p) = "s" PROVE \E ring \in Objects : p \in Touched[ring]
  <2>1. p \in DOMAIN tree /\ tree[p] = "s" /\ Len(p) > 1
    BY <1>1, <1>2, KindDrawn
  <2>2. \E ring \in Objects : Touch(ring, p)
    BY <1>1, <2>1 DEF RimsTouched
  <2> QED
    BY <1>1, <2>2, RingSets
<1>3. ASSUME NodeIfExistPolygon(tree, p) = "b" PROVE \E ring \in Objects : p \in Enclosed[ring]
  BY <1>1, <1>3, InteriorAt, RingSets
<1> QED
  BY <1>2, <1>3

\* The invariant gives RimLostOnlyInside.
LEMMA RimLostOnlyInsideHolds == RingsOK => RimLostOnlyInside
<1> SUFFICES ASSUME RingsOK, feature_type = "polygon", NEW ring \in Objects,
                    NEW p \in PixelNodes, p \in Entered[ring], NodeIfExistPolygon(tree, p) = "b"
             PROVE  \E other \in Objects \ {ring} : p \in Enclosed[other]
  BY DEF RimLostOnlyInside
<1>1. p \in Paths /\ Enter(ring, p)
  BY RingSets DEF PixelNodes
<1>2. p \in DOMAIN tree
  BY <1>1 DEF RingsOK, RimsInTree
<1>3. PICK other \in Objects : Enclose(other, p) /\ ~Enter(other, p)
  BY <1>2, InteriorAt
<1>4. other # ring
  BY <1>1, <1>3
<1>5. p \in Enclosed[other]
  BY <1>1, <1>3, RingSets
<1> QED
  BY <1>4, <1>5

\* In whatever order rings of whatever shape are inserted, and wherever they
\* cross, no pixel on a rim or inside a ring stays blank (the "m" and "b" of
\* VPQTreeNode.cpp:266-504).
THEOREM RingsPaintedCorrect == Spec => []RingsPainted
<1> QED
  BY RingsInit, RingsNext, RingsPaintedHolds, PTL DEF Spec

\* No rim is drawn where no ring passes and no interior outside every ring,
\* a square inherited by all the pixels in it included (plotTile.cpp:90-91).
THEOREM NothingElsePaintedCorrect == Spec => []NothingElsePainted
<1> QED
  BY RingsInit, RingsNext, NothingElsePaintedHolds, PTL DEF Spec

\* A rim gives way to an interior only inside another ring.
THEOREM RimLostOnlyInsideCorrect == Spec => []RimLostOnlyInside
<1> QED
  BY RingsInit, RingsNext, RimLostOnlyInsideHolds, PTL DEF Spec
=============================================================================
