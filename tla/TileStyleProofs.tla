-------------------------- MODULE TileStyleProofs --------------------------
(***************************************************************************)
(* Theorems about TileStyle, for any scale of opacities.                   *)
(***************************************************************************)
EXTENDS TileStyle, TLAPS

\* What truncation keeps: the quotient is within one of the fraction.
LEMMA Truncated ==
    ASSUME NEW n \in Nat
    PROVE  /\ n \div Scale \in Nat
           /\ Scale * (n \div Scale) <= n
           /\ n < Scale * ((n \div Scale) + 1)
BY ScaleAssumption

\* Integers ordered after multiplication by Scale are ordered before.
LEMMA Cancel ==
    ASSUME NEW p \in Int, NEW q \in Int, Scale * p < Scale * q
    PROVE  p < q
<1> SUFFICES ASSUME q <= p
             PROVE  Scale * q <= Scale * p
  BY ScaleAssumption
<1>1. p - q \in Nat /\ Scale \in Nat
  BY ScaleAssumption
<1>2. Scale * (p - q) \in Nat
  BY <1>1
<1>3. Scale * p = Scale * q + Scale * (p - q)
  BY <1>1
<1> QED
  BY <1>1, <1>2, <1>3

\* Truncation keeps the order.
LEMMA TruncatedOrder ==
    ASSUME NEW n \in Nat, NEW m \in Nat, n <= m
    PROVE  n \div Scale <= m \div Scale
<1> DEFINE p == n \div Scale
           q == m \div Scale
<1>1. /\ p \in Nat /\ Scale * p <= n
      /\ q \in Nat /\ m < Scale * (q + 1)
  BY Truncated
<1> HIDE DEF p, q
<1>2. Scale * p < Scale * (q + 1)
  <2>1. Scale * p \in Int /\ Scale * (q + 1) \in Int
    BY <1>1, ScaleAssumption
  <2> QED
    BY <1>1, <2>1
<1>3. p < q + 1
  BY <1>1, <1>2, Cancel
<1> QED
  BY <1>1, <1>3 DEF p, q

\* The factors of an opacity.  What is subtracted inside polygons stays below
\* AH from the opacity 321/576 on.
LEMMA Factors ==
    ASSUME NEW a \in Opacities
    PROVE  /\ A(a) \in 0..64 /\ AH(a) \in 0..256 /\ Ax(a) \in 0..64
           /\ 4 * A(a) <= AH(a)
           /\ 64 * a >= Scale => A(a) >= 1
           /\ 576 * a >= 321 * Scale => AH(a) - 5 * Ax(a) - 1 >= 0
<1> DEFINE p == A(a)
           q == AH(a)
           r == Ax(a)
<1>1. /\ a \in Nat /\ Scale \in Nat /\ Scale > 0 /\ a <= Scale
      /\ 64 * a \in Nat /\ 256 * a \in Nat /\ 64 * (Scale - a) \in Nat
  BY ScaleAssumption DEF Opacities
<1>2. /\ p \in Nat /\ Scale * p <= 64 * a /\ 64 * a < Scale * (p + 1)
      /\ q \in Nat /\ Scale * q <= 256 * a /\ 256 * a < Scale * (q + 1)
      /\ r \in Nat /\ Scale * r <= 64 * (Scale - a) /\ 64 * (Scale - a) < Scale * (r + 1)
  BY <1>1, Truncated DEF A, AH, Ax
<1> HIDE DEF p, q, r
<1>3. p < 65 /\ q < 257 /\ r < 65
  <2>1. Scale * p < Scale * 65 /\ Scale * q < Scale * 257 /\ Scale * r < Scale * 65
    BY <1>1, <1>2
  <2> QED
    BY <1>2, <2>1, Cancel
<1>4. 4 * p < q + 1
  <2>1. Scale * (4 * p) = 4 * (Scale * p)
    BY <1>1, <1>2
  <2>2. Scale * (4 * p) < Scale * (q + 1)
    BY <1>1, <1>2, <2>1
  <2> QED
    BY <1>2, <2>2, Cancel
<1>5. 64 * a >= Scale => 0 < p
  <2>1. ASSUME 64 * a >= Scale
        PROVE  Scale * 1 < Scale * (p + 1)
    BY <1>1, <1>2, <2>1
  <2> QED
    BY <1>2, <2>1, Cancel
<1>6. 576 * a >= 321 * Scale => 5 * r < q
  <2>1. ASSUME 576 * a >= 321 * Scale
        PROVE  Scale * (5 * r) < Scale * q
    <3>1. Scale * (5 * r) = 5 * (Scale * r) /\ Scale * (q + 1) = Scale * q + Scale
      BY <1>1, <1>2
    <3>2. Scale * r \in Int /\ Scale * q \in Int
      BY <1>1, <1>2
    <3>3. 5 * (Scale * r) <= 320 * Scale - 320 * a
      BY <1>1, <1>2, <3>2
    <3>4. 256 * a < Scale * q + Scale
      BY <1>2, <3>1
    <3>5. 320 * Scale - 320 * a <= 256 * a - Scale
      BY <1>1, <2>1
    <3> QED
      BY <1>1, <3>1, <3>2, <3>3, <3>4, <3>5
  <2> QED
    BY <1>2, <2>1, Cancel
<1> QED
  BY <1>2, <1>3, <1>4, <1>5, <1>6 DEF p, q, r

\* Less opacity, smaller factors, and a larger one to subtract.
LEMMA FactorsOrder ==
    ASSUME NEW a \in Opacities, NEW b \in Opacities, b <= a
    PROVE  A(b) <= A(a) /\ AH(b) <= AH(a) /\ Ax(a) <= Ax(b)
<1>1. /\ 64 * b \in Nat /\ 64 * a \in Nat /\ 64 * b <= 64 * a
      /\ 256 * b \in Nat /\ 256 * a \in Nat /\ 256 * b <= 256 * a
      /\ 64 * (Scale - a) \in Nat /\ 64 * (Scale - b) \in Nat
      /\ 64 * (Scale - a) <= 64 * (Scale - b)
  BY ScaleAssumption DEF Opacities
<1> QED
  BY <1>1, TruncatedOrder DEF A, AH, Ax

\* More opacity stays in range, and so does any value outside polygons.
LEMMA InRangeUp ==
    ASSUME NEW a \in Opacities, NEW b \in Opacities, b <= a, NEW v, InRange(v, b)
    PROVE  InRange(v, a)
<1>1. 64 * b <= 64 * a /\ 576 * b <= 576 * a
  BY ScaleAssumption DEF Opacities
<1>2. 64 * b >= Scale => 64 * a >= Scale
  BY <1>1, ScaleAssumption DEF Opacities
<1>3. 576 * b >= 321 * Scale => 576 * a >= 321 * Scale
  BY <1>1, ScaleAssumption DEF Opacities
<1> QED
  BY <1>2, <1>3, ZenonT(60) DEF InRange

\* An opacity in range of one value is in range of every value but -1.
LEMMA InRangeAlso ==
    ASSUME NEW a \in Opacities, NEW v, InRange(v, a), NEW w, w # -1
    PROVE  InRange(w, a)
BY Zenon DEF InRange

\* The alpha of each value.
LEMMA Levels ==
    ASSUME NEW layer \in Layers, NEW v \in Values(layer), NEW a \in Opacities
    PROVE  /\ v = -1 => Level(layer, v, a) = AH(a) - 5 * Ax(a) - 1
           /\ v = 0 => Level(layer, v, a) = 0
           /\ v \in 1..3 => Level(layer, v, a) = v * A(a) - 1
           /\ v = 4 => Level(layer, v, a) = AH(a) - 1
           /\ v \in -1..4 /\ Level(layer, v, a) \in Int
<1>1. /\ A(a) \in Int /\ AH(a) \in Int /\ Ax(a) \in Int
      /\ v \in -1..4 /\ (v = -1 => layer = "polygon")
  BY Factors DEF Values
<1>2. CASE v = 4
  BY <1>1, <1>2 DEF Level
<1>3. CASE v \in 1..3
  BY <1>1, <1>3 DEF Level
<1>4. CASE v = -1
  BY <1>1, <1>4 DEF Level
<1>5. CASE v = 0
  BY <1>1, <1>5 DEF Level
<1> QED
  BY <1>1, <1>2, <1>3, <1>4, <1>5

\* In range, nothing wraps.
LEMMA NothingWraps ==
    ASSUME NEW layer \in Layers, NEW v \in Values(layer), NEW a \in Opacities, InRange(v, a)
    PROVE  Colour(layer, v, a).alpha = Level(layer, v, a)
<1>1. /\ A(a) \in 1..64 /\ AH(a) \in 0..256 /\ Ax(a) \in 0..64 /\ 4 * A(a) <= AH(a)
      /\ v = -1 => AH(a) - 5 * Ax(a) - 1 >= 0
  BY Factors DEF InRange
<1>2. Level(layer, v, a) \in 0..255
  BY <1>1, Levels, SMTT(30)
<1> QED
  BY <1>2 DEF Colour, Byte

(***************************************************************************)
(* What is shown is always the colour of the value in the style.           *)
(***************************************************************************)
StyleInv ==
    /\ shpType \in Layers /\ AD \in Opacities /\ value \in Values(shpType)
    /\ shown = Colour(shpType, value, AD)

\* The invariant of the colouring holds at the start.
LEMMA StyleInit == Init => StyleInv
BY DEF Init, StyleInv

\* Every step keeps the invariant of the colouring.
LEMMA StyleNext == StyleInv /\ [Next]_styleVars => StyleInv'
<1> SUFFICES ASSUME StyleInv, [Next]_styleVars
             PROVE  StyleInv'
  OBVIOUS
<1>1. ASSUME NEW a \in Opacities, Restyle(a)
      PROVE  StyleInv'
  BY <1>1 DEF Restyle, StyleInv
<1>2. ASSUME NEW v \in Values(shpType), NextPixel(v)
      PROVE  StyleInv'
  BY <1>2 DEF NextPixel, StyleInv
<1>3. ASSUME NEW layer \in Layers, SelectLayer(layer)
      PROVE  StyleInv'
  BY <1>3 DEF SelectLayer, StyleInv
<1>4. CASE UNCHANGED styleVars
  BY <1>4 DEF styleVars, StyleInv
<1> QED
  BY <1>1, <1>2, <1>3, <1>4 DEF Next

\* A product with an opacity that is less than Scale truncates to nothing.
LEMMA TruncatedToNothing ==
    ASSUME NEW n \in Nat, n < Scale
    PROVE  n \div Scale = 0
<1>1. n \div Scale \in Nat /\ Scale * (n \div Scale) <= n
  BY Truncated
<1>2. Scale * (n \div Scale) < Scale * 1
  BY <1>1, ScaleAssumption
<1>3. n \div Scale < 1
  BY <1>1, <1>2, Cancel
<1> QED
  BY <1>1, <1>3

\* What the conversion to a byte leaves of a number.
LEMMA ByteOf ==
    ASSUME NEW n \in Int
    PROVE  Byte(n) \in 0..255 /\ \E q \in Int : n = 256 * q + Byte(n)
<1>1. n = 256 * (n \div 256) + (n % 256) /\ n % 256 \in 0..255
  OBVIOUS
<1>2. n \div 256 \in Int
  OBVIOUS
<1> QED
  BY <1>1, <1>2 DEF Byte

\* The byte that -1 becomes.
LEMMA MinusOne == Byte(-1) = 255
<1>1. -1 \in Int
  OBVIOUS
<1>2. PICK q \in Int : -1 = 256 * q + Byte(-1)
  BY <1>1, ByteOf, Zenon
<1>3. Byte(-1) \in 0..255
  BY <1>1, ByteOf, Zenon
<1> QED
  BY <1>2, <1>3

\* The invariant gives the alphas in range and below it.
LEMMA Alphas == StyleInv => OpaqueBelowRange
<1> SUFFICES ASSUME StyleInv PROVE OpaqueBelowRange
  OBVIOUS
<1>1. /\ shpType \in Layers /\ value \in Values(shpType) /\ AD \in Opacities
      /\ shown.alpha = Byte(Level(shpType, value, AD))
  BY DEF StyleInv, Colour
<1>2. InRange(value, AD) => shown.alpha = Level(shpType, value, AD)
  BY <1>1, NothingWraps DEF Colour
<1>3. ASSUME value \in 1..3, 64 * AD < Scale
      PROVE  shown.alpha = 255
  <2>1. A(AD) = 0
    BY <1>1, <1>3, TruncatedToNothing DEF A, Opacities
  <2>2. Level(shpType, value, AD) = -1
    BY <1>1, <1>3, <2>1, Levels
  <2> QED
    BY <1>1, <2>2, MinusOne
<1>4. ASSUME value = 4, 256 * AD < Scale
      PROVE  shown.alpha = 255
  <2>1. AH(AD) = 0
    BY <1>1, <1>4, TruncatedToNothing DEF AH, Opacities
  <2>2. Level(shpType, value, AD) = -1
    BY <1>1, <1>4, <2>1, Levels
  <2> QED
    BY <1>1, <2>2, MinusOne
<1> QED
  BY <1>2, <1>3, <1>4 DEF OpaqueBelowRange

\* For any scale of opacities, an alpha in range is the one that was computed,
\* and below the range it is that of a fully opaque pixel.
THEOREM OpaqueBelowRangeCorrect == Spec => []OpaqueBelowRange
<1> QED
  BY StyleInit, StyleNext, Alphas, PTL DEF Spec

\* Between two states of the invariant a lower opacity never darkens.
LEMMA LessIsLessStep == StyleInv /\ StyleInv' => LessIsLess
<1> SUFFICES ASSUME StyleInv, StyleInv', shpType' = shpType, value' = value,
                    AD' <= AD, InRange(value, AD')
             PROVE  shown'.alpha <= shown.alpha
  BY DEF LessIsLess
<1>1. /\ shpType \in Layers /\ value \in Values(shpType)
      /\ AD \in Opacities /\ AD' \in Opacities
  BY DEF StyleInv
<1>2. InRange(value, AD)
  BY <1>1, InRangeUp
<1>3. /\ shown.alpha = Level(shpType, value, AD)
      /\ shown'.alpha = Level(shpType, value, AD')
  BY <1>1, <1>2, NothingWraps DEF StyleInv
<1>4. A(AD') <= A(AD) /\ AH(AD') <= AH(AD) /\ Ax(AD) <= Ax(AD')
  BY <1>1, FactorsOrder
<1>5. /\ A(AD) \in Nat /\ AH(AD) \in Nat /\ Ax(AD) \in Nat
      /\ A(AD') \in Nat /\ AH(AD') \in Nat /\ Ax(AD') \in Nat
  BY <1>1, Factors
<1>6. Level(shpType, value, AD') <= Level(shpType, value, AD)
  <2> DEFINE p == A(AD)  q == AH(AD)  r == Ax(AD)
             pp == A(AD')  qq == AH(AD')  rr == Ax(AD')
             v == value
  <2>1. pp <= p => 1 * pp <= 1 * p /\ 2 * pp <= 2 * p /\ 3 * pp <= 3 * p
    BY <1>5
  <2>2. CASE value \in 1..3
    BY <1>1, <1>4, <1>5, <2>1, <2>2, Levels
  <2>3. CASE value \in {-1, 0, 4}
    BY <1>1, <1>4, <1>5, <2>3, Levels
  <2>4. value \in -1..4
    BY <1>1, Levels
  <2> QED
    BY <2>2, <2>3, <2>4
<1> QED
  BY <1>3, <1>6

\* The button with less opacity: no pixel of the layer comes back more opaque,
\* unless its alpha leaves the range of a byte.
THEOREM FadesInRangeCorrect == Spec => FadesInRange
<1>1. StyleInv /\ [Next]_styleVars => [LessIsLess]_styleVars
  BY StyleNext, LessIsLessStep
<1> QED
  BY <1>1, StyleInit, StyleNext, PTL DEF Spec, FadesInRange

\* Between two states of the invariant more coverage is never paler.
LEMMA MoreIsMoreStep == StyleInv /\ StyleInv' => MoreIsMore
<1> SUFFICES ASSUME StyleInv, StyleInv', shpType' = shpType, AD' = AD,
                    InRange(value, AD), value' > value, value # 0
             PROVE  IF value = -1 THEN value' = 4 => shown.alpha <= shown'.alpha
                                  ELSE shown.alpha < shown'.alpha
  BY DEF MoreIsMore
<1>1. /\ shpType \in Layers /\ AD \in Opacities
      /\ value \in Values(shpType) /\ value' \in Values(shpType)
  BY DEF StyleInv
<1>2. value \in -1..4 /\ value' \in -1..4
  BY <1>1, Levels
<1>3. InRange(value', AD)
  BY <1>1, <1>2, InRangeAlso
<1>4. /\ shown.alpha = Level(shpType, value, AD)
      /\ shown'.alpha = Level(shpType, value', AD)
  BY <1>1, <1>2, <1>3, NothingWraps DEF StyleInv
<1>5. A(AD) \in 1..64 /\ AH(AD) \in 0..256 /\ Ax(AD) \in 0..64 /\ 4 * A(AD) <= AH(AD)
  BY <1>1, Factors DEF InRange
<1>6. CASE value = -1
  <2>1. shown.alpha = AH(AD) - 5 * Ax(AD) - 1
    BY <1>1, <1>4, <1>6, Levels
  <2>2. ASSUME value' = 4
        PROVE  shown'.alpha = AH(AD) - 1
    BY <1>1, <1>4, <2>2, Levels
  <2>3. AH(AD) - 5 * Ax(AD) - 1 <= AH(AD) - 1
    BY <1>5, SMTT(30)
  <2> QED
    BY <1>6, <2>1, <2>2, <2>3
<1>7. CASE value \in 1..3 /\ value' \in 1..3
  <2>1. value * A(AD) < value' * A(AD)
    BY <1>5, <1>7
  <2> QED
    BY <1>1, <1>4, <1>5, <1>7, <2>1, Levels
<1>8. CASE value \in 1..3 /\ value' = 4
  BY <1>1, <1>4, <1>5, <1>8, Levels, SMTT(30)
<1>9. value = -1 \/ (value \in 1..3 /\ value' \in 1..3) \/ (value \in 1..3 /\ value' = 4)
  BY <1>2
<1> QED
  BY <1>6, <1>7, <1>8, <1>9, Zenon

\* Within one style the opacity of a pixel follows how much of it is covered.
THEOREM CoverageShowsCorrect == Spec => CoverageShows
<1>1. StyleInv /\ [Next]_styleVars => [MoreIsMore]_styleVars
  BY StyleNext, MoreIsMoreStep
<1> QED
  BY <1>1, StyleInit, StyleNext, PTL DEF Spec, CoverageShows
=============================================================================
