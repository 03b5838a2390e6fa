--------------------------- MODULE TilePlotProofs ---------------------------
(***************************************************************************)
(* Theorems about TilePlot: its types, what the sampling loop leaves in a  *)
(* pixel, where the lookups of a pixel end, and what a pixel shows of the  *)
(* objects.  The first two use nothing of where the descents end, so they  *)
(* hold of the code whatever rounding does to its coordinates.             *)
(***************************************************************************)
EXTENDS TilePlot, RingProofs

(***************************************************************************)
(* The kernel.                                                             *)
(***************************************************************************)
\* There are eight neighbours, at distance one in one direction at least.
LEMMA NeighbourOffsets ==
    /\ Len(Neighbours) = 8 /\ DOMAIN Neighbours = 1..8
    /\ \A k \in 1..8 :
          /\ Neighbours[k][1] \in -1..1 /\ Neighbours[k][2] \in -1..1
          /\ Neighbours[k][1] # 0 \/ Neighbours[k][2] # 0
          /\ Neighbours[k] = <<Neighbours[k][1], Neighbours[k][2]>>
BY DEF Neighbours

\* A position out of reach gives no mark.
LEMMA FarMarks ==
    ASSUME NEW o, Square(o) \in Int, Square(o) > 29
    PROVE  Marks(o) = {NoMark}
BY DEF Marks

\* A position gives at least one mark, and marks are -1 to 4.
LEMMA MarksBounds ==
    ASSUME NEW a \in Int, NEW b \in Int
    PROVE  /\ Marks(<<a, b>>) # {}
           /\ Marks(<<a, b>>) \subseteq -1..4
<1> DEFINE o == <<a, b>>
<1>1. Square(o) \in Int
  BY DEF Square
<1>2. CASE Square(o) <= 6
  BY <1>1, <1>2 DEF Marks
<1>3. CASE Square(o) > 29
  BY <1>1, <1>3, FarMarks DEF NoMark
<1>4. CASE Square(o) \in 7..29
  <2>1. /\ Adds(<<1, 1>>, o) \in {{0}, {1}, {0, 1}}
        /\ Adds(<<-1, -1>>, o) \in {{0}, {1}, {0, 1}}
        /\ Adds(<<1, -1>>, o) \in {{0}, {1}, {0, 1}}
        /\ Adds(<<-1, 1>>, o) \in {{0}, {1}, {0, 1}}
    BY Zenon DEF Adds
  <2>2. Marks(o) = {i + j + k + l : i \in Adds(<<1, 1>>, o), j \in Adds(<<-1, -1>>, o),
                                    k \in Adds(<<1, -1>>, o), l \in Adds(<<-1, 1>>, o)}
    BY <1>1, <1>4 DEF Marks
  <2> QED
    BY <2>1, <2>2, SMTT(30)
<1> QED
  BY <1>1, <1>2, <1>3, <1>4

\* The marks of a child's centre go by its distance alone.
LEMMA ChildMarksTable ==
    ASSUME NEW k \in 1..8, NEW q \in Quads,
           NEW o, o = ChildCentre(Neighbours[k], q)
    PROVE  \/ Square(o) = 10 /\ Marks(o) = {2, 3}
           \/ Square(o) = 18 /\ Marks(o) = {1}
           \/ Square(o) = 26 /\ Marks(o) = {0, 1}
           \/ Square(o) \in {34, 50} /\ Marks(o) = {NoMark}
<1>1. PICK a, b : /\ a \in {-5, -3, -1, 1, 3, 5} /\ b \in {-5, -3, -1, 1, 3, 5}
                  /\ a \notin {-1, 1} \/ b \notin {-1, 1}
                  /\ o = <<a, b>>
  BY NeighbourOffsets DEF ChildCentre, Quads
<1>2. Square(o) = a * a + b * b
  BY <1>1 DEF Square
<1>3. /\ Apart(<<1, 1>>, o) = (1 - a) * (1 - a) + (1 - b) * (1 - b)
      /\ Apart(<<-1, -1>>, o) = (-1 - a) * (-1 - a) + (-1 - b) * (-1 - b)
      /\ Apart(<<1, -1>>, o) = (1 - a) * (1 - a) + (-1 - b) * (-1 - b)
      /\ Apart(<<-1, 1>>, o) = (-1 - a) * (-1 - a) + (1 - b) * (1 - b)
  BY <1>1 DEF Apart, Square
<1>4. Square(o) \in {10, 18, 26, 34, 50}
  BY <1>1, <1>2
<1> DEFINE i1 == Adds(<<1, 1>>, o)   j1 == Adds(<<-1, -1>>, o)
           k1 == Adds(<<1, -1>>, o)  l1 == Adds(<<-1, 1>>, o)
<1>5. Square(o) \in 7..29 => Marks(o) = {i + j + kk + l : i \in i1, j \in j1, kk \in k1, l \in l1}
  BY <1>4 DEF Marks
<1>6. CASE Square(o) = 10
  <2>1. \/ i1 = {1} /\ j1 = {0} /\ k1 = {1} /\ l1 = {0, 1}
        \/ i1 = {1} /\ j1 = {0} /\ k1 = {0, 1} /\ l1 = {1}
        \/ i1 = {1} /\ j1 = {0, 1} /\ k1 = {0} /\ l1 = {1}
        \/ i1 = {1} /\ j1 = {0, 1} /\ k1 = {1} /\ l1 = {0}
        \/ i1 = {0} /\ j1 = {1} /\ k1 = {1} /\ l1 = {0, 1}
        \/ i1 = {0} /\ j1 = {1} /\ k1 = {0, 1} /\ l1 = {1}
        \/ i1 = {0, 1} /\ j1 = {1} /\ k1 = {0} /\ l1 = {1}
        \/ i1 = {0, 1} /\ j1 = {1} /\ k1 = {1} /\ l1 = {0}
    BY <1>1, <1>2, <1>3, <1>6 DEF Adds
  <2>2. Marks(o) = {2, 3}
    BY <1>5, <1>6, <2>1
  <2> QED
    BY <1>6, <2>2
<1>7. CASE Square(o) = 18
  <2>1. \/ i1 = {1} /\ j1 = {0} /\ k1 = {0} /\ l1 = {0}
        \/ i1 = {0} /\ j1 = {1} /\ k1 = {0} /\ l1 = {0}
        \/ i1 = {0} /\ j1 = {0} /\ k1 = {1} /\ l1 = {0}
        \/ i1 = {0} /\ j1 = {0} /\ k1 = {0} /\ l1 = {1}
    BY <1>1, <1>2, <1>3, <1>7 DEF Adds
  <2>2. Marks(o) = {1}
    BY <1>5, <1>7, <2>1
  <2> QED
    BY <1>7, <2>2
<1>8. CASE Square(o) = 26
  <2>1. \/ i1 = {0, 1} /\ j1 = {0} /\ k1 = {0} /\ l1 = {0}
        \/ i1 = {0} /\ j1 = {0, 1} /\ k1 = {0} /\ l1 = {0}
        \/ i1 = {0} /\ j1 = {0} /\ k1 = {0, 1} /\ l1 = {0}
        \/ i1 = {0} /\ j1 = {0} /\ k1 = {0} /\ l1 = {0, 1}
    BY <1>1, <1>2, <1>3, <1>8 DEF Adds
  <2>2. Marks(o) = {i + j + kk + l : i \in i1, j \in j1, kk \in k1, l \in l1}
    BY <1>5, <1>8
  <2> HIDE DEF i1, j1, k1, l1
  <2>3. Marks(o) = {0, 1}
    BY <2>1, <2>2
  <2> QED
    BY <1>8, <2>3
<1>9. CASE Square(o) \in {34, 50}
  BY <1>9, FarMarks
<1> QED
  BY <1>4, <1>6, <1>7, <1>8, <1>9

\* Among some children one is the first of the nearest.
LEMMA NearestIsOne ==
    ASSUME NEW k \in 1..8, NEW qs \in SUBSET Quads, qs # {}
    PROVE  /\ Nearest(Neighbours[k], qs) \in qs
           /\ \A r \in qs : Square(ChildCentre(Neighbours[k], Nearest(Neighbours[k], qs)))
                               <= Square(ChildCentre(Neighbours[k], r))
<1> DEFINE f(q) == Square(ChildCentre(Neighbours[k], q))
<1>1. ASSUME NEW q \in Quads
      PROVE  f(q) \in Int
  <2> DEFINE o == ChildCentre(Neighbours[k], q)
  <2>1. Square(o) = 10 \/ Square(o) = 18 \/ Square(o) = 26 \/ Square(o) \in {34, 50}
    BY ChildMarksTable, Zenon
  <2> HIDE DEF o
  <2>2. Square(o) \in Int
    BY <2>1
  <2> QED
    BY <2>2 DEF o
<1>2. \E q \in qs : \A r \in qs : f(q) < f(r) \/ (f(q) = f(r) /\ q <= r)
  <2> HIDE DEF f
  <2>1. /\ f(1) \in Int /\ f(2) \in Int /\ f(3) \in Int /\ f(4) \in Int
        /\ \A q \in qs : q \in {1, 2, 3, 4}
    BY <1>1 DEF Quads
  <2> QED
    BY <2>1
<1> DEFINE near == Nearest(Neighbours[k], qs)
<1>3. near \in qs /\ \A r \in qs : f(near) < f(r) \/ (f(near) = f(r) /\ near <= r)
  BY <1>2, Zenon DEF Nearest
<1> QED
  BY <1>1, <1>3

\* The nearest child gives at least as much as any other.
LEMMA NearestIsEnough ==
    ASSUME NEW k \in 1..8, NEW qs \in SUBSET Quads, NEW q \in qs,
           NEW mark \in ChildMarks(Neighbours[k], qs)
    PROVE  \E other \in Marks(ChildCentre(Neighbours[k], q)) : other <= mark
<1> DEFINE near == Nearest(Neighbours[k], qs)
           o == ChildCentre(Neighbours[k], near)
           p == ChildCentre(Neighbours[k], q)
<1>1. near \in Quads /\ q \in Quads /\ Square(o) <= Square(p)
  BY NearestIsOne
<1>2. mark \in Marks(o)
  BY DEF ChildMarks
<1>3. \/ Square(o) = 10 /\ Marks(o) = {2, 3}
      \/ Square(o) = 18 /\ Marks(o) = {1}
      \/ Square(o) = 26 /\ Marks(o) = {0, 1}
      \/ Square(o) \in {34, 50} /\ Marks(o) = {NoMark}
  BY <1>1, ChildMarksTable
<1>4. \/ Square(p) = 10 /\ Marks(p) = {2, 3}
      \/ Square(p) = 18 /\ Marks(p) = {1}
      \/ Square(p) = 26 /\ Marks(p) = {0, 1}
      \/ Square(p) \in {34, 50} /\ Marks(p) = {NoMark}
  BY <1>1, ChildMarksTable
<1> HIDE DEF o, p
<1>5. \E other \in Marks(p) : other <= mark
  BY <1>1, <1>2, <1>3, <1>4 DEF NoMark
<1> QED
  BY <1>5 DEF p

\* What a neighbour gives is a set of marks that is not empty.
LEMMA ChildMarksBounds ==
    ASSUME NEW k \in 1..8, NEW qs \in SUBSET Quads
    PROVE  /\ ChildMarks(Neighbours[k], qs) # {}
           /\ ChildMarks(Neighbours[k], qs) \subseteq -1..4
<1>1. CASE qs = {}
  BY <1>1 DEF ChildMarks
<1>2. CASE qs # {}
  <2> DEFINE q == Nearest(Neighbours[k], qs)
  <2>1. q \in Quads
    BY <1>2, NearestIsOne
  <2>2. PICK a \in Int, b \in Int : ChildCentre(Neighbours[k], q) = <<a, b>>
    BY NeighbourOffsets DEF ChildCentre
  <2>3. ChildMarks(Neighbours[k], qs) = Marks(<<a, b>>)
    BY <1>2, <2>2 DEF ChildMarks
  <2> QED
    BY <2>3, MarksBounds
<1> QED
  BY <1>1, <1>2

\* The values a neighbour may leave.
LEMMA NeighbourMarksBounds ==
    ASSUME NEW px, NEW k \in 1..8, feature_type \in {"point", "line", "polygon"}
    PROVE  /\ NeighbourMarks(px, Neighbours[k]) # {}
           /\ NeighbourMarks(px, Neighbours[k]) \subseteq -1..4
<1> DEFINE d == Neighbours[k]
           p == NodeFloor(px, d)
           qs == Children(p)
<1>1. qs \in SUBSET Quads
  BY DEF Children
<1>2. ChildMarks(d, qs) # {} /\ ChildMarks(d, qs) \subseteq -1..4
  BY <1>1, ChildMarksBounds
<1>3. Marks(NodeCentre(d)) # {} /\ Marks(NodeCentre(d)) \subseteq -1..4
  <2>1. 4 * d[1] \in Int /\ 4 * d[2] \in Int
    BY NeighbourOffsets
  <2> QED
    BY <2>1, MarksBounds DEF NodeCentre
<1>4. {NoMark} # {} /\ {NoMark} \subseteq -1..4
  BY DEF NoMark
<1>5. NeighbourMarks(px, d) \in {{NoMark}, Marks(NodeCentre(d)), ChildMarks(d, qs)}
  <2> HIDE DEF d
  <2> QED
    BY DEF NeighbourMarks
<1> QED
  BY <1>2, <1>3, <1>4, <1>5

\* The values the pixel's own node may leave.
LEMMA OwnValueBounds ==
    ASSUME NEW px
    PROVE  /\ OwnValue(px) \in {-1, 0, 4}
           /\ OwnValue(px) = -1 => feature_type = "polygon"
BY DEF OwnValue

\* None of it changes while the tree does not.
LEMMA Unchanged ==
    ASSUME UNCHANGED vars
    PROVE  /\ OwnValue(pixel)' = OwnValue(pixel')
           /\ Blank(pixel)' = Blank(pixel')
           /\ \A k \in 1..8 : NeighbourMarks(pixel, Neighbours[k])'
                               = NeighbourMarks(pixel', Neighbours[k])
BY DEF vars, OwnValue, Blank, Seek, SeekBox, NeighbourMarks, NodeFloor, Children

(***************************************************************************)
(* Type correctness, the tree's included.                                  *)
(***************************************************************************)
TypesOK == TypeOK /\ PlotTypeOK

\* NoPixel is not a pixel.
LEMMA PixelsAreNot == \A px \in Pixels : px # NoPixel
<1> SUFFICES ASSUME NEW px \in Pixels
             PROVE  px # NoPixel
  OBVIOUS
<1>1. PICK z \in Zooms : px \in [z : {z}, x : 0..Pow2[z] - 1, y : 0..Pow2[z] - 1,
                                 i : 0..Size - 1, j : 0..Size - 1]
  BY DEF Pixels
<1>2. "z" \in DOMAIN px
  BY <1>1
<1>3. DOMAIN NoPixel = {}
  BY DEF NoPixel
<1> QED
  BY <1>2, <1>3

\* The types hold at the start.
LEMMA PlotTypesInit == PlotInit => TypesOK
BY InitShape, NeighbourOffsets DEF PlotInit, TypesOK, PlotTypeOK

\* Every step keeps the types.
LEMMA PlotTypesNext == TypesOK /\ [PlotNext]_allVars => TypesOK'
<1> SUFFICES ASSUME TypesOK, [PlotNext]_allVars
             PROVE  TypesOK'
  OBVIOUS
<1> USE NeighbourOffsets
<1>1. CASE Build
  <2>1. TypeOK'
    BY <1>1, NextShape DEF Build, TypesOK
  <2> QED
    BY <1>1, <2>1, PixelsAreNot DEF Build, plotVars, TypesOK, PlotTypeOK
<1>2. ASSUME NEW px \in Pixels, Begin(px)
      PROVE  TypesOK'
  <2>1. TypeOK'
    BY <1>2, NextShape DEF Begin, TypesOK
  <2>2. px # NoPixel /\ OwnValue(px) \in -1..4
    BY PixelsAreNot, OwnValueBounds
  <2>3. feature_type' = feature_type
    BY <1>2 DEF Begin, vars
  <2>4. OwnValue(px) < 0 => feature_type = "polygon"
    BY OwnValueBounds
  <2> QED
    BY <1>2, <2>1, <2>2, <2>3, <2>4 DEF Begin, TypesOK, PlotTypeOK
<1>3. CASE Visit
  <2>1. TypeOK' /\ feature_type' = feature_type /\ pixel' = pixel
    BY <1>3, NextShape DEF Visit, TypesOK, vars
  <2>2. visited \in 0..7 /\ visited + 1 \in 1..8
    BY <1>3 DEF Visit, Done, TypesOK, PlotTypeOK
  <2>3. PICK mark \in NeighbourMarks(pixel, Neighbours[visited + 1]) :
            value' = IF mark > value THEN mark ELSE value
    BY <1>3 DEF Visit
  <2>4. mark \in -1..4
    BY <2>2, <2>3, NeighbourMarksBounds DEF TypesOK, TypeOK
  <2> QED
    BY <1>3, <2>1, <2>2, <2>3, <2>4 DEF Visit, TypesOK, PlotTypeOK
<1>4. CASE UNCHANGED allVars
  <2>1. TypeOK'
    BY <1>4, NextShape DEF allVars, vars, TypesOK
  <2> QED
    BY <1>4, <2>1 DEF allVars, TypesOK, PlotTypeOK
<1> QED
  BY <1>1, <1>2, <1>3, <1>4 DEF PlotNext

\* The types of TilePlot, and those of the tree under it: a drawn byte is -1
\* to 4, -1 for polygons only (char tile_area[], plotTile.cpp:482).
THEOREM PlotTypesCorrect == PlotSpec => [](TypeOK /\ PlotTypeOK)
<1> QED
  BY PlotTypesInit, PlotTypesNext, PTL DEF PlotSpec, TypesOK

(***************************************************************************)
(* The loop: after some neighbours the value is the most that they and the *)
(* pixel's own node gave.                                                  *)
(***************************************************************************)
SampleInv ==
    pixel # NoPixel /\ ~Blank(pixel) =>
        /\ \/ value = OwnValue(pixel)
           \/ \E k \in 1..visited : value \in NeighbourMarks(pixel, Neighbours[k])
        /\ value >= OwnValue(pixel)
        /\ \A k \in 1..visited :
              \E mark \in NeighbourMarks(pixel, Neighbours[k]) : mark <= value

\* The invariant of the sampling holds at the start.
LEMMA SampleInit == PlotInit => SampleInv
BY DEF PlotInit, SampleInv

\* Every step keeps the invariant of the sampling.
LEMMA SampleNext == TypesOK /\ SampleInv /\ [PlotNext]_allVars => SampleInv'
<1> SUFFICES ASSUME TypesOK, SampleInv, [PlotNext]_allVars
             PROVE  SampleInv'
  OBVIOUS
<1>1. CASE Build
  BY <1>1 DEF Build, plotVars, SampleInv
<1>2. ASSUME NEW px \in Pixels, Begin(px)
      PROVE  SampleInv'
  <2>1. pixel' = px /\ value' = OwnValue(px) /\ UNCHANGED vars
    BY <1>2 DEF Begin
  <2>2. OwnValue(pixel)' = OwnValue(px) /\ Blank(pixel)' = Blank(px)
    BY <2>1, Unchanged
  <2>3. ~Blank(px) => visited' = 0
    BY <1>2 DEF Begin
  <2>4. OwnValue(px) \in Int
    BY OwnValueBounds
  <2> QED
    BY <2>1, <2>2, <2>3, <2>4 DEF SampleInv
<1>3. CASE Visit
  <2>1. pixel' = pixel /\ visited' = visited + 1 /\ UNCHANGED vars
    BY <1>3 DEF Visit
  <2>2. visited \in 0..7 /\ value \in -1..4
    BY <1>3, NeighbourOffsets DEF Visit, Done, TypesOK, PlotTypeOK
  <2>3. /\ OwnValue(pixel)' = OwnValue(pixel) /\ Blank(pixel)' = Blank(pixel)
        /\ \A k \in 1..8 : NeighbourMarks(pixel, Neighbours[k])'
                            = NeighbourMarks(pixel, Neighbours[k])
    BY <2>1, Unchanged
  <2>4. PICK mark \in NeighbourMarks(pixel, Neighbours[visited + 1]) :
            value' = IF mark > value THEN mark ELSE value
    BY <1>3 DEF Visit
  <2>5. mark \in -1..4 /\ OwnValue(pixel) \in -1..4
    BY <2>2, <2>4, NeighbourMarksBounds, OwnValueBounds DEF TypesOK, TypeOK
  <2>6. value' >= value /\ value' >= mark /\ value' \in -1..4
    BY <2>2, <2>4, <2>5
  <2>7. SUFFICES ASSUME pixel # NoPixel, ~Blank(pixel)
                 PROVE  /\ \/ value' = OwnValue(pixel)
                           \/ \E k \in 1..visited + 1 :
                                 value' \in NeighbourMarks(pixel, Neighbours[k])
                        /\ value' >= OwnValue(pixel)
                        /\ \A k \in 1..visited + 1 :
                              \E m \in NeighbourMarks(pixel, Neighbours[k]) : m <= value'
    <3>1. \A k \in 1..visited + 1 : k \in 1..8
      BY <2>2
    <3> QED
      BY <2>1, <2>3, <3>1 DEF SampleInv
  <2>8. \/ value' = OwnValue(pixel)
        \/ \E k \in 1..visited + 1 : value' \in NeighbourMarks(pixel, Neighbours[k])
    <3>1. CASE mark > value
      BY <2>2, <2>4, <3>1
    <3>2. CASE ~(mark > value)
      BY <2>2, <2>4, <2>7, <3>2 DEF SampleInv
    <3> QED
      BY <3>1, <3>2
  <2>9. value' >= OwnValue(pixel)
    BY <2>2, <2>5, <2>6, <2>7 DEF SampleInv
  <2>10. ASSUME NEW k \in 1..visited + 1
         PROVE  \E m \in NeighbourMarks(pixel, Neighbours[k]) : m <= value'
    <3>1. CASE k = visited + 1
      BY <2>4, <2>6, <3>1
    <3>2. CASE k \in 1..visited
      <4>1. PICK m \in NeighbourMarks(pixel, Neighbours[k]) : m <= value
        BY <2>7, <3>2 DEF SampleInv
      <4>2. m \in -1..4
        BY <2>2, <3>2, NeighbourMarksBounds DEF TypesOK, TypeOK
      <4> QED
        BY <2>2, <2>6, <4>1, <4>2
    <3> QED
      BY <2>2, <3>1, <3>2
  <2> QED
    BY <2>8, <2>9, <2>10
<1>4. CASE UNCHANGED allVars
  <2>1. UNCHANGED vars /\ UNCHANGED plotVars
    BY <1>4 DEF allVars, vars, plotVars
  <2>2. /\ OwnValue(pixel)' = OwnValue(pixel) /\ Blank(pixel)' = Blank(pixel)
        /\ \A k \in 1..8 : NeighbourMarks(pixel, Neighbours[k])'
                            = NeighbourMarks(pixel, Neighbours[k])
    BY <2>1, Unchanged DEF plotVars
  <2>3. \A k \in 1..visited : k \in 1..8
    BY NeighbourOffsets DEF TypesOK, PlotTypeOK
  <2> QED
    BY <2>1, <2>2, <2>3 DEF SampleInv, plotVars
<1> QED
  BY <1>1, <1>2, <1>3, <1>4 DEF PlotNext

\* The invariant gives GreatestMark.
LEMMA SampleEnd == TypesOK /\ SampleInv => GreatestMark
<1> SUFFICES ASSUME TypesOK, SampleInv, Drawn, ~Blank(pixel)
             PROVE  /\ \/ value = OwnValue(pixel)
                       \/ \E k \in DOMAIN Neighbours :
                             value \in NeighbourMarks(pixel, Neighbours[k])
                    /\ value >= OwnValue(pixel)
                    /\ \A k \in DOMAIN Neighbours :
                          NodeFloor(pixel, Neighbours[k]) # NoNode =>
                            \A o \in Positions(pixel, Neighbours[k]) :
                              (feature_type = "polygon" =>
                                  tree[NodeFloor(pixel, Neighbours[k])] = "s")
                              => \E mark \in Marks(o) : mark <= value
  BY DEF GreatestMark
<1>1. visited \in 0..8 /\ value \in -1..4 /\ feature_type \in {"point", "line", "polygon"}
  BY NeighbourOffsets DEF TypesOK, TypeOK, PlotTypeOK
<1>2. /\ \/ value = OwnValue(pixel)
         \/ \E k \in DOMAIN Neighbours : value \in NeighbourMarks(pixel, Neighbours[k])
      /\ value >= OwnValue(pixel)
  <2>1. \A k \in 1..visited : k \in DOMAIN Neighbours
    BY <1>1, NeighbourOffsets
  <2> QED
    BY <2>1 DEF SampleInv, Drawn
<1>3. ASSUME NEW k \in DOMAIN Neighbours,
             NodeFloor(pixel, Neighbours[k]) # NoNode,
             NEW o \in Positions(pixel, Neighbours[k]),
             feature_type = "polygon" => tree[NodeFloor(pixel, Neighbours[k])] = "s"
      PROVE  \E mark \in Marks(o) : mark <= value
  <2> DEFINE p == NodeFloor(pixel, Neighbours[k])
             qs == Children(p)
  <2>1. k \in 1..8
    BY NeighbourOffsets
  <2>2. PICK a \in Int, b \in Int : o = <<a, b>>
    BY <1>3, <2>1, NeighbourOffsets DEF Positions, NodeCentre, ChildCentre
  <2>3. Marks(o) # {} /\ Marks(o) \subseteq -1..4
    BY <2>2, MarksBounds
  <2>4. CASE value = 4
    BY <2>3, <2>4
  <2>5. CASE visited = 8
    <3>1. PICK mark \in NeighbourMarks(pixel, Neighbours[k]) : mark <= value
      BY <2>1, <2>5 DEF SampleInv, Drawn
    <3>2. CASE feature_type = "point"
      <4>1. o = NodeCentre(Neighbours[k])
        BY <1>3, <3>2 DEF Positions
      <4>2. mark \in Marks(NodeCentre(Neighbours[k]))
        BY <1>3, <3>1, <3>2 DEF NeighbourMarks
      <4> QED
        BY <3>1, <4>1, <4>2
    <3>3. CASE feature_type # "point"
      <4>1. PICK q \in qs : o = ChildCentre(Neighbours[k], q)
        BY <1>3, <3>3 DEF Positions
      <4>2. mark \in ChildMarks(Neighbours[k], qs)
        BY <1>1, <1>3, <3>1, <3>3 DEF NeighbourMarks
      <4>3. qs \in SUBSET Quads
        BY DEF Children
      <4>4. PICK other \in Marks(o) : other <= mark
        BY <2>1, <4>1, <4>2, <4>3, NearestIsEnough
      <4>5. mark \in -1..4 /\ other \in -1..4
        BY <1>1, <2>1, <2>3, <3>1, <4>4, NeighbourMarksBounds
      <4> QED
        BY <1>1, <3>1, <4>4, <4>5
    <3> QED
      BY <3>2, <3>3
  <2> QED
    BY <2>4, <2>5, NeighbourOffsets DEF Drawn, Done
<1> QED
  BY <1>2, <1>3

\* Whatever order the neighbours are visited in, wherever a break ends the
\* loops, and with one child looked at per node, a pixel gets the most that its
\* own node or any child around it gives.
THEOREM GreatestMarkCorrect == PlotSpec => []GreatestMark
<1>1. PlotInit => TypesOK /\ SampleInv
  BY PlotTypesInit, SampleInit
<1>2. TypesOK /\ SampleInv /\ [PlotNext]_allVars => (TypesOK /\ SampleInv)'
  BY PlotTypesNext, SampleNext
<1>3. TypesOK /\ SampleInv => GreatestMark
  BY SampleEnd
<1> QED
  BY <1>1, <1>2, <1>3, PTL DEF PlotSpec

(***************************************************************************)
(* The squares of a level.                                                 *)
(***************************************************************************)
LEMMA Pow2Sum ==
    ASSUME NEW a \in Nat, NEW b \in Nat
    PROVE  Pow2[a + b] = Pow2[a] * Pow2[b]
<1> DEFINE S == {n \in 0..b : Pow2[a + n] = Pow2[a] * Pow2[n]}
<1>1. Pow2[a] \in Nat
  BY Pow2Definition
<1>2. 0 \in S
  BY <1>1, Pow2Definition
<1>3. ASSUME NEW n \in 0..b - 1, n \in S PROVE n + 1 \in S
  <2>1. n \in Nat /\ n + 1 \in 0..b /\ a + n \in Nat /\ a + (n + 1) = (a + n) + 1
    OBVIOUS
  <2>2. Pow2[(a + n) + 1] = 2 * Pow2[a + n] /\ Pow2[n + 1] = 2 * Pow2[n] /\ Pow2[n] \in Nat
    BY <2>1, Pow2Definition
  <2>3. Pow2[a + n] = Pow2[a] * Pow2[n]
    BY <1>3
  <2> DEFINE A == Pow2[a]
             B == Pow2[n]
  <2>4. A \in Nat /\ B \in Nat
    BY <1>1, <2>2
  <2> HIDE DEF A, B
  <2>5. 2 * (A * B) = A * (2 * B)
    BY <2>4
  <2>6. Pow2[a + (n + 1)] = Pow2[a] * Pow2[n + 1]
    BY <2>1, <2>2, <2>3, <2>5 DEF A, B
  <2> QED
    BY <2>1, <2>6
<1> HIDE DEF S
<1>4. b \in S
  <2>1. 0..b \subseteq S
    BY <1>2, <1>3, UpTo
  <2> QED
    BY <2>1
<1> QED
  BY <1>4 DEF S

\* Powers of two grow.
LEMMA Pow2Less ==
    ASSUME NEW a \in Nat, NEW b \in Nat, a < b
    PROVE  Pow2[a] < Pow2[b]
<1> DEFINE S == {n \in 0..b - a - 1 : Pow2[a] < Pow2[a + n + 1]}
<1>1. 0 \in S
  BY Pow2Definition
<1>2. ASSUME NEW n \in 0..(b - a - 1) - 1, n \in S PROVE n + 1 \in S
  <2>1. /\ n \in Nat /\ n + 1 \in 0..b - a - 1 /\ a + n + 1 \in Nat
        /\ a + (n + 1) + 1 = (a + n + 1) + 1
    OBVIOUS
  <2>2. Pow2[a] \in Nat /\ Pow2[a + n + 1] \in Nat /\ Pow2[(a + n + 1) + 1] = 2 * Pow2[a + n + 1]
    BY <2>1, Pow2Definition
  <2>3. Pow2[a] < Pow2[a + n + 1]
    BY <1>2
  <2>4. Pow2[a] < Pow2[a + (n + 1) + 1]
    BY <2>1, <2>2, <2>3
  <2> QED
    BY <2>1, <2>4
<1> HIDE DEF S
<1>3. b - a - 1 \in S
  <2>1. b - a - 1 \in Nat
    OBVIOUS
  <2>2. 0..b - a - 1 \subseteq S
    BY <1>1, <1>2, <2>1, UpTo
  <2> QED
    BY <2>1, <2>2
<1>4. Pow2[a] < Pow2[a + (b - a - 1) + 1] /\ a + (b - a - 1) + 1 = b
  BY <1>3 DEF S
<1> QED
  BY <1>4

\* A product is divided without remainder, and only by one factor.
LEMMA ExactQuotient ==
    ASSUME NEW u \in Nat, NEW v \in Nat \ {0}
    PROVE  (u * v) \div v = u
<1> DEFINE W == u * v
           k == W \div v
           m == W % v
<1>1. W \in Nat
  OBVIOUS
<1> HIDE DEF W
<1>2. W = (v * k) + m /\ k \in Int /\ m \in 0..v - 1
  BY <1>1
<1> HIDE DEF k, m
<1>3. W = v * u
  BY DEF W
<1>4. ASSUME k + 1 <= u PROVE FALSE
  <2>1. v * (k + 1) <= v * u
    BY <1>2, <1>4, ProductMonotone
  <2>2. v * (k + 1) = (v * k) + v /\ v * k \in Int
    BY <1>2
  <2> QED
    BY <1>1, <1>2, <1>3, <2>1, <2>2
<1>5. ASSUME u + 1 <= k PROVE FALSE
  <2>1. v * (u + 1) <= v * k
    BY <1>2, <1>5, ProductMonotone
  <2>2. v * (u + 1) = (v * u) + v /\ v * u \in Int
    OBVIOUS
  <2> QED
    BY <1>1, <1>2, <1>3, <2>1, <2>2
<1>6. k = u
  BY <1>2, <1>4, <1>5
<1> QED
  BY <1>6 DEF k, W

\* A factor other than zero cancels.
LEMMA Cancel ==
    ASSUME NEW u \in Nat, NEW w \in Nat, NEW v \in Nat \ {0}, u * v = w * v
    PROVE  u = w
<1>1. (u * v) \div v = u /\ (w * v) \div v = w
  BY ExactQuotient
<1> QED
  BY <1>1

\* The width of the squares of a level.
LEMMA LevelWidth ==
    ASSUME NEW l \in 0..TqTreeLevel
    PROVE  /\ l \in Nat /\ Pow2[l] \in Nat \ {0}
           /\ Width \div Pow2[l] \in Nat \ {0}
           /\ (Width \div Pow2[l]) * Pow2[l] = Width
           /\ \E h \in Nat \ {0} : Width \div Pow2[l] = 2 * h
           /\ \A p \in Paths : Len(p) = l => Box[p].w = Width \div Pow2[l]
<1>1. TqTreeLevel \in Nat /\ l \in Nat
  BY LevelAssumption
<1>2. Pow2[l] \in Nat \ {0}
  BY <1>1, Pow2Definition
<1>3. ASSUME NEW p \in Paths, Len(p) = l
      PROVE  /\ Box[p].w = Width \div Pow2[l] /\ Box[p].w \in Nat \ {0}
             /\ Box[p].w * Pow2[l] = Width
  <2>1. Box[p].w \in Nat \ {0} /\ Box[p].w * Pow2[l] = Width
    BY <1>3, BoxSize DEF Squares
  <2>2. (Box[p].w * Pow2[l]) \div Pow2[l] = Box[p].w
    BY <1>2, <2>1, ExactQuotient
  <2> QED
    BY <2>1, <2>2
<1>4. PICK p \in Paths : Len(p) = l
  <2> DEFINE o == [k \in 1..l |-> 1]
  <2>1. o \in Paths /\ o \in Seq(Quads) /\ Len(o) = l
    BY <1>1 DEF Paths, Quads
  <2> QED
    BY <2>1
<1>5. \E h \in Nat \ {0} : Box[p].w = 2 * h
  BY BoxSize
<1> QED
  BY <1>1, <1>2, <1>3, <1>4, <1>5

\* A node's square holds its own centre.
LEMMA CentreOwn ==
    ASSUME NEW p \in Paths
    PROVE  /\ Box[p] \in Squares /\ Centre(Box[p]) \in Locations
           /\ StrictlyIn(Box[p], Centre(Box[p]))
           /\ p \in Seq(Quads) /\ Len(p) \in Nat /\ Len(p) <= TqTreeLevel
<1>1. p \in Seq(Quads) /\ Len(p) \in Nat /\ Len(p) <= TqTreeLevel /\ Len(p) \in 0..Len(p)
  BY PathsAreSequences, LenProperties
<1>2. Above(p, Len(p)) = p
  BY <1>1, AboveSelf
<1> QED
  BY <1>1, <1>2, CentreStrictlyIn

\* What a square holds, the squares around it hold.
LEMMA StrictlyWithin ==
    ASSUME NEW b \in Squares, NEW a \in Squares, NEW c \in Locations, Within(b, a)
    PROVE  /\ StrictlyIn(b, c) => StrictlyIn(a, c)
           /\ Holds(b, c) => Holds(a, c)
<1>1. /\ b.x \in Int /\ b.y \in Int /\ b.w \in Int /\ a.x \in Int /\ a.y \in Int /\ a.w \in Int
      /\ c.x \in Int /\ c.y \in Int
  BY DEF Squares, Locations
<1> QED
  BY <1>1 DEF Within, StrictlyIn, Holds

\* Squares of one level do not overlap.
LEMMA SameNode ==
    ASSUME NEW p \in Paths, NEW o \in Paths, Len(p) = Len(o), NEW c \in Locations,
           StrictlyIn(Box[p], c), Holds(Box[o], c)
    PROVE  p = o
<1> DEFINE S == {n \in 0..Len(p) : Above(p, n) = Above(o, n)}
           r == MBR({c})
<1>1. /\ p \in Seq(Quads) /\ o \in Seq(Quads) /\ Len(p) \in Nat
      /\ Box[p] \in Squares /\ Box[o] \in Squares
  BY CentreOwn
<1>2. r = [x_min |-> c.x, x_max |-> c.x, y_min |-> c.y, y_max |-> c.y]
  BY PointMBR
<1> HIDE DEF r
<1>3. r \in Rects /\ r.x_min = c.x /\ r.x_max = c.x /\ r.y_min = c.y /\ r.y_max = c.y
  BY <1>2 DEF Rects, Locations
<1>4. 0 \in S
  BY <1>1, AboveProperties, EmptySeq
<1>5. ASSUME NEW n \in 0..Len(p) - 1, n \in S PROVE n + 1 \in S
  <2> DEFINE a == Above(p, n)
             q == p[n + 1]
             k == o[n + 1]
  <2>1. a = Above(o, n) /\ n \in 0..Len(o) - 1 /\ n + 1 \in 0..Len(p) /\ n + 1 \in 0..Len(o)
    BY <1>1, <1>5
  <2>2. /\ a \in Inner /\ q \in Quads /\ k \in Quads
        /\ Above(p, n + 1) = Child(a, q) /\ Above(o, n + 1) = Child(a, k)
        /\ Above(p, n + 1) \in Paths /\ Above(o, n + 1) \in Paths
    BY <2>1, StepDown
  <2>3. /\ Box[Above(p, n + 1)] = Quarter(Box[a], q) /\ Box[Above(o, n + 1)] = Quarter(Box[a], k)
        /\ Box[Above(p, n + 1)] \in Squares /\ Box[Above(o, n + 1)] \in Squares
    BY <2>2, ChildBox, BoxSize
  <2>4. /\ Within(Box[p], Box[Above(p, n + 1)]) /\ Within(Box[o], Box[Above(o, n + 1)])
    BY <2>1, BoxWithin
  <2> HIDE DEF a, q, k
  <2>5. StrictlyIn(Quarter(Box[a], q), c)
    BY <1>1, <2>3, <2>4, StrictlyWithin
  <2>6. Holds(Quarter(Box[a], k), c)
    BY <1>1, <2>3, <2>4, StrictlyWithin
  <2>7. IsIntersect(Quarter(Box[a], q), r)
    BY <1>3, <2>5 DEF IsIntersect, StrictlyIn
  <2>8. IsContain(Quarter(Box[a], k), r)
    BY <1>3, <2>6 DEF IsContain, Holds
  <2>9. r.x_min <= r.x_min /\ r.x_max <= r.x_max /\ r.y_min <= r.y_min /\ r.y_max <= r.y_max
    BY <1>3 DEF Locations
  <2>10. q = k
    BY <1>3, <2>2, <2>7, <2>8, <2>9, SoleHolder
  <2> QED
    BY <2>1, <2>2, <2>10
<1> HIDE DEF S
<1>6. Len(p) \in S
  <2>1. 0..Len(p) \subseteq S
    BY <1>1, <1>4, <1>5, UpTo
  <2> QED
    BY <1>1, <2>1
<1> QED
  BY <1>1, <1>6, AboveSelf DEF S

\* No two nodes have the same square.
LEMMA BoxInjective ==
    ASSUME NEW p \in Paths, NEW o \in Paths, Box[p] = Box[o]
    PROVE  p = o
<1> DEFINE w == Box[p].w
           A == Pow2[Len(p)]
           B == Pow2[Len(o)]
<1>1. w \in Nat \ {0} /\ w * A = Width /\ w * B = Width
  BY BoxSize DEF Squares
<1>2. Len(p) \in Nat /\ Len(o) \in Nat
  BY CentreOwn
<1>3. A \in Nat /\ B \in Nat
  BY <1>2, Pow2Definition
<1> HIDE DEF w
<1>4. A = B
  <2> HIDE DEF A, B
  <2>1. A * w = B * w
    BY <1>1, <1>3
  <2> QED
    BY <1>1, <1>3, <2>1, Cancel
<1>5. Len(p) = Len(o)
  <2>1. ASSUME Len(p) < Len(o) PROVE FALSE
    BY <1>2, <1>3, <1>4, <2>1, Pow2Less
  <2>2. ASSUME Len(o) < Len(p) PROVE FALSE
    BY <1>2, <1>3, <1>4, <2>2, Pow2Less
  <2> QED
    BY <1>2, <2>1, <2>2
<1>6. /\ Centre(Box[p]) \in Locations /\ StrictlyIn(Box[p], Centre(Box[p]))
      /\ Box[p] \in Squares
  BY CentreOwn
<1>7. Holds(Box[o], Centre(Box[p]))
  <2> DEFINE b == Box[p]
             c == Centre(b)
  <2>1. /\ b.x \in Int /\ b.y \in Int /\ b.w \in Int /\ c.x \in Int /\ c.y \in Int
    BY <1>6 DEF Squares, Locations
  <2> HIDE DEF b, c
  <2>2. StrictlyIn(b, c)
    BY <1>6 DEF b, c
  <2>3. Holds(b, c)
    BY <2>1, <2>2 DEF StrictlyIn, Holds
  <2> QED
    BY <2>3 DEF b, c
<1> QED
  BY <1>5, <1>6, <1>7, SameNode

(***************************************************************************)
(* The descents.                                                           *)
(***************************************************************************)
\* A point inside a quadrant is sent there.
LEMMA TowardsInside ==
    ASSUME NEW b \in Squares, NEW h \in Nat \ {0}, b.w = 2 * h,
           NEW c \in Locations, NEW q \in Quads, StrictlyIn(Quarter(b, q), c)
    PROVE  Towards(b, c) = q
<1>1. /\ Centre(b) = [x |-> b.x + h, y |-> b.y + h]
      /\ Quarter(b, q).x = (IF q \in {2, 4} THEN b.x + h ELSE b.x)
      /\ Quarter(b, q).y = (IF q \in {1, 2} THEN b.y + h ELSE b.y)
      /\ Quarter(b, q).w = h
  BY Halves
<1>2. b.x \in Int /\ b.y \in Int /\ c.x \in Int /\ c.y \in Int
  BY DEF Squares, Locations
<1> DEFINE m == Centre(b)
           o == Quarter(b, q)
<1>3. /\ o.x < c.x /\ c.x < o.x + o.w /\ o.y < c.y /\ c.y < o.y + o.w
  BY DEF StrictlyIn
<1>4. m.x = b.x + h /\ m.y = b.y + h
  BY <1>1
<1>5. Towards(b, c) = CASE c.x < m.x /\ c.y >= m.y -> 1
                       [] c.x >= m.x /\ c.y >= m.y -> 2
                       [] c.x < m.x /\ c.y < m.y -> 3
                       [] c.x >= m.x /\ c.y < m.y -> 4
  BY DEF Towards
<1> HIDE DEF m, o
<1>6. CASE q = 1
  <2>1. c.x < m.x /\ c.y >= m.y /\ ~(c.x >= m.x) /\ ~(c.y < m.y)
    BY <1>1, <1>2, <1>3, <1>4, <1>6 DEF o
  <2> QED
    BY <1>5, <1>6, <2>1
<1>7. CASE q = 2
  <2>1. c.x >= m.x /\ c.y >= m.y /\ ~(c.x < m.x) /\ ~(c.y < m.y)
    BY <1>1, <1>2, <1>3, <1>4, <1>7 DEF o
  <2> QED
    BY <1>5, <1>7, <2>1
<1>8. CASE q = 3
  <2>1. c.x < m.x /\ c.y < m.y /\ ~(c.x >= m.x) /\ ~(c.y >= m.y)
    BY <1>1, <1>2, <1>3, <1>4, <1>8 DEF o
  <2> QED
    BY <1>5, <1>8, <2>1
<1>9. CASE q = 4
  <2>1. c.x >= m.x /\ c.y < m.y /\ ~(c.x < m.x) /\ ~(c.y >= m.y)
    BY <1>1, <1>2, <1>3, <1>4, <1>9 DEF o
  <2> QED
    BY <1>5, <1>9, <2>1
<1> QED
  BY <1>6, <1>7, <1>8, <1>9 DEF Quads

\* From any node above it a descent to a node's centre goes along its path.
LEMMA Descent ==
    ASSUME NEW p \in Paths, NEW k \in 0..Len(p), NEW n \in 0..Len(p) - k
    PROVE  Down(Above(p, k), Box[Above(p, k)], Centre(Box[p]), n) = Above(p, k + n)
<1> DEFINE pt == Centre(Box[p])
           Next1(r) == LET q == Towards(r.box, pt)
                       IN  [node |-> Child(r.node, q), box |-> Quarter(r.box, q)]
           Is(f) == f = [j \in 0..n |-> IF j = 0 THEN [node |-> Above(p, k), box |-> Box[Above(p, k)]]
                                        ELSE Next1(f[j - 1])]
           At1(j) == [node |-> Above(p, k + j), box |-> Box[Above(p, k + j)]]
           W == [j \in 0..n |-> At1(j)]
           way == CHOOSE f : Is(f)
           S == {j \in 0..n : way[j] = At1(j)}
<1>1. pt \in Locations /\ Len(p) \in Nat /\ k \in Nat /\ n \in Nat /\ k + n <= Len(p)
  BY CentreOwn
<1>2. ASSUME NEW j \in 0..n - 1 PROVE Next1(At1(j)) = At1(j + 1)
  <2> DEFINE a == Above(p, k + j)
             q == p[(k + j) + 1]
  <2>1. k + j \in 0..Len(p) - 1 /\ (k + j) + 1 \in 0..Len(p) /\ (k + j) + 1 = k + (j + 1)
    BY <1>1
  <2>2. a \in Inner /\ a \in Paths /\ q \in Quads /\ Above(p, (k + j) + 1) = Child(a, q)
    BY <2>1, StepDown
  <2>3. /\ Box[Child(a, q)] = Quarter(Box[a], q)
        /\ Box[a] \in Squares /\ \E h \in Nat \ {0} : Box[a].w = 2 * h
    BY <2>2, ChildBox, BoxSize
  <2>4. StrictlyIn(Quarter(Box[a], q), pt)
    BY <2>1, <2>2, <2>3, CentreStrictlyIn
  <2> HIDE DEF pt, a, q
  <2>5. Towards(Box[a], pt) = q
    BY <1>1, <2>2, <2>3, <2>4, TowardsInside
  <2>6. Next1(At1(j)) = [node |-> Child(a, q), box |-> Quarter(Box[a], q)]
    BY <2>5 DEF a
  <2> QED
    BY <2>1, <2>2, <2>3, <2>6
<1>3. At1(0) = [node |-> Above(p, k), box |-> Box[Above(p, k)]]
  <2>1. k + 0 = k
    BY <1>1
  <2> QED
    BY <2>1
<1> HIDE DEF Next1, At1, pt
<1>4. Is(W)
  <2> DEFINE V == [j \in 0..n |-> IF j = 0 THEN [node |-> Above(p, k), box |-> Box[Above(p, k)]]
                                   ELSE Next1(W[j - 1])]
  <2>1. ASSUME NEW j \in 0..n PROVE W[j] = V[j]
    <3>1. CASE j = 0
      BY <1>3, <3>1
    <3>2. CASE j # 0
      <4>1. j - 1 \in 0..n - 1 /\ (j - 1) + 1 = j /\ j - 1 \in 0..n
        BY <1>1, <3>2
      <4>2. W[j - 1] = At1(j - 1)
        BY <4>1
      <4>3. V[j] = Next1(W[j - 1])
        BY <3>2
      <4>4. Next1(At1(j - 1)) = At1((j - 1) + 1)
        BY <1>2, <4>1
      <4>5. W[j] = At1(j)
        OBVIOUS
      <4> HIDE DEF W, V
      <4> QED
        BY <4>1, <4>2, <4>3, <4>4, <4>5
    <3> QED
      BY <3>1, <3>2
  <2>2. W = V
    BY <2>1
  <2> QED
    BY <2>2
<1> HIDE DEF W, Is
<1>5. Is(way)
  BY <1>4, Zenon
<1>6. \A j \in 0..n : way[j] = IF j = 0 THEN [node |-> Above(p, k), box |-> Box[Above(p, k)]]
                               ELSE Next1(way[j - 1])
  <2> HIDE DEF way
  <2> QED
    BY <1>5 DEF Is
<1>7. Down(Above(p, k), Box[Above(p, k)], pt, n) = way[n].node
  BY Zenon DEF Down, Is, Next1
<1> HIDE DEF way
<1>8. 0 \in S
  BY <1>1, <1>3, <1>6
<1>9. ASSUME NEW j \in 0..n - 1, j \in S PROVE j + 1 \in S
  <2>1. j + 1 \in 0..n /\ j + 1 # 0 /\ (j + 1) - 1 = j
    BY <1>1
  <2>2. way[j + 1] = Next1(way[j])
    BY <1>6, <2>1
  <2>3. way[j] = At1(j)
    BY <1>9
  <2> QED
    BY <1>2, <2>1, <2>2, <2>3
<1> HIDE DEF S
<1>10. n \in S
  <2>1. 0..n \subseteq S
    BY <1>1, <1>8, <1>9, UpTo
  <2> QED
    BY <1>1, <2>1
<1>11. way[n] = At1(n)
  BY <1>10 DEF S
<1>12. At1(n).node = Above(p, k + n)
  BY DEF At1
<1> QED
  BY <1>7, <1>11, <1>12 DEF pt

(***************************************************************************)
(* The squares of a node's descendants n levels down are those of a grid.  *)
(***************************************************************************)
Cell(b, w, i, j) == [x |-> b.x + i * w, y |-> b.y + j * w, w |-> w]

HasQuarter(c, d) == \E q \in Quads : Quarter(c, q) = d

\* A cell of the finer grid is a quarter of one of the coarser.
LEMMA CellHalf ==
    ASSUME NEW b \in Squares, NEW w \in Nat \ {0}, NEW i \in Nat, NEW j \in Nat,
           NEW v, v = 2 * w, NEW k \in {2 * i, 2 * i + 1}, NEW l \in {2 * j, 2 * j + 1}
    PROVE  HasQuarter(Cell(b, v, i, j), Cell(b, w, k, l))
<1> DEFINE e == k - 2 * i
           f == l - 2 * j
           c == Cell(b, 2 * w, i, j)
           q == IF e = 1 THEN (IF f = 1 THEN 2 ELSE 4) ELSE (IF f = 1 THEN 1 ELSE 3)
           X == b.x + i * (2 * w)
           Y == b.y + j * (2 * w)
<1>1. b.x \in Int /\ b.y \in Int /\ i * (2 * w) \in Int /\ j * (2 * w) \in Int
  BY DEF Squares
<1>2. c = [x |-> X, y |-> Y, w |-> 2 * w] /\ X \in Int /\ Y \in Int
  BY <1>1 DEF Cell
<1>3. q \in Quads /\ (q \in {2, 4} <=> e = 1) /\ (q \in {1, 2} <=> f = 1)
  BY DEF Quads
<1>4. (2 * w) \div 2 = w /\ e \in {0, 1} /\ f \in {0, 1} /\ k = 2 * i + e /\ l = 2 * j + f
  OBVIOUS
<1> HIDE DEF X, Y, q, c, e, f
<1>5. Quarter(c, q) = [x |-> IF q \in {2, 4} THEN X + w ELSE X,
                       y |-> IF q \in {1, 2} THEN Y + w ELSE Y,
                       w |-> w]
  BY <1>2, <1>4 DEF Quarter
<1>6. (IF q \in {2, 4} THEN X + w ELSE X) = b.x + (2 * i + e) * w
  <2>1. i * (2 * w) = 2 * (i * w) /\ (2 * i) * w = 2 * (i * w) /\ i * w \in Int
    OBVIOUS
  <2>2. (2 * i + e) * w = (2 * i) * w + e * w
    BY <1>4
  <2>3. e * w = IF e = 1 THEN w ELSE 0
    BY <1>4
  <2> QED
    BY <1>1, <1>3, <2>1, <2>2, <2>3 DEF X
<1>7. (IF q \in {1, 2} THEN Y + w ELSE Y) = b.y + (2 * j + f) * w
  <2>1. j * (2 * w) = 2 * (j * w) /\ (2 * j) * w = 2 * (j * w) /\ j * w \in Int
    OBVIOUS
  <2>2. (2 * j + f) * w = (2 * j) * w + f * w
    BY <1>4
  <2>3. f * w = IF f = 1 THEN w ELSE 0
    BY <1>4
  <2> QED
    BY <1>1, <1>3, <2>1, <2>2, <2>3 DEF Y
<1>8. Quarter(c, q) = Cell(b, w, k, l)
  BY <1>4, <1>5, <1>6, <1>7 DEF Cell
<1> QED
  BY <1>3, <1>8 DEF c, HasQuarter

\* One level more.
LEMMA Lengths ==
    ASSUME NEW x \in Nat, NEW k \in Nat, NEW y, y = x + k
    PROVE  x \in 0..y /\ y + 1 = x + (k + 1)
OBVIOUS

\* The cells of the grid that cuts a node's square into 2^n by 2^n are the
\* squares of its descendants n levels down.
LEMMA Grid ==
    ASSUME NEW o \in Paths, NEW n \in Nat, Len(o) + n <= TqTreeLevel,
           NEW w \in Nat \ {0}, w * Pow2[n] = Box[o].w,
           NEW i \in 0..Pow2[n] - 1, NEW j \in 0..Pow2[n] - 1
    PROVE  \E p \in Paths : /\ Len(p) = Len(o) + n /\ Above(p, Len(o)) = o
                            /\ Box[p] = Cell(Box[o], w, i, j)
<1> DEFINE b == Box[o]
           Is(k, u, a, c) == \E p \in Paths : /\ Len(p) = Len(o) + k /\ Above(p, Len(o)) = o
                                              /\ Box[p] = Cell(b, u, a, c)
           S == {k \in 0..n : \A u \in Nat \ {0} : u * Pow2[k] = b.w =>
                                \A a \in 0..Pow2[k] - 1, c \in 0..Pow2[k] - 1 : Is(k, u, a, c)}
<1>1. /\ o \in Seq(Quads) /\ Len(o) \in Nat /\ b \in Squares /\ TqTreeLevel \in Nat
  BY CentreOwn, LevelAssumption
<1> HIDE DEF b
<1>2. 0 \in S
  <2> SUFFICES ASSUME NEW u \in Nat \ {0}, u * Pow2[0] = b.w,
                      NEW a \in 0..Pow2[0] - 1, NEW c \in 0..Pow2[0] - 1
               PROVE  Is(0, u, a, c)
    OBVIOUS
  <2>1. Pow2[0] = 1
    BY Pow2Definition
  <2>2. a = 0 /\ c = 0 /\ u = b.w
    BY <2>1
  <2>3. Cell(b, u, a, c) = [x |-> b.x, y |-> b.y, w |-> b.w]
    BY <1>1, <2>2 DEF Cell, Squares
  <2>4. Cell(b, u, a, c) = b
    BY <1>1, <2>3 DEF Squares
  <2>5. Len(o) = Len(o) + 0 /\ Above(o, Len(o)) = o
    BY <1>1, AboveSelf
  <2> QED
    BY <2>4, <2>5 DEF b
<1>3. ASSUME NEW k \in 0..n - 1, k \in S PROVE k + 1 \in S
  <2> SUFFICES ASSUME NEW u \in Nat \ {0}, u * Pow2[k + 1] = b.w,
                      NEW a \in 0..Pow2[k + 1] - 1, NEW c \in 0..Pow2[k + 1] - 1
               PROVE  Is(k + 1, u, a, c)
    OBVIOUS
  <2> DEFINE A == Pow2[k]
  <2>1. k \in Nat /\ A \in Nat \ {0} /\ Pow2[k + 1] = 2 * A
    BY Pow2Definition, SMTT(30)
  <2> HIDE DEF A
  <2>2. (2 * u) * A = b.w
    <3>1. (2 * u) * A = u * (2 * A)
      BY <2>1
    <3> QED
      BY <2>1, <3>1
  <2>3. PICK a1 \in 0..A - 1, e \in {0, 1} : a = 2 * a1 + e
    <3>1. a \div 2 \in 0..A - 1 /\ a % 2 \in {0, 1} /\ a = 2 * (a \div 2) + (a % 2)
      BY <2>1
    <3> QED
      BY <3>1
  <2>4. PICK c1 \in 0..A - 1, f \in {0, 1} : c = 2 * c1 + f
    <3>1. c \div 2 \in 0..A - 1 /\ c % 2 \in {0, 1} /\ c = 2 * (c \div 2) + (c % 2)
      BY <2>1
    <3> QED
      BY <3>1
  <2>5. Is(k, 2 * u, a1, c1)
    <3>1. 2 * u \in Nat \ {0}
      OBVIOUS
    <3> HIDE DEF Is
    <3> QED
      BY <1>3, <2>1, <2>2, <3>1 DEF A
  <2>6. PICK p \in Paths : /\ Len(p) = Len(o) + k /\ Above(p, Len(o)) = o
                           /\ Box[p] = Cell(b, 2 * u, a1, c1)
    BY <2>5
  <2>7. p \in Inner
    BY <1>1, <2>6 DEF Inner
  <2>8. PICK q \in Quads : Quarter(Box[p], q) = Cell(b, u, a, c)
    <3>1. a1 \in Nat /\ c1 \in Nat
      BY <2>1
    <3>2. b \in Squares /\ u \in Nat \ {0}
      BY <1>1
    <3>3. a \in {2 * a1, 2 * a1 + 1} /\ c \in {2 * c1, 2 * c1 + 1}
      BY <2>3, <2>4, <3>1
    <3> DEFINE v == 2 * u
    <3>4. v = 2 * u
      OBVIOUS
    <3> HIDE DEF v
    <3>5. HasQuarter(Cell(b, v, a1, c1), Cell(b, u, a, c))
      BY <3>1, <3>2, <3>3, <3>4, CellHalf
    <3> QED
      BY <2>6, <3>5 DEF HasQuarter, v
  <2>9. /\ Child(p, q) \in Paths /\ Len(Child(p, q)) = Len(p) + 1
        /\ \A l \in 0..Len(p) : Above(Child(p, q), l) = Above(p, l)
        /\ Box[Child(p, q)] = Quarter(Box[p], q)
    BY <2>7, ChildLen, ChildBox
  <2>10. Len(o) \in 0..Len(p) /\ Len(p) + 1 = Len(o) + (k + 1)
    <3> DEFINE x == Len(o)
               y == Len(p)
    <3>1. x \in Nat /\ y = x + k
      BY <1>1, <2>6
    <3> HIDE DEF x, y
    <3>2. x \in 0..y /\ y + 1 = x + (k + 1)
      BY <2>1, <3>1, Lengths, Zenon
    <3> QED
      BY <3>2, Zenon DEF x, y
  <2> QED
    BY <2>6, <2>8, <2>9, <2>10
<1> HIDE DEF S, Is
<1>4. n \in S
  <2>1. 0..n \subseteq S
    BY <1>2, <1>3, UpTo
  <2> QED
    BY <2>1
<1>5. Is(n, w, i, j)
  BY <1>4 DEF S, b
<1> QED
  BY <1>5 DEF Is, b

Rectangle(b) == [x_min |-> b.x, x_max |-> b.x + b.w, y_min |-> b.y, y_max |-> b.y + b.w]

\* A cell of the grid with its centre in the square is one of the square's
\* own.
LEMMA CellInside ==
    ASSUME NEW x0 \in Int, NEW w \in Nat \ {0}, NEW h \in Nat \ {0}, w = 2 * h,
           NEW N \in Nat, NEW i \in Int,
           x0 <= x0 + i * w + h, x0 + i * w + h <= x0 + w * N
    PROVE  i \in 0..N - 1
<1>1. i * w \in Int /\ w * N \in Int /\ w * i = i * w
  OBVIOUS
<1>2. ASSUME i <= -1 PROVE FALSE
  <2>1. w * i <= w * (-1)
    BY <1>2, ProductMonotone
  <2>2. w * (-1) = 0 - w
    OBVIOUS
  <2> QED
    BY <1>1, <2>1, <2>2
<1>3. ASSUME i >= N PROVE FALSE
  <2>1. w * N <= w * i
    BY <1>3, ProductMonotone
  <2> QED
    BY <1>1, <2>1
<1> QED
  BY <1>2, <1>3

\* The square c is one of those n levels below o, if they went on outside o.
IsCell(o, n, c) ==
    \E h \in Nat \ {0}, i \in Int, j \in Int :
        2 * h * Pow2[n] = Box[o].w /\ c = Cell(Box[o], 2 * h, i, j)

CentreIn(o, c) == IsInMBR(Centre(c), Rectangle(Box[o]))

NodeBelow(o, n, c) == \E p \in Paths : Len(p) = Len(o) + n /\ Above(p, Len(o)) = o /\ Box[p] = c

\* A cell with its centre in a node's square is a descendant's.
LEMMA CellIsNode ==
    ASSUME NEW o \in Paths, NEW n \in Nat, Len(o) + n <= TqTreeLevel,
           NEW c, IsCell(o, n, c), CentreIn(o, c)
    PROVE  NodeBelow(o, n, c)
<1>0. PICK h \in Nat \ {0}, i \in Int, j \in Int :
        2 * h * Pow2[n] = Box[o].w /\ c = Cell(Box[o], 2 * h, i, j)
  BY DEF IsCell
<1> DEFINE b == Box[o]
           N == Pow2[n]
           pt == Centre(c)
           w == 2 * h
<1>9. w \in Nat \ {0} /\ w * N = b.w /\ c = Cell(b, w, i, j)
  BY <1>0
<1>1. b \in Squares /\ b.x \in Int /\ b.y \in Int /\ N \in Nat
  BY BoxSize, Pow2Definition DEF Squares
<1>2. w \div 2 = h
  OBVIOUS
<1>3. pt = [x |-> (b.x + i * w) + h, y |-> (b.y + j * w) + h]
  BY <1>2, <1>9 DEF Centre, Cell
<1>4. /\ b.x <= pt.x /\ pt.x <= b.x + b.w /\ b.y <= pt.y /\ pt.y <= b.y + b.w
  BY DEF CentreIn, IsInMBR, Rectangle
<1>5. b.w = w * N
  BY <1>9
<1>10. w = 2 * h
  OBVIOUS
<1> HIDE DEF b, N, pt, w
<1>6. pt.x = b.x + i * w + h /\ pt.y = b.y + j * w + h
  BY <1>3
<1>7. i \in 0..N - 1
  <2>1. b.x <= b.x + i * w + h /\ b.x + i * w + h <= b.x + w * N
    BY <1>4, <1>5, <1>6
  <2> QED
    BY <1>1, <1>9, <1>10, <2>1, CellInside
<1>8. j \in 0..N - 1
  <2>1. b.y <= b.y + j * w + h /\ b.y + j * w + h <= b.y + w * N
    BY <1>4, <1>5, <1>6
  <2> QED
    BY <1>1, <1>9, <1>10, <2>1, CellInside
<1>11. \E p \in Paths : /\ Len(p) = Len(o) + n /\ Above(p, Len(o)) = o
                        /\ Box[p] = Cell(Box[o], w, i, j)
  <2>1. w \in Nat \ {0} /\ w * Pow2[n] = Box[o].w
    BY <1>9 DEF b, N
  <2>2. i \in 0..Pow2[n] - 1 /\ j \in 0..Pow2[n] - 1
    BY <1>7, <1>8 DEF N
  <2> QED
    BY <2>1, <2>2, Grid
<1> QED
  BY <1>9, <1>11 DEF NodeBelow, b

(***************************************************************************)
(* Tiles and pixels are nodes.                                             *)
(***************************************************************************)
LEMMA PixelFields ==
    ASSUME NEW px \in Pixels
    PROVE  /\ px.z \in Nat /\ px.z \in 0..TqTreeLevel
           /\ TileBits \in Nat \ {0} /\ px.z + TileBits \in 2..TqTreeLevel
           /\ px.z + TileBits \in 0..TqTreeLevel
           /\ px.x \in 0..Pow2[px.z] - 1 /\ px.y \in 0..Pow2[px.z] - 1
           /\ px.i \in 0..Size - 1 /\ px.j \in 0..Size - 1
           /\ Size \in Nat \ {0} /\ Pow2[px.z] \in Nat \ {0}
<1>1. PICK z \in Zooms : px \in [z : {z}, x : 0..Pow2[z] - 1, y : 0..Pow2[z] - 1,
                                 i : 0..Size - 1, j : 0..Size - 1]
  BY DEF Pixels
<1>2. px.z = z
  BY <1>1
<1>3. TileBits \in Nat \ {0} /\ z \in Nat /\ z + TileBits \in 2..TqTreeLevel /\ TqTreeLevel \in Nat
  BY ZoomAssumption, LevelAssumption
<1>4. z \in 0..TqTreeLevel /\ z + TileBits \in 0..TqTreeLevel
  BY <1>3
<1>5. Size \in Nat \ {0} /\ Pow2[z] \in Nat \ {0}
  BY <1>3, Pow2Definition DEF Size
<1> HIDE DEF Size
<1>6. /\ px.x \in 0..Pow2[z] - 1 /\ px.y \in 0..Pow2[z] - 1
      /\ px.i \in 0..Size - 1 /\ px.j \in 0..Size - 1
  BY <1>1
<1> QED
  BY <1>2, <1>3, <1>4, <1>5, <1>6

\* The widths of a pixel and of its tile: whole numbers, and even.
LEMMA Widths ==
    ASSUME NEW px \in Pixels
    PROVE  LET u == Width \div Pow2[px.z]
           IN  /\ Rz(px) \in Nat \ {0} /\ u \in Nat \ {0}
               /\ Rz(px) * Pow2[px.z + TileBits] = Width
               /\ u * Pow2[px.z] = Width
               /\ Rz(px) * Size = u
               /\ Pow2[px.z + TileBits] = Size * Pow2[px.z]
               /\ \E h \in Nat \ {0} : Rz(px) = 2 * h
<1> DEFINE u == Width \div Pow2[px.z]
           R == Rz(px)
           A == Pow2[px.z]
<1>1. /\ px.z \in 0..TqTreeLevel /\ px.z + TileBits \in 0..TqTreeLevel
      /\ px.z \in Nat /\ TileBits \in Nat /\ Size \in Nat
  BY PixelFields
<1>2. u \in Nat \ {0} /\ u * A = Width /\ A \in Nat \ {0}
  BY <1>1, LevelWidth
<1>3. /\ R \in Nat \ {0} /\ R * Pow2[px.z + TileBits] = Width
      /\ \E h \in Nat \ {0} : R = 2 * h
  BY <1>1, LevelWidth DEF Rz
<1>4. Pow2[px.z + TileBits] = A * Size
  BY <1>1, Pow2Sum DEF Size
<1> HIDE DEF u, R, A
<1>5. A * Size = Size * A
  BY <1>1, <1>2
<1>6. (R * Size) * A = u * A
  <2>1. (R * Size) * A = R * (Size * A)
    BY <1>1, <1>2, <1>3
  <2> QED
    BY <1>2, <1>3, <1>4, <1>5, <2>1
<1>7. R * Size = u
  <2>1. R * Size \in Nat
    BY <1>1, <1>3
  <2> QED
    BY <1>2, <1>6, <2>1, Cancel
<1> QED
  BY <1>2, <1>3, <1>4, <1>5, <1>7 DEF u, R, A

\* A tile is the square of a node.
LEMMA TileNode ==
    ASSUME NEW px \in Pixels
    PROVE  \E p \in Paths : Len(p) = px.z /\ Box[p] = TileBox(px.z, px.x, px.y)
<1> DEFINE u == Width \div Pow2[px.z]
           A == Pow2[px.z]
           x == px.x
           y == px.y
           j == A - 1 - y
<1>1. /\ px.z \in Nat /\ px.z \in 0..TqTreeLevel /\ A \in Nat \ {0}
      /\ x \in 0..A - 1 /\ y \in 0..A - 1
  BY PixelFields
<1>2. u \in Nat \ {0} /\ u * A = Width
  BY Widths
<1>3. <<>> \in Paths /\ Len(<<>>) = 0 /\ Box[<<>>] = World
  BY RootIsPath, BoxDefinition
<1>4. TileBox(px.z, px.x, px.y) = [x |-> x * u, y |-> Width - (y + 1) * u, w |-> u]
  BY DEF TileBox
<1>5. j \in 0..A - 1
  BY <1>1
<1> HIDE DEF u, A, x, y, j
<1>6. Width - (y + 1) * u = j * u
  <2>1. j = A - (y + 1) /\ y + 1 \in Int
    BY <1>1 DEF j
  <2>2. j * u = A * u - (y + 1) * u
    BY <1>1, <1>2, <2>1
  <2>3. A * u = u * A
    BY <1>1, <1>2
  <2> QED
    BY <1>2, <2>2, <2>3
<1>7. Cell(World, u, x, j) = [x |-> x * u, y |-> j * u, w |-> u]
  <2>1. x * u \in Int /\ j * u \in Int
    BY <1>1, <1>2, <1>5
  <2>2. 0 + x * u = x * u /\ 0 + j * u = j * u
    BY <2>1
  <2> QED
    BY <2>2 DEF Cell, World
<1>8. World.w = Width
  BY DEF World
<1>9. \E p \in Paths : Len(p) = px.z /\ Box[p] = Cell(World, u, x, j)
  <2>0. PICK o \in Paths : Len(o) = 0 /\ Box[o] = World
    BY <1>3
  <2>1. Len(o) + px.z <= TqTreeLevel /\ Len(o) + px.z = px.z
    BY <1>1, <2>0, LevelAssumption
  <2>2. u * Pow2[px.z] = Box[o].w
    BY <1>2, <1>8, <2>0 DEF A
  <2>3. x \in 0..Pow2[px.z] - 1 /\ j \in 0..Pow2[px.z] - 1
    BY <1>1, <1>5 DEF A
  <2>4. px.z \in Nat /\ u \in Nat \ {0} /\ Len(o) + px.z <= TqTreeLevel
    BY <1>1, <1>2, <2>1
  <2>5. \E p \in Paths : /\ Len(p) = Len(o) + px.z /\ Above(p, Len(o)) = o
                         /\ Box[p] = Cell(Box[o], u, x, j)
    <3> DEFINE n == px.z
    <3>1. /\ n \in Nat /\ u \in Nat \ {0} /\ Len(o) + n <= TqTreeLevel /\ u * Pow2[n] = Box[o].w
          /\ x \in 0..Pow2[n] - 1 /\ j \in 0..Pow2[n] - 1
      BY <2>2, <2>3, <2>4
    <3> HIDE DEF n
    <3>2. \E p \in Paths : /\ Len(p) = Len(o) + n /\ Above(p, Len(o)) = o
                           /\ Box[p] = Cell(Box[o], u, x, j)
      BY <3>1, Grid
    <3> QED
      BY <3>2 DEF n
  <2> QED
    BY <2>0, <2>1, <2>5
<1> QED
  BY <1>4, <1>6, <1>7, <1>9

\* A neighbour of a pixel, and the pixel itself (for an offset of 0), as a cell
\* of the world and of the tile.
LEMMA BesideCell ==
    ASSUME NEW px \in Pixels, NEW a \in Int, NEW b \in Int
    PROVE  LET R == Rz(px)
           IN  /\ Beside(px, <<a, b>>) = [x |-> PixelBox(px).x + a * R,
                                          y |-> PixelBox(px).y + b * R, w |-> R]
               /\ Beside(px, <<a, b>>) = Cell(TileBox(px.z, px.x, px.y), R,
                                              px.j + a, Size - 1 - px.i + b)
               /\ \E i \in Int, j \in Int : Beside(px, <<a, b>>) = Cell(World, R, i, j)
<1> DEFINE R == Rz(px)
           u == Width \div Pow2[px.z]
           M == Size
           N == Pow2[px.z + TileBits]
           x == px.x
           y == px.y
           i == px.i
           j == px.j
           g == M * x + j
           v == M * y + i + 1
<1>1. x \in Int /\ y \in Int /\ i \in Int /\ j \in Int /\ M \in Int /\ px.z + TileBits \in Nat
  BY PixelFields
<1>2. R \in Nat /\ R * N = Width /\ R * M = u /\ u \in Nat /\ N \in Nat
  <2>1. N \in Nat
    BY <1>1, Pow2Definition
  <2> QED
    BY <2>1, Widths
<1>3. PixelBox(px) = [x |-> g * R, y |-> Width - v * R, w |-> R]
  BY DEF PixelBox
<1>4. Beside(px, <<a, b>>) = [x |-> g * R + a * R, y |-> (Width - v * R) + b * R, w |-> R]
  <2>1. PixelBox(px).x = g * R /\ PixelBox(px).y = Width - v * R
    BY <1>3
  <2> QED
    BY <2>1 DEF Beside
<1>5. TileBox(px.z, px.x, px.y) = [x |-> x * u, y |-> Width - (y + 1) * u, w |-> u]
  BY DEF TileBox
<1>6. Cell(TileBox(px.z, px.x, px.y), R, j + a, M - 1 - i + b)
        = [x |-> x * u + (j + a) * R, y |-> (Width - (y + 1) * u) + (M - 1 - i + b) * R, w |-> R]
  BY <1>5 DEF Cell
<1>7. g \in Int /\ v \in Int /\ Width \in Int
  BY <1>1, WidthAssumption
<1> HIDE DEF R, u, M, N, x, y, i, j
<1>8. x * u = (M * x) * R
  <2>1. x * (R * M) = (M * x) * R
    BY <1>1, <1>2
  <2> QED
    BY <1>2, <2>1
<1>9. g * R + a * R = x * u + (j + a) * R
  <2>1. g * R = (M * x) * R + j * R
    <3>1. M * x \in Int
      BY <1>1
    <3> QED
      BY <1>1, <1>2, <3>1
  <2>2. (j + a) * R = j * R + a * R
    BY <1>1, <1>2
  <2>3. (M * x) * R \in Int /\ j * R \in Int /\ a * R \in Int
    BY <1>1, <1>2
  <2> QED
    BY <1>8, <2>1, <2>2, <2>3
<1>10. (Width - v * R) + b * R = (Width - (y + 1) * u) + (M - 1 - i + b) * R
  <2> DEFINE P == M * y
  <2>1. P \in Int
    BY <1>1
  <2>2. (y + 1) * u = P * R + M * R
    <3>1. (y + 1) * u = y * u + u
      BY <1>1, <1>2
    <3>2. y * (R * M) = (M * y) * R
      BY <1>1, <1>2
    <3>3. R * M = M * R
      BY <1>1, <1>2
    <3> QED
      BY <1>2, <3>1, <3>2, <3>3
  <2> HIDE DEF P
  <2>3. v = P + (i + 1)
    BY <1>1, <2>1 DEF P
  <2> HIDE DEF v
  <2>4. v * R = P * R + (i + 1) * R
    BY <1>1, <1>2, <2>1, <2>3
  <2>5. (M - 1 - i + b) * R = (M * R - (i + 1) * R) + b * R
    <3>1. M - 1 - i + b = (M - (i + 1)) + b
      BY <1>1
    <3>2. ((M - (i + 1)) + b) * R = (M - (i + 1)) * R + b * R
      BY <1>1, <1>2
    <3>3. (M - (i + 1)) * R = M * R - (i + 1) * R
      BY <1>1, <1>2
    <3> QED
      BY <3>1, <3>2, <3>3
  <2>6. P * R \in Int /\ M * R \in Int /\ (i + 1) * R \in Int /\ b * R \in Int
    BY <1>1, <1>2, <2>1
  <2> QED
    BY <1>7, <2>2, <2>4, <2>5, <2>6
<1>11. Cell(World, R, g + a, (N - v) + b)
         = [x |-> g * R + a * R, y |-> (Width - v * R) + b * R, w |-> R]
  <2> HIDE DEF g, v
  <2>1. Cell(World, R, g + a, (N - v) + b)
          = [x |-> 0 + (g + a) * R, y |-> 0 + ((N - v) + b) * R, w |-> R]
    BY DEF Cell, World
  <2>2. 0 + (g + a) * R = g * R + a * R
    BY <1>2, <1>7
  <2>3. 0 + ((N - v) + b) * R = (Width - v * R) + b * R
    <3>1. ((N - v) + b) * R = (N - v) * R + b * R
      BY <1>2, <1>7
    <3>2. (N - v) * R = N * R - v * R /\ N * R = R * N
      BY <1>2, <1>7
    <3>3. N * R \in Int /\ v * R \in Int /\ b * R \in Int
      BY <1>2, <1>7
    <3> QED
      BY <1>2, <3>1, <3>2, <3>3
  <2> QED
    BY <2>1, <2>2, <2>3
<1>12. g + a \in Int /\ (N - v) + b \in Int
  BY <1>2, <1>7
<1> HIDE DEF g, v
<1>13. PixelBox(px).x = g * R /\ PixelBox(px).y = Width - v * R
  BY <1>3
<1>14. Beside(px, <<a, b>>) = Cell(TileBox(px.z, px.x, px.y), R, j + a, M - 1 - i + b)
  BY <1>4, <1>6, <1>9, <1>10
<1>15. \E k \in Int, l \in Int : Beside(px, <<a, b>>) = Cell(World, R, k, l)
  BY <1>4, <1>11, <1>12
<1> QED
  BY <1>4, <1>13, <1>14, <1>15 DEF R, M, i, j

(***************************************************************************)
(* Where the lookups end up.                                               *)
(***************************************************************************)
LEMMA NoNodeIsNone == NoNode \notin Paths /\ NoNode # <<>>
<1>1. NoNode[1] = 0 /\ Len(NoNode) = 1
  BY DEF NoNode
<1>2. ASSUME NoNode \in Seq(Quads) PROVE FALSE
  <2>1. NoNode[1] \in Quads
    BY <1>1, <1>2, ElementOfSeq
  <2> QED
    BY <1>1, <2>1 DEF Quads
<1>3. Len(<<>>) = 0
  OBVIOUS
<1> QED
  BY <1>1, <1>2, <1>3, PathsAreSequences

\* A descent towards the centre of a node's square ends at that node.
LEMMA DescentTo ==
    ASSUME NEW p \in Paths, NEW o, NEW n \in Nat, Len(p) = Len(o) + n, Above(p, Len(o)) = o,
           Len(o) \in Nat
    PROVE  Down(o, Box[o], Centre(Box[p]), n) = p
<1>1. p \in Seq(Quads) /\ Len(p) \in Nat
  BY CentreOwn
<1>2. Len(o) \in 0..Len(p) /\ n \in 0..Len(p) - Len(o)
  BY <1>1
<1>3. Down(Above(p, Len(o)), Box[Above(p, Len(o))], Centre(Box[p]), n) = Above(p, Len(o) + n)
  BY <1>2, Descent
<1>4. Above(p, Len(o) + n) = p
  BY <1>1, AboveSelf
<1> QED
  BY <1>3, <1>4

\* A lookup for the square c gives node: that of c if t has it, else none.
Finds(node, px, t, c) ==
    \/ node = NoNode /\ \A p \in Paths : Box[p] # c
    \/ \E p \in Paths : Len(p) = px.z + TileBits /\ Box[p] = c /\ node = IfThere(t, p)

\* Wherever a lookup for a square starts, it finds the node whose square it is.
LEMMA Located ==
    ASSUME NEW px \in Pixels, NEW t, NEW seek \in Paths, NEW n \in Nat,
           Len(seek) + n = px.z + TileBits,
           NEW c, IsCell(seek, n, c), IsCell(<<>>, px.z + TileBits, c)
    PROVE  Finds(LocatePixNode(t, px.z, seek, Box[seek], Centre(c)), px, t, c)
<1> DEFINE pt == Centre(c)
           L == px.z + TileBits
           node == LocatePixNode(t, px.z, seek, Box[seek], pt)
<1>1. /\ L \in Nat /\ L <= TqTreeLevel /\ L = TileBits + px.z /\ L - Len(seek) = n
      /\ Len(seek) \in Nat /\ seek \in Seq(Quads)
  <2>1. px.z \in Nat /\ TileBits \in Nat /\ L \in 0..TqTreeLevel
    BY PixelFields
  <2>2. Len(seek) \in Nat /\ seek \in Seq(Quads)
    BY CentreOwn
  <2> QED
    BY <2>1, <2>2
<1>4. node = CASE ~IsInMBR(pt, Rectangle(World)) -> NoNode
               [] IsInMBR(pt, Rectangle(World)) /\ IsInMBR(pt, Rectangle(Box[seek])) ->
                    IfThere(t, Down(seek, Box[seek], pt, n))
               [] IsInMBR(pt, Rectangle(World)) /\ ~IsInMBR(pt, Rectangle(Box[seek])) ->
                    IfThere(t, Down(<<>>, World, pt, L))
  BY <1>1 DEF LocatePixNode, Rectangle
<1> HIDE DEF L, node
<1>5. CASE ~IsInMBR(pt, Rectangle(World))
  <2>1. node = NoNode
    BY <1>4, <1>5
  <2>2. ASSUME NEW p \in Paths, Box[p] = c PROVE FALSE
    <3>1. /\ pt \in Locations /\ StrictlyIn(Box[p], pt) /\ Box[p] \in Squares
          /\ p \in Seq(Quads) /\ Len(p) \in Nat
      BY <2>2, CentreOwn
    <3>2. Within(Box[p], Box[Above(p, 0)]) /\ Above(p, 0) = <<>>
      <4>1. 0 \in 0..Len(p)
        BY <3>1
      <4> QED
        BY <3>1, <4>1, BoxWithin, AboveProperties, EmptySeq
    <3>3. Box[<<>>] = World /\ Box[<<>>] \in Squares
      BY BoxDefinition, RootIsPath, BoxSize
    <3>4. StrictlyIn(World, pt)
      BY <3>1, <3>2, <3>3, StrictlyWithin
    <3>5. /\ World.x \in Int /\ World.y \in Int /\ World.w \in Int /\ pt.x \in Int /\ pt.y \in Int
      BY <3>1, <3>3 DEF Squares, Locations
    <3> HIDE DEF pt
    <3> QED
      BY <1>5, <3>4, <3>5 DEF StrictlyIn, IsInMBR, Rectangle
  <2> QED
    BY <2>1, <2>2 DEF node, Finds
<1>6. CASE IsInMBR(pt, Rectangle(World)) /\ IsInMBR(pt, Rectangle(Box[seek]))
  <2>1. node = IfThere(t, Down(seek, Box[seek], pt, n))
    BY <1>4, <1>6
  <2>2. NodeBelow(seek, n, c)
    <3>1. Len(seek) + n <= TqTreeLevel
      BY <1>1 DEF L
    <3>2. CentreIn(seek, c)
      BY <1>6 DEF CentreIn
    <3> QED
      BY <3>1, <3>2, CellIsNode
  <2>3. PICK p \in Paths : Len(p) = Len(seek) + n /\ Above(p, Len(seek)) = seek /\ Box[p] = c
    BY <2>2 DEF NodeBelow
  <2>4. Box[p] = c /\ Len(p) = L
    BY <2>3 DEF L
  <2>5. Down(seek, Box[seek], pt, n) = p
    BY <1>1, <2>3, <2>4, DescentTo
  <2> QED
    BY <2>1, <2>4, <2>5 DEF node, L, Finds
<1>7. CASE IsInMBR(pt, Rectangle(World)) /\ ~IsInMBR(pt, Rectangle(Box[seek]))
  <2>1. node = IfThere(t, Down(<<>>, World, pt, L))
    BY <1>4, <1>7
  <2>2. PICK o \in Paths : o = <<>> /\ Len(o) = 0 /\ Box[o] = World
    BY RootIsPath, BoxDefinition
  <2>3. NodeBelow(o, L, c)
    <3>1. Len(o) + L <= TqTreeLevel
      BY <1>1, <2>2
    <3>2. CentreIn(o, c) /\ IsCell(o, L, c)
      BY <1>7, <2>2 DEF CentreIn, L
    <3> QED
      BY <1>1, <3>1, <3>2, CellIsNode
  <2>4. PICK p \in Paths : Len(p) = Len(o) + L /\ Above(p, Len(o)) = o /\ Box[p] = c
    BY <2>3 DEF NodeBelow
  <2>5. Box[p] = c /\ Len(p) = L
    BY <1>1, <2>2, <2>4
  <2>6. Down(o, Box[o], pt, L) = p
    <3>1. Len(o) \in Nat
      BY <2>2
    <3> QED
      BY <1>1, <2>4, <2>5, <3>1, DescentTo, SMTT(30)
  <2> QED
    BY <2>1, <2>2, <2>5, <2>6 DEF node, L, Finds
<1> QED
  BY <1>5, <1>6, <1>7 DEF node, L, Finds

\* The square beside a pixel is a cell of the grid of its tile and of the
\* world.
LEMMA BesideIsCell ==
    ASSUME NEW px \in Pixels, NEW a \in Int, NEW b \in Int,
           NEW p \in Paths, Box[p] = TileBox(px.z, px.x, px.y)
    PROVE  /\ IsCell(p, TileBits, Beside(px, <<a, b>>))
           /\ IsCell(<<>>, px.z + TileBits, Beside(px, <<a, b>>))
<1> DEFINE R == Rz(px)
           c == Beside(px, <<a, b>>)
           i1 == px.j + a
           j1 == Size - 1 - px.i + b
           L == px.z + TileBits
<1>1. /\ R \in Nat \ {0} /\ R * Pow2[L] = Width /\ R * Size = Width \div Pow2[px.z]
      /\ \E h \in Nat \ {0} : R = 2 * h
  BY Widths
<1>2. PICK h \in Nat \ {0} : R = 2 * h
  BY <1>1
<1>3. /\ c = Cell(Box[p], R, i1, j1)
      /\ \E i \in Int, j \in Int : c = Cell(World, R, i, j)
  BY BesideCell, ZenonT(60)
<1>4. i1 \in Int /\ j1 \in Int
  BY PixelFields
<1>5. Box[p].w = Width \div Pow2[px.z]
  BY DEF TileBox
<1>6. Box[<<>>] = World /\ World.w = Width
  BY BoxDefinition DEF World
<1> HIDE DEF R, c, i1, j1, L
<1>7. IsCell(p, TileBits, c)
  <2>1. 2 * h * Pow2[TileBits] = Box[p].w
    BY <1>1, <1>2, <1>5 DEF Size
  <2>2. c = Cell(Box[p], 2 * h, i1, j1)
    BY <1>2, <1>3
  <2> QED
    BY <1>4, <2>1, <2>2 DEF IsCell
<1>8. IsCell(<<>>, L, c)
  <2>1. 2 * h * Pow2[L] = Box[<<>>].w
    BY <1>1, <1>2, <1>6
  <2>2. PICK i \in Int, j \in Int : c = Cell(World, R, i, j)
    BY <1>3
  <2>3. c = Cell(Box[<<>>], 2 * h, i, j)
    BY <1>2, <1>6, <2>2
  <2> QED
    BY <2>1, <2>3 DEF IsCell
<1> QED
  BY <1>7, <1>8 DEF c, L

\* A tile is found exactly when its node is in the tree.
LEMMA TileLookup ==
    ASSUME NEW px \in Pixels
    PROVE  \E p \in Paths : /\ Len(p) = px.z /\ Box[p] = TileBox(px.z, px.x, px.y)
                            /\ \A t : LocateTileNode(t, px.z, px.x, px.y) = IfThere(t, p)
<1>1. PICK p \in Paths : Len(p) = px.z /\ Box[p] = TileBox(px.z, px.x, px.y)
  BY TileNode
<1>2. p \in Seq(Quads) /\ Len(p) \in Nat
  BY CentreOwn
<1>3. PICK o \in Paths : o = <<>> /\ Len(o) = 0 /\ Box[o] = World
  BY RootIsPath, BoxDefinition
<1>4. Above(p, Len(o)) = o
  <2>1. 0 \in 0..Len(p)
    BY <1>2
  <2> QED
    BY <1>2, <1>3, <2>1, AboveProperties, EmptySeq
<1>5. Len(o) \in Nat /\ px.z \in Nat /\ Len(p) = Len(o) + px.z
  BY <1>1, <1>2, <1>3
<1>6. Down(o, Box[o], Centre(Box[p]), px.z) = p
  BY <1>4, <1>5, DescentTo
<1>7. Down(<<>>, World, Centre(TileBox(px.z, px.x, px.y)), px.z) = p
  BY <1>1, <1>3, <1>6
<1> QED
  BY <1>1, <1>7 DEF LocateTileNode

\* Where the lookups of a pixel start.
LEMMA Start ==
    ASSUME NEW px \in Pixels, ~Blank(px)
    PROVE  \E s \in Paths, n \in Nat :
              /\ Seek(px) = s /\ SeekBox(px) = Box[s] /\ Len(s) + n = px.z + TileBits
              /\ feature_type # "polygon" => /\ s \in DOMAIN tree /\ n = TileBits
                                             /\ Box[s] = TileBox(px.z, px.x, px.y)
              /\ \A a \in Int, b \in Int : /\ IsCell(s, n, Beside(px, <<a, b>>))
                                           /\ IsCell(<<>>, px.z + TileBits, Beside(px, <<a, b>>))
<1>1. PICK p \in Paths : /\ Len(p) = px.z /\ Box[p] = TileBox(px.z, px.x, px.y)
                         /\ \A t : LocateTileNode(t, px.z, px.x, px.y) = IfThere(t, p)
  BY TileLookup
<1>2. \A a \in Int, b \in Int : /\ IsCell(p, TileBits, Beside(px, <<a, b>>))
                                /\ IsCell(<<>>, px.z + TileBits, Beside(px, <<a, b>>))
  BY <1>1, BesideIsCell
<1>3. TileBits \in Nat /\ px.z + TileBits \in Nat
  BY PixelFields
<1>4. CASE feature_type = "polygon"
  <2>1. Seek(px) = <<>> /\ SeekBox(px) = World
    BY <1>4 DEF Seek, SeekBox
  <2>2. <<>> \in Paths /\ Box[<<>>] = World /\ Len(<<>>) = 0
    BY RootIsPath, BoxDefinition
  <2>3. Len(<<>>) + (px.z + TileBits) = px.z + TileBits
    BY <1>3, <2>2
  <2> QED
    BY <1>2, <1>3, <1>4, <2>1, <2>2, <2>3
<1>5. CASE feature_type # "polygon"
  <2>1. Seek(px) = IfThere(tree, p) /\ SeekBox(px) = Box[p]
    BY <1>1, <1>5 DEF Seek, SeekBox
  <2>2. p \in DOMAIN tree /\ Seek(px) = p
    BY <2>1 DEF Blank, IfThere
  <2>3. Len(p) + TileBits = px.z + TileBits
    BY <1>1
  <2> QED
    BY <1>1, <1>2, <1>3, <2>1, <2>2, <2>3
<1> QED
  BY <1>4, <1>5

\* A neighbour is found exactly when the node whose square it is is in the tree.
LEMMA FloorIs ==
    ASSUME NEW px \in Pixels, ~Blank(px), NEW k \in 1..8
    PROVE  Finds(NodeFloor(px, Neighbours[k]), px, tree, Beside(px, Neighbours[k]))
<1> DEFINE d == Neighbours[k]
           c == Beside(px, d)
<1>1. d[1] \in Int /\ d[2] \in Int /\ d = <<d[1], d[2]>>
  BY NeighbourOffsets
<1> HIDE DEF d
<1>2. PICK s \in Paths, n \in Nat :
         /\ Seek(px) = s /\ SeekBox(px) = Box[s] /\ Len(s) + n = px.z + TileBits
         /\ \A a \in Int, b \in Int : /\ IsCell(s, n, Beside(px, <<a, b>>))
                                      /\ IsCell(<<>>, px.z + TileBits, Beside(px, <<a, b>>))
  BY Start
<1>3. IsCell(s, n, c) /\ IsCell(<<>>, px.z + TileBits, c)
  BY <1>1, <1>2
<1>4. NodeFloor(px, d) = LocatePixNode(tree, px.z, s, Box[s], Centre(c))
  BY <1>2 DEF NodeFloor
<1> HIDE DEF c
<1>6. Len(s) + n = px.z + TileBits
  BY <1>2
<1>5. Finds(LocatePixNode(tree, px.z, s, Box[s], Centre(c)), px, tree, c)
  BY <1>3, <1>6, Located
<1> QED
  BY <1>4, <1>5 DEF c, d

(***************************************************************************)
(* The lookup of the tile's border and beyond finds the right node.        *)
(***************************************************************************)
BlankInv == pixel # NoPixel /\ Blank(pixel) => value = 0 /\ visited = 8

\* The invariant gives NodesFound.
LEMMA NodesFoundHolds == TypesOK /\ BlankInv => NodesFound
<1> SUFFICES ASSUME TypesOK, BlankInv, pixel # NoPixel, ~Done
             PROVE  LET d == Neighbours[visited + 1]
                    IN  {p \in DOMAIN tree : Box[p] = Beside(pixel, d)}
                           = {NodeFloor(pixel, d)} \ {NoNode}
  BY DEF NodesFound
<1>1. pixel \in Pixels /\ visited + 1 \in 1..8 /\ DOMAIN tree \subseteq Paths
  BY NeighbourOffsets DEF TypesOK, TypeOK, PlotTypeOK, Done
<1>2. ~Blank(pixel)
  BY NeighbourOffsets DEF BlankInv, Done
<1> DEFINE k == visited + 1
           c == Beside(pixel, Neighbours[k])
           node == NodeFloor(pixel, Neighbours[k])
<1>3. \/ node = NoNode /\ \A p \in Paths : Box[p] # c
      \/ \E p \in Paths : Len(p) = pixel.z + TileBits /\ Box[p] = c /\ node = IfThere(tree, p)
  BY <1>1, <1>2, FloorIs DEF Finds
<1> HIDE DEF c, node
<1>4. {p \in DOMAIN tree : Box[p] = c} = {node} \ {NoNode}
  <2>1. CASE node = NoNode /\ \A p \in Paths : Box[p] # c
    BY <1>1, <2>1
  <2>2. ASSUME NEW p \in Paths, Box[p] = c, node = IfThere(tree, p)
        PROVE  {o \in DOMAIN tree : Box[o] = c} = {node} \ {NoNode}
    <3>1. \A o \in DOMAIN tree : Box[o] = c <=> o = p
      BY <1>1, <2>2, BoxInjective
    <3>2. CASE p \in DOMAIN tree
      <4>1. node = p /\ p # NoNode
        BY <2>2, <3>2, NoNodeIsNone DEF IfThere
      <4> QED
        BY <3>1, <3>2, <4>1
    <3>3. CASE p \notin DOMAIN tree
      <4>1. node = NoNode
        BY <2>2, <3>3 DEF IfThere
      <4> QED
        BY <3>1, <3>3, <4>1
    <3> QED
      BY <3>2, <3>3
  <2> QED
    BY <1>3, <2>1, <2>2
<1> QED
  BY <1>4 DEF c, node

\* The invariant of the pixels left blank holds at the start.
LEMMA BlankInit == PlotInit => BlankInv
BY DEF PlotInit, BlankInv

\* Every step keeps the invariant of the pixels left blank.
LEMMA BlankNext == TypesOK /\ BlankInv /\ [PlotNext]_allVars => BlankInv'
<1> SUFFICES ASSUME TypesOK, BlankInv, [PlotNext]_allVars
             PROVE  BlankInv'
  OBVIOUS
<1>1. CASE Build
  BY <1>1 DEF Build, plotVars, BlankInv
<1>2. ASSUME NEW px \in Pixels, Begin(px)
      PROVE  BlankInv'
  <2>1. Blank(pixel)' = Blank(px)
    BY <1>2, Unchanged DEF Begin
  <2>2. Blank(px) => OwnValue(px) = 0
    BY DEF OwnValue
  <2> QED
    BY <1>2, <2>1, <2>2, NeighbourOffsets DEF Begin, BlankInv
<1>3. CASE Visit
  <2>1. Blank(pixel)' = Blank(pixel) /\ pixel' = pixel
    BY <1>3, Unchanged DEF Visit
  <2>2. ~Blank(pixel)
    BY <1>3, NeighbourOffsets DEF Visit, Done, BlankInv
  <2> QED
    BY <2>1, <2>2 DEF BlankInv
<1>4. CASE UNCHANGED allVars
  <2>1. Blank(pixel)' = Blank(pixel) /\ UNCHANGED plotVars
    BY <1>4, Unchanged DEF allVars, vars, plotVars
  <2> QED
    BY <2>1 DEF BlankInv, plotVars
<1> QED
  BY <1>1, <1>2, <1>3, <1>4 DEF PlotNext

\* On either side of a tile's border, at its corners and at the edge of the
\* world, the node a pixel is sampled with is the neighbour's and nothing else's.
THEOREM NodesFoundCorrect == PlotSpec => []NodesFound
<1>1. PlotInit => TypesOK /\ BlankInv
  BY PlotTypesInit, BlankInit
<1>2. TypesOK /\ BlankInv /\ [PlotNext]_allVars => (TypesOK /\ BlankInv)'
  BY PlotTypesNext, BlankNext
<1>3. TypesOK /\ BlankInv => NodesFound
  BY NodesFoundHolds
<1> QED
  BY <1>1, <1>2, <1>3, PTL DEF PlotSpec

(***************************************************************************)
(* The pixel's own node.                                                   *)
(***************************************************************************)
PixNode(px) == CHOOSE p \in Paths : Box[p] = PixelBox(px)

\* The node of a pixel, below the node of its tile.
LEMMA PixelNode ==
    ASSUME NEW px \in Pixels
    PROVE  LET p == PixNode(px)
           IN  /\ p \in Paths /\ Len(p) = px.z + TileBits /\ Len(p) > 1 /\ p \in PixelNodes
               /\ Box[p] = PixelBox(px)
               /\ Above(p, px.z) \in Paths /\ Len(Above(p, px.z)) = px.z
               /\ Box[Above(p, px.z)] = TileBox(px.z, px.x, px.y)
<1>1. PICK o \in Paths : Len(o) = px.z /\ Box[o] = TileBox(px.z, px.x, px.y)
  BY TileNode
<1> DEFINE R == Rz(px)
           i1 == px.j + 0
           j1 == Size - 1 - px.i + 0
<1>2. /\ px.z \in Nat /\ TileBits \in Nat /\ px.z + TileBits \in 2..TqTreeLevel
      /\ px.i \in 0..Size - 1 /\ px.j \in 0..Size - 1 /\ Size \in Nat
  BY PixelFields
<1>3. i1 \in 0..Size - 1 /\ j1 \in 0..Size - 1 /\ i1 \in Int /\ j1 \in Int
  BY <1>2
<1>4. R \in Nat \ {0} /\ R * Size = Box[o].w
  BY <1>1, Widths DEF TileBox
<1>5. PixelBox(px) = Cell(Box[o], R, i1, j1)
  <2>1. Beside(px, <<0, 0>>) = [x |-> PixelBox(px).x + 0 * R, y |-> PixelBox(px).y + 0 * R, w |-> R]
    BY BesideCell
  <2>0. \A a \in Int, b \in Int :
            Beside(px, <<a, b>>) = Cell(Box[o], R, px.j + a, Size - 1 - px.i + b)
    <3>1. \A a \in Int, b \in Int :
             Beside(px, <<a, b>>) = Cell(TileBox(px.z, px.x, px.y), R,
                                         px.j + a, Size - 1 - px.i + b)
      BY BesideCell, Zenon
    <3> QED
      BY <1>1, <3>1, Zenon
  <2>2. Beside(px, <<0, 0>>) = Cell(Box[o], R, i1, j1)
    <3>1. 0 \in Int
      OBVIOUS
    <3> QED
      BY <2>0, <3>1, Zenon
  <2> DEFINE X == (Size * px.x + px.j) * R
             Y == Width - (Size * px.y + px.i + 1) * R
  <2>3. PixelBox(px) = [x |-> X, y |-> Y, w |-> R]
    BY DEF PixelBox
  <2>4. X \in Int /\ Y \in Int /\ 0 * R = 0
    <3>1. px.x \in Int /\ px.y \in Int /\ Width \in Int /\ px.i \in Int /\ px.j \in Int
      BY PixelFields, WidthAssumption
    <3>2. Size * px.x + px.j \in Int /\ Size * px.y + px.i + 1 \in Int
      BY <1>2, <3>1
    <3> QED
      BY <1>4, <3>1, <3>2
  <2> HIDE DEF X, Y, R, i1, j1
  <2>5. X + 0 = X /\ Y + 0 = Y
    BY <2>4
  <2> QED
    BY <2>1, <2>2, <2>3, <2>4, <2>5
<1>6. Len(o) + TileBits <= TqTreeLevel /\ Len(o) + TileBits = px.z + TileBits
  BY <1>1, <1>2
<1> HIDE DEF R, i1, j1
<1>7. \E p \in Paths : /\ Len(p) = Len(o) + TileBits /\ Above(p, Len(o)) = o
                       /\ Box[p] = Cell(Box[o], R, i1, j1)
  <2>1. R * Pow2[TileBits] = Box[o].w
    BY <1>4 DEF Size
  <2>2. i1 \in 0..Pow2[TileBits] - 1 /\ j1 \in 0..Pow2[TileBits] - 1
    BY <1>3 DEF Size
  <2> QED
    BY <1>2, <1>4, <1>6, <2>1, <2>2, Grid
<1>8. PICK p \in Paths : /\ Len(p) = px.z + TileBits /\ Above(p, px.z) = o /\ Box[p] = PixelBox(px)
  BY <1>1, <1>5, <1>6, <1>7
<1>9. PixNode(px) = p
  <2>1. \A q \in Paths : Box[q] = PixelBox(px) => q = p
    BY <1>8, BoxInjective
  <2> QED
    BY <1>8, <2>1 DEF PixNode
<1>10. Len(p) > 1
  BY <1>2, <1>8
<1> QED
  BY <1>1, <1>8, <1>9, <1>10 DEF PixelNodes

\* What a pixel gets from its own node.
LEMMA OwnNode ==
    ASSUME NEW px \in Pixels, ~Blank(px)
    PROVE  LET p == PixNode(px)
               kind == NodeIfExistPolygon(tree, p)
           IN  /\ feature_type # "polygon" => OwnValue(px) = (IF p \in DOMAIN tree THEN 4 ELSE 0)
               /\ feature_type = "polygon" => /\ kind = "s" => OwnValue(px) = 4
                                              /\ kind = "b" => OwnValue(px) = -1
                                              /\ kind \notin {"s", "b"} => OwnValue(px) = 0
<1> DEFINE p == PixNode(px)
           pt == Centre(PixelBox(px))
<1>1. /\ p \in Paths /\ Len(p) = px.z + TileBits /\ Box[p] = PixelBox(px)
      /\ Above(p, px.z) \in Paths /\ Len(Above(p, px.z)) = px.z
      /\ Box[Above(p, px.z)] = TileBox(px.z, px.x, px.y)
  BY PixelNode
<1>2. px.z \in Nat /\ TileBits \in Nat /\ TileBits + px.z = px.z + TileBits /\ px.z + TileBits \in Nat
  BY PixelFields
<1> HIDE DEF p
<1>3. CASE feature_type = "polygon"
  <2>1. PICK o \in Paths : o = <<>> /\ Len(o) = 0 /\ Box[o] = World
    BY RootIsPath, BoxDefinition
  <2>2. Len(p) = Len(o) + (TileBits + px.z) /\ Len(o) \in Nat /\ TileBits + px.z \in Nat
    BY <1>1, <1>2, <2>1
  <2>3. Above(p, Len(o)) = o
    <3>1. p \in Seq(Quads) /\ 0 \in 0..Len(p)
      BY <1>1, <1>2, CentreOwn
    <3> QED
      BY <2>1, <3>1, AboveProperties, EmptySeq
  <2>4. Down(o, Box[o], Centre(Box[p]), TileBits + px.z) = p
    BY <1>1, <2>2, <2>3, DescentTo
  <2>5. Down(<<>>, World, pt, TileBits + px.z) = p
    BY <1>1, <2>1, <2>4
  <2> QED
    BY <1>3, <2>5 DEF OwnValue, p
<1>4. CASE feature_type # "polygon"
  <2>1. PICK s \in Paths : /\ Seek(px) = s /\ SeekBox(px) = Box[s]
                           /\ Box[s] = TileBox(px.z, px.x, px.y)
    BY <1>4, Start
  <2>2. s = Above(p, px.z)
    BY <1>1, <2>1, BoxInjective
  <2>3. Len(p) = Len(s) + TileBits /\ Len(s) \in Nat /\ Above(p, Len(s)) = s
    BY <1>1, <1>2, <2>2
  <2>4. Down(s, Box[s], Centre(Box[p]), TileBits) = p
    BY <1>1, <1>2, <2>3, DescentTo
  <2>5. NodeIfExist(tree, Seek(px), SeekBox(px), pt) <=> p \in DOMAIN tree
    BY <1>1, <2>1, <2>4 DEF NodeIfExist
  <2> QED
    BY <1>4, <2>5 DEF OwnValue, p
<1> QED
  BY <1>3, <1>4

(***************************************************************************)
(* What a pixel shows of the objects.  The invariant of the tree, whatever *)
(* it was built from, and that of the loop.                                *)
(***************************************************************************)
PlotOK == TypesOK /\ SampleInv /\ BlankInv /\ LinesOK /\ RingsOK

\* The invariant of the plot holds at the start.
LEMMA PlotInitOK == PlotInit => PlotOK
<1>1. PlotInit => Init
  BY DEF PlotInit
<1> QED
  BY <1>1, PlotTypesInit, SampleInit, BlankInit, LinesInit, RingsInit DEF PlotOK

\* Every step keeps the invariant of the plot.
LEMMA PlotNextOK == PlotOK /\ [PlotNext]_allVars => PlotOK'
<1>1. [PlotNext]_allVars => [Next]_vars
  BY DEF PlotNext, Build, Begin, Visit, allVars, vars
<1> QED
  BY <1>1, PlotTypesNext, SampleNext, BlankNext, LinesNext, RingsNext DEF PlotOK

\* With a node the tree has its ancestors.
LEMMA AncestorsInTree ==
    ASSUME NEW t, IsTree(t), DOMAIN t \subseteq Paths, NEW l \in DOMAIN t, NEW k \in 0..Len(l)
    PROVE  Above(l, k) \in DOMAIN t
<1> DEFINE S == {n \in 0..Len(l) : Above(l, Len(l) - n) \in DOMAIN t}
<1>1. l \in Seq(Quads) /\ Len(l) \in Nat
  BY CentreOwn
<1>2. 0 \in S
  <2>1. Len(l) - 0 = Len(l) /\ 0 \in 0..Len(l)
    BY <1>1
  <2> QED
    BY <1>1, <2>1, AboveSelf
<1>3. ASSUME NEW n \in 0..Len(l) - 1, n \in S PROVE n + 1 \in S
  <2> DEFINE i == Len(l) - n
             a == Above(l, i)
  <2>1. i \in 1..Len(l) /\ i \in 0..Len(l) /\ i - 1 \in 0..i /\ Len(l) - (n + 1) = i - 1
        /\ n + 1 \in 0..Len(l)
    BY <1>1
  <2>2. a \in DOMAIN t
    BY <1>3
  <2>3. Len(a) = i /\ Above(a, i - 1) = Above(l, i - 1)
    BY <1>1, <2>1, AboveProperties, AboveAbove
  <2>4. a # <<>>
    BY <2>1, <2>3
  <2>5. Above(a, Len(a) - 1) \in DOMAIN t
    BY <2>2, <2>4 DEF IsTree
  <2> QED
    BY <2>1, <2>3, <2>5
<1> HIDE DEF S
<1>4. 0..Len(l) \subseteq S
  BY <1>1, <1>2, <1>3, UpTo
<1>5. Len(l) - k \in 0..Len(l) /\ Len(l) - (Len(l) - k) = k
  BY <1>1
<1>6. Len(l) - k \in S
  BY <1>4, <1>5
<1> QED
  BY <1>5, <1>6 DEF S

\* A tile with a pixel in the tree is sampled.
LEMMA NotBlank ==
    ASSUME NEW px \in Pixels, TypeOK, PixNode(px) \in DOMAIN tree \/ feature_type = "polygon"
    PROVE  ~Blank(px)
<1> DEFINE p == PixNode(px)
<1>1. CASE feature_type = "polygon"
  <2>1. Seek(px) = <<>>
    BY <1>1 DEF Seek
  <2> QED
    BY <2>1, NoNodeIsNone DEF Blank
<1>2. CASE feature_type # "polygon"
  <2>1. PICK o \in Paths : /\ Box[o] = TileBox(px.z, px.x, px.y)
                           /\ \A t : LocateTileNode(t, px.z, px.x, px.y) = IfThere(t, o)
    BY TileLookup
  <2>2. /\ p \in Paths /\ Above(p, px.z) \in Paths /\ Len(p) = px.z + TileBits
        /\ Box[Above(p, px.z)] = TileBox(px.z, px.x, px.y)
    BY PixelNode
  <2>3. Above(p, px.z) = o
    BY <2>1, <2>2, BoxInjective
  <2>4. px.z \in 0..Len(p)
    BY <2>2, PixelFields
  <2>5. o \in DOMAIN tree
    BY <1>2, <2>3, <2>4, AncestorsInTree DEF TypeOK
  <2>6. Seek(px) = o
    BY <1>2, <2>1, <2>5 DEF Seek, IfThere
  <2> QED
    BY <2>1, <2>6, NoNodeIsNone DEF Blank
<1> QED
  BY <1>1, <1>2

\* The node of a point is in the tree at every level.
LEMMA PointNodes ==
    ASSUME TypeOK, ObjectsOK, NothingLost, feature_type = "point",
           NEW pt \in Objects, NEW p \in Paths, StrictlyIn(Box[p], pt)
    PROVE  p \in DOMAIN tree
<1> DEFINE r == MBR({pt})
<1>1. pt \in Locations /\ Box[p] \in Squares /\ p \in Seq(Quads) /\ Len(p) \in 0..TqTreeLevel
  BY CentreOwn, PointsAssumption, LevelAssumption DEF ObjectsOK
<1>2. r = [x_min |-> pt.x, x_max |-> pt.x, y_min |-> pt.y, y_max |-> pt.y]
  BY <1>1, PointMBR
<1>3. IsContain(World, r)
  <2>1. Within(Box[p], Box[Above(p, 0)]) /\ Above(p, 0) = <<>>
    <3>1. 0 \in 0..Len(p)
      BY <1>1
    <3> QED
      BY <1>1, <3>1, BoxWithin, AboveProperties, EmptySeq
  <2>2. Box[<<>>] = World /\ Box[<<>>] \in Squares
    BY BoxDefinition, RootIsPath, BoxSize
  <2>3. StrictlyIn(World, pt)
    BY <1>1, <2>1, <2>2, StrictlyWithin
  <2>4. World.x \in Int /\ World.y \in Int /\ World.w \in Int /\ pt.x \in Int /\ pt.y \in Int
    BY <1>1, <2>2 DEF Squares, Locations
  <2> QED
    BY <1>2, <2>3, <2>4 DEF StrictlyIn, IsContain
<1>4. PICK l \in DOMAIN tree : Len(l) = TqTreeLevel /\ IsContain(Box[l], r)
  BY <1>3 DEF NothingLost
<1> DEFINE o == Above(l, Len(p))
<1>5. l \in Paths /\ l \in Seq(Quads) /\ Len(p) \in 0..Len(l) /\ Box[l] \in Squares
  BY <1>1, <1>4, CentreOwn DEF TypeOK
<1>6. o \in DOMAIN tree /\ o \in Paths /\ Len(o) = Len(p) /\ Box[o] \in Squares
  BY <1>5, AncestorsInTree, AboveProperties, CentreOwn DEF TypeOK
<1>7. Holds(Box[l], pt)
  <2>1. /\ Box[l].x \in Int /\ Box[l].y \in Int /\ Box[l].w \in Int /\ pt.x \in Int /\ pt.y \in Int
    BY <1>1, <1>5 DEF Squares, Locations
  <2> QED
    BY <1>2, <1>4, <2>1 DEF Holds, IsContain
<1>8. Holds(Box[o], pt)
  BY <1>1, <1>5, <1>6, <1>7, BoxWithin, StrictlyWithin
<1>9. p = o
  BY <1>1, <1>6, <1>8, SameNode
<1> QED
  BY <1>6, <1>9

\* The invariant gives ObjectsShow.
LEMMA ObjectsShowHolds == PlotOK => ObjectsShow
<1> SUFFICES ASSUME PlotOK, Drawn, NEW object \in Objects, Shows(object, PixelBox(pixel))
             PROVE  value = 4 \/ Covered(pixel, object)
  BY DEF ObjectsShow
<1> DEFINE p == PixNode(pixel)
<1>1. /\ pixel \in Pixels /\ pixel # NoPixel /\ value \in -1..4 /\ TypeOK
      /\ feature_type \in {"point", "line", "polygon"}
  BY DEF PlotOK, TypesOK, PlotTypeOK, TypeOK, Drawn
<1>2. p \in Paths /\ p \in PixelNodes /\ Box[p] = PixelBox(pixel)
  BY <1>1, PixelNode
<1> HIDE DEF p
<1>3. ~Blank(pixel) /\ OwnValue(pixel) = 4 => value = 4
  BY <1>1 DEF PlotOK, SampleInv
<1>4. CASE feature_type = "point"
  <2>1. StrictlyIn(Box[p], object)
    BY <1>2, <1>4 DEF Shows, StrictlyIn
  <2>2. p \in DOMAIN tree
    BY <1>1, <1>2, <1>4, <2>1, PointNodes DEF PlotOK, LinesOK
  <2>3. ~Blank(pixel)
    BY <1>1, <2>2, NotBlank DEF p
  <2>4. OwnValue(pixel) = 4
    BY <1>1, <1>4, <2>2, <2>3, OwnNode DEF p
  <2> QED
    BY <1>3, <2>3, <2>4
<1>5. CASE feature_type = "line"
  <2>1. SomeSegment(Enters, object, Box[p])
    BY <1>2, <1>5 DEF Shows
  <2>2. p \in DOMAIN tree
    BY <1>2, <1>5, <2>1 DEF PlotOK, LinesOK, LinesInTree
  <2>3. ~Blank(pixel)
    BY <1>1, <2>2, NotBlank DEF p
  <2>4. OwnValue(pixel) = 4
    BY <1>1, <1>5, <2>2, <2>3, OwnNode DEF p
  <2> QED
    BY <1>3, <2>3, <2>4
<1>6. CASE feature_type = "polygon"
  <2>1. SomeSegment(Enters, object, Box[p])
    BY <1>2, <1>6 DEF Shows
  <2>2. object \in Rings
    BY <1>6 DEF PlotOK, RingsOK, ObjectsOK
  <2>3. p \in PixelNodes \cap Entered[object]
    BY <1>2, <2>1, <2>2 DEF Entered
  <2>4. ~Blank(pixel)
    BY <1>1, <1>6, NotBlank
  <2>5. NodeIfExistPolygon(tree, p) \in {"s", "b"}
    <3>1. RingsPainted
      BY RingsPaintedHolds DEF PlotOK
    <3> QED
      BY <1>6, <2>3, <3>1 DEF RingsPainted
  <2>6. CASE NodeIfExistPolygon(tree, p) = "s"
    BY <1>1, <1>3, <1>6, <2>4, <2>6, OwnNode DEF p
  <2>7. CASE NodeIfExistPolygon(tree, p) = "b"
    <3>1. RimLostOnlyInside
      BY RimLostOnlyInsideHolds DEF PlotOK
    <3>2. PICK other \in Objects \ {object} : p \in Enclosed[other]
      BY <1>6, <2>3, <2>7, <3>1 DEF RimLostOnlyInside
    <3>3. other \in Rings
      BY <1>6 DEF PlotOK, RingsOK, ObjectsOK
    <3>4. EvenOdd(Centre(Box[p]), other)
      BY <3>2, <3>3 DEF Enclosed
    <3> QED
      BY <1>2, <1>6, <3>4 DEF Covered
  <2> QED
    BY <2>5, <2>6, <2>7
<1> QED
  BY <1>1, <1>4, <1>5, <1>6

\* Whatever tile it is drawn in, a pixel with a piece of an object inside it is
\* painted in full, from the insertion of the object to the byte of the tile;
\* of a ring, unless the inside of another ring hides it.
THEOREM ObjectsShowCorrect == PlotSpec => []ObjectsShow
<1> QED
  BY PlotInitOK, PlotNextOK, ObjectsShowHolds, PTL DEF PlotSpec

(***************************************************************************)
(* Nothing is drawn far from the objects.                                  *)
(***************************************************************************)
\* What touches a square touches every square around it.
LEMMA TouchesWithin ==
    ASSUME NEW u \in Locations, NEW v \in Locations, NEW b \in Squares, NEW a \in Squares,
           Within(b, a), Touches(u, v, b)
    PROVE  Touches(u, v, a)
<1> DEFINE r == MBR({u, v})
<1>1. r \in Rects
  BY PairMBR
<1>2. /\ b.x \in Int /\ b.y \in Int /\ b.w \in Int /\ a.x \in Int /\ a.y \in Int /\ a.w \in Int
      /\ r.x_min \in Int /\ r.x_max \in Int /\ r.y_min \in Int /\ r.y_max \in Int
  BY <1>1 DEF Squares, Rects
<1>3. /\ r.x_min <= b.x + b.w /\ r.x_max >= b.x /\ r.y_min <= b.y + b.w /\ r.y_max >= b.y
  BY DEF Touches
<1> HIDE DEF r
<1>4. /\ r.x_min <= a.x + a.w /\ r.x_max >= a.x /\ r.y_min <= a.y + a.w /\ r.y_max >= a.y
  BY <1>2, <1>3 DEF Within
<1>5. ASSUME NEW c \in Corners(b) PROVE c \in Locations /\ Holds(a, c)
  BY CornerSet, StrictlyWithin
<1>6. \E c \in Corners(a) : Cross(u, v, c) >= 0
  <2>1. PICK c \in Corners(b) : Cross(u, v, c) >= 0
    BY DEF Touches
  <2>2. PICK e \in Corners(a) : Cross(u, v, e) >= Cross(u, v, c)
    BY <1>5, CornerExtremes
  <2>3. Cross(u, v, e) \in Int /\ Cross(u, v, c) \in Int
    BY <1>5, CornerSet, CrossInt
  <2> QED
    BY <2>1, <2>2, <2>3
<1>7. \E c \in Corners(a) : Cross(u, v, c) <= 0
  <2>1. PICK c \in Corners(b) : Cross(u, v, c) <= 0
    BY DEF Touches
  <2>2. PICK e \in Corners(a) : Cross(u, v, e) <= Cross(u, v, c)
    BY <1>5, CornerExtremes
  <2>3. Cross(u, v, e) \in Int /\ Cross(u, v, c) \in Int
    BY <1>5, CornerSet, CrossInt
  <2> QED
    BY <2>1, <2>2, <2>3
<1> QED
  BY <1>4, <1>6, <1>7 DEF Touches, r

\* What meets a square meets the squares around it.
LEMMA MeetsWithin ==
    ASSUME TypeOK, ObjectsOK, NEW object \in Objects, NEW b \in Squares, NEW a \in Squares,
           Within(b, a), Meets(object, b)
    PROVE  Meets(object, a)
<1>1. CASE feature_type = "point"
  <2>1. object \in Locations /\ IsContain(b, MBR({object}))
    BY <1>1, PointsAssumption DEF ObjectsOK, Meets
  <2>2. MBR({object}) = [x_min |-> object.x, x_max |-> object.x,
                         y_min |-> object.y, y_max |-> object.y]
    BY <2>1, PointMBR
  <2>3. /\ b.x \in Int /\ b.y \in Int /\ b.w \in Int /\ a.x \in Int /\ a.y \in Int /\ a.w \in Int
        /\ object.x \in Int /\ object.y \in Int
    BY <2>1 DEF Squares, Locations
  <2>4. IsContain(a, MBR({object}))
    BY <2>1, <2>2, <2>3 DEF IsContain, Within
  <2> QED
    BY <1>1, <2>4 DEF Meets
<1>2. CASE feature_type # "point"
  <2>1. object \in Seq(Locations) /\ Len(object) \in Nat
    BY <1>2, LinesAssumption, RingsAssumption, LenProperties DEF ObjectsOK, TypeOK
  <2>2. PICK j \in 1..Len(object) - 1 : Touches(object[j], object[j + 1], b)
    BY <1>2 DEF Meets, SomeSegment
  <2>3. object[j] \in Locations /\ object[j + 1] \in Locations
    BY <2>1, ElementOfSeq
  <2>4. Touches(object[j], object[j + 1], a)
    BY <2>2, <2>3, TouchesWithin
  <2> QED
    BY <1>2, <2>4 DEF Meets, SomeSegment
<1> QED
  BY <1>1, <1>2

\* The pixel and the squares beside it are within the square around it.
LEMMA AroundSquare ==
    ASSUME NEW px \in Pixels
    PROVE  /\ Around(px) \in Squares /\ PixelBox(px) \in Squares
           /\ Within(PixelBox(px), Around(px))
           /\ \A k \in 1..8 : /\ Beside(px, Neighbours[k]) \in Squares
                              /\ Within(Beside(px, Neighbours[k]), Around(px))
<1> DEFINE R == Rz(px)
           X == PixelBox(px).x
           Y == PixelBox(px).y
<1>1. R \in Nat \ {0}
  BY Widths
<1>2. PixelBox(px) \in Squares /\ PixelBox(px).w = R
  BY PixelNode, BoxSize DEF PixelBox
<1>3. X \in Int /\ Y \in Int
  BY <1>2 DEF Squares
<1>4. Around(px) = [x |-> X - R, y |-> Y - R, w |-> 3 * R]
  BY DEF Around
<1>5. \A k \in 1..8 : Beside(px, Neighbours[k])
                        = [x |-> X + Neighbours[k][1] * R, y |-> Y + Neighbours[k][2] * R, w |-> R]
  BY DEF Beside
<1> HIDE DEF R, X, Y
<1>6. Around(px) \in Squares
  BY <1>1, <1>3, <1>4 DEF Squares
<1>7. Within(PixelBox(px), Around(px))
  BY <1>1, <1>2, <1>3, <1>4 DEF Within, X, Y
<1>8. ASSUME NEW k \in 1..8
      PROVE  /\ Beside(px, Neighbours[k]) \in Squares
             /\ Within(Beside(px, Neighbours[k]), Around(px))
  <2>1. Neighbours[k][1] \in -1..1 /\ Neighbours[k][2] \in -1..1
    BY NeighbourOffsets
  <2> DEFINE A == Neighbours[k][1] * R
             B == Neighbours[k][2] * R
  <2>2. A \in {-R, 0, R} /\ B \in {-R, 0, R}
    BY <1>1, <2>1
  <2>3. Beside(px, Neighbours[k]) = [x |-> X + A, y |-> Y + B, w |-> R]
    BY <1>5
  <2> HIDE DEF A, B
  <2>4. A \in Int /\ B \in Int /\ -R <= A /\ A <= R /\ -R <= B /\ B <= R
    BY <1>1, <2>2
  <2> QED
    BY <1>1, <1>3, <1>4, <2>3, <2>4 DEF Squares, Within
<1> QED
  BY <1>2, <1>6, <1>7, <1>8

\* An object touches every node that is drawn as an object.
LEMMA NodeMeets ==
    ASSUME PlotOK, NEW q \in Paths, Len(q) > 1, q \in DOMAIN tree,
           feature_type = "polygon" => tree[q] = "s"
    PROVE  \E object \in Objects : Meets(object, Box[q])
<1>1. TypeOK /\ feature_type \in {"point", "line", "polygon"}
  BY DEF PlotOK, TypesOK, TypeOK
<1>2. q # <<>>
  BY RootIsPath
<1>3. CASE feature_type # "polygon"
  BY <1>1, <1>2, <1>3 DEF PlotOK, LinesOK, NothingInvented, Meets
<1>4. CASE feature_type = "polygon"
  <2>1. PICK ring \in Objects : Touch(ring, q)
    BY <1>4 DEF PlotOK, RingsOK, RimsTouched
  <2> QED
    BY <1>4, <2>1 DEF Touch, Meets
<1> QED
  BY <1>3, <1>4

\* A point in the node beside the pixel never fills it.
LEMMA NodeMarks ==
    ASSUME NEW k \in 1..8
    PROVE  4 \notin Marks(NodeCentre(Neighbours[k]))
<1> DEFINE o == NodeCentre(Neighbours[k])
<1>1. PICK a, b : /\ a \in {-4, 0, 4} /\ b \in {-4, 0, 4} /\ (a # 0 \/ b # 0)
                  /\ o = <<a, b>>
  BY NeighbourOffsets DEF NodeCentre
<1>2. Square(o) = a * a + b * b
  BY <1>1 DEF Square
<1>3. Square(o) \in {16, 32}
  BY <1>1, <1>2
<1>4. CASE Square(o) = 32
  BY <1>4, FarMarks DEF NoMark
<1>5. CASE Square(o) = 16
  <2>1. /\ Apart(<<1, 1>>, o) = (1 - a) * (1 - a) + (1 - b) * (1 - b)
        /\ Apart(<<-1, -1>>, o) = (-1 - a) * (-1 - a) + (-1 - b) * (-1 - b)
        /\ Apart(<<1, -1>>, o) = (1 - a) * (1 - a) + (-1 - b) * (-1 - b)
        /\ Apart(<<-1, 1>>, o) = (-1 - a) * (-1 - a) + (1 - b) * (1 - b)
    BY <1>1 DEF Apart, Square
  <2> DEFINE i1 == Adds(<<1, 1>>, o)   j1 == Adds(<<-1, -1>>, o)
             k1 == Adds(<<1, -1>>, o)  l1 == Adds(<<-1, 1>>, o)
  <2>2. Marks(o) = {i + j + kk + l : i \in i1, j \in j1, kk \in k1, l \in l1}
    BY <1>5 DEF Marks
  <2>3. i1 = {0} \/ j1 = {0}
    BY <1>1, <1>2, <1>5, <2>1 DEF Adds
  <2>4. i1 \subseteq {0, 1} /\ j1 \subseteq {0, 1} /\ k1 \subseteq {0, 1} /\ l1 \subseteq {0, 1}
    BY Zenon DEF Adds
  <2> HIDE DEF i1, j1, k1, l1
  <2>5. \A i \in i1, j \in j1, kk \in k1, l \in l1 : i + j + kk + l # 4
    BY <2>3, <2>4
  <2> QED
    BY <2>2, <2>5
<1> QED
  BY <1>3, <1>4, <1>5

\* Nor does a child.
LEMMA ChildMarksLess ==
    ASSUME NEW k \in 1..8, NEW qs \in SUBSET Quads, qs # {}
    PROVE  4 \notin ChildMarks(Neighbours[k], qs)
<1> DEFINE q == Nearest(Neighbours[k], qs)
           o == ChildCentre(Neighbours[k], q)
<1>1. q \in Quads
  BY NearestIsOne
<1>2. Marks(o) \in {{2, 3}, {1}, {0, 1}, {NoMark}}
  BY <1>1, ChildMarksTable, ZenonT(60)
<1>3. ChildMarks(Neighbours[k], qs) = Marks(o)
  BY DEF ChildMarks
<1> QED
  BY <1>2, <1>3 DEF NoMark

\* The invariant gives NothingFarAway.
LEMMA NothingFarAwayHolds == PlotOK => NothingFarAway
<1> SUFFICES ASSUME PlotOK, Drawn, value > 0
             PROVE  /\ \E object \in Objects : Meets(object, Around(pixel))
                    /\ value = 4 =>
                          \/ \E object \in Objects : Meets(object, PixelBox(pixel))
                          \/ \E k \in DOMAIN Neighbours :
                                LET p == NodeFloor(pixel, Neighbours[k])
                                IN  p # NoNode /\ Children(p) = {}
  BY DEF NothingFarAway
<1> DEFINE p == PixNode(pixel)
<1>1. /\ pixel \in Pixels /\ pixel # NoPixel /\ value \in -1..4 /\ visited \in 0..8 /\ TypeOK
      /\ feature_type \in {"point", "line", "polygon"} /\ ObjectsOK
  BY NeighbourOffsets DEF PlotOK, TypesOK, PlotTypeOK, TypeOK, Drawn, LinesOK
<1>2. /\ p \in Paths /\ p \in PixelNodes /\ Len(p) > 1 /\ Box[p] = PixelBox(pixel)
      /\ Len(p) = pixel.z + TileBits
  BY <1>1, PixelNode
<1>3. ~Blank(pixel)
  BY <1>1 DEF PlotOK, BlankInv
<1>4. ASSUME NEW object \in Objects, NEW b \in Squares, Within(b, Around(pixel)), Meets(object, b)
      PROVE  \E other \in Objects : Meets(other, Around(pixel))
  <2>1. Meets(object, Around(pixel))
    BY <1>1, <1>4, AroundSquare, MeetsWithin
  <2> QED
    BY <2>1
<1>5. CASE value = OwnValue(pixel)
  <2>1. OwnValue(pixel) = 4
    BY <1>1, <1>5, OwnValueBounds
  <2>2. p \in DOMAIN tree /\ (feature_type = "polygon" => tree[p] = "s")
    <3>1. CASE feature_type # "polygon"
      BY <1>1, <1>3, <2>1, <3>1, OwnNode
    <3>2. CASE feature_type = "polygon"
      <4> DEFINE kind == NodeIfExistPolygon(tree, p)
      <4>1. /\ kind = "b" => OwnValue(pixel) = -1
            /\ kind \notin {"s", "b"} => OwnValue(pixel) = 0
        BY <1>1, <1>3, <3>2, OwnNode
      <4> HIDE DEF kind
      <4>2. kind = "s"
        BY <2>1, <4>1
      <4> QED
        BY <4>2 DEF kind, NodeIfExistPolygon
    <3> QED
      BY <3>1, <3>2
  <2> HIDE DEF p
  <2>3. PICK object \in Objects : Meets(object, PixelBox(pixel))
    BY <1>2, <2>2, NodeMeets
  <2> QED
    BY <1>1, <1>4, <2>3, AroundSquare
<1>6. ASSUME NEW k \in 1..visited, value \in NeighbourMarks(pixel, Neighbours[k])
      PROVE  /\ \E object \in Objects : Meets(object, Around(pixel))
             /\ value = 4 => /\ NodeFloor(pixel, Neighbours[k]) # NoNode
                             /\ Children(NodeFloor(pixel, Neighbours[k])) = {}
  <2> DEFINE d == Neighbours[k]
             node == NodeFloor(pixel, d)
  <2>1. k \in 1..8 /\ k \in DOMAIN Neighbours
    BY <1>1, NeighbourOffsets
  <2>2. value \notin {NoMark}
    BY <1>1 DEF NoMark
  <2>3. node # NoNode /\ (feature_type = "polygon" => tree[node] = "s")
    BY <1>1, <1>6, <2>2 DEF NeighbourMarks
  <2>4. PICK q \in Paths : /\ Len(q) = pixel.z + TileBits /\ Box[q] = Beside(pixel, d)
                           /\ node = IfThere(tree, q)
    <3>1. Finds(node, pixel, tree, Beside(pixel, d))
      BY <1>1, <1>3, <2>1, FloorIs
    <3> QED
      BY <2>3, <3>1 DEF Finds
  <2>5. q \in DOMAIN tree /\ node = q
    BY <2>3, <2>4 DEF IfThere
  <2>6. PICK object \in Objects : Meets(object, Box[q])
    BY <1>2, <2>3, <2>4, <2>5, NodeMeets
  <2>7. \E other \in Objects : Meets(other, Around(pixel))
    BY <1>1, <1>4, <2>1, <2>4, <2>6, AroundSquare
  <2>8. ASSUME value = 4, Children(node) # {} PROVE FALSE
    <3>1. CASE feature_type = "point"
      BY <1>6, <2>1, <2>3, <2>8, <3>1, NodeMarks DEF NeighbourMarks
    <3>2. CASE feature_type # "point"
      <4>1. Children(node) \in SUBSET Quads
        BY DEF Children
      <4>2. 4 \notin ChildMarks(d, Children(node))
        BY <2>1, <2>8, <4>1, ChildMarksLess
      <4>3. NeighbourMarks(pixel, d) = ChildMarks(d, Children(node))
        <5> HIDE DEF d
        <5> QED
          BY <1>1, <2>3, <3>2 DEF NeighbourMarks
      <4> QED
        BY <1>6, <2>8, <4>2, <4>3
    <3> QED
      BY <3>1, <3>2
  <2> QED
    BY <2>3, <2>7, <2>8
<1>7. value = OwnValue(pixel) \/ \E k \in 1..visited : value \in NeighbourMarks(pixel, Neighbours[k])
  BY <1>1, <1>3 DEF PlotOK, SampleInv
<1>8. CASE value # OwnValue(pixel)
  <2>1. PICK k \in 1..visited : value \in NeighbourMarks(pixel, Neighbours[k])
    BY <1>7, <1>8
  <2>2. k \in DOMAIN Neighbours
    BY <1>1, NeighbourOffsets
  <2> QED
    BY <1>6, <2>1, <2>2
<1> QED
  BY <1>5, <1>8

\* No pixel shows more than there is: a mark has its object no farther than a
\* pixel away, and a full one on it, or beside a node that has no child and
\* whose distance is taken for 0 (plotTile.cpp:276-324).
THEOREM NothingFarAwayCorrect == PlotSpec => []NothingFarAway
<1> QED
  BY PlotInitOK, PlotNextOK, NothingFarAwayHolds, PTL DEF PlotSpec

(***************************************************************************)
(* The inside of a ring.                                                   *)
(***************************************************************************)
\* A child that may be just too far for every sample is at the far side of a
\* node next to the pixel.
LEMMA FarSide ==
    ASSUME NEW k \in 1..8, NEW qs \in SUBSET Quads, 0 \in ChildMarks(Neighbours[k], qs)
    PROVE  0 \in {Neighbours[k][1], Neighbours[k][2]}
<1> DEFINE d == Neighbours[k]
           q == Nearest(d, qs)
           o == ChildCentre(d, q)
<1>1. qs # {} /\ 0 \in Marks(o)
  BY DEF ChildMarks
<1>2. q \in Quads
  BY <1>1, NearestIsOne
<1>3. \/ Square(o) = 10 /\ Marks(o) = {2, 3}
      \/ Square(o) = 18 /\ Marks(o) = {1}
      \/ Square(o) = 26 /\ Marks(o) = {0, 1}
      \/ Square(o) \in {34, 50} /\ Marks(o) = {NoMark}
  BY <1>2, ChildMarksTable, ZenonT(60)
<1>4. Square(o) = 26
  BY <1>1, <1>3 DEF NoMark
<1>5. PICK a, b : /\ a \in {-1, 1} /\ b \in {-1, 1}
                  /\ o = <<4 * d[1] + a, 4 * d[2] + b>>
  BY DEF ChildCentre
<1>6. d[1] \in {-1, 0, 1} /\ d[2] \in {-1, 0, 1}
  BY NeighbourOffsets
<1>7. Square(o) = (4 * d[1] + a) * (4 * d[1] + a) + (4 * d[2] + b) * (4 * d[2] + b)
  BY <1>5 DEF Square
<1> QED
  BY <1>4, <1>5, <1>6, <1>7

\* The invariant gives InteriorLostOnlyBesideRim.
LEMMA InteriorHolds == PlotOK => InteriorLostOnlyBesideRim
<1> SUFFICES ASSUME PlotOK, Drawn, feature_type = "polygon", NEW ring \in Objects,
                    EvenOdd(Centre(PixelBox(pixel)), ring), value # -1
             PROVE  /\ \E other \in Objects : Meets(other, Around(pixel))
                    /\ value = 0 => \E k \in DOMAIN Neighbours :
                          LET d == Neighbours[k]
                          IN  /\ 0 \in {d[1], d[2]}
                              /\ NodeFloor(pixel, d) \in DOMAIN tree
                              /\ tree[NodeFloor(pixel, d)] = "s"
                              /\ \E other \in Objects : Meets(other, Beside(pixel, d))
  BY DEF InteriorLostOnlyBesideRim
<1> DEFINE p == PixNode(pixel)
<1>1. /\ pixel \in Pixels /\ pixel # NoPixel /\ value \in -1..4 /\ visited \in 0..8 /\ TypeOK
      /\ ObjectsOK
  BY NeighbourOffsets DEF PlotOK, TypesOK, PlotTypeOK, Drawn, LinesOK
<1>2. /\ p \in Paths /\ p \in PixelNodes /\ Len(p) > 1 /\ Box[p] = PixelBox(pixel)
      /\ Len(p) = pixel.z + TileBits
  BY <1>1, PixelNode
<1>3. ~Blank(pixel)
  BY <1>1, NotBlank
<1>4. CASE value > 0
  <2>1. \E object \in Objects : Meets(object, Around(pixel))
    BY <1>4, NothingFarAwayHolds DEF NothingFarAway
  <2> QED
    BY <1>4, <2>1
<1>5. CASE value = 0
  <2> DEFINE kind == NodeIfExistPolygon(tree, p)
  <2>1. kind \in {"s", "b"}
    <3>1. ring \in Rings
      BY DEF PlotOK, RingsOK, ObjectsOK
    <3>2. p \in PixelNodes \cap Enclosed[ring]
      <4> HIDE DEF p
      <4> QED
        BY <1>2, <3>1 DEF Enclosed
    <3>3. RingsPainted
      BY RingsPaintedHolds DEF PlotOK
    <3> HIDE DEF p
    <3> QED
      BY <3>2, <3>3 DEF RingsPainted
  <2>2. (kind = "s" => OwnValue(pixel) = 4) /\ (kind = "b" => OwnValue(pixel) = -1)
    BY <1>1, <1>3, OwnNode
  <2> HIDE DEF kind
  <2>3. value # OwnValue(pixel)
    BY <1>5, <2>1, <2>2
  <2>4. PICK k \in 1..visited : value \in NeighbourMarks(pixel, Neighbours[k])
    BY <1>1, <1>3, <2>3 DEF PlotOK, SampleInv
  <2> DEFINE d == Neighbours[k]
             node == NodeFloor(pixel, d)
  <2>5. k \in 1..8 /\ k \in DOMAIN Neighbours
    BY <1>1, NeighbourOffsets
  <2>6. node # NoNode /\ tree[node] = "s" /\ 0 \in ChildMarks(d, Children(node))
    <3>1. value \notin {NoMark}
      BY <1>5 DEF NoMark
    <3> QED
      BY <1>5, <2>4, <3>1 DEF NeighbourMarks
  <2>7. 0 \in {d[1], d[2]}
    <3>1. Children(node) \in SUBSET Quads
      BY DEF Children
    <3> QED
      BY <2>5, <2>6, <3>1, FarSide
  <2>8. PICK q \in Paths : /\ Len(q) = pixel.z + TileBits /\ Box[q] = Beside(pixel, d)
                           /\ node = IfThere(tree, q)
    <3>1. Finds(node, pixel, tree, Beside(pixel, d))
      BY <1>1, <1>3, <2>5, FloorIs
    <3> QED
      BY <2>6, <3>1 DEF Finds
  <2>9. q \in DOMAIN tree /\ node = q
    BY <2>6, <2>8 DEF IfThere
  <2>10. PICK other \in Objects : Meets(other, Beside(pixel, d))
    BY <1>2, <2>6, <2>8, <2>9, NodeMeets
  <2>11. Meets(other, Around(pixel))
    BY <1>1, <2>5, <2>10, AroundSquare, MeetsWithin
  <2> HIDE DEF node
  <2>12. node \in DOMAIN tree /\ tree[node] = "s"
    BY <2>6, <2>9
  <2> QED
    BY <2>5, <2>7, <2>10, <2>11, <2>12 DEF node
<1> QED
  BY <1>1, <1>4, <1>5

\* The inside of a ring is lost only beside a rim, and to nothing at all only at
\* the far side of a node next to the pixel (plotTile.cpp:624).
THEOREM InteriorLostOnlyBesideRimCorrect == PlotSpec => []InteriorLostOnlyBesideRim
<1> QED
  BY PlotInitOK, PlotNextOK, InteriorHolds, PTL DEF PlotSpec
=============================================================================
