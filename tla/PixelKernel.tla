---------------------------- MODULE PixelKernel ----------------------------
(***************************************************************************)
(* What one node beside a pixel adds to it: the body of the innermost loop *)
(* of pointUpResolutionSample, lineUpResolutionSample and                  *)
(* polygonUpResolutionSample (plotTile.cpp).  A pixel is anti-aliased with *)
(* four samples; a sample is covered when it is nearer than R, the width   *)
(* of a pixel, to the position that stands for the node.                   *)
(*                                                                         *)
(* The unit is a quarter of a pixel (Rz4), the origin the pixel's centre:  *)
(* R = 4, the samples are the points (+-1, +-1), and a neighbour of the    *)
(* pixel has its centre at multiples of 4 and its children's centres one   *)
(* unit away from that.                                                    *)
(***************************************************************************)
EXTENDS Quadtree, Integers, FiniteSets

\* The nodes around a pixel in the order they are visited: m from left to
\* right, and for each m, n from bottom to top.
Neighbours == [k \in 1..8 |-> LET i == IF k <= 4 THEN k - 1 ELSE k
                              IN  <<(i \div 3) - 1, (i % 3) - 1>>]

Square(o) == o[1] * o[1] + o[2] * o[2]
Apart(s, o) == Square(<<s[1] - o[1], s[2] - o[2]>>)

\* A mark below all others, for a node that leaves the pixel as it is.
NoMark == -1

\* What a sample adds.  At distance R exactly it is covered or not as the
\* rounding of the coordinates has it.
Adds(s, o) == IF Apart(s, o) < 16 THEN {1} ELSE IF Apart(s, o) = 16 THEN {0, 1} ELSE {0}

\* The marks a position may give.  R1 = 4 - sqrt(2) and R2 = 4 + sqrt(2): their
\* squares are 6.7 and 29.3.
Marks(o) ==
    CASE Square(o) <= 6 -> {4}
      [] Square(o) \in 7..29 ->
            {i + j + k + l : i \in Adds(<<1, 1>>, o), j \in Adds(<<-1, -1>>, o),
                             k \in Adds(<<1, -1>>, o), l \in Adds(<<-1, 1>>, o)}
      [] Square(o) > 29 -> {NoMark}

NodeCentre(d) == <<4 * d[1], 4 * d[2]>>
ChildCentre(d, q) == <<4 * d[1] + (IF q \in {2, 4} THEN 1 ELSE -1),
                       4 * d[2] + (IF q \in {1, 2} THEN 1 ELSE -1)>>

\* getNearestCNode: the first of the nearest among the children qs.
Nearest(d, qs) ==
    CHOOSE q \in qs : \A r \in qs :
        \/ Square(ChildCentre(d, q)) < Square(ChildCentre(d, r))
        \/ Square(ChildCentre(d, q)) = Square(ChildCentre(d, r)) /\ q <= r

\* With no child the distance stays 0, which is less than R1.
ChildMarks(d, qs) == IF qs = {} THEN {4} ELSE Marks(ChildCentre(d, Nearest(d, qs)))
=============================================================================
