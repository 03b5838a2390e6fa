----------------------------- MODULE MCVPQTree -----------------------------
(***************************************************************************)
(* VPQTree for TLC.  The coordinates of vertices are chosen on, beside and *)
(* off the midlines; rings are rectangles and triangles of either          *)
(* orientation.                                                            *)
(***************************************************************************)
EXTENDS VPQTree

CONSTANTS Coordinates, BendCoordinates, RingCoordinates

At(x, y) == [x |-> x, y |-> y]
Grid(S) == {At(x, y) : x \in S, y \in S}

MCPoints == Grid(0..Width) \cup {At(-2, 5), At(4, Width + 2)}

MCLines ==
    {<<a, b>> : a, b \in Grid(Coordinates \cup {-2})}
        \cup {<<a, b, c>> : a, b, c \in Grid(BendCoordinates)}

Rectangles ==
    {<<At(i, k), At(j, k), At(j, l), At(i, l), At(i, k)>> :
        <<i, j, k, l>> \in {r \in RingCoordinates \X RingCoordinates
                                   \X RingCoordinates \X RingCoordinates :
                               r[1] < r[2] /\ r[3] < r[4]}}

Triangles ==
    {<<At(i, k), At(j, k), At(j, l), At(i, k)>> :
        <<i, j, k, l>> \in {r \in RingCoordinates \X RingCoordinates
                                   \X RingCoordinates \X RingCoordinates :
                               r[1] < r[2] /\ r[3] # r[4]}}

MCRings == Rectangles \cup Triangles

\* The references agree where both speak: on the rings above, which are convex,
\* for centres on the line of no edge.
ASSUME ConvexRings ==
    \A ring \in Rings, c \in {Centre(Box[p]) : p \in Paths} :
        (\A j \in 1..Len(ring) - 1 : Cross(ring[j], ring[j + 1], c) # 0)
            => (EvenOdd(c, ring) <=> Inside(c, ring))

None == {}
=============================================================================
