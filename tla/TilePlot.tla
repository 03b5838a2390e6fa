------------------------------ MODULE TilePlot ------------------------------
(***************************************************************************)
(* How plotting draws a pixel of a tile (plotTile.cpp, and the choice of   *)
(* the sampler in plotting_main.cpp): first objects are inserted as in     *)
(* VPQTree, then pixels are drawn from the tree.  Each pixel is written by *)
(* one iteration of a loop that OpenMP shares out, and by nothing else, so *)
(* they are drawn one at a time, in any order.                             *)
(*                                                                         *)
(* Coordinates are those of VPQTree: the pixels of zoom level z are the    *)
(* squares of the nodes TileBits levels below the tiles of that level.     *)
(***************************************************************************)
EXTENDS VPQTree, PixelKernel

CONSTANTS
    TileBits,   \* levels between a tile and its pixels (8: TILE_SIZE is 256)
    Zooms       \* zoom levels that are asked for

\* Pixels are nodes of the tree, and none of them a child of the root.
ASSUME ZoomAssumption ==
    /\ TileBits \in Nat \ {0}
    /\ \A z \in Zooms : z \in Nat /\ z + TileBits \in 2..TqTreeLevel

VARIABLES
    pixel,      \* the pixel drawn: tile z, x, y, and row i, column j in it
    value,      \* its byte of tile_area
    visited     \* how many of its neighbours have been visited

plotVars == <<pixel, value, visited>>
allVars == <<feature_type, tree, inserted, pixel, value, visited>>

NoPixel == <<>>
NoNode == <<0>>     \* nullptr
Size == Pow2[TileBits]

Pixels == UNION {[z : {z}, x : 0..Pow2[z] - 1, y : 0..Pow2[z] - 1,
                  i : 0..Size - 1, j : 0..Size - 1] : z \in Zooms}

(***************************************************************************)
(* Squares.  Rows are counted from the top, y grows upwards.               *)
(***************************************************************************)
Rz(px) == Width \div Pow2[px.z + TileBits]

TileBox(z, x, y) == LET w == Width \div Pow2[z]
                    IN  [x |-> x * w, y |-> Width - (y + 1) * w, w |-> w]

\* The square of the pixel and that of its neighbour d.
PixelBox(px) == [x |-> (Size * px.x + px.j) * Rz(px),
                 y |-> Width - (Size * px.y + px.i + 1) * Rz(px),
                 w |-> Rz(px)]
Beside(px, d) == [x |-> PixelBox(px).x + d[1] * Rz(px),
                  y |-> PixelBox(px).y + d[2] * Rz(px),
                  w |-> Rz(px)]

(***************************************************************************)
(* The descents.  A descent gives up at the first child that is missing,   *)
(* which is to say that the node it was going to is not in the tree.       *)
(***************************************************************************)
\* The quadrant of b that holds pt: points on a midline go right and up.
Towards(b, pt) ==
    LET mid == Centre(b)
    IN  CASE pt.x < mid.x /\ pt.y >= mid.y -> 1
          [] pt.x >= mid.x /\ pt.y >= mid.y -> 2
          [] pt.x < mid.x /\ pt.y < mid.y -> 3
          [] pt.x >= mid.x /\ pt.y < mid.y -> 4

\* The node n levels below node, whose square is b, on the way to pt.
Down(node, b, pt, n) ==
    LET way[k \in 0..n] ==
            IF k = 0 THEN [node |-> node, box |-> b]
            ELSE LET q == Towards(way[k - 1].box, pt)
                 IN  [node |-> Child(way[k - 1].node, q), box |-> Quarter(way[k - 1].box, q)]
    IN  way[n].node

IfThere(t, p) == IF p \in DOMAIN t THEN p ELSE NoNode

LocateTileNode(t, z, x, y) == IfThere(t, Down(<<>>, World, Centre(TileBox(z, x, y)), z))

\* Faulty: one level too many.
NodeIfExistTooDeep(t, seek, box, pt) == Down(seek, box, pt, TileBits + 1) \in DOMAIN t

\* nodeIfExist: TileBits levels down from the tile's node.
NodeIfExist(t, seek, box, pt) == Down(seek, box, pt, TileBits) \in DOMAIN t

\* Faulty: the descent starts at the tile wherever the pixel is.
LocatePixNodeInTile(t, z, seek, box, pt) ==
    IF ~IsInMBR(pt, [x_min |-> 0, x_max |-> Width, y_min |-> 0, y_max |-> Width])
    THEN NoNode ELSE IfThere(t, Down(seek, box, pt, TileBits + z - Len(seek)))

\* A pixel outside the tile is looked for from the root, one outside the world
\* not at all; the number of levels left is counted from the node's own.
LocatePixNode(t, z, seek, box, pt) ==
    LET r(b) == [x_min |-> b.x, x_max |-> b.x + b.w, y_min |-> b.y, y_max |-> b.y + b.w]
    IN  CASE ~IsInMBR(pt, r(World)) -> NoNode
          [] IsInMBR(pt, r(World)) /\ IsInMBR(pt, r(box)) ->
                IfThere(t, Down(seek, box, pt, TileBits + z - Len(seek)))
          [] IsInMBR(pt, r(World)) /\ ~IsInMBR(pt, r(box)) ->
                IfThere(t, Down(<<>>, World, pt, TileBits + z))

(***************************************************************************)
(* A pixel.                                                                *)
(***************************************************************************)
\* Where lookups start: polygons are always looked up from the root.
Seek(px) == IF feature_type = "polygon" THEN <<>>
            ELSE LocateTileNode(tree, px.z, px.x, px.y)
SeekBox(px) == IF feature_type = "polygon" THEN World ELSE TileBox(px.z, px.x, px.y)

\* A tile of points or lines without a node is cleared, not sampled.
Blank(px) == Seek(px) = NoNode

\* The value from the pixel's own node: 4 on an object, -1 inside a polygon.
OwnValue(px) ==
    LET pt == Centre(PixelBox(px))
        kind == IF feature_type = "polygon"
                THEN NodeIfExistPolygon(tree, Down(<<>>, World, pt, TileBits + px.z))
                ELSE IF NodeIfExist(tree, Seek(px), SeekBox(px), pt) THEN "s" ELSE "n"
    IN  CASE Blank(px) -> 0
          [] ~Blank(px) /\ kind = "s" -> 4
          [] ~Blank(px) /\ kind = "b" -> -1
          [] ~Blank(px) /\ kind \notin {"s", "b"} -> 0

\* The node of neighbour d, and the children of it that count.
NodeFloor(px, d) == LocatePixNode(tree, px.z, Seek(px), SeekBox(px), Centre(Beside(px, d)))

Children(p) == {q \in Quads : /\ Child(p, q) \in DOMAIN tree
                              /\ feature_type = "polygon" => tree[Child(p, q)] = "s"}

\* Faulty: the kind of the node is not looked at.
NeighbourMarksAnyKind(px, d) ==
    LET p == NodeFloor(px, d)
    IN  IF p = NoNode THEN {NoMark}
        ELSE IF feature_type = "point" THEN Marks(NodeCentre(d)) ELSE ChildMarks(d, Children(p))

NeighbourMarks(px, d) ==
    LET p == NodeFloor(px, d)
    IN  CASE p = NoNode -> {NoMark}
          [] p # NoNode /\ feature_type = "point" -> Marks(NodeCentre(d))
          [] p # NoNode /\ feature_type = "line" -> ChildMarks(d, Children(p))
          [] p # NoNode /\ feature_type = "polygon" ->
                IF tree[p] = "s" THEN ChildMarks(d, Children(p)) ELSE {NoMark}

(***************************************************************************)
(* The steps.                                                              *)
(***************************************************************************)
Done == visited = Len(Neighbours) \/ value = 4

PlotInit == Init /\ pixel = NoPixel /\ value = 0 /\ visited = 0

\* Building comes before drawing.
Build == pixel = NoPixel /\ Next /\ UNCHANGED plotVars

\* The start of a pixel's iteration.
Begin(px) ==
    /\ pixel = NoPixel \/ Done
    /\ pixel' = px
    /\ value' = OwnValue(px)
    /\ visited' = IF Blank(px) THEN Len(Neighbours) ELSE 0
    /\ UNCHANGED vars

\* Faulty: pix_value is not set back to 0 after a node.
VisitAccumulates ==
    /\ pixel # NoPixel /\ ~Done
    /\ visited' = visited + 1
    /\ \E mark \in NeighbourMarks(pixel, Neighbours[visited + 1]) :
          value' = IF mark > 0 THEN value + mark ELSE value
    /\ UNCHANGED <<vars, pixel>>

\* Faulty: the last node decides.
VisitOverwrites ==
    /\ pixel # NoPixel /\ ~Done
    /\ visited' = visited + 1
    /\ \E mark \in NeighbourMarks(pixel, Neighbours[visited + 1]) :
          value' = IF mark # NoMark THEN mark ELSE value
    /\ UNCHANGED <<vars, pixel>>

\* One neighbour: a mark is kept if it is more than the pixel has; 4 ends all
\* the loops.
Visit ==
    /\ pixel # NoPixel /\ ~Done
    /\ visited' = visited + 1
    /\ \E mark \in NeighbourMarks(pixel, Neighbours[visited + 1]) :
          value' = IF mark > value THEN mark ELSE value
    /\ UNCHANGED <<vars, pixel>>

PlotNext ==
    \/ Build
    \/ \E px \in Pixels : Begin(px)
    \/ Visit

PlotSpec == PlotInit /\ [][PlotNext]_allVars

(***************************************************************************)
(* Properties.                                                             *)
(***************************************************************************)
\* The types, and what holds of an unfinished pixel: a value below 0 is that of
\* an interior node, a blank tile's pixels are 0.
PlotTypeOK ==
    /\ pixel \in Pixels \cup {NoPixel}
    /\ value \in -1..4
    /\ visited \in 0..Len(Neighbours)
    /\ pixel = NoPixel => value = 0 /\ visited = 0
    /\ value < 0 => feature_type = "polygon"

Drawn == pixel # NoPixel /\ Done

\* A lookup that starts at the tile's node for some pixels and at the root for
\* others (plotTile.cpp:190-230) finds the node whose square is that of the
\* neighbour visited next, if the tree has it, and no other, on either side of a
\* tile's border.
NodesFound ==
    pixel # NoPixel /\ ~Done =>
        LET d == Neighbours[visited + 1]
        IN  {p \in DOMAIN tree : Box[p] = Beside(pixel, d)} = {NodeFloor(pixel, d)} \ {NoNode}

\* The positions that the nodes around a pixel may stand for.
Positions(px, d) ==
    IF feature_type = "point" THEN {NodeCentre(d)}
    ELSE {ChildCentre(d, q) : q \in Children(NodeFloor(px, d))}

\* What the loops with their breaks (plotTile.cpp:494-543), and the choice of one
\* child per node (276-378), leave in the pixel is the most that its own node
\* or any child of any of the eight nodes around it gives.
GreatestMark ==
    Drawn /\ ~Blank(pixel) =>
        /\ \/ value = OwnValue(pixel)
           \/ \E k \in DOMAIN Neighbours : value \in NeighbourMarks(pixel, Neighbours[k])
        /\ value >= OwnValue(pixel)
        /\ \A k \in DOMAIN Neighbours :
              NodeFloor(pixel, Neighbours[k]) # NoNode =>
                  \A o \in Positions(pixel, Neighbours[k]) :
                      (feature_type = "polygon" => tree[NodeFloor(pixel, Neighbours[k])] = "s")
                      => \E mark \in Marks(o) : mark <= value

(***************************************************************************)
(* What a pixel shows of the objects.                                      *)
(***************************************************************************)
Around(px) == [x |-> PixelBox(px).x - Rz(px), y |-> PixelBox(px).y - Rz(px), w |-> 3 * Rz(px)]

Meets(object, box) ==
    IF feature_type = "point" THEN IsContain(box, MBR({object}))
    ELSE SomeSegment(Touches, object, box)

Shows(object, box) ==
    IF feature_type = "point"
    THEN box.x < object.x /\ object.x < box.x + box.w /\ box.y < object.y /\ object.y < box.y + box.w
    ELSE SomeSegment(Enters, object, box)

\* The pixel lies inside a ring other than r.
Covered(px, r) ==
    feature_type = "polygon" /\ \E other \in Objects \ {r} : EvenOdd(Centre(PixelBox(px)), other)

\* From the insertion to the tile: a pixel with a piece of an object inside it
\* is painted in full, whatever tile it is drawn in and from whatever node
\* (plotTile.cpp:22-75, 408-411); only the inside of another ring may hide it.
ObjectsShow ==
    Drawn => \A object \in Objects :
        Shows(object, PixelBox(pixel)) => value = 4 \/ Covered(pixel, object)

\* Nothing is painted farther than a pixel from every object, and in full only
\* where an object is or beside a node that has no child (plotTile.cpp:276-324
\* takes its distance for 0).
NothingFarAway ==
    Drawn /\ value > 0 =>
        /\ \E object \in Objects : Meets(object, Around(pixel))
        /\ value = 4 =>
              \/ \E object \in Objects : Meets(object, PixelBox(pixel))
              \/ \E k \in DOMAIN Neighbours :
                    LET p == NodeFloor(pixel, Neighbours[k])
                    IN  p # NoNode /\ Children(p) = {}

\* The inside of a ring is drawn as such, except beside a rim: there the samples
\* of the rim replace the -1 (plotTile.cpp:624), by nothing at all (0 > -1) when
\* the rim is at the far side of the node next to the pixel.
InteriorLostOnlyBesideRim ==
    Drawn /\ feature_type = "polygon" => \A ring \in Objects :
        EvenOdd(Centre(PixelBox(pixel)), ring) /\ value # -1 =>
            /\ \E other \in Objects : Meets(other, Around(pixel))
            /\ value = 0 => \E k \in DOMAIN Neighbours :
                  LET d == Neighbours[k]
                  IN  /\ 0 \in {d[1], d[2]}
                      /\ NodeFloor(pixel, d) \in DOMAIN tree /\ tree[NodeFloor(pixel, d)] = "s"
                      /\ \E other \in Objects : Meets(other, Beside(pixel, d))
=============================================================================
