------------------------------ MODULE VPQTree ------------------------------
(***************************************************************************)
(* How buildIndex makes a VPQ-tree: VPQTreeNode.cpp, driven by             *)
(* buildVPQTree.cpp.  The tree is a quadtree over a square; a shapefile    *)
(* has one kind of geometry, and its points, polylines or rings are        *)
(* inserted one after the other.                                           *)
(*                                                                         *)
(* Coordinates are integers.  The root's lower left corner is the origin,  *)
(* and its width a multiple of Pow2[TqTreeLevel + 1], so that every corner *)
(* and every centre the code computes is an integer too.                   *)
(*                                                                         *)
(* A recursion that walks down the tree is given by the nodes it reaches:  *)
(* p is reached from node m when every step from m to p is one it takes.   *)
(***************************************************************************)
EXTENDS Quadtree, Integers, SequencesExt, FiniteSets, FiniteSetsExt, Functions

CONSTANTS
    TqTreeLevel,   \* tqTree_level, the depth of the tree
    Width,         \* the width of the root
    Points,        \* points that may be inserted
    Lines,         \* polylines, sequences of points
    Rings,         \* rings, sequences of points that end where they start
    MaxInserts     \* bound: objects in a behaviour

ASSUME LevelAssumption == TqTreeLevel \in Nat \ {0}
ASSUME WidthAssumption == Width \in Nat \ {0} /\ Width % Pow2[TqTreeLevel + 1] = 0
ASSUME MaxInsertsAssumption == MaxInserts \in Nat

\* What a shapefile may hold: a polyline has an edge, a ring is closed.
Locations == [x : Int, y : Int]
ASSUME PointsAssumption == \A pt \in Points : pt \in Locations
ASSUME LinesAssumption == \A pts \in Lines : pts \in Seq(Locations) /\ Len(pts) > 1
ASSUME RingsAssumption ==
    \A ring \in Rings : ring \in Seq(Locations) /\ Len(ring) > 1 /\ ring[1] = ring[Len(ring)]

VARIABLES
    feature_type,  \* what the shapefile holds: "point", "line" or "polygon"
    tree,          \* the VPQ-tree: a function from nodes to polygon_type
    inserted       \* the objects inserted so far, in order

vars == <<feature_type, tree, inserted>>

(***************************************************************************)
(* The squares of the nodes.                                               *)
(***************************************************************************)
Paths == UNION {[1..n -> Quads] : n \in 0..TqTreeLevel}
Inner == {p \in Paths : Len(p) < TqTreeLevel}
Child(p, q) == Append(p, q)
Parent(p) == Above(p, Len(p) - 1)

\* The square of quadrant q of square b, and of every node.
Quarter(b, q) == LET h == b.w \div 2 IN
    [x |-> IF q \in {2, 4} THEN b.x + h ELSE b.x,
     y |-> IF q \in {1, 2} THEN b.y + h ELSE b.y,
     w |-> h]

World == [x |-> 0, y |-> 0, w |-> Width]
Box[p \in Paths] == IF p = <<>> THEN World ELSE Quarter(Box[Parent(p)], Last(p))

Centre(b) == [x |-> b.x + b.w \div 2, y |-> b.y + b.w \div 2]

(***************************************************************************)
(* What the code knows of an object: its bounding rectangle and, for a     *)
(* segment, whether it rises ("0") or falls ("1").                         *)
(***************************************************************************)
MBR(pts) == [x_min |-> Min({p.x : p \in pts}), x_max |-> Max({p.x : p \in pts}),
             y_min |-> Min({p.y : p \in pts}), y_max |-> Max({p.y : p \in pts})]

ObjType(a, b) ==
    IF \/ b.x >= a.x /\ b.y >= a.y
       \/ b.x <= a.x /\ b.y <= a.y
    THEN "0" ELSE "1"

Segment(a, b) == [mbr |-> MBR({a, b}), obj_type |-> ObjType(a, b)]

IsContain(b, r) ==
    /\ r.x_min >= b.x /\ r.x_max <= b.x + b.w
    /\ r.y_min >= b.y /\ r.y_max <= b.y + b.w

IsIntersect(b, r) ==
    /\ r.x_min < b.x + b.w /\ r.x_max > b.x
    /\ r.y_min < b.y + b.w /\ r.y_max > b.y

\* Positive above the diagonal of s that is the segment, negative below.
Side(s, x, y) ==
    LET width == s.mbr.x_max - s.mbr.x_min
        height == s.mbr.y_max - s.mbr.y_min
    IN  IF s.obj_type = "0"
        THEN width * (y - s.mbr.y_min) - (x - s.mbr.x_min) * height
        ELSE width * (y - s.mbr.y_max) + (x - s.mbr.x_min) * height

\* Faulty: the corners of a falling segment are those of a rising one.
IsCoverNodeRising(b, s) ==
    LET a == Side(s, Centre(b).x, Centre(b).y)
    IN  /\ IsIntersect(b, s.mbr)
        /\ \/ a = 0
           \/ a > 0 /\ Side(s, b.x + b.w, b.y) < 0
           \/ a < 0 /\ Side(s, b.x, b.y + b.w) > 0

\* Faulty: the rectangles meet, and the segment is not looked at.
IsCoverNodeMBR(b, s) == IsIntersect(b, s.mbr)

\* The rectangles overlap, and the segment's line passes through the centre or
\* between it and the corner farthest to its other side.
IsCoverNode(b, s) ==
    LET a == Side(s, Centre(b).x, Centre(b).y)
        left == s.obj_type = "1"
        low == Side(s, IF left THEN b.x ELSE b.x + b.w, b.y)
        high == Side(s, IF left THEN b.x + b.w ELSE b.x, b.y + b.w)
    IN  /\ IsIntersect(b, s.mbr)
        /\ a = 0 \/ (a > 0 /\ low < 0) \/ (a < 0 /\ high > 0)

\* Ray casting to the right: an odd number of edges is crossed.
IsInPolygon(c, ring) ==
    LET crossed(i) ==
            LET x0 == ring[i - 1].x - c.x
                y0 == ring[i - 1].y - c.y
                x1 == ring[i].x - c.x
                y1 == ring[i].y - c.y
            IN  /\ (y0 <= 0) # (y1 <= 0)
                /\ IF y0 > y1 THEN x1 * y0 - x0 * y1 > 0 ELSE x1 * y0 - x0 * y1 < 0
    IN  Cardinality({i \in 2..Len(ring) : crossed(i)}) % 2 = 1

IsInMBR(c, r) == /\ r.x_min <= c.x /\ c.x <= r.x_max
                 /\ r.y_min <= c.y /\ c.y <= r.y_max

(***************************************************************************)
(* The descents.                                                           *)
(***************************************************************************)
\* The quadrants that contain a rectangle; the first one gets it.
Holders(p, r) == LET b == Box[p] IN {q \in Quads : IsContain(Quarter(b, q), r)}

\* buildMBNode goes down to the smallest node that contains the rectangle.
OnTheWay(r) ==
    LET taken == {Child(p, Min(Holders(p, r))) : p \in {p \in Inner : Holders(p, r) # {}}}
    IN  {p \in Paths : \A n \in 1..Len(p) : Above(p, n) \in taken}

MBNode(r) == LET way == OnTheWay(r)
             IN  CHOOSE m \in way : \A p \in way : Len(p) <= Len(m)

\* Where InsertLineObject and InsertPolygonSegment go from node p: to the
\* quadrant that contains the segment, or else to those it passes through.
Visits(p, s) ==
    LET holders == Holders(p, s.mbr)
        b == Box[p]
    IN  IF holders # {} THEN {Min(holders)}
        ELSE {q \in Quads : IsCoverNode(Quarter(b, q), s)}

\* The nodes that a segment inserted at m reaches.
Reached(m, s) ==
    LET taken == UNION {{Child(p, q) : q \in Visits(p, s)} : p \in {p \in Inner : IsPrefix(m, p)}}
    IN  {p \in Paths : IsPrefix(m, p) /\ \A n \in Len(m) + 1..Len(p) : Above(p, n) \in taken}

Segments(pts) == {Segment(pts[j], pts[j + 1]) : j \in 1..Len(pts) - 1}

(***************************************************************************)
(* The insertions.  A tree is only ever added to.                          *)
(***************************************************************************)
Add(t, ps) == [p \in DOMAIN t \cup ps |-> IF p \in DOMAIN t THEN t[p] ELSE "s"]

\* InsertPointObject goes down as buildMBNode does for a rectangle of no size.
InsertPointObject(t, pt) == Add(t, OnTheWay(MBR({pt})))

\* A polyline: its MBNode, and each segment from there.
InsertLine(t, pts) ==
    LET r == MBR(Range(pts))
        m == MBNode(r)
    IN  Add(t, OnTheWay(r) \cup UNION {Reached(m, s) : s \in Segments(pts)})

\* Faulty: the nodes above the MBNode are not linked.
BuildMBNodeAlone(t, r) ==
    [p \in DOMAIN t \cup {MBNode(r)} |-> IF p \in DOMAIN t THEN t[p] ELSE "m"]

\* buildMBNode_polygon goes on as buildMBNode below the root's child, so only
\* that one can be provisional.
BuildMBNodePolygon(t, r) ==
    [p \in DOMAIN t \cup OnTheWay(r) |->
        CASE p \in DOMAIN t -> t[p]
          [] p \notin DOMAIN t /\ Len(p) = 1 -> IF t[<<>>] = "b" THEN "b" ELSE "m"
          [] OTHER -> "s"]

\* Faulty: a provisional node stays one.
InsertSegmentsKeepsM(t, m, ring) ==
    Add(t, UNION {Reached(m, s) : s \in Segments(ring)})

\* InsertPolygonSegment for every segment: the nodes reached below m are made,
\* or lose their "m"; an interior node stays "b".
InsertSegments(t, m, ring) ==
    LET reached == (UNION {Reached(m, s) : s \in Segments(ring)}) \ {m}
    IN  [p \in DOMAIN t \cup reached |->
            IF p \in reached /\ (p \notin DOMAIN t \/ t[p] = "m") THEN "s" ELSE t[p]]

\* The nodes on which InsertPolygonBox, called on m, does not return at once.
BoxVisits(t, m, r) ==
    {p \in DOMAIN t :
        /\ p \in Inner /\ IsPrefix(m, p)
        /\ \A n \in Len(m)..Len(p) : t[Above(p, n)] # "b"
        /\ \A n \in Len(m) + 1..Len(p) : /\ IsIntersect(Box[Above(p, n)], r)
                                         /\ t[Above(p, n)] # "m"}

\* Their children that are made interior nodes.
Interior(t, m, ring) ==
    LET r == MBR(Range(ring))
    IN  {c \in {Child(p, q) : p \in BoxVisits(t, m, r), q \in Quads} :
            /\ IsIntersect(Box[c], r)
            /\ IF c \in DOMAIN t THEN t[c] = "m" ELSE IsInMBR(Centre(Box[c]), r)
            /\ IsInPolygon(Centre(Box[c]), ring)}

\* Faulty: a provisional node is left to be found by somebody else.
InsertPolygonBoxSkipsM(t, m, ring) ==
    LET new == Interior(t, m, ring) \ DOMAIN t
    IN  [p \in DOMAIN t \cup new |-> IF p \in new THEN "b" ELSE t[p]]

\* Faulty: whatever node has its centre inside is interior.
InsertPolygonBoxOverwrites(t, m, ring) ==
    LET new == Interior(t, m, ring) \cup
               {p \in DOMAIN t : /\ IsPrefix(m, p) /\ p # m
                                 /\ IsInPolygon(Centre(Box[p]), ring)}
    IN  [p \in DOMAIN t \cup new |-> IF p \in new THEN "b" ELSE t[p]]

InsertPolygonBox(t, m, ring) ==
    LET new == Interior(t, m, ring)
    IN  [p \in DOMAIN t \cup new |-> IF p \in new THEN "b" ELSE t[p]]

\* A ring: its MBNode, its segments, its interior.  Rings that are holes are
\* treated like the others.
InsertRing(t, ring) ==
    LET r == MBR(Range(ring))
        m == MBNode(r)
    IN  InsertPolygonBox(InsertSegments(BuildMBNodePolygon(t, r), m, ring), m, ring)

(***************************************************************************)
(* The build.                                                              *)
(***************************************************************************)
Init ==
    /\ feature_type \in {"point", "line", "polygon"}
    /\ tree = [p \in {<<>>} |-> "s"]
    /\ inserted = <<>>

BuildPoint(pt) ==
    /\ feature_type = "point" /\ Len(inserted) < MaxInserts
    /\ tree' = InsertPointObject(tree, pt)
    /\ inserted' = Append(inserted, pt)
    /\ UNCHANGED feature_type

BuildLine(pts) ==
    /\ feature_type = "line" /\ Len(inserted) < MaxInserts
    /\ tree' = InsertLine(tree, pts)
    /\ inserted' = Append(inserted, pts)
    /\ UNCHANGED feature_type

BuildRing(ring) ==
    /\ feature_type = "polygon" /\ Len(inserted) < MaxInserts
    /\ tree' = InsertRing(tree, ring)
    /\ inserted' = Append(inserted, ring)
    /\ UNCHANGED feature_type

Next ==
    \/ \E pt \in Points : BuildPoint(pt)
    \/ \E pts \in Lines : BuildLine(pts)
    \/ \E ring \in Rings : BuildRing(ring)

Spec == Init /\ [][Next]_vars

(***************************************************************************)
(* How plotting reads a polygon tree (nodeIfExist_polygon): the kind of    *)
(* the node of a pixel, or 'b' if the way to it ends below a 'b'.          *)
(***************************************************************************)
NodeIfExistPolygon(t, p) ==
    CASE p \in DOMAIN t -> t[p]
      [] p \notin DOMAIN t /\ \E n \in 0..Len(p) - 1 :
            Above(p, n) \in DOMAIN t /\ t[Above(p, n)] = "b" -> "b"
      [] OTHER -> "n"

(***************************************************************************)
(* Geometry, independently of the code: separating axes for a segment and  *)
(* a square, the even-odd rule for the inside of a ring, and one side of   *)
(* every edge for that of a convex one.                                    *)
(***************************************************************************)
Cross(a, b, c) == (b.x - a.x) * (c.y - a.y) - (b.y - a.y) * (c.x - a.x)

Corners(b) == {[x |-> b.x + i * b.w, y |-> b.y + j * b.w] : i \in 0..1, j \in 0..1}

\* The segment has a point in the closed square; in the open square.
Touches(a, b, box) ==
    LET r == MBR({a, b}) IN
    /\ r.x_min <= box.x + box.w /\ r.x_max >= box.x
    /\ r.y_min <= box.y + box.w /\ r.y_max >= box.y
    /\ \E c \in Corners(box) : Cross(a, b, c) >= 0
    /\ \E c \in Corners(box) : Cross(a, b, c) <= 0

Enters(a, b, box) ==
    LET r == MBR({a, b}) IN
    /\ IsIntersect(box, r)
    /\ a # b => /\ \E c \in Corners(box) : Cross(a, b, c) > 0
                /\ \E c \in Corners(box) : Cross(a, b, c) < 0

\* An upward edge has c on its left, a downward one on its right: it crosses
\* the ray from c to the right.
CrossesRay(a, b, c) ==
    \/ a.y <= c.y /\ c.y < b.y /\ Cross(a, b, c) > 0
    \/ b.y <= c.y /\ c.y < a.y /\ Cross(a, b, c) < 0

\* c lies inside a ring that may be concave or cross itself.
EvenOdd(c, ring) ==
    Cardinality({j \in 1..Len(ring) - 1 : CrossesRay(ring[j], ring[j + 1], c)}) % 2 = 1

\* c lies strictly inside a convex ring.
Inside(c, ring) ==
    \/ \A j \in 1..Len(ring) - 1 : Cross(ring[j], ring[j + 1], c) > 0
    \/ \A j \in 1..Len(ring) - 1 : Cross(ring[j], ring[j + 1], c) < 0

SomeSegment(Meets(_, _, _), pts, box) ==
    \E j \in 1..Len(pts) - 1 : Meets(pts[j], pts[j + 1], box)

\* The nodes whose squares a ring enters and touches, and whose centres it has
\* inside.
Entered == [ring \in Rings |-> {p \in Paths : SomeSegment(Enters, ring, Box[p])}]
Touched == [ring \in Rings |-> {p \in Paths : SomeSegment(Touches, ring, Box[p])}]
Enclosed == [ring \in Rings |-> {p \in Paths : EvenOdd(Centre(Box[p]), ring)}]

Leaves == [1..TqTreeLevel -> Quads]

\* Levels at which a pixel is looked up: below the root's children.
PixelNodes == {p \in Paths : Len(p) > 1}

Objects == Range(inserted)

(***************************************************************************)
(* Properties.                                                             *)
(***************************************************************************)
\* Every node hangs from the root by nodes of the tree: what IndexFile assumes
\* of the trees that are saved (TreesAssumption).  Only polygons make other
\* nodes than "s", and only a child of the root can stay provisional.
TypeOK ==
    /\ feature_type \in {"point", "line", "polygon"}
    /\ DOMAIN tree \subseteq Paths
    /\ IsTree(tree)
    /\ feature_type # "polygon" => \A p \in DOMAIN tree : tree[p] = "s"
    /\ \A p \in DOMAIN tree : tree[p] = "m" => Len(p) = 1

\* Every point of the world has a leaf that contains it, and every polyline
\* all the leaves whose interior it enters, whatever midlines it runs along and
\* crosses on the way down (VPQTreeNode.cpp:73-123, 158-263).
NothingLost ==
    /\ feature_type = "point" => \A pt \in Objects :
          IsContain(World, MBR({pt})) =>
              \E p \in DOMAIN tree : Len(p) = TqTreeLevel /\ IsContain(Box[p], MBR({pt}))
    /\ feature_type = "line" => \A pts \in Objects, p \in Leaves :
          SomeSegment(Enters, pts, Box[p]) => p \in DOMAIN tree

\* Every node of a point or line tree is touched by an object that was inserted.
NothingInvented ==
    \A p \in DOMAIN tree \ {<<>>} :
        /\ feature_type = "point" => \E pt \in Objects : IsContain(Box[p], MBR({pt}))
        /\ feature_type = "line" => \E pts \in Objects : SomeSegment(Touches, pts, Box[p])

\* Whatever ring came first, a pixel is drawn if a ring passes through it or has
\* its centre inside (the "m" and "b" of VPQTreeNode.cpp:266-504, the inherited
\* "b" of plotTile.cpp:90-91).
RingsPainted ==
    feature_type = "polygon" => \A ring \in Objects :
        \A p \in PixelNodes \cap (Entered[ring] \cup Enclosed[ring]) :
            NodeIfExistPolygon(tree, p) \in {"s", "b"}

\* And nothing else is drawn: a rim where no ring passes, an interior outside
\* every ring.
NothingElsePainted ==
    feature_type = "polygon" => \A p \in PixelNodes :
        /\ NodeIfExistPolygon(tree, p) = "s" => \E ring \in Objects : p \in Touched[ring]
        /\ NodeIfExistPolygon(tree, p) = "b" => \E ring \in Objects : p \in Enclosed[ring]

\* A rim is drawn as interior only inside another ring: which of the two is
\* seen where rings overlap depends on their order, elsewhere nothing does.
RimLostOnlyInside ==
    feature_type = "polygon" => \A ring \in Objects : \A p \in PixelNodes \cap Entered[ring] :
        NodeIfExistPolygon(tree, p) = "b" =>
            \E other \in Objects \ {ring} : p \in Enclosed[other]

\* VPQTreeNode.cpp:235: "When nodes in the next layer cannot contain objects,
\* the objects are inserted into the nodes that intersect with them".  So a
\* segment of the world is in some leaf that it touches.
SegmentsLeaveATrace ==
    feature_type = "line" => \A pts \in Objects :
        \A j \in 1..Len(pts) - 1 :
            IsContain(World, MBR({pts[j], pts[j + 1]})) =>
                \E p \in Leaves \cap DOMAIN tree : Touches(pts[j], pts[j + 1], Box[p])
=============================================================================
