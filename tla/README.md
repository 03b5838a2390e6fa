# A verification of HiVecMap

HiVecMap draws map tiles of large vector datasets. An off-line program,
`buildIndex`, rasterises a shapefile into a *VPQ-tree*, a quadtree over the
Mercator square, and writes it to an index file. On line, a *tile server*
answers the tile requests of a web page, and a set of *plotting* processes draw
the tiles from the trees they have read. Server and plotters exchange
everything through a Redis server. Paths below are relative to
`src/HiVecMap_code/`.

This directory holds TLA+ models of these programs, the TLC runs that check them
on small instances, and theorems about them that TLAPS checks for all instances.
`PROJECT.json` maps every definition to the lines it models.

## 1. Inventory

| Component | State | Operations | Talks to | What makes it correct |
|---|---|---|---|---|
| Tile server, `src/TMS_server.cpp` | per request: task string, pixel buffer, subscription | look the tile up, subscribe, push the task, wait for its name on the channel, read again, colour, answer | Redis; browser | each request answered once, with its own tile; no wait without end |
| Plotting worker, `src/plotting_main.cpp` | task, `tile_area` (survives the task), three trees | pop, draw, store, check, expire, publish; `catch (...)` | Redis; index files at start | a task ends with a message or is reported; the tile is there when the message arrives |
| Redis and its wrapper, `include/Redis.h` | list `tilelist`, one sorted set per tile with an expiry, channel `HiVecMapTiles` | LPUSH, BRPOP, ZADD, ZRANGE, EXPIRE, PUBLISH, SUBSCRIBE | both programs | no key that lives for ever; queue order |
| VPQ-tree construction, `src/VPQTreeNode.cpp`, `src/buildVPQTree.cpp` | the tree; `polygon_type` per node ('s' boundary, 'm' provisional, 'b' interior) | insert point, line segment, ring | shapefile reader | nothing inserted is lost, nothing appears that was not inserted |
| Index file, `VPQTreeNode.cpp:549-597`, `src/VPQTreeNodeS.cpp`, `src/buildIndex_main.cpp` | the file; the reader's tree | save in preorder, read back, skip if present | `buildIndex` and `plotting` | what is read is what was built |
| Tile lookup, `src/plotTile.cpp:22-274` | - | descend from a node to a tile or a pixel | trees | the node found is the one whose square holds the pixel |
| Pixel kernel, `src/plotTile.cpp:276-647` | `tile_area` | value of a pixel from the nodes around it | trees | value 4 on an object, less beside it, -1 inside a polygon, in whatever tile the pixel is drawn |
| Colouring, `src/TMS_server.cpp:74-77,122-174` | - | pixel value and style to RGBA bytes | request | less opacity or coverage is never drawn more opaque |
| Scripts, `plotting.sh`, `buildIndex.sh`, `stop.sh` | processes up or down; the plotters are the ranks of one `mpirun` job (`process`, 1 by default) | start all, kill all, Redis too | - | who is connected is served; who is not is known |
| Page, `flask/` | layer and style chosen | OpenLayers asks for tiles; the button "Enter" asks again in another style | tile server | - |
| Crow, hicore, OpenLayers, jQuery, colour picker | third party | - | - | - |

Hard behaviours: several handlers and several workers interleave through
Redis with no transaction; a tile's key may expire between any two of their
calls; a worker takes a task off the list before it is done; errors are caught
and forgotten; a worker that dies takes the whole job with it; neither `zget` after a wake-up nor ZADD is checked; when Redis dies,
its missing replies kill some processes and leave others waiting; the presence of
an index file is taken for its completeness; a pixel's value is the outcome of
nested loops with early ends over nodes of several tiles. `PROJECT.json` lists
them under `hazards`, each at its line and with the properties that watch it.

## 2. Modules

* `TileService` - handlers, workers and Redis together. Every Redis call is one
  action; between two calls anything may happen.
* `TileLease` - extends `TileService` by a record of delays: how long a stored tile
  had been kept when the handlers it was drawn for are told, and read it.
* `TileAnswer` - the promise to the browser, with no Redis in it: a client asks,
  is shown one picture, and it is the right one, or noise if the tile had lapsed.
  `TileLease` implements it (`Answers == INSTANCE TileAnswer WITH ...`).
* `MCTileLease` - symmetry for TLC.
* `TileServiceProofs` - the theorems of `TileService` and `TileLease`.
* `ServiceOutage` - extends `TileService` by a Redis server that dies and comes
  back with a snapshot, connections that die with it, and server and workers
  that die on missing replies.
* `ServiceOutageProofs` - its theorems.
* `IndexFile` - one builder and any number of readers of the index file.
* `MCIndexFile` - the trees and file sizes TLC tries.
* `IndexFileProofs` - its theorems.
* `Quadtree` - a quadtree as a value, shared by `IndexFile` and `VPQTree`.
* `VPQTree` - how `buildIndex` makes the tree out of points, polylines or rings.
* `MCVPQTree` - the points, polylines and rings TLC inserts.
* `VPQTreeProofs` - the theorem about its shape; `LineProofs`, which extends it - those
  about points and lines; `RingProofs`, which extends that - those about rings.
* `PixelKernel` - what one node beside a pixel adds to it.
* `TilePlot` - extends `VPQTree` and `PixelKernel`: lookups and samplers draw the
  pixels of tiles from the tree that the insertions made.
* `MCTilePlot` - the points, polylines and rings TLC draws.
* `TilePlotProofs` - its theorems; it extends `RingProofs`.
* `TileStyle` - value and opacity to ink and alpha; `TileStyleProofs` - its theorems.

The pieces meet as in the program: `TilePlot` is the whole way from an object to
a byte of `tile_area`, `TileStyle` takes such a byte (its `Values` are what
`PlotTypesCorrect` allows) to what the browser shows, and `TileService` carries a
tile of them, as a picture named by its tile, from a worker to the request it
answers. `IndexFile` carries the tree from `buildIndex` to the workers; what it
assumes of a tree, `IsTree`, is what `ShapeCorrect` proves of `VPQTree`.

### TileService and the code

| Model | Code |
|---|---|
| `hpc[h]` | where the handler is, named by its next Redis call |
| `htile[h]`, `hbuf[h]` | `task`, `buffer_area`; a picture is named by the tile it shows, `Garbage` is memory nobody wrote |
| `inbox[h]` | replies on the subscribed connection that are not yet read |
| `tilelist`, `cache[t]`, `ttl[t]` | the Redis list, the members of a tile's sorted set, the key's remaining life |
| `wpc[w]`, `wtask[w]`, `warea[w]` | the worker's next call, `task`, `tile_area` |
| `dropped`, `faults` | bookkeeping: the tiles whose task was given up and that nobody has queued since (`Push` takes a tile out), and how many faults there were |
| `Accept`, `LookupHit/Miss`, `Subscribe`, `Push`, `Receive`, `Fetch`, `Respond` | `TMS_server.cpp:71-199` in order |
| `Pop`, `Render`, `Zset`, `Check`, `Expire`, `Publish` | `plotting_main.cpp:131-183` in order |
| `Fail` | the `catch (...)` of line 189 |
| `Crash`, `Abort`, `Restart` | a rank of the `mpirun` job dies (a signal, out of memory, `stop.sh:2`); `mpirun` kills the other ranks, at some later moment; `plotting.sh` is run again and starts them all |
| `AllDown` | the job is over; with `process=1` (`plotting.sh:6`) that is what any `Crash` leads to at once |
| `Tick` | one unit of time: Redis deletes keys whose time is up |

Kept on purpose: the ignored result of the second `zget` (`Fetch` leaves
`Garbage` in the buffer), ZADD keeping the remaining life of an existing key
(`Zset` leaves `ttl` alone), EXPIRE on a missing key doing nothing, an unknown
kind of layer storing the previous picture, the dangling score pointer of
`Redis.h:58` (`ScoreDangles`: a ZADD may be rejected, which only the loop of
line 179 notices). The sorted set may hold several members, and ZRANGE's first
is any of them, because scores have a resolution of one second. Left out:
pixels (`TilePlot`), PNG encoding, the colour parameters of the URL (`TileStyle`;
two requests that differ only in colour share task and tile), and connections
that fail (`ServiceOutage`).

No step waits for the clock and the clock waits for nobody: a process may be paused
for any number of ticks at any of its steps. The code counts on a tile living 10
seconds after EXPIRE while everyone who needs it is quicker than that, and nothing
in it sees to that. So nothing in the models does; what follows from being late is
recorded by `TileLease` and stated by the properties.

### TileLease and the code

`age[w]` counts the ticks from a worker's EXPIRE to its PUBLISH, `lag[h]` those from
the EXPIRE before the message that woke a handler to its second `zget`; both stop at
`TTL`. There is one other way to be late: ZADD keeps the remaining life of an older
key, which may run out after the check of line 179 and before the EXPIRE of line 182,
which then prolongs nothing. `LeaseTick` sets the worker's `age` to `TTL` when that
happens. No step depends on the two variables, and each step of `TileLease` is a
step of `TileService` (`LeaseRefines`).

`Lapsed(h)` is `lag[h] = TTL`: the handler's tile had a whole life and outlived it, or
got none. `WokenFindsTile` says that the second `zget`, whose result is ignored,
misses in these two cases only: failing ZADDs, second workers, deaths and restarts
add no third one. `AnswersSpec` says that noise is served only then. Both windows are
real, and a drawn-out pause of a worker or a handler opens them; the properties do
not claim that they stay closed.

### ServiceOutage and the code

| Model | Code |
|---|---|
| `redis`, `dump` | the Redis server, its `dump.rdb` |
| `server` | the tile server process, with all its handlers |
| `hlost`, `slost`, `wlost` | dead connections: a handler's `redis`, its `rc`, a worker's `redis` |
| `Save`, `RedisDies`, `RedisStarts` | snapshot; `stop.sh:4` or any death; start with what the snapshot holds, less the keys whose time is up |
| `AcceptAnyway`, `SubscribeAnyway` | the two connections of a request are opened at different moments, and used whether or not they are there (`TMS_server.cpp:86-90,102`) |
| `PushLost`, `CallLost` | LPUSH, ZADD, EXPIRE, PUBLISH without a reply: nobody looks (`Redis.h`) |
| `ServerDies`, `WorkerDies` | ZRANGE or BRPOP without a reply: `Redis.h:115,123` look into NULL |
| `JobAborts` | `mpirun` ends the job of which a worker has died |
| `ServerStarts`, `JobStarts` | somebody starts the server or the workers' job again; the job only stays if Redis is up (`plotting_main.cpp:73-78`) |

Everything else is `TileService`'s own action, allowed while its connection lives
(`HandlerAsBefore`, `WorkerAsBefore`). A dead subscription still gives the messages
that had arrived; after those `redisGetReply` fails at once and the loop of lines
105-109 spins, which the model shows as a handler that stays at `wait`.

### IndexFile and the code

A node is the sequence of quadrants that leads to it, a tree a function from
nodes to kinds; closed under taking parents. `Preorder` is the order in which
`saveToFile`/`saveToFile_polygon` visit it (`Visit` is one call of them) and `SaveToFile` the records they write,
one per node but the root.
`Stat`, `Open`, `Write`, `Close` are a run of `buildIndex`, `Kill` its death (or
a full disk: the stream ignores everything after a failed write, which leaves
the same prefix). A point or line record has no `polygon_type`; its kind is
the constructor's 's' throughout. `ReadOpen`, `ReadRecord`, `ReadDone` are
`readIndexFile`/`readIndexFile_polygon`, with the climb over `parent`
pointers (`Up`), a null parent being a crash (`segv`). A record cut in the
middle does not count, as `total_size / sizeof(...)` rounds down. Left out:
the tree destructors, timing output, and a second concurrent `buildIndex`.

### VPQTree and the code

`tree` is the tree, `inserted` the objects so far, `feature_type` the kind of
shapefile; `BuildPoint`, `BuildLine`, `BuildRing` are one round of the three loops
of `buildVPQTree.cpp`, each with every call it makes. The predicates
(`IsContain`, `IsIntersect`, `IsCoverNode`, `IsInPolygon`, `IsInMBR`) are
formulas over the same numbers. A recursive descent is given by the set of nodes
it reaches: `OnTheWay`, `MBNode` for `buildMBNode` and `InsertPointObject`,
`Reached` for `InsertLineObject` and `InsertPolygonSegment`, `BoxVisits` and
`Interior` for `InsertPolygonBox`. This is exact because no descent reads what
it has itself written in another branch, and it needs no recursive operator.

A ring is inserted in three steps: the nodes down to its MBNode, where a new
child of the root is provisional ('m'), its segments, which make or keep rims
('s'), and its inside, which makes nodes interior ('b') where the segments left
room. Plotting (`NodeIfExistPolygon`, `plotTile.cpp:78-135`) takes a missing
node below a 'b' as interior too.

Coordinates are integers in a world whose width is a multiple of
`Pow2[TqTreeLevel + 1]`, so every corner and centre is exact, as it is in the
upper levels of the real tree, whose corners are the world's width times a short
binary fraction. What rounding does at its deepest levels is left out, and so is
the reprojection of coordinates (`coordTran`). Of the objects it is assumed that a
polyline has an edge and that a ring ends where it starts (`LinesAssumption`,
`RingsAssumption`); nothing is assumed of where they lie or of the shape of a ring.

The reference the properties compare with is not the code's: separating axes for
segment and square (`Enters`, `Touches`), and for a ring the even-odd rule, stated
by the side of an edge that a point is on (`EvenOdd`), which is defined for concave
rings and for rings that cross themselves. The code's `IsInPolygon` counts
edges by another formula and with the other convention for a vertex on the ray, so
that the two agree is a lemma and not a definition. `MCVPQTree` checks the
reference itself against a third one, one side of every edge for a convex ring
(`Inside`, `ConvexRings`).
Interiors and rims are compared at levels 2 and below, where pixels are looked
up (`PixelNodes`); a provisional node is never one of those (`TypeOK`).

### TilePlot, PixelKernel and the code

`pixel` is a pixel of a tile, `value` its byte of `tile_area`, `visited` how many of
the eight nodes around it the loops over `m` and `n` have been to. `Build` is a
step of `VPQTree`; `Begin` is the start of a pixel's iteration, its own node
included (`OwnValue`), and `Visit` is one turn of the innermost loop; value 4 ends
all loops. The three samplers differ in `OwnValue` and in `NeighbourMarks`.
The pixels of a tile are shared out by OpenMP; each is written by its own iteration
and read by no other, so one at a time in any order is all there is.

| Model | Code |
|---|---|
| `Down`, `Towards` | the loop that all lookups share: halve the box, go to the child that holds the point |
| `LocateTileNode`, `NodeIfExist`, `NodeIfExistPolygon`, `LocatePixNode` | the functions of the same names, `plotTile.cpp:22-274` |
| `Seek`, `SeekBox`, `Blank` | the choice of sampler in `plotting_main.cpp:144-176`: points and lines start at the tile's node and leave a tile without one blank, polygons start at the root |
| `Children`, `Nearest`, `ChildMarks` | `getNearestCNode`, `getNearestCNode_polygon`, `plotTile.cpp:276-374` |
| `Marks`, `Adds` | the comparisons with `R1`, `R2` and `R`, `plotTile.cpp:420-446,505-536,600-632` |

Distances are exact: the unit is a quarter of a pixel, `R1` and `R2` lie between
squares of integers, and where a sample lies on the circle of radius `R` its rounded
distance may come out on either side, so both marks are possible. The pixel's
distance from a neighbour's child is never 0, so `dist == 0` means that there is no
child. A lookup reads no geometry: the level of a node and the halving of
boxes are all it goes by.

### TileStyle and the code

`AD` is the opacity in parts of `Scale`, `value` a byte of `buffer_area`, `shown` what
the pixel looks like. `Restyle` is the button "Enter" of the page, which requests
the same tile with another opacity, `SelectLayer` the list of layers, `NextPixel` the
loop over the tile. `A`, `AH`, `Ax` are the three factors of `TMS_server.cpp:74-76`,
`Level` the alpha as it is computed in int, `Byte` its conversion when it is stored.
Ink stands for the three colour bytes.

## 3. Runs

| Run | Bounds | Shows |
|---|---|---|
| `service_answers` | 2 handlers, 2 workers, 2 tiles, life of 2 ticks, at most 2 tasks and messages in flight at a new request, no faults, any delays | the refinement of `TileAnswer` with its liveness: one answer to a request, its own tile or noise if it had lapsed, and no request without an answer |
| `service_faults` | 2 handlers, 2 workers, 3 tiles of which one of unknown kind, life of 2 ticks, two faults, any delays, ZADD may fail | no lost wake-up, no immortal tile but one given up, no failed second `zget` but for a lapsed tile, no foreign picture |
| `service_stranded` | 2 handlers, 2 workers, 2 tiles, life of 1 tick, two faults | only a task given up, or a job that is over for good, strands handlers |
| `index_file` | point/line trees of up to 2 leaves at depth 3, polygon trees of up to 3 nodes in two levels with all kinds, one reader, builds killed at any record | round trip, safe reading of any prefix, stability of a complete file |
| `tree_lines` | depth 3, width 16; all integer points, segments with ends from {-2, 0, 1, 3, 4, 8, 9, 13, 16} squared, bends on {2, 5, 8} squared; one object | a point is in a leaf that contains it, a polyline in the leaves it enters and in none it does not touch |
| `tree_rings` | depth 3, width 16; rectangles and right triangles on {0, 3, 8, 14} squared, both orientations; two rings | rims and interiors are drawn and nothing else, in either order |
| `tree_midline` | depth 3, segments on {1, 3, 8, 13} squared | **violation**: a segment along a midline is in no leaf (see Findings) |
| `plot_tiles` | depth 3, width 16, zoom levels 1 and 2 with tiles of 2 x 2 pixels; 6 points, 8 polylines or 7 rings that cross tiles, run beside their borders or stay in a pixel; two objects | lookups across tiles, and what a pixel may and must show of the objects |
| `style_alpha` | all opacities of two decimals, all values, all layers | less opacity or coverage is not drawn more opaque while the alpha is in range; below it points, lines and rims are drawn opaque |
| `style_fade` | the same | **violation**: less opacity may be drawn opaque (see Findings) |
| `service_outage` | 2 handlers, 2 workers, 1 tile, life of 1 tick, one fault, one death of Redis, one snapshot that holds something, any delays | an outage strands only whom it disconnects; every other request ends |
| `index_truncated` | the same as `index_file` with one leaf | **violation**: "successfully" does not mean complete (see Findings) |

Why these bounds are enough: two handlers make every race between two requests
for the same and for different tiles; two workers make duplicate drawing, and a
worker's EXPIRE racing another's; a life of two ticks separates a key that is
about to expire from one that is fresh. Any first fault may find its victim at each
step; after `Crash` the job may go on for a while without that worker, or `Abort` may
end it, and a second fault may strike the workers that are left or the next job. That
a job is over for good is thus among the behaviours of `service_stranded` and
`service_outage`, with tasks still in the list; `[]AllDown` is their name for it.
A job of one worker, the default, is the case in which `Abort` follows at once.
`Backlog`, `MaxFaults` and `MaxOutages` only limit the state space; the theorems hold for any
value of all constants. A deadlock is checked in `service_answers`; the other runs
may stop (a stranded handler, a finished reader, the end of a shapefile), and
say so. The coordinates of `tree_lines` and `tree_rings` lie on the midline of the
root (8), of its quadrants (4), of the nodes below those (2, 14), on leaf centres
(odd numbers) and outside; points and lines only add nodes, each by itself, so one
object shows everything, while rings meet each other's nodes and need two. In
`plot_tiles` every pixel of zoom level 1 is a corner of its tile, and at level 2
tiles have neighbours on all sides, so a lookup starts at the tile's node or at the
root for some neighbour of every pixel; pixels of zoom level 2 are at the depth of
the leaves, which have no children, as zoom 10 is in the real tree of 18 levels,
and those of level 1 above it, as the zoom levels 0 to 9 of the page are. As a node without children is the exception of
`NothingFarAway`, its bound on full marks constrains the pixels of level 1 only;
the bound on all marks, one pixel, is for both. In `service_outage` one death of
Redis finds each connection at each step, and one snapshot may be taken at any
moment before it; a second one could only repeat that.

Fairness (`FairSpec`): weak fairness of each handler's and each worker's next
step - they are threads and processes that the operating system schedules.
Arrivals, faults, time, the end of a broken job and the start of a new one are
owed by nobody. `BRPOP` and the wait
for a message are disabled while there is nothing to take, so weak fairness asks
nothing of a blocked process. `OutageFairSpec` is the same with the steps of
processes that lost a connection; starting Redis, a job or the server again is
owed by nobody, as no script does it.

### Findings

`index_truncated`: README 4.3 tells the user to open the map once "read ...
successfully" is printed, but the print follows from the mere existence of the
file. A killed build leaves a prefix; the next `buildIndex` prints "index file
exits !" and does nothing; `plotting` reports success and draws an incomplete
map until somebody deletes the file.

`tree_midline`: `IsCoverNode` compares strictly, so a segment lying on the line
between two nodes overlaps neither. `InsertLineObject` descends while some
quadrant contains the segment and then has nowhere to go: the segment
(1,8)-(3,8) of the run makes two nodes and no leaf, and is not drawn at the
zoom levels below. The comment above the code says such objects "are inserted
into the nodes that intersect with them". In the real tree the meridians 0 and
90 degrees east and west are such lines and have exact coordinates.
`NothingLost` therefore asks only for the leaves whose interior a polyline
enters.

`style_fade`: the README promises that transparency can be changed at will. The
alpha is `AH - 1` for a pixel on an object, `value * A - 1` beside one and
`AH - 5 * Ax - 1` inside a polygon, computed in int and stored in a byte. At
opacity 0 the first is -1, stored as 255: a layer made invisible is drawn opaque.
Inside polygons the alpha is negative below 0.557, so half of the slider's range
gives an opacity that goes up and down. `FadesInRange` and `CoverageShows` say
what holds outside that range.

### What else the models show

Behaviour that no text of the repository contradicts, but that is worth knowing:

* Beside the rim of a ring, the value -1 of an interior pixel is replaced by the
  rim's samples (`plotTile.cpp:624`), by 0 when no sample is covered: a transparent
  pixel between rim and interior. `InteriorLostOnlyBesideRim` says where this
  may happen, and that nowhere else it does.
* A node without children counts as distance 0 (`plotTile.cpp:276-324`), so at
  zoom 10, whose pixels are leaves, the eight pixels around every line pixel are
  painted in full. The page stops at zoom 9, where only the nodes that a midline
  leaves without a child do this. `NothingFarAway` has this as its exception.
* A tile of points or lines without a node is blank (`plotting_main.cpp:149,164`)
  although objects beyond its border shade the pixels on the other side;
  `ObjectsShow` holds nevertheless, as it asks for the pixels that objects enter.
  `NodesFound` and `GreatestMark` say nothing of the pixels of such a tile, for which
  no neighbour is looked at.
* A task of an unknown kind stores the picture of the task before it under its own
  key. `OwnPictureOrGarbage` is about the tiles of known kinds, which never show it;
  of the unknown tile itself no row is ever drawn.
* A worker or handler that is paused long enough makes the handler draw uninitialised
  memory with status 200 (`Lapsed`).
* When the job of the workers dies, the tasks in the list outlive it, and every request
  for a tile that is not stored waits, with a thread of the server, until
  `plotting.sh` is run again; the new job then does the tasks it finds. A task that
  a worker had in its hands is lost, and frees its handlers only if somebody asks
  for the same tile again.
* When Redis dies, a handler between its two connections may live on with one of
  them: it never queues its task, or never hears of it. A server that goes on
  to read a tile through a dead connection takes every handler with it.

## 4. Proofs

`TileServiceProofs` proves, for any handlers, workers, tiles, life and bounds:

* `TypeCorrect`, by `TypeOK` being inductive (sequences through `SequenceTheorems`).
* `NoLostWakeupCorrect`: relative to `TypeOK` the property is inductive. A step
  that removes a task from the list puts it in a worker's hands, and a worker
  lets go of it only by publishing it to every subscribed handler or giving it up.
  `dropped` loses a tile only when `Push` puts it in the list.
* `NoImmortalTileCorrect`: inductive in the same way over the worker's counter.
* `OwnPictureOrGarbageCorrect`, through `PictureInv`: what is stored under a
  plottable tile's key, in a worker's area once drawn and in a handler's buffer
  is the tile itself or garbage. The area of a worker that has not drawn yet
  says nothing, which is why the property alone is not inductive.
* `WokenFindsTileCorrect`, without any assumption on time, through `LeaseInv`: the
  key of a worker about to publish has at least `TTL - age` ticks left, and that of a
  woken handler `TTL - lag`, or no expiry at all, unless `age` or `lag` has reached `TTL`. A worker about
  to call EXPIRE has its key in the store or has `age` at `TTL` already. A later
  EXPIRE only gives a key more, and PUBLISH hands the sender's `age` to those it wakes
  (`PublishWakes`); no step of another handler wakes anybody (`HandlerWakesNobody`).
* `AnswersCorrect`, likewise: every step of `TileLease` is a step of `TileAnswer` or a
  stutter. What a handler answers with is the tile's own picture or garbage by
  `PictureInv`, and garbage only if it has lapsed, because otherwise `LeaseInv` gives
  its second `zget` a tile to find.
* `LeaseRefines`: every behaviour of `LeaseSpec` is one of `Spec`, so the theorems about
  `Spec` hold of it. (The converse is plain from `TileLease`: each of its actions is
  an action of `TileService` with values for `age'` and `lag'` that always exist.)

`ServiceOutageProofs` proves for `OutageSpec`, with any number of outages and
faults, `OutageTypesCorrect`, `ConnectedNoLostWakeupCorrect` and
`ImmortalBySnapshotCorrect`. Steps that are `TileService`'s own take their types
from the lemmas of `TileServiceProofs`. `ConnectedNoLostWakeup` is inductive with
the types: a step that ends a worker's hold on a task publishes it to live
subscriptions or adds it to `dropped`, and the death of Redis, which empties the
list, leaves no waiting handler connected.

`IndexFileProofs` proves `CompleteIndexStaysCorrect`: a complete file is not
changed by any later step, because a builder between `Stat` and `Open` has no
file and one that is writing has a strict prefix. `IndexTypesCorrect`,
`ReadsWhatIsThereCorrect` and `RoundTripCorrect` follow from an invariant of
builder and readers: a file is a prefix of the records of a preorder, a reader's
tree has exactly the nodes of the records it has read, and its `seek_node` is the
last of them. That the climb of `VPQTreeNodeS.cpp:61-66` stops at the right parent
is `Preordered`: the parent of a node in a preorder is the node before it or one
above that one. `PreorderCorrect` proves that `Preorder` gives such a sequence for
every finite tree. It is defined by recursion over the tree, so that the recursive
function exists has to be proved first (`VisitExists`: it is made level by level from
the deepest one up, and a visit asks for nothing but its children's, which are deeper).
Then, in the same order, a visit lists its part of the tree (`VisitLists`): the lists
of the children are of separate parts (`ChildrenApart`), together they are everything
below the node (`BelowCases`), and two such lists can be joined (`ListsJoin`), the
second beginning with a child of a node that everything in the first is below. Of the
trees only `TreesAssumption` is used: they are finite and have their nodes' ancestors.
`BuiltTreesCorrect` in `LineProofs` proves that of every state of `VPQTree`, so the two
models fit together.

`VPQTreeProofs` proves `ShapeCorrect`: `TypeOK` is inductive. Each insertion adds
nodes whose parents are in the tree or are added with them (`Grow`): the way to
the MBNode starts at the root (`OnTheWayProperties`), a segment reaches a node
through its parent, back to the MBNode (`ReachedProperties`), and an interior
node is a child of one that was visited. That the MBNode is on the way at all
needs a longest way to exist (`HasGreatest`, from the well-foundedness of strict
inclusion on finite sets). Nothing is assumed of the geometry, so the shape holds
with floats too.

`LineProofs` proves `NothingLostCorrect` and `NothingInventedCorrect`, for any depth,
any width the assumption allows, any objects and any number of them. The invariant is
`LinesOK`: the types, the kind of the objects (`ObjectsOK`), the two properties, and
`LinesInTree`, that a line has the nodes it enters at every level and not only the
leaves. What an insertion does is settled for one object, as it only adds nodes:

* Widths halve exactly down to the leaves (`BoxSize`) and squares lie in those of
  their ancestors (`BoxWithin`), so what enters a square enters all those above it.
* The code's test of a segment against a square is the separating-axis test, but for
  segments on the border: `EntersCovers` (what enters is covered) and
  `CoversTouches` (what is covered touches). `Side` is `Cross` up to sign
  (`SideIsCross`) and takes its extremes in corners (`CornerExtremes`). The arithmetic
  multiplies variables, so products are compared by `ProductMonotone` and are
  otherwise opaque to the solver.
* A segment reaches every node it enters (`EnteredNode`), by induction on the levels:
  where one quadrant contains the segment it is the only one entered (`SoleHolder`),
  else all entered quadrants are visited. Every node reached touches the segment
  (`ReachedTouches`).

Induction is over bounded sets of numbers (`UpTo`), which needs no operator as a
parameter.

`RingProofs` proves `RingsPaintedCorrect`, `NothingElsePaintedCorrect` and
`RimLostOnlyInsideCorrect`, for any number of rings of any shape in any order. The
invariant is `RingsOK`: every node that a ring enters is in the tree (`RimsInTree`),
an "s" below the root's children is touched by a ring (`RimsTouched`), the centre of
a "b" is inside a ring that does not enter it (`InteriorsEnclosed`), and whatever has
its centre in a ring is drawn (`InsidesDrawn`). The properties alone are not inductive:
a later ring may make a rim below a "b" or an interior below an "s", and only
these relations tell what the pixels at all levels then show. The argument rests on:

* `PolygonTest`: `IsInPolygon` is the even-odd rule on rings, edge by edge
  (`EdgeTest`).
* `ParityConstant`: in a square that no edge enters, all points strictly inside are
  inside the ring or none is. Moving a point changes the crossings of an edge only if
  one end of the edge is passed, and the ends are shared by the edges of a closed
  ring, so the changes cancel (`RingChanges`, `OddXor`, `OddShift`).
* `BelowMBNode` and `InsidePainted`: from the MBNode of a ring to a pixel with its
  centre inside, the descent of `InsertPolygonBox` meets rims only, until it makes or
  finds an interior node.

`TilePlotProofs` proves six properties of `TilePlot` for any depth, zoom levels, tile
size and objects. `PlotTypesCorrect` and `GreatestMarkCorrect` use no geometry of
objects: the value of an unfinished pixel is the greatest of
its own and of one mark for each neighbour visited so far (`SampleInv`), and
of the children of one node the nearest gives a mark no other exceeds, as a mark
depends on the distance alone for children of one neighbour (a case for each
of the eight). `NodesFoundCorrect`: the squares `n` levels below a node are the cells
of a grid (`Grid`), a neighbour is a cell of its tile's grid and of the world's
(`BesideCell`), one with its centre inside the square of a node is a
descendant of it (`CellIsNode`), and a descent to the centre of a node's square
goes along its path (`Descent`), from whatever node above it starts; squares tell
their nodes apart (`BoxInjective`). The last three theorems join everything:
their invariant, `PlotOK`, is `LinesOK` and `RingsOK` of the tree with `SampleInv`
and `BlankInv` (a pixel of a blank tile is 0 and done) of the loop.
`ObjectsShowCorrect` takes a pixel that an object enters to its node (`OwnNode`), which the
tree has at whatever level the pixels are, with the tile's node above it
(`AncestorsInTree`). `NothingFarAwayCorrect` goes back from a mark to the node
that gave it and to the object that touches the node (`NodeMeets`); that no child
and no point gives a full mark is a table (`ChildMarksTable`, `NodeMarks`).
`InteriorLostOnlyBesideRimCorrect` uses `RingsPainted` for the pixel's own node and
the table for the only marks that are 0 (`FarSide`).

`TileStyleProofs` proves `OpaqueBelowRangeCorrect`, `FadesInRangeCorrect` and
`CoverageShowsCorrect` for any `Scale`: the factors grow with the opacity because
division does (`TruncatedOrder`), in range an alpha is its byte (`ByteOf`), and below
the range the factor of a point, a line or a rim is truncated to 0
(`TruncatedToNothing`), which leaves an alpha of -1 and a byte of 255. The factor of
an interior is negative by more than that, and its bytes take all values.

Every safety and action property that a passing run checks is the subject of a
theorem, but for `StyleTypeOK`. Only model-checked: that and liveness under fairness
(`AnswersFairSpec`, `StrandedOnlyByDrop`, `EndsOrStrands`), which the prover does not
do.

## 5. Not modelled, and why

* Third-party code: `include/crow.h`, the hicore headers, and the page's
  `jquery.js`, `ol.js` and `bootstrap-colorpicker.js`. The last three are the only
  JavaScript files there are; the program itself is C++ with a script of a few
  lines inside `HiVecMap.html`, which `TileStyle` models as far as it has effects.
  The map therefore covers C++ and the page, and no line of a `.js` file.
* PNG encoding and the temporary file it goes through: output, no state.
* Rounding of floats: coordinates are exact, except where a rounded distance
  decides between two marks, which is left open (`Adds`).
* The reprojection of coordinates (`coordTran`) and the parsing of arguments. The
  address of Redis is fixed in the handler (`TMS_server.cpp:82`) and given to the
  worker; the models have one Redis.
* A second `buildIndex` at the same time, and versions of an index: whoever rebuilds
  deletes the file by hand first.
* Memory use: `getNearestCNode` leaks, and the handlers do; its outcome is `Crash`.
* The loops over the tile that OpenMP shares out: their iterations write
  disjoint pixels.
* `get`, `set`, `del`, `llen`, `lindex`, `rpop` of `Redis.h`: never called.
