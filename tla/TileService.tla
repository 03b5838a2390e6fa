---------------------------- MODULE TileService ----------------------------
(***************************************************************************)
(* How a map tile gets from a plotting worker to a browser: the request    *)
(* handlers of the tile server (TMS_server.cpp), the plotting workers      *)
(* (plotting_main.cpp) and the Redis server through which, and only        *)
(* through which, they talk (Redis.h):                                     *)
(*   - the list "tilelist": LPUSH by the handlers, BRPOP by the workers;   *)
(*   - one sorted set per tile, written with ZADD, read with ZRANGE and    *)
(*     deleted by Redis when the time set by EXPIRE has run out;           *)
(*   - the channel "HiVecMapTiles": PUBLISH by the workers, one            *)
(*     subscription per waiting handler.                                   *)
(* A handler or a worker is a sequential program; each of its Redis calls  *)
(* is one atomic action here, and anything may happen between two calls.   *)
(***************************************************************************)
EXTENDS Naturals, SequencesExt, FiniteSets

CONSTANTS
    Handlers,        \* server threads that run the route handler
    Workers,         \* plotting processes, the ranks of one mpirun job
    Tiles,           \* task strings "shpType/z/x/y", which are also the keys
    Plottable,       \* the tiles whose shpType is point, line or polygon
    NoTile,          \* no request, no task
    Garbage,         \* bytes nobody wrote: an uninitialised buffer
    TTL,             \* ticks that an EXPIRE lasts (10 s in the code)
    ScoreDangles,    \* the dangling score pointer of zset may spoil a ZADD
    MaxFaults,       \* bound: exceptions and deaths of workers in a behaviour
    Backlog          \* bound: tasks and messages in flight at a new request

ASSUME PlottableAssumption == Plottable \subseteq Tiles
ASSUME NoTileAssumption == NoTile \notin Tiles
ASSUME GarbageAssumption == Garbage \notin Tiles \cup {NoTile}
ASSUME TTLAssumption == TTL \in Nat \ {0}
ASSUME SwitchAssumption == ScoreDangles \in BOOLEAN
ASSUME BoundAssumption == MaxFaults \in Nat /\ Backlog \in Nat

VARIABLES
    hpc,       \* hpc[h]: the next call of handler h
    htile,     \* htile[h]: its `task`
    hbuf,      \* hbuf[h]: its `buffer_area`, the picture it will answer with
    inbox,     \* inbox[h]: messages published to its subscription, unread
    tilelist,  \* the Redis list, LPUSH at its head and BRPOP at its tail
    cache,     \* cache[t]: the members of the sorted set of t, {} if no key
    ttl,       \* ttl[t]: ticks the key has left, 0 if no expiry is set
    wpc,       \* wpc[w]: the next call of worker w
    wtask,     \* wtask[w]: its `task`
    warea,     \* warea[w]: its `tile_area`, which outlives the task
    faults,    \* bound: exceptions and deaths so far
    dropped    \* history, on which no step depends: tiles whose task was
               \* given up and that nobody has queued again since

handlerVars == <<hpc, htile, hbuf, inbox>>
redisVars == <<tilelist, cache, ttl>>
workerVars == <<wpc, wtask, warea>>
faultVars == <<dropped, faults>>
vars == <<hpc, htile, hbuf, inbox, tilelist, cache, ttl,
          wpc, wtask, warea, dropped, faults>>

Images == Tiles \cup {Garbage}
HandlerPCs == {"idle", "lookup", "subscribe", "push", "wait", "fetch", "respond"}
WorkerPCs == {"pop", "render", "zset", "check", "expire", "publish", "down"}

TypeOK ==
    /\ hpc \in [Handlers -> HandlerPCs]
    /\ htile \in [Handlers -> Tiles \cup {NoTile}]
    /\ hbuf \in [Handlers -> Images]
    /\ inbox \in [Handlers -> Seq(Tiles)]
    /\ tilelist \in Seq(Tiles)
    /\ cache \in [Tiles -> SUBSET Images]
    /\ ttl \in [Tiles -> 0..TTL]
    /\ wpc \in [Workers -> WorkerPCs]
    /\ wtask \in [Workers -> Tiles \cup {NoTile}]
    /\ warea \in [Workers -> Images]
    /\ dropped \subseteq Tiles
    /\ faults \in 0..MaxFaults
    /\ \A h \in Handlers : hpc[h] = "idle" <=> htile[h] = NoTile
    /\ \A w \in Workers : wpc[w] \in {"pop", "down"} <=> wtask[w] = NoTile

(***************************************************************************)
(* The store.                                                              *)
(***************************************************************************)
\* zget: ZRANGE finds a member unless the key does not exist.  Which member
\* comes first depends on scores of one second's resolution: any may.
Present(t) == cache[t] # {}

\* The handlers whose connection is in subscribed mode.
Subscribed(h) == hpc[h] \in {"push", "wait", "fetch"}

\* The message that wakes h has been published and h has not read its tile.
Woken(h) == \/ hpc[h] = "fetch"
            \/ Subscribed(h) /\ Contains(inbox[h], htile[h])

InFlight == Len(tilelist) + Cardinality({w \in Workers : wtask[w] # NoTile})

(***************************************************************************)
(* The route handler.                                                      *)
(***************************************************************************)
Init ==
    /\ hpc = [h \in Handlers |-> "idle"]
    /\ htile = [h \in Handlers |-> NoTile]
    /\ hbuf = [h \in Handlers |-> Garbage]
    /\ inbox = [h \in Handlers |-> <<>>]
    /\ tilelist = <<>>
    /\ cache = [t \in Tiles |-> {}]
    /\ ttl = [t \in Tiles |-> 0]
    /\ wpc = [w \in Workers |-> "pop"]
    /\ wtask = [w \in Workers |-> NoTile]
    /\ warea = [w \in Workers |-> Garbage]
    /\ dropped = {}
    /\ faults = 0

\* A request arrives; `buffer_area` is fresh from malloc.
Accept(h, t) ==
    /\ hpc[h] = "idle"
    /\ \A k \in Handlers : Len(inbox[k]) + InFlight < Backlog
    /\ hpc' = [hpc EXCEPT ![h] = "lookup"]
    /\ htile' = [htile EXCEPT ![h] = t]
    /\ hbuf' = [hbuf EXCEPT ![h] = Garbage]
    /\ UNCHANGED <<inbox, redisVars, workerVars, faultVars>>

\* The first zget: a stored tile is answered at once.
LookupHit(h) ==
    /\ hpc[h] = "lookup" /\ Present(htile[h])
    /\ \E image \in cache[htile[h]] : hbuf' = [hbuf EXCEPT ![h] = image]
    /\ hpc' = [hpc EXCEPT ![h] = "respond"]
    /\ UNCHANGED <<htile, inbox, redisVars, workerVars, faultVars>>

LookupMiss(h) ==
    /\ hpc[h] = "lookup" /\ ~Present(htile[h])
    /\ hpc' = [hpc EXCEPT ![h] = "subscribe"]
    /\ UNCHANGED <<htile, hbuf, inbox, redisVars, workerVars, faultVars>>

\* A second connection is opened for the subscription.  redisCommand returns
\* with the server's confirmation, so the subscription is in force by then.
Subscribe(h) ==
    /\ hpc[h] = "subscribe"
    /\ hpc' = [hpc EXCEPT ![h] = "push"]
    /\ inbox' = [inbox EXCEPT ![h] = <<>>]
    /\ UNCHANGED <<htile, hbuf, redisVars, workerVars, faultVars>>

\* lpush("tilelist", task), whether or not somebody else asked for it already.
\* A tile that was given up is queued again by it.
Push(h) ==
    /\ hpc[h] = "push"
    /\ tilelist' = Cons(htile[h], tilelist)
    /\ dropped' = dropped \ {htile[h]}
    /\ hpc' = [hpc EXCEPT ![h] = "wait"]
    /\ UNCHANGED <<htile, hbuf, inbox, cache, ttl, workerVars, faults>>

\* Faulty: any message ends the wait.
ReceiveAny(h) ==
    /\ hpc[h] = "wait" /\ inbox[h] # <<>>
    /\ inbox' = [inbox EXCEPT ![h] = Tail(@)]
    /\ hpc' = [hpc EXCEPT ![h] = "fetch"]
    /\ UNCHANGED <<htile, hbuf, redisVars, workerVars, faultVars>>

\* One turn of the redisGetReply loop: messages for other tiles are skipped.
Receive(h) ==
    /\ hpc[h] = "wait" /\ inbox[h] # <<>>
    /\ inbox' = [inbox EXCEPT ![h] = Tail(@)]
    /\ hpc' = [hpc EXCEPT ![h] = IF Head(inbox[h]) = htile[h] THEN "fetch" ELSE "wait"]
    /\ UNCHANGED <<htile, hbuf, redisVars, workerVars, faultVars>>

\* The second zget, whose result is ignored: if the key is gone the buffer
\* keeps what malloc left in it.  Then the subscription is closed.
Fetch(h) ==
    /\ hpc[h] = "fetch"
    /\ IF Present(htile[h])
       THEN \E image \in cache[htile[h]] : hbuf' = [hbuf EXCEPT ![h] = image]
       ELSE hbuf' = hbuf
    /\ inbox' = [inbox EXCEPT ![h] = <<>>]
    /\ hpc' = [hpc EXCEPT ![h] = "respond"]
    /\ UNCHANGED <<htile, redisVars, workerVars, faultVars>>

\* What handler h draws from its buffer; the rows of an unknown shpType are
\* never written.
Picture(h) == IF htile[h] \in Plottable THEN hbuf[h] ELSE Garbage

\* Picture(h) is sent and the buffer freed.
Respond(h) ==
    /\ hpc[h] = "respond"
    /\ hpc' = [hpc EXCEPT ![h] = "idle"]
    /\ htile' = [htile EXCEPT ![h] = NoTile]
    /\ hbuf' = [hbuf EXCEPT ![h] = Garbage]
    /\ UNCHANGED <<inbox, redisVars, workerVars, faultVars>>

HandlerStep(h) ==
    \/ LookupHit(h) \/ LookupMiss(h) \/ Subscribe(h) \/ Push(h)
    \/ Receive(h) \/ Fetch(h) \/ Respond(h)

(***************************************************************************)
(* The plotting worker.                                                    *)
(***************************************************************************)
\* Faulty: a stored tile is not drawn again, and nobody is told.
PopSkipsStored(w) ==
    /\ wpc[w] = "pop" /\ tilelist # <<>>
    /\ LET t == Last(tilelist) IN
          IF Present(t)
          THEN UNCHANGED <<wpc, wtask>>
          ELSE wtask' = [wtask EXCEPT ![w] = t] /\ wpc' = [wpc EXCEPT ![w] = "render"]
    /\ tilelist' = Front(tilelist)
    /\ UNCHANGED <<handlerVars, cache, ttl, warea, faultVars>>

\* Faulty: BLPOP, the newest task first.
PopNewest(w) ==
    /\ wpc[w] = "pop" /\ tilelist # <<>>
    /\ wtask' = [wtask EXCEPT ![w] = Head(tilelist)]
    /\ tilelist' = Tail(tilelist)
    /\ wpc' = [wpc EXCEPT ![w] = "render"]
    /\ UNCHANGED <<handlerVars, cache, ttl, warea, faultVars>>

\* BRPOP blocks until the list has an element and removes its tail.
Pop(w) ==
    /\ wpc[w] = "pop" /\ tilelist # <<>>
    /\ wtask' = [wtask EXCEPT ![w] = Last(tilelist)]
    /\ tilelist' = Front(tilelist)
    /\ wpc' = [wpc EXCEPT ![w] = "render"]
    /\ UNCHANGED <<handlerVars, cache, ttl, warea, faultVars>>

\* Faulty: an empty tile is not cleared.
RenderKeepsEmpty(w) ==
    /\ wpc[w] = "render"
    /\ warea' = warea \/ (wtask[w] \in Plottable /\ warea' = [warea EXCEPT ![w] = wtask[w]])
    /\ wpc' = [wpc EXCEPT ![w] = "zset"]
    /\ UNCHANGED <<handlerVars, redisVars, wtask, faultVars>>

\* The three kinds overwrite every byte of `tile_area`; an unknown shpType
\* leaves the previous task's picture in it.
Render(w) ==
    /\ wpc[w] = "render"
    /\ warea' = [warea EXCEPT ![w] = IF wtask[w] \in Plottable THEN wtask[w] ELSE @]
    /\ wpc' = [wpc EXCEPT ![w] = "zset"]
    /\ UNCHANGED <<handlerVars, redisVars, wtask, faultVars>>

\* ZADD keeps the expiry that the key already has.  The reply is not looked
\* at, and the score argument points into a destroyed string.
Zset(w) ==
    /\ wpc[w] = "zset"
    /\ \/ cache' = [cache EXCEPT ![wtask[w]] = @ \cup {warea[w]}]
       \/ ScoreDangles /\ cache' = cache
    /\ wpc' = [wpc EXCEPT ![w] = "check"]
    /\ UNCHANGED <<handlerVars, tilelist, ttl, wtask, warea, faultVars>>

\* Faulty: the loop is dropped.
CheckOnce(w) ==
    /\ wpc[w] = "check"
    /\ wpc' = [wpc EXCEPT ![w] = "expire"]
    /\ UNCHANGED <<handlerVars, redisVars, wtask, warea, faultVars>>

\* Faulty: no EXPIRE for a key that was already there.
CheckSkipsExpire(w) ==
    /\ wpc[w] = "check"
    /\ wpc' = [wpc EXCEPT ![w] = IF Present(wtask[w]) THEN "publish" ELSE "zset"]
    /\ UNCHANGED <<handlerVars, redisVars, wtask, warea, faultVars>>

\* while (!zget) zset
Check(w) ==
    /\ wpc[w] = "check"
    /\ wpc' = [wpc EXCEPT ![w] = IF Present(wtask[w]) THEN "expire" ELSE "zset"]
    /\ UNCHANGED <<handlerVars, redisVars, wtask, warea, faultVars>>

\* Faulty: EXPIRE NX, which leaves a key that has an expiry as it is.
ExpireOnlyNew(w) ==
    /\ wpc[w] = "expire"
    /\ ttl' = IF Present(wtask[w]) /\ ttl[wtask[w]] = 0
              THEN [ttl EXCEPT ![wtask[w]] = TTL] ELSE ttl
    /\ wpc' = [wpc EXCEPT ![w] = "publish"]
    /\ UNCHANGED <<handlerVars, tilelist, cache, wtask, warea, faultVars>>

\* EXPIRE restarts the clock of an existing key and ignores a missing one.
Expire(w) ==
    /\ wpc[w] = "expire"
    /\ ttl' = IF Present(wtask[w]) THEN [ttl EXCEPT ![wtask[w]] = TTL] ELSE ttl
    /\ wpc' = [wpc EXCEPT ![w] = "publish"]
    /\ UNCHANGED <<handlerVars, tilelist, cache, wtask, warea, faultVars>>

\* PUBLISH reaches every connection subscribed at that moment, no other.
Publish(w) ==
    /\ wpc[w] = "publish"
    /\ inbox' = [h \in Handlers |-> IF Subscribed(h) THEN Append(inbox[h], wtask[w])
                                                     ELSE inbox[h]]
    /\ wpc' = [wpc EXCEPT ![w] = "pop"]
    /\ wtask' = [wtask EXCEPT ![w] = NoTile]
    /\ UNCHANGED <<hpc, htile, hbuf, redisVars, warea, faultVars>>

WorkerStep(w) ==
    \/ Pop(w) \/ Render(w) \/ Zset(w) \/ Check(w) \/ Expire(w) \/ Publish(w)

\* Faulty: the task is kept, as if it could be resumed.
FailKeepsTask(w) ==
    /\ wtask[w] # NoTile /\ faults < MaxFaults
    /\ faults' = faults + 1
    /\ dropped' = dropped \cup {wtask[w]}
    /\ wpc' = [wpc EXCEPT ![w] = "pop"]
    /\ UNCHANGED <<handlerVars, redisVars, wtask, warea>>

\* catch (...): whatever the task had reached, it is reported on stdout and
\* forgotten; the worker goes on with the next one.  (Half-drawn bytes count as
\* the old picture: only a task of an unknown kind could copy them.)
Fail(w) ==
    /\ wtask[w] # NoTile /\ faults < MaxFaults
    /\ faults' = faults + 1
    /\ dropped' = dropped \cup {wtask[w]}
    /\ wpc' = [wpc EXCEPT ![w] = "pop"]
    /\ wtask' = [wtask EXCEPT ![w] = NoTile]
    /\ UNCHANGED <<handlerVars, redisVars, warea>>

(***************************************************************************)
(* The workers are the ranks of one mpirun job.  The death of one takes    *)
(* the others with it, though not at once, and a new job starts them all.  *)
(***************************************************************************)
\* A rank dies: a signal, the out-of-memory killer, kill -9 of stop.sh.
Crash(w) ==
    /\ wpc[w] # "down" /\ faults < MaxFaults
    /\ faults' = faults + 1
    /\ dropped' = dropped \cup ({wtask[w]} \ {NoTile})
    /\ wpc' = [wpc EXCEPT ![w] = "down"]
    /\ wtask' = [wtask EXCEPT ![w] = NoTile]
    /\ UNCHANGED <<handlerVars, redisVars, warea>>

AllDown == \A w \in Workers : wpc[w] = "down"

\* mpirun, which has lost a rank, kills the ranks that are left.
Abort ==
    /\ ~AllDown /\ \E w \in Workers : wpc[w] = "down"
    /\ dropped' = dropped \cup ({wtask[w] : w \in Workers} \ {NoTile})
    /\ wpc' = [w \in Workers |-> "down"]
    /\ wtask' = [w \in Workers |-> NoTile]
    /\ UNCHANGED <<handlerVars, redisVars, warea, faults>>

\* Faulty: the new job starts with an empty queue.
RestartFlushes ==
    /\ AllDown
    /\ wpc' = [w \in Workers |-> "pop"]
    /\ warea' = [w \in Workers |-> Garbage]
    /\ tilelist' = <<>>
    /\ UNCHANGED <<handlerVars, cache, ttl, wtask, faultVars>>

\* Somebody runs plotting.sh again: every rank reads the indexes and has its
\* `tile_area` from malloc.
Restart ==
    /\ AllDown
    /\ wpc' = [w \in Workers |-> "pop"]
    /\ warea' = [w \in Workers |-> Garbage]
    /\ UNCHANGED <<handlerVars, redisVars, wtask, faultVars>>

(***************************************************************************)
(* Time.  Redis deletes a key whose time is up, however far the programs   *)
(* are: nobody waits for the clock, nor the clock for anybody.             *)
(***************************************************************************)
Tick ==
    /\ \E t \in Tiles : ttl[t] > 0
    /\ cache' = [t \in Tiles |-> IF ttl[t] = 1 THEN {} ELSE cache[t]]
    /\ ttl' = [t \in Tiles |-> IF ttl[t] > 0 THEN ttl[t] - 1 ELSE 0]
    /\ UNCHANGED <<handlerVars, tilelist, workerVars, faultVars>>

Next ==
    \/ \E h \in Handlers : HandlerStep(h) \/ \E t \in Tiles : Accept(h, t)
    \/ \E w \in Workers : WorkerStep(w) \/ Fail(w) \/ Crash(w)
    \/ Abort \/ Restart
    \/ Tick

Spec == Init /\ [][Next]_vars

\* Threads and processes are scheduled; requests, faults, time, the end of a
\* broken job and the start of a new one are not owed.
Fairness ==
    /\ \A h \in Handlers : WF_vars(HandlerStep(h))
    /\ \A w \in Workers : WF_vars(WorkerStep(w))

FairSpec == Spec /\ Fairness

(***************************************************************************)
(* Safety.                                                                 *)
(***************************************************************************)
\* The tile of h is announced, or queued, or being worked on, or given up.
MessageToCome(h) ==
    \/ Woken(h)
    \/ Contains(tilelist, htile[h])
    \/ \E w \in Workers : wtask[w] = htile[h]
    \/ htile[h] \in dropped

\* A handler that waits has a message to come: its tile is still queued, or
\* in a worker's hands, or announced in its inbox; or a worker gave the task
\* up.  Subscribing before pushing (TMS_server.cpp:103-104) and publishing
\* after storing (plotting_main.cpp:178-183) are what this rests on.
NoLostWakeup == \A h \in Handlers : hpc[h] = "wait" => MessageToCome(h)

\* A key without expiry is one whose tile is being worked on and still to get
\* one, or queued again, unless a worker gave up between ZADD and EXPIRE
\* (plotting_main.cpp:178-182) and nobody has queued the tile since: such a
\* tile is served for ever, whatever becomes of the index.
NoImmortalTile ==
    \A t \in Tiles : Present(t) /\ ttl[t] = 0 =>
        \/ \E w \in Workers : wtask[w] = t /\ wpc[w] # "publish"
        \/ Contains(tilelist, t)
        \/ t \in dropped

\* Whatever goes wrong, no tile of a known kind is drawn with another tile's
\* picture: the wrong it can get is the uninitialised buffer.
OwnPictureOrGarbage ==
    \A h \in Handlers : hpc[h] = "respond" /\ htile[h] \in Plottable =>
        Picture(h) \in {htile[h], Garbage}

(***************************************************************************)
(* Liveness.                                                               *)
(***************************************************************************)
\* With workers that may fail, a handler is stranded only while its tile is
\* given up (plotting_main.cpp:189) and nobody queues it again, or by a job
\* that has died and is never started again.  Who asks for a given-up tile
\* sets free whoever waits for it, and a new job does the tasks it finds.
StrandedOnlyByDrop ==
    \A h \in Handlers : hpc[h] # "idle" ~>
        (hpc[h] = "idle" \/ htile[h] \in dropped \/ []AllDown)
=============================================================================
