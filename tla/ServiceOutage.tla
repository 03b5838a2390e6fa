--------------------------- MODULE ServiceOutage ---------------------------
(***************************************************************************)
(* TileService when the Redis server goes away and comes back: it is       *)
(* killed (stop.sh, out of memory), and started again it loads the last    *)
(* snapshot it saved (dump.rdb).                                           *)
(*                                                                         *)
(* A connection that was open does not survive, and neither program opens  *)
(* it again.  On such a connection hiredis returns NULL for every command. *)
(* The wrapper (Redis.h) looks into the reply of BRPOP and ZRANGE, and     *)
(* NULL kills the process that does; it throws the others away.            *)
(***************************************************************************)
EXTENDS TileService

CONSTANT MaxOutages    \* bound: deaths of Redis in a behaviour

ASSUME OutageAssumption == MaxOutages \in Nat

VARIABLES
    redis,      \* "up" or "down"
    dump,       \* the last snapshot: its list, sets and expiries
    server,     \* the tile server process: "up" or "down"
    hlost,      \* handlers whose connection for commands is dead
    slost,      \* handlers whose subscription is dead
    wlost,      \* workers whose connection is dead
    outages     \* deaths of Redis so far

outageVars == <<redis, dump, server, hlost, slost, wlost, outages>>
systemVars == <<vars, outageVars>>

Empty == [tilelist |-> <<>>, cache |-> [t \in Tiles |-> {}], ttl |-> [t \in Tiles |-> 0]]

OutageInit ==
    /\ Init
    /\ redis = "up" /\ dump = Empty /\ server = "up"
    /\ hlost = {} /\ slost = {} /\ wlost = {}
    /\ outages = 0

(***************************************************************************)
(* Redis.                                                                  *)
(***************************************************************************)
\* A snapshot in the background.  Bound: one that holds something is the last,
\* so before the first death it may be any.
Save ==
    /\ redis = "up" /\ outages < MaxOutages
    /\ dump = Empty
    /\ dump' = [tilelist |-> tilelist, cache |-> cache, ttl |-> ttl]
    /\ UNCHANGED <<vars, redis, server, hlost, slost, wlost, outages>>

\* Faulty: clients that connect again by themselves; the queue is lost all the same.
RedisDiesUnnoticed ==
    /\ redis = "up" /\ outages < MaxOutages
    /\ redis' = "down"
    /\ outages' = outages + 1
    /\ tilelist' = <<>> /\ cache' = Empty.cache /\ ttl' = Empty.ttl
    /\ UNCHANGED <<handlerVars, workerVars, faultVars, dump, server, hlost, slost, wlost>>

\* Queue and tiles are gone, and so is every open connection.
RedisDies ==
    /\ redis = "up" /\ outages < MaxOutages
    /\ redis' = "down"
    /\ outages' = outages + 1
    /\ tilelist' = <<>> /\ cache' = Empty.cache /\ ttl' = Empty.ttl
    /\ hlost' = {h \in Handlers : hpc[h] # "idle"}
    /\ slost' = {h \in Handlers : Subscribed(h)}
    /\ wlost' = {w \in Workers : wpc[w] # "down"}
    /\ UNCHANGED <<handlerVars, workerVars, faultVars, dump, server>>

\* Faulty: a snapshot without the expiries.
RedisStartsForever ==
    /\ redis = "down"
    /\ redis' = "up"
    /\ tilelist' = dump.tilelist /\ cache' = dump.cache /\ ttl' = Empty.ttl
    /\ UNCHANGED <<handlerVars, workerVars, faultVars, dump, server, hlost, slost, wlost, outages>>

\* Keys whose time ran out since the snapshot are not loaded.
RedisStarts ==
    /\ redis = "down"
    /\ redis' = "up"
    /\ tilelist' = dump.tilelist
    /\ \E elapsed \in 0..TTL :
          /\ cache' = [t \in Tiles |-> IF dump.ttl[t] \in 1..elapsed THEN {} ELSE dump.cache[t]]
          /\ ttl' = [t \in Tiles |-> IF dump.ttl[t] > elapsed THEN dump.ttl[t] - elapsed ELSE 0]
    /\ UNCHANGED <<handlerVars, workerVars, faultVars, dump, server, hlost, slost, wlost, outages>>

(***************************************************************************)
(* The tile server.                                                        *)
(***************************************************************************)
\* A failed connection is printed and used (TMS_server.cpp:87-90).
AcceptAnyway(h, t) ==
    /\ server = "up"
    /\ Accept(h, t)
    /\ hlost' = IF redis = "up" THEN hlost \ {h} ELSE hlost \cup {h}
    /\ slost' = slost \ {h}
    /\ UNCHANGED <<redis, dump, server, wlost, outages>>

\* The second connection is opened now, whatever became of the first.
SubscribeAnyway(h) ==
    /\ Subscribe(h)
    /\ slost' = IF redis = "up" THEN slost \ {h} ELSE slost \cup {h}
    /\ UNCHANGED <<redis, dump, server, hlost, wlost, outages>>

\* The reply of LPUSH is not looked at: the task is in no list.
PushLost(h) ==
    /\ h \in hlost /\ hpc[h] = "push"
    /\ hpc' = [hpc EXCEPT ![h] = "wait"]
    /\ UNCHANGED <<htile, hbuf, inbox, redisVars, workerVars, faultVars, outageVars>>

\* Steps that use a live connection or none.  A message that had arrived is
\* read from a dead subscription too; then the loop spins without end.
HandlerAsBefore(h) ==
    /\ \/ h \notin hlost /\ (LookupHit(h) \/ LookupMiss(h) \/ Push(h) \/ Fetch(h))
       \/ Receive(h) \/ Respond(h)
    /\ UNCHANGED outageVars

\* ZRANGE returns NULL: the process dies, and with it every handler.
ServerDies(h) ==
    /\ h \in hlost /\ hpc[h] \in {"lookup", "fetch"}
    /\ server' = "down"
    /\ hpc' = [k \in Handlers |-> "idle"]
    /\ htile' = [k \in Handlers |-> NoTile]
    /\ hbuf' = [k \in Handlers |-> Garbage]
    /\ inbox' = [k \in Handlers |-> <<>>]
    /\ hlost' = {} /\ slost' = {}
    /\ UNCHANGED <<redisVars, workerVars, faultVars, redis, dump, wlost, outages>>

OutageHandlerStep(h) ==
    \/ HandlerAsBefore(h) \/ SubscribeAnyway(h) \/ PushLost(h) \/ ServerDies(h)

ServerStarts ==
    /\ server = "down"
    /\ server' = "up"
    /\ UNCHANGED <<vars, redis, dump, hlost, slost, wlost, outages>>

(***************************************************************************)
(* The workers.                                                            *)
(***************************************************************************)
\* PUBLISH reaches the subscriptions that are alive.
PublishLive(w) ==
    /\ wpc[w] = "publish"
    /\ inbox' = [h \in Handlers |-> IF Subscribed(h) /\ h \notin slost
                                    THEN Append(inbox[h], wtask[w]) ELSE inbox[h]]
    /\ wpc' = [wpc EXCEPT ![w] = "pop"]
    /\ wtask' = [wtask EXCEPT ![w] = NoTile]
    /\ UNCHANGED <<hpc, htile, hbuf, redisVars, warea, faultVars>>

WorkerAsBefore(w) ==
    /\ \/ w \notin wlost /\ (Pop(w) \/ Zset(w) \/ Check(w) \/ Expire(w) \/ PublishLive(w))
       \/ Render(w)
    /\ UNCHANGED outageVars

\* ZADD, EXPIRE and PUBLISH are lost without a trace: the tile has been drawn
\* for nobody.
CallLost(w) ==
    /\ w \in wlost
    /\ \/ wpc[w] = "zset" /\ wpc' = [wpc EXCEPT ![w] = "check"] /\ UNCHANGED <<wtask, dropped>>
       \/ wpc[w] = "expire" /\ wpc' = [wpc EXCEPT ![w] = "publish"] /\ UNCHANGED <<wtask, dropped>>
       \/ /\ wpc[w] = "publish"
          /\ wpc' = [wpc EXCEPT ![w] = "pop"]
          /\ wtask' = [wtask EXCEPT ![w] = NoTile]
          /\ dropped' = dropped \cup {wtask[w]}
    /\ UNCHANGED <<handlerVars, redisVars, warea, faults, outageVars>>

\* Faulty: an empty reply is asked for again, on the same connection.
WorkerRetries(w) ==
    /\ w \in wlost /\ wpc[w] \in {"pop", "check"}
    /\ UNCHANGED systemVars

\* BRPOP and ZRANGE return NULL: the process dies, the first of its job.
WorkerDies(w) ==
    /\ w \in wlost /\ wpc[w] \in {"pop", "check"}
    /\ wpc' = [wpc EXCEPT ![w] = "down"]
    /\ wtask' = [wtask EXCEPT ![w] = NoTile]
    /\ dropped' = dropped \cup ({wtask[w]} \ {NoTile})
    /\ wlost' = wlost \ {w}
    /\ UNCHANGED <<handlerVars, redisVars, warea, faults,
                   redis, dump, server, hlost, slost, outages>>

OutageWorkerStep(w) == WorkerAsBefore(w) \/ CallLost(w) \/ WorkerDies(w)

WorkerFaults(w) ==
    /\ Fail(w) \/ Crash(w)
    /\ wlost' = IF wpc'[w] = "down" THEN wlost \ {w} ELSE wlost
    /\ UNCHANGED <<redis, dump, server, hlost, slost, outages>>

JobAborts ==
    /\ Abort
    /\ wlost' = {}
    /\ UNCHANGED <<redis, dump, server, hlost, slost, outages>>

\* Faulty: a failed connection is only printed, as in the server.
JobStartsAnyway == Restart /\ UNCHANGED outageVars

\* plotting gives up at once when it cannot connect (plotting_main.cpp:73-78).
JobStarts == redis = "up" /\ Restart /\ UNCHANGED outageVars

OutageNext ==
    \/ Save \/ RedisDies \/ RedisStarts \/ ServerStarts
    \/ \E h \in Handlers : OutageHandlerStep(h) \/ \E t \in Tiles : AcceptAnyway(h, t)
    \/ \E w \in Workers : OutageWorkerStep(w) \/ WorkerFaults(w)
    \/ JobAborts \/ JobStarts
    \/ Tick /\ UNCHANGED outageVars

OutageSpec == OutageInit /\ [][OutageNext]_systemVars

\* As in TileService: that somebody starts a program again is not owed.
OutageFairSpec ==
    /\ OutageSpec
    /\ \A h \in Handlers : WF_systemVars(OutageHandlerStep(h))
    /\ \A w \in Workers : WF_systemVars(OutageWorkerStep(w))

(***************************************************************************)
(* Properties.                                                             *)
(***************************************************************************)
\* The types, and who can have a dead connection.
OutageTypeOK ==
    /\ TypeOK
    /\ redis \in {"up", "down"} /\ server \in {"up", "down"} /\ outages \in 0..MaxOutages
    /\ hlost \subseteq Handlers /\ slost \subseteq Handlers
    /\ wlost \subseteq {w \in Workers : wpc[w] # "down"}
    /\ dump.tilelist \in Seq(Tiles)
    /\ dump.cache \in [Tiles -> SUBSET Images]
    /\ dump.ttl \in [Tiles -> 0..TTL]
    /\ redis = "down" => /\ tilelist = <<>>
                         /\ \A t \in Tiles : cache[t] = {} /\ ttl[t] = 0
                         /\ \A h \in Handlers : hpc[h] # "idle" => h \in hlost
                         /\ wlost = {w \in Workers : wpc[w] # "down"}

Connected(h) == h \notin hlost /\ h \notin slost

\* An outage strands only the handlers it finds.  One whose connections are both
\* alive has its message to come: its tile is queued, or in the hands of a
\* worker that can still publish it, or given up (TMS_server.cpp:100-110).
ConnectedNoLostWakeup ==
    \A h \in Handlers : hpc[h] = "wait" /\ Connected(h) =>
        \/ Woken(h)
        \/ Contains(tilelist, htile[h])
        \/ \E w \in Workers \ wlost : wtask[w] = htile[h]
        \/ htile[h] \in dropped

\* A tile that lives for ever is being worked on or queued again, was given up
\* between ZADD and EXPIRE, or came back in a snapshot that was saved there
\* (plotting_main.cpp:178-182).
ImmortalBySnapshot ==
    \A t \in Tiles : Present(t) /\ ttl[t] = 0 =>
        \/ \E w \in Workers \ wlost : wtask[w] = t /\ wpc[w] # "publish"
        \/ Contains(tilelist, t)
        \/ t \in dropped
        \/ dump.cache[t] # {} /\ dump.ttl[t] = 0

\* Every request ends: it is answered, or dies with the server; or its tile is
\* given up and not queued again, or an outage took a connection of it, or no
\* job runs any more.  An outage that is over, a server or a job that has been
\* started again strand nobody who comes later.
EndsOrStrands ==
    \A h \in Handlers : hpc[h] # "idle" ~>
        \/ hpc[h] = "idle"
        \/ htile[h] \in dropped
        \/ ~Connected(h)
        \/ []AllDown
=============================================================================
