------------------------ MODULE ServiceOutageProofs ------------------------
(***************************************************************************)
(* What holds of ServiceOutage for any number of handlers, workers, tiles  *)
(* and outages.  The steps that an outage leaves as they are keep what     *)
(* TileServiceProofs shows them to keep.                                   *)
(***************************************************************************)
EXTENDS ServiceOutage, TileServiceProofs

(***************************************************************************)
(* Types, and who has a dead connection.                                   *)
(***************************************************************************)
LEMMA OutageTypeInit == OutageInit => OutageTypeOK
<1> SUFFICES ASSUME OutageInit PROVE OutageTypeOK
  OBVIOUS
<1>1. TypeOK
  BY TypeInit DEF OutageInit
<1>2. <<>> \in Seq(Tiles)
  BY EmptySeq
<1> QED
  BY <1>1, <1>2, OutageAssumption, TTLAssumption DEF OutageInit, OutageTypeOK, Empty

\* The steps of the server and the workers that touch no dead connection.
LEMMA OutageTypeBefore ==
    ASSUME OutageTypeOK,
           \/ \E h \in Handlers : HandlerAsBefore(h)
           \/ \E w \in Workers : WorkerAsBefore(w) /\ ~PublishLive(w)
    PROVE  OutageTypeOK'
<1> USE DEF handlerVars, redisVars, workerVars, faultVars, outageVars
<1>1. UNCHANGED outageVars
  BY DEF HandlerAsBefore, WorkerAsBefore
<1>2. ASSUME NEW h \in Handlers, HandlerAsBefore(h)
      PROVE  OutageTypeOK'
  <2>1. TypeOK'
    BY <1>2, TypeNext DEF HandlerAsBefore, Next, HandlerStep, OutageTypeOK
  <2>2. UNCHANGED wpc
    BY <1>2 DEF HandlerAsBefore, LookupHit, LookupMiss, Push, Fetch, Receive, Respond
  <2>3. redis = "down" => /\ UNCHANGED <<tilelist, cache, ttl>>
                          /\ \A k \in Handlers : hpc'[k] # "idle" => hpc[k] # "idle"
    BY <1>2 DEF HandlerAsBefore, LookupHit, LookupMiss, Push, Fetch, Receive, Respond,
                OutageTypeOK, TypeOK
  <2> QED
    BY <1>1, <2>1, <2>2, <2>3 DEF OutageTypeOK
<1>3. ASSUME NEW w \in Workers, WorkerAsBefore(w), ~PublishLive(w)
      PROVE  OutageTypeOK'
  <2>1. TypeOK'
    BY <1>3, TypeNext DEF WorkerAsBefore, Next, WorkerStep, OutageTypeOK
  <2>2. UNCHANGED hpc /\ wpc[w] # "down" /\ wpc'[w] # "down"
        /\ \A v \in Workers \ {w} : wpc'[v] = wpc[v]
    BY <1>3, SMTT(30) DEF WorkerAsBefore, Pop, Zset, Check, Expire, Render, OutageTypeOK, TypeOK
  <2>3. redis = "down" => UNCHANGED <<tilelist, cache, ttl>>
    BY <1>3, <2>2 DEF WorkerAsBefore, Pop, Zset, Check, Expire, Render, OutageTypeOK, TypeOK
  <2>4. {v \in Workers : wpc'[v] # "down"} = {v \in Workers : wpc[v] # "down"}
    BY <2>2
  <2> QED
    BY <1>1, <2>1, <2>2, <2>3, <2>4 DEF OutageTypeOK
<1> QED
  BY <1>2, <1>3

\* Every step, those of an outage included, keeps the types.
LEMMA OutageTypeNext == OutageTypeOK /\ [OutageNext]_systemVars => OutageTypeOK'
<1> SUFFICES ASSUME OutageTypeOK, [OutageNext]_systemVars PROVE OutageTypeOK'
  OBVIOUS
<1> USE NoTileAssumption, TTLAssumption, BoundAssumption, OutageAssumption
<1> USE DEF handlerVars, redisVars, workerVars, faultVars, outageVars
<1> DEFINE Up == {w \in Workers : wpc[w] # "down"}
\* Redis.
<1>1. ASSUME Save PROVE OutageTypeOK'
  BY <1>1 DEF Save, OutageTypeOK, TypeOK, vars
<1>2. ASSUME RedisDies PROVE OutageTypeOK'
  <2>1. Empty.cache = [t \in Tiles |-> {}] /\ Empty.ttl = [t \in Tiles |-> 0]
    BY DEF Empty
  <2>2. tilelist' = <<>> /\ cache' = [t \in Tiles |-> {}] /\ ttl' = [t \in Tiles |-> 0]
    BY <1>2, <2>1 DEF RedisDies
  <2>3. TypeOK'
    BY <1>2, <2>2, EmptySeq DEF RedisDies, OutageTypeOK, TypeOK, Images, HandlerPCs, WorkerPCs
  <2>4. hlost' \subseteq Handlers /\ slost' \subseteq Handlers
        /\ wlost' = {w \in Workers : wpc'[w] # "down"}
        /\ \A h \in Handlers : hpc'[h] # "idle" => h \in hlost'
    BY <1>2 DEF RedisDies
  <2>5. outages' \in 0..MaxOutages /\ redis' = "down" /\ UNCHANGED <<server, dump>>
    BY <1>2 DEF RedisDies, OutageTypeOK
  <2> QED
    BY <2>2, <2>3, <2>4, <2>5 DEF OutageTypeOK
<1>3. ASSUME RedisStarts PROVE OutageTypeOK'
  <2>1. PICK elapsed \in 0..TTL :
          /\ cache' = [t \in Tiles |-> IF dump.ttl[t] \in 1..elapsed THEN {} ELSE dump.cache[t]]
          /\ ttl' = [t \in Tiles |-> IF dump.ttl[t] > elapsed THEN dump.ttl[t] - elapsed ELSE 0]
    BY <1>3 DEF RedisStarts
  <2>2. cache' \in [Tiles -> SUBSET Images] /\ ttl' \in [Tiles -> 0..TTL]
    BY <2>1 DEF OutageTypeOK
  <2>3. tilelist' \in Seq(Tiles)
    BY <1>3 DEF RedisStarts, OutageTypeOK
  <2>4. TypeOK'
    BY <1>3, <2>2, <2>3 DEF RedisStarts, OutageTypeOK, TypeOK
  <2> QED
    BY <1>3, <2>4 DEF RedisStarts, OutageTypeOK
\* The server.
<1>4. ASSUME NEW h \in Handlers, NEW t \in Tiles, AcceptAnyway(h, t) PROVE OutageTypeOK'
  <2>1. TypeOK'
    BY <1>4, TypeNext DEF AcceptAnyway, Next, OutageTypeOK
  <2>2. /\ UNCHANGED <<redisVars, wpc>>
        /\ \A k \in Handlers \ {h} : hpc'[k] = hpc[k]
    BY <1>4 DEF AcceptAnyway, Accept, OutageTypeOK, TypeOK
  <2>3. /\ hlost' \subseteq Handlers /\ slost' \subseteq Handlers
        /\ hlost \ {h} \subseteq hlost' /\ (redis = "down" => h \in hlost')
    BY <1>4 DEF AcceptAnyway, OutageTypeOK
  <2>4. \A k \in Handlers : redis' = "down" /\ hpc'[k] # "idle" => k \in hlost'
    BY <1>4, <2>2, <2>3 DEF AcceptAnyway, OutageTypeOK
  <2> QED
    BY <1>4, <2>1, <2>2, <2>3, <2>4 DEF AcceptAnyway, OutageTypeOK
<1>5. ASSUME NEW h \in Handlers, SubscribeAnyway(h) PROVE OutageTypeOK'
  <2>1. TypeOK'
    BY <1>5, TypeNext DEF SubscribeAnyway, Next, HandlerStep, OutageTypeOK
  <2>2. /\ UNCHANGED <<redisVars, wpc>>
        /\ \A k \in Handlers : hpc'[k] # "idle" => hpc[k] # "idle"
    BY <1>5 DEF SubscribeAnyway, Subscribe, OutageTypeOK, TypeOK
  <2> QED
    BY <1>5, <2>1, <2>2 DEF SubscribeAnyway, OutageTypeOK
<1>6. ASSUME NEW h \in Handlers, PushLost(h) PROVE OutageTypeOK'
  <2>1. TypeOK'
    BY <1>6 DEF PushLost, OutageTypeOK, TypeOK, HandlerPCs
  <2>2. \A k \in Handlers : hpc'[k] # "idle" => hpc[k] # "idle"
    BY <1>6 DEF PushLost, OutageTypeOK, TypeOK
  <2> QED
    BY <1>6, <2>1, <2>2 DEF PushLost, OutageTypeOK
<1>7. ASSUME NEW h \in Handlers, ServerDies(h) PROVE OutageTypeOK'
  <2>1. TypeOK'
    BY <1>7, EmptySeq DEF ServerDies, OutageTypeOK, TypeOK, HandlerPCs, Images
  <2> QED
    BY <1>7, <2>1 DEF ServerDies, OutageTypeOK
<1>8. ASSUME ServerStarts PROVE OutageTypeOK'
  BY <1>8 DEF ServerStarts, OutageTypeOK, TypeOK, vars
\* The workers.
<1>9. ASSUME NEW w \in Workers, w \notin wlost, PublishLive(w), UNCHANGED outageVars
      PROVE  OutageTypeOK'
  <2>1. wtask[w] \in Tiles /\ wpc[w] = "publish" /\ wpc' = [wpc EXCEPT ![w] = "pop"]
    BY <1>9 DEF PublishLive, OutageTypeOK, TypeOK
  <2>2. inbox' \in [Handlers -> Seq(Tiles)]
    BY <1>9, <2>1, AppendContains DEF PublishLive, OutageTypeOK, TypeOK
  <2>3. TypeOK'
    BY <1>9, <2>1, <2>2 DEF PublishLive, OutageTypeOK, TypeOK, WorkerPCs
  <2>4. \A v \in Workers : wpc'[v] # "down" <=> wpc[v] # "down"
    BY <2>1 DEF OutageTypeOK, TypeOK
  <2> QED
    BY <1>9, <2>3, <2>4 DEF PublishLive, OutageTypeOK
<1>10. ASSUME NEW w \in Workers, CallLost(w) PROVE OutageTypeOK'
  <2>1. wtask[w] \in Tiles
    BY <1>10 DEF CallLost, OutageTypeOK, TypeOK
  <2>2. TypeOK'
    BY <1>10, <2>1, ZenonT(60) DEF CallLost, OutageTypeOK, TypeOK, WorkerPCs
  <2>3. \A v \in Workers : wpc'[v] # "down" <=> wpc[v] # "down"
    BY <1>10 DEF CallLost, OutageTypeOK, TypeOK
  <2> QED
    BY <1>10, <2>2, <2>3 DEF CallLost, OutageTypeOK
<1>11. ASSUME NEW w \in Workers, WorkerDies(w) PROVE OutageTypeOK'
  <2>1. TypeOK'
    BY <1>11 DEF WorkerDies, OutageTypeOK, TypeOK, WorkerPCs
  <2>2. {v \in Workers : wpc'[v] # "down"} = Up \ {w}
    BY <1>11 DEF WorkerDies, OutageTypeOK, TypeOK
  <2> QED
    BY <1>11, <2>1, <2>2 DEF WorkerDies, OutageTypeOK
<1>12. ASSUME NEW w \in Workers, WorkerFaults(w) PROVE OutageTypeOK'
  <2>1. TypeOK'
    BY <1>12, TypeNext DEF WorkerFaults, Next, OutageTypeOK
  <2>2. /\ UNCHANGED <<handlerVars, redisVars>> /\ wpc[w] # "down"
        /\ \A v \in Workers \ {w} : wpc'[v] = wpc[v]
    BY <1>12 DEF WorkerFaults, Fail, Crash, OutageTypeOK, TypeOK
  <2>3. {v \in Workers : wpc'[v] # "down"} = IF wpc'[w] = "down" THEN Up \ {w} ELSE Up
    BY <2>2
  <2> QED
    BY <1>12, <2>1, <2>2, <2>3 DEF WorkerFaults, OutageTypeOK
<1>13. ASSUME JobAborts \/ JobStarts PROVE OutageTypeOK'
  <2>1. TypeOK'
    BY <1>13, TypeNext DEF JobAborts, JobStarts, Next, OutageTypeOK
  <2>2. CASE JobAborts
    <3>1. {v \in Workers : wpc'[v] # "down"} = {}
      BY <2>2 DEF JobAborts, Abort
    <3> QED
      BY <2>1, <2>2, <3>1 DEF JobAborts, Abort, OutageTypeOK
  <2>3. CASE JobStarts
    <3>1. wlost = {}
      BY <2>3 DEF JobStarts, Restart, AllDown, OutageTypeOK
    <3> QED
      BY <2>1, <2>3, <3>1 DEF JobStarts, Restart, OutageTypeOK
  <2> QED
    BY <1>13, <2>2, <2>3
<1>14. ASSUME Tick, UNCHANGED outageVars PROVE OutageTypeOK'
  <2>1. TypeOK'
    BY <1>14, TypeNext DEF Next, OutageTypeOK
  <2>2. redis = "up"
    BY <1>14 DEF Tick, OutageTypeOK
  <2> QED
    BY <1>14, <2>1, <2>2 DEF Tick, OutageTypeOK
<1>15. ASSUME UNCHANGED systemVars PROVE OutageTypeOK'
  BY <1>15 DEF systemVars, vars, OutageTypeOK, TypeOK
<1>16. ASSUME NEW h \in Handlers, OutageHandlerStep(h) PROVE OutageTypeOK'
  BY <1>16, <1>5, <1>6, <1>7, OutageTypeBefore DEF OutageHandlerStep
<1>17. ASSUME NEW w \in Workers, OutageWorkerStep(w) PROVE OutageTypeOK'
  <2>1. CASE WorkerAsBefore(w) /\ PublishLive(w)
    <3>1. w \notin wlost /\ UNCHANGED outageVars
      BY <2>1 DEF WorkerAsBefore, PublishLive, Render
    <3> QED
      BY <1>9, <2>1, <3>1
  <2> QED
    BY <1>17, <2>1, <1>10, <1>11, OutageTypeBefore DEF OutageWorkerStep
<1> QED
  BY <1>1, <1>2, <1>3, <1>4, <1>8, <1>12, <1>13, <1>14, <1>15, <1>16, <1>17 DEF OutageNext

\* Through any number of outages the types hold, and while Redis is down nobody
\* has a connection.
THEOREM OutageTypesCorrect == OutageSpec => []OutageTypeOK
<1>1. OutageInit => OutageTypeOK
  BY OutageTypeInit
<1>2. OutageTypeOK /\ [OutageNext]_systemVars => OutageTypeOK'
  BY OutageTypeNext
<1> QED
  BY <1>1, <1>2, PTL DEF OutageSpec

(***************************************************************************)
(* An outage strands only the handlers it finds.  Relative to the types    *)
(* the property is inductive: a handler with two connections that are      *)
(* alive was accepted, or has lived, since the last death of Redis, so its *)
(* LPUSH reached the list, a live worker takes its task from there, and    *)
(* the message of a live worker reaches its subscription.                  *)
(***************************************************************************)
LEMMA ConnectedNext == OutageTypeOK /\ ConnectedNoLostWakeup /\ [OutageNext]_systemVars
                         => ConnectedNoLostWakeup'
<1> DEFINE ToCome(h) == \/ Woken(h)
                        \/ Contains(tilelist, htile[h])
                        \/ \E w \in Workers \ wlost : wtask[w] = htile[h]
                        \/ htile[h] \in dropped
<1> SUFFICES ASSUME OutageTypeOK, ConnectedNoLostWakeup, [OutageNext]_systemVars,
                    NEW h \in Handlers, hpc'[h] = "wait", Connected(h)'
             PROVE  ToCome(h)'
  BY DEF ConnectedNoLostWakeup
<1> USE DEF handlerVars, redisVars, workerVars, faultVars, outageVars
<1>a. TypeOK
  BY DEF OutageTypeOK
<1>b. hpc[h] = "wait" /\ Connected(h) => ToCome(h)
  BY DEF ConnectedNoLostWakeup
<1>c. h \notin hlost' /\ h \notin slost'
  BY DEF Connected
\* A step that leaves alone whatever h can see.
<1>d. ASSUME hpc'[h] = hpc[h], htile'[h] = htile[h], inbox'[h] = inbox[h],
             h \notin hlost, h \notin slost,
             UNCHANGED <<tilelist, wtask, dropped, wlost>>
      PROVE  ToCome(h)'
  <2>1. ToCome(h)
    BY <1>b, <1>d DEF Connected
  <2> QED
    BY <1>d, <2>1 DEF Woken, Subscribed
<1>1. CASE Save
  BY <1>1, <1>c, <1>d DEF Save, vars
<1>2. CASE RedisDies
  BY <1>2, <1>c DEF RedisDies
<1>3. CASE RedisStarts
  \* Nobody was connected.
  BY <1>3, <1>c DEF RedisStarts, OutageTypeOK
<1>4. CASE ServerStarts
  BY <1>4, <1>c, <1>d DEF ServerStarts, vars
<1>5. ASSUME NEW k \in Handlers, NEW t \in Tiles, AcceptAnyway(k, t)
      PROVE  ToCome(h)'
  BY <1>5, <1>a, <1>c, <1>d DEF AcceptAnyway, Accept, TypeOK
<1>6. ASSUME NEW k \in Handlers, SubscribeAnyway(k)
      PROVE  ToCome(h)'
  BY <1>6, <1>a, <1>c, <1>d DEF SubscribeAnyway, Subscribe, TypeOK
<1>7. ASSUME NEW k \in Handlers, PushLost(k)
      PROVE  ToCome(h)'
  BY <1>7, <1>a, <1>c, <1>d DEF PushLost, TypeOK
<1>8. ASSUME NEW k \in Handlers, ServerDies(k)
      PROVE  ToCome(h)'
  BY <1>8, <1>a DEF ServerDies, TypeOK
<1>9. ASSUME NEW k \in Handlers, HandlerAsBefore(k)
      PROVE  ToCome(h)'
  <2>0. UNCHANGED <<outageVars, wtask>>
    BY <1>9 DEF HandlerAsBefore, LookupHit, LookupMiss, Push, Fetch, Receive, Respond
  <2>1. CASE LookupHit(k) \/ LookupMiss(k) \/ Fetch(k) \/ Respond(k)
    <3>1. h # k
      BY <2>1, <1>a DEF LookupHit, LookupMiss, Fetch, Respond, TypeOK
    <3> QED
      BY <2>0, <2>1, <3>1, <1>a, <1>c, <1>d DEF LookupHit, LookupMiss, Fetch, Respond, TypeOK
  <2>2. CASE Push(k)
    <3>1. htile[k] \in Tiles /\ tilelist \in Seq(Tiles)
      BY <2>2, <1>a DEF Push, TypeOK
    <3>2. CASE h = k
      BY <2>2, <3>1, <3>2, ConsContains DEF Push
    <3>3. CASE h # k
      <4>1. ToCome(h)
        BY <2>0, <2>2, <3>3, <1>a, <1>b, <1>c DEF Push, TypeOK, Connected
      <4>2. /\ UNCHANGED <<htile, inbox>> /\ hpc'[h] = hpc[h]
            /\ tilelist' = Cons(htile[k], tilelist)
            /\ dropped' = dropped \ {htile[k]}
        BY <2>2, <3>3, <1>a DEF Push, TypeOK
      <4>3. htile[h] = htile[k] \/ Contains(tilelist, htile[h]) => Contains(tilelist', htile[h])
        BY <3>1, <4>2, ConsContains
      <4> QED
        BY <2>0, <4>1, <4>2, <4>3 DEF Woken, Subscribed
    <3> QED
      BY <3>2, <3>3
  <2>3. CASE Receive(k)
    <3>1. CASE h = k
      <4>1. inbox[h] \in Seq(Tiles) /\ inbox[h] # <<>> /\ hpc[h] = "wait"
        BY <2>3, <3>1, <1>a DEF Receive, TypeOK
      <4>2. Head(inbox[h]) # htile[h] /\ inbox'[h] = Tail(inbox[h])
        BY <2>3, <3>1, <1>a DEF Receive, TypeOK
      <4>3. ToCome(h)
        BY <2>0, <4>1, <1>b, <1>c DEF Connected
      <4>4. UNCHANGED <<htile, tilelist, dropped>>
        BY <2>3 DEF Receive
      <4> QED
        BY <2>0, <2>3, <3>1, <4>1, <4>2, <4>3, <4>4, TailContains DEF Receive, Woken, Subscribed
    <3>2. CASE h # k
      BY <2>0, <2>3, <3>2, <1>a, <1>c, <1>d DEF Receive, TypeOK
    <3> QED
      BY <3>1, <3>2
  <2> QED
    BY <1>9, <2>1, <2>2, <2>3 DEF HandlerAsBefore
<1>10. ASSUME NEW w \in Workers, WorkerAsBefore(w)
       PROVE  ToCome(h)'
  <2>0. UNCHANGED <<outageVars, hpc, htile, dropped>>
    BY <1>10 DEF WorkerAsBefore, Pop, Zset, Check, Expire, PublishLive, Render
  <2>1. hpc[h] = "wait" /\ ToCome(h) /\ htile[h] \in Tiles
    BY <2>0, <1>a, <1>b, <1>c DEF Connected, TypeOK
  <2>2. CASE Render(w) \/ Zset(w) \/ Check(w) \/ Expire(w)
    BY <2>0, <2>2, <1>c, <1>d DEF Render, Zset, Check, Expire
  <2>3. CASE Pop(w) /\ w \notin wlost
    <3>1. /\ wtask[w] = NoTile /\ tilelist \in Seq(Tiles) /\ tilelist # <<>> /\ inbox' = inbox
          /\ wtask' = [wtask EXCEPT ![w] = Last(tilelist)] /\ tilelist' = Front(tilelist)
      BY <2>3, <1>a DEF Pop, TypeOK
    <3>2. CASE Contains(tilelist, htile[h])
      <4>1. htile[h] = Last(tilelist) \/ Contains(Front(tilelist), htile[h])
        BY <3>1, <3>2, FrontContains
      <4>2. wtask'[w] = Last(tilelist)
        BY <3>1, <1>a DEF TypeOK
      <4> QED
        BY <2>0, <2>3, <3>1, <4>1, <4>2
    <3>3. CASE \E v \in Workers \ wlost : wtask[v] = htile[h]
      BY <2>0, <2>1, <3>1, <3>3, <1>a, NoTileAssumption DEF TypeOK
    <3> QED
      BY <2>0, <2>1, <3>1, <3>2, <3>3 DEF Woken, Subscribed
  <2>4. CASE PublishLive(w)
    <3>1. wtask[w] \in Tiles /\ inbox[h] \in Seq(Tiles) /\ tilelist' = tilelist
          /\ wtask' = [wtask EXCEPT ![w] = NoTile]
      BY <2>4, <1>a DEF PublishLive, TypeOK
    <3>2. inbox'[h] = Append(inbox[h], wtask[w]) /\ Subscribed(h) /\ Subscribed(h)'
      BY <2>0, <2>1, <2>4, <1>c DEF PublishLive, Subscribed
    <3>3. CASE Woken(h)
      BY <2>0, <2>1, <3>1, <3>2, <3>3, AppendContains DEF Woken
    <3>4. CASE wtask[w] = htile[h]
      BY <2>0, <3>1, <3>2, <3>4, AppendContains DEF Woken
    <3>5. CASE wtask[w] # htile[h] /\ \E v \in Workers \ wlost : wtask[v] = htile[h]
      BY <2>0, <3>1, <3>5, <1>a DEF TypeOK
    <3> QED
      BY <2>0, <2>1, <3>1, <3>3, <3>4, <3>5
  <2> QED
    BY <1>10, <2>2, <2>3, <2>4 DEF WorkerAsBefore
<1>11. ASSUME NEW w \in Workers,
              CallLost(w) \/ WorkerDies(w) \/ WorkerFaults(w)
       PROVE  ToCome(h)'
  <2>1. /\ UNCHANGED <<hpc, htile, inbox, tilelist, hlost, slost>>
        /\ dropped \subseteq dropped' /\ wlost' \subseteq wlost
        /\ \A v \in Workers \ {w} : wtask'[v] = wtask[v]
        /\ wtask[w] \in Tiles => wtask'[w] = wtask[w] \/ wtask[w] \in dropped'
    BY <1>11, <1>a, NoTileAssumption
       DEF CallLost, WorkerDies, WorkerFaults, Fail, Crash, TypeOK
  <2>2. hpc[h] = "wait" /\ ToCome(h) /\ htile[h] \in Tiles
    BY <2>1, <1>a, <1>b, <1>c, NoTileAssumption DEF Connected, TypeOK
  <2>3. CASE \E v \in Workers \ wlost : wtask[v] = htile[h]
    BY <2>1, <2>2, <2>3
  <2> QED
    BY <2>1, <2>2, <2>3 DEF Woken, Subscribed
<1>12. CASE JobAborts
  <2>1. /\ UNCHANGED <<hpc, htile, inbox, tilelist, hlost, slost>>
        /\ dropped' = dropped \cup ({wtask[w] : w \in Workers} \ {NoTile})
    BY <1>12 DEF JobAborts, Abort
  <2>2. hpc[h] = "wait" /\ ToCome(h) /\ htile[h] # NoTile
    BY <2>1, <1>a, <1>b, <1>c DEF Connected, TypeOK
  <2>3. CASE \E v \in Workers \ wlost : wtask[v] = htile[h]
    BY <2>1, <2>2, <2>3
  <2> QED
    BY <2>1, <2>2, <2>3 DEF Woken, Subscribed
<1>13. CASE JobStarts \/ (Tick /\ UNCHANGED outageVars)
  BY <1>13, <1>c, <1>d DEF JobStarts, Restart, Tick
<1>14. CASE UNCHANGED systemVars
  BY <1>14, <1>c, <1>d DEF systemVars, vars
<1> QED
  BY <1>1, <1>2, <1>3, <1>4, <1>5, <1>6, <1>7, <1>8, <1>9, <1>10, <1>11, <1>12, <1>13, <1>14
     DEF OutageNext, OutageHandlerStep, OutageWorkerStep

\* A waiting handler whose two connections are alive has a message to come, unless
\* its task was dropped, whatever Redis, the server and the workers went through.
THEOREM ConnectedNoLostWakeupCorrect == OutageSpec => []ConnectedNoLostWakeup
<1>1. OutageInit => ConnectedNoLostWakeup
  BY DEF OutageInit, Init, ConnectedNoLostWakeup
<1>2. OutageTypeOK /\ ConnectedNoLostWakeup /\ [OutageNext]_systemVars
        => ConnectedNoLostWakeup'
  BY ConnectedNext
<1> QED
  BY <1>1, <1>2, OutageTypesCorrect, PTL DEF OutageSpec

(***************************************************************************)
(* A tile that lives for ever comes from a dropped task or a snapshot.     *)
(***************************************************************************)
LEMMA ImmortalNext == OutageTypeOK /\ ImmortalBySnapshot /\ [OutageNext]_systemVars
                        => ImmortalBySnapshot'
<1> DEFINE Holds(w, t) == w \notin wlost /\ wtask[w] = t /\ wpc[w] # "publish"
           Saved(t) == dump.cache[t] # {} /\ dump.ttl[t] = 0
           Owed(t) == \/ \E w \in Workers : Holds(w, t)
                      \/ Contains(tilelist, t)
                      \/ t \in dropped
                      \/ Saved(t)
<1> SUFFICES ASSUME OutageTypeOK, ImmortalBySnapshot, [OutageNext]_systemVars,
                    NEW t \in Tiles, Present(t)', ttl'[t] = 0
             PROVE  Owed(t)'
  BY DEF ImmortalBySnapshot
<1> USE DEF handlerVars, redisVars, workerVars, faultVars, outageVars
<1>a. TypeOK
  BY DEF OutageTypeOK
<1>b. Present(t) /\ ttl[t] = 0 => Owed(t)
  BY DEF ImmortalBySnapshot
\* A step of worker w alone that keeps the key leaves the other workers' debts.
<1>c. ASSUME NEW w \in Workers, Present(t), ttl[t] = 0, ~Holds(w, t) \/ Holds(w, t)',
             tilelist' = tilelist, dropped \subseteq dropped', dump' = dump,
             \A v \in Workers \ {w} : /\ wtask'[v] = wtask[v] /\ wpc'[v] = wpc[v]
                                      /\ v \notin wlost => v \notin wlost'
      PROVE  Owed(t)'
  BY <1>b, <1>c
<1>d. ASSUME UNCHANGED <<tilelist, cache, ttl, wpc, wtask, dropped, wlost, dump>>
      PROVE  Owed(t)'
  BY <1>b, <1>d DEF Present
<1>1. CASE Save
  <2>1. dump' = [tilelist |-> tilelist, cache |-> cache, ttl |-> ttl]
        /\ UNCHANGED <<cache, ttl>>
    BY <1>1 DEF Save, vars
  <2> QED
    BY <2>1 DEF Present
<1>2. CASE RedisDies
  BY <1>2 DEF RedisDies, Empty, Present
<1>3. CASE RedisStarts
  <2>1. PICK elapsed \in 0..TTL :
          /\ cache' = [u \in Tiles |-> IF dump.ttl[u] \in 1..elapsed THEN {} ELSE dump.cache[u]]
          /\ ttl' = [u \in Tiles |-> IF dump.ttl[u] > elapsed THEN dump.ttl[u] - elapsed ELSE 0]
    BY <1>3 DEF RedisStarts
  <2>2. dump.ttl[t] \notin 1..elapsed /\ dump.cache[t] # {}
    BY <2>1 DEF Present
  <2>3. ttl'[t] = IF dump.ttl[t] > elapsed THEN dump.ttl[t] - elapsed ELSE 0
    BY <2>1
  <2>4. dump.ttl[t] \in 0..TTL /\ elapsed \in Nat
    BY TTLAssumption DEF OutageTypeOK
  <2>5. dump.ttl[t] = 0
    BY <2>2, <2>3, <2>4, TTLAssumption
  <2> QED
    BY <1>3, <2>2, <2>5 DEF RedisStarts
<1>4. ASSUME NEW h \in Handlers, ~Push(h),
             OutageHandlerStep(h) \/ \E u \in Tiles : AcceptAnyway(h, u)
      PROVE  Owed(t)'
  BY <1>4, <1>d DEF OutageHandlerStep, HandlerAsBefore, SubscribeAnyway, PushLost, ServerDies,
                    AcceptAnyway, Accept, LookupHit, LookupMiss, Subscribe, Receive,
                    Fetch, Respond
<1>5. ASSUME NEW h \in Handlers, Push(h), UNCHANGED outageVars
      PROVE  Owed(t)'
  <2>1. /\ UNCHANGED <<cache, ttl, wpc, wtask>>
        /\ tilelist' = Cons(htile[h], tilelist)
        /\ dropped' = dropped \ {htile[h]}
        /\ tilelist \in Seq(Tiles) /\ htile[h] \in Tiles
    BY <1>5, <1>a DEF Push, TypeOK
  <2>2. Owed(t)
    BY <1>b, <2>1 DEF Present
  <2>3. Contains(tilelist, t) \/ t = htile[h] => Contains(tilelist', t)
    BY <2>1, ConsContains
  <2> QED
    BY <1>5, <2>1, <2>2, <2>3
<1>6. CASE ServerStarts
  BY <1>6, <1>d DEF ServerStarts, vars
<1>7. ASSUME NEW w \in Workers, WorkerAsBefore(w)
      PROVE  Owed(t)'
  <2>0. UNCHANGED <<outageVars, dropped>>
        /\ \A v \in Workers \ {w} : wtask'[v] = wtask[v] /\ wpc'[v] = wpc[v]
    BY <1>7, <1>a DEF WorkerAsBefore, Pop, Zset, Check, Expire, PublishLive, Render, TypeOK
  <2>1. CASE Pop(w) /\ w \notin wlost
    <3>1. /\ UNCHANGED <<cache, ttl>>
          /\ tilelist # <<>> /\ tilelist \in Seq(Tiles) /\ wtask[w] # t
          /\ wtask'[w] = Last(tilelist) /\ wpc'[w] = "render"
          /\ tilelist' = Front(tilelist)
      BY <2>1, <1>a, NoTileAssumption DEF Pop, TypeOK
    <3>2. Owed(t)
      BY <1>b, <3>1 DEF Present
    <3>3. Contains(tilelist, t) => t = Last(tilelist) \/ Contains(tilelist', t)
      BY <3>1, FrontContains
    <3>4. CASE \E v \in Workers : Holds(v, t)
      <4>1. PICK v \in Workers : Holds(v, t)
        BY <3>4
      <4>2. v # w /\ Holds(v, t)'
        BY <2>0, <3>1, <4>1
      <4> QED
        BY <4>2
    <3>5. CASE Contains(tilelist, t)
      BY <2>0, <2>1, <3>1, <3>3, <3>5
    <3> QED
      BY <2>0, <3>2, <3>4, <3>5
  <2>2. CASE Render(w) \/ PublishLive(w)
    <3>1. /\ UNCHANGED <<tilelist, cache, ttl>>
          /\ ~Holds(w, t) \/ Holds(w, t)'
      BY <2>0, <2>2, <1>a DEF Render, PublishLive, TypeOK
    <3> QED
      BY <2>0, <3>1, <1>c DEF Present
  <2>3. CASE Zset(w) /\ w \notin wlost
    <3>1. ttl' = ttl /\ wtask' = wtask /\ tilelist' = tilelist /\ wpc'[w] = "check"
      BY <2>3, <1>a DEF Zset, TypeOK
    <3>2. CASE wtask[w] = t
      BY <2>0, <2>3, <3>1, <3>2
    <3>3. CASE wtask[w] # t
      <4>1. Present(t)
        BY <2>3, <3>3, <1>a DEF Zset, TypeOK, Present
      <4> QED
        BY <2>0, <3>1, <3>3, <4>1, <1>c
    <3> QED
      BY <3>2, <3>3
  <2>4. CASE Check(w) /\ w \notin wlost
    <3>1. UNCHANGED <<tilelist, cache, ttl, wtask>> /\ wpc'[w] # "publish"
      BY <2>4, <1>a DEF Check, TypeOK
    <3> QED
      BY <2>0, <3>1, <1>c DEF Present
  <2>5. CASE Expire(w)
    <3>1. UNCHANGED <<tilelist, cache, wtask>>
      BY <2>5 DEF Expire
    <3>2. Present(t)
      BY <3>1 DEF Present
    <3>3. wtask[w] # t /\ ttl[t] = 0
      BY <2>5, <3>2, <1>a, TTLAssumption DEF Expire, TypeOK
    <3> QED
      BY <2>0, <3>1, <3>2, <3>3, <1>c
  <2> QED
    BY <1>7, <2>1, <2>2, <2>3, <2>4, <2>5 DEF WorkerAsBefore
<1>8. ASSUME NEW w \in Workers, CallLost(w) \/ WorkerDies(w)
      PROVE  Owed(t)'
  <2>1. /\ w \in wlost /\ UNCHANGED <<tilelist, cache, ttl, dump>> /\ wlost' \subseteq wlost
        /\ dropped \subseteq dropped'
        /\ \A v \in Workers \ {w} : wtask'[v] = wtask[v] /\ wpc'[v] = wpc[v]
    BY <1>8, <1>a DEF CallLost, WorkerDies, TypeOK
  <2> QED
    BY <2>1, <1>c DEF Present
<1>9. ASSUME NEW w \in Workers, WorkerFaults(w)
      PROVE  Owed(t)'
  <2>1. /\ UNCHANGED <<tilelist, cache, ttl, dump>> /\ wlost' \subseteq wlost
        /\ wtask[w] = t => t \in dropped'
        /\ dropped \subseteq dropped'
        /\ \A v \in Workers \ {w} : wtask'[v] = wtask[v] /\ wpc'[v] = wpc[v]
    BY <1>9, <1>a, NoTileAssumption DEF WorkerFaults, Fail, Crash, TypeOK
  <2> QED
    BY <2>1, <1>c DEF Present
<1>10. CASE JobAborts
  <2>1. /\ UNCHANGED <<tilelist, cache, ttl, dump>>
        /\ dropped' = dropped \cup ({wtask[w] : w \in Workers} \ {NoTile})
    BY <1>10 DEF JobAborts, Abort
  <2> QED
    BY <1>b, <2>1, NoTileAssumption DEF Present
<1>11. CASE JobStarts
  <2>1. /\ UNCHANGED <<tilelist, cache, ttl, wtask, dropped, dump>>
        /\ \A w \in Workers : wtask[w] = NoTile
    BY <1>11, <1>a DEF JobStarts, Restart, AllDown, TypeOK
  <2> QED
    BY <1>b, <2>1, NoTileAssumption DEF Present
<1>12. CASE Tick /\ UNCHANGED outageVars
  <2>1. ttl[t] \in 0..TTL
    BY <1>a DEF TypeOK
  <2>2. ttl'[t] = IF ttl[t] > 0 THEN ttl[t] - 1 ELSE 0
    BY <1>12 DEF Tick
  <2>3. cache'[t] = IF ttl[t] = 1 THEN {} ELSE cache[t]
    BY <1>12 DEF Tick
  <2>4. ttl[t] = 0
    BY <2>1, <2>2, <2>3, TTLAssumption DEF Present
  <2> QED
    BY <1>12, <1>b, <2>3, <2>4 DEF Tick, Present
<1>13. CASE UNCHANGED systemVars
  BY <1>13, <1>d DEF systemVars, vars
<1>14. ASSUME NEW h \in Handlers,
              OutageHandlerStep(h) \/ \E u \in Tiles : AcceptAnyway(h, u)
       PROVE  Owed(t)'
  <2>1. CASE Push(h)
    <3>1. hpc[h] = "push" /\ hpc'[h] = "wait" /\ tilelist' # tilelist
      <4>1. /\ tilelist \in Seq(Tiles) /\ htile[h] \in Tiles
            /\ tilelist' = <<htile[h]>> \o tilelist
        BY <2>1, <1>a DEF Push, Cons, TypeOK
      <4>2. Len(tilelist') = Len(tilelist) + 1 /\ Len(tilelist) \in Nat
        BY <4>1, ConcatProperties, LenProperties
      <4> QED
        BY <2>1, <4>2, <1>a DEF Push, TypeOK
    <3>2. HandlerAsBefore(h)
      BY <1>14, <3>1 DEF OutageHandlerStep, SubscribeAnyway, Subscribe, PushLost, ServerDies,
                         AcceptAnyway, Accept
    <3> QED
      BY <1>5, <2>1, <3>2 DEF HandlerAsBefore
  <2> QED
    BY <1>4, <1>14, <2>1
<1> QED
  BY <1>1, <1>2, <1>3, <1>6, <1>7, <1>8, <1>9, <1>10, <1>11, <1>12, <1>13, <1>14
     DEF OutageNext, OutageWorkerStep

\* A stored tile without an expiry is being given one, or queued, or its task was
\* given up for good, or the snapshot held it so.
THEOREM ImmortalBySnapshotCorrect == OutageSpec => []ImmortalBySnapshot
<1>1. OutageInit => ImmortalBySnapshot
  BY DEF OutageInit, Init, ImmortalBySnapshot, Present
<1>2. OutageTypeOK /\ ImmortalBySnapshot /\ [OutageNext]_systemVars => ImmortalBySnapshot'
  BY ImmortalNext
<1> QED
  BY <1>1, <1>2, OutageTypesCorrect, PTL DEF OutageSpec
=============================================================================
