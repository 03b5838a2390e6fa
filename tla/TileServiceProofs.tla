------------------------- MODULE TileServiceProofs -------------------------
(***************************************************************************)
(* What holds of TileService and TileLease for any number of handlers,     *)
(* workers and tiles, any expiry and any choice of the switches.           *)
(***************************************************************************)
EXTENDS TileLease, SequenceTheorems, TLAPS

(***************************************************************************)
(* The queue and the inboxes under LPUSH, BRPOP, PUBLISH and the reading   *)
(* of one message: what they contain afterwards.                           *)
(***************************************************************************)
LEMMA ConsContains ==
    ASSUME NEW q \in Seq(Tiles), NEW t \in Tiles
    PROVE  /\ Cons(t, q) \in Seq(Tiles)
           /\ Contains(Cons(t, q), t)
           /\ \A x : Contains(q, x) => Contains(Cons(t, q), x)
<1>1. <<t>> \in Seq(Tiles) /\ Len(<<t>>) = 1 /\ Len(q) \in Nat
  BY LenProperties
<1>2. /\ <<t>> \o q \in Seq(Tiles)
      /\ Len(<<t>> \o q) = Len(q) + 1
      /\ (<<t>> \o q)[1] = t
      /\ \A i \in 1..Len(q) : (<<t>> \o q)[i + 1] = q[i]
  BY <1>1, ConcatProperties
<1> QED
  BY <1>1, <1>2 DEF Cons, Contains

\* What a queue holds after an element is added at its end.
LEMMA AppendContains ==
    ASSUME NEW q \in Seq(Tiles), NEW t \in Tiles
    PROVE  /\ Append(q, t) \in Seq(Tiles)
           /\ Contains(Append(q, t), t)
           /\ \A x : Contains(q, x) => Contains(Append(q, t), x)
BY AppendProperties, LenProperties DEF Contains

\* What a queue holds once its first element is taken.
LEMMA TailContains ==
    ASSUME NEW q \in Seq(Tiles), q # <<>>
    PROVE  /\ Tail(q) \in Seq(Tiles)
           /\ Head(q) \in Tiles
           /\ \A x : Contains(q, x) => x = Head(q) \/ Contains(Tail(q), x)
<1>1. /\ Tail(q) \in Seq(Tiles)
      /\ Head(q) \in Tiles
      /\ Len(Tail(q)) = Len(q) - 1
      /\ \A i \in 1..Len(Tail(q)) : Tail(q)[i] = q[i + 1]
  BY HeadTailProperties
<1>2. Len(q) \in Nat \ {0} /\ Head(q) = q[1]
  BY EmptySeq
<1>3. ASSUME NEW x, NEW i \in 1..Len(q), q[i] = x, i # 1
      PROVE  Contains(Tail(q), x)
  <2>1. i - 1 \in 1..Len(Tail(q)) /\ Tail(q)[i - 1] = x
    BY <1>1, <1>2, <1>3
  <2> QED
    BY <2>1 DEF Contains
<1> QED
  BY <1>1, <1>2, <1>3 DEF Contains

\* What a queue holds once its last element is taken.
LEMMA FrontContains ==
    ASSUME NEW q \in Seq(Tiles), q # <<>>
    PROVE  /\ Front(q) \in Seq(Tiles)
           /\ Last(q) \in Tiles
           /\ \A x : Contains(q, x) => x = Last(q) \/ Contains(Front(q), x)
<1>1. Len(q) \in Nat \ {0}
  BY EmptySeq
<1>2. \A i \in 1..Len(q) : q[i] \in Tiles
  BY ElementOfSeq
<1>3. /\ Front(q) \in Seq(Tiles)
      /\ Len(Front(q)) = Len(q) - 1
      /\ \A i \in 1..Len(q) - 1 : Front(q)[i] = q[i]
  BY <1>1, <1>2, SubSeqProperties DEF Front
<1> QED
  BY <1>1, <1>2, <1>3 DEF Contains, Last

(***************************************************************************)
(* Type correctness.                                                       *)
(***************************************************************************)
LEMMA TypeInit == Init => TypeOK
<1> SUFFICES ASSUME Init PROVE TypeOK
  OBVIOUS
<1>1. <<>> \in Seq(Tiles)
  BY EmptySeq
<1> QED
  BY <1>1, TTLAssumption, BoundAssumption
     DEF Init, TypeOK, HandlerPCs, WorkerPCs, Images

\* One step of a handler, a worker or the clock keeps the types.
LEMMA TypeNext == TypeOK /\ [Next]_vars => TypeOK'
<1> SUFFICES ASSUME TypeOK, [Next]_vars PROVE TypeOK'
  OBVIOUS
<1> USE NoTileAssumption, TTLAssumption, BoundAssumption
<1> USE DEF TypeOK, HandlerPCs, WorkerPCs, Images, handlerVars, redisVars, workerVars, faultVars
<1>1. ASSUME NEW h \in Handlers, NEW t \in Tiles, Accept(h, t) PROVE TypeOK'
  BY <1>1 DEF Accept
<1>2. ASSUME NEW h \in Handlers, LookupHit(h) PROVE TypeOK'
  BY <1>2 DEF LookupHit, Present
<1>3. ASSUME NEW h \in Handlers, LookupMiss(h) PROVE TypeOK'
  BY <1>3 DEF LookupMiss, Present
<1>4. ASSUME NEW h \in Handlers, Subscribe(h) PROVE TypeOK'
  BY <1>4, EmptySeq DEF Subscribe
<1>5. ASSUME NEW h \in Handlers, Push(h) PROVE TypeOK'
  BY <1>5, ConsContains DEF Push
<1>6. ASSUME NEW h \in Handlers, Receive(h) PROVE TypeOK'
  BY <1>6, TailContains DEF Receive
<1>7. ASSUME NEW h \in Handlers, Fetch(h) PROVE TypeOK'
  <2>1. htile[h] \in Tiles
    BY <1>7 DEF Fetch
  <2>2. hbuf' \in [Handlers -> Images]
    <3>1. CASE Present(htile[h])
      <4>1. PICK image \in cache[htile[h]] : hbuf' = [hbuf EXCEPT ![h] = image]
        BY <1>7, <3>1 DEF Fetch
      <4>2. image \in Images
        BY <2>1, <4>1
      <4> QED
        BY <4>1, <4>2
    <3>2. CASE ~Present(htile[h])
      BY <1>7, <3>2 DEF Fetch
    <3> QED
      BY <3>1, <3>2
  <2>3. inbox' \in [Handlers -> Seq(Tiles)]
    BY <1>7, EmptySeq DEF Fetch
  <2> QED
    BY <1>7, <2>2, <2>3 DEF Fetch
<1>8. ASSUME NEW h \in Handlers, Respond(h) PROVE TypeOK'
  BY <1>8 DEF Respond
<1>9. ASSUME NEW w \in Workers, Pop(w) PROVE TypeOK'
  BY <1>9, FrontContains DEF Pop
<1>10. ASSUME NEW w \in Workers, Render(w) PROVE TypeOK'
  BY <1>10 DEF Render
<1>11. ASSUME NEW w \in Workers, Zset(w) PROVE TypeOK'
  <2>1. wtask[w] \in Tiles /\ warea[w] \in Images
    BY <1>11 DEF Zset
  <2>2. cache[wtask[w]] \cup {warea[w]} \in SUBSET Images
    BY <2>1
  <2>3. \/ cache' = [cache EXCEPT ![wtask[w]] = cache[wtask[w]] \cup {warea[w]}]
        \/ cache' = cache
    BY <1>11 DEF Zset
  <2>4. cache' \in [Tiles -> SUBSET Images]
    BY <2>2, <2>3, ZenonT(60)
  <2> QED
    BY <1>11, <2>4 DEF Zset
<1>12. ASSUME NEW w \in Workers, Check(w) PROVE TypeOK'
  BY <1>12 DEF Check
<1>13. ASSUME NEW w \in Workers, Expire(w) PROVE TypeOK'
  <2>1. TTL \in 0..TTL
    OBVIOUS
  <2>2. ttl' \in [Tiles -> 0..TTL]
    BY <1>13, <2>1 DEF Expire, Present
  <2> QED
    BY <1>13, <2>2 DEF Expire
<1>14. ASSUME NEW w \in Workers, Publish(w) PROVE TypeOK'
  BY <1>14, AppendContains DEF Publish, Subscribed
<1>15. ASSUME NEW w \in Workers, Fail(w) PROVE TypeOK'
  BY <1>15 DEF Fail
<1>16. ASSUME NEW w \in Workers, Crash(w) PROVE TypeOK'
  BY <1>16 DEF Crash
<1>17. ASSUME Abort PROVE TypeOK'
  BY <1>17 DEF Abort
<1>18. ASSUME Restart PROVE TypeOK'
  <2>1. \A w \in Workers : wtask[w] = NoTile
    BY <1>18 DEF Restart, AllDown
  <2> QED
    BY <1>18, <2>1 DEF Restart
<1>19. ASSUME Tick PROVE TypeOK'
  BY <1>19 DEF Tick
<1>20. CASE UNCHANGED vars
  BY <1>20 DEF vars
<1> QED
  BY <1>1, <1>2, <1>3, <1>4, <1>5, <1>6, <1>7, <1>8, <1>9, <1>10, <1>11, <1>12, <1>13,
     <1>14, <1>15, <1>16, <1>17, <1>18, <1>19, <1>20
     DEF Next, HandlerStep, WorkerStep

\* Whatever is running, queued or stored is of the kind it should be, and a
\* process holds a task exactly while it works on one.
THEOREM TypeCorrect == Spec => []TypeOK
<1>1. Init => TypeOK
  BY TypeInit
<1>2. TypeOK /\ [Next]_vars => TypeOK'
  BY TypeNext
<1> QED
  BY <1>1, <1>2, PTL DEF Spec

(***************************************************************************)
(* No wakeup is lost.  The invariant is inductive with the types: LPUSH    *)
(* adds to the queue what the handler waits for, BRPOP moves it into a     *)
(* worker's hands, PUBLISH from there into every subscribed inbox, and a   *)
(* handler reads away only messages for other tiles.                       *)
(***************************************************************************)
LEMMA NoLostWakeupNext == TypeOK /\ NoLostWakeup /\ [Next]_vars => NoLostWakeup'
<1> SUFFICES ASSUME TypeOK, NoLostWakeup, [Next]_vars,
                    NEW h \in Handlers, hpc'[h] = "wait"
             PROVE  MessageToCome(h)'
  BY DEF NoLostWakeup
<1> USE DEF handlerVars, redisVars, workerVars, faultVars
\* A step that leaves alone whatever h can see.
<1>1. ASSUME hpc'[h] = hpc[h], htile'[h] = htile[h], inbox'[h] = inbox[h],
             UNCHANGED <<tilelist, wtask, dropped>>
      PROVE  MessageToCome(h)'
  <2>1. MessageToCome(h)
    BY <1>1 DEF NoLostWakeup
  <2> QED
    BY <1>1, <2>1 DEF MessageToCome, Woken, Subscribed
<1>2. ASSUME NEW k \in Handlers, NEW t \in Tiles, Accept(k, t)
      PROVE  MessageToCome(h)'
  BY <1>1, <1>2 DEF Accept, TypeOK
<1>3. ASSUME NEW k \in Handlers,
             LookupHit(k) \/ LookupMiss(k) \/ Subscribe(k) \/ Fetch(k) \/ Respond(k)
      PROVE  MessageToCome(h)'
  <2>1. hpc' = [hpc EXCEPT ![k] = hpc'[k]] /\ hpc'[k] # "wait"
    BY <1>3 DEF LookupHit, LookupMiss, Subscribe, Fetch, Respond, TypeOK
  <2>2. h # k
    BY <2>1
  <2> QED
    BY <1>1, <1>3, <2>2 DEF LookupHit, LookupMiss, Subscribe, Fetch, Respond, TypeOK
<1>4. ASSUME NEW k \in Handlers, Push(k)
      PROVE  MessageToCome(h)'
  <2>1. htile[k] \in Tiles /\ tilelist \in Seq(Tiles)
    BY <1>4 DEF Push, TypeOK
  <2>2. CASE h = k
    BY <1>4, <2>1, <2>2, ConsContains DEF Push, MessageToCome
  <2>3. CASE h # k
    <3>1. hpc[h] = "wait" /\ MessageToCome(h)
      BY <1>4, <2>3 DEF Push, TypeOK, NoLostWakeup
    <3>2. /\ UNCHANGED <<htile, inbox, wtask>> /\ hpc'[h] = hpc[h]
          /\ tilelist' = Cons(htile[k], tilelist)
          /\ dropped' = dropped \ {htile[k]}
      BY <1>4, <2>3 DEF Push, TypeOK
    <3>3. CASE htile[h] \in dropped
      BY <2>1, <3>2, <3>3, ConsContains DEF MessageToCome
    <3> QED
      BY <2>1, <3>1, <3>2, <3>3, ConsContains DEF MessageToCome, Woken, Subscribed
  <2> QED
    BY <2>2, <2>3
<1>5. ASSUME NEW k \in Handlers, Receive(k)
      PROVE  MessageToCome(h)'
  <2>1. CASE h = k
    <3>1. inbox[h] \in Seq(Tiles) /\ inbox[h] # <<>> /\ hpc[h] = "wait"
      BY <1>5, <2>1 DEF Receive, TypeOK
    <3>2. Head(inbox[h]) # htile[h] /\ inbox'[h] = Tail(inbox[h])
      BY <1>5, <2>1 DEF Receive, TypeOK
    <3>3. MessageToCome(h)
      BY <3>1 DEF NoLostWakeup
    <3> QED
      BY <1>5, <2>1, <3>1, <3>2, <3>3, TailContains
         DEF Receive, MessageToCome, Woken, Subscribed
  <2>2. CASE h # k
    BY <1>1, <1>5, <2>2 DEF Receive, TypeOK
  <2> QED
    BY <2>1, <2>2
<1>6. ASSUME NEW w \in Workers, Pop(w)
      PROVE  MessageToCome(h)'
  <2>1. hpc[h] = "wait" /\ MessageToCome(h)
    BY <1>6 DEF Pop, NoLostWakeup
  <2>2. htile[h] \in Tiles /\ wtask[w] = NoTile /\ tilelist \in Seq(Tiles)
    BY <1>6, <2>1 DEF Pop, TypeOK
  <2>3. CASE \E v \in Workers : wtask[v] = htile[h]
    BY <1>6, <2>2, <2>3, NoTileAssumption DEF Pop, TypeOK, MessageToCome
  <2>4. CASE Contains(tilelist, htile[h])
    <3>1. htile[h] = Last(tilelist) \/ Contains(Front(tilelist), htile[h])
      BY <1>6, <2>2, <2>4, FrontContains DEF Pop
    <3>2. htile' = htile /\ tilelist' = Front(tilelist) /\ wtask'[w] = Last(tilelist)
      BY <1>6 DEF Pop, TypeOK
    <3> QED
      BY <3>1, <3>2 DEF MessageToCome
  <2> QED
    BY <1>6, <2>1, <2>3, <2>4 DEF Pop, MessageToCome, Woken, Subscribed
<1>7. ASSUME NEW w \in Workers, Render(w) \/ Zset(w) \/ Check(w) \/ Expire(w)
      PROVE  MessageToCome(h)'
  BY <1>1, <1>7 DEF Render, Zset, Check, Expire
<1>8. ASSUME NEW w \in Workers, Publish(w)
      PROVE  MessageToCome(h)'
  <2>1. hpc[h] = "wait" /\ MessageToCome(h) /\ Subscribed(h) /\ Subscribed(h)'
    BY <1>8 DEF Publish, NoLostWakeup, Subscribed
  <2>2. inbox[h] \in Seq(Tiles) /\ wtask[w] \in Tiles
    BY <1>8 DEF Publish, TypeOK
  <2>3. inbox'[h] = Append(inbox[h], wtask[w])
    BY <1>8, <2>1 DEF Publish
  <2>4. CASE Woken(h)
    BY <1>8, <2>1, <2>2, <2>3, <2>4, AppendContains DEF Publish, MessageToCome, Woken
  <2>5. CASE \E v \in Workers : wtask[v] = htile[h]
    <3>1. PICK v \in Workers : wtask[v] = htile[h]
      BY <2>5
    <3>2. CASE v = w
      BY <1>8, <2>1, <2>2, <2>3, <3>1, <3>2, AppendContains
         DEF Publish, MessageToCome, Woken
    <3>3. CASE v # w
      BY <1>8, <3>1, <3>3 DEF Publish, TypeOK, MessageToCome
    <3> QED
      BY <3>2, <3>3
  <2> QED
    BY <1>8, <2>1, <2>4, <2>5 DEF Publish, MessageToCome
<1>9. ASSUME NEW w \in Workers, Fail(w) \/ Crash(w)
      PROVE  MessageToCome(h)'
  <2>1. hpc[h] = "wait" /\ MessageToCome(h) /\ htile[h] # NoTile
    BY <1>9 DEF Fail, Crash, NoLostWakeup, TypeOK
  <2>2. /\ UNCHANGED <<hpc, htile, inbox, tilelist>>
        /\ wtask' = [wtask EXCEPT ![w] = NoTile]
        /\ dropped \subseteq dropped'
        /\ wtask[w] # NoTile => wtask[w] \in dropped'
    BY <1>9 DEF Fail, Crash
  <2>3. CASE \E v \in Workers : wtask[v] = htile[h]
    BY <2>1, <2>2, <2>3 DEF MessageToCome, TypeOK
  <2> QED
    BY <2>1, <2>2, <2>3 DEF MessageToCome, Woken, Subscribed
<1>10. ASSUME Abort PROVE MessageToCome(h)'
  <2>1. hpc[h] = "wait" /\ MessageToCome(h) /\ htile[h] # NoTile
    BY <1>10 DEF Abort, NoLostWakeup, TypeOK
  <2>2. /\ UNCHANGED <<hpc, htile, inbox, tilelist>>
        /\ dropped' = dropped \cup ({wtask[w] : w \in Workers} \ {NoTile})
    BY <1>10 DEF Abort
  <2>3. CASE \E v \in Workers : wtask[v] = htile[h]
    BY <2>1, <2>2, <2>3 DEF MessageToCome
  <2> QED
    BY <2>1, <2>2, <2>3 DEF MessageToCome, Woken, Subscribed
<1>11. ASSUME Restart \/ Tick PROVE MessageToCome(h)'
  BY <1>1, <1>11 DEF Restart, Tick
<1>12. ASSUME UNCHANGED vars PROVE MessageToCome(h)'
  BY <1>1, <1>12 DEF vars
<1> QED
  BY <1>2, <1>3, <1>4, <1>5, <1>6, <1>7, <1>8, <1>9, <1>10, <1>11, <1>12
     DEF Next, HandlerStep, WorkerStep

\* Every waiting handler has a message to come, unless its task was dropped.
THEOREM NoLostWakeupCorrect == Spec => []NoLostWakeup
<1>1. Init => NoLostWakeup
  BY DEF Init, NoLostWakeup
<1>2. TypeOK /\ NoLostWakeup /\ [Next]_vars => NoLostWakeup'
  BY NoLostWakeupNext
<1> QED
  BY <1>1, <1>2, TypeCorrect, PTL DEF Spec

(***************************************************************************)
(* No tile is stored for ever, short of a dropped task.                    *)
(***************************************************************************)
LEMMA NoImmortalTileNext == TypeOK /\ NoImmortalTile /\ [Next]_vars => NoImmortalTile'
<1> DEFINE Holds(w, t) == wtask[w] = t /\ wpc[w] # "publish"
           Owed(t) == \/ \E w \in Workers : Holds(w, t)
                      \/ Contains(tilelist, t)
                      \/ t \in dropped
<1> SUFFICES ASSUME TypeOK, NoImmortalTile, [Next]_vars,
                    NEW t \in Tiles, Present(t)', ttl'[t] = 0
             PROVE  Owed(t)'
  BY DEF NoImmortalTile
<1> USE DEF handlerVars, redisVars, workerVars, faultVars
<1>1. Present(t) /\ ttl[t] = 0 => Owed(t)
  BY DEF NoImmortalTile
\* A step of worker w alone that keeps the key leaves the other workers' debts.
<1>2. ASSUME NEW w \in Workers, Present(t), ttl[t] = 0, ~Holds(w, t) \/ Holds(w, t)',
             tilelist' = tilelist, dropped \subseteq dropped',
             \A v \in Workers \ {w} : wtask'[v] = wtask[v] /\ wpc'[v] = wpc[v]
      PROVE  Owed(t)'
  BY <1>1, <1>2
<1>3. ASSUME UNCHANGED <<tilelist, cache, ttl, wpc, wtask, dropped>>
      PROVE  Owed(t)'
  BY <1>1, <1>3 DEF Present
<1>4. ASSUME NEW h \in Handlers,
             LookupHit(h) \/ LookupMiss(h) \/ Subscribe(h) \/ Receive(h) \/ Fetch(h)
                \/ Respond(h) \/ \E u \in Tiles : Accept(h, u)
      PROVE  Owed(t)'
  BY <1>3, <1>4 DEF Accept, LookupHit, LookupMiss, Subscribe, Receive, Fetch, Respond
<1>5. ASSUME NEW h \in Handlers, Push(h)
      PROVE  Owed(t)'
  <2>1. /\ UNCHANGED <<cache, ttl, wpc, wtask>>
        /\ tilelist' = Cons(htile[h], tilelist)
        /\ dropped' = dropped \ {htile[h]}
        /\ tilelist \in Seq(Tiles) /\ htile[h] \in Tiles
    BY <1>5 DEF Push, TypeOK
  <2>2. Owed(t)
    BY <1>1, <2>1 DEF Present
  <2>3. Contains(tilelist, t) \/ t = htile[h] => Contains(tilelist', t)
    BY <2>1, ConsContains
  <2> QED
    BY <2>1, <2>2, <2>3
<1>6. ASSUME NEW w \in Workers, Pop(w)
      PROVE  Owed(t)'
  <2>1. /\ UNCHANGED <<cache, ttl, dropped>>
        /\ tilelist # <<>> /\ tilelist \in Seq(Tiles) /\ wtask[w] # t
        /\ wtask'[w] = Last(tilelist) /\ wpc'[w] = "render"
        /\ \A v \in Workers \ {w} : wtask'[v] = wtask[v] /\ wpc'[v] = wpc[v]
        /\ tilelist' = Front(tilelist)
    BY <1>6, NoTileAssumption DEF Pop, TypeOK
  <2>2. Owed(t)
    BY <1>1, <2>1 DEF Present
  <2>3. Contains(tilelist, t) => t = Last(tilelist) \/ Contains(tilelist', t)
    BY <2>1, FrontContains
  <2>4. CASE \E v \in Workers : Holds(v, t)
    <3>1. PICK v \in Workers : Holds(v, t)
      BY <2>4
    <3>2. Holds(v, t)'
      BY <2>1, <3>1
    <3> QED
      BY <3>2
  <2> QED
    BY <2>1, <2>2, <2>3, <2>4
<1>7. ASSUME NEW w \in Workers, Render(w) \/ Publish(w)
      PROVE  Owed(t)'
  <2>1. /\ UNCHANGED <<tilelist, cache, ttl, dropped>>
        /\ \A v \in Workers \ {w} : wtask'[v] = wtask[v] /\ wpc'[v] = wpc[v]
        /\ ~Holds(w, t) \/ Holds(w, t)'
    BY <1>7 DEF Render, Publish, TypeOK
  <2> QED
    BY <1>2, <2>1 DEF Present
<1>8. ASSUME NEW w \in Workers, Zset(w)
      PROVE  Owed(t)'
  <2>1. /\ ttl' = ttl /\ dropped' = dropped /\ wtask' = wtask /\ tilelist' = tilelist
        /\ wpc'[w] = "check"
        /\ \A v \in Workers \ {w} : wpc'[v] = wpc[v]
    BY <1>8 DEF Zset, TypeOK
  <2>2. CASE wtask[w] = t
    BY <2>1, <2>2
  <2>3. CASE wtask[w] # t
    <3>1. Present(t)
      BY <1>8, <2>3 DEF Zset, TypeOK, Present
    <3> QED
      BY <1>2, <2>1, <2>3, <3>1
  <2> QED
    BY <2>2, <2>3
<1>9. ASSUME NEW w \in Workers, Check(w)
      PROVE  Owed(t)'
  <2>1. /\ UNCHANGED <<tilelist, cache, ttl, dropped, wtask>>
        /\ \A v \in Workers \ {w} : wpc'[v] = wpc[v]
        /\ wpc'[w] # "publish"
    BY <1>9 DEF Check, TypeOK
  <2> QED
    BY <1>2, <2>1 DEF Present
<1>10. ASSUME NEW w \in Workers, Expire(w)
       PROVE  Owed(t)'
  <2>1. /\ UNCHANGED <<tilelist, cache, dropped, wtask>>
        /\ \A v \in Workers \ {w} : wpc'[v] = wpc[v]
    BY <1>10 DEF Expire, TypeOK
  <2>2. Present(t)
    BY <2>1 DEF Present
  <2>3. wtask[w] # t /\ ttl[t] = 0
    BY <1>10, <2>2, TTLAssumption DEF Expire, TypeOK
  <2> QED
    BY <1>2, <2>1, <2>2, <2>3
<1>11. ASSUME NEW w \in Workers, Fail(w) \/ Crash(w)
       PROVE  Owed(t)'
  <2>1. /\ UNCHANGED <<tilelist, cache, ttl>>
        /\ wtask[w] = t => t \in dropped'
        /\ dropped \subseteq dropped'
        /\ \A v \in Workers \ {w} : wtask'[v] = wtask[v] /\ wpc'[v] = wpc[v]
    BY <1>11, NoTileAssumption DEF Fail, Crash, TypeOK
  <2> QED
    BY <1>2, <2>1 DEF Present
<1>12. ASSUME Abort PROVE Owed(t)'
  <2>1. /\ UNCHANGED <<tilelist, cache, ttl>>
        /\ dropped' = dropped \cup ({wtask[w] : w \in Workers} \ {NoTile})
    BY <1>12 DEF Abort
  <2> QED
    BY <1>1, <2>1, NoTileAssumption DEF Present
<1>13. ASSUME Restart PROVE Owed(t)'
  <2>1. /\ UNCHANGED <<tilelist, cache, ttl, wtask, dropped>>
        /\ \A w \in Workers : wtask[w] = NoTile
    BY <1>13 DEF Restart, AllDown, TypeOK
  <2> QED
    BY <1>1, <2>1, NoTileAssumption DEF Present
<1>14. ASSUME Tick PROVE Owed(t)'
  <2>1. ttl[t] = 0 /\ Present(t) /\ UNCHANGED <<tilelist, wpc, wtask, dropped>>
    <3>1. ttl[t] \in 0..TTL
      BY DEF TypeOK
    <3>2. ttl'[t] = IF ttl[t] > 0 THEN ttl[t] - 1 ELSE 0
      BY <1>14 DEF Tick
    <3>3. cache'[t] = IF ttl[t] = 1 THEN {} ELSE cache[t]
      BY <1>14 DEF Tick
    <3>4. ttl[t] # 1
      BY <3>3 DEF Present
    <3>5. ttl[t] = 0
      BY <3>1, <3>2, <3>4, TTLAssumption
    <3> QED
      BY <1>14, <3>3, <3>5 DEF Tick, Present
  <2> QED
    BY <1>1, <2>1
<1>15. ASSUME UNCHANGED vars PROVE Owed(t)'
  BY <1>3, <1>15 DEF vars
<1> QED
  BY <1>4, <1>5, <1>6, <1>7, <1>8, <1>9, <1>10, <1>11, <1>12, <1>13, <1>14, <1>15
     DEF Next, HandlerStep, WorkerStep

\* A key without expiry has a worker about to give it one or a task queued,
\* unless its task was given up for good.
THEOREM NoImmortalTileCorrect == Spec => []NoImmortalTile
<1>1. Init => NoImmortalTile
  BY DEF Init, NoImmortalTile, Present
<1>2. TypeOK /\ NoImmortalTile /\ [Next]_vars => NoImmortalTile'
  BY NoImmortalTileNext
<1> QED
  BY <1>1, <1>2, TypeCorrect, PTL DEF Spec

(***************************************************************************)
(* Pictures.  The set under the key of a plottable tile holds no other     *)
(* picture than that tile's, because every worker draws its own area anew  *)
(* before it stores it, and so does the buffer of whoever asked for it.    *)
(***************************************************************************)
PictureInv ==
    /\ \A t \in Plottable : cache[t] \subseteq {t}
    /\ \A w \in Workers : wpc[w] \in {"zset", "check"} /\ wtask[w] \in Plottable
                             => warea[w] = wtask[w]
    /\ \A h \in Handlers : htile[h] \in Plottable => hbuf[h] \in {htile[h], Garbage}

\* Every step keeps the invariant of the pictures.
LEMMA PictureNext == TypeOK /\ PictureInv /\ [Next]_vars => PictureInv'
<1> SUFFICES ASSUME TypeOK, PictureInv, [Next]_vars PROVE PictureInv'
  OBVIOUS
<1> USE PlottableAssumption, NoTileAssumption
<1> USE DEF handlerVars, redisVars, workerVars, faultVars
\* Of the three conjuncts, those whose variables a step leaves alone persist.
<1>1. cache' = cache => \A t \in Plottable : cache'[t] \subseteq {t}
  BY DEF PictureInv
<1>2. UNCHANGED <<wpc, wtask, warea>>
      => \A w \in Workers : wpc'[w] \in {"zset", "check"} /\ wtask'[w] \in Plottable
                               => warea'[w] = wtask'[w]
  BY DEF PictureInv
<1>3. UNCHANGED <<htile, hbuf>>
      => \A h \in Handlers : htile'[h] \in Plottable => hbuf'[h] \in {htile'[h], Garbage}
  BY DEF PictureInv
<1>4. ASSUME NEW h \in Handlers, NEW t \in Tiles, Accept(h, t) PROVE PictureInv'
  BY <1>1, <1>2, <1>4 DEF Accept, PictureInv, TypeOK
<1>5. ASSUME NEW h \in Handlers, LookupHit(h) \/ Fetch(h) PROVE PictureInv'
  <2>1. htile[h] \in Tiles
    BY <1>5 DEF LookupHit, Fetch, TypeOK
  <2>2. hbuf' = hbuf \/ \E image \in cache[htile[h]] : hbuf' = [hbuf EXCEPT ![h] = image]
    BY <1>5 DEF LookupHit, Fetch
  <2>3. \A k \in Handlers : htile'[k] \in Plottable => hbuf'[k] \in {htile'[k], Garbage}
    <3>1. htile' = htile
      BY <1>5 DEF LookupHit, Fetch
    <3> QED
      BY <2>2, <3>1 DEF PictureInv, TypeOK
  <2> QED
    BY <1>1, <1>2, <1>5, <2>3 DEF LookupHit, Fetch, PictureInv
<1>6. ASSUME NEW h \in Handlers,
             LookupMiss(h) \/ Subscribe(h) \/ Push(h) \/ Receive(h)
      PROVE  PictureInv'
  BY <1>1, <1>2, <1>3, <1>6 DEF LookupMiss, Subscribe, Push, Receive, PictureInv
<1>7. ASSUME NEW h \in Handlers, Respond(h) PROVE PictureInv'
  BY <1>1, <1>2, <1>7 DEF Respond, PictureInv, TypeOK
<1>8. ASSUME NEW w \in Workers,
             Pop(w) \/ Check(w) \/ Expire(w) \/ Publish(w) \/ Fail(w) \/ Crash(w)
      PROVE  PictureInv'
  <2>1. /\ UNCHANGED <<htile, hbuf, cache>>
        /\ \A v \in Workers \ {w} : /\ wpc'[v] = wpc[v]
                                    /\ wtask'[v] = wtask[v]
                                    /\ warea'[v] = warea[v]
    BY <1>8 DEF Pop, Check, Expire, Publish, Fail, Crash, TypeOK
  <2>2. wpc'[w] \in {"zset", "check"}
        => wpc[w] = "check" /\ wtask' = wtask /\ warea' = warea
    BY <1>8 DEF Pop, Check, Expire, Publish, Fail, Crash, TypeOK
  <2>3. \A v \in Workers : wpc'[v] \in {"zset", "check"} /\ wtask'[v] \in Plottable
                              => warea'[v] = wtask'[v]
    BY <2>1, <2>2 DEF PictureInv
  <2> QED
    BY <1>1, <1>3, <2>1, <2>3 DEF PictureInv
<1>9. ASSUME NEW w \in Workers, Render(w) PROVE PictureInv'
  BY <1>1, <1>3, <1>9 DEF Render, PictureInv, TypeOK
<1>10. ASSUME NEW w \in Workers, Zset(w) PROVE PictureInv'
  <2>1. /\ wpc[w] = "zset" /\ wtask[w] \in Tiles
        /\ wpc' = [wpc EXCEPT ![w] = "check"]
        /\ UNCHANGED <<htile, hbuf, wtask, warea>>
    BY <1>10 DEF Zset, TypeOK
  <2>2. \A t \in Plottable : cache'[t] \subseteq {t}
    <3>1. wtask[w] \in Plottable => warea[w] = wtask[w]
      BY <2>1 DEF PictureInv
    <3>2. TAKE t \in Plottable
    <3>3. cache'[t] = cache[t] \/ (wtask[w] = t /\ cache'[t] = cache[t] \cup {warea[w]})
      BY <1>10, <2>1 DEF Zset, TypeOK
    <3>4. cache[t] \subseteq {t}
      BY DEF PictureInv
    <3> QED
      BY <3>1, <3>3, <3>4
  <2>3. \A v \in Workers : wpc'[v] \in {"zset", "check"} /\ wtask'[v] \in Plottable
                              => warea'[v] = wtask'[v]
    BY <2>1 DEF PictureInv, TypeOK
  <2> QED
    BY <1>3, <2>1, <2>2, <2>3 DEF PictureInv
<1>11. ASSUME Abort \/ Restart PROVE PictureInv'
  <2>1. /\ UNCHANGED <<htile, hbuf, cache>>
        /\ \A v \in Workers : wpc'[v] \notin {"zset", "check"}
    BY <1>11 DEF Abort, Restart
  <2> QED
    BY <1>1, <1>3, <2>1 DEF PictureInv
<1>12. ASSUME Tick PROVE PictureInv'
  <2>1. \A t \in Plottable : cache'[t] \subseteq {t}
    BY <1>12 DEF Tick, PictureInv
  <2> QED
    BY <1>2, <1>3, <1>12, <2>1 DEF Tick, PictureInv
<1>13. ASSUME UNCHANGED vars PROVE PictureInv'
  BY <1>1, <1>2, <1>3, <1>13 DEF vars, PictureInv
<1> QED
  BY <1>4, <1>5, <1>6, <1>7, <1>8, <1>9, <1>10, <1>11, <1>12, <1>13
     DEF Next, HandlerStep, WorkerStep

\* The invariant of the pictures holds in every reachable state.
LEMMA PictureCorrect == Spec => []PictureInv
<1>1. Init => PictureInv
  BY PlottableAssumption, NoTileAssumption DEF Init, PictureInv
<1>2. TypeOK /\ PictureInv /\ [Next]_vars => PictureInv'
  BY PictureNext
<1> QED
  BY <1>1, <1>2, TypeCorrect, PTL DEF Spec

\* Whatever the delays and the faults, a plottable tile is never drawn with
\* another tile's picture.
THEOREM OwnPictureOrGarbageCorrect == Spec => []OwnPictureOrGarbage
<1>1. PictureInv => OwnPictureOrGarbage
  BY DEF PictureInv, OwnPictureOrGarbage, Picture
<1> QED
  BY <1>1, PictureCorrect, PTL

(***************************************************************************)
(* The record of the times is only a record: a behaviour of TileLease is   *)
(* one of TileService, and what holds of the latter holds of it.           *)
(***************************************************************************)
LEMMA LeaseStep == [LeaseNext]_leaseVars => [Next]_vars
<1>1. LeaseNext => Next
  BY DEF LeaseNext, LeaseFetch, LeaseExpire, LeasePublish, LeaseDrop, LeaseTick, OtherStep,
         Next, HandlerStep, WorkerStep
<1>2. UNCHANGED leaseVars => UNCHANGED vars
  BY DEF leaseVars
<1> QED
  BY <1>1, <1>2

\* Every behaviour with the record is one without it.
LEMMA LeaseRefines == LeaseSpec => Spec
<1>1. LeaseInit => Init
  BY DEF LeaseInit
<1> QED
  BY <1>1, LeaseStep, PTL DEF LeaseSpec, Spec

\* The record keeps its types, and holds no delay of a worker that has none.
LEMMA LeaseTypeNext == TypeOK /\ LeaseTypeOK /\ [LeaseNext]_leaseVars => LeaseTypeOK'
<1> SUFFICES ASSUME TypeOK, LeaseTypeOK, [LeaseNext]_leaseVars
             PROVE  LeaseTypeOK'
  OBVIOUS
<1> USE TTLAssumption DEF handlerVars, redisVars, workerVars, faultVars
<1>1. ASSUME NEW h \in Handlers, LeaseFetch(h) PROVE LeaseTypeOK'
  BY <1>1 DEF LeaseFetch, Fetch, LeaseTypeOK
<1>2. ASSUME NEW w \in Workers, LeaseExpire(w) PROVE LeaseTypeOK'
  BY <1>2 DEF LeaseExpire, Expire, LeaseTypeOK, TypeOK
<1>3. ASSUME NEW w \in Workers, LeasePublish(w) PROVE LeaseTypeOK'
  BY <1>3 DEF LeasePublish, Publish, LeaseTypeOK, TypeOK
<1>4. ASSUME LeaseDrop PROVE LeaseTypeOK'
  <2>1. \A w \in Workers : wpc'[w] = wpc[w] \/ wtask'[w] = NoTile
    BY <1>4 DEF LeaseDrop, Abort, Fail, Crash, TypeOK
  <2> QED
    BY <1>4, <2>1 DEF LeaseDrop, LeaseTypeOK
<1>5. ASSUME LeaseTick PROVE LeaseTypeOK'
  <2>1. \A n \in 0..TTL : Older(n) \in 0..TTL
    BY DEF Older
  <2>2. lag' \in [Handlers -> 0..TTL]
    BY <1>5, <2>1 DEF LeaseTick, LeaseTypeOK
  <2>3. \A w \in Workers : age'[w] \in 0..TTL
    BY <1>5, <2>1 DEF LeaseTick, LeaseTypeOK
  <2>4. age' \in [Workers -> 0..TTL]
    BY <1>5, <2>3 DEF LeaseTick
  <2>5. \A w \in Workers : age'[w] > 0 => wpc'[w] \in {"expire", "publish"}
    BY <1>5 DEF LeaseTick, Tick, LeaseTypeOK
  <2> QED
    BY <2>2, <2>4, <2>5 DEF LeaseTypeOK
<1>6. ASSUME OtherStep PROVE LeaseTypeOK'
  <2>1. \A w \in Workers : wpc[w] \in {"expire", "publish"} => wpc'[w] = wpc[w]
    BY <1>6 DEF OtherStep, LookupHit, LookupMiss, Subscribe, Push, Receive, Respond, Accept,
                Pop, Render, Zset, Check, Restart, AllDown, TypeOK
  <2> QED
    BY <1>6, <2>1 DEF OtherStep, timeVars, LeaseTypeOK
<1>7. CASE UNCHANGED leaseVars
  BY <1>7 DEF leaseVars, timeVars, vars, LeaseTypeOK
<1> QED
  BY <1>1, <1>2, <1>3, <1>4, <1>5, <1>6, <1>7 DEF LeaseNext

(***************************************************************************)
(* A woken handler finds its tile unless it has lapsed.  A worker that is  *)
(* about to call EXPIRE has its key or has noted that it is gone; from     *)
(* EXPIRE on the key loses a tick only when the delay on record grows by   *)
(* one, and a message takes that delay along to whoever it wakes.          *)
(***************************************************************************)
Alive(t, delay) ==
    delay = TTL \/ (Present(t) /\ (ttl[t] = 0 \/ ttl[t] + delay >= TTL))

LeaseInv ==
    /\ \A h \in Handlers : Woken(h) => Alive(htile[h], lag[h])
    /\ \A w \in Workers :
          /\ wpc[w] = "expire" => Present(wtask[w]) \/ age[w] = TTL
          /\ wpc[w] = "publish" => Alive(wtask[w], age[w])

\* PUBLISH wakes only those who wait for the tile it names.
LEMMA PublishWakes ==
    ASSUME TypeOK, NEW w \in Workers, Publish(w), NEW h \in Handlers, Woken(h)', ~Woken(h)
    PROVE  htile[h] = wtask[w]
<1>1. hpc' = hpc /\ htile' = htile /\ wtask[w] \in Tiles /\ Subscribed(h)
  BY DEF Publish, Woken, Subscribed, TypeOK
<1>2. inbox[h] \in Seq(Tiles) /\ inbox'[h] = Append(inbox[h], wtask[w])
  BY <1>1 DEF Publish, TypeOK
<1>3. /\ Len(inbox[h]) \in Nat
      /\ Len(inbox'[h]) = Len(inbox[h]) + 1
      /\ \A i \in 1..Len(inbox[h]) : inbox'[h][i] = inbox[h][i]
      /\ inbox'[h][Len(inbox[h]) + 1] = wtask[w]
  BY <1>1, <1>2, AppendProperties, LenProperties
<1>4. Contains(inbox'[h], htile[h]) /\ ~Contains(inbox[h], htile[h])
  BY <1>1 DEF Woken, Subscribed
<1>5. PICK i \in 1..Len(inbox'[h]) : inbox'[h][i] = htile[h]
  BY <1>4 DEF Contains
<1>6. i \notin 1..Len(inbox[h])
  BY <1>3, <1>4, <1>5 DEF Contains
<1>7. i = Len(inbox[h]) + 1
  BY <1>3, <1>5, <1>6
<1> QED
  BY <1>3, <1>5, <1>7

\* Nothing but PUBLISH wakes a handler: reading a message, or subscribing anew,
\* leaves a handler awake only that was.
LEMMA HandlerWakesNobody ==
    ASSUME TypeOK, NEW k \in Handlers,
           LookupHit(k) \/ LookupMiss(k) \/ Subscribe(k) \/ Push(k) \/ Receive(k)
              \/ Fetch(k) \/ Respond(k) \/ \E t \in Tiles : Accept(k, t),
           NEW h \in Handlers, Woken(h)'
    PROVE  Woken(h) /\ htile'[h] = htile[h]
<1> USE DEF handlerVars, redisVars, workerVars, faultVars
<1>1. CASE h # k
  <2>1. hpc'[h] = hpc[h] /\ htile'[h] = htile[h] /\ inbox'[h] = inbox[h]
    BY <1>1 DEF LookupHit, LookupMiss, Subscribe, Push, Receive, Fetch, Respond, Accept, TypeOK
  <2> QED
    BY <2>1 DEF Woken, Subscribed
<1>2. CASE h = k /\ Push(k)
  BY <1>2 DEF Push, TypeOK, Woken, Subscribed
<1>3. CASE h = k /\ Receive(k)
  <2>1. inbox[h] \in Seq(Tiles) /\ inbox[h] # <<>> /\ hpc[h] = "wait"
    BY <1>3 DEF Receive, TypeOK
  <2>2. /\ Len(inbox[h]) \in Nat \ {0} /\ Head(inbox[h]) = inbox[h][1]
        /\ Len(Tail(inbox[h])) = Len(inbox[h]) - 1
        /\ \A i \in 1..Len(Tail(inbox[h])) : Tail(inbox[h])[i] = inbox[h][i + 1]
    BY <2>1, EmptySeq, HeadTailProperties
  <2>3. hpc'[h] = "fetch" => Contains(inbox[h], htile[h])
    BY <1>3, <2>2 DEF Receive, TypeOK, Contains
  <2>4. ASSUME NEW i \in 1..Len(Tail(inbox[h])), Tail(inbox[h])[i] = htile[h]
        PROVE  i + 1 \in 1..Len(inbox[h]) /\ inbox[h][i + 1] = htile[h]
    BY <2>2, <2>4
  <2>5. Contains(Tail(inbox[h]), htile[h]) => Contains(inbox[h], htile[h])
    BY <2>4 DEF Contains
  <2> QED
    BY <1>3, <2>1, <2>3, <2>5 DEF Receive, TypeOK, Woken, Subscribed
<1>4. CASE h = k /\ Subscribe(k)
  BY <1>4, EmptySeq DEF Subscribe, TypeOK, Woken, Subscribed, Contains
<1>5. CASE h = k /\ (LookupHit(k) \/ LookupMiss(k) \/ Fetch(k) \/ Respond(k)
                        \/ \E t \in Tiles : Accept(k, t))
  BY <1>5 DEF LookupHit, LookupMiss, Fetch, Respond, Accept, TypeOK, Woken, Subscribed
<1> QED
  BY <1>1, <1>2, <1>3, <1>4, <1>5

\* Every step keeps the invariant of the times.
LEMMA LeaseInvNext ==
    TypeOK /\ LeaseTypeOK /\ LeaseInv /\ [LeaseNext]_leaseVars => LeaseInv'
<1> DEFINE HandlerPart(h) == Woken(h) => Alive(htile[h], lag[h])
           WorkerPart(w) ==
              /\ wpc[w] = "expire" => Present(wtask[w]) \/ age[w] = TTL
              /\ wpc[w] = "publish" => Alive(wtask[w], age[w])
           Kept == /\ \A h \in Handlers : HandlerPart(h)'
                   /\ \A w \in Workers : WorkerPart(w)'
<1> SUFFICES ASSUME TypeOK, LeaseTypeOK, LeaseInv, [LeaseNext]_leaseVars
             PROVE  Kept
  BY DEF LeaseInv
<1> USE DEF handlerVars, redisVars, workerVars, faultVars
<1> USE TTLAssumption, NoTileAssumption
<1>1. \A h \in Handlers : HandlerPart(h)
  BY DEF LeaseInv
<1>2. \A w \in Workers : WorkerPart(w)
  BY DEF LeaseInv
<1>3. \A h \in Handlers : Woken(h) => htile[h] \in Tiles
  BY DEF Woken, Subscribed, TypeOK
<1>4. \A w \in Workers : wpc[w] \in {"expire", "publish"} => wtask[w] \in Tiles
  BY DEF TypeOK
\* A step that neither wakes anybody nor takes anything from the store keeps it.
<1>5. ASSUME \A t \in Tiles : Present(t) => Present(t)' /\ (ttl'[t] = ttl[t] \/ ttl'[t] = TTL),
             \A h \in Handlers : Woken(h)' => Woken(h) /\ htile'[h] = htile[h] /\ lag'[h] = lag[h]
      PROVE  \A h \in Handlers : HandlerPart(h)'
  <2>1. TAKE h \in Handlers
  <2>2. HAVE Woken(h)'
  <2>3. Woken(h) /\ htile'[h] = htile[h] /\ lag'[h] = lag[h] /\ htile[h] \in Tiles
    BY <1>3, <1>5, <2>2
  <2>4. Alive(htile[h], lag[h]) /\ lag[h] \in 0..TTL
    BY <1>1, <2>3 DEF LeaseTypeOK
  <2> QED
    BY <1>5, <2>3, <2>4 DEF Alive
<1>6. ASSUME \A t \in Tiles : Present(t) => Present(t)' /\ (ttl'[t] = ttl[t] \/ ttl'[t] = TTL),
             NEW w \in Workers, wpc'[w] = wpc[w], wtask'[w] = wtask[w],
             wpc[w] \in {"expire", "publish"} => age'[w] = age[w]
      PROVE  WorkerPart(w)'
  <2>1. wpc[w] \in {"expire", "publish"} => wtask[w] \in Tiles /\ age[w] \in 0..TTL
    BY <1>4 DEF LeaseTypeOK
  <2> QED
    BY <1>2, <1>6, <2>1 DEF Alive
<1>7. ASSUME NEW h \in Handlers,
             LeaseFetch(h) \/ (UNCHANGED timeVars /\
                (LookupHit(h) \/ LookupMiss(h) \/ Subscribe(h) \/ Push(h) \/ Receive(h)
                    \/ Respond(h) \/ \E t \in Tiles : Accept(h, t)))
      PROVE  Kept
  <2>1. UNCHANGED <<cache, ttl, wpc, wtask, age>>
    BY <1>7 DEF LeaseFetch, timeVars, Accept, LookupHit, LookupMiss, Subscribe, Push, Receive,
                Fetch, Respond
  <2>2. \A k \in Handlers : Woken(k)' => lag'[k] = lag[k]
    <3>1. CASE LeaseFetch(h)
      BY <3>1 DEF LeaseFetch, Fetch, Woken, Subscribed, LeaseTypeOK, TypeOK
    <3> QED
      BY <1>7, <3>1 DEF timeVars
  <2>3. \A k \in Handlers : Woken(k)' => Woken(k) /\ htile'[k] = htile[k]
    BY <1>7, HandlerWakesNobody DEF LeaseFetch
  <2>4. \A t \in Tiles : Present(t) => Present(t)' /\ ttl'[t] = ttl[t]
    BY <2>1 DEF Present
  <2> QED
    BY <1>5, <1>6, <2>1, <2>2, <2>3, <2>4
<1>8. ASSUME NEW w \in Workers, UNCHANGED timeVars,
             Pop(w) \/ Render(w) \/ Zset(w) \/ Check(w)
      PROVE  Kept
  <2>1. /\ UNCHANGED <<ttl, hpc, htile, inbox, lag, age>>
        /\ \A v \in Workers \ {w} : wpc'[v] = wpc[v] /\ wtask'[v] = wtask[v]
    BY <1>8 DEF Pop, Render, Zset, Check, timeVars, TypeOK
  <2>2. \A t \in Tiles : Present(t) => Present(t)'
    <3>1. CASE Zset(w)
      <4>1. wtask[w] \in Tiles
        BY <3>1 DEF Zset, TypeOK
      <4>2. ASSUME NEW t \in Tiles, cache[t] # {} PROVE cache'[t] # {}
        <5>1. cache'[t] = cache[t] \/ cache'[t] = cache[t] \cup {warea[w]}
          BY <3>1, <4>1 DEF Zset, TypeOK
        <5>2. warea[w] \in cache[t] \cup {warea[w]}
          OBVIOUS
        <5> QED
          BY <4>2, <5>1, <5>2
      <4> QED
        BY <4>2 DEF Present
    <3>2. CASE Pop(w) \/ Render(w) \/ Check(w)
      BY <3>2 DEF Pop, Render, Check, Present
    <3> QED
      BY <1>8, <3>1, <3>2
  <2>3. \A h \in Handlers : Woken(h)' = Woken(h)
    BY <2>1 DEF Woken, Subscribed
  <2>4. wpc'[w] # "publish" /\ (wpc'[w] = "expire" => Present(wtask[w])' /\ wtask'[w] = wtask[w])
    BY <1>8 DEF Pop, Render, Zset, Check, Present, TypeOK
  <2>5. WorkerPart(w)'
    BY <2>4 DEF Present
  <2> QED
    BY <1>5, <1>6, <2>1, <2>2, <2>3, <2>5
<1>9. ASSUME NEW w \in Workers, LeaseExpire(w)
      PROVE  Kept
  <2>1. /\ UNCHANGED <<cache, hpc, htile, inbox, lag, wtask>>
        /\ wpc[w] = "expire" /\ wpc' = [wpc EXCEPT ![w] = "publish"]
        /\ age' = [age EXCEPT ![w] = IF Present(wtask[w]) THEN 0 ELSE age[w]]
        /\ ttl' = IF Present(wtask[w]) THEN [ttl EXCEPT ![wtask[w]] = TTL] ELSE ttl
        /\ wtask[w] \in Tiles
    BY <1>9 DEF LeaseExpire, Expire, TypeOK
  <2>2. \A t \in Tiles : Present(t) => Present(t)' /\ (ttl'[t] = ttl[t] \/ ttl'[t] = TTL)
    BY <2>1 DEF TypeOK, Present
  <2>3. \A h \in Handlers : Woken(h)' = Woken(h)
    BY <2>1 DEF Woken, Subscribed
  <2>4. \A v \in Workers \ {w} : wpc'[v] = wpc[v] /\ wtask'[v] = wtask[v] /\ age'[v] = age[v]
    BY <2>1 DEF TypeOK, LeaseTypeOK
  <2>5. wpc'[w] = "publish" /\ wtask'[w] = wtask[w]
    BY <2>1 DEF TypeOK
  <2>6. CASE Present(wtask[w])
    <3>1. age'[w] = 0 /\ ttl'[wtask[w]] = TTL /\ Present(wtask[w])'
      BY <2>1, <2>6 DEF TypeOK, LeaseTypeOK, Present
    <3> QED
      BY <1>5, <1>6, <2>1, <2>2, <2>3, <2>4, <2>5, <3>1 DEF Alive
  <2>7. CASE ~Present(wtask[w])
    <3>1. age'[w] = TTL
      BY <1>2, <2>1, <2>7 DEF LeaseTypeOK
    <3> QED
      BY <1>5, <1>6, <2>1, <2>2, <2>3, <2>4, <2>5, <3>1 DEF Alive
  <2> QED
    BY <2>6, <2>7
<1>10. ASSUME NEW w \in Workers, LeasePublish(w)
       PROVE  Kept
  <2>1. /\ UNCHANGED <<cache, ttl, hpc, htile>>
        /\ wpc[w] = "publish" /\ wpc'[w] = "pop" /\ wtask[w] \in Tiles
        /\ \A v \in Workers \ {w} : wpc'[v] = wpc[v] /\ wtask'[v] = wtask[v] /\ age'[v] = age[v]
    BY <1>10 DEF LeasePublish, Publish, TypeOK, LeaseTypeOK
  <2>2. \A h \in Handlers : lag'[h] = IF Woken(h)' /\ ~Woken(h) THEN age[w] ELSE lag[h]
    BY <1>10 DEF LeasePublish
  <2>3. Alive(wtask[w], age[w])
    BY <1>2, <2>1
  <2>4. \A h \in Handlers : HandlerPart(h)'
    <3>1. TAKE h \in Handlers
    <3>2. HAVE Woken(h)'
    <3>3. CASE Woken(h)
      BY <1>1, <2>1, <2>2, <3>3 DEF Alive, Present
    <3>4. CASE ~Woken(h)
      <4>1. htile[h] = wtask[w]
        BY <1>10, <3>2, <3>4, PublishWakes DEF LeasePublish
      <4> QED
        BY <2>1, <2>2, <2>3, <3>2, <3>4, <4>1 DEF Alive, Present
    <3> QED
      BY <3>3, <3>4
  <2>5. \A t \in Tiles : Present(t) => Present(t)' /\ ttl'[t] = ttl[t]
    BY <2>1 DEF Present
  <2>6. WorkerPart(w)'
    BY <2>1
  <2> QED
    BY <1>6, <2>1, <2>4, <2>5, <2>6
<1>11. ASSUME LeaseDrop \/ (Restart /\ UNCHANGED timeVars)
       PROVE  Kept
  <2>1. /\ UNCHANGED <<cache, ttl, hpc, htile, inbox, lag>>
        /\ \A v \in Workers : \/ wpc'[v] \notin {"expire", "publish"}
                              \/ /\ wpc'[v] = wpc[v] /\ wtask'[v] = wtask[v]
                                 /\ wtask[v] # NoTile
    BY <1>11 DEF LeaseDrop, Abort, Fail, Crash, Restart, AllDown, timeVars, TypeOK
  <2>2. \A v \in Workers : wpc'[v] \in {"expire", "publish"} => age'[v] = age[v]
    BY <1>11, <2>1 DEF LeaseDrop, timeVars
  <2>3. \A t \in Tiles : Present(t) => Present(t)' /\ ttl'[t] = ttl[t]
    BY <2>1 DEF Present
  <2>4. \A h \in Handlers : Woken(h)' = Woken(h)
    BY <2>1 DEF Woken, Subscribed
  <2>5. \A v \in Workers : WorkerPart(v)'
    BY <1>6, <2>1, <2>2, <2>3
  <2> QED
    BY <1>5, <2>1, <2>3, <2>4, <2>5
<1>12. ASSUME LeaseTick
       PROVE  Kept
  <2>1. UNCHANGED <<hpc, htile, inbox, wpc, wtask>>
    BY <1>12 DEF LeaseTick, Tick
  \* A tile that is alive for a delay is alive a tick later for a longer one.
  <2>2. ASSUME NEW t \in Tiles, NEW delay \in 0..TTL, Alive(t, delay)
        PROVE  Older(delay) = TTL \/ (Present(t)' /\ (ttl'[t] = 0 \/ ttl'[t] + Older(delay) >= TTL))
    <3>1. ttl[t] \in 0..TTL
      BY DEF TypeOK
    <3>2. /\ cache'[t] = IF ttl[t] = 1 THEN {} ELSE cache[t]
          /\ ttl'[t] = IF ttl[t] > 0 THEN ttl[t] - 1 ELSE 0
      BY <1>12 DEF LeaseTick, Tick
    <3>3. CASE delay = TTL \/ delay = TTL - 1
      BY <3>3 DEF Older
    <3>4. CASE delay < TTL - 1
      <4>1. cache[t] # {} /\ (ttl[t] = 0 \/ ttl[t] + delay >= TTL) /\ Older(delay) = delay + 1
        BY <2>2, <3>4 DEF Alive, Older, Present
      <4>2. ttl[t] # 1
        BY <3>1, <3>4, <4>1
      <4>3. cache'[t] # {} /\ (ttl'[t] = 0 \/ ttl'[t] + (delay + 1) >= TTL)
        BY <3>1, <3>2, <4>1, <4>2
      <4> QED
        BY <4>1, <4>3 DEF Present
    <3> QED
      BY <3>3, <3>4
  <2>3. \A h \in Handlers : HandlerPart(h)'
    <3>1. TAKE h \in Handlers
    <3>2. HAVE Woken(h)'
    <3>3. Woken(h) /\ htile[h] \in Tiles /\ lag[h] \in 0..TTL /\ lag'[h] = Older(lag[h])
      BY <1>3, <1>12, <2>1, <3>2 DEF LeaseTick, LeaseTypeOK, Woken, Subscribed
    <3>4. Alive(htile[h], lag[h])
      BY <1>1, <3>3
    <3> QED
      BY <2>1, <2>2, <3>3, <3>4 DEF Alive
  <2>4. ASSUME NEW w \in Workers, wpc[w] = "publish" PROVE WorkerPart(w)'
    <3>1. wtask[w] \in Tiles /\ age[w] \in 0..TTL /\ age'[w] = Older(age[w])
      BY <1>4, <1>12, <2>4 DEF LeaseTick, LeaseTypeOK
    <3>2. Alive(wtask[w], age[w])
      BY <1>2, <2>4
    <3> QED
      BY <2>1, <2>2, <2>4, <3>1, <3>2 DEF Alive
  <2>5. ASSUME NEW w \in Workers, wpc[w] = "expire" PROVE WorkerPart(w)'
    <3>1. wtask[w] \in Tiles
      BY <1>4, <2>5
    <3>2. age'[w] = IF ttl[wtask[w]] = 1 THEN TTL ELSE age[w]
      BY <1>12, <2>5 DEF LeaseTick
    <3>3. cache'[wtask[w]] = IF ttl[wtask[w]] = 1 THEN {} ELSE cache[wtask[w]]
      BY <1>12, <3>1 DEF LeaseTick, Tick
    <3> QED
      BY <1>2, <2>1, <2>5, <3>2, <3>3 DEF Present
  <2>6. ASSUME NEW w \in Workers, wpc[w] \notin {"expire", "publish"} PROVE WorkerPart(w)'
    BY <2>1, <2>6
  <2> QED
    BY <2>3, <2>4, <2>5, <2>6
<1>13. ASSUME UNCHANGED leaseVars
       PROVE  Kept
  BY <1>1, <1>2, <1>13 DEF leaseVars, timeVars, vars, Woken, Subscribed, Alive, Present
<1> QED
  BY <1>7, <1>8, <1>9, <1>10, <1>11, <1>12, <1>13 DEF LeaseNext, OtherStep

\* The invariant of the times holds in every reachable state.
LEMMA LeaseCorrect == LeaseSpec => [](TypeOK /\ LeaseTypeOK /\ LeaseInv)
<1>1. LeaseInit => LeaseTypeOK /\ LeaseInv
  BY TTLAssumption DEF LeaseInit, Init, LeaseTypeOK, LeaseInv, Woken, Subscribed
<1>2. TypeOK /\ LeaseTypeOK /\ [LeaseNext]_leaseVars => LeaseTypeOK'
  BY LeaseTypeNext
<1>3. TypeOK /\ LeaseTypeOK /\ LeaseInv /\ [LeaseNext]_leaseVars => LeaseInv'
  BY LeaseInvNext
<1> QED
  BY <1>1, <1>2, <1>3, LeaseRefines, TypeCorrect, PTL DEF LeaseSpec

\* Whatever the delays, the faults and the other workers do, the second zget
\* misses only for a tile that has lapsed.
THEOREM WokenFindsTileCorrect == LeaseSpec => []WokenFindsTile
<1>1. LeaseInv => WokenFindsTile
  BY DEF LeaseInv, Alive, Lapsed, WokenFindsTile
<1> QED
  BY <1>1, LeaseCorrect, PTL

(***************************************************************************)
(* The service implements TileAnswer: taking the picture from the store,   *)
(* or keeping the buffer when the store has none, is Show, and sending it  *)
(* is Done.                                                                *)
(***************************************************************************)
\* The picture handler h is sending, and the handlers whose tile has lapsed, as
\* TileAnswer sees them.
Shown == [h \in Handlers |-> IF hpc[h] = "respond" THEN Picture(h) ELSE NoTile]

\* Every step of the service is a step of the promise, or leaves what it
\* speaks of alone.
LEMMA AnswersNext ==
    TypeOK /\ PictureInv /\ WokenFindsTile /\ [Next]_vars => [Answers!Next]_<<htile, Shown>>
<1> SUFFICES ASSUME TypeOK, PictureInv, WokenFindsTile, [Next]_vars
             PROVE  [Answers!Next]_<<htile, Shown>>
  OBVIOUS
<1> USE DEF handlerVars, redisVars, workerVars, faultVars
<1> USE NoTileAssumption, GarbageAssumption
<1>1. ASSUME NEW h \in Handlers, NEW t \in Tiles, Accept(h, t)
      PROVE  Answers!Ask(h, t)
  <2>1. htile[h] = NoTile /\ htile' = [htile EXCEPT ![h] = t]
    BY <1>1 DEF Accept, TypeOK
  <2>2. Shown' = Shown
    BY <1>1 DEF Accept, TypeOK, Shown, Picture
  <2> QED
    BY <2>1, <2>2 DEF Answers!Ask, Shown
<1>2. ASSUME NEW h \in Handlers, LookupHit(h) \/ Fetch(h)
      PROVE  Answers!Show(h)
  <2>1. /\ htile' = htile /\ htile[h] \in Tiles
        /\ hpc[h] # "respond"
        /\ hpc' = [hpc EXCEPT ![h] = "respond"]
    BY <1>2 DEF LookupHit, Fetch, TypeOK
  <2>2. \A k \in Handlers \ {h} : hbuf'[k] = hbuf[k]
    BY <1>2 DEF LookupHit, Fetch, TypeOK
  <2>3. hbuf'[h] \in Images
    BY <1>2, TypeNext DEF TypeOK
  <2>4. htile[h] \in Plottable
          => hbuf'[h] = htile[h] \/ (h \in {k \in Handlers : Lapsed(k)} /\ hbuf'[h] = Garbage)
    <3>1. CASE Present(htile[h])
      <4>1. PICK image \in cache[htile[h]] : hbuf' = [hbuf EXCEPT ![h] = image]
        BY <1>2, <3>1 DEF LookupHit, Fetch
      <4> QED
        BY <4>1 DEF PictureInv, TypeOK
    <3>2. CASE ~Present(htile[h])
      <4>1. Lapsed(h) /\ hbuf' = hbuf
        BY <1>2, <3>2 DEF LookupHit, Fetch, WokenFindsTile, Woken
      <4> QED
        BY <4>1 DEF PictureInv
    <3> QED
      BY <3>1, <3>2
  <2>5. /\ Picture(h)' \in Images
        /\ htile[h] \in Plottable
             => \/ Picture(h)' = htile[h]
                \/ h \in {k \in Handlers : Lapsed(k)} /\ Picture(h)' = Garbage
    BY <2>1, <2>3, <2>4 DEF Picture, Images
  <2>6. Shown' = [Shown EXCEPT ![h] = Picture(h)']
    BY <2>1, <2>2 DEF Shown, Picture, TypeOK
  <2>7. Shown[h] = NoTile
    BY <2>1 DEF Shown
  <2> QED
    BY <2>1, <2>5, <2>6, <2>7 DEF Answers!Show, Shown
<1>3. ASSUME NEW h \in Handlers, Respond(h)
      PROVE  Answers!Done(h)
  <2>1. Shown[h] = Picture(h) /\ Picture(h) # NoTile
    BY <1>3 DEF Respond, Shown, Picture, TypeOK, Images
  <2>2. Shown' = [Shown EXCEPT ![h] = NoTile]
    BY <1>3 DEF Respond, Shown, Picture, TypeOK
  <2>3. htile' = [htile EXCEPT ![h] = NoTile]
    BY <1>3 DEF Respond
  <2> QED
    BY <2>1, <2>2, <2>3 DEF Answers!Done, Shown
<1>4. ASSUME NEW h \in Handlers, LookupMiss(h) \/ Subscribe(h) \/ Push(h) \/ Receive(h)
      PROVE  UNCHANGED <<htile, Shown>>
  BY <1>4 DEF LookupMiss, Subscribe, Push, Receive, TypeOK, Shown, Picture
<1>5. ASSUME NEW w \in Workers, WorkerStep(w) \/ Fail(w) \/ Crash(w)
      PROVE  UNCHANGED <<htile, Shown>>
  BY <1>5 DEF WorkerStep, Pop, Render, Zset, Check, Expire, Publish, Fail, Crash,
              Shown, Picture
<1>6. ASSUME Abort \/ Restart \/ Tick \/ UNCHANGED vars
      PROVE  UNCHANGED <<htile, Shown>>
  BY <1>6 DEF Abort, Restart, Tick, vars, Shown, Picture
<1> QED
  BY <1>1, <1>2, <1>3, <1>4, <1>5, <1>6 DEF Next, HandlerStep, Answers!Next

\* Every request is answered once, with the picture of the tile it named or, if
\* that tile has lapsed, with the bytes that were in the buffer.
THEOREM AnswersCorrect == LeaseSpec => AnswersSpec
<1>1. LeaseInit => Answers!Init
  BY DEF LeaseInit, Init, Answers!Init
<1>2. TypeOK /\ PictureInv /\ WokenFindsTile /\ [Next]_vars => [Answers!Next]_<<htile, Shown>>
  BY AnswersNext
<1> QED
  BY <1>1, <1>2, LeaseStep, LeaseRefines, TypeCorrect, PictureCorrect, WokenFindsTileCorrect, PTL
     DEF LeaseSpec, AnswersSpec, Answers!Spec, Shown
=============================================================================
