----------------------------- MODULE TileLease -----------------------------
(***************************************************************************)
(* TileService and how long a stored tile lasts.  EXPIRE lends a tile its  *)
(* life; the handlers it is meant for must read it before that is over.    *)
(* Nothing in the code sees to it, so nothing here does: two variables     *)
(* record how late everybody is, and the properties say what follows.  No  *)
(* step depends on the record.                                             *)
(***************************************************************************)
EXTENDS TileService

VARIABLES
    age,       \* age[w]: ticks since its EXPIRE, until it has published; TTL
               \* from the moment the key it means to prolong is deleted
    lag        \* lag[h]: ticks since the EXPIRE before the message that woke it

timeVars == <<age, lag>>
leaseVars == <<vars, timeVars>>

LeaseTypeOK ==
    /\ age \in [Workers -> 0..TTL]
    /\ lag \in [Handlers -> 0..TTL]
    /\ \A w \in Workers : age[w] > 0 => wpc[w] \in {"expire", "publish"}

LeaseInit ==
    /\ Init
    /\ age = [w \in Workers |-> 0]
    /\ lag = [h \in Handlers |-> 0]

LeaseFetch(h) ==
    /\ Fetch(h)
    /\ lag' = [lag EXCEPT ![h] = 0]
    /\ UNCHANGED age

LeaseExpire(w) ==
    /\ Expire(w)
    /\ age' = [age EXCEPT ![w] = IF Present(wtask[w]) THEN 0 ELSE @]
    /\ UNCHANGED lag

\* A handler that the message wakes has the delay of its sender to begin with.
LeasePublish(w) ==
    /\ Publish(w)
    /\ lag' = [h \in Handlers |-> IF Woken(h)' /\ ~Woken(h) THEN age[w] ELSE lag[h]]
    /\ age' = [age EXCEPT ![w] = 0]

\* A task that is given up will be announced by nobody.
LeaseDrop ==
    /\ Abort \/ \E w \in Workers : Fail(w) \/ Crash(w)
    /\ age' = [w \in Workers |-> IF wtask'[w] = NoTile THEN 0 ELSE age[w]]
    /\ UNCHANGED lag

\* Delays of TTL ticks and more are the same.
Older(n) == IF n < TTL THEN n + 1 ELSE TTL

LeaseTick ==
    /\ Tick
    /\ age' = [w \in Workers |->
                  CASE wpc[w] = "publish" -> Older(age[w])
                    [] wpc[w] = "expire" /\ ttl[wtask[w]] = 1 -> TTL
                    [] OTHER -> age[w]]
    /\ lag' = [h \in Handlers |-> IF Woken(h) THEN Older(lag[h]) ELSE lag[h]]

\* The steps that are not recorded.
OtherStep ==
    /\ \/ \E h \in Handlers :
             \/ LookupHit(h) \/ LookupMiss(h) \/ Subscribe(h) \/ Push(h)
             \/ Receive(h) \/ Respond(h) \/ \E t \in Tiles : Accept(h, t)
       \/ \E w \in Workers : Pop(w) \/ Render(w) \/ Zset(w) \/ Check(w)
       \/ Restart
    /\ UNCHANGED timeVars

LeaseNext ==
    \/ \E h \in Handlers : LeaseFetch(h)
    \/ \E w \in Workers : LeaseExpire(w) \/ LeasePublish(w)
    \/ LeaseDrop
    \/ LeaseTick
    \/ OtherStep

LeaseSpec == LeaseInit /\ [][LeaseNext]_leaseVars

LeaseFairSpec == LeaseSpec /\ Fairness

(***************************************************************************)
(* Properties.                                                             *)
(***************************************************************************)
\* The tile of h can be gone when h reads it: the life that EXPIRE gave it is
\* over, or it had none, for the key that the worker had just seen ran out
\* before EXPIRE could prolong it (plotting_main.cpp:179-182).
Lapsed(h) == lag[h] = TTL

\* A handler that has been woken finds its tile in the store, although
\* TMS_server.cpp:110 never looks at the result of that zget, unless the tile
\* has lapsed; no failing ZADD, no second worker and no death is a third way.
WokenFindsTile == \A h \in Handlers : Woken(h) /\ ~Lapsed(h) => Present(htile[h])

(***************************************************************************)
(* The service keeps the promise of TileAnswer: a request is pending from  *)
(* Accept to Respond, and its picture shows in between once it is in hand. *)
(***************************************************************************)
Answers == INSTANCE TileAnswer WITH
    Clients <- Handlers,
    Nothing <- NoTile,
    want <- htile,
    shown <- [h \in Handlers |-> IF hpc[h] = "respond" THEN Picture(h) ELSE NoTile],
    lapsed <- {h \in Handlers : Lapsed(h)}

\* A request is answered once, and by the picture of the tile it named unless
\* that tile had lapsed (TMS_server.cpp:100-113).
AnswersSpec == Answers!Spec

\* And every request is answered in the end, however many others keep coming
\* (no handler is left in the loop of TMS_server.cpp:105, no task is starved).
AnswersFairSpec == Answers!FairSpec
=============================================================================
