----------------------------- MODULE TileAnswer -----------------------------
(***************************************************************************)
(* What the tile service promises a browser, with no store, no queue and   *)
(* no worker in sight: a client asks for one tile at a time and is shown   *)
(* one picture for it, and the picture of a tile that can be plotted is    *)
(* that tile, or noise if the tile lapsed before it could be shown.        *)
(***************************************************************************)
CONSTANTS
    Clients,     \* connections that ask for tiles
    Tiles,       \* what can be asked for
    Plottable,   \* the tiles of a known kind
    Images,      \* what can be shown
    Garbage,     \* the image that is noise
    Nothing      \* no tile, no picture

VARIABLES
    want,        \* want[c]: the tile c has asked for, or Nothing
    shown,       \* shown[c]: the picture c is being sent, or Nothing
    lapsed       \* an input: the clients whose tile was kept for them too short

Init ==
    /\ want = [c \in Clients |-> Nothing]
    /\ shown = [c \in Clients |-> Nothing]

Ask(c, t) ==
    /\ want[c] = Nothing
    /\ want' = [want EXCEPT ![c] = t]
    /\ UNCHANGED shown

\* The one picture allowed is the tile itself, or noise if it has lapsed; for
\* an unknown kind any will do.
Show(c) ==
    /\ want[c] # Nothing /\ shown[c] = Nothing
    /\ \E image \in Images :
          /\ want[c] \in Plottable => image = want[c] \/ (c \in lapsed /\ image = Garbage)
          /\ shown' = [shown EXCEPT ![c] = image]
    /\ UNCHANGED want

Done(c) ==
    /\ shown[c] # Nothing
    /\ want' = [want EXCEPT ![c] = Nothing]
    /\ shown' = [shown EXCEPT ![c] = Nothing]

Next == \E c \in Clients : Show(c) \/ Done(c) \/ \E t \in Tiles : Ask(c, t)

\* When a tile lapses is not for the service to say: `lapsed` changes freely.
Spec == Init /\ [][Next]_<<want, shown>>

\* Every request is answered and every answer is completed.
FairSpec == Spec /\ \A c \in Clients : WF_<<want, shown>>(Show(c) \/ Done(c))
=============================================================================
