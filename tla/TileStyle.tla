----------------------------- MODULE TileStyle -----------------------------
(***************************************************************************)
(* How the tile server colours a pixel (TMS_server.cpp).  The style comes  *)
(* with the request and is no part of the tile's key: when the page asks   *)
(* again with another opacity, the same stored bytes are coloured anew.    *)
(*                                                                         *)
(* The page's opacity AD is a number of hundredths; here it is a number of *)
(* parts of Scale.  The alpha of a pixel is computed in int and stored in  *)
(* a byte.                                                                 *)
(***************************************************************************)
EXTENDS Integers

CONSTANT Scale    \* opacities are 0 / Scale to Scale / Scale

ASSUME ScaleAssumption == Scale \in Nat \ {0}

VARIABLES
    shpType,      \* the layer that is shown
    AD,           \* its opacity
    value,        \* buffer_area[i][j], the byte of the pixel looked at
    shown         \* what the pixel looks like: its ink and its alpha

styleVars == <<shpType, AD, value, shown>>

Layers == {"point", "line", "polygon"}
Opacities == 0..Scale

\* What the sampler of a layer leaves in a pixel (TilePlot, PlotTypeOK).
Values(layer) == IF layer = "polygon" THEN -1..4 ELSE 0..4

(***************************************************************************)
(* The three factors, as the conversion from double to int truncates them, *)
(* and the conversion from int to png_byte.  With Scale = 100 the double   *)
(* products truncate as the exact ones do: those that are whole numbers    *)
(* belong to multiples of 0.25, which are exact.                           *)
(***************************************************************************)
A(a) == (64 * a) \div Scale
AH(a) == (256 * a) \div Scale

\* Faulty: the factor of the interior grows with the opacity.
AxOpaque(a) == (64 * a) \div Scale

Ax(a) == (64 * (Scale - a)) \div Scale

Byte(n) == n % 256

\* Faulty: values are scaled as if they were four times as large.
LevelAH(layer, v, a) ==
    CASE v >= 4 -> AH(a) + Ax(a) * (v - 4) - 1
      [] v \in 1..3 -> v * AH(a) - 1
      [] v = -1 /\ layer = "polygon" -> AH(a) + Ax(a) * (v - 4) - 1
      [] OTHER -> 0

\* The alpha before it becomes a byte.
Level(layer, v, a) ==
    CASE v >= 4 -> AH(a) + Ax(a) * (v - 4) - 1
      [] v \in 1..3 -> v * A(a) - 1
      [] v = -1 /\ layer = "polygon" -> AH(a) + Ax(a) * (v - 4) - 1
      [] OTHER -> 0

\* Rims of polygons are red, all else has the colour of the style.
Ink(layer, v) ==
    CASE v > 0 -> IF layer = "polygon" THEN "red" ELSE "style"
      [] v = -1 /\ layer = "polygon" -> "style"
      [] OTHER -> "none"

\* Faulty: the int is used as it is.
ColourWide(layer, v, a) == [ink |-> Ink(layer, v), alpha |-> Level(layer, v, a)]

Colour(layer, v, a) == [ink |-> Ink(layer, v), alpha |-> Byte(Level(layer, v, a))]

(***************************************************************************)
(* The page.                                                               *)
(***************************************************************************)
Init ==
    /\ shpType \in Layers /\ AD \in Opacities /\ value \in Values(shpType)
    /\ shown = Colour(shpType, value, AD)

\* The button "Enter" with another opacity: the tile is requested and coloured
\* again.
Restyle(a) ==
    /\ AD' = a
    /\ shown' = Colour(shpType, value, a)
    /\ UNCHANGED <<shpType, value>>

\* The next pixel of the loop over the tile.
NextPixel(v) ==
    /\ value' = v
    /\ shown' = Colour(shpType, v, AD)
    /\ UNCHANGED <<shpType, AD>>

\* Another layer is chosen in the list.
SelectLayer(layer) ==
    /\ shpType' = layer
    /\ value' \in Values(layer)
    /\ shown' = Colour(layer, value', AD)
    /\ UNCHANGED AD

Next ==
    \/ \E a \in Opacities : Restyle(a)
    \/ \E v \in Values(shpType) : NextPixel(v)
    \/ \E layer \in Layers : SelectLayer(layer)

Spec == Init /\ [][Next]_styleVars

(***************************************************************************)
(* Properties.                                                             *)
(***************************************************************************)
StyleTypeOK ==
    /\ shpType \in Layers /\ AD \in Opacities /\ value \in Values(shpType)
    /\ shown \in [ink : {"style", "red", "none"}, alpha : 0..255]

\* Opacities at which the alpha of value v is still a byte before it is stored:
\* from 1/64 on, and from 321/576 (0.557) on inside polygons, where five times
\* Ax is subtracted (TMS_server.cpp:162).
InRange(v, a) == 64 * a >= Scale /\ (v = -1 => 576 * a >= 321 * Scale)

\* In range a pixel has the alpha that was computed for it.  Below the range of
\* its value a pixel on or near an object is fully opaque, however little of
\* the object it has and however transparent the layer was to be, because its
\* alpha is -1 before it is stored (TMS_server.cpp:129, 134, 151, 156).
OpaqueBelowRange ==
    /\ InRange(value, AD) => shown.alpha = Level(shpType, value, AD)
    /\ value \in 1..3 /\ 64 * AD < Scale => shown.alpha = 255
    /\ value = 4 /\ 256 * AD < Scale => shown.alpha = 255

\* A pixel that is asked for again with less opacity is not drawn more opaque,
\* as long as the alpha does not wrap around (TMS_server.cpp:74-76, 129-162).
LessIsLess ==
    shpType' = shpType /\ value' = value /\ AD' <= AD /\ InRange(value, AD')
        => shown'.alpha <= shown.alpha

FadesInRange == [][LessIsLess]_styleVars

\* In one style, a pixel that more of an object covers is drawn more opaque, and
\* the inside of a polygon no more opaque than its rim.
MoreIsMore ==
    shpType' = shpType /\ AD' = AD /\ InRange(value, AD) /\ value' > value /\ value # 0
        => IF value = -1 THEN value' = 4 => shown.alpha <= shown'.alpha
                         ELSE shown.alpha < shown'.alpha

CoverageShows == [][MoreIsMore]_styleVars

\* src/README.md:158: "interactive browsing and exploration of geographic vector
\* data can be realized by changing color, transparency and other styles".  So
\* whatever the opacity was, choosing less of it gives no more opaque picture.
Fades ==
    [][shpType' = shpType /\ value' = value /\ AD' <= AD => shown'.alpha <= shown.alpha]_styleVars
=============================================================================
