----------------------------- MODULE MCTilePlot -----------------------------
(***************************************************************************)
(* TilePlot for TLC: points, segments and rings that cross tiles, run      *)
(* beside their borders and stay within one pixel.                         *)
(***************************************************************************)
EXTENDS TilePlot

At(x, y) == [x |-> x, y |-> y]

MCPoints == {At(x, y) : x \in {1, 7, 9}, y \in {7, 12}}

MCLines == {<<At(1, 5), At(3, 7)>>, <<At(7, 7), At(9, 13)>>, <<At(1, 8), At(3, 8)>>,
            <<At(9, 3), At(14, 3)>>, <<At(2, 1), At(13, 15)>>, <<At(5, 5), At(7, 5), At(7, 9)>>,
            <<At(15, 2), At(3, 4)>>, <<At(10, 10), At(11, 15), At(18, 13)>>}

Rectangle(i, j, k, l) == <<At(i, k), At(j, k), At(j, l), At(i, l), At(i, k)>>
Triangle(i, j, k, l) == <<At(i, k), At(j, k), At(j, l), At(i, k)>>

MCRings == {Rectangle(3, 13, 1, 13), Rectangle(0, 8, 0, 8), Rectangle(7, 9, 1, 15),
            Triangle(1, 15, 3, 14), Triangle(2, 14, 15, 1),
            Rectangle(5, 6, 9, 10), Triangle(4, 12, 8, 4)}
=============================================================================
