------------------------------ MODULE Quadtree ------------------------------
(***************************************************************************)
(* A quadtree as a value: a node is named by the quadrants on the way to   *)
(* it from the root, a tree is a function from its nodes, the root <<>>    *)
(* among them, to their kinds: 's', 'm' or 'b' (always 's' in a tree of    *)
(* points or lines, whose records have no kind).                           *)
(***************************************************************************)
EXTENDS Naturals, Sequences, FiniteSets

Quads == 1..4    \* UP_LEFT, UP_RIGHT, BOTTOM_LEFT, BOTTOM_RIGHT
Kinds == {"s", "m", "b"}

\* The nodes in a row of the squares n levels below the root.
Pow2[n \in Nat] == IF n = 0 THEN 1 ELSE 2 * Pow2[n - 1]

\* The node n levels below the root on the way to p.
Above(p, n) == SubSeq(p, 1, n)

\* Nodes have their ancestors in the tree.
IsTree(t) ==
    /\ <<>> \in DOMAIN t /\ t[<<>>] = "s"
    /\ \A p \in DOMAIN t : p \in Seq(Quads) /\ t[p] \in Kinds
    /\ \A p \in DOMAIN t \ {<<>>} : Above(p, Len(p) - 1) \in DOMAIN t

\* What is saved and read.
IsFiniteTree(t) == IsTree(t) /\ t \in [DOMAIN t -> Kinds] /\ IsFiniteSet(DOMAIN t)
=============================================================================
