---------------------------- MODULE MCIndexFile ----------------------------
(***************************************************************************)
(* IndexFile for TLC: every point or line tree of up to MaxLeaves pixels   *)
(* at depth Depth, and every polygon tree of up to MaxNodes nodes and two  *)
(* levels below the root, whatever the kinds of its nodes.                 *)
(***************************************************************************)
EXTENDS IndexFile

CONSTANTS Depth, MaxLeaves, MaxNodes

UpTo(n, S) == {{}} \cup {{f[i] : i \in 1..n} : f \in [1..n -> S]}

Ancestors(p) == {SubSeq(p, 1, n) : n \in 0..Len(p)}

MCPointTrees ==
    {[p \in (UNION {Ancestors(l) : l \in ls}) \cup {<<>>} |-> "s"] :
        ls \in UpTo(MaxLeaves, [1..Depth -> Quads])}

MCPolygonTrees ==
    LET nodes == [1..1 -> Quads] \cup [1..2 -> Quads]
        shapes == {ps \in UpTo(MaxNodes, nodes) :
                     \A p \in ps : Len(p) > 1 => Front(p) \in ps}
    IN  {t \in UNION {[ps \cup {<<>>} -> Kinds] : ps \in shapes} : t[<<>>] = "s"}

MCTrees == MCPointTrees \cup MCPolygonTrees
=============================================================================
