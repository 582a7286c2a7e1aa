----------------------------- MODULE MCQuadTree -----------------------------
EXTENDS QuadTree, TLC

(* Three levels of 8, 4 and 2: a node in the middle, across a line of its   *)
(* quadrant, and a ball that is cut by the border of the map and fits the   *)
(* root only.                                                               *)
MCSide == <<8, 4, 2>>
MCPlace == {[x |-> 3, y |-> 3, r |-> 1], [x |-> 2, y |-> 3, r |-> 1],
            [x |-> 3, y |-> 4, r |-> 5]}
MCSymmetry == Permutations(Thorn)
=============================================================================
