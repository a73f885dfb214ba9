----------------------------- MODULE MCOctTree ------------------------------
(* Small instances of OctTree: boxes of one size, and points. *)
EXTENDS OctTree, TLC

CONSTANT Points

Extents == [o \in Object |-> IF o \in Points THEN 0 ELSE 1]
FewPlaces == {1, 2, 7}
TwoPlaces == {1, 3}
Symmetry == Permutations(Mobile \ Points)
=============================================================================
