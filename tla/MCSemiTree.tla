----------------------------- MODULE MCSemiTree -----------------------------
(* Model values and symmetry for TLC; the specification is SemiTree.        *)
EXTENDS SemiTree, TLC

CONSTANTS l1, l2, l3, b1, b2

ThreeLeafs  == {l1, l2, l3}
TwoBranches == {b1, b2}

\* Nodes of one kind are alike, and the properties are of safety.
NodeSymmetry == Permutations(Leafs) \cup Permutations(Branches)
=============================================================================
