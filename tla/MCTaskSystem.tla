---------------------------- MODULE MCTaskSystem ----------------------------
(* Model values and symmetry for TLC; the specification is TaskSystem.      *)
EXTENDS TaskSystem, TLC

CONSTANTS c1, c2, c3   \* consumer threads

TwoConsumers   == {c1, c2}
ThreeConsumers == {c1, c2, c3}

\* Consumers are alike: sound for the safety runs.
ConsumerSymmetry == Permutations(Consumers)
=============================================================================
