---------------------------- MODULE MCTypeGraph -----------------------------
(* Small option values for TLC; the specification is TypeGraph.             *)
EXTENDS TypeGraph

TwoScalars == {"int", "float"}
OneFloat == {"float"}
JustOne == {1}
OneOrTwo == {1, 2}
\* Three splits, or fewer with a further type for each of them.
SomeSplits == {<<0, FALSE>>, <<3, FALSE>>, <<1, TRUE>>, <<2, TRUE>>}
=============================================================================
