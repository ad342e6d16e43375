---------------------------- MODULE MCCallGraph -----------------------------
(* Small option values for TLC; the specification is CallGraph.             *)
EXTENDS CallGraph

UpToFour == 1..4
NoneOrTwo == {0, 2}
NoneOrOne == {0, 1}
SomeCounts == {0, 1, 3}
OneLooper == {0}
=============================================================================
