---------------------------- MODULE MCSplitTree -----------------------------
(* Small option values for TLC; the specification is SplitTree.             *)
EXTENDS SplitTree

FewBlocks == {0, 2}
FewBranches == {2}
OtherBranches == {3}

\* The defaults of the options.
TwoBlocks == {2}
DefaultIf == 2..6
DefaultSwitch == 6..10
DefaultRegion == 4..7

\* Functions with several callees are split less often.
Small == cf.callees > 1 => cf.splits < MaxSplits
=============================================================================
