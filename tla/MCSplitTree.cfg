SPECIFICATION Spec
CONSTANTS
  MaxCallees = 2
  MaxSplits = 3
  AddBlocks <- FewBlocks
  IfBranches <- FewBranches
  SwitchBranches <- OtherBranches
  RegionBranches <- OtherBranches
CONSTRAINT Small
INVARIANTS
  TreeWellFormed
  BlocksTracked
  ContainersShaped
  BreaksInLoops
  DirectCallsKept
  FaultsExplained
PROPERTIES
  GrowsOnly
