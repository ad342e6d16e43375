SPECIFICATION Spec
CONSTANTS
  MaxCallees = 1
  MaxSplits = 1
  AddBlocks <- TwoBlocks
  IfBranches <- DefaultIf
  SwitchBranches <- DefaultSwitch
  RegionBranches <- DefaultRegion
INVARIANT
  BranchesAsConfigured
