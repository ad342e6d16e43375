SPECIFICATION Spec
CONSTANTS
  Sizes <- UpToFour
  MaxEdges = 4
  Conns <- NoneOrTwo
  AddLeafs <- NoneOrOne
  IndCounts <- SomeCounts
  Loopers <- OneLooper
INVARIANTS
  AssertionsHold
  OneHead
  ComponentsApart
  LeafsStayLeafs
  DirectTree
