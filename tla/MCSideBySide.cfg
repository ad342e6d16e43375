SPECIFICATION SideBySideSpec
CONSTANTS
  l1 = l1
  l2 = l2
  l3 = l3
  b1 = b1
  b2 = b2
  Root = Root
  Null = Null
  Leafs <- ThreeLeafs
  Branches <- TwoBranches
  LevelSpaces <- Widths
  MaxSpaces = 4
  Registered <- MCRegistered
  Border <- MCBorder
  Lines <- MCLines
  Ints <- MCInts
  Threads = {t1, t2}
  Nobody = Nobody
  MaxDraws = 2
  MaxGiven = 2
  NFuncs = 3
  Metas <- SomeMetas
  TypeSets <- SomeTypeSets
  NArgs <- NoneOrOne
CONSTRAINT Bounded
SYMMETRY SideBySideSymmetry
INVARIANTS
  LinksMatch
  StepsUndo
  IndentedOnce
  RefusedForCause
  Honoured
  ChancesAsWritten
  EachNumberOnce
  SignaturesConform
  IndirectAlike
PROPERTIES
  ImplementsOrderedTree
  LeadingOnly
