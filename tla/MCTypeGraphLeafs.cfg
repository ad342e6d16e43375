SPECIFICATION Spec
CONSTANTS
  Scalars <- TwoScalars
  Floats <- OneFloat
  IntType = "int"
  Seeds <- JustOne
  Splits <- SomeSplits
  NFields <- OneOrTwo
  ArrMin = 1
  ArrMax = 2
  MaxArrPreds = 1
  MaxStructPreds = 2
  MaxPreds = 2
  MaxBitfields = 1
INVARIANT
  LeafsAreScalars
