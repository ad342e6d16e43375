SPECIFICATION Spec
CONSTANTS
  Types <- SixTypes
  Accepts <- TwoAccept
  ArgTypes <- TwoArgTypes
  NGlobals = 2
  NIdx = 1
  NVars <- NoneOrOne
  NVAtts = 1
  MaxPerm = 1
  PermBound = 2
INVARIANT
  GlobalsConform
