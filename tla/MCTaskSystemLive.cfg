SPECIFICATION FairSpec
CONSTANTS
  c1 = c1
  c2 = c2
  c3 = c3
  Main = Main
  NoThread = NoThread
  Consumers <- TwoConsumers
  MaxVar = 2
  MaxSplits = 1
PROPERTIES
  Termination
  ExceptionsSurface
  ImplementsFairPipeline
