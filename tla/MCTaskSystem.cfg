SPECIFICATION Spec
CONSTANTS
  c1 = c1
  c2 = c2
  c3 = c3
  Main = Main
  NoThread = NoThread
  Consumers <- ThreeConsumers
  MaxVar = 3
  MaxSplits = 2
SYMMETRY ConsumerSymmetry
INVARIANTS
  NothingLost
  SentinelLast
  CleanShutdown
  SeedsReproducible
PROPERTY
  ImplementsPipeline
