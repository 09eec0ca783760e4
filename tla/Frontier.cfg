SPECIFICATION Spec
CONSTANTS
  p1 = p1  p2 = p2  c1 = c1  c2 = c2
  Producer <- TwoProducers
  Consumer <- TwoConsumers
  Capacity = 2
  Load = 2
  MayCancel = TRUE
  CloseEarly = TRUE
CHECK_DEADLOCK FALSE
INVARIANTS FirstInFirstOut ClosedMeansDrained
PROPERTY EveryoneLeaves
