SPECIFICATION Spec
CONSTANTS
  Workers = {w1, w2}
  Producers = {p1, p2, p3}
  PerProducer = 2
  MaxQueueSize = 1
PROPERTIES
  IsTaskPool
  EveryCallReturns
