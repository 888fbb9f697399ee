\* one producer and one consumer, as the answer-set results use the queue
SPECIFICATION Spec
CONSTANTS
  Producers = {p1}
  Consumers = {c1}
  Capacity = 2
  Messages = {m1, m2}
INVARIANTS
  NoLostWakeup
  CountersExact
