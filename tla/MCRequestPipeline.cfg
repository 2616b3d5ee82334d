\* Three requests, one permit, one waiter.
SPECIFICATION Spec
CONSTANTS
  a = a
  b = b
  c = c
  Tasks <- ThreeTasks
  Limit = 1
  MaxWaiters = 1
SYMMETRY Interchangeable
INVARIANTS GateFollowsRequest RecordIsTruthful
PROPERTIES ImplementsGate
