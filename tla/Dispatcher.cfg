SPECIFICATION Spec
CONSTANTS
  Groups <- TwoGroups
  Workers = {"w1", "w2"}
  MaxPending = 1
  Timed = {"a", "c"}
  MaxDelay = 1
  MaxLag = 1
  PollTimeout = 2
INVARIANTS TypeOK Exclusive WorkConserving BypassBounded
PROPERTIES ServiceSpec DelayedServed
