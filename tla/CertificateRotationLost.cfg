SPECIFICATION Spec
CONSTANTS
  Bridge = {b1}
  Gone = Gone
  Second = 1
  Overlap = 1
  Window = 2
  Lifetime = 3
  MaxTime = 4
  MaxVersion = 3
  MaxRequests = 2
  MaxLost = 2
INVARIANTS KeepsAcceptedPair
