SPECIFICATION Spec
CONSTANTS
  Bridge = {b1}
  Gone = Gone
  Second = 2
  Overlap = 1
  Window = 3
  Lifetime = 4
  MaxTime = 2
  MaxVersion = 3
  MaxRequests = 2
  MaxLost = 0
PROPERTIES ReplacementAccepted
