SPECIFICATION Spec
CONSTANTS
  Bridge = {b1, b2}
  Gone = Gone
  Second = 1
  Overlap = 1
  Window = 2
  Lifetime = 3
  MaxTime = 2
  MaxVersion = 3
  MaxRequests = 2
  MaxLost = 0
SYMMETRY Symmetry
INVARIANTS TypeOK ActivePairComplete InstalledBeforeRevoked OneBusinessCertificate ConstraintsNeverFire
