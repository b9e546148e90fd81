SPECIFICATION Spec
CONSTANTS
  Client = {a, b}
  None = None
  Item = {1, 2}
  Digest = {x, y}
  Worker = {w1, w2}
  TTL = 1
  MaxTime = 2
  MaxClaims = 2
SYMMETRY Symmetry
INVARIANTS TypeOK OneItemPerQuestion LeasesAreExclusive ClientConstraintNeverFires RevokedHoldsNothing CompletionIsFinal ToldWhatIsStored
PROPERTIES LeaseEndsByRight KeepsLeases
