SPECIFICATION FairSpec
CONSTANTS
  Client = {a, b}
  None = None
  Item = {1}
  Digest = {x}
  Worker = {w1, w2}
  TTL = 1
  MaxTime = 1
  MaxClaims = 2
PROPERTIES EveryRequestEnds
