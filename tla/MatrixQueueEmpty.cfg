SPECIFICATION Spec
CONSTANTS
  Client = {a, b}
  None = None
  Item = {1, 2}
  Digest = {x}
  Worker = {w1, w2}
  TTL = 1
  MaxTime = 2
  MaxClaims = 2
PROPERTIES EmptyOnlyWhenTaken
