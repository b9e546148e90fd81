SPECIFICATION Spec
CONSTANTS
  Worker = {w1, w2}
  Article = {a1, a2}
  Content = {c}
  None = None
  Grace = 1
  Batch = 1
  MaxFile = 2
  MaxTime = 2
  MaxFaults = 1
SYMMETRY Symmetry
INVARIANTS TypeOK ObjectsBehindRows MarkedIffUnused UploadAnswersStoredFile NoLockCycle
PROPERTIES OnlyStaleOrphansCollected
