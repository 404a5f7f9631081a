SPECIFICATION FairSpec
CONSTANTS
  Runs = {r1, r2}
  Faulty = {r1}
  Ids = {i1, i2}
  Tries = 2
  Nobody = Nobody
  NoId = NoId
INVARIANTS
  SecretsAreRemoved
  ChildKeepsItsDirectory
  PublishedCaptureIsWhole
PROPERTIES
  CaptureReturns
CHECK_DEADLOCK FALSE
