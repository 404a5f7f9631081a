SPECIFICATION FairSpec
CONSTANTS
  c1 = c1
  c2 = c2
  k1 = k1
  Callers <- TwoCallers
  Kids <- OneKid
  MaxFaults = 2
INVARIANTS
  CloseReleases
