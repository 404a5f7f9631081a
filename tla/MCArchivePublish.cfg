SPECIFICATION Spec
CONSTANTS
  Creators = {c1, c2}
  Nothing = Nothing
  Foreign = Foreign
  N = 2
INVARIANTS
  FinalIsComplete
  VerdictIsJust
  FailedLeavesNothing
PROPERTIES
  PublishesAtomically
