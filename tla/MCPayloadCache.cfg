SPECIFICATION Spec
CONSTANTS
  u1 = u1
  u2 = u2
  Users <- TwoUsers
  N = 2
  Nothing = Nothing
  Foreign = Foreign
SYMMETRY Symmetry
INVARIANTS
  LaunchIsSound
  PublishedIsFinished
  FailureHasCause
PROPERTIES
  NeverRepaired
