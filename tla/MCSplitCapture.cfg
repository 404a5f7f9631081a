SPECIFICATION FairSpec
CONSTANTS
  MaxChunks = 2
INVARIANTS
  PublishedIsWhole
  ResultIsTruthful
  GoroutinesAreDone
PROPERTIES
  ReturnsUnlessDestinationFails
