SPECIFICATION Spec
INVARIANTS
  SourceOutlivesItsDump
  EndIsHonest
CHECK_DEADLOCK FALSE
