SPECIFICATION FairSpec
CONSTANTS
  ParentMayDie = TRUE
INVARIANTS
  CommitIsVerified
  EofOnlyBehindGate
  SuccessIsCommitted
  NothingSurvives
PROPERTIES
  CancelledRestoreReturns
  LostPsqlEndsRestore
