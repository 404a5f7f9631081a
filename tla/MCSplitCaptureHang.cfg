SPECIFICATION FairSpec
CONSTANTS
  MaxChunks = 1
PROPERTIES
  CancelledCaptureReturns
