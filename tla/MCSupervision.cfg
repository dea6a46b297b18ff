SPECIFICATION FairSpec
CONSTANTS
  out = out
  err = err
  r1 = r1
  r2 = r2
  Interrupt = Interrupt
  Terminate = Terminate
  None = None
  Streams <- Both
  Recorders <- Handlers
  Kinds <- Signals
  Limit = 1
  MaxWritten = 2
  OsFaults = TRUE
INVARIANTS
  CaptureComplete
PROPERTIES
  NoCancellationLost
  SupervisionEnds
CHECK_DEADLOCK FALSE
