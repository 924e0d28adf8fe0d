\* A write deadline expires while the writer waits for credit; the window
\* update that follows must not block A's readSession for good.
CONSTANTS
  MSS <- MCMSS
  StreamId <- MCStreamId
  InitWindow <- MCInitWindow
  WriteSizes <- MCWriteSizes
  ReadSizes <- MCReadSizes
  MaxBytes <- MCMaxBytes
  CalcPeriod <- MCCalcPeriod
  Candidates <- MCCandidates
  Limits <- MCLimits
  NoLimit = NoLimit
  WriteDeadline = TRUE
  StreamClose = FALSE
SPECIFICATION Spec
PROPERTY SessionNeverStuck
CHECK_DEADLOCK FALSE
