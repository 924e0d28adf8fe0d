\* Flow control of one stream direction; the write deadline may expire and
\* the writer's side may close the stream at any time.
CONSTANTS
  MSS <- MCMSS
  StreamId <- MCStreamId
  InitWindow <- MCInitWindow
  WriteSizes <- MCWriteSizes
  ReadSizes <- MCReadSizes
  MaxBytes <- MCMaxBytes
  CalcPeriod <- MCCalcPeriod
  Candidates <- MCCandidates
  Limits <- MCLimits
  NoLimit = NoLimit
  WriteDeadline = TRUE
  StreamClose = TRUE
SPECIFICATION Spec
INVARIANT TypeOK
INVARIANT AccountingClosure
INVARIANT EOFAfterDrain
INVARIANT CodecRoundTrip
PROPERTY WriteCompletes
PROPERTY AllDelivered
PROPERTY BSessionNeverStuck
\* A reader blocked in waitPush once the writer has stopped is a final state.
CHECK_DEADLOCK FALSE
