--------------------------- MODULE MCFlowControl ---------------------------
(* Model-checking instance of FlowControl.  Sizes are in units scaled down *)
(* from bytes: a segment carries at most MCMSS units and the windows start *)
(* at one segment (30 in the code), so that full windows, split writes,   *)
(* partial reads and the wait bits all occur within a few frames.          *)
EXTENDS FlowControl

MCMSS == 2
\* an id whose encoding uses two bytes of the uint32
MCStreamId == 258
MCInitWindow == 2
MCWriteSizes == {1, 3}
MCReadSizes == {1, 3}
MCMaxBytes == 3
MCCalcPeriod == 2
\* no estimate yet (floors apply) and one above the initial window
MCCandidates == {0, 5}
\* bandwidths unknown, or a limit from the bandwidth ratio
MCLimits == {NoLimit, 3}
=============================================================================
