\* One caller, NewConn's timer may fire (leaving its conn in connMap), the
\* id counter wraps and getId skips registered ids.
CONSTANTS
  Peers <- MCPeers
  pa = pa
  pb = pb
  o1 = o1
  o2 = o2
  k1 = k1
  k2 = k2
  NoConn = NoConn
  Opening <- MCOneSide
  Openers <- MCOneOpener
  MaxOpens = 3
  MaxId = 2
  WrapGap = 1
  OpenTimeout = TRUE
  Closing <- MCOneSide
  Closers <- MCOneCloser
SPECIFICATION Spec
INVARIANT TypeOK
INVARIANT AcceptMatches
PROPERTY OkReachesOpener
PROPERTY OpenRefinement
PROPERTY CloseReturns
\* All callers have made their bounded NewConn calls and the goroutines
\* wait for frames: the idle state of the program, not a deadlock.
CHECK_DEADLOCK FALSE
