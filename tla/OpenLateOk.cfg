\* NewConn's timer fires before NEW_CONN_OK arrives.
CONSTANTS
  Peers <- MCPeers
  pa = pa
  pb = pb
  o1 = o1
  o2 = o2
  k1 = k1
  k2 = k2
  NoConn = NoConn
  Opening <- MCOneSide
  Openers <- MCOneOpener
  MaxOpens = 1
  MaxId = 2
  WrapGap = 1
  OpenTimeout = TRUE
  Closing = {}
  Closers <- MCOneCloser
SPECIFICATION Spec
PROPERTY SessionNeverBlocked
\* All callers have made their bounded NewConn calls and the goroutines
\* wait for frames: the idle state of the program, not a deadlock.
CHECK_DEADLOCK FALSE
