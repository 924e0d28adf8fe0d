\* One side opens one stream; the accepting mux is closed (by its ping
\* goroutine, a failed read, or its user) at any moment.
CONSTANTS
  Peers <- MCPeers
  pa = pa
  pb = pb
  o1 = o1
  o2 = o2
  k1 = k1
  k2 = k2
  NoConn = NoConn
  Opening <- MCOneSide
  Openers <- MCOneOpener
  MaxOpens = 1
  MaxId = 6
  WrapGap = 2
  OpenTimeout = TRUE
  Closing <- MCOtherSide
  Closers <- MCTwoClosers
SPECIFICATION Spec
INVARIANT NeverPanics
\* All callers have made their bounded NewConn calls and the goroutines
\* wait for frames: the idle state of the program, not a deadlock.
CHECK_DEADLOCK FALSE
