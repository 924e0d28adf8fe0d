\* One side opens, two concurrent callers, two opens each, no wrap; the
\* other side answers within NewConn's two minutes, so NewConn's timer is
\* left out.  The accepting side may be closed at any moment, so both the
\* Push of a NEW_CONN and the Stop of Mux.Close's release can race the
\* accept goroutine's cond.Wait.
CONSTANTS
  Peers <- MCPeers
  pa = pa
  pb = pb
  o1 = o1
  o2 = o2
  k1 = k1
  k2 = k2
  NoConn = NoConn
  Opening <- MCOneSide
  Openers <- MCTwoOpeners
  MaxOpens = 2
  MaxId = 6
  WrapGap = 2
  OpenTimeout = FALSE
  Closing <- MCOtherSide
  Closers <- MCOneCloser
SPECIFICATION Spec
PROPERTY AcceptWakes
\* All callers have made their bounded NewConn calls and the goroutines
\* wait for frames: the idle state of the program, not a deadlock.
CHECK_DEADLOCK FALSE
