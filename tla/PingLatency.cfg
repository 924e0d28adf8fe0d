\* A ring of 4 slots (2^2), RTTs of 1, 2 and 4 time units and a clock
\* step (0); six PING_RETURNs wrap the ring once.
CONSTANTS
  CounterBits = 2
  Threshold = 1
  RTTs = {0, 1, 2, 4}
  MaxReturns = 6
SPECIFICATION Spec
INVARIANT LatencyMatchesSpec
\* The prober stops after closing the mux and the receiver after Close.
CHECK_DEADLOCK FALSE
