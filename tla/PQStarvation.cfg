\* Saturating NEW_CONN traffic and one data frame, on a mux that its user
\* or a failed write of the writeSession may close.
\* A closed mux whose writeSession has returned does
\* nothing more, so deadlock checking is off.
CONSTANTS
  Cap = 2
  MaxStarving = 8
  StarveWidth = 256
  Saturating <- MCMiddle
  Bursts <- MCOneData
  CloseAllowed = TRUE
  PackFails = TRUE
SPECIFICATION Spec
INVARIANT StarvationBound
PROPERTY LowestServed
CHECK_DEADLOCK FALSE
