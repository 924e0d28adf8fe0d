\* Two hosts of two clients and two requests after the first: a switch of
\* host, the reset block, and a switch back; the response cache is on.
CONSTANTS
  h1 = h1  h2 = h2  cA = cA  cB = cB
  Hosts = {h1, h2}
  NoHost = NoHost
  MaxRequests = 2
  Clients = {cA, cB}
  ClientOf <- MCClientOfTwo
  UseCache = TRUE
SPECIFICATION Spec
INVARIANT SlotsReturned
\* The handler and its response goroutines have returned: the end of the
\* user's connection, not a deadlock.
CHECK_DEADLOCK FALSE
