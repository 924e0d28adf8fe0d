\* Two hosts, two requests after the first: enough for a switch of host
\* and a request after it.
CONSTANTS
  h1 = h1  h2 = h2  cA = cA  cB = cB
  Hosts = {h1, h2}
  NoHost = NoHost
  MaxRequests = 2
  Clients = {cA, cB}
  ClientOf <- MCClientOfTwo
  UseCache = FALSE
SPECIFICATION Spec
INVARIANT ResetKeepsClient
\* The handler and its response goroutines have returned: the end of the
\* user's connection, not a deadlock.
CHECK_DEADLOCK FALSE
