------------------------------ MODULE HttpProxy ------------------------------
(***************************************************************************)
(* The HTTP proxy handler of nps (src/server/proxy/http.go, handleHttp)    *)
(* with the copy loop it runs (src/lib/goroutine/pool.go, CopyBuffer).     *)
(*                                                                         *)
(* The handler goroutine serves one user connection c.  For the host of   *)
(* the request it asks the bridge for a stream to the client (connClient) *)
(* and starts a response goroutine that copies connClient to c; it then   *)
(* writes the request to connClient and reads the next request from c.  A  *)
(* request for another host closes connClient, sets isReset and starts     *)
(* over at the label reset with a new connClient and a new response        *)
(* goroutine.  isReset and connClient are variables of handleHttp that the *)
(* response goroutines share with it without synchronisation.             *)
(*                                                                         *)
(* A connClient is known by the number of the reset that created it.  The *)
(* checks before the bridge call (black lists, host lookup, flow and       *)
(* connection limits, auth, target) and the bridge call itself either      *)
(* pass or end the handler; what passes through the streams is left out.   *)
(*                                                                         *)
(* Each host belongs to a client, whose connection slots the handler takes *)
(* with GetConn (in CheckFlowAndConnNum) and gives back with AddConn.      *)
(* held counts the slots of each client the handler holds, and deferred    *)
(* the AddConn calls it has deferred, on the client bound when deferred.   *)
(***************************************************************************)
EXTENDS Integers, FiniteSets, Bags, BagsExt

CONSTANTS
  Hosts,        \* the hosts the user's requests name
  NoHost,       \* a host GetInfoByHost does not know
  MaxRequests,  \* bound: requests read after the first
  Clients,      \* the clients the hosts belong to
  ClientOf,     \* host.Client of each host
  UseCache      \* s.useCache: the response cache is on

ASSUME /\ NoHost \notin Hosts /\ Hosts # {}
       /\ MaxRequests \in Nat
       /\ ClientOf \in [Hosts -> Clients]
       /\ UseCache \in BOOLEAN

\* Every connClient the handler can create: one per start at reset.
Gens == 1..(MaxRequests + 1)

VARIABLES
  main,        \* the handler goroutine: [pc, host]
  isReset,     \* handleHttp's isReset
  connClient,  \* handleHttp's connClient: a generation, 0 while nil
  gens,        \* connClients created so far
  closed,      \* the connClients closed so far
  cOpen,       \* the user connection c is open
  wg,          \* the WaitGroup counter
  resp,        \* response goroutine of each generation: [pc, src]
  requests,    \* bound: requests read
  switched,    \* history: connClients closed by a switch of host
  cClosers,    \* history: the response goroutines that closed c
  held,        \* slots of each client taken by GetConn and not given back
  deferred     \* bag of clients: the deferred host.Client.AddConn() calls

vars == <<main, isReset, connClient, gens, closed, cOpen, wg, resp, requests,
          switched, cClosers, held, deferred>>

\* Variables the reset block leaves alone, and those the handler's loop does.
other == <<isReset, closed, cOpen, wg, requests, switched, cClosers>>
slots == <<held, deferred>>

-----------------------------------------------------------------------------
\* handleHttp's variables, with c open and the first request's host.
Init ==
  /\ main \in [pc : {"reset"}, host : Hosts]
  /\ isReset = FALSE
  /\ connClient = 0
  /\ gens = 0
  /\ closed = {}
  /\ cOpen = TRUE
  /\ wg = 0
  /\ resp = [g \in Gens |-> [pc |-> "none", src |-> 0]]
  /\ requests = 0
  /\ switched = {}
  /\ cClosers = {}
  /\ held = [cl \in Clients |-> 0]
  /\ deferred = EmptyBag

(* At reset after a switch, AddConn on host.Client, host being already the  *)
(* new host; then the global black list and GetInfoByHost pass (ok), or   *)
(* the handler returns.                                                    *)
ResetAdd(ok) ==
  /\ main.pc = "reset"
  /\ held' = IF isReset THEN [held EXCEPT ![ClientOf[main.host]] = @ - 1]
                        ELSE held
  /\ main' = [main EXCEPT !.pc = IF ok THEN "check" ELSE "ret"]
  /\ UNCHANGED <<connClient, gens, resp, deferred>> /\ UNCHANGED other

\* A successful CheckFlowAndConnNum: the traffic is under the flow limit and
\* GetConn takes one of the client's slots.
CheckFlowAndConnNum(cl) == [held EXCEPT ![cl] = @ + 1]

(* CheckFlowAndConnNum fails (the handler returns) or takes a slot; then   *)
(* the handler defers host.Client.AddConn() if isReset, read again, is     *)
(* false.                                                                  *)
ConnCheck(ok) ==
  /\ main.pc = "check"
  /\ main' = [main EXCEPT !.pc = IF ok THEN "link" ELSE "ret"]
  /\ held' = IF ok THEN CheckFlowAndConnNum(ClientOf[main.host]) ELSE held
  /\ deferred' = IF ok /\ ~isReset THEN BagAdd(deferred, ClientOf[main.host])
                                   ELSE deferred
  /\ UNCHANGED <<connClient, gens, resp>> /\ UNCHANGED other

(* The rest of the block: auth, target, black list and SendLinkInfo pass,  *)
(* and the response goroutine is started; else the handler returns.      *)
Reset(ok) ==
  /\ main.pc = "link"
  /\ IF ok
       THEN /\ gens' = gens + 1
            /\ connClient' = gens + 1
            /\ resp' = [resp EXCEPT ![gens + 1].pc = "start"]
            /\ main' = [main EXCEPT !.pc = "write"]
       ELSE /\ main' = [main EXCEPT !.pc = "ret"]
            /\ UNCHANGED <<gens, connClient, resp>>
  /\ UNCHANGED other /\ UNCHANGED slots

(* With the cache on and the request's path in it, c.Write of the cached *)
(* response replaces the request: an error, or a request without           *)
(* Connection: keep-alive (keep false), breaks the loop; else readReq.     *)
CacheHit(keep) ==
  /\ main.pc = "write"
  /\ UseCache
  /\ main' = [main EXCEPT !.pc = IF cOpen /\ keep THEN "readReq" ELSE "wait"]
  /\ UNCHANGED <<isReset, connClient, gens, closed, cOpen, wg, resp, requests,
                 switched, cClosers>>
  /\ UNCHANGED slots

\* r.Write(lenConn) on connClient: an error on a closed stream breaks the loop.
WriteRequest ==
  /\ main.pc = "write"
  /\ main' = [main EXCEPT !.pc = IF connClient \in closed THEN "wait" ELSE "readReq"]
  /\ UNCHANGED <<isReset, connClient, gens, closed, cOpen, wg, resp, requests,
                 switched, cClosers>>
  /\ UNCHANGED slots

(* http.ReadRequest(c) gives a request for host h.  An unknown host breaks *)
(* the loop; another host than the current one sets isReset, closes       *)
(* connClient and goes to reset.                                           *)
ReadRequest(h) ==
  /\ main.pc = "readReq"
  /\ cOpen
  /\ requests < MaxRequests
  /\ requests' = requests + 1
  /\ CASE h = NoHost   -> /\ main' = [main EXCEPT !.pc = "wait"]
                           /\ UNCHANGED <<isReset, closed, switched>>
       [] h = main.host -> /\ main' = [main EXCEPT !.pc = "write"]
                           /\ UNCHANGED <<isReset, closed, switched>>
       [] OTHER         -> /\ main' = [pc |-> "reset", host |-> h]
                           /\ isReset' = TRUE
                           /\ closed' = closed \cup {connClient}
                           /\ switched' = switched \cup {connClient}
  /\ UNCHANGED <<connClient, gens, cOpen, wg, resp, cClosers>>
  /\ UNCHANGED slots

\* http.ReadRequest(c) fails: c was closed, or the user closed it; return.
ReadFail ==
  /\ main.pc = "readReq"
  /\ main' = [main EXCEPT !.pc = "ret"]
  /\ UNCHANGED <<isReset, connClient, gens, closed, cOpen, wg, resp, requests,
                 switched, cClosers>>
  /\ UNCHANGED slots

\* wg.Wait() after the loop.
WaitGroupWait ==
  /\ main.pc = "wait"
  /\ wg = 0
  /\ main' = [main EXCEPT !.pc = "ret"]
  /\ UNCHANGED <<isReset, connClient, gens, closed, cOpen, wg, resp, requests,
                 switched, cClosers>>
  /\ UNCHANGED slots

(* The deferred calls: each deferred AddConn on the client it was bound   *)
(* to, then close connClient (or write the failure page), then c.          *)
Return ==
  /\ main.pc = "ret"
  /\ main' = [main EXCEPT !.pc = "done"]
  /\ held' = [cl \in Clients |-> held[cl] - CopiesIn(cl, deferred)]
  /\ deferred' = EmptyBag
  /\ closed' = IF connClient # 0 THEN closed \cup {connClient} ELSE closed
  /\ cOpen' = FALSE
  /\ UNCHANGED <<isReset, connClient, gens, wg, resp, requests, switched,
                 cClosers>>

-----------------------------------------------------------------------------
(* The response goroutine of generation g.                                 *)

(* wg.Add(1); isReset = false; the deferred connClient.Close and the       *)
(* CopyBuffer call read connClient, the handler's variable, as it is now.  *)
RespStart(g) ==
  /\ resp[g].pc = "start"
  /\ wg' = wg + 1
  /\ isReset' = FALSE
  /\ resp' = [resp EXCEPT ![g] = [pc |-> "copy", src |-> connClient]]
  /\ UNCHANGED <<main, connClient, gens, closed, cOpen, requests, switched,
                 cClosers>>
  /\ UNCHANGED slots

(* CopyBuffer(c, connClient) returns: the stream or c was closed, the      *)
(* target ended its response, or the flow limit was reached (then          *)
(* ReadResponse and resp.Write, which end the same way).                   *)
RespCopy(g) ==
  /\ resp[g].pc = "copy"
  /\ resp' = [resp EXCEPT ![g].pc = "exit"]
  /\ UNCHANGED <<main, isReset, connClient, gens, closed, cOpen, wg, requests,
                 switched, cClosers>>
  /\ UNCHANGED slots

\* The deferred functions: wg.Done(), c.Close() unless isReset, then the
\* stream's Close.
RespExit(g) ==
  /\ resp[g].pc = "exit"
  /\ wg' = wg - 1
  /\ cOpen' = (cOpen /\ isReset)
  /\ cClosers' = IF isReset THEN cClosers ELSE cClosers \cup {g}
  /\ closed' = closed \cup {resp[g].src}
  /\ resp' = [resp EXCEPT ![g].pc = "done"]
  /\ UNCHANGED <<main, isReset, connClient, gens, requests, switched>>
  /\ UNCHANGED slots

Next ==
  \/ \E ok \in BOOLEAN : ResetAdd(ok) \/ ConnCheck(ok) \/ Reset(ok)
  \/ \E keep \in BOOLEAN : CacheHit(keep)
  \/ WriteRequest \/ ReadFail \/ WaitGroupWait \/ Return
  \/ \E h \in Hosts \cup {NoHost} : ReadRequest(h)
  \/ \E g \in Gens : RespStart(g) \/ RespCopy(g) \/ RespExit(g)

Spec == Init /\ [][Next]_vars

-----------------------------------------------------------------------------
TypeOK ==
  /\ main \in [pc : {"reset", "check", "link", "write", "readReq", "wait", "ret", "done"},
               host : Hosts]
  /\ isReset \in BOOLEAN
  /\ connClient \in 0..Cardinality(Gens) /\ gens \in 0..Cardinality(Gens)
  /\ closed \subseteq Gens /\ switched \subseteq Gens /\ cClosers \subseteq Gens
  /\ cOpen \in BOOLEAN
  /\ wg \in Nat
  /\ resp \in [Gens -> [pc : {"none", "start", "copy", "exit", "done"},
                        src : 0..Cardinality(Gens)]]
  /\ held \in [Clients -> Int]
  /\ IsABag(deferred) /\ BagToSet(deferred) \subseteq Clients

(* A switch of host keeps the user connection: the response goroutine     *)
(* whose stream the handler closed for a request to another host never    *)
(* closes c, as the isReset test in its deferred function intends.        *)
ResetKeepsClient == cClosers \cap switched = {}

(* Connection slots are given back: once handleHttp has returned, it holds *)
(* no slot of any client and has given back none it did not take, however  *)
(* the isReset tests at reset and after CheckFlowAndConnNum and the        *)
(* deferred AddConn calls fell.                                            *)
SlotsReturned == main.pc = "done" => \A cl \in Clients : held[cl] = 0
====
