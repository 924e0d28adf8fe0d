# TLA+ models of nps_mux

This directory holds TLA+ models of the stream multiplexer in `src/lib/nps_mux`.
They are checked with TLC. The multiplexer runs one instance on each end of a
single carrier connection, and each instance presents many virtual streams.
Of the callers of the stream API, only the HTTP proxy's handler (`src/server/proxy/http.go`)
is modelled, together with its copy loop (`src/lib/goroutine/pool.go`). The other
proxies, the web console and the client command line are left out.

## The system

Each `Mux` (mux.go) runs these goroutines:

- **readSession**: parses frames and dispatches them.
  - NEW_CONN goes into `newConnQueue`.
  - NEW_MSG and NEW_MSG_PART go to `receiveWindow.Write`.
  - MSG_SEND_OK goes to `sendWindow.SetSize`.
  - NEW_CONN_OK goes to the opener's `connStatusOkCh`.
  - CONN_CLOSE goes to `receiveWindow.Stop`.
  - PING_RETURN goes to `pingCh`.
- **accept goroutine**: pops `newConnQueue`, registers the conn in `connMap`, hands it to `Accept` over `newConnCh`, then sends NEW_CONN_OK.
- **writeSession**: pops the three-class `priorityQueue` and writes frames to the carrier.
- **two ping goroutines**: send a PING every 5 s and count misses, and reset the count when a PING_RETURN arrives.

The users' goroutines call `NewConn`, `Accept`, and `conn.Read`/`Write`/`Close`.

Every stream (conn.go) has two windows, each a 64-bit word updated by CAS loops:

- **send window**: `[wait | maxSize | sent]`. `WriteFull` cuts the buffer into segments of at most `min(MSS, rest, credit)`. With no credit it sets wait and blocks on the unbuffered `setSizeCh`. `SetSize` applies a window update and calls `allow()` when wait goes from set to clear.
- **receive window**: `[wait | maxSize | read]`, plus the `receiveWindowQueue` of list elements with its own `[length | wait]` word.
  - `receiveWindow.Write` does three things. It recomputes the window size every 10th call (`calcSize`). It updates the word and pushes the element. If the window is not full, it then acknowledges.
  - The reader pops elements and copies them into the caller's buffer. Each drained element goes to `sendStatus`, which decides whether to send a window update (MSG_SEND_OK).

All queues are `bufChain`s, lock-free growing rings (queue.go). `priorityQueue` and `connQueue` add a `sync.Cond` for blocking pops.

## Inventory: state, operations, properties

| Component | State | Operations | Properties worth checking |
|---|---|---|---|
| Send window | maxSizeDone word, buf/off, setSizeCh, timeout | WriteFull, WriteTo, sent, waitReceiveWindow, SetSize, allow | credit (spec 8.3), a Write returns, readSession not blocked |
| Receive window | maxSizeDone word, count, element/off, queue | Write, calcSize, Read, readFromQueue, sendStatus, Stop | accounting closure (spec 8.2), window minimum (spec 8.4), delivery |
| receiveWindowQueue | lengthWait word, chain, readOp, stopOp | Push, Pop, TryPop, allowPop, waitPush | no lost wake-up |
| Stream table / ids | connMap, Mux.id | getId, Set, Get, Delete | id unique within a mux |
| Open / Accept | connStatusOkCh, newConnQueue, newConnCh, IsClose | NewConn, Accept, accept goroutine, Mux.Close, release | one Accept per successful open (spec 8.8), readSession never blocked, no panic on close |
| Priority queue | three chains, starving, stop, cond | Push, Pop, TryPop, Stop | priority (spec 8.5), starvation bound (spec 8.6) |
| bufChain | head/tail words, chain links | pushHead, popTail, growth | FIFO per producer, no lost element |
| Stream close | isClose, closingFlag, once, closeOp, closeOpCh, stopOp | Close, closeProcess, CONN_CLOSE, Stop, CloseWindow, release | EOF after drain, data before CONN_CLOSE delivered, readSession not blocked in allowPop |
| Ping / latency | pingCheckTime, pingCh, closeChan, latencyCounter | prober loop, readSession PING_RETURN, receiver loop and select, add, minimal, countSuccess | latency as spec section 3 defines it |

## Modules

| Module | Models | Checked by |
|---|---|---|
| `FlowControl` (+ `MCFlowControl`) | one direction of one stream: send window, receive window and queue, stream close | flow_deadline, flow_stuck_session |
| `OpenAccept` (+ `MCOpenAccept`) | two muxes opening and accepting streams: getId, connMap, NEW_CONN / NEW_CONN_OK, the accept goroutine and newConnQueue.Pop, Mux.Close and release | accept_lost_wakeup, open_timeout_wrap, open_late_ok, close_panic |
| `StreamOpen` | abstract: what NewConn and Accept promise; refined by OpenAccept | open_timeout_wrap |
| `PriorityQueue` (+ `MCPriorityQueue`) | the three-class priorityQueue between sendInfo and the writeSession, with Mux.Close | pq_starvation |
| `BufChain` (+ `MCBufChain`) | bufDequeue and bufChain, the lock-free ring chain under every queue | bufchain, bufchain_producers |
| `Fifo` | the abstract queue a bufChain promises | bufchain (as the refined property `FifoSpec`) |
| `Ping` | the two ping goroutines, the readSession's PING_RETURN hand-off on pingCh, and the latencyCounter | ping_latency |
| `Codec` | muxPackager Set / Pack / UnPack on byte strings | flow_deadline (through FlowControl, `CodecRoundTrip`) |
| `HttpProxy` (+ `MCHttpProxy`) | the HTTP proxy's handleHttp: handler goroutine and response goroutines sharing `isReset` and `connClient`; the connection slots the handler takes from the hosts' clients | http_reset_close, http_conn_slots |

PROJECT.json `map` gives the source lines of every definition that models code.

Conventions shared by all modules:

- **Atomic steps.** Each CAS loop, and each atomic load or store, is one step. A failed CAS retries with fresh values and changes nothing, so it is stuttering.
- **Program counters.** A goroutine's position between blocking points or shared accesses is a `pc` variable. Code between two such points is one step.
- **Mutation points.** Single decisions of the code are small operators, such as `NewWait`, `PushWakes`, `NeedsWrap`, `MiddleFirst`, `Full` and `StopTokens`. The operator just before each is a plausible bug in that line. PROJECT.json `mutants` lists which property each one breaks.
- **History variables** (`sentTotal`, `delivered`, `stopMark`, `acceptLog`, `middleWait`, `taken`) only record what happened, for the properties.

### FlowControl

`FlowControl.tla` covers one direction of one stream:

- the caller of `conn.Write` and `conn.Close` on peer A;
- A's send window and A's readSession applying window updates;
- the FIFO carrier A→B and the carrier B→A;
- B's readSession running `receiveWindow.Write` and handling CONN_CLOSE;
- the receive queue;
- the caller of `conn.Read` on B, with `readFromQueue` and `sendStatus`.

Both carriers are FIFO. All frames of one stream travel in the lowest class behind a single writeSession, so the priority queue does not reorder them.

How the model maps to the code:

- **Window words.** `sendWindow`, `receiveWindow` and `lengthWait` are records holding the fields of the packed words.
- **Blocking points.** The code between a CAS and the next blocking point is a separate step. This covers the push after the CAS, the window update emitted after the push, and `allow`/`allowPop`. `writerPc`, `readerPc`, `aSession` and `bSession` record where each goroutine is.
- **Actions.** Each action is named after the code it models:
  - A's side: `Write`, `WriteTo`, `WriteWake`, `WriteTimeout`, `WriteClosed`, `SetSize`, `SetSizeDropped` and `AllowClosed`.
  - A's close: `CloseStart` and `CloseWindows`.
  - B's readSession: `RecvMsg`, `RecvDropped`, `RecvClose`, `Push`, `PopWake` and `PushStopped`.
  - B's reader: `Read`, `ReadPop`, `ReadEOF`, `ReadCopy` and `ReadStatus`.
- **Stream close.** `closeProcess` is two steps:
  - `CloseStart`: isClose is set, the conn is deleted from connMap and CONN_CLOSE is queued.
  - `CloseWindows`: `CloseWindow` sets closeOp and puts two tokens on closeOpCh.

  A concurrent `WriteTo` can run between the two and queue data behind CONN_CLOSE. B's readSession runs `receiveWindow.Stop` on CONN_CLOSE. Stop's `once` runs `receiveWindowQueue.Stop`, which puts two tokens on stopOp (`stopTokens`). The reader's `waitPush` takes one and returns EOF. `readFromQueue` then calls CloseWindow, whose `release` discards what is queued. A Push's `allowPop` may take the other. Frames for a closed conn are dropped.
- **Left out of close.** The close of B's side back to A is not modelled. A has already deleted the conn and drops it. `closingFlag` only stops B from writing, so it is also left out.
- **Frames are bytes, content is counted.** A→B carries the byte strings `Codec!Pack` writes for this stream (flag, little-endian id `StreamId` = 258 so both id bytes are non-zero, length, content). B's readSession decodes the head with `Codec!UnPack` (`Incoming`, `FrameReady`) and dispatches on the decoded flag and id. Content bytes all have one value. `UnPackOf` tabulates UnPack over the strings A can write, only to evaluate it once. The B→A carrier of MSG_SEND_OK stays a sequence of window values, since the uint64 window is beyond TLC's integers.
- **calcSize in integers.** `calcSize` is integer arithmetic over two sets:
  - `Candidates`: the BDP estimate after the latency gain;
  - `Limits`: the bandwidth-ratio cap, or none.

  The low-fill gain `n * 1.5625 * ra^2` with `ra > 0.8` becomes `n*25*rem^2 \div (16*size^2)` with `5*rem > 4*size`. The bandwidth and latency measurements only choose which candidate and limit apply, and TLC explores every choice.

### OpenAccept

`OpenAccept.tla` has two muxes, `Peers`, connected by one FIFO carrier per direction. NEW_CONN and NEW_CONN_OK travel in the middle class behind a single writeSession, so each carrier is FIFO.

- **State:** per mux, the id counter, `connMap` (a partial function), `newConnQueue`, the accept goroutine, `closer` (Mux.Close: `IsClose` with `newConnCh` closed, then release's `stop`), and the readSession's pending send on a `connStatusOkCh`.
- **Callers:** each caller of `NewConn` (`Openers`) is a record with a pc, an id and an attempt number.
- **Actions:** the opener's steps are `NewConn`, `GetIdWrap`, `GetIdAdd`, `OpenerSet`, `OpenerSend`, `OpenOk`, `OpenTimer` and `CloseOpened`. The mux side has `ReadNewConn`, `ReadNewConnOk`, `AcceptHandoff`, `AcceptSendOk`, `CloseAccepted`, the steps of `Mux.Close` (`CloseTest`, `CloseSet`, `CloseChanSend`, `CloseNewConnCh`, `MuxRelease`) for each caller in `Closers`, and the ping receiver's loop test `PingRecvTop`.
- **Accept goroutine:** `AcceptTop` is its `if s.IsClose` test. `newConnQueue.Pop` is a pc per TryPop: two without the lock (`try1`, `try2`), one under it (`locked`), and one after each wake (`woken`). `AcceptPop` takes a conn at any of them. `PopEmpty` moves to the next TryPop, or returns nil once `stop` is set. `PopCheck` is the stop test under the lock, and `PopWait` is `cond.Wait` joining the notify list. The unlocked Broadcast of `connQueue.Push` (in `ReadNewConn`) and of `Stop` (in `MuxRelease`) wakes only a goroutine at `sleeping`.
- **Mux.Close:** each goroutine of `Closers` calls Close at most once, one statement per step. `CloseTest` is the unsynchronised `if s.IsClose` and returns if it is set. `CloseSet` sets IsClose and closes every conn of `connMap`. `CloseChanSend` sends on `closeChan`, which hands the token to the ping receiver if it is parked in its select, or else puts it in the buffer of one (`PingRecvTop` is the receiver's loop test; pings themselves are left out here). `CloseNewConnCh` closes `newConnCh` and panics if another caller already closed it. After `CloseSet`, the readSession and `NewConn` stop and `sendInfo` drops frames. An accept goroutine at the send on a closed `newConnCh` panics too. `Alive` stops every goroutine of a process in which a goroutine panicked. `MuxRelease` drains `newConnQueue`, sets `stop` and broadcasts.
- **getId:** its unsynchronised wrap test and its atomic add are separate steps, so two callers can race at the wrap. `IdInUse` is its test of the new id against `connMap`.
- **Refinement:** `StreamOpen.tla` is what `NewConn` and `Accept` promise a caller, with no ids, frames or goroutines. Each caller makes numbered attempts. An attempt is `pending` until it opens a stream or gives up, and it may open only after the other mux has accepted that very attempt. `OpenAccept` maps onto it on the opening mux:
  - a caller's state is `idle`, `open`, or `pending` (every pc in between);
  - `accepted` is the set of attempts in the other mux's `acceptLog`.
  `OpenRefinement` checks `Abstract!Spec`, a safety specification with no fairness, as a property.
- **Bounds:** `MaxId` and `WrapGap` scale down `math.MaxInt32` and 10000, so the wrap is reached within a few opens.

### PriorityQueue

`PriorityQueue.tla` models the priorityQueue between the goroutines calling `sendInfo` and the writeSession, its only consumer.

- **State:** the length of each chain, `starving` (a uint8, `StarveWidth` = 256), `stop`, `IsClose`, the pc of each caller of Close (`Closers`: the user and the writeSession) and the writeSession's pc.
- **Pop:** two unlocked tries, then the locked loop with `cond.Wait`. Go's `cond.Wait` joins the notify list before unlocking, so the states `check` and `wait` are the window in which a `Broadcast` is missed.
- **Push and Stop** broadcast without holding `cond.L`. `Mux.Close` sets IsClose, drains with TryPop and calls Stop.
- **Failed writes:** with `PackFails`, any `pack.Pack` onto the carrier may fail (`PackOutcomes`). The writeSession then calls `s.Close()` itself. If the mux is already closed, Close returns at once; otherwise the writeSession runs release and Stop. It breaks out of its loop when Close returns. Here the IsClose test and its assignment are one step; two callers both passing the test are modelled in OpenAccept.
- **Chain lengths:** on a saturating class, a length of `Cap` stands for `Cap` or more.
- **connQueue** runs the same Pop, Push and Stop on one chain, so it is this module with one class.

### BufChain and Fifo

`BufChain.tla` models the lock-free chain of rings under every queue.

- **State:**
  - nodes, each a ring with a packed headTail word and a next link;
  - `c.head`, `c.tail` and `newChain`;
  - producers and consumers, each with a pc.
- **Index width:** indexes are `IdxBits` wide and the word is `head*2^IdxBits + tail`, so both indexes wrap within a few operations.
- **Producer steps:**
  - `bufDequeue.pushHead`, with its Full check and slot write.
  - `bufChain.pushHead`, which loads head, CASes the newChain flag, allocates a node of twice the size up to `DequeueLimit`, and stores head and next.
- **Consumer steps:** `popTail` loads the tail, reads the word, takes the slot, advances, and moves `c.tail` when a node is empty and has a successor.
- **Refinement:** `Fifo.tla` is the abstract queue that `pushHead` and `popTail` promise. `MCBufChain` instantiates it as `F == INSTANCE Fifo WITH queue <- ChainSeq, got <- taken` and checks `FifoSpec == F!Spec`. `ChainSeq` is the values in the chain from tail to head, computed by the RECURSIVE `ChainFrom`.

### Codec

`Codec.tla` holds the frame format of netpackager.go as operators: `FlagCode` (the iota constants of mux.go), `PutLE`/`GetLE` (binary.LittleEndian), `SetLength` (basePackager.Set dropping content above maximumSegmentSize), `Pack`, `LengthOk` (basePackager.UnPack's length errors) and `UnPack`, which reports the decoded fields, whether ReadFull has all it needs, and how many bytes it takes. FlowControl's `CodecRoundTrip` checks, on every string on the carrier, that UnPack takes it whole, names the stream and re-encodes to the same bytes.

### Ping

`Ping.tla` models the prober and receiver goroutines of `Mux.ping` and the `latencyCounter`.

- **latencyCounter:** `headMin` is the uint8 word with head and min, and `buf` holds `2^CounterBits` slots. `add`, `minimal` (RECURSIVE `MinimalLoop`) and `countSuccess` are operators.
- **RTTs and latency:** RTTs are small naturals. The latency is the exact fraction `sum / count`, and count 0 is the code's NaN.
- **Prober:** `ProbeStart` and `ProbeTick` send PINGs through `sendInfo`, which sends nothing once IsClose is set (`SendPing`). They count misses and, past `Threshold`, call Mux.Close. Here Close is one step: it sets IsClose and puts the token in `closeChan`. OpenAccept models its steps.
- **readSession:** `SessionTop` is its loop test. `SessionUnpack` reads a PING_RETURN, standing for the peer's readSession answering a PING, and moves to the send on the unbuffered `pingCh`. `inFlight` counts PINGs not yet answered.
- **Receiver:** `RecvTop` is its loop test. `Receive(rtt)` is the select taking the PING_RETURN from `pingCh`. It resets `pingCheckTime` and adds a positive RTT to the counter (`Sample`). `RecvClose(rtt)` is the select taking the close token. `case <-s.closeChan: break` leaves only the select, so the receiver still parses the stale `data`. The time since that old PING (or since the zero time) is positive and is added as a sample too.
- **pingCh after Close:** the model reaches the state in which the receiver has left its loop while the readSession is stuck at `pingCh` (hazard mux.go:272). No run checks it: the mux is closed, so this is a leaked goroutine rather than a stall.

### HttpProxy

`HttpProxy.tla` models `handleHttp`, which serves one user connection `c`:

- **Handler goroutine:** `main.pc` follows the code's labels.
  - The block at `reset:` is three steps, split where it reads the shared `isReset`:
    - `ResetAdd(ok)` is `if isReset { host.Client.AddConn() }`, with `host` already the new host after a switch, then the global black list and `GetInfoByHost`.
    - `ConnCheck(ok)` is `CheckFlowAndConnNum` (the flow limit, then `GetConn` taking a slot) and `if !isReset { defer host.Client.AddConn() }`, which reads `isReset` again. The deferred call is bound to the client of the host at that moment.
    - `Reset(ok)` is the rest: auth, target, black list and `SendLinkInfo`. It either creates the next connClient and starts its response goroutine, or makes the handler return.
  - `CacheHit(keep)` is a hit of the response cache (with `UseCache`). `c.Write` of the cached response replaces the request. An error, or a request that is not keep-alive, breaks the loop.
  - `WriteRequest` is `r.Write` on connClient. It fails on a closed stream, which breaks the loop.
  - `ReadRequest(h)` reads the next request, for host `h`. The same host loops, an unknown host breaks, and another host sets `isReset`, closes connClient and goes to `reset`. `ReadFail` is the user closing `c`.
  - `WaitGroupWait` is `wg.Wait()`. `Return` is the deferred calls: every deferred `AddConn` on its client, then the closes.
- **Response goroutines:** one per connClient. `RespStart` is `wg.Add(1)`, `isReset = false` and the reads of the shared `connClient`. `RespCopy` is the return of `CopyBuffer`, which may happen at any time: the stream closed, `c` closed, the target finished, or the flow limit. `RespExit` is the deferred `wg.Done()`, `c.Close()` unless `isReset`, and the stream's Close.
- **History:** `switched` holds the streams closed by a switch of host, and `cClosers` the goroutines that closed `c`.
- **Connection slots:** `held[cl]` counts the slots of client `cl` that this handler holds (taken by `GetConn`, given back by `AddConn`), and the bag `deferred` holds the clients of the registered deferred `AddConn` calls. `GetConn` and the file package behind it are not in this tree, so its limit test is one of the outcomes of `ConnCheck(ok)`. `MCHttpProxy` gives the two hosts to two clients.
- **Left out:** what the cache holds, header rewriting and flow counting.

## Runs

| Run | Module / cfg | Expect | What it shows |
|---|---|---|---|
| flow_deadline | MCFlowControl / FlowDeadline.cfg | pass (94k states) | With write deadlines and a close that may come at any time: AccountingClosure while open, every Write returns, every byte sent before CONN_CLOSE is read, every frame string decodes whole to what was packed, EOF only after the bytes received before Stop are read, and B's readSession never stays in `allowPop`. |
| flow_stuck_session | MCFlowControl / FlowStuckSession.cfg | violation of SessionNeverStuck | A Write that times out leaves the wait bit set. The next window update blocks A's readSession in `allow()` for good, and that readSession serves every stream. |
| accept_lost_wakeup | MCOpenAccept / OpenAccept.cfg | violation of AcceptWakes | Two callers open two streams each, with the timer left out, and the accepting mux may be closed. The accept goroutine tests `stop` under the lock. Then release's `connQueue.Stop` broadcasts before `cond.Wait` joins the notify list. The goroutine sleeps with `stop` set and outlives Mux.Close (about 284k states, 1 min). With `Closing = {}`, TLC reports the same property violated by `connQueue.Push`: the NEW_CONN stays queued and its NewConn never gets NEW_CONN_OK. |
| open_timeout_wrap | MCOpenAccept / OpenTimeoutWrap.cfg | pass (778k states, about 3 min) | The two-minute timer fires, the id counter wraps, and the opening mux may close at any moment. Through all of this, ids stay in range and opens still match accepts. A NEW_CONN_OK answering a NewConn in progress always reaches that NewConn's conn (`OkReachesOpener`). OpenAccept refines StreamOpen (`OpenRefinement`): a late NEW_CONN_OK for an attempt that timed out never opens a later attempt, because getId never reuses an id still in connMap. Mux.Close always returns (`CloseReturns`). The ping receiver may test IsClose and leave its loop before Close sends on `closeChan`; the buffer of one is what lets that send complete. With an unbuffered channel, Close blocks for ever. |
| open_late_ok | MCOpenAccept / OpenLateOk.cfg | violation of SessionNeverBlocked | A NEW_CONN_OK arriving after NewConn timed out blocks the readSession forever on `connStatusOkCh`. |
| close_panic | MCOpenAccept / ClosePanic.cfg | violation of NeverPanics | Two goroutines call Close on the accepting mux (the readSession and the writeSession failing on the same broken carrier). Both pass the unsynchronised IsClose test, and the second `close(newConnCh)` panics. That is TLC's shortest trace. With one caller the panic is still reached: Close comes after the accept goroutine has popped and registered a conn, and its `newConnCh <- connection` sends on the closed channel. Either panic ends the process. |
| pq_starvation | MCPriorityQueue / PQStarvation.cfg | pass | Under saturating middle-class traffic, a data frame waits behind at most maxStarving middle frames and is then written, unless the mux closes. The bound holds across the uint8 wrap of starving, which the run reaches (starving 255, then 0). The run has no type invariant: starving's range follows from `% 256`. The run has no highest-class traffic either. In the code that class carries only PINGs, so the lowest class is never starved by it. The saturating producers broadcast again and again, which masks the lost wake-up of `priorityQueue.Push` for `LowestServed`. |
| bufchain | MCBufChain / BufChain.cfg | pass | One producer, one consumer, as every chain of the mux is used: the chain grows, its indexes wrap, it implements `Fifo`, and every pushed value is popped. |
| bufchain_producers | MCBufChain / BufChainProducers.cfg | violation of ElementsKept | With two producers, one with a stale head grows the chain again from the old node and overwrites its next link, losing a pushed value. |
| http_reset_close | MCHttpProxy / HttpReset.cfg | violation of ResetKeepsClient | A request for another host closes the user connection. The old response goroutine's deferred `if !isReset { c.Close() }` reads an `isReset` that a response goroutine has already cleared. |
| http_conn_slots | MCHttpProxy / HttpSlots.cfg | violation of SlotsReturned | After a switch to a host of another client, `AddConn` at reset gives the new client a slot it never lent. A failed check at reset then leaves that client one slot short while the first client's deferred `AddConn` also runs. With every check passing, the first response goroutine can clear `isReset` between the two tests, and the new client gets its slot back twice. |
| ping_latency | Ping / PingLatency.cfg | violation of LatencyMatchesSpec | The stored latency is not the spec's mean of the samples within 3 x min: the last slot is never counted, and minimal never leaves slot 0. |

PROJECT.json `findings` gives the trace-level explanation of every violation.

### Bounds

- **FlowControl** uses scaled sizes:
  - MSS 2, initial window 2;
  - writes and reads of 1 or 3;
  - at most 3 bytes in total;
  - calcSize on every 2nd message;
  - candidates {0, 5}, limits {none, 3}.

  With these, writes split into parts, the writer waits for credit, reads stop inside an element, sendStatus emits for each of its reasons, and the window grows, shrinks and is clamped. A close can come before, during or after any write. With 4 bytes the run takes over 10 minutes and adds no new branch.
- **OpenAccept** uses two callers with two opens each (one caller with three opens in open_timeout_wrap). An id space of 6 with gap 2 (or 2 with gap 1) brings getId to its wrap. One mux may close: the opening one in open_timeout_wrap with one caller of Close, the accepting one in close_panic with two callers. A single open already puts a conn at the accept goroutine's send when Close comes.
- **PriorityQueue** keeps maxStarving = 8 and the uint8 width of the code.
- **HttpProxy** uses two hosts of two clients and two requests after the first: one switch of host and a request after it. That is enough for two response goroutines to overlap, and for a response goroutine to start between the two `isReset` tests of the reset block.
- **BufChain** pushes 6 values through rings of 1 then 2 slots with 2-bit indexes, so the chain grows and wraps.

### Fairness

- **Weak fairness** holds on every goroutine step. This covers the writer inside WriteFull, the readSessions, the accept goroutine, the writeSession, the reader inside `readFromQueue`, and `Read` itself (the copy loops call Read again as soon as it returns). It also holds on each step of closeProcess once it has begun.
- **Strong fairness** holds on every rendezvous or select that a ready case may keep offering: `WriteWake`, `PopWake`, `PushStopped`, `ReadEOF` and `OpenOk`. Go's `select` takes a ready case, so a case offered again and again is eventually taken.
- **No fairness** holds on what a caller chooses: `Write`, `NewConn`, `Close`, the user's call of `Mux.Close` (`CloseTest` in OpenAccept, `Close("user")` in PriorityQueue) and a write deadline. A caller may stop at any time, and a deadline may or may not be set.
- **Mux.Close, once called,** is weakly fair on each later step (`CloseSet`, `CloseChanSend`, `CloseNewConnCh`, `MuxRelease`; `Drain`, `Stop`, `StopBroadcast`). So is the ping receiver's loop, and so is the writeSession's own `Close("writer")` after a failed write. OpenAccept states the fairness of NewConn's steps only on the `Opening` muxes, and that of the Close steps and the ping receiver only on the `Closing` ones. These steps are never enabled on the other muxes, so the specification is the same; TLC just has less to check.
- **HttpProxy** states no fairness. Both of its runs check safety properties.
- **Deadlock checking** is off in every cfg. Each bounded run ends in idle goroutines waiting for frames, or in a closed mux, and both are legitimate final states.

## What is not modelled, and why

- **Frame codec, partly** (netpackager.go): only the frames of the FlowControl direction A→B are encoded. MSG_SEND_OK (a uint64 window), PING payloads and the other models' carriers stay records; the io.Reader/Writer plumbing, short reads and the pool buffers are left out.
- **Bandwidth estimators** (mux.go `bandwidth`, conn.go `writeBandwidth`): floating-point timing of socket reads. Only their effect on calcSize is modelled, through the candidate and limit sets. `writeBandwidth.ratio` grows by one on each calcSize that finds the stream faster than the mux. The uint32 product `writeCalcThreshold * ratio` wraps once ratio reaches 820. That is arithmetic in one function, which a unit test reaches.
- **Read deadlines:** an expiring read deadline closes the receive window (conn.go:327). This is listed as a hazard.
- **Mux.Close across streams:** OpenAccept models its effect on connMap, newConnCh and newConnQueue, and PriorityQueue its effect on the write queue. Its effect on the windows of open streams is not modelled. Two concurrent calls of Close are modelled in OpenAccept only, where the second `close(newConnCh)` panics.
- **Ids from both sides:** every user of the mux opens from one side. When both muxes open, their independent counters can hand out the same id, and the accept goroutine's `connMap.Set` overwrites the local opener's conn (a hazard in PROJECT.json).
- **Two consumers of one bufChain:** two goroutines pop one chain only when release drains a queue while its consumer is in an unlocked TryPop: the user's Close against the writeSession's Pop, or against the accept goroutine's Pop. Two consumers break `FifoSpec` by a stale tail (a hazard in PROJECT.json). Here the effect is masked: the consumer tests IsClose after Pop and breaks without using what it popped. BufChain checks one consumer.
- **copyConns** (goroutine/pool.go): the two CopyBuffer goroutines of a tunnelled connection and their WaitGroup. CopyBuffer is modelled only as HttpProxy's response copy. A direction that ends with an error closes both conns. A direction that stops on the flow limit breaks with a nil error, so it closes neither: the other direction copies on until its own next read or write. No run is left for a module of its own.
- **Object pools** (pool.go): sync.Pool wrappers.
- **Other helpers:** the traffic-control helper tc.go, the socket-option helpers and the token-bucket rate.go, none of which is used by the mux. rate.go is used only by mux_test.go. The client settings page (web/controllers/client.go) uses lib/rate, which is not under src/.
- **Credit against a shrunk window:** spec 8.3 says `sent <= maxSize` at any instant. calcSize may halve the window, or cap it by bandwidth, while bytes are in flight, and SetSize then stores a `maxSize` below `sent`. FlowControl reaches that state, but the shrink is deliberate in the code, so no run spends its budget on it (a hazard in PROJECT.json).
- **Other proxy handlers:** the websocket reverse proxy (websocket.go), the HTTPS proxy (https.go) and DealClient (base.go) take a connection slot and give it back in a deferred call on the same client, in one goroutine, then copy bytes with Join or CopyWaitGroup. That leaves no interleaving of their own to check. Their black-list test `in` sorts a shared slice in place while other handlers search it, a data race listed as a hazard.
- **Client command line and web console** (npc.go, web/controllers): flag parsing, service installation and form handling, with no concurrency of their own. Editing a client replaces fields that running handlers read.
- **Wrap of the 31-bit counters:** the window sizes stay far below 2^31, because `maximumWindowSize` is 2^27.
- **connMap.Close's range:** it ranges over the map without the lock while the accept goroutine may `Set`. OpenAccept closes the whole map in one step (`CloseSet`), so Go's fatal error on a concurrent iteration and write is not reached (a hazard in PROJECT.json).
- **The remaining hazards without a property** are code bugs: each would take a violation run of its own. The twelve runs go to the stalls, panics and lost data of open muxes and of handleHttp, which this project treats as the most serious. For the same reason, the Ping model reaches the readSession stuck on `pingCh` after Close, but no run checks for it.
