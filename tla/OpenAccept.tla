----------------------------- MODULE OpenAccept -----------------------------
(***************************************************************************)
(* Opening and accepting streams between the two muxes of a carrier        *)
(* (src/lib/nps_mux/mux.go, map.go, the connQueue of queue.go).            *)
(*                                                                         *)
(* On the opening side a caller of Mux.NewConn allocates an id with getId, *)
(* registers a new conn under it in connMap, queues NEW_CONN and waits up  *)
(* to two minutes on connStatusOkCh.  On the other side the readSession    *)
(* turns NEW_CONN into a conn on newConnQueue; the accept goroutine pops   *)
(* it, registers it, hands it over newConnCh to the caller of Accept and   *)
(* queues NEW_CONN_OK; the readSession of the opener passes NEW_CONN_OK    *)
(* to connStatusOkCh of the conn registered under the id.                  *)
(*                                                                         *)
(* NEW_CONN and NEW_CONN_OK travel in the middle class of the              *)
(* priorityQueue behind one writeSession, so each carrier is a FIFO.       *)
(* CONN_CLOSE is left out: the readSession handles it without blocking and *)
(* without touching connMap.  A frame carries the opener and the attempt   *)
(* that produced it, as a history of which open an accepted conn is for.   *)
(***************************************************************************)
EXTENDS Naturals, Sequences, FiniteSets, TLC

CONSTANTS
  Peers,        \* the two muxes of one carrier
  Opening,      \* the muxes whose callers call NewConn
  Openers,      \* concurrent callers of NewConn on each opening mux
  MaxOpens,     \* bound: NewConn calls per caller
  MaxId,        \* math.MaxInt32, scaled down
  WrapGap,      \* getId restarts from 0 within WrapGap of MaxId (10000)
  OpenTimeout,  \* TRUE when NewConn's two-minute timer may fire
  Closing,      \* the muxes on which Mux.Close is called
  Closers,      \* the goroutines that call Mux.Close on such a mux, once each
                \* (the ping goroutine, the readSession, the writeSession,
                \* sendInfo, the user)
  NoConn        \* no conn: an id not in connMap, a readSession not blocked

ASSUME /\ Cardinality(Peers) = 2
       /\ Opening \subseteq Peers
       /\ MaxOpens \in Nat \ {0}
       /\ WrapGap \in 1..MaxId
       \* as 10000 in the code, the gap exceeds the callers racing to the wrap
       /\ WrapGap >= Cardinality(Openers)
       /\ OpenTimeout \in BOOLEAN
       /\ Closing \subseteq Peers
       /\ Closers # {}

VARIABLES
  idCounter,     \* Mux.id
  connMap,       \* connMap.cMap: id -> conn, a partial function
  opener,        \* caller of NewConn: [pc, id, seq]
  carrier,       \* carrier[p]: frames queued by p for the other mux
  newConnQueue,  \* conns created from NEW_CONN, waiting for the accept goroutine
  acceptor,      \* accept goroutine: [pc, conn]; pc "try1" .. "sleeping"
                 \* are the steps of newConnQueue.Pop
  closer,        \* per mux: IsClose, newConnCh, newConnQueue's stop flag,
                 \* the tokens in closeChan, the ping receiver's pc, and the
                 \* pc of each caller of Mux.Close
  session,       \* conn whose connStatusOkCh the readSession is sending on
  live,          \* conns handed to callers of Accept and not yet closed
  acceptLog      \* history: conns handed to callers of Accept, in order

vars == <<idCounter, connMap, opener, carrier, newConnQueue, acceptor,
          closer, session, live, acceptLog>>

Other(p) == CHOOSE q \in Peers : q # p

-----------------------------------------------------------------------------
(* A conn is known by its id and by the NewConn attempt it belongs to: the *)
(* opener's own conn, or the conn the other mux accepted for it.           *)
Conn == [id : Nat, side : {"open", "accept"}, who : Openers,
         seq : 1..MaxOpens]

OpenerConn(p, i) ==
  [id |-> opener[p][i].id, side |-> "open", who |-> i, seq |-> opener[p][i].seq]

Frame == [flag : {"muxNewConn", "muxNewConnOk"}, id : Nat, who : Openers,
          seq : 1..MaxOpens]

\* connMap.Get: ok when the id is registered.
Registered(m, id) == id \in DOMAIN m

IdInUseIgnored(m, id) == FALSE

\* getId's test of a fresh id: one registered in connMap is taken again.
IdInUse(m, id) == Registered(m, id)

\* connMap.Set and connMap.Delete.
MapSet(m, id, c) == (id :> c) @@ m
MapDelete(m, id) == [x \in DOMAIN m \ {id} |-> m[x]]

\* Bug: the wrap test inverted.
NeedsWrapInverted(id) == MaxId - id >= WrapGap
\* Bug: no wrap, the counter runs past MaxInt32.
NeedsWrapNever(id) == FALSE
\* getId: restart from 0 when within WrapGap of the maximum.
NeedsWrap(id) == MaxId - id < WrapGap

\* Bug: NEW_CONN queued before the conn is registered.
RegisterOrderSwapped == <<"send", "set">>
\* NewConn: "it must be Set before send".
RegisterOrder == <<"set", "send">>

\* Bug: NEW_CONN_OK queued before the conn is handed to Accept.
AcceptOrderSwapped == <<"sendOk", "handoff">>
\* The accept goroutine: newConnCh <- connection, then sendInfo(NEW_CONN_OK).
AcceptOrder == <<"handoff", "sendOk">>

(* connQueue.Pop: the TryPops in order, two without the lock, one under   *)
(* it, one after each cond.Wait; an empty TryPop leads to the next step,   *)
(* and one of the two without the lock returns nil once stop is set.       *)
TryPops == {"try1", "try2", "locked", "woken"}
AfterEmpty == [try1 |-> "try2", try2 |-> "locked", locked |-> "check",
               woken |-> "check"]

\* connQueue.Push: pushHead, then cond.Broadcast (without cond.L) wakes a
\* goroutine that has entered cond.Wait.
Woken(pc) == IF pc = "sleeping" THEN "woken" ELSE pc

\* Mux.IsClose, and the stop flag that release sets on newConnQueue.
IsClose(p) == closer[p].isClose
Stopped(p) == closer[p].stop

\* The process of mux p goes on until a goroutine of it panics: every step
\* of p requires it.
Alive(p) == acceptor[p].pc # "panic" /\ \A k \in Closers : closer[p].pc[k] # "panic"

\* The step after step s of a two-step sequence, then the final pc.
After(order, s, final) == IF s = order[1] THEN order[2] ELSE final

-----------------------------------------------------------------------------
Init ==
  /\ idCounter = [p \in Peers |-> 0]
  /\ connMap = [p \in Peers |-> <<>>]
  /\ opener = [p \in Peers |-> [i \in Openers |->
                 [pc |-> "idle", id |-> 0, seq |-> 0]]]
  /\ carrier = [p \in Peers |-> <<>>]
  /\ newConnQueue = [p \in Peers |-> <<>>]
  /\ acceptor = [p \in Peers |-> [pc |-> "top", conn |-> NoConn]]
  /\ closer = [p \in Peers |-> [isClose |-> FALSE, newConnCh |-> "open",
                               stop |-> FALSE, closeChan |-> 0,
                               \* the receiver's first IsClose test can only
                               \* fail on a mux that is never closed
                               recv |-> IF p \in Closing THEN "loop" ELSE "select",
                               pc |-> [k \in Closers |-> "run"]]]
  /\ session = [p \in Peers |-> NoConn]
  /\ live = [p \in Peers |-> {}]
  /\ acceptLog = [p \in Peers |-> <<>>]
-----------------------------------------------------------------------------
(* The caller of NewConn.                                                  *)

\* NewConn: a new conn, then getId.
NewConn(p, i) ==
  /\ Alive(p)
  /\ p \in Opening
  /\ ~IsClose(p)
  /\ opener[p][i].pc = "idle"
  /\ opener[p][i].seq < MaxOpens
  /\ opener' = [opener EXCEPT ![p][i] = [pc |-> "getId", id |-> 0,
                                         seq |-> @.seq + 1]]
  /\ UNCHANGED <<closer, idCounter, connMap, carrier, newConnQueue, acceptor,
                 session, live, acceptLog>>

\* getId, first statement: the unsynchronised test and atomic store of 0.
GetIdWrap(p, i) ==
  /\ Alive(p)
  /\ opener[p][i].pc = "getId"
  /\ idCounter' = [idCounter EXCEPT ![p] = IF NeedsWrap(@) THEN 0 ELSE @]
  /\ opener' = [opener EXCEPT ![p][i].pc = "add"]
  /\ UNCHANGED <<closer, connMap, carrier, newConnQueue, acceptor, session, live,
                 acceptLog>>

\* getId: atomic.AddInt32, then connMap.Get; a registered id recurses.
GetIdAdd(p, i) ==
  /\ Alive(p)
  /\ opener[p][i].pc = "add"
  /\ LET id == idCounter[p] + 1
     IN /\ idCounter' = [idCounter EXCEPT ![p] = id]
        /\ opener' = [opener EXCEPT ![p][i] =
                        IF IdInUse(connMap[p], id)
                          THEN [@ EXCEPT !.pc = "getId"]
                          ELSE [@ EXCEPT !.pc = RegisterOrder[1], !.id = id]]
  /\ UNCHANGED <<closer, connMap, carrier, newConnQueue, acceptor, session, live,
                 acceptLog>>

\* NewConn: connMap.Set(conn.connId, conn).
OpenerSet(p, i) ==
  /\ Alive(p)
  /\ opener[p][i].pc = "set"
  /\ connMap' = [connMap EXCEPT ![p] =
                   MapSet(@, opener[p][i].id, OpenerConn(p, i))]
  /\ opener' = [opener EXCEPT ![p][i].pc = After(RegisterOrder, "set", "wait")]
  /\ UNCHANGED <<closer, idCounter, carrier, newConnQueue, acceptor, session, live,
                 acceptLog>>

\* NewConn: sendInfo(muxNewConn, conn.connId, nil), which drops the frame on
\* a closed mux.
OpenerSend(p, i) ==
  /\ Alive(p)
  /\ opener[p][i].pc = "send"
  /\ carrier' = [carrier EXCEPT ![p] = IF IsClose(p) THEN @ ELSE Append(@,
                   [flag |-> "muxNewConn", id |-> opener[p][i].id,
                    who |-> i, seq |-> opener[p][i].seq])]
  /\ opener' = [opener EXCEPT ![p][i].pc = After(RegisterOrder, "send", "wait")]
  /\ UNCHANGED <<closer, idCounter, connMap, newConnQueue, acceptor, session, live,
                 acceptLog>>

\* The readSession's send on connStatusOkCh meets NewConn's select.
OpenOk(p, i) ==
  /\ Alive(p)
  /\ opener[p][i].pc = "wait"
  /\ session[p] = OpenerConn(p, i)
  /\ opener' = [opener EXCEPT ![p][i].pc = "open"]
  /\ session' = [session EXCEPT ![p] = NoConn]
  /\ UNCHANGED <<closer, idCounter, connMap, carrier, newConnQueue, acceptor, live,
                 acceptLog>>

\* The two-minute timer fires first: NewConn fails and leaves its conn in
\* connMap.
OpenTimer(p, i) ==
  /\ Alive(p)
  /\ OpenTimeout
  /\ opener[p][i].pc = "wait"
  /\ opener' = [opener EXCEPT ![p][i].pc = "idle"]
  /\ UNCHANGED <<closer, idCounter, connMap, carrier, newConnQueue, acceptor, session,
                 live, acceptLog>>

\* conn.Close of an opened stream: closeProcess deletes its id from connMap.
CloseOpened(p, i) ==
  /\ Alive(p)
  /\ opener[p][i].pc = "open"
  /\ connMap' = [connMap EXCEPT ![p] = MapDelete(@, opener[p][i].id)]
  /\ opener' = [opener EXCEPT ![p][i].pc = "idle"]
  /\ UNCHANGED <<closer, idCounter, carrier, newConnQueue, acceptor, session, live,
                 acceptLog>>
-----------------------------------------------------------------------------
(* The readSession, on the frames of the other mux.                        *)

\* NEW_CONN: NewConn(pack.id, s) pushed on newConnQueue; the Broadcast
\* wakes the accept goroutine if it sleeps in cond.Wait.
ReadNewConn(p) ==
  /\ Alive(p)
  /\ ~IsClose(p)
  /\ session[p] = NoConn
  /\ carrier[Other(p)] # <<>>
  /\ LET f == Head(carrier[Other(p)])
     IN /\ f.flag = "muxNewConn"
        /\ newConnQueue' = [newConnQueue EXCEPT ![p] = Append(@,
                             [id |-> f.id, side |-> "accept", who |-> f.who,
                              seq |-> f.seq])]
  /\ carrier' = [carrier EXCEPT ![Other(p)] = Tail(@)]
  /\ acceptor' = [acceptor EXCEPT ![p].pc = Woken(@)]
  /\ UNCHANGED <<closer, idCounter, connMap, opener, session, live, acceptLog>>

(* NEW_CONN_OK: with a conn registered under the id, send on its           *)
(* connStatusOkCh (the readSession blocks until NewConn receives);         *)
(* otherwise drop the frame.                                               *)
ReadNewConnOk(p) ==
  /\ Alive(p)
  /\ ~IsClose(p)
  /\ session[p] = NoConn
  /\ carrier[Other(p)] # <<>>
  /\ LET f == Head(carrier[Other(p)])
     IN /\ f.flag = "muxNewConnOk"
        /\ session' = [session EXCEPT ![p] =
                         IF Registered(connMap[p], f.id)
                           THEN connMap[p][f.id] ELSE NoConn]
  /\ carrier' = [carrier EXCEPT ![Other(p)] = Tail(@)]
  /\ UNCHANGED <<closer, idCounter, connMap, opener, newConnQueue, acceptor, live,
                 acceptLog>>

-----------------------------------------------------------------------------
(* The accept goroutine and the callers of Accept.                         *)

\* The loop of the accept goroutine: if s.IsClose break, else Pop.
AcceptTop(p) ==
  /\ Alive(p)
  /\ acceptor[p].pc = "top"
  /\ acceptor' = [acceptor EXCEPT ![p].pc = IF IsClose(p) THEN "exit" ELSE "try1"]
  /\ UNCHANGED <<closer, idCounter, connMap, opener, carrier, newConnQueue,
                 session, live, acceptLog>>

(* A TryPop of newConnQueue.Pop finds a conn; on a closed mux the loop     *)
(* breaks, else connMap.Set(connection.connId, connection).                *)
AcceptPop(p) ==
  /\ Alive(p)
  /\ acceptor[p].pc \in TryPops
  /\ newConnQueue[p] # <<>>
  /\ LET c == Head(newConnQueue[p])
     IN IF IsClose(p)
          THEN /\ acceptor' = [acceptor EXCEPT ![p].pc = "exit"]
               /\ UNCHANGED connMap
          ELSE /\ connMap' = [connMap EXCEPT ![p] = MapSet(@, c.id, c)]
               /\ acceptor' = [acceptor EXCEPT ![p] = [pc |-> AcceptOrder[1],
                                                        conn |-> c]]
  /\ newConnQueue' = [newConnQueue EXCEPT ![p] = Tail(@)]
  /\ UNCHANGED <<closer, idCounter, opener, carrier, session, live, acceptLog>>

(* A TryPop of newConnQueue.Pop finds the chain empty.  Pop returns nil   *)
(* only after stop is set, when IsClose is set too, and the loop breaks.  *)
PopEmpty(p) ==
  /\ Alive(p)
  /\ acceptor[p].pc \in TryPops
  /\ newConnQueue[p] = <<>>
  /\ acceptor' = [acceptor EXCEPT ![p].pc =
                    IF @ \in {"try1", "try2"} /\ Stopped(p) THEN "exit"
                    ELSE AfterEmpty[@]]
  /\ UNCHANGED <<closer, idCounter, connMap, opener, carrier, newConnQueue,
                 session, live, acceptLog>>

\* Under cond.L, Pop reads stop: set, it returns nil and the loop breaks.
PopCheck(p) ==
  /\ Alive(p)
  /\ acceptor[p].pc = "check"
  /\ acceptor' = [acceptor EXCEPT ![p].pc = IF Stopped(p) THEN "exit" ELSE "wait"]
  /\ UNCHANGED <<closer, idCounter, connMap, opener, carrier, newConnQueue,
                 session, live, acceptLog>>

(* cond.Wait joins the notify list and releases the lock: a Broadcast     *)
(* from now on wakes it, one before it is lost.                           *)
PopWait(p) ==
  /\ Alive(p)
  /\ acceptor[p].pc = "wait"
  /\ acceptor' = [acceptor EXCEPT ![p].pc = "sleeping"]
  /\ UNCHANGED <<closer, idCounter, connMap, opener, carrier, newConnQueue,
                 session, live, acceptLog>>

(* newConnCh <- connection meets a caller of Accept; once Mux.Close has   *)
(* closed newConnCh, the send panics and takes the process down.          *)
AcceptHandoff(p) ==
  /\ Alive(p)
  /\ acceptor[p].pc = "handoff"
  /\ IF closer[p].newConnCh = "closed"
       THEN /\ acceptor' = [acceptor EXCEPT ![p].pc = "panic"]
            /\ UNCHANGED <<live, acceptLog>>
       ELSE /\ live' = [live EXCEPT ![p] = @ \cup {acceptor[p].conn}]
            /\ acceptLog' = [acceptLog EXCEPT ![p] = Append(@, acceptor[p].conn)]
            /\ acceptor' = [acceptor EXCEPT ![p].pc =
                              After(AcceptOrder, "handoff", "top")]
  /\ UNCHANGED <<closer, idCounter, connMap, opener, carrier, newConnQueue,
                 session>>

\* sendInfo(muxNewConnOk, connection.connId, nil), dropped on a closed mux.
AcceptSendOk(p) ==
  /\ Alive(p)
  /\ acceptor[p].pc = "sendOk"
  /\ LET c == acceptor[p].conn
     IN carrier' = [carrier EXCEPT ![p] = IF IsClose(p) THEN @ ELSE Append(@,
                     [flag |-> "muxNewConnOk", id |-> c.id, who |-> c.who,
                      seq |-> c.seq])]
  /\ acceptor' = [acceptor EXCEPT ![p].pc = After(AcceptOrder, "sendOk", "top")]
  /\ UNCHANGED <<closer, idCounter, connMap, opener, newConnQueue, session, live,
                 acceptLog>>

\* conn.Close of an accepted stream: closeProcess deletes its id.
CloseAccepted(p, c) ==
  /\ Alive(p)
  /\ c \in live[p]
  /\ live' = [live EXCEPT ![p] = @ \ {c}]
  /\ connMap' = [connMap EXCEPT ![p] = MapDelete(@, c.id)]
  /\ UNCHANGED <<closer, idCounter, opener, carrier, newConnQueue, acceptor, session,
                 acceptLog>>

-----------------------------------------------------------------------------
(* Mux.Close, by each goroutine k of Closers.  The IsClose test and its   *)
(* assignment are separate statements on an unsynchronised bool, so two   *)
(* callers can both pass the test.                                         *)

\* The steps of a caller of Mux.Close, "return" when it found IsClose set.
ClosePcs == {"run", "set", "chan", "newConnCh", "release", "done", "return",
             "panic"}

\* The closer state of mux p with caller k at pc.
CloserAt(p, k, pc) == [closer EXCEPT ![p].pc[k] = pc]

\* if s.IsClose { return }
CloseTest(p, k) ==
  /\ Alive(p)
  /\ p \in Closing
  /\ closer[p].pc[k] = "run"
  /\ closer' = CloserAt(p, k, IF IsClose(p) THEN "return" ELSE "set")
  /\ UNCHANGED <<idCounter, connMap, opener, carrier, newConnQueue, acceptor,
                 session, live, acceptLog>>

(* IsClose = true; connMap.Close closes every registered conn, and each    *)
(* closeProcess deletes its id (sending no CONN_CLOSE on a closed mux).    *)
(* The opener's select has no case for it: a NewConn in progress waits    *)
(* for its timer.                                                           *)
CloseSet(p, k) ==
  /\ Alive(p)
  /\ closer[p].pc[k] = "set"
  /\ closer' = [CloserAt(p, k, "chan") EXCEPT ![p].isClose = TRUE]
  /\ connMap' = [connMap EXCEPT ![p] = <<>>]
  /\ live' = [live EXCEPT ![p] = {}]
  /\ UNCHANGED <<idCounter, opener, carrier, newConnQueue, acceptor, session,
                 acceptLog>>

\* Bug: closeChan made without a buffer.
CloseChanBufferNone == 0
\* make(chan struct{}, 1)
CloseChanBuffer == 1

\* The ping receiver is parked in its select on an empty closeChan.
RecvParked(p) == closer[p].recv = "select" /\ closer[p].closeChan = 0

(* s.closeChan <- struct{}{}: handed to the ping receiver if it is parked *)
(* in its select (case <-s.closeChan: break, which leaves the select      *)
(* only, and the receiver loops); else put in the buffer if there is      *)
(* room; otherwise the send blocks.  The receiver enters the select only  *)
(* while IsClose is unset, before any token exists, so it never finds one *)
(* in the buffer.                                                          *)
CloseChanSend(p, k) ==
  /\ Alive(p)
  /\ closer[p].pc[k] = "chan"
  /\ RecvParked(p) \/ closer[p].closeChan < CloseChanBuffer
  /\ closer' = IF RecvParked(p)
                 THEN [CloserAt(p, k, "newConnCh") EXCEPT ![p].recv = "loop"]
                 ELSE [CloserAt(p, k, "newConnCh") EXCEPT ![p].closeChan = @ + 1]
  /\ UNCHANGED <<idCounter, connMap, opener, carrier, newConnQueue, acceptor,
                 session, live, acceptLog>>

\* close(s.newConnCh), which panics on a channel already closed.
CloseNewConnCh(p, k) ==
  /\ Alive(p)
  /\ closer[p].pc[k] = "newConnCh"
  /\ closer' = IF closer[p].newConnCh = "closed"
                 THEN CloserAt(p, k, "panic")
                 ELSE [CloserAt(p, k, "release") EXCEPT ![p].newConnCh = "closed"]
  /\ UNCHANGED <<idCounter, connMap, opener, carrier, newConnQueue, acceptor,
                 session, live, acceptLog>>

(* release: the TryPops that drain newConnQueue, then newConnQueue.Stop,   *)
(* which sets stop and calls cond.Broadcast without cond.L.                *)
MuxRelease(p, k) ==
  /\ Alive(p)
  /\ closer[p].pc[k] = "release"
  /\ closer' = [CloserAt(p, k, "done") EXCEPT ![p].stop = TRUE]
  /\ newConnQueue' = [newConnQueue EXCEPT ![p] = <<>>]
  /\ acceptor' = [acceptor EXCEPT ![p].pc = Woken(@)]
  /\ UNCHANGED <<idCounter, connMap, opener, carrier, session, live, acceptLog>>

(* The ping receiver goroutine: break on IsClose, else select on pingCh    *)
(* and closeChan (pings are left out here: a PING_RETURN only brings it    *)
(* back to the top of its loop).                                           *)
PingRecvTop(p) ==
  /\ Alive(p)
  /\ closer[p].recv = "loop"
  /\ closer' = [closer EXCEPT ![p].recv = IF IsClose(p) THEN "exit" ELSE "select"]
  /\ UNCHANGED <<idCounter, connMap, opener, carrier, newConnQueue, acceptor,
                 session, live, acceptLog>>

-----------------------------------------------------------------------------
Next ==
  \/ \E p \in Peers, i \in Openers :
       \/ NewConn(p, i) \/ GetIdWrap(p, i) \/ GetIdAdd(p, i)
       \/ OpenerSet(p, i) \/ OpenerSend(p, i) \/ OpenOk(p, i)
       \/ OpenTimer(p, i) \/ CloseOpened(p, i)
  \/ \E p \in Peers :
       \/ ReadNewConn(p) \/ ReadNewConnOk(p)
       \/ AcceptTop(p) \/ AcceptPop(p) \/ PopEmpty(p) \/ PopCheck(p)
       \/ PopWait(p) \/ AcceptHandoff(p) \/ AcceptSendOk(p)
       \/ \E c \in live[p] : CloseAccepted(p, c)
       \/ PingRecvTop(p)
       \/ \E k \in Closers :
            \/ CloseTest(p, k) \/ CloseSet(p, k) \/ CloseChanSend(p, k)
            \/ CloseNewConnCh(p, k) \/ MuxRelease(p, k)

(* Every goroutine step of the mux and of NewConn runs when it can; the    *)
(* timer of NewConn always fires after two minutes; the caller of Accept   *)
(* loops on it, as the accept loops of the tests and of the bridge do.     *)
(* The readSession's send on connStatusOkCh is met by NewConn's select     *)
(* whenever both are there (strong fairness).  Callers open and close      *)
(* streams, and call Close when they like: Close then runs to its end.    *)
Fairness ==
  /\ \A p \in Opening, i \in Openers :
       /\ WF_vars(GetIdWrap(p, i)) /\ WF_vars(GetIdAdd(p, i))
       /\ WF_vars(OpenerSet(p, i)) /\ WF_vars(OpenerSend(p, i))
       /\ SF_vars(OpenOk(p, i)) /\ WF_vars(OpenTimer(p, i))
  /\ \A p \in Peers :
       /\ WF_vars(ReadNewConn(p)) /\ WF_vars(ReadNewConnOk(p))
       /\ WF_vars(AcceptTop(p)) /\ WF_vars(AcceptPop(p))
       /\ WF_vars(PopEmpty(p)) /\ WF_vars(PopCheck(p)) /\ WF_vars(PopWait(p))
       /\ WF_vars(AcceptHandoff(p)) /\ WF_vars(AcceptSendOk(p))
  \* the steps of NewConn, of Close and of the ping receiver's loop are
  \* never enabled on the other muxes
  /\ \A p \in Closing :
       /\ WF_vars(PingRecvTop(p))
       /\ \A k \in Closers :
            /\ WF_vars(CloseSet(p, k)) /\ WF_vars(CloseChanSend(p, k))
            /\ WF_vars(CloseNewConnCh(p, k)) /\ WF_vars(MuxRelease(p, k))

Spec == Init /\ [][Next]_vars /\ Fairness

-----------------------------------------------------------------------------
TypeOK ==
  /\ idCounter \in [Peers -> 0..MaxId]
  /\ \A p \in Peers : connMap[p] \in [DOMAIN connMap[p] -> Conn]
  /\ opener \in [Peers -> [Openers ->
                 [pc : {"idle", "getId", "add", "set", "send", "wait", "open"},
                  id : 0..MaxId, seq : 0..MaxOpens]]]
  /\ carrier \in [Peers -> Seq(Frame)]
  /\ newConnQueue \in [Peers -> Seq(Conn)]
  /\ \A p \in Peers :
       acceptor[p] \in [pc : TryPops \cup {"top", "check", "wait", "sleeping",
                              "handoff", "sendOk", "exit", "panic"},
                        conn : Conn \cup {NoConn}]
  /\ closer \in [Peers -> [isClose : BOOLEAN, newConnCh : {"open", "closed"},
                           stop : BOOLEAN, closeChan : 0..1,
                           recv : {"loop", "select", "exit"},
                           pc : [Closers -> ClosePcs]]]
  /\ session \in [Peers -> Conn \cup {NoConn}]
  /\ live \in [Peers -> SUBSET Conn]
  /\ acceptLog \in [Peers -> Seq(Conn)]

(* Mux.Close never crashes the process: it closes newConnCh only when no  *)
(* goroutine can still send on it, so the accept goroutine never sends on  *)
(* the closed channel, and a second caller of Close never closes it again. *)
NeverPanics == \A p \in Peers : Alive(p)

(* Mux.Close returns: a caller that passed the IsClose test gets through  *)
(* the closeChan send, close(newConnCh) and release, even when the ping    *)
(* receiver has seen IsClose and left its loop without taking the token.   *)
CloseReturns ==
  \A p \in Closing, k \in Closers :
    closer[p].pc[k] = "set" ~> (closer[p].pc[k] = "done" \/ ~Alive(p))

(* Liveness of accept (spec 8.8): a NewConn that succeeded was accepted,   *)
(* exactly once, by a caller of Accept on the other mux, under the same   *)
(* id: the accept goroutine hands the conn over before NEW_CONN_OK.        *)
AcceptMatches ==
  \A p \in Peers, i \in Openers :
    opener[p][i].pc = "open" =>
      LET log == acceptLog[Other(p)]
      IN  Cardinality({k \in 1..Len(log) :
                        /\ log[k].who = i /\ log[k].seq = opener[p][i].seq
                        /\ log[k].id = opener[p][i].id}) = 1

(* NewConn registers its conn before it queues NEW_CONN ("it must be Set  *)
(* before send"): the readSession never drops a NEW_CONN_OK that answers   *)
(* a NewConn still in progress, but hands it to that NewConn's conn.      *)
OkReachesOpener ==
  [][\A p \in Peers :
       LET f == Head(carrier[Other(p)])
       IN  (/\ carrier[Other(p)] # <<>> /\ f.flag = "muxNewConnOk"
            /\ carrier'[Other(p)] = Tail(carrier[Other(p)])
            /\ opener[p][f.who].pc \in {"set", "send", "wait"}
            /\ opener[p][f.who].seq = f.seq)
           => session'[p] = OpenerConn(p, f.who)]_vars

(* The accept goroutine never sleeps through work: once it sleeps in      *)
(* connQueue.Pop's cond.Wait while a conn is queued (Push) or stop is set  *)
(* (Stop from Mux.Close's release), the Broadcast of that Push or Stop     *)
(* wakes it.  Both Broadcasts are made without cond.L.  A conn left      *)
(* queued is a NewConn that never gets NEW_CONN_OK (spec 4.3 and 8.8);    *)
(* a missed stop is an accept goroutine that outlives Mux.Close.           *)
AcceptWakes ==
  \A p \in Peers :
    acceptor[p].pc = "sleeping" /\ (newConnQueue[p] # <<>> \/ Stopped(p))
      ~> (acceptor[p].pc # "sleeping" \/ ~Alive(p))

(* The readSession, which serves the whole mux, never stays blocked        *)
(* sending NEW_CONN_OK on a conn's connStatusOkCh.                         *)
SessionNeverBlocked ==
  \A p \in Peers : session[p] # NoConn ~> session[p] = NoConn

-----------------------------------------------------------------------------
(* The attempts of the callers of NewConn on mux p, as StreamOpen sees    *)
(* them: pending from NewConn's start to its return, and the attempts the  *)
(* other mux handed to a caller of Accept.                                 *)
AttemptOf(p) ==
  [i \in Openers |->
     [state |-> CASE opener[p][i].pc = "idle" -> "idle"
                  [] opener[p][i].pc = "open" -> "open"
                  [] OTHER                    -> "pending",
      seq   |-> opener[p][i].seq]]

AcceptedOf(p) ==
  {[who |-> acceptLog[Other(p)][k].who, seq |-> acceptLog[Other(p)][k].seq] :
     k \in DOMAIN acceptLog[Other(p)]}

\* The mux the callers of NewConn use, in runs that open from one side.
Opener == CHOOSE p \in Opening : TRUE

Abstract == INSTANCE StreamOpen WITH attempt <- AttemptOf(Opener),
                                     accepted <- AcceptedOf(Opener)

(* NewConn and Accept keep their promise (StreamOpen) on the opening mux: *)
(* a NewConn returns a stream only for its own current attempt and only    *)
(* after the other mux accepted that attempt, whatever timers fired,       *)
(* however getId wrapped and whichever late NEW_CONN_OK reached connMap.   *)
OpenRefinement == Abstract!Spec
====
