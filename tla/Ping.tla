--------------------------------- MODULE Ping ---------------------------------
(***************************************************************************)
(* The two ping goroutines of a Mux (src/lib/nps_mux/mux.go, ping) and the *)
(* latencyCounter the receiver feeds.                                      *)
(*                                                                         *)
(* The prober sends a PING, then on every tick closes the mux when         *)
(* pingCheckTime exceeds pingCheckThreshold, or else sends another PING    *)
(* and adds one to pingCheckTime.  The peer answers each PING; the         *)
(* readSession reads the PING_RETURN and sends it on the unbuffered        *)
(* pingCh, and the receiver's select takes it (or the close token of       *)
(* closeChan), resets pingCheckTime and, when the RTT is positive, adds it *)
(* to the latencyCounter.  The result of the counter becomes the mux       *)
(* latency.  Mux.Close is the prober's, in one step (OpenAccept has its    *)
(* steps); the readSession's other frames are left out.                    *)
(*                                                                         *)
(* An RTT is a small natural number, not a float64, which is enough       *)
(* because the counter only compares RTTs, multiplies them by 3, and adds  *)
(* them up.  The latency is kept as the exact fraction sum / count.  When  *)
(* count is 0, the float division 0/0 gives NaN.  The ring has             *)
(* 2^CounterBits slots, and headMin is the uint8 word of the code.         *)
(***************************************************************************)
EXTENDS Naturals, FiniteSetsExt

CONSTANTS
  CounterBits,   \* counterBits (4 in the code)
  Threshold,     \* pingCheckThreshold (60 for tcp, 20 for kcp)
  RTTs,          \* the RTTs a PING_RETURN can yield, 0 for a clock step
  MaxReturns     \* bound: PING_RETURNs received

ASSUME /\ CounterBits \in 1..4
       /\ Threshold \in Nat
       /\ RTTs \subseteq Nat /\ RTTs # {}
       /\ MaxReturns \in Nat

CounterSize == 2 ^ CounterBits      \* len(buf)
CounterMask == CounterSize - 1      \* counterMask
Slots == 0..CounterMask
LossRatio == 3                      \* lossRatio

VARIABLES
  buf,             \* latencyCounter.buf
  headMin,         \* latencyCounter.headMin, a uint8 word
  latency,         \* Mux.latency: [sum, count], the value sum / count
  pingCheckTime,   \* Mux.pingCheckTime
  closed,          \* Mux.IsClose
  closeChan,       \* tokens in Mux.closeChan (capacity 1)
  proberPc,        \* "start" | "loop" | "done"
  receiverPc,      \* "top" | "select" | "exit"
  sessionPc,       \* readSession: "top" | "unpack" | "pingCh" | "exit"
  inFlight,        \* PINGs sent whose PING_RETURN the readSession has not read
  returns          \* bound: PING_RETURNs received so far

vars == <<buf, headMin, latency, pingCheckTime, closed, closeChan, proberPc,
          receiverPc, sessionPc, inFlight, returns>>

\* latencyCounter.unpack and pack on the uint8 word.
UnpackHead(w) == (w \div CounterSize) % CounterSize
UnpackMin(w) == w % CounterSize
Pack(head, min) == (head * CounterSize + (min % CounterSize)) % 256

(* latencyCounter.minimal: the loop over slots 0 .. counterMask-1 keeps   *)
(* the slot of a positive value smaller than val, starting from val = 0.  *)
RECURSIVE MinimalLoop(_, _, _, _)
MinimalLoop(b, i, val, min) ==
  IF i >= CounterMask THEN min
  ELSE IF b[i] > 0 /\ val > b[i] THEN MinimalLoop(b, i + 1, b[i], i)
  ELSE MinimalLoop(b, i + 1, val, min)

Minimal(b) == MinimalLoop(b, 0, 0, 0)

(* latencyCounter.add: store value at head; if it overwrote the minimum,  *)
(* look for a new one; a smaller value becomes the minimum; head + 1.     *)
Add(b, w, value) ==
  LET head == UnpackHead(w)
      b2   == [b EXCEPT ![head] = value]
      min1 == IF head = UnpackMin(w) THEN Minimal(b2) ELSE UnpackMin(w)
      min2 == IF b2[min1] > value THEN head ELSE min1
  IN <<b2, Pack(head + 1, min2)>>

(* latencyCounter.countSuccess: the mean of the positive values among     *)
(* slots 0 .. counterMask-1 that are at most lossRatio times buf[min].    *)
CountSuccess(b, w) ==
  LET min == UnpackMin(w)
      ok  == {i \in 0..(CounterMask - 1) : b[i] <= LossRatio * b[min] /\ b[i] > 0}
  IN [sum |-> MapThenSumSet(LAMBDA i : b[i], ok), count |-> Cardinality(ok)]

-----------------------------------------------------------------------------
Init ==
  /\ buf = [i \in Slots |-> 0]
  /\ headMin = 0
  /\ latency = [sum |-> 0, count |-> 1]
  /\ pingCheckTime = 0
  /\ closed = FALSE
  /\ closeChan = 0
  /\ proberPc = "start"
  /\ receiverPc = "top"
  /\ sessionPc = "top"
  /\ inFlight = 0
  /\ returns = 0

\* sendInfo(muxPingFlag, ...): nothing is sent once IsClose is set.
SendPing == IF closed THEN inFlight ELSE inFlight + 1

\* The first PING, sent before the ticker starts.
ProbeStart ==
  /\ proberPc = "start"
  /\ inFlight' = SendPing
  /\ proberPc' = "loop"
  /\ UNCHANGED <<buf, headMin, latency, pingCheckTime, closed, closeChan,
                 receiverPc, sessionPc, returns>>

(* A tick of the prober: after Close it leaves the loop; past the         *)
(* threshold it calls Mux.Close (IsClose, then a token on closeChan) and   *)
(* leaves; else it sends a PING and counts the miss.                       *)
ProbeTick ==
  /\ proberPc = "loop"
  /\ \/ /\ closed
        /\ proberPc' = "done"
        /\ UNCHANGED <<pingCheckTime, closed, closeChan, inFlight>>
     \/ /\ ~closed /\ pingCheckTime > Threshold
        /\ closed' = TRUE
        /\ closeChan' = 1
        /\ proberPc' = "done"
        /\ UNCHANGED <<pingCheckTime, inFlight>>
     \/ /\ ~closed /\ pingCheckTime <= Threshold
        /\ inFlight' = SendPing
        /\ pingCheckTime' = pingCheckTime + 1
        /\ UNCHANGED <<closed, closeChan, proberPc>>
  /\ UNCHANGED <<buf, headMin, latency, receiverPc, sessionPc, returns>>

\* The readSession's loop: return once IsClose is set, else UnPack.
SessionTop ==
  /\ sessionPc = "top"
  /\ sessionPc' = IF closed THEN "exit" ELSE "unpack"
  /\ UNCHANGED <<buf, headMin, latency, pingCheckTime, closed, closeChan,
                 proberPc, receiverPc, inFlight, returns>>

(* UnPack blocks until the peer's PING_RETURN arrives (the peer's          *)
(* readSession answers every PING with sendInfo(muxPingReturn, ...)); the *)
(* case muxPingReturn then sends it on the unbuffered pingCh.              *)
SessionUnpack ==
  /\ sessionPc = "unpack"
  /\ inFlight > 0
  /\ returns < MaxReturns
  /\ inFlight' = inFlight - 1
  /\ returns' = returns + 1
  /\ sessionPc' = "pingCh"
  /\ UNCHANGED <<buf, headMin, latency, pingCheckTime, closed, closeChan,
                 proberPc, receiverPc>>

\* The receiver's loop: break once IsClose is set, else enter the select.
RecvTop ==
  /\ receiverPc = "top"
  /\ receiverPc' = IF closed THEN "exit" ELSE "select"
  /\ UNCHANGED <<buf, headMin, latency, pingCheckTime, closed, closeChan,
                 proberPc, sessionPc, inFlight, returns>>

\* The RTT of a sample: a positive one goes into the latencyCounter.
Sample(rtt) ==
  IF rtt > 0
    THEN LET r == Add(buf, headMin, rtt)
         IN /\ buf' = r[1]
            /\ headMin' = r[2]
            /\ latency' = CountSuccess(r[1], r[2])
    ELSE UNCHANGED <<buf, headMin, latency>>

(* The select takes the PING_RETURN from pingCh (it may do so after Close *)
(* too, when closeChan is also ready), resets pingCheckTime and adds a    *)
(* positive RTT to the counter, storing the new latency.                  *)
Receive(rtt) ==
  /\ receiverPc = "select"
  /\ sessionPc = "pingCh"
  /\ pingCheckTime' = 0
  /\ Sample(rtt)
  /\ receiverPc' = "top"
  /\ sessionPc' = "top"
  /\ UNCHANGED <<closed, closeChan, proberPc, inFlight, returns>>

(* case <-s.closeChan: break leaves only the select.  data and now still  *)
(* hold the last PING_RETURN (or nothing), so the latency computed from   *)
(* them is the time since that PING, positive, and is added as a sample.  *)
RecvClose(rtt) ==
  /\ receiverPc = "select"
  /\ closeChan = 1
  /\ rtt > 0
  /\ closeChan' = 0
  /\ Sample(rtt)
  /\ receiverPc' = "top"
  /\ UNCHANGED <<pingCheckTime, closed, proberPc, sessionPc, inFlight, returns>>

Next ==
  \/ ProbeStart \/ ProbeTick \/ SessionTop \/ SessionUnpack \/ RecvTop
  \/ \E rtt \in RTTs : Receive(rtt) \/ RecvClose(rtt)

Spec == Init /\ [][Next]_vars

-----------------------------------------------------------------------------
\* The spec's latency: the mean of the ring's samples within 3 x min(ring).
Samples == {i \in Slots : buf[i] > 0}

SpecLatency ==
  LET m  == CHOOSE x \in {buf[i] : i \in Samples} : \A i \in Samples : x <= buf[i]
      ok == {i \in Samples : buf[i] <= LossRatio * m}
  IN [sum |-> MapThenSumSet(LAMBDA i : buf[i], ok), count |-> Cardinality(ok)]

(* Spec section 3: the recorded latency is the mean of the ring entries   *)
(* within 3 x min(ring).  The stored latency is a number (not NaN) equal  *)
(* to that mean once the ring holds a sample; countSuccess and minimal    *)
(* are what compute it.                                                   *)
LatencyMatchesSpec ==
  Samples # {} =>
    /\ latency.count > 0
    /\ latency.sum * SpecLatency.count = SpecLatency.sum * latency.count
====
