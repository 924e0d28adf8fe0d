---------------------------- MODULE FlowControl ----------------------------
(***************************************************************************)
(* Per-stream sliding-window flow control of nps_mux (src/lib/nps_mux),    *)
(* one direction of one stream: the caller of conn.Write on peer A, the    *)
(* sendWindow of A, the carrier A->B, the readSession of B feeding the     *)
(* receiveWindow and its receiveWindowQueue, the caller of conn.Read on B, *)
(* the MSG_SEND_OK frames on the carrier B->A and the readSession of A     *)
(* applying them with sendWindow.SetSize.                                  *)
(*                                                                         *)
(* Each CAS loop on a 64-bit window word is one atomic step.  The steps    *)
(* that the code performs after a CAS (pushing the element, emitting the   *)
(* window update, blocking in allow / allowPop) are separate steps, since  *)
(* other goroutines run between them.  The two carriers are FIFO: all the *)
(* frames of one stream travel in the lowest class of the priorityQueue    *)
(* behind the single writeSession goroutine of each mux.                   *)
(*                                                                         *)
(* Bytes are counted, not carried: a frame is its flag and its length.     *)
(***************************************************************************)
EXTENDS Integers, Sequences, SequencesExt, Codec

CONSTANTS
  MSS,           \* maximumSegmentSize (4085 bytes in the code)
  StreamId,      \* the id of the stream on both muxes
  InitWindow,    \* initial maxSize of both windows (maximumSegmentSize*30)
  WriteSizes,    \* lengths of the buffers callers pass to conn.Write
  ReadSizes,     \* lengths of the buffers callers pass to conn.Read
  MaxBytes,      \* bound: total bytes the writer places on the carrier
  CalcPeriod,    \* calcSize recomputes on every CalcPeriod-th Write (10)
  Candidates,    \* BDP estimates n: latency*(muxBw+connBw) or latency gain
  Limits,        \* maximumWindowSize*connBw/(muxBw+connBw), or NoLimit
  NoLimit,       \* no limit: a bandwidth is not measured yet
  WriteDeadline, \* TRUE when a write deadline may expire in waitReceiveWindow
  StreamClose    \* TRUE when the caller on A may call conn.Close

ASSUME /\ MSS \in Nat \ {0}
       /\ StreamId \in 1..(2^16)
       /\ InitWindow \in Nat \ {0}
       /\ WriteSizes \subseteq Nat \ {0}
       /\ ReadSizes \subseteq Nat \ {0}
       /\ MaxBytes \in Nat
       /\ CalcPeriod \in Nat \ {0}
       /\ Candidates \subseteq Nat
       /\ Limits \subseteq Nat \cup {NoLimit}
       /\ WriteDeadline \in BOOLEAN
       /\ StreamClose \in BOOLEAN

VARIABLES
  sendWindow,     \* sendWindow.maxSizeDone: [maxSize, done (= sent), wait]
  writerPc,       \* caller of conn.Write: "idle" | "segment" | "wait"
  sendBuf,        \* bytes of the mounted buffer not yet segmented
  toB,            \* carrier A -> B: the bytes of each NEW_MSG / NEW_MSG_PART
                  \* / CONN_CLOSE frame muxPackager.Pack wrote (Codec)
  toA,            \* carrier B -> A: MSG_SEND_OK frames (window words)
  aSession,       \* readSession of A: "idle" | "allow" (blocked in allow)
  receiveWindow,  \* receiveWindow.maxSizeDone: [maxSize, done (= read), wait]
  count,          \* receiveWindow.count, calcSize period counter
  bufQueue,       \* receiveWindowQueue chain: listElements [L, Part]
  lengthWait,     \* receiveWindowQueue.lengthWait: [length, wait]
  bSession,       \* readSession of B: "idle" | "push" | "allowPop"
  bElement,       \* listElement B's readSession holds between CAS and Push
  bAck,           \* window update B's readSession emits after Push (<<>> or one)
  readerPc,       \* caller of conn.Read: "idle" | "copy" | "pop" | "waitPush" | "status"
  pLeft,          \* room left in the caller's buffer p
  element,        \* receiveWindow.element being drained
  off,            \* receiveWindow.off into element
  readerAck,      \* window update sendStatus emits after its CAS
  sentTotal,      \* history: bytes placed on the carrier by WriteTo
  delivered,      \* history: bytes copied into callers' buffers
  aClose,         \* A's conn: "open" | "closing" (isClose, deleted, CONN_CLOSE
                  \* queued) | "closed" (sendWindow.closeOp, two closeOpCh tokens)
  stopped,        \* B's receiveWindow.once has run bufQueue.Stop
  stopTokens,     \* tokens in B's receiveWindowQueue.stopOp (capacity 2)
  bClosed,        \* B's receiveWindow.closeOp (CloseWindow after EOF)
  stopMark        \* history: bytes B's readSession had received at Stop

vars == <<sendWindow, writerPc, sendBuf, toB, toA, aSession, receiveWindow,
          count, bufQueue, lengthWait, bSession, bElement, bAck, readerPc,
          pLeft, element, off, readerAck, sentTotal, delivered, aClose,
          stopped, stopTokens, bClosed, stopMark>>
closeVars == <<aClose, stopped, stopTokens, bClosed, stopMark>>

-----------------------------------------------------------------------------
Window == [maxSize : Nat, done : Nat, wait : BOOLEAN]
Ack == [maxSize : Nat, read : Nat]
Frame == [flag : {"muxNewMsg", "muxNewMsgPart", "muxConnClose"}, length : Nat]
IsData(f) == f.flag # "muxConnClose"
ListElement == [L : Nat, Part : BOOLEAN]

Lesser(a, b) == IF a < b THEN a ELSE b

\* Sum of the read fields of a sequence of window updates.
AckedBytes(s) == FoldLeft(LAMBDA acc, a : acc + a.read, 0, s)

\* Sum of the lengths of a sequence of data frames.
FrameBytes(s) == FoldLeft(LAMBDA acc, f : acc + f.length, 0, s)

\* receiveWindow.remainingSize: room left once delta more bytes are queued.
RecvRemaining(maxSize, length, delta) ==
  IF maxSize - length - delta > 0 THEN maxSize - length - delta ELSE 0

\* sendWindow.remainingSize: credit left to the sender.
SendRemaining(maxSize, send) ==
  IF maxSize - send > 0 THEN maxSize - send ELSE 0

(***************************************************************************)
(* receiveWindow.calcSize, the body of the CAS loop: from the BDP estimate *)
(* n (already past the latency gain), the current size and the bytes      *)
(* queued.  ra > 0.8 is 5*rem > 4*size; n*1.5625*ra*ra truncated to an    *)
(* integer is n*25*rem^2 \div (16*size^2).                                 *)
(***************************************************************************)
CalcSize(size, length, cand, limit) ==
  LET n1  == IF cand < InitWindow THEN InitWindow ELSE cand
      rem == RecvRemaining(size, length, 0)
      n2  == IF 5 * rem > 4 * size
               THEN (n1 * 25 * rem * rem) \div (16 * size * size)
               ELSE n1
      n3  == IF n2 < size \div 2 THEN size \div 2 ELSE n2
      n4  == IF n3 > 2 * size
               THEN IF size = InitWindow THEN Lesser(n3, 6 * size) ELSE 2 * size
               ELSE n3
  IN  IF limit # NoLimit /\ n4 > limit THEN limit ELSE n4

(* Decisions of the code, one operator each.  The operator before each is *)
(* a plausible bug in that line, used to validate the properties.          *)

\* Bug: copy the rest of the element without bounding it by p.
CopyLengthUnbounded(room, elem, offset) == elem.L - offset
\* readFromQueue: copy(p[pOff:], element.Buf[off:element.L]).
CopyLength(room, elem, offset) == Lesser(room, elem.L - offset)

\* Bug (the wording of the spec): announce the new size with read = 0.
WriteStatusZero(w, size) == <<[maxSize |-> size, read |-> 0]>>
\* receiveWindow.Write: the window update sent after the push carries the
\* read count the CAS has just reset.
WriteStatus(w, size) == <<[maxSize |-> size, read |-> w.done]>>

\* Bug: keep the wait bit whatever credit the update brings.
NewWaitKept(maxSize, send, wait) == wait
\* SetSize: wait stays set only while there is still no credit.
NewWait(maxSize, send, wait) == SendRemaining(maxSize, send) = 0 /\ wait

\* Bug: call allow whenever the update leaves credit.
WakesWriterUnguarded(wasWaiting, newWait) == ~newWait
\* SetSize: allow() only when the wait bit goes from set to clear.
WakesWriter(wasWaiting, newWait) == wasWaiting /\ ~newWait

\* Bug: never hand readOp to a waiting Pop.
PushWakesNever(lw) == FALSE
\* receiveWindowQueue.Push: allowPop when Pop had set wait.
PushWakes(lw) == lw.wait = 1

\* Bug: Pop gives up on the queue as soon as the stop signal is there.
PopWaitsOnStop(lw) == lw.length = 0 \/ stopTokens > 0
\* receiveWindowQueue.Pop: wait (for a push or the stop) only when empty.
PopWaits(lw) == lw.length = 0

\* Bug: Stop sends a single token on stopOp.
StopTokensOne == 1
\* receiveWindowQueue.Stop: two sends on stopOp, one for waitPush and one
\* for an allowPop racing it.
StopTokens == 2

\* sendStatus: when the read bytes are reported to the sender.
StatusDue(w, read, remain) ==
  \/ w.wait /\ remain > 0
  \/ read >= w.maxSize \div 2
  \/ remain = w.maxSize

\* The sizes receiveWindow.Write may run with: calcSize runs when count = 0.
NewSizes ==
  IF count = 0
    THEN {CalcSize(receiveWindow.maxSize, lengthWait.length, c, l) :
            c \in Candidates, l \in Limits}
    ELSE {receiveWindow.maxSize}

\* sendWindow.New and receiveWindow.New: maxSize the initial window, nothing
\* sent or read, no waiter.
NewSendWindow == [maxSize |-> InitWindow, done |-> 0, wait |-> FALSE]
NewReceiveWindow == [maxSize |-> InitWindow, done |-> 0, wait |-> FALSE]

\* newReceiveWindowQueue: an empty chain, lengthWait 0.
NewQueueWord == [length |-> 0, wait |-> 0]

\* sendWindow.sent: add the segment to the sent field of the window word.
\* Its retry on a 31-bit overflow is never taken with MaxBytes bytes.
Sent(w, n) == [w EXCEPT !.done = @ + n]

\* WriteFull: a segment shorter than what is left of the buffer (WriteTo's
\* part) goes out as NEW_MSG_PART, the last one as NEW_MSG.
SegmentFlag(size, rest) == IF size < rest THEN "muxNewMsgPart" ELSE "muxNewMsg"

-----------------------------------------------------------------------------
Init ==
  /\ sendWindow = NewSendWindow
  /\ writerPc = "idle"
  /\ sendBuf = 0
  /\ toB = <<>>
  /\ toA = <<>>
  /\ aSession = "idle"
  /\ receiveWindow = NewReceiveWindow
  /\ count = 0
  /\ bufQueue = <<>>
  /\ lengthWait = NewQueueWord
  /\ bSession = "idle"
  /\ bElement = [L |-> 0, Part |-> FALSE]
  /\ bAck = <<>>
  /\ readerPc = "idle"
  /\ pLeft = 0
  /\ element = [L |-> 0, Part |-> FALSE]
  /\ off = 0
  /\ readerAck = <<>>
  /\ sentTotal = 0
  /\ delivered = 0
  /\ aClose = "open"
  /\ stopped = FALSE
  /\ stopTokens = 0
  /\ bClosed = FALSE
  /\ stopMark = 0

-----------------------------------------------------------------------------
(* Peer A: the writer and the readSession applying window updates.         *)

(* conn.Write -> WriteFull: mount buf in the send window (SetSendBuf).   *)
(* Write on a closed conn (isClose) returns an error at once.              *)
Write(n) ==
  /\ writerPc = "idle"
  /\ aClose = "open"
  /\ sentTotal + n <= MaxBytes
  /\ writerPc' = "segment"
  /\ sendBuf' = n
  /\ UNCHANGED <<closeVars, sendWindow, toB, toA, aSession, receiveWindow, count,
                 bufQueue, lengthWait, bSession, bElement, bAck, readerPc,
                 pLeft, element, off, readerAck, sentTotal, delivered>>

(* One WriteTo call and the sendInfo after it: with no credit, set the     *)
(* wait bit and block; otherwise carve min(MSS, rest, credit) bytes, add   *)
(* them to sent and queue NEW_MSG_PART, or NEW_MSG for the last segment.   *)
(* WriteFull returns when the buffer is drained (WriteTo returns EOF).     *)
WriteTo ==
  /\ writerPc = "segment"
  /\ aClose # "closed"
  /\ LET remain == SendRemaining(sendWindow.maxSize, sendWindow.done)
         size   == Lesser(Lesser(sendBuf, MSS), remain)
     IN \/ /\ remain = 0
           /\ sendWindow' = [sendWindow EXCEPT !.wait = TRUE]
           /\ writerPc' = "wait"
           /\ UNCHANGED <<closeVars, sendBuf, toB, sentTotal>>
        \/ /\ remain > 0
           /\ sendWindow' = Sent(sendWindow, size)
           /\ toB' = Append(toB, Pack(SegmentFlag(size, sendBuf), StreamId,
                                       size, MSS))
           /\ sendBuf' = sendBuf - size
           /\ sentTotal' = sentTotal + size
           /\ writerPc' = IF sendBuf = size THEN "idle" ELSE "segment"
  /\ UNCHANGED <<closeVars, toA, aSession, receiveWindow, count, bufQueue, lengthWait,
                 bSession, bElement, bAck, readerPc, pLeft, element, off,
                 readerAck, delivered>>

\* allow() hands the token on setSizeCh to waitReceiveWindow (rendezvous).
WriteWake ==
  /\ writerPc = "wait"
  /\ aSession = "allow"
  /\ writerPc' = "segment"
  /\ aSession' = "idle"
  /\ UNCHANGED <<closeVars, sendWindow, sendBuf, toB, toA, receiveWindow, count,
                 bufQueue, lengthWait, bSession, bElement, bAck, readerPc,
                 pLeft, element, off, readerAck, sentTotal, delivered>>

\* The write deadline fires in waitReceiveWindow: Write returns an error
\* and the wait bit it set stays in the window word.
WriteTimeout ==
  /\ WriteDeadline
  /\ writerPc = "wait"
  /\ writerPc' = "idle"
  /\ sendBuf' = 0
  /\ UNCHANGED <<closeVars, sendWindow, toB, toA, aSession, receiveWindow, count,
                 bufQueue, lengthWait, bSession, bElement, bAck, readerPc,
                 pLeft, element, off, readerAck, sentTotal, delivered>>

(* WriteTo finds closeOp set, or waitReceiveWindow takes a closeOpCh      *)
(* token or finds setSizeCh closed: WriteFull returns the error.          *)
WriteClosed ==
  /\ writerPc \in {"segment", "wait"}
  /\ aClose = "closed"
  /\ writerPc' = "idle"
  /\ sendBuf' = 0
  /\ UNCHANGED <<closeVars, sendWindow, toB, toA, aSession, receiveWindow, count,
                 bufQueue, lengthWait, bSession, bElement, bAck, readerPc,
                 pLeft, element, off, readerAck, sentTotal, delivered>>

(* readSession of A on MSG_SEND_OK: sendWindow.SetSize.  A window update   *)
(* acknowledging more than was sent is logged and dropped; one that reads  *)
(* nothing and keeps the size changes nothing.  Otherwise sent := sent -   *)
(* read and maxSize := the remote size, keeping wait only while there is   *)
(* still no credit; clearing it calls allow(), which blocks readSession.   *)
SetSize ==
  /\ aSession = "idle"
  /\ aClose = "open"
  /\ toA # <<>>
  /\ LET w    == Head(toA)
         send == sendWindow.done - w.read
         newWait == NewWait(w.maxSize, send, sendWindow.wait)
     IN /\ toA' = Tail(toA)
        /\ IF w.read > sendWindow.done
              \/ (w.read = 0 /\ w.maxSize = sendWindow.maxSize)
             THEN UNCHANGED <<closeVars, sendWindow, aSession>>
             ELSE /\ sendWindow' = [maxSize |-> w.maxSize, done |-> send,
                                    wait |-> newWait]
                  /\ aSession' = IF WakesWriter(sendWindow.wait, newWait)
                                   THEN "allow" ELSE "idle"
  /\ UNCHANGED <<closeVars, writerPc, sendBuf, toB, receiveWindow, count, bufQueue,
                 lengthWait, bSession, bElement, bAck, readerPc, pLeft,
                 element, off, readerAck, sentTotal, delivered>>

(* readSession of A on a MSG_SEND_OK for a conn that closeProcess has    *)
(* deleted from connMap, or that isClose marks: the update is dropped.    *)
SetSizeDropped ==
  /\ aSession = "idle"
  /\ aClose # "open"
  /\ toA # <<>>
  /\ toA' = Tail(toA)
  /\ UNCHANGED <<closeVars, sendWindow, writerPc, sendBuf, toB, aSession,
                 receiveWindow, count, bufQueue, lengthWait, bSession,
                 bElement, bAck, readerPc, pLeft, element, off, readerAck,
                 sentTotal, delivered>>

\* allow() takes a closeOpCh token: it closes setSizeCh and returns.
AllowClosed ==
  /\ aSession = "allow"
  /\ aClose = "closed"
  /\ aSession' = "idle"
  /\ UNCHANGED <<closeVars, sendWindow, writerPc, sendBuf, toB, toA,
                 receiveWindow, count, bufQueue, lengthWait, bSession,
                 bElement, bAck, readerPc, pLeft, element, off, readerAck,
                 sentTotal, delivered>>

(* conn.Close -> closeProcess, up to the sendInfo: isClose, delete from    *)
(* connMap, queue CONN_CLOSE behind the data already queued.               *)
CloseStart ==
  /\ StreamClose
  /\ aClose = "open"
  /\ aClose' = "closing"
  /\ toB' = Append(toB, Pack("muxConnClose", StreamId, 0, MSS))
  /\ UNCHANGED <<stopped, stopTokens, bClosed, stopMark, sendWindow, writerPc,
                 sendBuf, toA, aSession, receiveWindow, count, bufQueue,
                 lengthWait, bSession, bElement, bAck, readerPc, pLeft,
                 element, off, readerAck, sentTotal, delivered>>

(* The rest of closeProcess: sendWindow.CloseWindow sets closeOp and      *)
(* puts two tokens on closeOpCh, one for allow and one for                 *)
(* waitReceiveWindow (the only two that can wait on it).  A WriteTo of a  *)
(* concurrent Write may run in between and queue data behind CONN_CLOSE. *)
CloseWindows ==
  /\ aClose = "closing"
  /\ aClose' = "closed"
  /\ UNCHANGED <<stopped, stopTokens, bClosed, stopMark, sendWindow, writerPc,
                 sendBuf, toB, toA, aSession, receiveWindow, count, bufQueue,
                 lengthWait, bSession, bElement, bAck, readerPc, pLeft,
                 element, off, readerAck, sentTotal, delivered>>

-----------------------------------------------------------------------------
(* Peer B: the readSession feeding the receive window.                     *)

(* The readSession of B runs pack.UnPack on the carrier: it blocks in     *)
(* io.ReadFull until the whole frame is there, and the frame must end      *)
(* where the bytes of the next Pack begin.  The sender never writes a      *)
(* length above MSS, so UnPack's error path (close the mux) is not taken.  *)
(* Every string on the carrier is one the Pack calls of peer A write, so  *)
(* UnPack is evaluated once per such string, as a table.                  *)
PackedFrames ==
  {Pack(f, StreamId, n, MSS) :
     f \in {"muxNewMsg", "muxNewMsgPart", "muxConnClose"}, n \in 0..MSS}
UnPackOf == [s \in PackedFrames |-> UnPack(s, MSS)]
Incoming == UnPackOf[Head(toB)]
FrameReady ==
  toB # <<>> /\ Incoming.complete /\ Incoming.ok
  /\ Incoming.size = Len(Head(toB))
\* The carrier once UnPack has consumed the frame.
AfterFrame == Tail(toB)
\* The frames on the carrier, decoded.
Decoded == [i \in 1..Len(toB) |-> LET f == UnPackOf[toB[i]]
                                 IN [flag |-> f.flag, length |-> f.length]]
\* connMap.Get(pack.id) finds the stream.
ForStream == Incoming.id = StreamId

(* readSession of B on NEW_MSG / NEW_MSG_PART -> newMsg -> receiveWindow.  *)
(* Write, up to the push: calcSize, then the CAS on the window word.  If   *)
(* the element fills the window and the sender was not told yet, set wait  *)
(* and stay silent; if there is room, reset read and keep a window update  *)
(* carrying the read bytes for after the push; if wait is set, keep it.   *)
RecvMsg ==
  /\ bSession = "idle"
  /\ FrameReady
  /\ IsData(Incoming) /\ ForStream
  /\ ~bClosed
  /\ LET f == Incoming
         w == receiveWindow
     IN /\ toB' = AfterFrame
        /\ count' = (count + 1) % CalcPeriod
        /\ bElement' = [L |-> f.length, Part |-> f.flag = "muxNewMsgPart"]
        /\ bSession' = "push"
        /\ \E size \in NewSizes :
             LET remain == RecvRemaining(size, lengthWait.length, f.length)
             IN \/ /\ remain = 0 /\ ~w.wait
                   /\ receiveWindow' = [maxSize |-> size, done |-> w.done,
                                        wait |-> TRUE]
                   /\ bAck' = <<>>
                \/ /\ remain > 0 /\ ~w.wait
                   /\ receiveWindow' = [maxSize |-> size, done |-> 0,
                                        wait |-> FALSE]
                   /\ bAck' = WriteStatus(w, size)
                \/ /\ w.wait
                   /\ receiveWindow' = [w EXCEPT !.maxSize = size]
                   /\ bAck' = <<>>
  /\ UNCHANGED <<closeVars, sendWindow, writerPc, sendBuf, toA, aSession, bufQueue,
                 lengthWait, readerPc, pLeft, element, off, readerAck,
                 sentTotal, delivered>>

(* readSession of B on data for a conn whose receive window is closed     *)
(* (closeOp after EOF, then isClose and no longer in connMap), or for an  *)
(* id connMap does not know: Write fails or the frame is dropped before   *)
(* calcSize.                                                               *)
RecvDropped ==
  /\ bSession = "idle"
  /\ FrameReady
  /\ IsData(Incoming)
  /\ bClosed \/ ~ForStream
  /\ toB' = AfterFrame
  /\ UNCHANGED <<closeVars, sendWindow, writerPc, sendBuf, toA, aSession,
                 receiveWindow, count, bufQueue, lengthWait, bSession,
                 bElement, bAck, readerPc, pLeft, element, off, readerAck,
                 sentTotal, delivered>>

(* readSession of B on CONN_CLOSE: closingFlag and receiveWindow.Stop,    *)
(* whose once runs receiveWindowQueue.Stop: StopTokens sends on stopOp.   *)
(* A conn already closed on B, or an id connMap does not know, gets       *)
(* nothing (once has run, or the conn is gone from connMap).              *)
RecvClose ==
  /\ bSession = "idle"
  /\ FrameReady
  /\ ~IsData(Incoming)
  /\ toB' = AfterFrame
  /\ IF stopped \/ ~ForStream
       THEN UNCHANGED <<stopped, stopTokens, stopMark>>
       ELSE /\ stopped' = TRUE
            /\ stopTokens' = StopTokens
            /\ stopMark' = sentTotal - FrameBytes(Decoded)
  /\ UNCHANGED <<aClose, bClosed, sendWindow, writerPc, sendBuf, toA,
                 aSession, receiveWindow, count, bufQueue, lengthWait,
                 bSession, bElement, bAck, readerPc, pLeft, element, off,
                 readerAck, sentTotal, delivered>>

(* receiveWindowQueue.Push: add the length and clear wait in lengthWait,   *)
(* pushHead; if a Pop was waiting, allowPop blocks until it takes the      *)
(* token; otherwise Write ends by emitting its window update.              *)
Push ==
  /\ bSession = "push"
  /\ bufQueue' = Append(bufQueue, bElement)
  /\ lengthWait' = [length |-> lengthWait.length + bElement.L, wait |-> 0]
  /\ \/ /\ PushWakes(lengthWait)
        /\ bSession' = "allowPop"
        /\ UNCHANGED <<closeVars, toA, bAck>>
     \/ /\ ~PushWakes(lengthWait)
        /\ bSession' = "idle"
        /\ toA' = toA \o bAck
        /\ bAck' = <<>>
  /\ UNCHANGED <<closeVars, sendWindow, writerPc, sendBuf, toB, aSession, receiveWindow,
                 count, bElement, readerPc, pLeft, element, off, readerAck,
                 sentTotal, delivered>>

\* allowPop hands readOp to the waitPush of the reader (rendezvous); then
\* Write emits its window update.
PopWake ==
  /\ bSession = "allowPop"
  /\ readerPc = "waitPush"
  /\ bSession' = "idle"
  /\ readerPc' = "pop"
  /\ toA' = toA \o bAck
  /\ bAck' = <<>>
  /\ UNCHANGED <<closeVars, sendWindow, writerPc, sendBuf, toB, aSession, receiveWindow,
                 count, bufQueue, lengthWait, bElement, pLeft, element, off,
                 readerAck, sentTotal, delivered>>

\* allowPop takes a token from stopOp instead; Write then emits its update.
PushStopped ==
  /\ bSession = "allowPop"
  /\ stopTokens > 0
  /\ stopTokens' = stopTokens - 1
  /\ bSession' = "idle"
  /\ toA' = toA \o bAck
  /\ bAck' = <<>>
  /\ UNCHANGED <<aClose, stopped, bClosed, stopMark, sendWindow, writerPc,
                 sendBuf, toB, aSession, receiveWindow, count, bufQueue,
                 lengthWait, bElement, readerPc, pLeft, element, off,
                 readerAck, sentTotal, delivered>>

-----------------------------------------------------------------------------
(* Peer B: the caller of conn.Read.                                        *)

\* conn.Read(p) -> receiveWindow.Read -> readFromQueue.
Read(p) ==
  /\ readerPc = "idle"
  /\ readerPc' = "copy"
  /\ pLeft' = p
  /\ UNCHANGED <<closeVars, sendWindow, writerPc, sendBuf, toB, toA, aSession,
                 receiveWindow, count, bufQueue, lengthWait, bSession,
                 bElement, bAck, element, off, readerAck, sentTotal,
                 delivered>>

(* The element is drained: receiveWindowQueue.Pop.  With nothing queued,   *)
(* set wait in lengthWait and block in waitPush; otherwise TryPop the      *)
(* oldest element and take its length off lengthWait.                      *)
ReadPop ==
  /\ \/ readerPc = "copy" /\ off = element.L
     \/ readerPc = "pop"
  /\ \/ /\ PopWaits(lengthWait)
        /\ lengthWait' = [lengthWait EXCEPT !.wait = 1]
        /\ readerPc' = "waitPush"
        /\ UNCHANGED <<closeVars, bufQueue, element, off>>
     \/ /\ ~PopWaits(lengthWait)
        /\ element' = Head(bufQueue)
        /\ bufQueue' = Tail(bufQueue)
        /\ lengthWait' = [lengthWait EXCEPT !.length = @ - Head(bufQueue).L]
        /\ off' = 0
        /\ readerPc' = "copy"
  /\ UNCHANGED <<closeVars, sendWindow, writerPc, sendBuf, toB, toA, aSession,
                 receiveWindow, count, bSession, bElement, bAck, pLeft,
                 readerAck, sentTotal, delivered>>

(* waitPush takes a token from stopOp: Pop fails with EOF, and            *)
(* readFromQueue calls CloseWindow: closeOp, Stop (once, already run) and *)
(* release, which TryPops every queued element.  The caller of Read gets  *)
(* EOF and closes the conn; the reader is done.                           *)
ReadEOF ==
  /\ readerPc = "waitPush"
  /\ stopTokens > 0
  /\ stopTokens' = stopTokens - 1
  /\ readerPc' = "eof"
  /\ bClosed' = TRUE
  /\ bufQueue' = <<>>
  /\ lengthWait' = [lengthWait EXCEPT !.length = 0]
  /\ UNCHANGED <<aClose, stopped, stopMark, sendWindow, writerPc, sendBuf,
                 toB, toA, aSession, receiveWindow, count, bSession,
                 bElement, bAck, pLeft, element, off, readerAck, sentTotal,
                 delivered>>

(* Where readFromQueue goes after a copy: on to the next element while the *)
(* element is a part of a longer write and p still has room.               *)
AfterCopy(room) == IF room > 0 /\ element.Part THEN "copy" ELSE "idle"

(* Copy from the element into p.  When the element is drained, sendStatus: *)
(* add its length to read and, if the sender waits and there is room, or  *)
(* read reached half the window, or the queue is empty, reset read and    *)
(* wait and emit the window update; else only record read.                 *)
ReadCopy ==
  /\ readerPc = "copy"
  /\ off < element.L
  /\ LET l      == CopyLength(pLeft, element, off)
         w      == receiveWindow
         read   == w.done + element.L
         remain == RecvRemaining(w.maxSize, lengthWait.length, 0)
     IN /\ off' = off + l
        /\ pLeft' = pLeft - l
        /\ delivered' = delivered + l
        /\ \/ /\ off + l < element.L
              /\ readerPc' = "idle"
              /\ UNCHANGED <<closeVars, receiveWindow, readerAck>>
           \/ /\ off + l = element.L
              /\ StatusDue(w, read, remain)
              /\ receiveWindow' = [maxSize |-> w.maxSize, done |-> 0,
                                   wait |-> FALSE]
              /\ readerAck' = <<[maxSize |-> w.maxSize, read |-> read]>>
              /\ readerPc' = "status"
           \/ /\ off + l = element.L
              /\ ~StatusDue(w, read, remain)
              /\ receiveWindow' = [w EXCEPT !.done = read]
              /\ readerPc' = AfterCopy(pLeft - l)
              /\ UNCHANGED readerAck
  /\ UNCHANGED <<closeVars, sendWindow, writerPc, sendBuf, toB, toA, aSession, count,
                 bufQueue, lengthWait, bSession, bElement, bAck, element,
                 sentTotal>>

\* The sendInfo at the end of sendStatus, then readFromQueue goes on.
ReadStatus ==
  /\ readerPc = "status"
  /\ toA' = toA \o readerAck
  /\ readerAck' = <<>>
  /\ readerPc' = AfterCopy(pLeft)
  /\ UNCHANGED <<closeVars, sendWindow, writerPc, sendBuf, toB, aSession, receiveWindow,
                 count, bufQueue, lengthWait, bSession, bElement, bAck, pLeft,
                 element, off, sentTotal, delivered>>

-----------------------------------------------------------------------------
Next ==
  \/ \E n \in WriteSizes : Write(n)
  \/ WriteTo
  \/ WriteWake
  \/ WriteTimeout
  \/ WriteClosed
  \/ SetSize
  \/ SetSizeDropped
  \/ AllowClosed
  \/ CloseStart
  \/ CloseWindows
  \/ RecvMsg
  \/ RecvDropped
  \/ RecvClose
  \/ Push
  \/ PopWake
  \/ PushStopped
  \/ \E p \in ReadSizes : Read(p)
  \/ ReadPop
  \/ ReadEOF
  \/ ReadCopy
  \/ ReadStatus

(* The goroutines of the mux (both readSessions, writeSession, the writer  *)
(* inside WriteFull, the reader inside readFromQueue) run when they can.   *)
(* The reader keeps calling Read, as the copy loops of lib/goroutine do;   *)
(* the writer may stop writing at any time, so Write is not fair.  A       *)
(* select that finds the token of allow / allowPop ready takes it, so a    *)
(* rendezvous offered again and again happens (strong fairness), and so   *)
(* does a select that finds a stopOp token.  Closing the stream is the     *)
(* caller's choice and not fair; once closeProcess has begun it runs on.   *)
Fairness ==
  /\ WF_vars(WriteTo)
  /\ SF_vars(WriteWake)
  /\ WF_vars(WriteClosed)
  /\ WF_vars(SetSize)
  /\ WF_vars(SetSizeDropped)
  /\ WF_vars(AllowClosed)
  /\ WF_vars(CloseWindows)
  /\ WF_vars(RecvMsg \/ RecvDropped \/ RecvClose)
  /\ WF_vars(Push)
  /\ SF_vars(PopWake)
  /\ SF_vars(PushStopped)
  /\ SF_vars(ReadEOF)
  /\ WF_vars(\E p \in ReadSizes : Read(p))
  /\ WF_vars(ReadPop)
  /\ WF_vars(ReadCopy)
  /\ WF_vars(ReadStatus)

Spec == Init /\ [][Next]_vars /\ Fairness

-----------------------------------------------------------------------------
TypeOK ==
  /\ sendWindow \in Window
  /\ receiveWindow \in Window
  /\ writerPc \in {"idle", "segment", "wait"}
  /\ sendBuf \in Nat
  /\ toB \in Seq(Seq(0..255))
  /\ Decoded \in Seq(Frame)
  /\ toA \in Seq(Ack)
  /\ aSession \in {"idle", "allow"}
  /\ count \in 0..(CalcPeriod - 1)
  /\ bufQueue \in Seq(ListElement)
  /\ lengthWait \in [length : Nat, wait : {0, 1}]
  /\ bSession \in {"idle", "push", "allowPop"}
  /\ bElement \in ListElement
  /\ bAck \in Seq(Ack) /\ Len(bAck) <= 1
  /\ readerPc \in {"idle", "copy", "pop", "waitPush", "status", "eof"}
  /\ pLeft \in Nat
  /\ element \in ListElement
  /\ off \in 0..element.L
  /\ readerAck \in Seq(Ack) /\ Len(readerAck) <= 1
  /\ sentTotal \in 0..MaxBytes
  /\ delivered \in 0..sentTotal
  /\ aClose \in {"open", "closing", "closed"}
  /\ stopped \in BOOLEAN
  /\ stopTokens \in 0..StopTokens
  /\ bClosed \in BOOLEAN
  /\ stopMark \in 0..sentTotal

(* Accounting closure (spec 8.2).  The sender's sent counter equals what  *)
(* it has not yet been told was read: bytes on the carrier, bytes queued   *)
(* in the receive window, the element held by B's readSession or being    *)
(* drained by the reader, the read counter of the receive window and the  *)
(* read fields of the window updates not yet applied by SetSize.  It is    *)
(* about receiveWindow.Write, sendStatus and SetSize together.  It holds  *)
(* until A closes the conn, after which A drops the window updates.        *)
AccountingClosure ==
  aClose = "open" => sendWindow.done =
      FrameBytes(Decoded)
    + (IF bSession = "push" THEN bElement.L ELSE 0)
    + lengthWait.length
    + (IF off < element.L THEN element.L ELSE 0)
    + receiveWindow.done
    + AckedBytes(bAck) + AckedBytes(readerAck) + AckedBytes(toA)


(* B's readSession keeps in step with A's writeSession: every byte string *)
(* A's Pack put on the carrier is taken whole by one UnPack (no byte more  *)
(* or less, no length error), names this stream, and re-encodes to the    *)
(* same bytes, so flag and length arrive as they were sent.               *)
CodecRoundTrip ==
  \A i \in 1..Len(toB) :
    LET u == UnPackOf[toB[i]]
    IN /\ u.complete /\ u.ok /\ u.size = Len(toB[i])
       /\ u.id = StreamId
       /\ Pack(u.flag, u.id, u.length, MSS) = toB[i]

(* No lost wake-up: a Write that has begun eventually returns, whatever    *)
(* the order of WriteTo, SetSize, the receive-window CASes and sendStatus. *)
WriteCompletes == writerPc # "idle" ~> writerPc = "idle"

(* Every byte WriteTo placed on the carrier before A's conn.Close queued   *)
(* CONN_CLOSE eventually reaches a Read on B: the Stop that CONN_CLOSE     *)
(* causes on B loses none of the data ahead of it.                         *)
AllDelivered ==
  \A k \in 1..MaxBytes : (sentTotal >= k /\ aClose = "open") ~> delivered >= k

(* EOF only after the drain (spec: reads return EOF after the buffered     *)
(* bytes drain): when readFromQueue returns EOF from a Pop stopped by      *)
(* CONN_CLOSE, the reader has copied out every byte B's readSession had    *)
(* received when it ran receiveWindow.Stop.                                *)
EOFAfterDrain == readerPc = "eof" => delivered >= stopMark

(* The readSession of A, which serves every stream of the mux, is never    *)
(* blocked forever in sendWindow.allow waiting for a writer to take the   *)
(* credit token.                                                           *)
SessionNeverStuck == aSession = "allow" ~> aSession = "idle"

(* B's readSession is never blocked forever in allowPop: a Push that finds *)
(* the wait bit of a reader that then leaves with EOF still gets a token   *)
(* from stopOp.  Data WriteTo queued behind CONN_CLOSE reaches B while the *)
(* reader is in waitPush.                                                  *)
BSessionNeverStuck == bSession = "allowPop" ~> bSession = "idle"
=============================================================================
