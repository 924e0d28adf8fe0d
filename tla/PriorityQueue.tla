---------------------------- MODULE PriorityQueue ----------------------------
(***************************************************************************)
(* The priorityQueue of nps_mux (src/lib/nps_mux/queue.go) between the     *)
(* goroutines that queue frames with sendInfo and the writeSession, its    *)
(* only consumer.  PING / PING_RETURN go to the highest chain, NEW_CONN /  *)
(* NEW_CONN_OK / NEW_CONN_FAIL to the middle one, everything else to the  *)
(* lowest.  TryPop serves the middle chain only while the starving counter *)
(* is below maxStarving and halves it on a lowest pop.                     *)
(*                                                                         *)
(* Pop tries twice without the lock, then takes cond.L and loops on        *)
(* TryPop and cond.Wait.  Push and Stop call cond.Broadcast without the    *)
(* lock.  Go's cond.Wait puts the waiter on the notify list before it     *)
(* unlocks, so a Broadcast reaches it from then on; the states "check"     *)
(* and "wait" are the steps before that.  Only the writeSession's Pop      *)
(* takes cond.L, so the lock is left out.  Mux.Close sets IsClose, release *)
(* drains the queue with TryPop and calls Stop; sendInfo and writeSession  *)
(* test IsClose.  The connQueue feeding the accept goroutine runs the same *)
(* Pop, Push and Stop on one chain: it is this module with one class.      *)
(*                                                                         *)
(* Each TryPop, of writeSession or of release, is one step.  Frames are    *)
(* FIFO within a chain and only the chain lengths matter: on the chain of a *)
(* saturating class a length of Cap stands for Cap or more.                *)
(***************************************************************************)
EXTENDS Naturals

CONSTANTS
  Cap,          \* lengths are counted up to Cap, which means Cap or more
  MaxStarving,  \* maxStarving (8)
  StarveWidth,  \* 2^8: starving is a uint8
  Saturating,   \* classes whose producers never stop pushing
  Bursts,       \* pushes of each other class
  CloseAllowed, \* TRUE when the user may close the mux
  PackFails     \* TRUE when writing a frame to the carrier may fail

Classes == {"highest", "middle", "lowest"}

\* The goroutines that call Mux.Close here: the user (or the ping goroutine
\* or the readSession), and the writeSession when pack.Pack fails.
Closers == {"user", "writer"}

ASSUME /\ Cap \in Nat \ {0}
       /\ MaxStarving \in Nat \ {0}
       /\ StarveWidth > MaxStarving
       /\ Saturating \subseteq Classes
       /\ Bursts \in [Classes -> 0..Cap]
       /\ CloseAllowed \in BOOLEAN
       /\ PackFails \in BOOLEAN

VARIABLES
  len,          \* length of each chain (Cap: at least Cap)
  left,         \* pushes left to the producers of a class that is not saturating
  prod,         \* producer of each class in sendInfo: "idle" | "push" | "broadcast"
  starving,     \* priorityQueue.starving
  stop,         \* priorityQueue.stop
  closed,       \* Mux.IsClose
  closer,       \* each caller of Mux.Close, the user and the writeSession:
                \* "idle" | "run" | "drain" | "stop" | "broadcast" | "done"
  cpc,          \* the writeSession: its loop and Pop
  middleWait,   \* history: middle pops while the lowest chain waits
  lowPops       \* history: parity of the pops from the lowest chain

queue == <<len, starving, stop>>
hist == <<middleWait, lowPops>>
vars == <<queue, left, prod, closed, closer, cpc, hist>>

-----------------------------------------------------------------------------
\* Bug: serve middle while starving has reached maxStarving too.
MiddleFirstLate(s) == s <= MaxStarving
\* TryPop: "not pop too much, lowestChain will wait too long".
MiddleFirst(s) == s < MaxStarving

\* starving++ on a uint8.
StarveInc(s) == (s + 1) % StarveWidth

(* TryPop: the class it pops from ("none" when it finds nothing) and the   *)
(* starving counter it leaves.                                             *)
TryPop(l, s) ==
  IF l["highest"] > 0 THEN [cls |-> "highest", starving |-> s]
  ELSE IF MiddleFirst(s) /\ l["middle"] > 0
    THEN [cls |-> "middle", starving |-> StarveInc(s)]
  ELSE IF l["lowest"] > 0
    THEN [cls |-> "lowest", starving |-> IF s > 0 THEN s \div 2 ELSE s]
  ELSE IF s > 0 /\ l["middle"] > 0
    THEN [cls |-> "middle", starving |-> StarveInc(s)]
  ELSE [cls |-> "none", starving |-> s]

\* Lengths after popChain: Cap may stand for more than Cap on the chain of
\* a saturating class; the others never hold more than their burst.
Popped(c, n) == IF c \in Saturating /\ n = Cap THEN {Cap, Cap - 1} ELSE {n - 1}

\* The queue after a TryPop that found the frame r.
PopFrame(r) ==
  /\ \E n \in Popped(r.cls, len[r.cls]) : len' = [len EXCEPT ![r.cls] = n]
  /\ starving' = r.starving

(* History: a middle pop while the lowest chain is nonempty adds one to    *)
(* middleWait; a pop from the lowest chain, or any pop while it is empty,  *)
(* resets it.                                                              *)
Served(r) ==
  /\ middleWait' = IF r.cls = "lowest" \/ len["lowest"] = 0 THEN 0
                   ELSE IF r.cls = "middle" THEN middleWait + 1 ELSE middleWait
  /\ lowPops' = IF r.cls = "lowest" THEN 1 - lowPops ELSE lowPops

\* Bug: Push without cond.Broadcast.
PushBroadcastsNot == FALSE
\* Push: cond.Broadcast after push.
PushBroadcasts == TRUE

\* cond.Broadcast: wakes the writeSession if it is on the notify list.
Wake(pc) == IF pc = "sleeping" THEN "woken" ELSE pc

\* Where Pop goes after a TryPop that found nothing.
AfterNil(pc) ==
  CASE pc = "try1" -> IF stop THEN "exit" ELSE "try2"
    [] pc = "try2" -> IF stop THEN "exit" ELSE "locked"
    [] OTHER       -> "check"

-----------------------------------------------------------------------------
Init ==
  /\ len = [c \in Classes |-> 0]
  /\ left = [c \in Classes |-> Bursts[c]]
  /\ prod = [c \in Classes |-> "idle"]
  /\ starving = 0
  /\ stop = FALSE
  /\ closed = FALSE
  /\ closer = [g \in Closers |-> IF g = "user" THEN "run" ELSE "idle"]
  /\ cpc = "top"
  /\ middleWait = 0
  /\ lowPops = 0

\* sendInfo: return if the mux is closed, else go on to Push.
SendInfo(c) ==
  /\ prod[c] = "idle"
  /\ ~closed
  /\ c \in Saturating \/ left[c] > 0
  /\ prod' = [prod EXCEPT ![c] = "push"]
  /\ left' = [left EXCEPT ![c] = IF c \in Saturating THEN @ ELSE @ - 1]
  /\ UNCHANGED <<queue, closed, closer, cpc, hist>>

\* Push -> push: pushHead on the chain of the frame's class.
PushHead(c) ==
  /\ prod[c] = "push"
  /\ len' = [len EXCEPT ![c] = IF @ < Cap THEN @ + 1 ELSE Cap]
  /\ prod' = [prod EXCEPT ![c] = "broadcast"]
  /\ UNCHANGED <<starving, stop, left, closed, closer, cpc, hist>>

\* Push: cond.Broadcast, without the lock.
Broadcast(c) ==
  /\ prod[c] = "broadcast"
  /\ prod' = [prod EXCEPT ![c] = "idle"]
  /\ cpc' = IF PushBroadcasts THEN Wake(cpc) ELSE cpc
  /\ UNCHANGED <<queue, left, closed, closer, hist>>

\* writeSession, top of its loop: break if the mux is closed, else Pop.
Top ==
  /\ cpc = "top"
  /\ cpc' = IF closed THEN "exit" ELSE "try1"
  /\ UNCHANGED <<queue, left, prod, closed, closer, hist>>

(* writeSession after Pop returns a frame: break if the mux closed, else  *)
(* Pack it onto the carrier and loop.                                      *)
WriteSessionNext == IF closed THEN "exit" ELSE "top"

\* Whether pack.Pack(s.conn) writes the frame: the carrier may fail.
PackOutcomes == IF PackFails THEN {TRUE, FALSE} ELSE {TRUE}

(* A TryPop of Pop: the two tries without the lock, the one under it, and  *)
(* the one after cond.Wait returns.  A frame goes back to writeSession,    *)
(* which breaks if the mux closed meanwhile, else writes it and loops; a   *)
(* failed Pack calls s.Close() and breaks when Close returns.              *)
PopTry ==
  /\ cpc \in {"try1", "try2", "locked", "woken"}
  /\ LET r == TryPop(len, starving)
     IN \/ /\ r.cls # "none"
           /\ PopFrame(r)
           /\ Served(r)
           /\ \E ok \in PackOutcomes :
                IF closed \/ ok
                  THEN cpc' = WriteSessionNext /\ UNCHANGED closer
                  ELSE /\ cpc' = "closing"
                       /\ closer' = [closer EXCEPT !["writer"] = "run"]
        \/ /\ r.cls = "none"
           /\ cpc' = AfterNil(cpc)
           /\ UNCHANGED <<len, starving, hist, closer>>
  /\ UNCHANGED <<stop, left, prod, closed>>

\* The loop of Pop under the lock: return on stop, else enter cond.Wait.
PopCheck ==
  /\ cpc = "check"
  /\ cpc' = IF stop THEN "exit" ELSE "wait"
  /\ UNCHANGED <<queue, left, prod, closed, closer, hist>>

\* cond.Wait: runtime_notifyListAdd, then unlock and sleep.
PopWait ==
  /\ cpc = "wait"
  /\ cpc' = "sleeping"
  /\ UNCHANGED <<queue, left, prod, closed, closer, hist>>

(* Mux.Close by g: return if closed, else IsClose := true and on to       *)
(* release.  Test and assignment are one step here: two callers both      *)
(* passing the test is OpenAccept's concern.  The writeSession breaks      *)
(* once its Close returns.                                                  *)
Close(g) ==
  /\ closer[g] = "run"
  /\ g = "user" => CloseAllowed
  /\ closer' = [closer EXCEPT ![g] = IF closed THEN "done" ELSE "drain"]
  /\ closed' = TRUE
  /\ cpc' = IF g = "writer" /\ closed THEN "exit" ELSE cpc
  /\ UNCHANGED <<queue, left, prod, hist>>

\* release: TryPop and drop frames until the queue is empty.
Drain(g) ==
  /\ closer[g] = "drain"
  /\ LET r == TryPop(len, starving)
     IN \/ r.cls # "none" /\ PopFrame(r) /\ Served(r) /\ UNCHANGED closer
        \/ /\ r.cls = "none"
           /\ closer' = [closer EXCEPT ![g] = "stop"]
           /\ UNCHANGED <<len, starving, hist>>
  /\ UNCHANGED <<stop, left, prod, closed, cpc>>

\* release -> Stop: stop := true ...
Stop(g) ==
  /\ closer[g] = "stop"
  /\ stop' = TRUE
  /\ closer' = [closer EXCEPT ![g] = "broadcast"]
  /\ UNCHANGED <<len, starving, left, prod, closed, cpc, hist>>

\* ... then cond.Broadcast; Close returns.
StopBroadcast(g) ==
  /\ closer[g] = "broadcast"
  /\ closer' = [closer EXCEPT ![g] = "done"]
  /\ cpc' = IF g = "writer" THEN "exit" ELSE Wake(cpc)
  /\ UNCHANGED <<queue, left, prod, closed, hist>>

Next ==
  \/ \E c \in Classes : SendInfo(c) \/ PushHead(c) \/ Broadcast(c)
  \/ Top \/ PopTry \/ PopCheck \/ PopWait
  \/ \E g \in Closers : Close(g) \/ Drain(g) \/ Stop(g) \/ StopBroadcast(g)

(* Every goroutine takes its next step: the writeSession (in its own      *)
(* Close too), the user once it is in release, and a producer once it is  *)
(* in sendInfo.  Producers of a saturating class keep calling sendInfo;   *)
(* the others, and the user's Close, may never be called.                 *)
Fairness ==
  /\ WF_vars(Top) /\ WF_vars(PopTry) /\ WF_vars(PopCheck) /\ WF_vars(PopWait)
  /\ WF_vars(Close("writer"))
  /\ \A g \in Closers : WF_vars(Drain(g)) /\ WF_vars(Stop(g)) /\ WF_vars(StopBroadcast(g))
  /\ \A c \in Classes : WF_vars(PushHead(c)) /\ WF_vars(Broadcast(c))
  /\ \A c \in Saturating : WF_vars(SendInfo(c))

Spec == Init /\ [][Next]_vars /\ Fairness

-----------------------------------------------------------------------------
(* TryPop's starving counter: while data waits in the lowest chain, the    *)
(* writeSession takes at most maxStarving frames from the middle chain     *)
(* before it takes one from the lowest, also after the uint8 starving has  *)
(* wrapped to 0 during a run of middle pops on an empty lowest chain.      *)
StarvationBound == middleWait <= MaxStarving

(* Push broadcasts and Pop blocks in cond.Wait "until push or stop": data  *)
(* in the lowest chain is eventually popped, unless the mux is closed.     *)
LowestServed ==
  \A b \in {0, 1} :
    (len["lowest"] > 0 /\ lowPops = b) ~> (lowPops # b \/ closed)
====
