------------------------------- MODULE BufChain -------------------------------
(***************************************************************************)
(* bufChain and bufDequeue of nps_mux (src/lib/nps_mux/queue.go): a        *)
(* linked list of rings.  Producers push at the chain's head node, whose   *)
(* headTail word they advance with a CAS before they store the value in    *)
(* the slot.  When the head node is full, the producer that wins the CAS   *)
(* on newChain appends a node of twice the size, stores it as head, links  *)
(* it from the old node and clears newChain.  Consumers pop at the tail    *)
(* node: they read headTail, CAS the slot at tail from the value to nil,   *)
(* then add one to tail; on an empty node whose next they loaded first     *)
(* they CAS the chain's tail to next.                                      *)
(*                                                                         *)
(* Every atomic operation is one step; the steps of a goroutine between    *)
(* them are separate actions.  Indexes are IdxBits wide instead of 32, so  *)
(* their wrap is reached: headTail is the word head * 2^IdxBits + tail.    *)
(* The producers' starvation yield and the prev links (never read) are     *)
(* left out.                                                               *)
(***************************************************************************)
EXTENDS Naturals, Sequences, FiniteSets

CONSTANTS
  Producers,     \* goroutines calling pushHead
  Consumers,     \* goroutines calling popTail
  PerProducer,   \* bound: values each producer pushes
  InitSize,      \* size of the first node (a power of 2)
  DequeueLimit,  \* dequeueLimit: the largest node size
  IdxBits,       \* width of head and tail (dequeueBits, 32 in the code)
  Nil

IdxMod == 2 ^ IdxBits
MaxIdx == IdxMod - 1          \* math.MaxUint32
WordMod == IdxMod * IdxMod    \* the 64-bit headTail word

Values == Producers \X (1..PerProducer)
NoNode == 0

ASSUME /\ PerProducer \in Nat \ {0}
       /\ InitSize \in {2 ^ k : k \in 0..IdxBits}
       /\ DequeueLimit \in {2 ^ k : k \in 0..IdxBits}
       \* detecting fullness needs the ring at most half the index range
       /\ InitSize <= DequeueLimit /\ 2 * DequeueLimit <= IdxMod
       /\ Nil \notin Values

VARIABLES
  nodes,     \* the allocated bufChainElts: [size, vals, head, tail, next]
  cHead,     \* bufChain.head
  cTail,     \* bufChain.tail
  newChain,  \* bufChain.newChain
  ppc,       \* producer: "idle" | "spin" | "load" | "push" | "write" |
             \*           "grow" | "alloc" | "storeHead" | "storeNext" | "clear"
  pd,        \* producer's d
  pslot,     \* producer's reserved slot, or the node it allocated
  sent,      \* values each producer has pushed (pushHead returned)
  cpc,       \* consumer: "idle" | "next" | "ht" | "slot" | "advance" | "move"
  cd,        \* consumer's d
  cd2,       \* consumer's d2 = d.next
  ctail,     \* consumer's tail, read from headTail
  taken      \* history: the values popTail returned, in order

vars == <<nodes, cHead, cTail, newChain, ppc, pd, pslot, sent, cpc, cd, cd2,
          ctail, taken>>
prodVars == <<ppc, pd, pslot, sent>>
consVars == <<cpc, cd, cd2, ctail, taken>>

\* The value a producer is pushing.
Val(p) == <<p, sent[p] + 1>>

\* A fresh bufChainElt of size s holding v (or nothing) in slot 0.
NewNode(s, v) ==
  [size |-> s, vals |-> [i \in 0..(s - 1) |-> IF i = 0 THEN v ELSE Nil],
   head |-> IF v = Nil THEN 0 ELSE 1, tail |-> 0, next |-> NoNode]

Slot(d, i) == i % d.size   \* i & uint32(len(d.vals)-1)

-----------------------------------------------------------------------------
\* Bug: the full test one slot late.
FullLate(d) == (d.tail + d.size + 1) % IdxMod = d.head
\* bufDequeue.pushHead: (tail+len(vals))&(1<<dequeueBits-1) == head.
Full(d) == (d.tail + d.size) % IdxMod = d.head

\* Bug: popTail's AddUint64(1) also at tail = MaxUint32.
AdvanceCarry(w, t) == (w + 1) % WordMod
(* popTail: add 1 to headTail, or subtract MaxUint32 - 1 ... from the word *)
(* when its tail was MaxUint32, so that tail wraps without a carry.        *)
AdvanceWord(w, t) ==
  IF t < MaxIdx THEN (w + 1) % WordMod ELSE (w + WordMod - MaxIdx) % WordMod

\* Bug: double the size without the dequeueLimit clamp.
GrowSizeUnclamped(s) == 2 * s
\* bufChain.pushHead: newSize := len(d.vals) * 2, at most dequeueLimit.
GrowSize(s) == IF 2 * s >= DequeueLimit THEN DequeueLimit ELSE 2 * s

\* Bug: popTail loading d.next after d.popTail has failed.
NextFirstNot == FALSE
\* bufChain.popTail: "load the next pointer *before* popping the tail".
NextFirst == TRUE

(* The slots of node n in [tail, head) that hold a value, oldest first:  *)
(* a slot reserved by a producer that has not stored yet is skipped.     *)
NodeSeq(n) ==
  LET d == nodes[n]
  IN SelectSeq([k \in 1..((d.head - d.tail) % IdxMod) |->
                  d.vals[Slot(d, d.tail + k - 1)]],
               LAMBDA v : v # Nil)

\* The values of the nodes linked by next from node n, in order.
RECURSIVE ChainFrom(_)
ChainFrom(n) == IF n = NoNode THEN <<>> ELSE NodeSeq(n) \o ChainFrom(nodes[n].next)

\* Where a consumer goes after it moved to d2, or started on d.
LoopStart == IF NextFirst THEN "next" ELSE "ht"

\* d.popTail found d empty, with d2 loaded: return, or move on to d2.
OnEmpty(c) == IF cd2[c] = NoNode THEN "idle" ELSE "move"

-----------------------------------------------------------------------------
Init ==
  /\ nodes = <<NewNode(InitSize, Nil)>>
  /\ cHead = 1 /\ cTail = 1
  /\ newChain = 0
  /\ ppc = [p \in Producers |-> "idle"]
  /\ pd = [p \in Producers |-> NoNode]
  /\ pslot = [p \in Producers |-> 0]
  /\ sent = [p \in Producers |-> 0]
  /\ cpc = [c \in Consumers |-> "idle"]
  /\ cd = [c \in Consumers |-> NoNode]
  /\ cd2 = [c \in Consumers |-> NoNode]
  /\ ctail = [c \in Consumers |-> 0]
  /\ taken = <<>>

\* A call of bufChain.pushHead with the producer's next value.
PushHead(p) ==
  /\ ppc[p] = "idle"
  /\ sent[p] < PerProducer
  /\ ppc' = [ppc EXCEPT ![p] = "spin"]
  /\ UNCHANGED <<nodes, cHead, cTail, newChain, pd, pslot, sent, consVars>>

\* startPush: Gosched while newChain is set.
Spin(p) ==
  /\ ppc[p] = "spin"
  /\ newChain = 0
  /\ ppc' = [ppc EXCEPT ![p] = "load"]
  /\ UNCHANGED <<nodes, cHead, cTail, newChain, pd, pslot, sent, consVars>>

\* d := loadPoolChainElt(&c.head)
LoadHead(p) ==
  /\ ppc[p] = "load"
  /\ pd' = [pd EXCEPT ![p] = cHead]
  /\ ppc' = [ppc EXCEPT ![p] = "push"]
  /\ UNCHANGED <<nodes, cHead, cTail, newChain, pslot, sent, consVars>>

\* d.pushHead: the CAS that reserves slot head, or false when d is full.
DequePush(p) ==
  /\ ppc[p] = "push"
  /\ LET d == nodes[pd[p]]
     IN IF Full(d)
          THEN /\ ppc' = [ppc EXCEPT ![p] = "grow"]
               /\ UNCHANGED <<nodes, pslot>>
          ELSE /\ nodes' = [nodes EXCEPT ![pd[p]].head = (d.head + 1) % IdxMod]
               /\ pslot' = [pslot EXCEPT ![p] = Slot(d, d.head)]
               /\ ppc' = [ppc EXCEPT ![p] = "write"]
  /\ UNCHANGED <<cHead, cTail, newChain, pd, sent, consVars>>

\* *slot = val: pushHead returns.
WriteSlot(p) ==
  /\ ppc[p] = "write"
  /\ nodes' = [nodes EXCEPT ![pd[p]].vals[pslot[p]] = Val(p)]
  /\ sent' = [sent EXCEPT ![p] = @ + 1]
  /\ ppc' = [ppc EXCEPT ![p] = "idle"]
  /\ UNCHANGED <<cHead, cTail, newChain, pd, pslot, consVars>>

\* CompareAndSwapUint32(&c.newChain, 0, 1), else goto startPush.
GrowCas(p) ==
  /\ ppc[p] = "grow"
  /\ IF newChain = 0
       THEN newChain' = 1 /\ ppc' = [ppc EXCEPT ![p] = "alloc"]
       ELSE UNCHANGED newChain /\ ppc' = [ppc EXCEPT ![p] = "spin"]
  /\ UNCHANGED <<nodes, cHead, cTail, pd, pslot, sent, consVars>>

\* d2 := &bufChainElt{prev: d} of twice the size; d2.pushHead(val).
Alloc(p) ==
  /\ ppc[p] = "alloc"
  /\ nodes' = Append(nodes, NewNode(GrowSize(nodes[pd[p]].size), Val(p)))
  /\ pslot' = [pslot EXCEPT ![p] = Len(nodes) + 1]
  /\ ppc' = [ppc EXCEPT ![p] = "storeHead"]
  /\ UNCHANGED <<cHead, cTail, newChain, pd, sent, consVars>>

\* storePoolChainElt(&c.head, d2)
StoreHead(p) ==
  /\ ppc[p] = "storeHead"
  /\ cHead' = pslot[p]
  /\ ppc' = [ppc EXCEPT ![p] = "storeNext"]
  /\ UNCHANGED <<nodes, cTail, newChain, pd, pslot, sent, consVars>>

\* storePoolChainElt(&d.next, d2)
StoreNext(p) ==
  /\ ppc[p] = "storeNext"
  /\ nodes' = [nodes EXCEPT ![pd[p]].next = pslot[p]]
  /\ ppc' = [ppc EXCEPT ![p] = "clear"]
  /\ UNCHANGED <<cHead, cTail, newChain, pd, pslot, sent, consVars>>

\* atomic.StoreUint32(&c.newChain, 0): pushHead returns.
ClearFlag(p) ==
  /\ ppc[p] = "clear"
  /\ newChain' = 0
  /\ sent' = [sent EXCEPT ![p] = @ + 1]
  /\ ppc' = [ppc EXCEPT ![p] = "idle"]
  /\ UNCHANGED <<nodes, cHead, cTail, pd, pslot, consVars>>

-----------------------------------------------------------------------------
\* A call of bufChain.popTail: d := loadPoolChainElt(&c.tail).
LoadTail(c) ==
  /\ cpc[c] = "idle"
  /\ cd' = [cd EXCEPT ![c] = cTail]
  /\ cpc' = [cpc EXCEPT ![c] = LoopStart]
  /\ UNCHANGED <<nodes, cHead, cTail, newChain, prodVars, cd2, ctail, taken>>

\* d2 := loadPoolChainElt(&d.next)
LoadNext(c) ==
  /\ cpc[c] = "next"
  /\ cd2' = [cd2 EXCEPT ![c] = nodes[cd[c]].next]
  /\ cpc' = [cpc EXCEPT ![c] =
               IF NextFirst THEN "ht"
               ELSE IF cd2'[c] = NoNode THEN "idle" ELSE "move"]
  /\ UNCHANGED <<nodes, cHead, cTail, newChain, prodVars, cd, ctail, taken>>

\* d.popTail: load headTail; tail = head means d is empty.
ReadHeadTail(c) ==
  /\ cpc[c] = "ht"
  /\ LET d == nodes[cd[c]]
     IN /\ cpc' = [cpc EXCEPT ![c] =
                    IF d.tail # d.head THEN "slot"
                    ELSE IF NextFirst THEN OnEmpty(c) ELSE "next"]
        /\ ctail' = [ctail EXCEPT ![c] = d.tail]
  /\ UNCHANGED <<nodes, cHead, cTail, newChain, prodVars, cd, cd2, taken>>

(* d.popTail: load the slot at tail; nil (not yet stored, or taken by     *)
(* another consumer) loops back to headTail, else CAS it to nil.           *)
TakeSlot(c) ==
  /\ cpc[c] = "slot"
  /\ LET d == nodes[cd[c]]
         i == Slot(d, ctail[c])
     IN IF d.vals[i] = Nil
          THEN /\ cpc' = [cpc EXCEPT ![c] = "ht"]
               /\ UNCHANGED <<nodes, taken>>
          ELSE /\ nodes' = [nodes EXCEPT ![cd[c]].vals[i] = Nil]
               /\ taken' = Append(taken, d.vals[i])
               /\ cpc' = [cpc EXCEPT ![c] = "advance"]
  /\ UNCHANGED <<cHead, cTail, newChain, prodVars, cd, cd2, ctail>>

\* d.popTail: advance tail in headTail; popTail returns the value.
Advance(c) ==
  /\ cpc[c] = "advance"
  /\ LET d == nodes[cd[c]]
         w == AdvanceWord(d.head * IdxMod + d.tail, ctail[c])
     IN nodes' = [nodes EXCEPT ![cd[c]].head = w \div IdxMod,
                               ![cd[c]].tail = w % IdxMod]
  /\ cpc' = [cpc EXCEPT ![c] = "idle"]
  /\ UNCHANGED <<cHead, cTail, newChain, prodVars, cd, cd2, ctail, taken>>

\* CompareAndSwapPointer(&c.tail, d, d2); d = d2.
MoveTail(c) ==
  /\ cpc[c] = "move"
  /\ cTail' = IF cTail = cd[c] THEN cd2[c] ELSE cTail
  /\ cd' = [cd EXCEPT ![c] = cd2[c]]
  /\ cpc' = [cpc EXCEPT ![c] = LoopStart]
  /\ UNCHANGED <<nodes, cHead, newChain, prodVars, cd2, ctail, taken>>

Next ==
  \/ \E p \in Producers :
       \/ PushHead(p) \/ Spin(p) \/ LoadHead(p) \/ DequePush(p) \/ WriteSlot(p)
       \/ GrowCas(p) \/ Alloc(p) \/ StoreHead(p) \/ StoreNext(p) \/ ClearFlag(p)
  \/ \E c \in Consumers :
       \/ LoadTail(c) \/ LoadNext(c) \/ ReadHeadTail(c) \/ TakeSlot(c)
       \/ Advance(c) \/ MoveTail(c)

(* Every goroutine inside pushHead or popTail takes its next step.  The   *)
(* consumers call popTail again and again, as the loops of Pop do.         *)
Fairness ==
  /\ \A p \in Producers :
       WF_vars(Spin(p) \/ LoadHead(p) \/ DequePush(p) \/ WriteSlot(p)
               \/ GrowCas(p) \/ Alloc(p) \/ StoreHead(p) \/ StoreNext(p)
               \/ ClearFlag(p))
  /\ \A c \in Consumers :
       WF_vars(LoadTail(c) \/ LoadNext(c) \/ ReadHeadTail(c) \/ TakeSlot(c)
               \/ Advance(c) \/ MoveTail(c))

Spec == Init /\ [][Next]_vars /\ Fairness

-----------------------------------------------------------------------------
\* The values whose pushHead has returned.
Completed == {v \in Values : v[2] <= sent[v[1]]}

\* The queue a consumer can reach: the values of the chain from c.tail.
ChainSeq == ChainFrom(cTail)

SeqSet(s) == {s[i] : i \in DOMAIN s}

Queued == SeqSet(ChainSeq)

(* Values in a node a producer has allocated and not yet linked from d:  *)
(* they become reachable at its storePoolChainElt(&d.next, d2).           *)
Linking == UNION {SeqSet(ChainFrom(pslot[p])) :
                    p \in {q \in Producers : ppc[q] \in {"storeHead", "storeNext"}}}

TypeOK ==
  /\ \A n \in DOMAIN nodes :
       /\ nodes[n].size \in {2 ^ k : k \in 0..IdxBits} /\ nodes[n].size <= DequeueLimit
       /\ nodes[n].head \in 0..MaxIdx /\ nodes[n].tail \in 0..MaxIdx
       /\ nodes[n].next \in 0..Len(nodes)
       /\ nodes[n].vals \in [0..(nodes[n].size - 1) -> Values \cup {Nil}]
  /\ {cHead, cTail} \subseteq 1..Len(nodes)
  /\ newChain \in {0, 1}
  /\ sent \in [Producers -> 0..PerProducer]
  /\ taken \in Seq(Values)

(* No element is lost: every value whose pushHead returned has been taken *)
(* by a popTail, or is still in a node a popTail can reach from c.tail   *)
(* or in the node a producer is about to link.                           *)
(* Lost by a push into a full ring, by a consumer dropping a node it saw  *)
(* empty before a value arrived, or by a producer linking its new node    *)
(* from a node no longer linked or over another producer's node.          *)
ElementsKept == \A v \in Completed : v \in SeqSet(taken) \cup Queued \cup Linking

(* The chain implements a FIFO queue: the values reachable from c.tail,  *)
(* in ring and link order, change only by appending the pushed value or  *)
(* by a popTail that removes and returns the oldest one: nothing is lost, *)
(* duplicated or returned out of order.                                   *)
F == INSTANCE Fifo WITH queue <- ChainSeq, got <- taken

(* Every value whose pushHead returned is eventually returned by a        *)
(* popTail, while consumers keep calling popTail (headTail must stay      *)
(* consistent through the wrap of tail).                                  *)
AllTaken == \A v \in Values : v \in Completed ~> v \in SeqSet(taken)
====
