-------------------------------- MODULE Fifo --------------------------------
(***************************************************************************)
(* What a bufChain promises its callers (spec section 4, "Lock-free ring   *)
(* chain"): a queue in which pushHead appends a value and a successful     *)
(* popTail removes the oldest one and returns it; got lists the values     *)
(* returned, in order.  A popTail that finds nothing changes nothing and   *)
(* is a stuttering step.                                                   *)
(***************************************************************************)
EXTENDS Sequences

CONSTANT Values

VARIABLES queue, got

Init == queue = <<>> /\ got = <<>>

Put(v) == queue' = Append(queue, v) /\ UNCHANGED got

Get ==
  /\ queue # <<>>
  /\ queue' = Tail(queue)
  /\ got' = Append(got, Head(queue))

Next == (\E v \in Values : Put(v)) \/ Get

Spec == Init /\ [][Next]_<<queue, got>>
====
