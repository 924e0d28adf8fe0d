----------------------------- MODULE StreamOpen -----------------------------
(***************************************************************************)
(* What Mux.NewConn and Mux.Accept promise the callers of one mux (spec    *)
(* 4.3 and 8.8), with no ids, frames or goroutines.  Each caller of        *)
(* NewConn makes attempts, numbered by seq; an attempt is pending until it *)
(* opens a stream or gives up.  accepted holds the attempts a caller of    *)
(* Accept on the other mux has been handed.  An attempt opens only once    *)
(* the other mux has accepted it; the other mux may accept any attempt     *)
(* that was made, also one whose caller has already given up.              *)
(***************************************************************************)
EXTENDS Naturals

CONSTANTS
  Openers,   \* the callers of NewConn
  MaxOpens   \* bound: attempts per caller

VARIABLES
  attempt,   \* attempt[i]: [state, seq] of the latest attempt of caller i
  accepted   \* set of [who, seq]: the attempts handed to a caller of Accept

Attempt == [who : Openers, seq : 1..MaxOpens]

Init ==
  /\ attempt = [i \in Openers |-> [state |-> "idle", seq |-> 0]]
  /\ accepted = {}

\* NewConn is called.
Request(i) ==
  /\ attempt[i].state = "idle"
  /\ attempt[i].seq < MaxOpens
  /\ attempt' = [attempt EXCEPT ![i] = [state |-> "pending", seq |-> @.seq + 1]]
  /\ UNCHANGED accepted

\* The other mux hands attempt a to a caller of Accept.
Accept(a) ==
  /\ a.seq <= attempt[a.who].seq
  /\ a \notin accepted
  /\ accepted' = accepted \cup {a}
  /\ UNCHANGED attempt

\* NewConn returns a stream, for an attempt the other mux has accepted.
Open(i) ==
  /\ attempt[i].state = "pending"
  /\ [who |-> i, seq |-> attempt[i].seq] \in accepted
  /\ attempt' = [attempt EXCEPT ![i].state = "open"]
  /\ UNCHANGED accepted

\* NewConn returns an error.
GiveUp(i) ==
  /\ attempt[i].state = "pending"
  /\ attempt' = [attempt EXCEPT ![i].state = "idle"]
  /\ UNCHANGED accepted

\* The caller closes the stream it opened.
Finish(i) ==
  /\ attempt[i].state = "open"
  /\ attempt' = [attempt EXCEPT ![i].state = "idle"]
  /\ UNCHANGED accepted

Next ==
  \/ \E i \in Openers : Request(i) \/ Open(i) \/ GiveUp(i) \/ Finish(i)
  \/ \E a \in Attempt : Accept(a)

Spec == Init /\ [][Next]_<<attempt, accepted>>
====
