----------------------------- MODULE MCHttpProxy -----------------------------
(* HttpProxy for TLC: two hosts, of one client or of two.                  *)
EXTENDS HttpProxy

CONSTANTS h1, h2, cA, cB

\* The hosts h1 and h2 are served by the clients cA and cB.
MCClientOfTwo == (h1 :> cA) @@ (h2 :> cB)
====
