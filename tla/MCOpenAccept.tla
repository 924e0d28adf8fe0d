---------------------------- MODULE MCOpenAccept ----------------------------
(* Model-checking instance of OpenAccept.  Ids are scaled down: MCMaxId    *)
(* stands for math.MaxInt32 and the gap for the 10000 of getId, so that a  *)
(* few opens bring the counter to its wrap.                                *)
EXTENDS OpenAccept

CONSTANTS pa, pb, o1, o2, k1, k2

MCPeers == {pa, pb}
\* the server side opens streams, the client side accepts them
MCOneSide == {pa}
\* the accepting side
MCOtherSide == {pb}
MCOneOpener == {o1}
MCTwoOpeners == {o1, o2}
\* one caller of Mux.Close, and two (the readSession's failed read and the
\* writeSession's failed write on the same broken carrier)
MCOneCloser == {k1}
MCTwoClosers == {k1, k2}
====
