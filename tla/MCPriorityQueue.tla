--------------------------- MODULE MCPriorityQueue ---------------------------
(***************************************************************************)
(* Instances of PriorityQueue for TLC.  maxStarving and the uint8 width   *)
(* are the code's own values; chain lengths are counted up to 2, which is *)
(* enough to hold a frame back while another is popped.                    *)
(***************************************************************************)
EXTENDS PriorityQueue

\* One data frame.
MCOneData == [c \in Classes |-> IF c = "lowest" THEN 1 ELSE 0]

MCMiddle == {"middle"}
====
