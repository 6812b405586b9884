------------------------- MODULE TransmitLinkOverMC -------------------------
(* TransmitLink with one operator on one connection. *)
EXTENDS TransmitLink

CONSTANT ann

OneOperator == [c \in Conns |-> ann]
Presses     == {"key", "unkey"}
=============================================================================
