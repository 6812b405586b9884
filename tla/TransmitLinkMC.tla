--------------------------- MODULE TransmitLinkMC ---------------------------
(***************************************************************************)
(* Small instances of TransmitLink for TLC.  A behaviour is about          *)
(*   claims  two operators and one claim, nobody keying, the dead-link     *)
(*           check disabled;                                               *)
(*   dead    one connection that may go silent;                            *)
(*   tunes   the same with tunes, nobody at /api/admin/unkey and a client  *)
(*           that falls silent by itself.                                  *)
(***************************************************************************)
EXTENDS TransmitLink, TLC

CONSTANTS c1, c2, ann, bob

VARIABLE regime

TwoOperators == (c1 :> ann) @@ (c2 :> bob)

linkModelVars == <<vars, regime>>

Claims == INSTANCE TransmitLink WITH Timeout <- 0, Tunes <- FALSE, Asked <- {}
DeadLink == INSTANCE TransmitLink WITH Conns <- {c1}, Timeout <- 1, Asked <- {"key", "remote"}

LinkInit == Init /\ regime \in {"claims", "dead", "tunes"}

LinkNext ==
  /\ \/ regime = "claims" /\ Claims!Next
     \/ regime = "dead" /\ DeadLink!Next /\ UNCHANGED tuning
     \/ regime = "tunes" /\ DeadLink!Next /\ UNCHANGED <<killing, alive>>
  /\ UNCHANGED regime

\* The poll thread runs, and a close handler or a Release that has begun is
\* carried through.
LinkSpec ==
  /\ LinkInit /\ [][LinkNext]_linkModelVars
  /\ WF_linkModelVars(regime # "claims" /\ DeadLink!Poller /\ UNCHANGED regime)
  /\ WF_linkModelVars(regime # "claims" /\ DeadLink!AdminZeroes /\ UNCHANGED regime)
  /\ WF_linkModelVars(/\ regime # "claims" /\ conn[c1] # "open"
                      /\ DeadLink!CloseStep(c1) /\ UNCHANGED regime)

\* A client that held the transmitter and goes leaves the station safe
\* (HandsBack), where threads are fair.
HandedBack == regime # "claims" => HandsBack(c1)
=============================================================================
