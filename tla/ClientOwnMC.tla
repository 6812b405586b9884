----------------------------- MODULE ClientOwnMC -----------------------------
(***************************************************************************)
(* The drive test for TLC next to another panel's over: a ghost remembers  *)
(* that a sweep was started during an over the panel was showing, for as   *)
(* long as that over lasts.                                                *)
(***************************************************************************)
EXTENDS DriveTest

VARIABLE during

OwnInit == DriveInit /\ during = FALSE

SweepStarts == test.mode = "off" /\ test'.mode = "sweep"

OwnNext ==
  /\ DriveNext
  /\ during' = (carrier' = "other" /\ (during \/ (SweepStarts /\ status = "tx")))

ownVars == <<driveVars, during>>

\* The tick of the drive test runs; nobody else has to do anything.
OwnSpec == OwnInit /\ [][OwnNext]_ownVars /\ WF_ownVars(Ticks /\ OwnNext)

\* What the drive test says of itself (the comment over startToneSweep in
\* client/src/backend.cpp): "it only ever unkeys what it keyed, so a test
\* started during somebody else's over cannot drop their carrier".  No unkey of
\* the test is served to the over it was started in.
OwnCarrierOnly ==
  [][\A c \in BagToSet(air) : HostServes(c) /\ c = "off" => ~during]_ownVars
=============================================================================
