------------------------------ MODULE ClientMC ------------------------------
(***************************************************************************)
(* The panel for TLC: its PTT keys or its drive test.  What one tells the  *)
(* rig is to the other what any other panel does, so a behaviour is of one *)
(* of them and the other rests.                                            *)
(***************************************************************************)
EXTENDS PttKeys, DriveTest

VARIABLE side

\* The side that rests rests in one state.
ClientInit ==
  /\ side \in {"keys", "drive"} /\ PttInit /\ DriveInit
  /\ side = "keys" => ~tone
  /\ side = "drive" => /\ platform = "other" /\ win.mode = "hold"
                       /\ win.key = CHOOSE k \in HotKeys : TRUE

ClientNext ==
  \/ side = "keys" /\ PttNext /\ UNCHANGED <<side, driveVars>>
  \/ side = "drive" /\ DriveNext /\ UNCHANGED <<side, pttVars>>

clientVars == <<side, pttVars, driveVars>>

\* A request is served or lost in the end, and the panel's own timers run: the
\* key state, the limit of a hold, the drive test's tick.  No fairness for the
\* operator.
ClientSpec ==
  /\ ClientInit /\ [][ClientNext]_clientVars
  /\ WF_clientVars(side = "keys" /\ OldestLeaves /\ UNCHANGED <<side, driveVars>>)
  /\ WF_clientVars(side = "keys" /\ PollKeyState /\ UNCHANGED <<side, driveVars>>)
  /\ WF_clientVars(side = "keys" /\ LimitFires /\ UNCHANGED <<side, driveVars>>)
  /\ WF_clientVars(side = "drive" /\ Ticks /\ UNCHANGED <<side, pttVars>>)

\* The types of both parts.
ClientTypeOK == PttTypeOK /\ DriveTypeOK
=============================================================================
