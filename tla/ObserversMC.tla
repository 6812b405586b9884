----------------------------- MODULE ObserversMC -----------------------------
(***************************************************************************)
(* The two parts that watch the station, side by side: a behaviour runs one *)
(* of them, the other rests in its initial state.                           *)
(***************************************************************************)
EXTENDS Pusher, SessionStats

VARIABLE part

MCBands == [low |-> [lo |-> 3, hi |-> 4], high |-> [lo |-> 9, hi |-> 10]]

vars == <<pushVars, statsVars, part>>

Init ==
  /\ part \in {"pusher", "stats"}
  /\ PushInit /\ StatsInit
  /\ part = "stats" => rig = [key |-> CHOOSE k \in Keys : TRUE, good |-> TRUE]

Pushes == part = "pusher" /\ PushNext /\ UNCHANGED <<statsVars, part>>
Counts == part = "stats" /\ StatsNext /\ UNCHANGED <<pushVars, part>>

Next ==
  \/ Pushes
  \/ Counts
  \/ part = "stats" /\ clock = MaxClock /\ UNCHANGED vars

Spec ==
  /\ Init /\ [][Next]_vars
  /\ WF_vars(part = "pusher" /\ Tick /\ UNCHANGED <<statsVars, part>>)
  /\ WF_vars(part = "pusher" /\ Elapse /\ UNCHANGED <<statsVars, part>>)

TypeOK == PushTypeOK /\ StatsTypeOK
=============================================================================
