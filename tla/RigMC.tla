------------------------------- MODULE RigMC -------------------------------
(***************************************************************************)
(* Small instances of RadioPoller and HostShutdown for TLC.  A behaviour   *)
(* is about one question:                                                  *)
(*   watchdog  a reliable line, keyed by callers and by hand;              *)
(*   panel     compound and slow-field commands, and polls that fail;      *)
(*   shutdown  a line that loses commands and replies while the host ends, *)
(*             with tuners and CAT proxy still queueing.                   *)
(* The constants of the cfg are the largest of the three.                  *)
(***************************************************************************)
EXTENDS HostShutdown

VARIABLE regime

rigModelVars == <<hostVars, regime>>

Key   == <<<<"TX", TRUE>>>>
Unkey == <<<<"TX", FALSE>>>>
PttRequests == {Key, Unkey}

VfoCopy(f) == <<<<"FA", f>>, <<"FB", f>>>>
Blanker(b) == <<<<"NB", b>>>>
PanelRequests == PttRequests \cup {VfoCopy(1), VfoCopy(2), Blanker(TRUE), Blanker(FALSE)}

Watchdog == INSTANCE HostShutdown WITH
  Freqs <- {1}, Requests <- PttRequests, LateRequests <- {}, Limit <- 2, MaxGap <- 2,
  FullEvery <- 1, Horizon <- 10, HandMic <- TRUE, LossyReads <- FALSE,
  MissedPolls <- FALSE, LossyWrites <- FALSE

Panel == INSTANCE HostShutdown WITH
  Requests <- PanelRequests \ PttRequests, LateRequests <- {}, Limit <- 0, MaxGap <- 1,
  Horizon <- 0, HandMic <- FALSE, LossyReads <- FALSE, LossyWrites <- FALSE

Shutdown == INSTANCE HostShutdown WITH
  Freqs <- {1}, Requests <- PttRequests, LateRequests <- PttRequests, Limit <- 0,
  MaxGap <- 1, FullEvery <- 1, Horizon <- 0, HandMic <- FALSE

RigInit ==
  \/ regime = "watchdog" /\ Watchdog!HostInit
  \/ regime = "panel" /\ Panel!HostInit
  \/ regime = "shutdown" /\ Shutdown!HostInit

RigNext ==
  \/ regime = "watchdog" /\ Watchdog!Next /\ UNCHANGED <<regime, mainVars>>
  \/ regime = "panel" /\ Panel!Next /\ UNCHANGED <<regime, mainVars>>
  \/ regime = "shutdown" /\ Shutdown!HostNext /\ UNCHANGED regime

\* The poll thread and the clock are never starved, a caller that has pushed
\* returns from Enqueue, and the deadline of UnkeyAndConfirm passes.  Nobody
\* is obliged to press anything or to send the signal.
RigSpec ==
  /\ RigInit /\ [][RigNext]_rigModelVars
  /\ WF_rigModelVars(regime = "watchdog" /\ Watchdog!Poller /\ UNCHANGED <<regime, mainVars>>)
  /\ WF_rigModelVars(regime = "watchdog" /\ Watchdog!Tick /\ UNCHANGED <<regime, mainVars>>)
  /\ WF_rigModelVars(regime = "watchdog" /\ Watchdog!MarkDirty /\ UNCHANGED <<regime, mainVars>>)
  /\ WF_rigModelVars(regime = "shutdown" /\ Shutdown!Poller /\ UNCHANGED <<regime, mainVars>>)
  /\ WF_rigModelVars(regime = "shutdown" /\ main # "serving" /\ Shutdown!Main /\ UNCHANGED regime)
  /\ SF_rigModelVars(regime = "shutdown" /\ Shutdown!GiveUp /\ UNCHANGED regime)

----------------------------------------------------------------------------

\* An unkey that was queued is run, however many commands are queued beside it,
\* unless the poll thread is stopped first.
UnkeyServed ==
  (regime = "watchdog" /\ \E i \in DOMAIN tasks : tasks[i] = Unkey)
    ~> (task = Unkey \/ ~running)

=============================================================================
