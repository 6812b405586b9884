---------------------------- MODULE HostShutdown ----------------------------
(***************************************************************************)
(* The end of main (src/src/main.cpp) and RadioPoller::UnkeyAndConfirm:    *)
(* stop the listeners, note whether the rig is keyed, stop the poll        *)
(* thread, unkey, exit.  The poll thread, its queue and the radio are      *)
(* those of RadioPoller; the tuners' workers and the CAT proxy are still   *)
(* running while the listeners are stopped and queue LateRequests.         *)
(***************************************************************************)
EXTENDS RadioPoller

CONSTANT LateRequests

ASSUME LateRequestsAssumption == LateRequests \subseteq Requests

VARIABLES
  main,       \* where the main thread is
  was_keyed,  \* main's was_keyed
  confirmed   \* what UnkeyAndConfirm returned

mainVars == <<main, was_keyed, confirmed>>
hostVars == <<vars, mainVars>>
restVars == <<queueVars, pollVars, dogVars, gap>>

MainSteps == {"serving", "listeners", "snapshot", "stop", "join", "unkey",
              "confirm", "resend", "exited"}

HostTypeOK ==
  /\ TypeOK
  /\ main \in MainSteps
  /\ {was_keyed, confirmed} \subseteq BOOLEAN

HostInit == Init /\ main = "serving" /\ was_keyed = FALSE /\ confirmed = FALSE

Goto(here, there) == main = here /\ main' = there

Signal == Goto("serving", "listeners") /\ UNCHANGED <<vars, was_keyed, confirmed>>

\* control.Stop and dashboard.Stop return when no handler is running.
ListenersStopped ==
  /\ Goto("listeners", "snapshot")
  /\ UNCHANGED <<vars, was_keyed, confirmed>>

ReadWasKeyed ==
  /\ Goto("snapshot", "stop")
  /\ was_keyed' = snap.TX
  /\ UNCHANGED <<vars, confirmed>>

StopPoller ==
  /\ Goto("stop", "join")
  /\ Stop
  /\ UNCHANGED <<was_keyed, confirmed>>

Joined ==
  /\ pc = "stopped"
  /\ main = "join" /\ main' = IF was_keyed THEN "unkey" ELSE "exited"
  /\ UNCHANGED <<vars, was_keyed, confirmed>>

\* UnkeyAndConfirm: TX0, then ask until the rig says it is receiving or the
\* deadline passes, with another TX0 after every answer that does not say so.
SendUnkey ==
  /\ Goto("unkey", "confirm") \/ Goto("resend", "confirm")
  /\ \E r \in Sent(<<"TX", FALSE>>) : RigBecomes(r)
  /\ UNCHANGED <<restVars, running, was_keyed, confirmed>>

\* Mutant: no reply is taken for an answer.
AskTrusting ==
  /\ main = "confirm"
  /\ \/ (~rig.TX \/ LossyReads) /\ main' = "exited" /\ confirmed' = TRUE
     \/ rig.TX /\ main' = "resend" /\ UNCHANGED confirmed
  /\ UNCHANGED <<vars, was_keyed>>

AskUnkeyed ==
  /\ main = "confirm"
  /\ \/ ~rig.TX /\ main' = "exited" /\ confirmed' = TRUE
     \/ (rig.TX \/ LossyReads) /\ main' = "resend" /\ UNCHANGED confirmed
  /\ UNCHANGED <<vars, was_keyed>>

\* The deadline is looked at before each question.
GiveUp ==
  /\ Goto("confirm", "exited")
  /\ UNCHANGED <<vars, was_keyed, confirmed>>

Main ==
  \/ Signal \/ ListenersStopped \/ ReadWasKeyed \/ StopPoller \/ Joined
  \/ SendUnkey \/ AskUnkeyed \/ GiveUp

\* Handlers run until the listeners are stopped, the other threads that own
\* requests until the process ends.
HostCallers ==
  /\ \/ main \in {"serving", "listeners"} /\ \E r \in Requests : Enqueue(r)
     \/ main # "exited" /\ \E r \in LateRequests : Enqueue(r)
     \/ main # "exited" /\ MarkDirty
  /\ UNCHANGED mainVars

HostNext == Main \/ HostCallers \/ (Poller /\ UNCHANGED mainVars)

HostSpec == HostInit /\ [][HostNext]_hostVars

----------------------------------------------------------------------------
\* "Exactly one thread owns the serial port": main talks to the rig only when
\* the poll thread has ended, after the join in RadioPoller::Stop.
OneThreadOnPort == main \in {"unkey", "confirm", "resend"} => pc = "stopped"

\* When UnkeyAndConfirm reports that the rig confirmed, it is not keyed: no
\* lost command, lost reply or late request can make the report false.
ConfirmedIsOff == main = "exited" /\ confirmed => ~rig.TX

\* Shutdown ends once the signal is taken: the join, the unkey and the exit
\* are reached, whatever was queued when the listeners stopped.
ShutdownEnds ==
  []<>(pc # "drain") => (main = "listeners" ~> main = "exited")

\* The handler's whole purpose: the process does not exit with the rig keyed.
NoCarrierLeft == main = "exited" => ~rig.TX
=============================================================================
