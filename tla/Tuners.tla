------------------------------- MODULE Tuners -------------------------------
(***************************************************************************)
(* The two tunes that key the rig from a thread of their own: AmpTuner and *)
(* TgxlTuner (src/src/amp_tuner.cpp, tgxl.cpp), each a worker that saves   *)
(* power and mode from the poller's cache, sets its own, keys, waits,      *)
(* unkeys and puts back.  The workers touch the rig through RigControl     *)
(* (src/src/main.cpp): setters queue a command on RadioPoller, getters     *)
(* read its snapshot.  The poll thread is RadioPoller's, coarser.          *)
(***************************************************************************)
EXTENDS Integers, Sequences, FiniteSets

CONSTANTS
  Used,       \* the tuners this host has, a subset of {"amp", "tgxl"}
  Homes,      \* what operators set: records of a power in W and a mode code
  Regimes,    \* the circumstances a behaviour may be in
  MaxQueue    \* bound on the length of tasks

Codes == 1 .. 9

ASSUME UsedAssumption == Used \subseteq {"amp", "tgxl"}
ASSUME HomesAssumption == Homes \subseteq [power : 1 .. 200, mode : Codes]
ASSUME RegimesAssumption ==
  Regimes \subseteq [lossyReads : BOOLEAN, calm : BOOLEAN, overlap : BOOLEAN,
                     settles : BOOLEAN, homes : SUBSET Homes]
ASSUME BoundAssumption == MaxQueue \in Nat \ {0}

VARIABLES
  active,  \* the tuners with active_ set
  stop,    \* the tuners with stop_ set
  pc,      \* where each worker is
  asleep,  \* workers in sleep_for
  keyed,   \* workers whose local keyed is set
  saved,   \* saved_power and saved_mode of each worker
  tasks,   \* RadioPoller's tasks_, one command each
  rig,     \* the radio
  s,       \* the snapshot being read; NoRead between cycles
  snap,    \* the published snapshot
  home,    \* the settings a tune is to leave behind
  regime   \* the circumstances of this behaviour, which stay as they are

workers == <<active, stop, pc, asleep, keyed, saved>>
vars == <<workers, tasks, rig, s, snap, home, regime>>

LossyReads == regime.lossyReads  \* a poll may fail and publish a blank snapshot
Calm    == regime.calm     \* a tune starts only when the cache shows the rig as it is
Overlap == regime.overlap  \* one tuner may start while the other is active
Settles == regime.settles  \* a worker's sleep outlasts the poll cycle it began in

----------------------------------------------------------------------------
(* Mode codes and names. *)

ModeName(code) ==
  <<"LSB", "USB", "CW", "FM", "AM", "RTTY-L", "CW-R", "DATA-L", "RTTY-U">>[code]

\* The inverse of ModeName on the first five codes only.
ModeCode(name) ==
  IF name = "DATA-U" THEN 9
  ELSE IF \E code \in 1 .. 5 : ModeName(code) = name
  THEN CHOOSE code \in 1 .. 5 : ModeName(code) = name
  ELSE 0

Names == {ModeName(code) : code \in Codes}

Nothing == [power |-> 0, mode |-> ""]   \* saved_power and saved_mode at first

\* What a poll reads; a failed one leaves every field at its default.
Blank == [tx |-> FALSE, power |-> 0, mode |-> ""]
Reading(r) == [tx |-> r.tx, power |-> r.power, mode |-> ModeName(r.mode)]
NoRead == [tx |-> FALSE, power |-> -1, mode |-> ""]

----------------------------------------------------------------------------
TunePower == [amp |-> 20, tgxl |-> 15]   \* kTunePowerWatts
AfterPower == 100                        \* kAfterPowerWatts

Powers == {h.power : h \in Homes} \cup {15, 20, AfterPower}
Commands == ({"PC"} \X Powers) \cup ({"MD"} \X (0 .. 9)) \cup ({"TX"} \X BOOLEAN)
Rig == [tx : BOOLEAN, power : Powers, mode : Codes]
Snapshots == {Blank} \cup {Reading(r) : r \in Rig}

Places == {"idle", "save", "power", "mode", "check", "connect", "key", "carrier",
           "unkey", "powerback", "modeback", "done"}

TypeOK ==
  /\ active \subseteq Used /\ stop \subseteq Used
  /\ asleep \subseteq Used /\ keyed \subseteq Used
  /\ pc \in [Used -> Places]
  /\ saved \in [Used -> [power : Powers \cup {0}, mode : Names \cup {""}]]
  /\ tasks \in Seq(Commands)
  /\ rig \in Rig
  /\ s \in Snapshots \cup {NoRead} /\ snap \in Snapshots
  /\ home \in [power : Powers, mode : Codes]

Init ==
  /\ active = {} /\ stop = {} /\ asleep = {} /\ keyed = {}
  /\ pc = [t \in Used |-> "idle"]
  /\ saved = [t \in Used |-> Nothing]
  /\ tasks = <<>>
  /\ regime \in Regimes /\ home \in regime.homes
  /\ rig = [tx |-> FALSE, power |-> home.power, mode |-> home.mode]
  /\ s = NoRead /\ snap = Reading(rig)

----------------------------------------------------------------------------
(* Tune: a press starts the worker, or stops the one that is active. *)

Start(t) ==
  /\ t \notin active
  /\ Calm => tasks = <<>> /\ s = NoRead /\ snap = Reading(rig)
  /\ Overlap \/ active = {}
  /\ active' = active \cup {t}
  /\ stop' = stop \ {t}
  /\ pc' = [pc EXCEPT ![t] = "save"]
  /\ UNCHANGED <<asleep, keyed, saved, tasks, rig, s, snap, home>>

StopPress(t) ==
  /\ t \in active
  /\ stop' = stop \cup {t}
  /\ UNCHANGED <<active, pc, asleep, keyed, saved, tasks, rig, s, snap, home>>

----------------------------------------------------------------------------
(* Worker. *)

At(t, here) == pc[t] = here /\ t \notin asleep
Goto(t, there) == pc' = [pc EXCEPT ![t] = there]

\* Queue a command and sleep for the settle time.
Queue(c) == Len(tasks) < MaxQueue /\ tasks' = Append(tasks, c)
QueueAndSleep(t, c) == Queue(c) /\ asleep' = asleep \cup {t}

polled == <<rig, s, snap>>

\* get_power and get_mode.
Save(t) ==
  /\ At(t, "save") /\ Goto(t, "power")
  /\ saved' = [saved EXCEPT ![t] = [power |-> snap.power, mode |-> snap.mode]]
  /\ UNCHANGED <<active, stop, asleep, keyed, tasks, polled, home>>

SetPower(t) ==
  /\ At(t, "power") /\ Goto(t, "mode")
  /\ QueueAndSleep(t, <<"PC", TunePower[t]>>)
  /\ UNCHANGED <<active, stop, keyed, saved, polled, home>>

SetMode(t) ==
  /\ At(t, "mode") /\ Goto(t, "check")
  /\ QueueAndSleep(t, <<"MD", ModeCode("CW")>>)
  /\ UNCHANGED <<active, stop, keyed, saved, polled, home>>

CheckStop(t) ==
  /\ At(t, "check")
  /\ Goto(t, IF t \in stop THEN "unkey" ELSE IF t = "tgxl" THEN "connect" ELSE "key")
  /\ UNCHANGED <<active, stop, asleep, keyed, saved, tasks, polled, home>>

\* ConnectWithTimeout: an unreachable tuner ends the tune with nothing keyed.
Connect(t) ==
  /\ At(t, "connect")
  /\ Goto(t, "key") \/ Goto(t, "unkey")
  /\ UNCHANGED <<active, stop, asleep, keyed, saved, tasks, polled, home>>

\* Mutant: the key-up is not noted.
KeyUpUnnoted(t) ==
  /\ At(t, "key") /\ Goto(t, "carrier")
  /\ Queue(<<"TX", TRUE>>)
  /\ asleep' = IF t = "tgxl" THEN asleep \cup {t} ELSE asleep
  /\ UNCHANGED <<active, stop, keyed, saved, polled, home>>

KeyUp(t) ==
  /\ At(t, "key") /\ Goto(t, "carrier")
  /\ Queue(<<"TX", TRUE>>)
  /\ asleep' = IF t = "tgxl" THEN asleep \cup {t} ELSE asleep
  /\ keyed' = keyed \cup {t}
  /\ UNCHANGED <<active, stop, saved, polled, home>>

\* Mutant: only a press ends the carrier.
CarrierEndsPressed(t) ==
  /\ At(t, "carrier") /\ t \in stop /\ Goto(t, "unkey")
  /\ UNCHANGED <<active, stop, asleep, keyed, saved, tasks, polled, home>>

\* Mutant: active_ is cleared before restore(), not after.
CarrierEndsInactive(t) ==
  /\ At(t, "carrier") /\ Goto(t, "unkey")
  /\ active' = active \ {t}
  /\ UNCHANGED <<stop, asleep, keyed, saved, tasks, polled, home>>

\* The time is up, stop_ is set, or the tuner reports that it has finished,
\* never started, or is gone.
CarrierEnds(t) ==
  /\ At(t, "carrier") /\ Goto(t, "unkey")
  /\ UNCHANGED <<active, stop, asleep, keyed, saved, tasks, polled, home>>

KeyDown(t) ==
  /\ At(t, "unkey") /\ Goto(t, "powerback")
  /\ IF t \in keyed THEN QueueAndSleep(t, <<"TX", FALSE>>)
                    ELSE UNCHANGED <<tasks, asleep>>
  /\ keyed' = keyed \ {t}
  /\ UNCHANGED <<active, stop, saved, polled, home>>

\* The amplifier tune ends at 100 W; the antenna tuner puts back what it saved,
\* if it had read one.
PowerBack(t) ==
  /\ At(t, "powerback") /\ Goto(t, "modeback")
  /\ IF t = "amp"
     THEN /\ home' = [home EXCEPT !.power = AfterPower]
          /\ Queue(<<"PC", AfterPower>>)
          /\ asleep' = IF saved[t].mode # "" THEN asleep \cup {t} ELSE asleep
     ELSE /\ UNCHANGED home
          /\ IF saved[t].power > 0 THEN QueueAndSleep(t, <<"PC", saved[t].power>>)
                                   ELSE UNCHANGED <<tasks, asleep>>
  /\ UNCHANGED <<active, stop, keyed, saved, polled>>

\* Mutant: a stopped tune returns without putting the mode back.
ModeBackUnlessStopped(t) ==
  /\ At(t, "modeback") /\ Goto(t, "done")
  /\ IF saved[t].mode = "" \/ t \in stop THEN UNCHANGED <<tasks, asleep>>
     ELSE /\ Queue(<<"MD", ModeCode(saved[t].mode)>>)
          /\ asleep' = IF t = "tgxl" THEN asleep \cup {t} ELSE asleep
  /\ UNCHANGED <<active, stop, keyed, saved, polled, home>>

ModeBack(t) ==
  /\ At(t, "modeback") /\ Goto(t, "done")
  /\ IF saved[t].mode = "" THEN UNCHANGED <<tasks, asleep>>
     ELSE /\ Queue(<<"MD", ModeCode(saved[t].mode)>>)
          /\ asleep' = IF t = "tgxl" THEN asleep \cup {t} ELSE asleep
  /\ UNCHANGED <<active, stop, keyed, saved, polled, home>>

Done(t) ==
  /\ At(t, "done") /\ Goto(t, "idle")
  /\ active' = active \ {t}
  /\ saved' = [saved EXCEPT ![t] = Nothing]
  /\ UNCHANGED <<stop, asleep, keyed, tasks, polled, home>>

\* A sleep is over; one that Settles is over only once a cycle has ended.
WakeUp(t) ==
  /\ t \in asleep /\ ~Settles
  /\ asleep' = asleep \ {t}
  /\ UNCHANGED <<active, stop, pc, keyed, saved, tasks, polled, home>>

Worker(t) ==
  \/ Save(t) \/ SetPower(t) \/ SetMode(t) \/ CheckStop(t) \/ Connect(t)
  \/ KeyUp(t) \/ CarrierEnds(t) \/ KeyDown(t) \/ PowerBack(t) \/ ModeBack(t) \/ Done(t)
  \/ WakeUp(t)

----------------------------------------------------------------------------
(* The poll thread, and an operator at the controls between tunes. *)

\* The rig takes a command; it does not know a mode 0.
Obeyed(c) ==
  IF c[1] = "PC" THEN [rig EXCEPT !.power = c[2]]
  ELSE IF c[1] = "TX" THEN [rig EXCEPT !.tx = c[2]]
  ELSE IF c[2] = 0 THEN rig
  ELSE [rig EXCEPT !.mode = c[2]]

DrainOne ==
  /\ s = NoRead /\ tasks # <<>>
  /\ rig' = Obeyed(Head(tasks))
  /\ tasks' = Tail(tasks)
  /\ UNCHANGED <<workers, s, snap, home>>

PollRead ==
  /\ s = NoRead /\ tasks = <<>>
  /\ s' = Reading(rig)
  /\ UNCHANGED <<workers, tasks, rig, snap, home>>

PollFails ==
  /\ s = NoRead /\ tasks = <<>> /\ LossyReads
  /\ s' = Blank
  /\ UNCHANGED <<workers, tasks, rig, snap, home>>

Publish ==
  /\ s # NoRead
  /\ snap' = s
  /\ s' = NoRead
  /\ asleep' = IF Settles THEN {} ELSE asleep
  /\ UNCHANGED <<active, stop, pc, keyed, saved, tasks, rig, home>>

Poller == DrainOne \/ PollRead \/ PollFails \/ Publish

Dial(h) ==
  /\ active = {} /\ tasks = <<>>
  /\ rig' = [tx |-> FALSE, power |-> h.power, mode |-> h.mode]
  /\ home' = h
  /\ UNCHANGED <<workers, tasks, s, snap>>

----------------------------------------------------------------------------

Next ==
  /\ \/ \E t \in Used : Start(t) \/ StopPress(t) \/ Worker(t)
     \/ Poller
     \/ \E h \in regime.homes : Dial(h)
  /\ UNCHANGED regime

Spec == Init /\ [][Next]_vars

----------------------------------------------------------------------------
(* Properties. *)

\* Whatever was pressed and however a tune ended, once the workers are done
\* and the queue is empty the rig is not transmitting.
LeftUnkeyed == active = {} /\ tasks = <<>> => ~rig.tx

\* A carrier a tuner raised is never reported to the recorder and the dead-link
\* check as somebody's over: while a poll that read TX is in its callback,
\* a tuner still says it is active, on a host whose workers' sleeps outlast a
\* poll cycle.
NoTunedOver == Settles /\ s # NoRead /\ s.tx => active # {}

\* A tune puts back what it found (the amplifier's ends at 100 W): the rig is
\* left on the operator's power and mode, where tunes come one at a time, each
\* from a cache that is current, and polls are answered.
Undisturbed == Calm /\ ~Overlap /\ ~LossyReads

PutBack ==
  Undisturbed /\ active = {} /\ tasks = <<>> =>
    rig.power = home.power /\ rig.mode = home.mode

\* Every carrier a tuner raises ends: no tune is kept up by a tuner that does
\* not answer, and no press makes a worker miss its own unkey.  Stated for tunes
\* that come one at a time.
CarrierGoes == Undisturbed /\ rig.tx ~> ~rig.tx
=============================================================================
