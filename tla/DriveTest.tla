----------------------------- MODULE DriveTest -----------------------------
(***************************************************************************)
(* The drive test of the Qt client: the tone sweep that keys the rig and   *)
(* walks the mic gain up a ladder, and the voice check that only watches   *)
(* (client/src/backend.cpp), with the transmit audio it drives             *)
(* (client/src/tx_audio.cpp) and the panel's polling.                      *)
(*                                                                         *)
(* Requests travel on connections of their own: they may overtake one      *)
(* another, and a key or an unkey may be lost.  Assumed of time: the       *)
(* 900 ms of UnkeyAndVerify are longer than the requests in flight, and a  *)
(* poll is answered within them.                                           *)
(***************************************************************************)
EXTENDS Naturals, Sequences, Bags, BagsExt

CONSTANTS
  Silent,      \* no one transmits
  Steps,       \* steps of the ladder, their gains 1 .. Steps
  OpGains,     \* gains the operator sets
  Fiddles,     \* gain and arming are also changed during a test
  VoiceTicks,  \* kVoiceTicks
  MaxTests     \* bound on the tests started

TicksPerStep == 3

VARIABLES
  test,      \* drive_mode_, drive_tick_, drive_idx_, drive_best_gain_ > 0
  saved,     \* drive_saved_gain_, drive_saved_tone_
  gain,      \* the mic gain in use
  tone,      \* test_tone_
  chosen,    \* ghost: the gain and the tone the operator has chosen
  timers,    \* the attempts of UnkeyAndVerify waiting for their 900 ms
  told,      \* "THE RIG IS STILL TRANSMITTING" has been shown since the last sweep began
  session,   \* session_active_
  armed,     \* armed_, the /ws/tx socket is up
  sources,   \* what feeds SendChunk: the microphone, the tone's timer
  rearmed,   \* ghost: the link that is up, if any, was opened while a sweep ran
  micKeyed,  \* keyed_ of TxAudio
  wasTx,     \* was_tx_
  status,    \* status_: empty, or its tx
  reply,     \* the answer to a poll on its way
  fresh,     \* the host has been polled since a request last moved the rig
  air,       \* requests on their way to the host
  host,      \* the host still has the session
  carrier,   \* what keyed the rig, or Silent
  tests      \* counts the tests, for the bound

testVars == <<test, saved, timers, told, tests>>
audioVars == <<gain, tone, chosen, armed, sources, rearmed, micKeyed>>
pollVars == <<wasTx, status, reply, fresh>>
rigVars == <<air, host, carrier>>
driveVars == <<testVars, audioVars, session, pollVars, rigVars>>

ASSUME DriveAssumption ==
  /\ Steps \in Nat \ {0} /\ VoiceTicks \in Nat \ {0} /\ MaxTests \in Nat
  /\ OpGains \subseteq Nat /\ OpGains # {} /\ OpGains \cap 1 .. Steps = {}
  /\ Fiddles \in BOOLEAN /\ Silent \notin {"sweep", "other"}

Gains == OpGains \cup 1 .. Steps
NoTest == [mode |-> "off", tick |-> 0, idx |-> 0, best |-> FALSE]

DriveTypeOK ==
  /\ test.mode \in {"off", "sweep", "voice"} /\ test.best \in BOOLEAN /\ test.idx \in 0 .. Steps - 1
  /\ test.tick \in Nat /\ (test.mode = "sweep" => test.tick < TicksPerStep)
  /\ gain \in Gains /\ saved.gain \in Gains /\ chosen.gain \in Gains
  /\ {tone, told, session, armed, rearmed, micKeyed, wasTx, fresh, host} \subseteq BOOLEAN
  /\ timers \in Seq({1, 2}) /\ sources \subseteq {"mic", "tone"}
  /\ {status, reply} \subseteq {"none", "rx", "tx"}
  /\ IsABag(air) /\ BagToSet(air) \subseteq {"on", "off", "close", "logout"}
  /\ carrier \in {Silent, "sweep", "other"} /\ tests \in 0 .. MaxTests

Idle == Fiddles \/ test.mode # "sweep"

----------------------------------------------------------------------------
(* Starting a test. *)

startToneSweep ==
  /\ tests < MaxTests
  /\ test.mode = "off" /\ session /\ armed /\ status # "none"
  /\ saved' = [gain |-> gain, tone |-> tone]
  /\ test' = [NoTest EXCEPT !.mode = "sweep"]
  /\ tone' = TRUE /\ gain' = 1
  /\ air' = BagAdd(air, "on")
  /\ tests' = tests + 1 /\ told' = FALSE
  /\ UNCHANGED <<timers, chosen, armed, sources, rearmed, micKeyed, session,
                 pollVars, host, carrier>>

startVoiceCheck ==
  /\ tests < MaxTests
  /\ test.mode = "off" /\ session
  /\ test' = [NoTest EXCEPT !.mode = "voice"]
  /\ tests' = tests + 1
  /\ UNCHANGED <<saved, timers, told, audioVars, session, pollVars, rigVars>>

----------------------------------------------------------------------------
(* Ending one. *)

\* Mutant: the settings come back when the sweep has finished.
EndDriveTestDone(best) ==
  /\ test' = [NoTest EXCEPT !.best = best]
  /\ IF test.mode = "sweep"
     THEN /\ timers' = Append(timers, 1) /\ air' = BagAdd(air, "off")
          /\ IF test.idx = Steps - 1
             THEN gain' = saved.gain /\ tone' = saved.tone
             ELSE UNCHANGED <<gain, tone>>
     ELSE UNCHANGED <<timers, air, gain, tone>>

\* What a finished sweep recommends is not applied by it.
EndDriveTest(best) ==
  /\ test' = [NoTest EXCEPT !.best = best]
  /\ IF test.mode = "sweep"
     THEN /\ timers' = Append(timers, 1) /\ air' = BagAdd(air, "off")
          /\ gain' = saved.gain /\ tone' = saved.tone
     ELSE UNCHANGED <<timers, air, gain, tone>>

Ends(best) ==
  /\ EndDriveTest(best)
  /\ UNCHANGED <<saved, told, tests, chosen, armed, sources, rearmed, micKeyed, session,
                 pollVars, host, carrier>>

stopDriveTest == test.mode # "off" /\ Ends(FALSE)

----------------------------------------------------------------------------
(* DriveTick. *)

Goes(t, g) ==
  /\ test' = t /\ gain' = g
  /\ UNCHANGED <<saved, timers, told, tests, tone, chosen, armed, sources,
                 rearmed, micKeyed, session, pollVars, rigVars>>

TickVoice ==
  /\ test.mode = "voice"
  /\ IF test.tick + 1 >= VoiceTicks
     THEN Ends(FALSE)
     ELSE Goes([test EXCEPT !.tick = @ + 1], gain)

\* Somebody dropped the carrier; not looked at in the first two ticks of a
\* step.
Dropped == status # "tx" /\ test.tick > 1

TickAborts == test.mode = "sweep" /\ Ends(FALSE)

\* Mutant: a step waits for the carrier.
TickSweepWaiting ==
  /\ test.mode = "sweep" /\ status = "tx"
  /\ IF test.tick + 1 < TicksPerStep THEN Goes([test EXCEPT !.tick = @ + 1], gain)
     ELSE IF test.idx + 1 >= Steps THEN \E best \in BOOLEAN : Ends(best)
     ELSE Goes([test EXCEPT !.tick = 0, !.idx = @ + 1], test.idx + 2)

TickSweep ==
  /\ test.mode = "sweep"
  /\ IF Dropped THEN Ends(FALSE)
     ELSE IF test.tick + 1 < TicksPerStep THEN Goes([test EXCEPT !.tick = @ + 1], gain)
     ELSE IF test.idx + 1 >= Steps THEN \E best \in BOOLEAN : Ends(best)
     ELSE Goes([test EXCEPT !.tick = 0, !.idx = @ + 1], test.idx + 2)

\* The SWR is the radio's; at kSwrAbort and above it ends the sweep first.
Ticks == TickVoice \/ TickSweep
DriveTick == Ticks \/ TickAborts

\* Mutant: the carrier is not looked at again.
VerifyTrusting ==
  /\ timers' = Tail(timers)
  /\ UNCHANGED <<air, told>>

\* UnkeyAndVerify when its 900 ms are over.
Verify ==
  CASE status # "tx" -> timers' = Tail(timers) /\ UNCHANGED <<air, told>>
    [] status = "tx" /\ Head(timers) = 1 ->
         /\ timers' = Append(Tail(timers), 2)
         /\ air' = BagAdd(air, "off") /\ UNCHANGED told
    [] OTHER -> timers' = Tail(timers) /\ told' = TRUE /\ UNCHANGED air

VerifyTimer ==
  /\ timers # <<>> /\ air = EmptyBag /\ reply = "none" /\ (session => fresh)
  /\ Verify
  /\ UNCHANGED <<test, saved, tests, audioVars, session, pollVars, host, carrier>>

----------------------------------------------------------------------------
(* The operator. *)

setMicGain(g) ==
  /\ Idle
  /\ gain' = g /\ chosen' = [chosen EXCEPT !.gain = g]
  /\ UNCHANGED <<testVars, tone, armed, sources, rearmed, micKeyed, session,
                 pollVars, rigVars>>

\* On the step the last finished sweep recommended, if it did.
applyBestGain ==
  /\ test.best
  /\ \E g \in 1 .. Steps : gain' = g /\ chosen' = [chosen EXCEPT !.gain = g]
  /\ UNCHANGED <<testVars, tone, armed, sources, rearmed, micKeyed, session,
                 pollVars, rigVars>>

\* The host's config has come: the microphone is opened unless the tone is the
\* source, and may be unusable, which the panel says; one that a lost link left
\* open goes on beside the tone.
Opened ==
  IF tone THEN {sources \cup {"tone"}} ELSE SUBSET {"mic"}

\* Arm, to the host's config: the tone has a timer only if it is the source then.
Arm ==
  /\ session /\ ~armed /\ ~BagIn("close", air)
  /\ armed' = TRUE /\ sources' \in Opened /\ rearmed' = (test.mode = "sweep")
  /\ UNCHANGED <<testVars, gain, tone, chosen, micKeyed, session, pollVars, rigVars>>

\* TxAudio::Disarm; keyed_ goes, was_tx_ stays.
Disarms ==
  /\ armed' = FALSE /\ micKeyed' = FALSE /\ sources' = {} /\ rearmed' = FALSE
  /\ UNCHANGED <<gain, tone, chosen>>

Disarm ==
  /\ armed /\ (Fiddles \/ status # "tx")
  /\ Disarms /\ air' = BagAdd(air, "close")
  /\ UNCHANGED <<testVars, session, pollVars, host, carrier>>

\* The socket is lost: the host sees the close as well.  The tone's timer stops
\* with it, the microphone stays open.
LinkDrops ==
  /\ armed /\ armed' = FALSE /\ sources' = sources \ {"tone"} /\ rearmed' = FALSE
  /\ air' = BagAdd(air, "close")
  /\ UNCHANGED <<testVars, gain, tone, chosen, micKeyed, session, pollVars, host, carrier>>

disconnectSession ==
  /\ session /\ session' = FALSE
  /\ Disarms
  /\ air' = BagAdd(IF armed THEN BagAdd(air, "close") ELSE air, "logout")
  /\ status' = "none"
  /\ UNCHANGED <<testVars, wasTx, reply, fresh, host, carrier>>

\* OnMicReady and PushTestTone: what a source yields is sent while TX is armed
\* and keyed, and thrown away otherwise.
GoesOut == IF armed /\ micKeyed THEN sources ELSE {}

----------------------------------------------------------------------------
(* The panel's polls. *)

PollServed ==
  /\ session /\ reply = "none"
  /\ reply' = (IF carrier # Silent THEN "tx" ELSE "rx") /\ fresh' = TRUE
  /\ UNCHANGED <<testVars, audioVars, session, wasTx, status, rigVars>>

\* The audio follows the rig on an edge.
StatusUpdated ==
  /\ reply # "none"
  /\ status' = reply /\ reply' = "none" /\ wasTx' = (reply = "tx")
  /\ micKeyed' = IF wasTx' # wasTx THEN wasTx' ELSE micKeyed
  /\ UNCHANGED <<testVars, gain, tone, chosen, armed, sources, rearmed, session,
                 fresh, rigVars>>

----------------------------------------------------------------------------
(* The host and the rig. *)

\* A key or an unkey needs the session; the close of /ws/tx unkeys.
Obeyed(c) ==
  CASE c = "on" /\ host /\ carrier = Silent -> "sweep"
    [] c = "off" /\ host -> Silent
    [] c = "close" -> Silent
    [] OTHER -> carrier

HostServes(c) ==
  /\ carrier' = Obeyed(c) /\ air' = BagRemove(air, c)
  /\ host' = (host /\ c # "logout")
  /\ fresh' = (fresh /\ carrier' = carrier)
  /\ UNCHANGED <<testVars, audioVars, session, wasTx, status, reply>>

Lost(c) ==
  /\ c \in {"on", "off"} /\ air' = BagRemove(air, c)
  /\ UNCHANGED <<testVars, audioVars, session, pollVars, host, carrier>>

\* The microphone at the radio, or another panel.
OtherKeys ==
  /\ carrier = Silent /\ carrier' = "other"
  /\ UNCHANGED <<testVars, audioVars, session, pollVars, air, host>>

OtherUnkeys ==
  /\ carrier = "other" /\ carrier' = Silent
  /\ UNCHANGED <<testVars, audioVars, session, pollVars, air, host>>

----------------------------------------------------------------------------

DriveInit ==
  /\ test = NoTest /\ timers = <<>> /\ told = FALSE /\ tests = 0
  /\ tone \in BOOLEAN /\ gain = CHOOSE g \in OpGains : TRUE
  /\ saved = [gain |-> gain, tone |-> FALSE]
  /\ chosen = [gain |-> gain, tone |-> tone]
  /\ session = TRUE /\ armed = FALSE /\ sources = {} /\ rearmed = FALSE
  /\ micKeyed = FALSE
  /\ wasTx = FALSE /\ status = "none" /\ reply = "none" /\ fresh = FALSE
  /\ air = EmptyBag /\ host = TRUE /\ carrier = Silent

DriveNext ==
  \/ startToneSweep \/ startVoiceCheck \/ stopDriveTest \/ DriveTick \/ VerifyTimer
  \/ \E g \in OpGains : setMicGain(g)
  \/ applyBestGain \/ Arm \/ Disarm \/ LinkDrops \/ disconnectSession
  \/ PollServed \/ StatusUpdated
  \/ \E c \in BagToSet(air) : HostServes(c) \/ Lost(c)
  \/ OtherKeys \/ OtherUnkeys

----------------------------------------------------------------------------

SettingsComeBack ==
  test.mode = "off" => gain = chosen.gain /\ tone = chosen.tone

\* Once a sweep's unkey has been verified, the rig is not left on the
\* sweep's carrier unless the operator has been told so: a lost unkey, or
\* one that overtook its key, is caught by the second look.
LeftUnkeyedOrTold ==
  test.mode = "off" /\ timers = <<>> /\ air = EmptyBag /\ session /\ ~told =>
    carrier # "sweep"

MicFollowsRig == armed /\ status = "tx" => GoesOut = sources

\* Outside a sweep nothing goes out but the source the operator chose.  A link
\* opened while a sweep ran is left out: the timer of the tone that Arm started
\* then goes on when the sweep is over.
OnlyTheChosen ==
  test.mode # "sweep" /\ ~rearmed =>
    GoesOut \subseteq {IF chosen.tone THEN "tone" ELSE "mic"}

\* A test that is over, by whichever way it ended, has left gain and source as
\* the operator chose them; a link opened outside a sweep sends the source chosen
\* and no other, through links lost and opened again; and while TX is armed
\* and the panel shows the rig transmitting, what is open goes out, whoever keyed.
AudioAsChosen == SettingsComeBack /\ OnlyTheChosen /\ MicFollowsRig

\* A test ends by itself, carrier or not.
TestsEnd == test.mode # "off" ~> test.mode = "off"
=============================================================================
