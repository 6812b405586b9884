------------------------------ MODULE Recording ------------------------------
(***************************************************************************)
(* One WAV file and the three threads that open and close it: Recorder     *)
(* (src/src/recorder.cpp) under its mutex, QsoRecorder on the poll thread  *)
(* (qso_record.cpp), the audio thread that feeds the file and cuts it at   *)
(* the ceiling, and the /api/record routes (api.cpp).                      *)
(*                                                                         *)
(* A file is the tag it was opened with, the frequency its sidecar will    *)
(* give as its start, the state of its last over and its length.  Feed,    *)
(* the handlers and each part of Observe that takes the recorder's mutex   *)
(* are steps of their own.                                                 *)
(***************************************************************************)
EXTENDS Integers

CONSTANTS
  Freqs,      \* frequencies the rig can be on (0 is "not read")
  Enabled,    \* ptt_record_enabled
  Idle,       \* idle_seconds in ticks
  Threshold,  \* qsy_threshold_hz
  Ceiling,    \* record_max_seconds in feeds, 0 is no ceiling
  MaxGap      \* longest time, in ticks, from one Observe to the next

ASSUME FreqsAssumption == Freqs \subseteq Nat \ {0}
ASSUME EnabledAssumption == Enabled \in BOOLEAN
ASSUME NumbersAssumption ==
  Idle \in Nat /\ Threshold \in Nat /\ Ceiling \in Nat /\ MaxGap \in Nat \ {0}

VARIABLES
  file,        \* file_ and what belongs to it; NoFile when null
  sidecar,     \* the last sidecar written
  prov,        \* prov_
  active,      \* active_
  last_tx,     \* last_tx_
  start_freq,  \* start_freq_
  quiet,       \* ticks since deadline_ was pushed out, while active
  pc,          \* where the poll thread is in Observe
  edge,        \* the PTT edge this Observe has seen
  toggle,      \* what a /api/record/toggle handler has decided to do
  gap          \* ticks since the last Observe began

qsoVars == <<active, last_tx, start_freq, quiet>>
pollVars == <<pc, edge>>
vars == <<file, sidecar, prov, qsoVars, pollVars, toggle, gap>>

Tags == {"rec", "qso"}
Triggers == {"manual", "idle", "qsy"}
Overs == {"none", "open", "closed"}

Readings == [connected : BOOLEAN, freq : Freqs \cup {0}]
NoReading == [connected |-> FALSE, freq |-> 0]

Files == [tag : Tags, begun : Freqs \cup {0}, over : Overs, frames : Nat]
NoFile == [tag |-> "", begun |-> 0, over |-> "none", frames |-> 0]
Sidecars == [tag : Tags, begun : Freqs \cup {0}, ended : Freqs \cup {0}, trigger : Triggers]
NoSidecar == [tag |-> "", begun |-> 0, ended |-> 0, trigger |-> ""]

TypeOK ==
  /\ file \in Files \cup {NoFile}
  /\ sidecar \in Sidecars \cup {NoSidecar}
  /\ prov \in Readings
  /\ {active, last_tx} \subseteq BOOLEAN
  /\ start_freq \in Freqs \cup {0}
  /\ quiet \in Nat
  /\ pc \in {"away", "start", "note", "check"}
  /\ edge \in {"none", "rising", "falling"}
  /\ toggle \in {"none", "start", "stop"}
  /\ gap \in 0 .. MaxGap

Init ==
  /\ file = NoFile /\ sidecar = NoSidecar /\ prov = NoReading
  /\ active = FALSE /\ last_tx = FALSE /\ start_freq = 0 /\ quiet = 0
  /\ pc = "away" /\ edge = "none" /\ toggle = "none" /\ gap = 0

----------------------------------------------------------------------------
(* Recorder, under mu_. *)

Recording == file # NoFile

\* Start: the file is opened or, on a full disk, is not.  A start that finds
\* one open starts nothing.
Opens(tag) ==
  /\ ~Recording
  /\ file' = [tag |-> tag, begun |-> prov.freq, over |-> "none", frames |-> 0]

\* Stop: the sidecar is written from the state that made the file.
Closes(trigger) ==
  /\ file' = NoFile
  /\ sidecar' = IF Recording
                THEN [tag |-> file.tag, begun |-> file.begun, ended |-> prov.freq,
                      trigger |-> trigger]
                ELSE sidecar

\* Feed, on the audio thread: at the ceiling the file is closed in place,
\* without a sidecar, and QsoRecorder is not told.
Feed ==
  /\ Recording /\ Ceiling > 0
  /\ file' = IF file.frames + 1 >= Ceiling THEN NoFile
             ELSE [file EXCEPT !.frames = @ + 1]
  /\ UNCHANGED <<sidecar, prov, qsoVars, pollVars, toggle, gap>>

----------------------------------------------------------------------------
(* /api/record/start, stop and toggle. *)

HandlerStart ==
  /\ Opens("rec")
  /\ UNCHANGED <<sidecar, prov, qsoVars, pollVars, toggle, gap>>

HandlerStop ==
  /\ Recording /\ Closes("manual")
  /\ UNCHANGED <<prov, qsoVars, pollVars, toggle, gap>>

\* The toggle reads recording_ and then calls Start or Stop.
ToggleReads ==
  /\ toggle = "none"
  /\ toggle' = IF Recording THEN "stop" ELSE "start"
  /\ UNCHANGED <<file, sidecar, prov, qsoVars, pollVars, gap>>

ToggleActs ==
  /\ toggle # "none"
  /\ \/ toggle = "start" /\ Opens("rec") /\ UNCHANGED sidecar
     \/ toggle = "start" /\ UNCHANGED <<file, sidecar>>
     \/ toggle = "stop" /\ Closes("manual")
  /\ toggle' = "none"
  /\ UNCHANGED <<prov, qsoVars, pollVars, gap>>

----------------------------------------------------------------------------
(* QsoRecorder::Observe, once in every poll cycle. *)

\* What a cycle reports.  A failed one reports a rig that is not connected; a
\* lost FA; leaves the frequency at 0 in a cycle that is.
Observations ==
  {o \in [reading : Readings, tx : BOOLEAN, tuning : BOOLEAN] :
     ~o.reading.connected => o.reading = NoReading /\ ~o.tx}

Edge(o) ==
  IF o.tuning \/ o.tx = last_tx THEN "none" ELSE IF o.tx THEN "rising" ELSE "falling"

\* Mutant: a tune moves the remembered PTT state.
ObserveTune(o) ==
  /\ pc = "away"
  /\ prov' = o.reading
  /\ edge' = Edge(o)
  /\ last_tx' = o.tx
  /\ pc' = IF Enabled /\ edge' = "rising" /\ ~active THEN "start" ELSE "note"
  /\ quiet' = IF Enabled /\ edge' = "rising" THEN 0 ELSE quiet
  /\ gap' = 0
  /\ UNCHANGED <<file, sidecar, active, start_freq, toggle>>

Observe(o) ==
  /\ pc = "away"
  /\ prov' = o.reading
  /\ edge' = Edge(o)
  /\ last_tx' = IF o.tuning THEN last_tx ELSE o.tx
  /\ pc' = IF Enabled /\ edge' = "rising" /\ ~active THEN "start" ELSE "note"
  /\ quiet' = IF Enabled /\ edge' = "rising" THEN 0 ELSE quiet
  /\ gap' = 0
  /\ UNCHANGED <<file, sidecar, active, start_freq, toggle>>

StartAuto ==
  /\ pc = "start"
  /\ Opens("qso")
  /\ active' = TRUE /\ start_freq' = prov.freq /\ quiet' = 0
  /\ pc' = "note"
  /\ UNCHANGED <<sidecar, prov, last_tx, edge, toggle, gap>>

\* A file is open already, or cannot be opened: Observe returns here, with the
\* over not noted.
StartFails ==
  /\ pc = "start"
  /\ pc' = "away"
  /\ UNCHANGED <<file, sidecar, prov, qsoVars, edge, toggle, gap>>

\* NoteOver.
Note ==
  /\ pc = "note"
  /\ file' = IF ~Recording \/ edge = "none" THEN file
             ELSE IF edge = "rising" THEN [file EXCEPT !.over = "open"]
             ELSE IF file.over = "open" THEN [file EXCEPT !.over = "closed"]
             ELSE file
  /\ pc' = IF active THEN "check" ELSE "away"
  /\ UNCHANGED <<sidecar, prov, qsoVars, edge, toggle, gap>>

Distance(a, b) == IF a > b THEN a - b ELSE b - a

IdleIsOver == quiet > Idle

Moved == start_freq > 0 /\ prov.connected /\ Distance(prov.freq, start_freq) > Threshold

\* Stop of QsoRecorder; a file somebody else closed is not there to close.
StopAuto ==
  /\ pc = "check" /\ (IdleIsOver \/ Moved)
  /\ Closes(IF IdleIsOver THEN "idle" ELSE "qsy")
  /\ active' = FALSE /\ start_freq' = 0 /\ quiet' = 0
  /\ pc' = "away"
  /\ UNCHANGED <<prov, last_tx, edge, toggle, gap>>

\* Mutant: the deadline counts only while the rig answers.
GoOnDeaf ==
  /\ pc = "check" /\ (~IdleIsOver \/ ~prov.connected) /\ ~Moved
  /\ pc' = "away"
  /\ UNCHANGED <<file, sidecar, prov, qsoVars, edge, toggle, gap>>

GoOn ==
  /\ pc = "check" /\ ~IdleIsOver /\ ~Moved
  /\ pc' = "away"
  /\ UNCHANGED <<file, sidecar, prov, qsoVars, edge, toggle, gap>>

\* The clock: the poll thread begins a cycle at least every MaxGap ticks.
Tick ==
  /\ gap < MaxGap
  /\ gap' = gap + 1
  /\ quiet' = IF active THEN quiet + 1 ELSE quiet
  /\ UNCHANGED <<file, sidecar, prov, active, last_tx, start_freq, pollVars, toggle>>

----------------------------------------------------------------------------

PollThread ==
  \/ \E o \in Observations : Observe(o)
  \/ StartAuto \/ StartFails \/ Note \/ StopAuto \/ GoOn

Handler == HandlerStart \/ HandlerStop \/ ToggleReads \/ ToggleActs

Next == PollThread \/ Handler \/ Feed \/ Tick

Spec == Init /\ [][Next]_vars

----------------------------------------------------------------------------
(* Properties. *)

\* An automatic recording is never an orphan: as long as its file is open the
\* state machine that will end it is running, and measures QSY from the
\* frequency its sidecar will give as the start.
AutoIsOwned == file.tag = "qso" => active /\ file.begun = start_freq

\* The sidecar's overs bracket the exchange: between polls the last over of an
\* automatic recording is open exactly while the operator is keyed, whatever
\* was fed, stopped, restarted or tuned meanwhile.
OversBracketed ==
  file.tag = "qso" /\ pc \in {"away", "check"} => (file.over = "open" <=> last_tx)

\* A recording is never filed under a frequency the operator left long ago:
\* between polls an automatic recording is within the threshold of where it
\* began, in however small steps the rig was tuned.
FiledWhereItIs ==
  file.tag = "qso" /\ pc = "away" /\ file.begun > 0 /\ prov.connected =>
    Distance(prov.freq, file.begun) <= Threshold

\* A sidecar of an automatic recording backs its own trigger: one that says
\* "qsy" has a start and an end that are more than the threshold apart.
SidecarBacksTrigger ==
  sidecar.tag = "qso" /\ sidecar.trigger = "qsy" =>
    Distance(sidecar.ended, sidecar.begun) > Threshold

\* Nobody has to stop an automatic recording: it ends within the idle time and
\* two poll cycles of the last press, whoever else opened and closed files.
AutoEnds == active => quiet <= Idle + 2 * MaxGap
=============================================================================
