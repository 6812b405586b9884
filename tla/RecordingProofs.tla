--------------------------- MODULE RecordingProofs ---------------------------
(***************************************************************************)
(* Theorems about Recording, for any idle time, threshold, ceiling and     *)
(* band, with automatic recording on or off.                               *)
(***************************************************************************)
EXTENDS Recording, TLAPS

\* The poll thread starts a recording only when it runs none, and comes to the
\* check only when it does.
Placed ==
  /\ pc = "start" => ~active /\ edge = "rising" /\ last_tx
  /\ pc = "check" => active

\* While the edge of this poll is still to be noted, the over is as the last
\* poll left it.
OversInStep ==
  file.tag = "qso" =>
    /\ pc \in {"away", "check"} => (file.over = "open" <=> last_tx)
    /\ pc = "note" /\ edge = "none" => (file.over = "open" <=> last_tx)
    /\ pc = "note" /\ edge = "rising" => last_tx
    /\ pc = "note" /\ edge = "falling" => ~last_tx /\ file.over = "open"

\* The quiet time the last check let pass, and the time since.
QuietInStep ==
  active => quiet <= Idle + gap + (IF pc = "away" THEN 0 ELSE MaxGap)

RecordingInv ==
  /\ TypeOK /\ Placed /\ AutoIsOwned /\ OversInStep
  /\ FiledWhereItIs /\ SidecarBacksTrigger /\ QuietInStep

----------------------------------------------------------------------------
(* Types. *)

\* A new file is a file.
LEMMA OpensType ==
  ASSUME TypeOK, NEW tag \in Tags, Opens(tag)
  PROVE  file' \in Files
BY DEF TypeOK, Opens, Files, Readings, Overs

\* Closing leaves no file, and a well-typed sidecar.
LEMMA ClosesType ==
  ASSUME TypeOK, NEW trigger \in Triggers, Closes(trigger)
  PROVE  file' = NoFile /\ sidecar' \in Sidecars \cup {NoSidecar}
<1>1. CASE Recording
  <2>1. file \in Files
    BY <1>1 DEF TypeOK, Recording
  <2> QED
    BY <1>1, <2>1 DEF TypeOK, Closes, Files, Sidecars, Readings
<1>2. CASE ~Recording
  BY <1>2 DEF TypeOK, Closes
<1> QED
  BY <1>1, <1>2

\* Every step keeps the state well typed.
LEMMA NextType ==
  ASSUME TypeOK, [Next]_vars
  PROVE  TypeOK'
<1>1. ASSUME NEW o \in Observations, Observe(o) PROVE TypeOK'
  BY <1>1, NumbersAssumption
     DEF Observe, TypeOK, Observations, Edge
<1>2. CASE StartAuto
  <2>1. file' \in Files
    BY <1>2, OpensType DEF StartAuto, Tags
  <2> QED
    BY <1>2, <2>1 DEF StartAuto, TypeOK, Readings
<1>3. CASE StartFails
  BY <1>3 DEF StartFails, TypeOK, qsoVars
<1>4. CASE Note
  <2>1. file' \in Files \cup {NoFile}
    <3>1. CASE file \in Files
      BY <1>4, <3>1 DEF Note, Files, Overs
    <3>2. CASE file = NoFile
      BY <1>4, <3>2 DEF Note, Recording
    <3> QED
      BY <3>1, <3>2 DEF TypeOK
  <2> QED
    BY <1>4, <2>1 DEF Note, TypeOK, qsoVars
<1>5. CASE StopAuto
  <2>1. file' = NoFile /\ sidecar' \in Sidecars \cup {NoSidecar}
    BY <1>5, ClosesType DEF StopAuto, Triggers
  <2> QED
    BY <1>5, <2>1 DEF StopAuto, TypeOK
<1>6. CASE GoOn
  BY <1>6 DEF GoOn, TypeOK, qsoVars
<1>7. CASE HandlerStart
  <2>1. file' \in Files
    BY <1>7, OpensType DEF HandlerStart, Tags
  <2> QED
    BY <1>7, <2>1 DEF HandlerStart, TypeOK, qsoVars, pollVars
<1>8. CASE HandlerStop
  <2>1. file' = NoFile /\ sidecar' \in Sidecars \cup {NoSidecar}
    BY <1>8, ClosesType DEF HandlerStop, Triggers
  <2> QED
    BY <1>8, <2>1 DEF HandlerStop, TypeOK, qsoVars, pollVars
<1>9. CASE ToggleReads
  BY <1>9 DEF ToggleReads, TypeOK, qsoVars, pollVars
<1>10. CASE ToggleActs
  <2>1. file' \in Files \cup {NoFile} /\ sidecar' \in Sidecars \cup {NoSidecar}
    BY <1>10, OpensType, ClosesType DEF ToggleActs, TypeOK, Tags, Triggers
  <2> QED
    BY <1>10, <2>1 DEF ToggleActs, TypeOK, qsoVars, pollVars
<1>11. CASE Feed
  <2>1. file \in Files
    BY <1>11 DEF Feed, Recording, TypeOK
  <2>2. file' \in Files \cup {NoFile}
    BY <1>11, <2>1 DEF Feed, Files
  <2> QED
    BY <1>11, <2>2 DEF Feed, TypeOK, qsoVars, pollVars
<1>12. CASE Tick
  BY <1>12, NumbersAssumption DEF Tick, TypeOK, pollVars
<1>13. CASE UNCHANGED vars
  BY <1>13 DEF vars, TypeOK, qsoVars, pollVars
<1> QED
  BY <1>1, <1>2, <1>3, <1>4, <1>5, <1>6, <1>7, <1>8, <1>9, <1>10, <1>11, <1>12, <1>13
     DEF Next, PollThread, Handler

\* TypeOK: whoever opens, closes, feeds or cuts the file.
THEOREM TypeCorrect == Spec => []TypeOK
<1>1. Init => TypeOK
  <2> SUFFICES ASSUME Init PROVE TypeOK
    OBVIOUS
  <2>1. prov \in Readings
    BY DEF Init, NoReading, Readings
  <2>2. gap \in 0 .. MaxGap
    BY NumbersAssumption DEF Init
  <2> QED
    BY <2>1, <2>2 DEF Init, TypeOK
<1>2. TypeOK /\ [Next]_vars => TypeOK'
  BY NextType
<1> QED
  BY <1>1, <1>2, PTL DEF Spec

----------------------------------------------------------------------------
(* Steps of the other threads: the file may be opened as "rec", closed or
   lengthened; what the poll thread keeps stays as it is.                   *)

\* What handlers and the audio thread may do to the file and the sidecar.
LEMMA OthersOnFile ==
  ASSUME TypeOK, Handler \/ Feed
  PROVE  /\ UNCHANGED <<prov, qsoVars, pollVars, gap>>
         /\ \/ file'.tag # "qso"
            \/ /\ file'.tag = file.tag /\ file'.begun = file.begun
               /\ file'.over = file.over
         /\ \/ sidecar' = sidecar
            \/ sidecar'.trigger = "manual"
<1>1. CASE HandlerStart
  BY <1>1 DEF HandlerStart, Opens
<1>2. CASE HandlerStop
  BY <1>2 DEF HandlerStop, Closes, NoFile
<1>3. CASE ToggleReads
  BY <1>3 DEF ToggleReads
<1>4. CASE ToggleActs
  <2>1. UNCHANGED <<prov, qsoVars, pollVars, gap>>
    BY <1>4 DEF ToggleActs
  <2>2. CASE Opens("rec") /\ UNCHANGED sidecar
    BY <2>1, <2>2 DEF Opens
  <2>3. CASE UNCHANGED <<file, sidecar>>
    BY <2>1, <2>3
  <2>4. CASE Closes("manual")
    BY <2>1, <2>4 DEF Closes, NoFile
  <2> QED
    BY <1>4, <2>2, <2>3, <2>4 DEF ToggleActs
<1>5. CASE Feed
  <2>1. file \in Files
    BY <1>5 DEF Feed, Recording, TypeOK
  <2> QED
    BY <1>5, <2>1 DEF Feed, Files, NoFile
<1> QED
  BY <1>1, <1>2, <1>3, <1>4, <1>5 DEF Handler

\* They keep the invariant.
LEMMA OthersKeep ==
  ASSUME RecordingInv, TypeOK', Handler \/ Feed
  PROVE  RecordingInv'
<1>1. /\ UNCHANGED <<prov, qsoVars, pollVars, gap>>
      /\ \/ file'.tag # "qso"
         \/ /\ file'.tag = file.tag /\ file'.begun = file.begun
            /\ file'.over = file.over
      /\ \/ sidecar' = sidecar
         \/ sidecar'.trigger = "manual"
  BY OthersOnFile DEF RecordingInv
<1>2. Placed' /\ QuietInStep'
  BY <1>1 DEF RecordingInv, Placed, QuietInStep, qsoVars, pollVars
<1>3. AutoIsOwned'
  BY <1>1 DEF RecordingInv, AutoIsOwned, qsoVars
<1>4. OversInStep'
  BY <1>1 DEF RecordingInv, OversInStep, qsoVars, pollVars
<1>5. FiledWhereItIs'
  BY <1>1 DEF RecordingInv, FiledWhereItIs, Distance, pollVars
<1>6. SidecarBacksTrigger'
  BY <1>1 DEF RecordingInv, SidecarBacksTrigger, Distance
<1> QED
  BY <1>2, <1>3, <1>4, <1>5, <1>6 DEF RecordingInv

----------------------------------------------------------------------------
(* Steps of the poll thread. *)

\* A poll begins: nothing is filed or noted yet.
LEMMA ObserveKeeps ==
  ASSUME RecordingInv, TypeOK', NEW o \in Observations, Observe(o)
  PROVE  RecordingInv'
<1>1. pc = "away" /\ file' = file /\ sidecar' = sidecar
  BY DEF Observe
<1>2. Placed'
  <2>1. CASE pc' = "start"
    <3>1. Edge(o) = "rising" /\ ~active /\ edge' = "rising" /\ active' = active
      BY <2>1 DEF Observe
    <3>2. o.tx /\ ~o.tuning
      BY <3>1 DEF Edge
    <3> QED
      BY <2>1, <3>1, <3>2 DEF Observe, Placed
  <2>2. CASE pc' = "note"
    BY <2>2 DEF Placed
  <2> QED
    BY <2>1, <2>2 DEF Observe
<1>3. AutoIsOwned'
  BY DEF RecordingInv, Observe, AutoIsOwned
<1>4. OversInStep'
  <2> SUFFICES ASSUME file'.tag = "qso" PROVE OversInStep'
    BY DEF OversInStep
  <2>1. active /\ pc' = "note"
    BY <1>1 DEF RecordingInv, AutoIsOwned, Observe
  <2>2. file.over = "open" <=> last_tx
    BY <1>1 DEF RecordingInv, OversInStep
  <2>3. last_tx \in BOOLEAN /\ o.tx \in BOOLEAN /\ o.tuning \in BOOLEAN
    BY DEF RecordingInv, TypeOK, Observations
  <2>4. edge' = Edge(o) /\ last_tx' = IF o.tuning THEN last_tx ELSE o.tx
    BY DEF Observe
  <2> QED
    BY <1>1, <2>1, <2>2, <2>3, <2>4 DEF OversInStep, Edge
<1>5. FiledWhereItIs'
  <2>1. pc' # "away"
    BY DEF Observe
  <2> QED
    BY <2>1 DEF FiledWhereItIs
<1>6. SidecarBacksTrigger'
  BY <1>1 DEF RecordingInv, SidecarBacksTrigger, Distance
<1>7. QuietInStep'
  <2>4. quiet \in Nat /\ gap \in Nat /\ gap <= MaxGap
    BY NumbersAssumption DEF RecordingInv, TypeOK
  <2>1. quiet' = 0 \/ quiet' = quiet
    BY DEF Observe
  <2>2. active => quiet <= Idle + gap
    BY <1>1, <2>4, NumbersAssumption DEF RecordingInv, QuietInStep
  <2>3. pc' # "away" /\ gap' = 0 /\ active' = active
    BY DEF Observe
  <2> QED
    BY <2>1, <2>2, <2>3, <2>4, NumbersAssumption DEF QuietInStep
<1> QED
  BY <1>2, <1>3, <1>4, <1>5, <1>6, <1>7 DEF RecordingInv

\* An automatic recording begins where the rig is.
LEMMA StartAutoKeeps ==
  ASSUME RecordingInv, TypeOK', StartAuto
  PROVE  RecordingInv'
<1>1. /\ pc' = "note" /\ active' /\ quiet' = 0 /\ UNCHANGED <<sidecar, gap>>
      /\ file'.tag = "qso" /\ file'.begun = prov.freq /\ file'.over = "none"
      /\ start_freq' = prov.freq
  BY DEF StartAuto, Opens
<1>2. Placed' /\ AutoIsOwned' /\ FiledWhereItIs'
  BY <1>1 DEF Placed, AutoIsOwned, FiledWhereItIs
<1>3. OversInStep'
  <2>1. edge' = "rising" /\ last_tx'
    BY DEF RecordingInv, Placed, StartAuto
  <2> QED
    BY <1>1, <2>1 DEF OversInStep
<1>4. SidecarBacksTrigger'
  BY <1>1 DEF RecordingInv, SidecarBacksTrigger, Distance
<1>5. QuietInStep'
  BY <1>1, NumbersAssumption DEF RecordingInv, TypeOK, QuietInStep
<1> QED
  BY <1>2, <1>3, <1>4, <1>5 DEF RecordingInv

\* No recording starts: the poll ends before anything is noted.
LEMMA StartFailsKeeps ==
  ASSUME RecordingInv, TypeOK', StartFails
  PROVE  RecordingInv'
<1>1. pc' = "away" /\ ~active /\ UNCHANGED <<file, sidecar, prov, qsoVars, edge, gap>>
  BY DEF RecordingInv, Placed, StartFails
<1>2. file'.tag # "qso" /\ ~active'
  BY <1>1 DEF RecordingInv, AutoIsOwned, qsoVars
<1>3. SidecarBacksTrigger'
  BY <1>1 DEF RecordingInv, SidecarBacksTrigger, Distance
<1> QED
  BY <1>1, <1>2, <1>3
     DEF RecordingInv, Placed, AutoIsOwned, OversInStep, FiledWhereItIs, QuietInStep

\* The edge is noted: the over is as the operator's key is.
LEMMA NoteKeeps ==
  ASSUME RecordingInv, TypeOK', Note
  PROVE  RecordingInv'
<1>1. /\ pc = "note" /\ pc' = IF active THEN "check" ELSE "away"
      /\ UNCHANGED <<sidecar, prov, active, last_tx, start_freq, quiet, edge, gap>>
  BY DEF Note, qsoVars
<1>2. /\ file'.tag = file.tag /\ file'.begun = file.begun
      /\ file'.over = IF ~Recording \/ edge = "none" THEN file.over
                       ELSE IF edge = "rising" THEN "open"
                       ELSE IF file.over = "open" THEN "closed" ELSE file.over
  <2>1. CASE file \in Files
    BY <2>1 DEF Note, Files
  <2>2. CASE file = NoFile
    BY <2>2 DEF Note, Recording
  <2> QED
    BY <2>1, <2>2 DEF RecordingInv, TypeOK
<1>3. Placed' /\ AutoIsOwned'
  BY <1>1, <1>2 DEF RecordingInv, Placed, AutoIsOwned
<1>4. OversInStep'
  <2> SUFFICES ASSUME file'.tag = "qso" PROVE OversInStep'
    BY DEF OversInStep
  <2>1. Recording
    <3>1. file.tag = "qso"
      BY <1>2
    <3>2. NoFile.tag = ""
      BY DEF NoFile
    <3> QED
      BY <3>1, <3>2 DEF Recording
  <2>2. edge \in {"none", "rising", "falling"}
    BY DEF RecordingInv, TypeOK
  <2>3. pc' \in {"check", "away"}
    BY <1>1
  <2>4. /\ edge = "none" => (file.over = "open" <=> last_tx)
        /\ edge = "rising" => last_tx
        /\ edge = "falling" => ~last_tx /\ file.over = "open"
    BY <1>1, <1>2 DEF RecordingInv, OversInStep
  <2>5. file'.over = "open" <=> last_tx'
    BY <1>1, <1>2, <2>1, <2>2, <2>4
  <2> QED
    BY <2>3, <2>5 DEF OversInStep
<1>5. FiledWhereItIs'
  BY <1>1, <1>2 DEF RecordingInv, AutoIsOwned, FiledWhereItIs
<1>6. SidecarBacksTrigger'
  BY <1>1 DEF RecordingInv, SidecarBacksTrigger, Distance
<1>7. QuietInStep'
  BY <1>1 DEF RecordingInv, QuietInStep
<1> QED
  BY <1>3, <1>4, <1>5, <1>6, <1>7 DEF RecordingInv

\* The recording is over: the sidecar that says "qsy" is of a rig that moved.
LEMMA StopAutoKeeps ==
  ASSUME RecordingInv, TypeOK', StopAuto
  PROVE  RecordingInv'
<1>1. /\ pc' = "away" /\ ~active' /\ file' = NoFile
      /\ IdleIsOver \/ Moved
      /\ sidecar' = IF Recording
                    THEN [tag |-> file.tag, begun |-> file.begun, ended |-> prov.freq,
                          trigger |-> IF IdleIsOver THEN "idle" ELSE "qsy"]
                    ELSE sidecar
  BY DEF StopAuto, Closes
<1>2. SidecarBacksTrigger'
  <2>1. CASE Recording /\ file.tag = "qso" /\ ~IdleIsOver
    <3>1. file.begun = start_freq /\ Distance(prov.freq, start_freq) > Threshold
      BY <1>1, <2>1 DEF RecordingInv, AutoIsOwned, Moved
    <3>2. sidecar'.ended = prov.freq /\ sidecar'.begun = file.begun
      BY <1>1, <2>1
    <3> QED
      BY <3>1, <3>2 DEF SidecarBacksTrigger, Distance
  <2>2. CASE ~Recording
    BY <1>1, <2>2 DEF RecordingInv, SidecarBacksTrigger, Distance
  <2>3. CASE Recording /\ (file.tag # "qso" \/ IdleIsOver)
    BY <1>1, <2>3 DEF SidecarBacksTrigger
  <2> QED
    BY <2>1, <2>2, <2>3
<1> QED
  BY <1>1, <1>2
     DEF RecordingInv, Placed, AutoIsOwned, OversInStep, FiledWhereItIs, QuietInStep, NoFile

\* The recording goes on: the rig is near where it began, and it is not late.
LEMMA GoOnKeeps ==
  ASSUME RecordingInv, TypeOK', GoOn
  PROVE  RecordingInv'
<1>1. /\ pc = "check" /\ pc' = "away" /\ ~IdleIsOver /\ ~Moved
      /\ UNCHANGED <<file, sidecar, prov, active, last_tx, start_freq, quiet, edge, gap>>
  BY DEF GoOn, qsoVars
<1>2. Placed' /\ AutoIsOwned' /\ OversInStep'
  BY <1>1 DEF RecordingInv, Placed, AutoIsOwned, OversInStep
<1>3. FiledWhereItIs'
  <2> SUFFICES ASSUME file.tag = "qso", file.begun > 0, prov.connected
               PROVE  Distance(prov.freq, file.begun) <= Threshold
    BY <1>1 DEF FiledWhereItIs, Distance
  <2>1. file.begun = start_freq
    BY DEF RecordingInv, AutoIsOwned
  <2>2. ~(Distance(prov.freq, start_freq) > Threshold)
    BY <1>1, <2>1 DEF Moved
  <2>3. prov.freq \in Int /\ start_freq \in Int
    <3>1. prov \in Readings /\ start_freq \in Freqs \cup {0}
      BY DEF RecordingInv, TypeOK
    <3>2. prov.freq \in Freqs \cup {0}
      BY <3>1 DEF Readings
    <3>3. Freqs \cup {0} \subseteq Int
      BY FreqsAssumption
    <3> QED
      BY <3>1, <3>2, <3>3
  <2> QED
    BY <2>1, <2>2, <2>3, NumbersAssumption DEF Distance
<1>4. SidecarBacksTrigger'
  BY <1>1 DEF RecordingInv, SidecarBacksTrigger, Distance
<1>5. QuietInStep'
  BY <1>1, NumbersAssumption DEF RecordingInv, TypeOK, QuietInStep, IdleIsOver
<1> QED
  BY <1>2, <1>3, <1>4, <1>5 DEF RecordingInv

\* Time passes.
LEMMA TickKeeps ==
  ASSUME RecordingInv, TypeOK', Tick
  PROVE  RecordingInv'
<1>1. /\ UNCHANGED <<file, sidecar, prov, active, last_tx, start_freq, pc, edge>>
      /\ gap' = gap + 1 /\ quiet' = IF active THEN quiet + 1 ELSE quiet
  BY DEF Tick, pollVars
<1>2. Placed' /\ AutoIsOwned' /\ OversInStep'
  BY <1>1 DEF RecordingInv, Placed, AutoIsOwned, OversInStep
<1>3. FiledWhereItIs' /\ SidecarBacksTrigger'
  BY <1>1 DEF RecordingInv, FiledWhereItIs, SidecarBacksTrigger, Distance
<1>4. QuietInStep'
  <2>1. quiet \in Nat /\ gap \in Nat
    BY NumbersAssumption DEF RecordingInv, TypeOK
  <2> QED
    BY <1>1, <2>1, NumbersAssumption DEF RecordingInv, QuietInStep
<1> QED
  BY <1>2, <1>3, <1>4 DEF RecordingInv

----------------------------------------------------------------------------
(* The theorems. *)

\* The inductive invariant behind the properties below.
THEOREM RecordingInvariant == Spec => []RecordingInv
<1>1. Init => RecordingInv
  <2> SUFFICES ASSUME Init PROVE RecordingInv
    OBVIOUS
  <2>1. TypeOK
    <3>1. prov \in Readings
      BY DEF Init, NoReading, Readings
    <3>2. gap \in 0 .. MaxGap
      BY NumbersAssumption DEF Init
    <3> QED
      BY <3>1, <3>2 DEF Init, TypeOK
  <2> QED
    BY <2>1 DEF Init, RecordingInv, Placed, AutoIsOwned, OversInStep, FiledWhereItIs,
                SidecarBacksTrigger, QuietInStep, NoFile, NoSidecar
<1>2. RecordingInv /\ [Next]_vars => RecordingInv'
  <2> SUFFICES ASSUME RecordingInv, [Next]_vars PROVE RecordingInv'
    OBVIOUS
  <2>1. TypeOK'
    BY NextType DEF RecordingInv
  <2>2. CASE \E o \in Observations : Observe(o)
    BY <2>1, <2>2, ObserveKeeps
  <2>3. CASE StartAuto
    BY <2>1, <2>3, StartAutoKeeps
  <2>4. CASE StartFails
    BY <2>1, <2>4, StartFailsKeeps
  <2>5. CASE Note
    BY <2>1, <2>5, NoteKeeps
  <2>6. CASE StopAuto
    BY <2>1, <2>6, StopAutoKeeps
  <2>7. CASE GoOn
    BY <2>1, <2>7, GoOnKeeps
  <2>8. CASE Handler \/ Feed
    BY <2>1, <2>8, OthersKeep
  <2>9. CASE Tick
    BY <2>1, <2>9, TickKeeps
  <2>10. CASE UNCHANGED vars
    BY <2>1, <2>10
       DEF vars, qsoVars, pollVars, RecordingInv, Placed, AutoIsOwned, OversInStep,
           FiledWhereItIs, SidecarBacksTrigger, QuietInStep, Distance
  <2> QED
    BY <2>2, <2>3, <2>4, <2>5, <2>6, <2>7, <2>8, <2>9, <2>10 DEF Next, PollThread
<1> QED
  BY <1>1, <1>2, PTL DEF Spec

\* AutoIsOwned: an automatic recording has the state machine that ends it.
THEOREM AutoRecordingOwned == Spec => []AutoIsOwned
<1>1. RecordingInv => AutoIsOwned
  BY DEF RecordingInv
<1> QED
  BY <1>1, RecordingInvariant, PTL

\* FiledWhereItIs: between polls an automatic recording is near the frequency
\* it is filed under.
THEOREM FiledNearStart == Spec => []FiledWhereItIs
<1>1. RecordingInv => FiledWhereItIs
  BY DEF RecordingInv
<1> QED
  BY <1>1, RecordingInvariant, PTL

\* OversBracketed: the sidecar's overs follow the operator's key.
THEOREM OversFollowKey == Spec => []OversBracketed
<1>1. RecordingInv => OversBracketed
  BY DEF RecordingInv, OversInStep, OversBracketed
<1> QED
  BY <1>1, RecordingInvariant, PTL

\* SidecarBacksTrigger: a recording filed as ended by a QSY shows one.
THEOREM TriggersAreTrue == Spec => []SidecarBacksTrigger
<1>1. RecordingInv => SidecarBacksTrigger
  BY DEF RecordingInv
<1> QED
  BY <1>1, RecordingInvariant, PTL

\* AutoEnds: the bound on an automatic recording that nobody extends.
THEOREM AutoBounded == Spec => []AutoEnds
<1>1. RecordingInv => AutoEnds
  BY NumbersAssumption DEF RecordingInv, TypeOK, QuietInStep, AutoEnds
<1> QED
  BY <1>1, RecordingInvariant, PTL
=============================================================================
