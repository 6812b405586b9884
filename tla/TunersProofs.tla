---------------------------- MODULE TunersProofs ----------------------------
(***************************************************************************)
(* Theorems about Tuners, for any host, any settings and any timing.       *)
(***************************************************************************)
EXTENDS Tuners, TLAPS

Off == <<"TX", FALSE>>
On  == <<"TX", TRUE>>

\* An unkey is queued behind position i of the queue.
OffBehind(i) == \E j \in 1 .. Len(tasks) : j > i /\ tasks[j] = Off

\* When no worker owns a carrier, every key-up that is still queued has an
\* unkey behind it, and a rig that is transmitting has one coming.
Unkeying ==
  keyed = {} =>
    /\ \A i \in 1 .. Len(tasks) : tasks[i] = On => OffBehind(i)
    /\ rig.tx => OffBehind(0)

\* A worker owns a carrier only between its key-up and its key-down, and says
\* it is active until it is idle.
Owned ==
  /\ \A t \in keyed : pc[t] \in {"carrier", "unkey"}
  /\ \A t \in Used : pc[t] # "idle" => t \in active

TunersInv == TypeOK /\ Owned /\ Unkeying

\* Under any of the regimes a step is one of these.
Given == regime \in Regimes

Moves ==
  \/ \E t \in Used : Start(t) \/ StopPress(t) \/ Worker(t)
  \/ Poller
  \/ \E h \in Homes : Dial(h)

LEMMA StepsAreMoves == ASSUME Given, Next PROVE Moves
<1>1. regime.homes \subseteq Homes
  BY RegimesAssumption DEF Given
<1> QED BY <1>1 DEF Next, Moves

LEMMA GivenHolds == Spec => []Given
<1>1. Init => Given
  BY DEF Init, Given
<1>2. Given /\ [Next]_vars => Given'
  BY DEF Given, Next, vars
<1> QED BY <1>1, <1>2, PTL DEF Spec

----------------------------------------------------------------------------
(* Types. *)

\* The codes of mode names are mode codes or 0.
LEMMA ModeCodeType == \A name : ModeCode(name) \in 0 .. 9
BY DEF ModeCode

\* Settings operators choose, and those tunes choose, are powers.
LEMMA PowersHold ==
  /\ AfterPower \in Powers /\ \A t \in {"amp", "tgxl"} : TunePower[t] \in Powers
  /\ \A h \in Homes : h.power \in Powers /\ h.mode \in Codes
  /\ Powers \subseteq Nat
<1>1. \A h \in Homes : h.power \in 1 .. 200 /\ h.mode \in Codes
  BY HomesAssumption
<1> QED
  BY <1>1 DEF Powers, AfterPower, TunePower

\* What a snapshot holds.
LEMMA SnapshotFields ==
  ASSUME NEW x \in Snapshots
  PROVE  x.power \in Powers \cup {0} /\ x.mode \in Names \cup {""}
<1>1. CASE x = Blank
  BY <1>1 DEF Blank
<1>2. CASE \E r \in Rig : x = Reading(r)
  <2>1. PICK r \in Rig : x = Reading(r)
    BY <1>2
  <2>2. r.power \in Powers /\ r.mode \in Codes
    BY DEF Rig
  <2>3. x.power = r.power /\ x.mode = ModeName(r.mode)
    BY <2>1 DEF Reading
  <2> QED
    BY <2>2, <2>3 DEF Names
<1> QED
  BY <1>1, <1>2 DEF Snapshots

\* The settings and the key are commands.
LEMMA CommandTypes ==
  /\ \A p \in Powers : <<"PC", p>> \in Commands
  /\ \A name : <<"MD", ModeCode(name)>> \in Commands
  /\ On \in Commands /\ Off \in Commands
BY ModeCodeType DEF Commands, On, Off

\* The rig stays a rig, whatever it is told.
LEMMA ObeyedType ==
  ASSUME TypeOK, NEW c \in Commands
  PROVE  Obeyed(c) \in Rig
<1>1. rig \in Rig
  BY DEF TypeOK
<1>2. CASE c \in {"PC"} \X Powers
  BY <1>1, <1>2 DEF Obeyed, Rig
<1>3. CASE c \in {"MD"} \X (0 .. 9)
  <2>1. c[1] = "MD" /\ (c[2] = 0 \/ c[2] \in Codes)
    BY <1>3 DEF Codes
  <2> QED
    BY <1>1, <2>1 DEF Obeyed, Rig
<1>4. CASE c \in {"TX"} \X BOOLEAN
  BY <1>1, <1>4 DEF Obeyed, Rig
<1> QED
  BY <1>2, <1>3, <1>4 DEF Commands

\* A queue to which a command is added is a queue of commands.
LEMMA QueueType ==
  ASSUME TypeOK, NEW c \in Commands, Queue(c)
  PROVE  tasks' \in Seq(Commands)
<1>1. tasks \in Seq(Commands)
  BY DEF TypeOK
<1> QED
  BY <1>1 DEF Queue

\* The initial state is well typed.
LEMMA InitType == Init => TypeOK
<1> SUFFICES ASSUME Init PROVE TypeOK
  OBVIOUS
<1>1. home.power \in Powers /\ home.mode \in Codes /\ home \in [power : Powers, mode : Codes]
  <2>1. home \in Homes
    BY RegimesAssumption DEF Init
  <2>2. home \in [power : 1 .. 200, mode : Codes]
    BY <2>1, HomesAssumption
  <2> QED
    BY <2>1, <2>2, PowersHold
<1>2. rig \in Rig
  BY <1>1 DEF Init, Rig
<1>3. s \in Snapshots \cup {NoRead} /\ snap \in Snapshots
  BY <1>2 DEF Init, Snapshots
<1>4. saved \in [Used -> [power : Powers \cup {0}, mode : Names \cup {""}]]
  BY DEF Init, Nothing
<1>5. pc \in [Used -> Places]
  BY DEF Init, Places
<1>6. tasks \in Seq(Commands)
  BY DEF Init
<1>7. /\ active \subseteq Used /\ stop \subseteq Used
      /\ asleep \subseteq Used /\ keyed \subseteq Used
  BY DEF Init
<1> QED
  BY <1>1, <1>2, <1>3, <1>4, <1>5, <1>6, <1>7 DEF TypeOK

\* Presses, and the steps of a worker that queue nothing.
LEMMA QuietType ==
  ASSUME TypeOK, NEW t \in Used,
         \/ Start(t) \/ StopPress(t) \/ Save(t) \/ CheckStop(t) \/ Connect(t)
         \/ CarrierEnds(t) \/ Done(t) \/ WakeUp(t)
  PROVE  TypeOK'
<1>1. CASE Start(t)
  BY <1>1 DEF Start, TypeOK, Places
<1>2. CASE StopPress(t)
  BY <1>2 DEF StopPress, TypeOK
<1>3. CASE Save(t)
  <2>1. snap.power \in Powers \cup {0} /\ snap.mode \in Names \cup {""}
    BY SnapshotFields DEF TypeOK
  <2> QED
    BY <1>3, <2>1 DEF Save, Goto, polled, TypeOK, Places
<1>4. CASE CheckStop(t)
  BY <1>4 DEF CheckStop, Goto, polled, TypeOK, Places
<1>5. CASE Connect(t)
  BY <1>5 DEF Connect, Goto, polled, TypeOK, Places
<1>6. CASE CarrierEnds(t)
  BY <1>6 DEF CarrierEnds, Goto, polled, TypeOK, Places
<1>7. CASE Done(t)
  BY <1>7 DEF Done, Goto, polled, TypeOK, Places, Nothing
<1>8. CASE WakeUp(t)
  BY <1>8 DEF WakeUp, polled, TypeOK
<1> QED
  BY <1>1, <1>2, <1>3, <1>4, <1>5, <1>6, <1>7, <1>8

\* The steps of a worker that queue a command.
LEMMA QueueingType ==
  ASSUME TypeOK, NEW t \in Used,
         \/ SetPower(t) \/ SetMode(t) \/ KeyUp(t) \/ KeyDown(t)
         \/ PowerBack(t) \/ ModeBack(t)
  PROVE  TypeOK'
<1>1. t \in {"amp", "tgxl"} /\ TunePower[t] \in Powers
  BY UsedAssumption, PowersHold
<1>2. saved[t].power \in Powers \cup {0}
  BY DEF TypeOK
<1>3. asleep \cup {t} \subseteq Used /\ keyed \cup {t} \subseteq Used
  BY DEF TypeOK
<1>4. CASE SetPower(t)
  <2>1. tasks' \in Seq(Commands)
    BY <1>1, <1>4, QueueType, CommandTypes DEF SetPower, QueueAndSleep
  <2> QED
    BY <1>3, <1>4, <2>1 DEF SetPower, QueueAndSleep, Goto, polled, TypeOK, Places
<1>5. CASE SetMode(t)
  <2>1. tasks' \in Seq(Commands)
    BY <1>5, QueueType, CommandTypes DEF SetMode, QueueAndSleep
  <2> QED
    BY <1>3, <1>5, <2>1 DEF SetMode, QueueAndSleep, Goto, polled, TypeOK, Places
<1>6. CASE KeyUp(t)
  <2>1. tasks' \in Seq(Commands)
    BY <1>6, QueueType, CommandTypes DEF KeyUp, On
  <2> QED
    BY <1>3, <1>6, <2>1 DEF KeyUp, Goto, polled, TypeOK, Places
<1>7. CASE KeyDown(t)
  <2>1. tasks' \in Seq(Commands)
    BY <1>7, QueueType, CommandTypes DEF KeyDown, QueueAndSleep, Off, TypeOK
  <2> QED
    BY <1>3, <1>7, <2>1 DEF KeyDown, QueueAndSleep, Goto, polled, TypeOK, Places
<1>8. CASE PowerBack(t)
  <2>0. AfterPower \in Powers /\ tasks \in Seq(Commands)
        /\ home \in [power : Powers, mode : Codes]
    BY PowersHold DEF TypeOK
  <2>1. tasks' \in Seq(Commands)
    <3>1. <<"PC", AfterPower>> \in Commands
          /\ (saved[t].power > 0 => <<"PC", saved[t].power>> \in Commands)
      BY <1>2, <2>0, CommandTypes
    <3>2. CASE t = "amp"
      BY <1>8, <3>1, <3>2, QueueType DEF PowerBack
    <3>3. CASE t # "amp"
      BY <1>8, <2>0, <3>1, <3>3, QueueType DEF PowerBack, QueueAndSleep
    <3> QED
      BY <3>2, <3>3
  <2>2. home' \in [power : Powers, mode : Codes]
    BY <1>8, <2>0 DEF PowerBack
  <2>3. asleep' \subseteq Used /\ pc' \in [Used -> Places]
    <3>1. asleep' \in {asleep, asleep \cup {t}}
      BY <1>8 DEF PowerBack, QueueAndSleep
    <3>2. asleep \subseteq Used /\ pc \in [Used -> Places]
      BY DEF TypeOK
    <3>3. pc' = [pc EXCEPT ![t] = "modeback"] /\ "modeback" \in Places
      BY <1>8 DEF PowerBack, Goto, Places
    <3> QED BY <1>3, <3>1, <3>2, <3>3
  <2>4. UNCHANGED <<active, stop, keyed, saved, rig, s, snap>>
    BY <1>8 DEF PowerBack, polled
  <2> QED
    BY <2>1, <2>2, <2>3, <2>4 DEF TypeOK
<1>9. CASE ModeBack(t)
  <2>1. tasks' \in Seq(Commands)
    BY <1>9, QueueType, CommandTypes DEF ModeBack, TypeOK
  <2>2. asleep' \subseteq Used /\ pc' \in [Used -> Places]
    <3>1. asleep' \in {asleep, asleep \cup {t}}
      BY <1>9 DEF ModeBack
    <3>2. asleep \subseteq Used /\ pc \in [Used -> Places]
      BY DEF TypeOK
    <3>3. pc' = [pc EXCEPT ![t] = "done"] /\ "done" \in Places
      BY <1>9 DEF ModeBack, Goto, Places
    <3> QED BY <1>3, <3>1, <3>2, <3>3
  <2>3. UNCHANGED <<active, stop, keyed, saved, rig, s, snap, home>>
    BY <1>9 DEF ModeBack, polled
  <2> QED
    BY <2>1, <2>2, <2>3 DEF TypeOK
<1> QED
  BY <1>4, <1>5, <1>6, <1>7, <1>8, <1>9

\* The poll thread and the operator at the controls.
LEMMA PollerType ==
  ASSUME TypeOK, Poller \/ \E h \in Homes : Dial(h)
  PROVE  TypeOK'
<1>1. CASE DrainOne
  <2>0. tasks \in Seq(Commands) /\ tasks # <<>>
    BY <1>1 DEF DrainOne, TypeOK
  <2>1. Head(tasks) \in Commands /\ Tail(tasks) \in Seq(Commands)
    BY <2>0
  <2>2. rig' \in Rig
    BY <1>1, <2>1, ObeyedType DEF DrainOne
  <2> QED
    BY <1>1, <2>1, <2>2 DEF DrainOne, workers, TypeOK
<1>2. CASE PollRead \/ PollFails
  <2>1. s' \in Snapshots
    BY <1>2 DEF PollRead, PollFails, Snapshots, TypeOK
  <2> QED
    BY <1>2, <2>1 DEF PollRead, PollFails, workers, TypeOK
<1>3. CASE Publish
  BY <1>3 DEF Publish, TypeOK
<1>4. ASSUME NEW h \in Homes, Dial(h) PROVE TypeOK'
  <2>1. h.power \in Powers /\ h.mode \in Codes /\ h \in [power : 1 .. 200, mode : Codes]
    BY PowersHold, HomesAssumption
  <2>2. rig' \in Rig /\ home' \in [power : Powers, mode : Codes]
    BY <1>4, <2>1 DEF Dial, Rig
  <2> QED
    BY <1>4, <2>2 DEF Dial, workers, TypeOK
<1> QED
  BY <1>1, <1>2, <1>3, <1>4 DEF Poller

----------------------------------------------------------------------------
(* Owners and unkeys. *)

\* Every step keeps a carrier with its owner, and an owner active.
LEMMA OwnedKept ==
  ASSUME TypeOK, Owned, Moves PROVE Owned'
<1>0. /\ pc \in [Used -> Places] /\ keyed \subseteq Used
      /\ \A t \in keyed : pc[t] \in {"carrier", "unkey"}
      /\ \A t \in Used : pc[t] # "idle" => t \in active
  BY DEF TypeOK, Owned
<1>1. ASSUME NEW t \in Used, Start(t) \/ StopPress(t) \/ Worker(t) PROVE Owned'
  <2>1. CASE Start(t)
    BY <1>0, <2>1 DEF Start, Owned
  <2>2. CASE StopPress(t) \/ WakeUp(t)
    BY <1>0, <2>2 DEF StopPress, WakeUp, Owned
  <2>3. CASE Save(t) \/ SetPower(t) \/ SetMode(t) \/ CheckStop(t) \/ Connect(t)
    <3>1. /\ pc[t] \in {"save", "power", "mode", "check", "connect"}
          /\ \E there \in Places : pc' = [pc EXCEPT ![t] = there]
          /\ UNCHANGED <<keyed, active>>
      BY <2>3 DEF Save, SetPower, SetMode, CheckStop, Connect, At, Goto, Places
    <3> QED
      BY <1>0, <3>1 DEF Owned
  <2>4. CASE KeyUp(t)
    BY <1>0, <2>4 DEF KeyUp, At, Goto, Owned
  <2>5. CASE CarrierEnds(t)
    BY <1>0, <2>5 DEF CarrierEnds, At, Goto, Owned
  <2>6. CASE KeyDown(t)
    BY <1>0, <2>6 DEF KeyDown, At, Goto, Owned
  <2>7. CASE PowerBack(t)
    BY <1>0, <2>7 DEF PowerBack, At, Goto, Owned
  <2>8. CASE ModeBack(t)
    BY <1>0, <2>8 DEF ModeBack, At, Goto, Owned
  <2>9. CASE Done(t)
    BY <1>0, <2>9 DEF Done, At, Goto, Owned
  <2> QED
    BY <1>1, <2>1, <2>2, <2>3, <2>4, <2>5, <2>6, <2>7, <2>8, <2>9 DEF Worker
<1>2. CASE Poller \/ \E h \in Homes : Dial(h)
  <2>1. UNCHANGED <<pc, keyed, active>>
    BY <1>2 DEF Poller, DrainOne, PollRead, PollFails, Publish, Dial, workers
  <2> QED
    BY <2>1 DEF Owned
<1> QED
  BY <1>1, <1>2 DEF Moves

\* Nothing that bears on the unkeys changes.
LEMMA SameUnkeying ==
  ASSUME Unkeying, UNCHANGED <<tasks, rig, keyed>> PROVE Unkeying'
BY DEF Unkeying, OffBehind

\* A setting is queued: what was behind a key-up still is.
LEMMA SettingUnkeying ==
  ASSUME Unkeying, tasks \in Seq(Commands), NEW c \in Commands, Queue(c),
         c # On, UNCHANGED <<rig, keyed>>
  PROVE  Unkeying'
<1>1. /\ Len(tasks') = Len(tasks) + 1 /\ Len(tasks) \in Nat
      /\ \A i \in 1 .. Len(tasks) : tasks'[i] = tasks[i]
      /\ tasks'[Len(tasks) + 1] = c
  BY DEF Queue
<1>2. \A i : OffBehind(i) => OffBehind(i)'
  BY <1>1 DEF OffBehind
<1>3. \A i \in 1 .. Len(tasks') : tasks'[i] = On => i \in 1 .. Len(tasks)
  BY <1>1
<1> QED
  BY <1>1, <1>2, <1>3 DEF Unkeying

\* An unkey is queued: it is behind everything.
LEMMA OffUnkeying ==
  ASSUME tasks \in Seq(Commands), Queue(Off) PROVE Unkeying'
<1>1. /\ Len(tasks') = Len(tasks) + 1 /\ Len(tasks) \in Nat
      /\ tasks'[Len(tasks) + 1] = Off
  BY DEF Queue
<1>2. Off # On
  BY DEF Off, On
<1>3. \A i \in 0 .. Len(tasks) : OffBehind(i)'
  BY <1>1 DEF OffBehind
<1>4. \A i \in 1 .. Len(tasks') : tasks'[i] = On => i \in 0 .. Len(tasks)
  BY <1>1, <1>2
<1> QED
  BY <1>1, <1>3, <1>4 DEF Unkeying

\* The head is sent: an unkey that was behind another position is still there.
LEMMA DrainUnkeying ==
  ASSUME TypeOK, Unkeying, DrainOne PROVE Unkeying'
<1>1. tasks \in Seq(Commands) /\ tasks # <<>> /\ tasks' = Tail(tasks)
  BY DEF TypeOK, DrainOne
<1>2. /\ Len(tasks) \in Nat \ {0} /\ Len(tasks') = Len(tasks) - 1
      /\ \A i \in 1 .. Len(tasks') : tasks'[i] = tasks[i + 1]
      /\ Head(tasks) = tasks[1] /\ tasks[1] \in Commands
  BY <1>1
<1>3. ASSUME NEW i \in 1 .. Len(tasks), OffBehind(i) PROVE OffBehind(i - 1)'
  <2>1. PICK j \in 1 .. Len(tasks) : j > i /\ tasks[j] = Off
    BY <1>3 DEF OffBehind
  <2>2. j - 1 \in 1 .. Len(tasks') /\ j - 1 > i - 1 /\ tasks'[j - 1] = Off
    BY <1>2, <2>1
  <2> QED
    BY <2>2 DEF OffBehind
<1> SUFFICES ASSUME keyed = {}
             PROVE  /\ \A i \in 1 .. Len(tasks') : tasks'[i] = On => OffBehind(i)'
                    /\ rig'.tx => OffBehind(0)'
  BY DEF Unkeying, DrainOne, workers
<1>4. ASSUME NEW i \in 1 .. Len(tasks'), tasks'[i] = On PROVE OffBehind(i)'
  <2>1. i + 1 \in 1 .. Len(tasks) /\ tasks[i + 1] = On
    BY <1>2, <1>4
  <2>2. OffBehind(i + 1)
    BY <2>1 DEF Unkeying
  <2>3. OffBehind((i + 1) - 1)'
    BY <1>3, <2>1, <2>2
  <2>4. (i + 1) - 1 = i
    OBVIOUS
  <2> QED
    BY <2>3, <2>4
<1>5. ASSUME rig'.tx PROVE OffBehind(0)'
  <2>1. 1 \in 1 .. Len(tasks)
    BY <1>2
  <2>2. CASE tasks[1] = On
    <3>1. OffBehind(1)
      BY <2>1, <2>2 DEF Unkeying
    <3> QED
      BY <1>3, <2>1, <3>1
  <2>3. CASE tasks[1] # On
    <3>1. rig \in Rig /\ rig' = Obeyed(tasks[1])
      BY <1>2 DEF DrainOne, TypeOK
    <3>2. tasks[1] # Off /\ rig.tx
      <4>0. Off[1] = "TX"
        BY DEF Off
      <4>1. CASE tasks[1] \in {"PC"} \X Powers
        <5>1. tasks[1][1] = "PC"
          BY <4>1
        <5>2. rig' = [rig EXCEPT !.power = tasks[1][2]]
          BY <3>1, <5>1 DEF Obeyed
        <5> QED
          BY <1>5, <3>1, <4>0, <5>1, <5>2 DEF Rig
      <4>2. CASE tasks[1] \in {"MD"} \X (0 .. 9)
        <5>1. tasks[1][1] = "MD"
          BY <4>2
        <5>2. rig' = rig \/ rig' = [rig EXCEPT !.mode = tasks[1][2]]
          BY <3>1, <5>1 DEF Obeyed
        <5> QED
          BY <1>5, <3>1, <4>0, <5>1, <5>2 DEF Rig
      <4>3. CASE tasks[1] \in {"TX"} \X BOOLEAN
        <5>1. tasks[1] = Off
          <6>1. PICK b \in BOOLEAN : tasks[1] = <<"TX", b>>
            BY <4>3
          <6>2. b = FALSE
            BY <2>3, <6>1 DEF On
          <6> QED
            BY <6>1, <6>2 DEF Off
        <5>2. rig' = [rig EXCEPT !.tx = FALSE]
          BY <3>1, <5>1 DEF Obeyed, Off
        <5> QED
          BY <1>5, <3>1, <5>2 DEF Rig
      <4> QED
        BY <1>2, <4>1, <4>2, <4>3 DEF Commands
    <3>3. PICK j \in 1 .. Len(tasks) : j > 0 /\ tasks[j] = Off
      BY <3>2 DEF Unkeying, OffBehind
    <3>4. j > 1
      BY <3>2, <3>3
    <3> QED
      BY <1>3, <2>1, <3>3, <3>4 DEF OffBehind
  <2> QED
    BY <2>2, <2>3
<1> QED
  BY <1>4, <1>5

\* Every step keeps the unkeys where they are needed.
LEMMA UnkeyingKept ==
  ASSUME TypeOK, Unkeying, Moves PROVE Unkeying'
<1>0. tasks \in Seq(Commands)
  BY DEF TypeOK
<1>1. ASSUME NEW t \in Used, Start(t) \/ StopPress(t) \/ Worker(t)
      PROVE  Unkeying'
  <2>1. CASE \/ Start(t) \/ StopPress(t) \/ Save(t) \/ CheckStop(t) \/ Connect(t)
             \/ CarrierEnds(t) \/ Done(t) \/ WakeUp(t)
    <3>1. UNCHANGED <<tasks, rig, keyed>>
      BY <2>1 DEF Start, StopPress, Save, CheckStop, Connect, CarrierEnds, Done,
                  WakeUp, polled
    <3> QED
      BY <3>1, SameUnkeying
  <2>2. CASE SetPower(t) \/ SetMode(t) \/ PowerBack(t) \/ ModeBack(t)
    <3>1. UNCHANGED <<rig, keyed>>
      BY <2>2 DEF SetPower, SetMode, PowerBack, ModeBack, polled
    <3>2. \/ UNCHANGED tasks
          \/ \E c \in Commands : c # On /\ Queue(c)
      <4>1. \A p : <<"PC", p>> # On /\ \A m : <<"MD", m>> # On
        BY DEF On
      <4>2. CASE SetPower(t)
        BY <4>1, <4>2, CommandTypes, PowersHold, UsedAssumption
           DEF SetPower, QueueAndSleep
      <4>3. CASE SetMode(t)
        BY <4>1, <4>3, CommandTypes DEF SetMode, QueueAndSleep
      <4>4. CASE PowerBack(t)
        <5>1. AfterPower \in Powers /\ saved[t].power \in Powers \cup {0}
          BY PowersHold DEF TypeOK
        <5>2. /\ <<"PC", AfterPower>> \in Commands
              /\ saved[t].power > 0 => <<"PC", saved[t].power>> \in Commands
          BY <5>1, CommandTypes
        <5>3. CASE t = "amp"
          BY <4>1, <4>4, <5>2, <5>3 DEF PowerBack
        <5>4. CASE t # "amp"
          BY <4>1, <4>4, <5>2, <5>4 DEF PowerBack, QueueAndSleep
        <5> QED
          BY <5>3, <5>4
      <4>5. CASE ModeBack(t)
        BY <4>1, <4>5, CommandTypes DEF ModeBack
      <4> QED
        BY <2>2, <4>2, <4>3, <4>4, <4>5
    <3> QED
      BY <1>0, <3>1, <3>2, SameUnkeying, SettingUnkeying
  <2>3. CASE KeyUp(t)
    <3>1. keyed' # {}
      BY <2>3 DEF KeyUp
    <3> QED
      BY <3>1 DEF Unkeying
  <2>4. CASE KeyDown(t)
    <3>1. CASE t \in keyed
      BY <1>0, <2>4, <3>1, OffUnkeying DEF KeyDown, QueueAndSleep, Off
    <3>2. CASE t \notin keyed
      <4>1. UNCHANGED <<tasks, rig, keyed>>
        BY <2>4, <3>2 DEF KeyDown, polled
      <4> QED
        BY <4>1, SameUnkeying
    <3> QED
      BY <3>1, <3>2
  <2> QED
    BY <1>1, <2>1, <2>2, <2>3, <2>4 DEF Worker
<1>2. CASE DrainOne
  BY <1>2, DrainUnkeying
<1>3. CASE PollRead \/ PollFails \/ Publish
  <2>1. UNCHANGED <<tasks, rig, keyed>>
    BY <1>3 DEF PollRead, PollFails, Publish, workers
  <2> QED
    BY <2>1, SameUnkeying
<1>4. ASSUME NEW h \in Homes, Dial(h) PROVE Unkeying'
  <2>1. ~rig'.tx /\ Len(tasks') = 0
    BY <1>4 DEF Dial
  <2> QED
    BY <2>1 DEF Unkeying
<1> QED
  BY <1>1, <1>2, <1>3, <1>4 DEF Moves, Poller

----------------------------------------------------------------------------

\* Type correctness of the tunes: a command that reaches the rig is always a
\* power, a mode or the key, whatever the cache held when a tune began.
THEOREM TypeCorrect == Spec => []TypeOK
<1>1. Given /\ TypeOK /\ [Next]_vars => TypeOK'
  <2> SUFFICES ASSUME Given, TypeOK, [Next]_vars PROVE TypeOK'
    OBVIOUS
  <2>1. CASE UNCHANGED vars
    BY <2>1 DEF TypeOK, vars, workers
  <2> QED
    BY <2>1, StepsAreMoves, QuietType, QueueingType, PollerType DEF Moves, Worker
<1> QED
  BY <1>1, InitType, GivenHolds, PTL DEF Spec

\* The invariant of the tunes holds in every reachable state.
THEOREM Invariant == Spec => []TunersInv
<1>1. Init => TunersInv
  <2> SUFFICES ASSUME Init PROVE TunersInv
    OBVIOUS
  <2>1. Owned
    BY DEF Init, Owned
  <2>2. Len(tasks) = 0 /\ ~rig.tx
    BY DEF Init
  <2> QED
    BY <2>1, <2>2, InitType DEF TunersInv, Unkeying
<1>2. Given /\ TunersInv /\ TypeOK' /\ [Next]_vars => TunersInv'
  <2> SUFFICES ASSUME Given, TunersInv, TypeOK', [Next]_vars PROVE TunersInv'
    OBVIOUS
  <2>1. CASE UNCHANGED vars
    BY <2>1, SameUnkeying DEF TunersInv, Owned, vars, workers
  <2> QED
    BY <2>1, StepsAreMoves, OwnedKept, UnkeyingKept DEF TunersInv
<1> QED
  BY <1>1, <1>2, TypeCorrect, GivenHolds, PTL DEF Spec

\* However tunes are started, stopped and overlapped, and whatever the line and
\* the tuner do, the rig is not left transmitting when they are over.
THEOREM TunesEndUnkeyed == Spec => []LeftUnkeyed
<1>1. TunersInv => LeftUnkeyed
  <2> SUFFICES ASSUME TunersInv, active = {}, tasks = <<>> PROVE ~rig.tx
    BY DEF LeftUnkeyed
  <2>1. keyed = {}
    BY DEF TunersInv, Owned, TypeOK
  <2>2. Len(tasks) = 0
    OBVIOUS
  <2> QED
    BY <2>1, <2>2 DEF TunersInv, Unkeying, OffBehind
<1> QED
  BY <1>1, Invariant, PTL

----------------------------------------------------------------------------
(* No poll reports a tune as an over. *)

\* While a poll that read TX is in its callback a worker owns the carrier, or
\* has queued its unkey and sleeps until that poll is published.
Waited ==
  /\ \A t \in asleep : pc[t] # "idle"
  /\ s # NoRead /\ s.tx => keyed # {} \/ asleep # {}

\* Every step of tunes that settle keeps this.
LEMMA WaitedKept ==
  ASSUME Settles, TunersInv, Waited, Moves PROVE Waited'
<1>0. /\ pc \in [Used -> Places] /\ keyed \subseteq Used /\ asleep \subseteq Used
      /\ \A t \in asleep : pc[t] # "idle"
      /\ s # NoRead /\ s.tx => keyed # {} \/ asleep # {}
  BY DEF TunersInv, TypeOK, Waited
<1>1. ASSUME NEW t \in Used, Start(t) \/ StopPress(t) \/ Worker(t) PROVE Waited'
  <2>1. CASE Start(t) \/ StopPress(t)
    BY <1>0, <2>1 DEF Start, StopPress, Waited
  <2>2. CASE Save(t) \/ SetPower(t) \/ SetMode(t) \/ CheckStop(t) \/ Connect(t) \/ CarrierEnds(t)
    <3>1. /\ \E there \in Places \ {"idle"} : pc' = [pc EXCEPT ![t] = there]
          /\ UNCHANGED <<s, keyed>> /\ asleep' \in {asleep, asleep \cup {t}}
      BY <2>2 DEF Save, SetPower, SetMode, CheckStop, Connect, CarrierEnds, QueueAndSleep,
                  Goto, Places, polled
    <3> QED BY <1>0, <3>1 DEF Waited
  <2>3. CASE KeyUp(t)
    <3>1. /\ pc' = [pc EXCEPT ![t] = "carrier"] /\ keyed' # {}
          /\ asleep' \in {asleep, asleep \cup {t}}
      BY <2>3 DEF KeyUp, Goto
    <3> QED BY <1>0, <3>1 DEF Waited
  <2>4. CASE KeyDown(t)
    <3>1. /\ pc' = [pc EXCEPT ![t] = "powerback"] /\ UNCHANGED s
          /\ IF t \in keyed THEN asleep' = asleep \cup {t} ELSE UNCHANGED <<asleep, keyed>>
      BY <2>4 DEF KeyDown, Goto, QueueAndSleep, polled
    <3> QED BY <1>0, <3>1 DEF Waited
  <2>5. CASE PowerBack(t) \/ ModeBack(t)
    <3>1. /\ \E there \in {"modeback", "done"} : pc' = [pc EXCEPT ![t] = there]
          /\ UNCHANGED <<s, keyed>> /\ asleep' \in {asleep, asleep \cup {t}}
      BY <2>5 DEF PowerBack, ModeBack, QueueAndSleep, Goto, polled
    <3> QED BY <1>0, <3>1 DEF Waited
  <2>6. CASE Done(t)
    <3>1. /\ t \notin asleep /\ pc' = [pc EXCEPT ![t] = "idle"]
          /\ UNCHANGED <<s, keyed, asleep>>
      BY <2>6 DEF Done, At, Goto, polled
    <3> QED BY <1>0, <3>1 DEF Waited
  <2>7. ~WakeUp(t)
    BY DEF WakeUp
  <2> QED
    BY <1>1, <2>1, <2>2, <2>3, <2>4, <2>5, <2>6, <2>7 DEF Worker
<1>2. CASE DrainOne \/ \E h \in Homes : Dial(h)
  BY <1>0, <1>2 DEF DrainOne, Dial, workers, Waited
<1>3. CASE PollRead
  <2>1. rig.tx => keyed # {}
    BY <1>3 DEF PollRead, TunersInv, Unkeying, OffBehind
  <2>2. s'.tx = rig.tx /\ UNCHANGED <<pc, keyed, asleep>>
    BY <1>3 DEF PollRead, Reading, workers
  <2> QED BY <1>0, <2>1, <2>2 DEF Waited
<1>4. CASE PollFails
  BY <1>0, <1>4 DEF PollFails, Blank, workers, Waited
<1>5. CASE Publish
  BY <1>5 DEF Publish, Waited
<1> QED
  BY <1>1, <1>2, <1>3, <1>4, <1>5 DEF Moves, Poller

\* active_ outlasts the carrier as polls see it: on a host where a worker's
\* sleep outlasts a poll cycle, no poll gives the recorder or the dead-link
\* check a tuner's carrier as somebody's over, however tunes overlap.
THEOREM TunesAreNotOvers == Spec => []NoTunedOver
<1>1. Init => (Settles => Waited)
  BY DEF Init, Waited
<1>2. Given /\ TunersInv /\ (Settles => Waited) /\ [Next]_vars => (Settles => Waited)'
  <2> SUFFICES ASSUME Given, TunersInv, Settles => Waited, [Next]_vars, Settles' PROVE Waited'
    OBVIOUS
  <2>1. Settles /\ Waited
    BY DEF Next, Settles, vars
  <2>2. CASE UNCHANGED vars
    BY <2>1, <2>2 DEF Waited, vars, workers
  <2> QED BY <2>1, <2>2, StepsAreMoves, WaitedKept
<1>3. TunersInv /\ (Settles => Waited) => NoTunedOver
  BY DEF TunersInv, TypeOK, Owned, Waited, NoTunedOver
<1> QED
  BY <1>1, <1>2, <1>3, Invariant, GivenHolds, PTL DEF Spec

----------------------------------------------------------------------------
(* A tune puts back what it found. *)

\* Position i holds the last setting of kind k in a queue.
LastOf(q, k, i) == q[i][1] = k /\ \A j \in 1 .. Len(q) : j > i => q[j][1] # k

\* A rig that holds h is left with v once the queue is empty.
Ends(q, k, v, h) ==
  /\ \A i \in 1 .. Len(q) : LastOf(q, k, i) => q[i][2] = v
  /\ (\A i \in 1 .. Len(q) : q[i][1] # k) => h = v

PowerEnds == Ends(tasks, "PC", home.power, rig.power)
ModeEnds  == Ends(tasks, "MD", home.mode, rig.mode)

\* One tune at a time.
Alone ==
  /\ \A t \in Used : t \in active <=> pc[t] # "idle"
  /\ \A t, u \in active : t = u

\* Until a worker has looked, the cache shows the rig as it is.
Shows(x) == x.power = rig.power /\ x.mode = ModeName(rig.mode)

Untouched ==
  \A t \in Used : pc[t] = "save" => tasks = <<>> /\ Shows(snap) /\ (s # NoRead => Shows(s))

\* A worker has in hand what it is to put back.
Remembered ==
  \A t \in Used :
    /\ pc[t] \in Places \ {"idle", "save", "modeback", "done"} => saved[t].power = home.power
    /\ pc[t] \in Places \ {"idle", "save", "done"} => saved[t].mode = ModeName(home.mode)

\* What no worker still has in hand, the rig has or will have.
GivenBack ==
  /\ (\A t \in Used : pc[t] \in {"idle", "save", "modeback", "done"}) => PowerEnds
  /\ (\A t \in Used : pc[t] \in {"idle", "save", "done"}) => ModeEnds

\* Settings whose name leads back to their code.
Nameable(h) == h.power > 0 /\ h.mode \in 1 .. 5

Restoring == Alone /\ Untouched /\ Remembered /\ GivenBack /\ Nameable(home)

\* The names of the modes a tune can put back.
LEMMA ModeCodeInverse ==
  \A m \in 1 .. 5 : ModeCode(ModeName(m)) = m /\ ModeName(m) # ""
<1>1. /\ ModeName(1) = "LSB" /\ ModeName(2) = "USB" /\ ModeName(3) = "CW"
      /\ ModeName(4) = "FM" /\ ModeName(5) = "AM"
  BY DEF ModeName
<1>2. \A m \in 1 .. 5 : m = 1 \/ m = 2 \/ m = 3 \/ m = 4 \/ m = 5
  OBVIOUS
<1>3. \A m, k \in 1 .. 5 : ModeName(m) = ModeName(k) => m = k
  BY <1>1, <1>2
<1>4. \A m \in 1 .. 5 : ModeName(m) # "DATA-U" /\ ModeName(m) # ""
  BY <1>1, <1>2
<1> HIDE DEF ModeName
<1>5. ASSUME NEW m \in 1 .. 5 PROVE ModeCode(ModeName(m)) = m
  <2>1. ModeCode(ModeName(m)) = CHOOSE k \in 1 .. 5 : ModeName(k) = ModeName(m)
    BY <1>4 DEF ModeCode
  <2>2. \A k \in 1 .. 5 : ModeName(k) = ModeName(m) <=> k = m
    BY <1>3
  <2> QED BY <2>1, <2>2
<1> QED BY <1>4, <1>5

\* A command of another kind joins the queue.
LEMMA OtherQueued ==
  ASSUME NEW q \in Seq(Commands), NEW c \in Commands, NEW k, c[1] # k,
         NEW v, NEW h, Ends(q, k, v, h)
  PROVE  Ends(Append(q, c), k, v, h)
<1> DEFINE p == Append(q, c)
<1> DEFINE N == Len(q)
<1>1. /\ Len(p) = N + 1 /\ N \in Nat /\ p[N + 1] = c
      /\ \A i \in 1 .. N : p[i] = q[i]
  OBVIOUS
<1> HIDE DEF p
<1>2. \A i \in 1 .. N + 1 : i \in 1 .. N \/ i = N + 1
  BY <1>1
<1>3. \A i \in 1 .. N : i \in 1 .. N + 1
  BY <1>1
<1>4. \A i \in 1 .. N + 1 : LastOf(p, k, i) => i \in 1 .. N /\ LastOf(q, k, i)
  BY <1>1, <1>2, <1>3 DEF LastOf
<1>5. (\A i \in 1 .. N + 1 : p[i][1] # k) => \A i \in 1 .. N : q[i][1] # k
  BY <1>1, <1>3
<1>6. Ends(p, k, v, h)
  BY <1>1, <1>4, <1>5 DEF Ends
<1> QED BY <1>6 DEF p

\* A setting joins the queue: it is the last of its kind.
LEMMA SettingQueued ==
  ASSUME NEW q \in Seq(Commands), NEW k, NEW v, <<k, v>> \in Commands, NEW h
  PROVE  Ends(Append(q, <<k, v>>), k, v, h)
<1> DEFINE p == Append(q, <<k, v>>)
<1> DEFINE N == Len(q)
<1>1. Len(p) = N + 1 /\ N \in Nat /\ p[N + 1] = <<k, v>>
  OBVIOUS
<1> HIDE DEF p
<1>2. N + 1 \in 1 .. N + 1 /\ \A i \in 1 .. N + 1 : i = N + 1 \/ N + 1 > i
  BY <1>1
<1>3. p[N + 1][1] = k /\ p[N + 1][2] = v
  BY <1>1
<1>4. Ends(p, k, v, h)
  BY <1>1, <1>2, <1>3 DEF Ends, LastOf
<1> QED BY <1>4 DEF p

\* The head of the queue has been obeyed.
LEMMA SettingSent ==
  ASSUME NEW q \in Seq(Commands), q # <<>>,
         NEW k, NEW v, NEW h, NEW g, Ends(q, k, v, h),
         q[1][1] # k => g = h,
         q[1] = <<k, v>> => g = v
  PROVE  Ends(Tail(q), k, v, g)
<1> DEFINE p == Tail(q)
<1> DEFINE N == Len(q)
<1>1. /\ N \in Nat \ {0} /\ Len(p) = N - 1 /\ \A i \in 1 .. N - 1 : p[i] = q[i + 1]
      /\ 1 \in 1 .. N /\ q[1] \in Commands
  OBVIOUS
<1> HIDE DEF p
<1>2. \A i \in 1 .. N : i = 1 \/ (i - 1 \in 1 .. N - 1 /\ q[i] = p[i - 1])
  BY <1>1
<1>3. ASSUME NEW i \in 1 .. N - 1, LastOf(p, k, i) PROVE p[i][2] = v
  <2>1. i + 1 \in 1 .. N /\ q[i + 1] = p[i]
    BY <1>1
  <2>2. ASSUME NEW j \in 1 .. N, j > i + 1 PROVE q[j][1] # k
    <3>1. j - 1 \in 1 .. N - 1 /\ j - 1 > i /\ q[j] = p[j - 1]
      BY <1>1, <1>2, <2>2
    <3> QED BY <1>1, <1>3, <3>1 DEF LastOf
  <2>3. LastOf(q, k, i + 1)
    BY <1>3, <2>1, <2>2 DEF LastOf
  <2> QED BY <2>1, <2>3 DEF Ends
<1>4. ASSUME \A i \in 1 .. N - 1 : p[i][1] # k PROVE g = v
  <2>1. ASSUME NEW i \in 1 .. N, i > 1 PROVE q[i][1] # k
    <3>1. i - 1 \in 1 .. N - 1 /\ q[i] = p[i - 1]
      BY <1>1, <1>2, <2>1
    <3> QED BY <1>4, <3>1
  <2>2. CASE q[1][1] = k
    <3>1. LastOf(q, k, 1) /\ q[1][2] = v
      BY <1>1, <2>1, <2>2 DEF LastOf, Ends
    <3>2. q[1] = <<k, v>>
      BY <1>1, <2>2, <3>1 DEF Commands
    <3> QED BY <3>2
  <2>3. CASE q[1][1] # k
    <3>1. \A i \in 1 .. N : q[i][1] # k
      BY <1>1, <2>1, <2>3
    <3> QED BY <2>3, <3>1 DEF Ends
  <2> QED BY <2>2, <2>3
<1>5. Ends(p, k, v, g)
  BY <1>1, <1>3, <1>4 DEF Ends
<1> QED BY <1>5 DEF p

\* The poll thread sends a command: what the rig will be left with is the same.
LEMMA DrainEnds ==
  ASSUME TypeOK, Nameable(home), DrainOne
  PROVE  (PowerEnds => PowerEnds') /\ (ModeEnds => ModeEnds')
<1>1. /\ tasks \in Seq(Commands) /\ tasks # <<>> /\ tasks' = Tail(tasks)
      /\ rig' = Obeyed(Head(tasks)) /\ rig \in Rig /\ home' = home
  BY DEF TypeOK, DrainOne
<1>2. Head(tasks) = tasks[1] /\ tasks[1] \in Commands
  BY <1>1
<1>3. tasks[1][1] \in {"PC", "MD", "TX"}
  BY <1>2 DEF Commands
<1>4. /\ tasks[1][1] # "PC" => rig'.power = rig.power
      /\ tasks[1] = <<"PC", home.power>> => rig'.power = home.power
  BY <1>1, <1>2 DEF Obeyed, Rig
<1>5. tasks[1][1] # "MD" => rig'.mode = rig.mode
  BY <1>1, <1>2, <1>3 DEF Obeyed, Rig
<1>6. tasks[1] = <<"MD", home.mode>> => rig'.mode = home.mode
  BY <1>1, <1>2 DEF Obeyed, Rig, Nameable
<1>7. PowerEnds => PowerEnds'
  BY <1>1, <1>4, SettingSent DEF PowerEnds
<1>8. ModeEnds => ModeEnds'
  BY <1>1, <1>5, <1>6, SettingSent DEF ModeEnds
<1> QED BY <1>7, <1>8

\* Settings under way, unchanged.
LEMMA SameEnds ==
  ASSUME UNCHANGED <<tasks, rig, home>>
  PROVE  (PowerEnds' <=> PowerEnds) /\ (ModeEnds' <=> ModeEnds)
BY DEF PowerEnds, ModeEnds

\* A step of one worker, to another place of the same tune.
LEMMA AloneKept ==
  ASSUME TypeOK, Alone, NEW t \in Used, pc[t] # "idle", NEW there \in Places \ {"idle"},
         pc' = [pc EXCEPT ![t] = there], active' = active
  PROVE  Alone' /\ \A u \in Used : u # t => pc'[u] = "idle"
BY DEF Alone, TypeOK

\* The steps of a tune keep what it is to put back.
LEMMA WorkerRestoring ==
  ASSUME TypeOK, Restoring, ~LossyReads, NEW t \in Used, Worker(t)
  PROVE  Restoring'
<1>0. /\ pc \in [Used -> Places] /\ saved \in [Used -> [power : Powers \cup {0},
                                                       mode : Names \cup {""}]]
      /\ tasks \in Seq(Commands) /\ rig \in Rig /\ active \subseteq Used
      /\ Alone /\ Untouched /\ Remembered /\ GivenBack /\ Nameable(home)
      /\ home \in [power : Powers, mode : Codes] /\ snap \in Snapshots
  BY DEF TypeOK, Restoring
<1>1. CASE WakeUp(t)
  BY <1>0, <1>1, SameEnds DEF WakeUp, polled, Restoring, Alone, Untouched, Shows, Remembered,
     GivenBack, Nameable
<1>2. CASE Save(t)
  <2>1. /\ pc[t] = "save" /\ pc' = [pc EXCEPT ![t] = "power"]
        /\ saved' = [saved EXCEPT ![t] = [power |-> snap.power, mode |-> snap.mode]]
        /\ UNCHANGED <<active, tasks, rig, s, snap, home>>
    BY <1>2 DEF Save, At, Goto, polled
  <2>2. \A u \in Used : u # t => pc[u] = "idle"
    BY <1>0, <2>1 DEF Alone
  <2>3. Alone' /\ \A u \in Used : u # t => pc'[u] = "idle"
    BY <1>0, <2>1, AloneKept DEF Places
  <2>4. /\ tasks = <<>> /\ snap.power = rig.power /\ snap.mode = ModeName(rig.mode)
        /\ PowerEnds /\ ModeEnds
    BY <1>0, <2>1, <2>2 DEF Untouched, Shows, GivenBack
  <2>5. rig.power = home.power /\ rig.mode = home.mode
    BY <2>4 DEF PowerEnds, ModeEnds, Ends
  <2>6. saved'[t].power = home.power /\ saved'[t].mode = ModeName(home.mode)
    BY <1>0, <2>1, <2>4, <2>5
  <2>7. Untouched' /\ GivenBack' /\ Nameable(home)'
    BY <1>0, <2>1, <2>3 DEF Untouched, GivenBack, Nameable
  <2>8. Remembered'
    BY <1>0, <2>1, <2>3, <2>6 DEF Remembered
  <2> QED BY <2>3, <2>7, <2>8 DEF Restoring
<1>3. CASE \/ SetPower(t) \/ SetMode(t) \/ CheckStop(t) \/ Connect(t) \/ KeyUp(t)
           \/ CarrierEnds(t) \/ KeyDown(t)
  <2>1. /\ pc[t] \in {"power", "mode", "check", "connect", "key", "carrier", "unkey"}
        /\ \E there \in {"mode", "check", "unkey", "connect", "key", "carrier", "powerback"} :
             pc' = [pc EXCEPT ![t] = there]
        /\ UNCHANGED <<active, saved, rig, s, snap, home>>
    BY <1>3 DEF SetPower, SetMode, CheckStop, Connect, KeyUp, CarrierEnds, KeyDown, At, Goto,
                polled
  <2>2. Alone' /\ \A u \in Used : u # t => pc'[u] = "idle"
    BY <1>0, <2>1, AloneKept DEF Places
  <2>3. pc'[t] \in {"mode", "check", "unkey", "connect", "key", "carrier", "powerback"}
    BY <1>0, <2>1
  <2>4. Remembered'
    BY <1>0, <2>1, <2>2, <2>3 DEF Remembered, Places
  <2>5. Untouched' /\ GivenBack' /\ Nameable(home)'
    BY <1>0, <2>1, <2>2, <2>3 DEF Untouched, GivenBack, Nameable
  <2> QED BY <2>2, <2>4, <2>5 DEF Restoring
<1>4. CASE PowerBack(t)
  <2>1. /\ pc[t] = "powerback" /\ pc' = [pc EXCEPT ![t] = "modeback"]
        /\ UNCHANGED <<active, saved, rig, s, snap>>
    BY <1>4 DEF PowerBack, At, Goto, polled
  <2>2. Alone' /\ \A u \in Used : u # t => pc'[u] = "idle"
    BY <1>0, <2>1, AloneKept DEF Places
  <2>3. saved[t].power = home.power /\ saved[t].mode = ModeName(home.mode)
    BY <1>0, <2>1 DEF Remembered, Places
  <2>4. PowerEnds' /\ home'.mode = home.mode /\ home'.power > 0
    <3>1. CASE t = "amp"
      <4>1. Queue(<<"PC", AfterPower>>) /\ home'.power = AfterPower /\ home'.mode = home.mode
        BY <1>0, <1>4, <3>1 DEF PowerBack
      <4>2. tasks' = Append(tasks, <<"PC", AfterPower>>) /\ <<"PC", AfterPower>> \in Commands
        BY <4>1, PowersHold, CommandTypes DEF Queue
      <4>3. PowerEnds'
        BY <1>0, <4>1, <4>2, SettingQueued DEF PowerEnds
      <4> QED BY <4>1, <4>3 DEF AfterPower
    <3>2. CASE t # "amp"
      <4>1. Queue(<<"PC", home.power>>) /\ home' = home /\ home.power > 0
        BY <1>0, <1>4, <2>3, <3>2 DEF PowerBack, QueueAndSleep, Nameable
      <4>2. tasks' = Append(tasks, <<"PC", home.power>>) /\ <<"PC", home.power>> \in Commands
        BY <1>0, <4>1, CommandTypes DEF Queue
      <4>3. PowerEnds'
        BY <1>0, <4>1, <4>2, SettingQueued DEF PowerEnds
      <4> QED BY <4>1, <4>3
    <3> QED BY <3>1, <3>2
  <2>5. Remembered'
    BY <1>0, <2>1, <2>2, <2>3, <2>4 DEF Remembered
  <2>6. Untouched' /\ GivenBack' /\ Nameable(home)'
    BY <1>0, <2>1, <2>2, <2>4 DEF Untouched, GivenBack, Nameable
  <2> QED BY <2>2, <2>5, <2>6 DEF Restoring
<1>5. CASE ModeBack(t)
  <2>1. /\ pc[t] = "modeback" /\ pc' = [pc EXCEPT ![t] = "done"]
        /\ UNCHANGED <<active, saved, rig, s, snap, home>>
    BY <1>5 DEF ModeBack, At, Goto, polled
  <2>2. Alone' /\ \A u \in Used : u # t => pc'[u] = "idle"
    BY <1>0, <2>1, AloneKept DEF Places
  <2>3. PowerEnds
    BY <1>0, <2>1 DEF Alone, GivenBack
  <2>4. saved[t].mode = ModeName(home.mode)
    BY <1>0, <2>1 DEF Remembered, Places
  <2>5. ModeName(home.mode) # "" /\ ModeCode(ModeName(home.mode)) = home.mode
    BY <1>0, ModeCodeInverse DEF Nameable
  <2>6. tasks' = Append(tasks, <<"MD", home.mode>>) /\ <<"MD", home.mode>> \in Commands
    BY <1>5, <2>4, <2>5, CommandTypes DEF ModeBack, Queue
  <2>a. <<"MD", home.mode>>[1] # "PC"
    OBVIOUS
  <2>7. PowerEnds'
    BY <1>0, <2>1, <2>3, <2>6, <2>a, OtherQueued DEF PowerEnds
  <2>8. ModeEnds'
    BY <1>0, <2>1, <2>6, SettingQueued DEF ModeEnds
  <2>9. Untouched' /\ Remembered' /\ GivenBack' /\ Nameable(home)'
    BY <1>0, <2>1, <2>2, <2>7, <2>8 DEF Untouched, Remembered, GivenBack, Nameable
  <2> QED BY <2>2, <2>9 DEF Restoring
<1>6. CASE Done(t)
  <2>1. /\ pc[t] = "done" /\ pc' = [pc EXCEPT ![t] = "idle"] /\ active' = active \ {t}
        /\ UNCHANGED <<tasks, rig, s, snap, home>>
    BY <1>6 DEF Done, At, Goto, polled
  <2>2. \A u \in Used : pc'[u] = "idle" /\ (u # t => pc[u] = "idle")
    BY <1>0, <2>1 DEF Alone
  <2>3. PowerEnds /\ ModeEnds
    BY <1>0, <2>1, <2>2 DEF GivenBack
  <2>4. Alone' /\ Untouched' /\ Remembered' /\ Nameable(home)'
    BY <1>0, <2>1, <2>2 DEF Alone, Untouched, Remembered, Nameable
  <2> QED BY <2>1, <2>3, <2>4, SameEnds DEF Restoring, GivenBack
<1> QED BY <1>1, <1>2, <1>3, <1>4, <1>5, <1>6 DEF Worker

\* So do presses, the poll thread and the operator between tunes.
LEMMA OthersRestoring ==
  ASSUME TypeOK, Restoring, Calm, ~Overlap, ~LossyReads,
         \A h \in Homes : h.mode \in 1 .. 5,
         \/ \E t \in Used : Start(t) \/ StopPress(t)
         \/ Poller \/ \E h \in Homes : Dial(h)
  PROVE  Restoring'
<1>0. /\ pc \in [Used -> Places] /\ active \subseteq Used
      /\ Alone /\ Untouched /\ Remembered /\ GivenBack /\ Nameable(home)
  BY DEF TypeOK, Restoring
<1>1. ASSUME NEW t \in Used, Start(t) PROVE Restoring'
  <2>1. /\ active = {} /\ active' = {t} /\ pc' = [pc EXCEPT ![t] = "save"]
        /\ tasks = <<>> /\ s = NoRead /\ snap = Reading(rig)
        /\ UNCHANGED <<saved, tasks, rig, s, snap, home>>
    BY <1>1 DEF Start
  <2>2. \A u \in Used : pc[u] = "idle" /\ pc'[u] \in {"idle", "save"}
    BY <1>0, <2>1 DEF Alone
  <2>3. Alone' /\ Remembered' /\ Nameable(home)'
    BY <1>0, <2>1, <2>2 DEF Alone, Remembered, Nameable
  <2>4. Untouched'
    BY <2>1 DEF Untouched, Shows, Reading
  <2>5. GivenBack'
    BY <1>0, <2>1, <2>2, SameEnds DEF GivenBack
  <2> QED BY <2>3, <2>4, <2>5 DEF Restoring
<1>2. ASSUME NEW t \in Used, StopPress(t) PROVE Restoring'
  <2>1. UNCHANGED <<active, pc, saved, tasks, rig, s, snap, home>>
    BY <1>2 DEF StopPress
  <2> QED BY <1>0, <2>1, SameEnds DEF Restoring, Alone, Untouched, Shows, Remembered, GivenBack,
                                      Nameable
<1>3. CASE DrainOne
  <2>1. UNCHANGED <<active, pc, saved, s, snap, home>> /\ tasks # <<>>
    BY <1>3 DEF DrainOne, workers
  <2>2. GivenBack'
    BY <1>0, <1>3, <2>1, DrainEnds DEF GivenBack
  <2> QED BY <1>0, <2>1, <2>2 DEF Restoring, Alone, Untouched, Remembered, Nameable
<1>4. CASE PollRead \/ Publish
  <2>1. /\ UNCHANGED <<active, pc, saved, tasks, rig, home>>
        /\ \/ s' = Reading(rig) /\ snap' = snap
           \/ s # NoRead /\ snap' = s /\ s' = NoRead
    BY <1>4 DEF PollRead, Publish, workers
  <2>2. Untouched'
    BY <1>0, <2>1 DEF Untouched, Shows, Reading
  <2> QED BY <1>0, <2>1, <2>2, SameEnds DEF Restoring, Alone, Remembered, GivenBack, Nameable
<1>5. ASSUME NEW h \in Homes, Dial(h) PROVE Restoring'
  <2>1. /\ active = {} /\ tasks = <<>> /\ home' = h /\ rig'.power = h.power /\ rig'.mode = h.mode
        /\ UNCHANGED <<active, pc, saved, tasks, s, snap>>
    BY <1>5 DEF Dial, workers
  <2>2. \A u \in Used : pc'[u] = "idle"
    BY <1>0, <2>1 DEF Alone
  <2>3. h.power > 0 /\ h.mode \in 1 .. 5
    BY HomesAssumption
  <2>4. PowerEnds' /\ ModeEnds'
    BY <2>1 DEF PowerEnds, ModeEnds, Ends
  <2> QED BY <1>0, <2>1, <2>2, <2>3, <2>4 DEF Restoring, Alone, Untouched, Remembered, GivenBack,
                                              Nameable
<1>6. ~PollFails
  BY DEF PollFails
<1> QED
  BY <1>1, <1>2, <1>3, <1>4, <1>5, <1>6 DEF Poller

\* The worker's finally: with one tune at a time, started when the cache shows
\* the rig as it is, polls that are answered, and a mode whose name leads back
\* to its code (LSB, USB, CW, FM, AM), a tune leaves the rig on the operator's
\* power and mode (the amplifier's on 100 W), for any settings and any timing.
THEOREM TunesPutBack ==
  ASSUME \A h \in Homes : h.mode \in 1 .. 5 PROVE Spec => []PutBack
<1>1. Init => (Undisturbed => Restoring)
  <2> SUFFICES ASSUME Init PROVE Restoring
    OBVIOUS
  <2>1. /\ home \in Homes /\ active = {} /\ tasks = <<>> /\ \A t \in Used : pc[t] = "idle"
        /\ rig.power = home.power /\ rig.mode = home.mode
    BY RegimesAssumption DEF Init
  <2>2. Nameable(home)
    <3>1. home \in [power : 1 .. 200, mode : Codes] /\ home.mode \in 1 .. 5
      BY <2>1, HomesAssumption
    <3> QED BY <3>1 DEF Nameable
  <2>3. PowerEnds /\ ModeEnds
    BY <2>1 DEF PowerEnds, ModeEnds, Ends
  <2> QED
    BY <2>1, <2>2, <2>3 DEF Restoring, Alone, Untouched, Remembered, GivenBack
<1>2. Given /\ TypeOK /\ (Undisturbed => Restoring) /\ [Next]_vars
        => (Undisturbed => Restoring)'
  <2> SUFFICES ASSUME Given, TypeOK, Undisturbed => Restoring, [Next]_vars, Undisturbed'
               PROVE  Restoring'
    OBVIOUS
  <2>0. Undisturbed /\ Restoring
    BY DEF Next, vars, Undisturbed, Calm, Overlap, LossyReads
  <2>1. CASE UNCHANGED vars
    <3>1. UNCHANGED <<active, pc, saved, tasks, rig, s, snap, home>>
      BY <2>1 DEF vars, workers
    <3> QED BY <2>0, <3>1, SameEnds DEF Restoring, Alone, Untouched, Shows, Remembered, GivenBack,
                                  Nameable
  <2> QED BY <2>0, <2>1, StepsAreMoves, WorkerRestoring, OthersRestoring DEF Undisturbed, Moves
<1>3. TypeOK /\ (Undisturbed => Restoring) => PutBack
  <2> SUFFICES ASSUME TypeOK, Restoring, active = {}, tasks = <<>>
               PROVE  rig.power = home.power /\ rig.mode = home.mode
    BY DEF PutBack
  <2>1. \A t \in Used : pc[t] = "idle"
    BY DEF Restoring, Alone
  <2>2. PowerEnds /\ ModeEnds
    BY <2>1 DEF Restoring, GivenBack
  <2> QED BY <2>2 DEF PowerEnds, ModeEnds, Ends
<1> QED
  BY <1>1, <1>2, <1>3, TypeCorrect, GivenHolds, PTL DEF Spec
=============================================================================
