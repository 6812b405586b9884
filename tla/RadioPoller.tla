---------------------------- MODULE RadioPoller ----------------------------
(***************************************************************************)
(* The thread that owns the rig (src/src/radio.cpp, radio.h).              *)
(*                                                                         *)
(* Handlers never touch the serial port: they push a task on one queue and *)
(* return.  The poll thread loops: run every queued task, read the rig,    *)
(* check the transmit watchdog, publish the snapshot every other component *)
(* reads, sleep.                                                           *)
(*                                                                         *)
(* A task is the sequence of CAT writes it makes; a write is a pair        *)
(* <<verb, value>>.  Four fields of the rig stand for all of them: TX, two *)
(* fast fields that compound tasks change together (FA, FB), and NB for    *)
(* the slow set that is read once in FullEvery cycles.                     *)
(*                                                                         *)
(* Time passes in ticks.  gap, carrier, held and lag are lengths of time   *)
(* or numbers of cycles, never dates, so that the state space stays small. *)
(***************************************************************************)
EXTENDS Naturals, Sequences

CONSTANTS
  Freqs,        \* frequencies the rig can be on (0 is "not read")
  Requests,     \* the tasks that handlers, tuners and CAT clients may queue
  Limit,        \* ptt_timeout_s_ in ticks, 0 disables the watchdog
  MaxGap,       \* longest time, in ticks, from one watchdog check to the next
  FullEvery,    \* kFullEveryNCycles
  MaxQueue,     \* bound on the length of tasks_
  Callers,      \* how many threads may be inside Enqueue at once
  Horizon,      \* bound on the length of one carrier, in ticks
  HandMic,      \* TRUE: the operator at the radio keys it as well
  LossyReads,   \* TRUE: the line may lose a reply
  MissedPolls,  \* TRUE: the rig may leave a whole cycle unanswered
  LossyWrites,  \* TRUE: the line may lose a command
  BoundedDrain  \* TRUE: MaxGap holds however many tasks a drain runs

Write == ({"TX", "NB"} \X BOOLEAN) \cup ({"FA", "FB"} \X Freqs)

ASSUME FreqsAssumption == Freqs \subseteq Nat \ {0} /\ Freqs # {}
ASSUME RequestsAssumption == Requests \subseteq Seq(Write) \ {<<>>}
ASSUME LimitAssumption == Limit \in Nat
ASSUME MaxGapAssumption == MaxGap \in Nat \ {0}
ASSUME FullEveryAssumption == FullEvery \in Nat \ {0}
ASSUME BoundsAssumption == {MaxQueue, Callers, Horizon} \subseteq Nat
ASSUME FlagsAssumption ==
  {HandMic, LossyReads, MissedPolls, LossyWrites, BoundedDrain} \subseteq BOOLEAN

VARIABLES
  tasks,       \* tasks_: queued, not started
  marking,     \* callers that have pushed and not yet set full_dirty_
  full_dirty,  \* full_dirty_: the next cycle re-reads the slow set
  running,     \* running_
  pc,          \* where the poll thread is in PollLoop
  task,        \* writes the task in hand has still to make
  cycle,       \* cycle_ modulo FullEvery
  s,           \* the snapshot PollOnce is filling
  snap,        \* snap_: what every other component reads
  was_tx,      \* was_tx_
  held,        \* ticks since keyed_since_
  rig,         \* the radio itself
  carrier,     \* ticks the radio has been transmitting without a break
  gap,         \* ticks since the last watchdog check (or failed poll)
  lag          \* consecutive snapshots published with an NB the rig is not in

queueVars == <<tasks, marking, full_dirty>>
pollVars  == <<pc, task, cycle, s, snap, lag>>
dogVars   == <<was_tx, held>>
rigVars   == <<rig, carrier>>
vars == <<queueVars, running, pollVars, dogVars, rigVars, gap>>

Steps == {"drain", "id", "fast", "slow", "watchdog", "publish", "sleep", "stopped"}

\* A snapshot in which nothing has been read.
Blank == [connected |-> FALSE, TX |-> FALSE, FA |-> 0, FB |-> 0, NB |-> FALSE]

Rig      == [TX : BOOLEAN, FA : Freqs, FB : Freqs, NB : BOOLEAN]
Snapshot == [connected : BOOLEAN, TX : BOOLEAN, FA : Freqs \cup {0},
             FB : Freqs \cup {0}, NB : BOOLEAN]

TypeOK ==
  /\ tasks \in Seq(Requests)
  /\ marking \in 0 .. Callers
  /\ full_dirty \in BOOLEAN
  /\ running \in BOOLEAN
  /\ pc \in Steps
  /\ task \in Seq(Write)
  /\ cycle \in 0 .. FullEvery - 1
  /\ s \in Snapshot
  /\ snap \in Snapshot
  /\ was_tx \in BOOLEAN
  /\ held \in Nat
  /\ rig \in Rig
  /\ carrier \in Nat
  /\ gap \in 0 .. MaxGap
  /\ lag \in Nat

Init ==
  /\ tasks = <<>> /\ marking = 0 /\ full_dirty = TRUE
  /\ running = TRUE
  /\ pc = "drain" /\ task = <<>> /\ cycle = 0
  /\ s = Blank /\ snap = Blank /\ lag = 0
  /\ was_tx = FALSE /\ held = 0
  /\ rig \in {r \in Rig : ~r.TX /\ ~r.NB /\ r.FA = r.FB}
  /\ carrier = 0
  /\ gap = 0

----------------------------------------------------------------------------
(* The radio and the serial line. *)

Written(w, r) == [r EXCEPT ![w[1]] = w[2]]

\* What the radio may be after the command w was sent to it.
Sent(w) == {Written(w, rig)} \cup (IF LossyWrites THEN {rig} ELSE {})

\* What a read of the value v leaves in a field that starts at the default d:
\* a lost reply leaves the default, never the previous value.
Reply(v, d) == {v} \cup (IF LossyReads THEN {d} ELSE {})

\* The radio becomes r: a carrier that goes on keeps its age.
RigBecomes(r) ==
  /\ rig' = r
  /\ carrier' = IF r.TX THEN carrier ELSE 0

HandMicPtt ==
  /\ HandMic
  /\ RigBecomes(Written(<<"TX", ~rig.TX>>, rig))
  /\ UNCHANGED <<queueVars, running, pollVars, dogVars, gap>>

----------------------------------------------------------------------------
(* Callers on other threads. *)

\* Enqueue and EnqueueTask: the push is under queue_mu_, the dirty flag is
\* stored after the lock is released.
Enqueue(r) ==
  /\ Len(tasks) < MaxQueue /\ marking < Callers
  /\ tasks' = Append(tasks, r)
  /\ marking' = marking + 1
  /\ UNCHANGED <<full_dirty, running, pollVars, dogVars, rigVars, gap>>

MarkDirty ==
  /\ marking > 0
  /\ marking' = marking - 1
  /\ full_dirty' = TRUE
  /\ UNCHANGED <<tasks, running, pollVars, dogVars, rigVars, gap>>

\* Stop clears the flag; its join waits until pc = "stopped".
Stop ==
  /\ running
  /\ running' = FALSE
  /\ UNCHANGED <<queueVars, pollVars, dogVars, rigVars, gap>>

----------------------------------------------------------------------------
(* DrainQueue: until the queue is empty, pop a task and run it. *)

\* Mutant: the newest task first.
PopNewest ==
  /\ pc = "drain" /\ task = <<>> /\ tasks # <<>>
  /\ task' = tasks[Len(tasks)]
  /\ tasks' = SubSeq(tasks, 1, Len(tasks) - 1)
  /\ UNCHANGED <<marking, full_dirty, running, pc, cycle, s, snap, lag,
                 dogVars, rigVars, gap>>

PopTask ==
  /\ pc = "drain" /\ task = <<>> /\ tasks # <<>>
  /\ task' = Head(tasks)
  /\ tasks' = Tail(tasks)
  /\ UNCHANGED <<marking, full_dirty, running, pc, cycle, s, snap, lag,
                 dogVars, rigVars, gap>>

RunTask ==
  /\ pc = "drain" /\ task # <<>>
  /\ \E r \in Sent(Head(task)) : RigBecomes(r)
  /\ task' = Tail(task)
  /\ UNCHANGED <<queueVars, running, pc, cycle, s, snap, lag, dogVars, gap>>

\* Mutant: a poll may come between two writes of one task.
DrainBetweenWrites ==
  /\ pc = "drain" /\ tasks = <<>>
  /\ pc' = "id"
  /\ UNCHANGED <<queueVars, running, task, cycle, s, snap, lag, dogVars,
                 rigVars, gap>>

DrainDone ==
  /\ pc = "drain" /\ task = <<>> /\ tasks = <<>>
  /\ pc' = "id"
  /\ UNCHANGED <<queueVars, running, task, cycle, s, snap, lag, dogVars,
                 rigVars, gap>>

----------------------------------------------------------------------------
(* PollOnce. *)

\* The rig answers ID; and the cycle goes on.
PollId ==
  /\ pc = "id"
  /\ s' = [Blank EXCEPT !.connected = TRUE]
  /\ pc' = "fast"
  /\ UNCHANGED <<queueVars, running, task, cycle, snap, lag, dogVars,
                 rigVars, gap>>

\* No answer: a blank snapshot is published and the cycle ends here, before
\* the watchdog and without counting as a cycle.
PollIdLost ==
  /\ pc = "id" /\ MissedPolls
  /\ s' = Blank
  /\ snap' = Blank
  /\ lag' = 0
  /\ gap' = 0
  /\ pc' = "sleep"
  /\ UNCHANGED <<queueVars, running, task, cycle, dogVars, rigVars>>

PollFast ==
  /\ pc = "fast"
  /\ \E fa \in Reply(rig.FA, 0), fb \in Reply(rig.FB, 0),
        tx \in Reply(rig.TX, FALSE) :
       s' = [s EXCEPT !.FA = fa, !.FB = fb, !.TX = tx]
  /\ pc' = "slow"
  /\ UNCHANGED <<queueVars, running, task, cycle, snap, lag, dogVars,
                 rigVars, gap>>

\* Mutant: the slow fields are re-read on demand only.
NeverScheduled == FALSE

\* cycle_ % kFullEveryNCycles == 0 || full_dirty_.exchange(false): on a
\* scheduled cycle the flag is not looked at and stays as it is.
Scheduled == cycle = 0

PollFull ==
  /\ pc = "slow" /\ (Scheduled \/ full_dirty)
  /\ \E nb \in Reply(rig.NB, FALSE) : s' = [s EXCEPT !.NB = nb]
  /\ full_dirty' = (Scheduled /\ full_dirty)
  /\ cycle' = (cycle + 1) % FullEvery
  /\ pc' = "watchdog"
  /\ UNCHANGED <<tasks, marking, running, task, snap, lag, dogVars, rigVars, gap>>

CarryForward ==
  /\ pc = "slow" /\ ~(Scheduled \/ full_dirty)
  /\ s' = [s EXCEPT !.NB = snap.NB]
  /\ cycle' = (cycle + 1) % FullEvery
  /\ pc' = "watchdog"
  /\ UNCHANGED <<queueVars, running, task, snap, lag, dogVars, rigVars, gap>>

\* Mutant: keyed_since_ is stamped on every keyed cycle, not on the edge.
HeldEveryCycle == 0

\* The length of the over CheckWatchdog sees: zero on a rising edge.  Between
\* overs keyed_since_ is not used, and held is zero.
HeldNow == IF s.TX /\ was_tx THEN held ELSE 0

Expired == Limit > 0 /\ s.TX /\ HeldNow >= Limit

CheckWatchdog ==
  /\ pc = "watchdog" /\ ~Expired
  /\ held' = HeldNow
  /\ was_tx' = s.TX
  /\ gap' = 0
  /\ pc' = "publish"
  /\ UNCHANGED <<queueVars, running, task, cycle, s, snap, lag, rigVars>>

\* One TX0, sent past the queue; was_tx_ is cleared, so a rig that did not
\* hear it counts as a new over at the next cycle.
WatchdogTrip ==
  /\ pc = "watchdog" /\ Expired
  /\ \E r \in Sent(<<"TX", FALSE>>) : RigBecomes(r)
  /\ held' = 0
  /\ was_tx' = FALSE
  /\ gap' = 0
  /\ pc' = "publish"
  /\ UNCHANGED <<queueVars, running, task, cycle, s, snap, lag>>

Publish ==
  /\ pc = "publish"
  /\ snap' = s
  /\ lag' = IF s.NB = rig.NB THEN 0 ELSE lag + 1
  /\ pc' = "sleep"
  /\ UNCHANGED <<queueVars, running, task, cycle, s, dogVars, rigVars, gap>>

\* Mutant: the loop does not look at running_.
WakeAlways ==
  /\ pc = "sleep"
  /\ pc' = "drain"
  /\ UNCHANGED <<queueVars, running, task, cycle, s, snap, lag, dogVars,
                 rigVars, gap>>

Wake ==
  /\ pc = "sleep"
  /\ pc' = IF running THEN "drain" ELSE "stopped"
  /\ UNCHANGED <<queueVars, running, task, cycle, s, snap, lag, dogVars,
                 rigVars, gap>>

----------------------------------------------------------------------------
(* Time.  An exchange times out after 250 ms and a cycle makes a fixed      *)
(* number of them, so the poll itself takes bounded time; the time a drain  *)
(* takes depends on what is queued, and is bounded only by BoundedDrain.    *)

Tick ==
  /\ \/ gap < MaxGap
     \/ pc = "drain" /\ ~BoundedDrain
  /\ carrier < Horizon
  /\ gap' = IF gap < MaxGap THEN gap + 1 ELSE gap
  /\ carrier' = IF rig.TX THEN carrier + 1 ELSE 0
  /\ held' = IF was_tx THEN held + 1 ELSE held
  /\ UNCHANGED <<queueVars, running, pollVars, was_tx, rig>>

----------------------------------------------------------------------------

Poller ==
  \/ PopTask \/ RunTask \/ DrainDone
  \/ PollId \/ PollIdLost \/ PollFast \/ PollFull \/ CarryForward
  \/ CheckWatchdog \/ WatchdogTrip \/ Publish \/ Wake

Next ==
  \/ \E r \in Requests : Enqueue(r)
  \/ MarkDirty
  \/ Stop
  \/ HandMicPtt
  \/ Poller
  \/ Tick

Spec == Init /\ [][Next]_vars

----------------------------------------------------------------------------
(* Properties. *)

\* The transmit watchdog (CheckWatchdog): while the poll thread lives no
\* carrier outlives the limit by more than three watchdog periods - one to
\* notice it, one between the read and the check, one to the check that ends
\* it.  Needs a line that loses nothing and drains that end.
CarrierBounded ==
  Limit > 0 /\ pc # "stopped" => carrier <= Limit + 3 * MaxGap

\* Why it holds: an over the watchdog knows of is at most two periods older
\* than the clock it runs, and that clock was below the limit at the last
\* check; an over it does not know of began after the read before the last
\* check, and one it has just read as absent began since the last check.
WatchdogInv ==
  /\ ~rig.TX => carrier = 0
  /\ was_tx => carrier <= held + 2 * MaxGap
  /\ ~was_tx => carrier <= gap + MaxGap
  /\ pc \in {"slow", "watchdog"} /\ ~s.TX => carrier <= gap
  /\ was_tx /\ Limit > 0 => held < Limit + gap

\* Compound tasks (quick-split, vfo-copy) run whole on the poll thread: no
\* poll read lands between two writes of one task, so a snapshot that has read
\* both never shows FA and FB half changed when every request changes them
\* together.
NoHalfApplied == snap.FA # 0 /\ snap.FB # 0 => snap.FA = snap.FB

\* A slow field the rig has changed is shown within FullEvery cycles, the
\* scheduled re-read, whatever happened to the dirty flag.
RereadOnSchedule == lag < FullEvery

\* The task in hand counts as applied in full as soon as it is popped.
Line  == INSTANCE SerialRig WITH pending <- tasks
Queue == INSTANCE SerialRig WITH pending <- tasks, rig <- Line!Apply(task, rig)

\* The poll thread with its queue implements the serial rig: requests take
\* effect whole and in submission order (DrainQueue's one queue, tasks that
\* run without a poll read or another command inside them).
ServesInOrder == Queue!Spec

=============================================================================
