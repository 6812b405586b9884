----------------------------- MODULE RigProofs ------------------------------
(***************************************************************************)
(* Theorems about RadioPoller, for every limit, every period, every set of *)
(* requests and every bound, and about HostShutdown, whatever the line     *)
(* loses and whatever is queued while the process ends.                    *)
(***************************************************************************)
EXTENDS HostShutdown, WellFoundedInduction, TLAPS

----------------------------------------------------------------------------
(* The poll thread. *)

\* The assumptions on the constants, in the form the steps cite them.
LEMMA Constants ==
  /\ Freqs \subseteq Nat \ {0}
  /\ Requests \subseteq Seq(Write) \ {<<>>}
  /\ Limit \in Nat /\ MaxGap \in Nat \ {0} /\ FullEvery \in Nat \ {0}
  /\ MaxQueue \in Nat /\ Callers \in Nat /\ Horizon \in Nat
BY FreqsAssumption, RequestsAssumption, LimitAssumption, MaxGapAssumption,
   FullEveryAssumption, BoundsAssumption

\* A write changes the one field it names, to a value of that field.
LEMMA WrittenType ==
  ASSUME NEW r \in Rig, NEW w \in Write
  PROVE  Written(w, r) \in Rig
<1>1. CASE w \in {"TX", "NB"} \X BOOLEAN
  BY <1>1 DEF Written, Rig
<1>2. CASE w \in {"FA", "FB"} \X Freqs
  BY <1>2 DEF Written, Rig
<1> QED
  BY <1>1, <1>2 DEF Write

\* Whatever the line does to a command, a radio remains a radio.
LEMMA SentType ==
  ASSUME rig \in Rig, NEW w \in Write, NEW r \in Sent(w)
  PROVE  r \in Rig
BY WrittenType DEF Sent

\* A radio that becomes r has a type and an age.
LEMMA RigBecomesType ==
  ASSUME NEW r \in Rig, carrier \in Nat, RigBecomes(r)
  PROVE  rig' \in Rig /\ carrier' \in Nat
BY DEF RigBecomes

\* The initial state is well typed.
LEMMA InitType == Init => TypeOK
<1> SUFFICES ASSUME Init PROVE TypeOK
  OBVIOUS
<1>1. rig \in Rig /\ Blank \in Snapshot
  BY DEF Init, Blank, Snapshot
<1>2. 0 \in 0 .. FullEvery - 1 /\ 0 \in 0 .. MaxGap /\ 0 \in 0 .. Callers
  BY Constants
<1>3. tasks \in Seq(Requests) /\ task \in Seq(Write)
  BY DEF Init
<1> QED
  BY <1>1, <1>2, <1>3 DEF Init, TypeOK, Steps

----------------------------------------------------------------------------
(* Every action keeps the types. *)

\* The steps of callers, of the operator at the radio and of time.
LEMMA OthersType ==
  ASSUME TypeOK,
         \/ \E r \in Requests : Enqueue(r)
         \/ MarkDirty \/ Stop \/ HandMicPtt \/ Tick
  PROVE  TypeOK'
<1>1. ASSUME NEW r \in Requests, Enqueue(r) PROVE TypeOK'
  <2>1. tasks' \in Seq(Requests)
    BY <1>1 DEF TypeOK, Enqueue
  <2>2. marking' \in 0 .. Callers
    BY <1>1, Constants DEF TypeOK, Enqueue
  <2> QED
    BY <1>1, <2>1, <2>2 DEF TypeOK, Enqueue, pollVars, dogVars, rigVars
<1>2. CASE MarkDirty
  <2>1. marking' \in 0 .. Callers
    BY <1>2, Constants DEF TypeOK, MarkDirty
  <2> QED
    BY <1>2, <2>1 DEF TypeOK, MarkDirty, pollVars, dogVars, rigVars
<1>3. CASE Stop
  BY <1>3 DEF TypeOK, Stop, queueVars, pollVars, dogVars, rigVars
<1>4. CASE HandMicPtt
  <2>1. <<"TX", ~rig.TX>> \in Write /\ rig \in Rig /\ carrier \in Nat
    BY DEF TypeOK, Write
  <2>2. rig' \in Rig /\ carrier' \in Nat
    BY <1>4, <2>1, WrittenType, RigBecomesType DEF HandMicPtt
  <2> QED
    BY <1>4, <2>2 DEF TypeOK, HandMicPtt, queueVars, pollVars, dogVars
<1>5. CASE Tick
  <2>1. gap' \in 0 .. MaxGap /\ carrier' \in Nat /\ held' \in Nat
    BY <1>5, Constants DEF TypeOK, Tick
  <2> QED
    BY <1>5, <2>1 DEF TypeOK, Tick, queueVars, pollVars
<1> QED
  BY <1>1, <1>2, <1>3, <1>4, <1>5

\* The steps of DrainQueue.
LEMMA DrainType ==
  ASSUME TypeOK, PopTask \/ RunTask \/ DrainDone
  PROVE  TypeOK'
<1>1. CASE PopTask
  <2>1. tasks' \in Seq(Requests) /\ task' \in Requests
    BY <1>1 DEF TypeOK, PopTask
  <2>2. task' \in Seq(Write)
    BY <2>1, Constants
  <2> QED
    BY <1>1, <2>1, <2>2 DEF TypeOK, PopTask, dogVars, rigVars
<1>2. CASE RunTask
  <2>1. Head(task) \in Write /\ task' \in Seq(Write)
    BY <1>2 DEF TypeOK, RunTask
  <2>2. rig' \in Rig /\ carrier' \in Nat
    BY <1>2, <2>1, SentType, RigBecomesType DEF TypeOK, RunTask
  <2> QED
    BY <1>2, <2>1, <2>2 DEF TypeOK, RunTask, queueVars, dogVars
<1>3. CASE DrainDone
  BY <1>3 DEF TypeOK, DrainDone, Steps, queueVars, dogVars, rigVars
<1> QED
  BY <1>1, <1>2, <1>3

\* The steps of PollOnce that fill the snapshot.
LEMMA PollType ==
  ASSUME TypeOK, PollId \/ PollIdLost \/ PollFast \/ PollFull \/ CarryForward
  PROVE  TypeOK'
<1> Blank \in Snapshot /\ 0 \in 0 .. MaxGap
  BY Constants DEF Blank, Snapshot
<1>1. CASE PollId
  <2>1. s' \in Snapshot
    BY <1>1 DEF PollId, Blank, Snapshot
  <2> QED
    BY <1>1, <2>1 DEF TypeOK, PollId, Steps, queueVars, dogVars, rigVars
<1>2. CASE PollIdLost
  BY <1>2 DEF TypeOK, PollIdLost, Steps, queueVars, dogVars, rigVars
<1>3. CASE PollFast
  <2>1. s' \in Snapshot
    <3>1. PICK fa \in Reply(rig.FA, 0), fb \in Reply(rig.FB, 0), tx \in Reply(rig.TX, FALSE) :
            s' = [s EXCEPT !.FA = fa, !.FB = fb, !.TX = tx]
      BY <1>3 DEF PollFast
    <3>2. rig \in Rig /\ s \in Snapshot
      BY DEF TypeOK
    <3>3. fa \in Freqs \cup {0} /\ fb \in Freqs \cup {0} /\ tx \in BOOLEAN
      BY <3>1, <3>2 DEF Reply, Rig
    <3> QED BY <3>1, <3>2, <3>3 DEF Snapshot
  <2> QED
    BY <1>3, <2>1 DEF TypeOK, PollFast, Steps, queueVars, dogVars, rigVars
<1>4. (cycle + 1) % FullEvery \in 0 .. FullEvery - 1
  BY Constants DEF TypeOK
<1>5. CASE PollFull
  <2>1. s' \in Snapshot
    BY <1>5 DEF TypeOK, PollFull, Reply, Rig, Snapshot
  <2>2. full_dirty' \in BOOLEAN
    BY <1>5 DEF PollFull
  <2> QED
    BY <1>4, <1>5, <2>1, <2>2 DEF TypeOK, PollFull, Steps, dogVars, rigVars
<1>6. CASE CarryForward
  <2>1. s' \in Snapshot
    BY <1>6 DEF TypeOK, CarryForward, Snapshot
  <2> QED
    BY <1>4, <1>6, <2>1 DEF TypeOK, CarryForward, Steps, queueVars, dogVars, rigVars
<1> QED
  BY <1>1, <1>2, <1>3, <1>5, <1>6

\* The watchdog, the publication and the sleep.
LEMMA WatchdogType ==
  ASSUME TypeOK, CheckWatchdog \/ WatchdogTrip \/ Publish \/ Wake
  PROVE  TypeOK'
<1> 0 \in 0 .. MaxGap
  BY Constants
<1>1. CASE CheckWatchdog
  <2>1. was_tx' \in BOOLEAN /\ held' \in Nat
    BY <1>1 DEF TypeOK, CheckWatchdog, HeldNow, Snapshot
  <2> QED
    BY <1>1, <2>1 DEF TypeOK, CheckWatchdog, Steps, queueVars, rigVars
<1>2. CASE WatchdogTrip
  <2>1. rig' \in Rig /\ carrier' \in Nat
    BY <1>2, SentType, RigBecomesType DEF TypeOK, WatchdogTrip, Write
  <2> QED
    BY <1>2, <2>1 DEF TypeOK, WatchdogTrip, Steps, queueVars
<1>3. CASE Publish
  BY <1>3 DEF TypeOK, Publish, Steps, queueVars, dogVars, rigVars
<1>4. CASE Wake
  BY <1>4 DEF TypeOK, Wake, Steps, queueVars, dogVars, rigVars
<1> QED
  BY <1>1, <1>2, <1>3, <1>4

\* Type correctness of the poller, its queue and its snapshot: whatever is
\* lost on the line, no field ever holds a value of the wrong kind.
THEOREM TypeCorrect == Spec => []TypeOK
<1>1. TypeOK /\ [Next]_vars => TypeOK'
  <2> SUFFICES ASSUME TypeOK, [Next]_vars PROVE TypeOK'
    OBVIOUS
  <2>1. CASE (\E r \in Requests : Enqueue(r)) \/ MarkDirty \/ Stop \/ HandMicPtt \/ Tick
    BY <2>1, OthersType
  <2>2. CASE Poller
    BY <2>2, DrainType, PollType, WatchdogType DEF Poller
  <2>3. CASE UNCHANGED vars
    BY <2>3 DEF TypeOK, vars, queueVars, pollVars, dogVars, rigVars
  <2> QED
    BY <2>1, <2>2, <2>3 DEF Next
<1> QED
  BY InitType, <1>1, PTL DEF Spec

----------------------------------------------------------------------------
(***************************************************************************)
(* The watchdog.  On a line that loses nothing, and when a drain ends in   *)
(* time, WatchdogInv is inductive and gives the bound on every carrier.    *)
(***************************************************************************)

Reliable == ~LossyReads /\ ~MissedPolls /\ ~LossyWrites /\ BoundedDrain

\* What the arithmetic of the invariant needs to know of the types.
LEMMA Clocks ==
  ASSUME TypeOK
  PROVE  /\ gap \in Nat /\ gap <= MaxGap
         /\ held \in Nat /\ carrier \in Nat
         /\ Limit \in Nat /\ MaxGap \in Nat \ {0}
BY Constants DEF TypeOK

\* A radio that becomes r keeps the age of its carrier or starts at zero.
LEMMA CarrierKept ==
  ASSUME WatchdogInv, TypeOK, NEW r, RigBecomes(r), r.TX \in BOOLEAN
  PROVE  /\ ~rig'.TX => carrier' = 0
         /\ carrier' <= carrier
BY Clocks DEF RigBecomes, WatchdogInv

\* Callers, Stop, the hand microphone and the drain do not move the clocks of
\* the watchdog; the radio may be keyed or unkeyed, its carrier is no older.
LEMMA QuietInv ==
  ASSUME TypeOK, WatchdogInv, pc' = pc \/ pc' \notin {"slow", "watchdog"},
         ~rig'.TX => carrier' = 0, carrier' \in Nat, carrier' <= carrier,
         UNCHANGED <<was_tx, held, gap, s>>
  PROVE  WatchdogInv'
<1>1. was_tx' => carrier' <= held' + 2 * MaxGap
  BY Clocks DEF WatchdogInv
<1>2. ~was_tx' => carrier' <= gap' + MaxGap
  BY Clocks DEF WatchdogInv
<1>3. pc' \in {"slow", "watchdog"} /\ ~s'.TX => carrier' <= gap'
  BY Clocks DEF WatchdogInv
<1> QED
  BY <1>1, <1>2, <1>3 DEF WatchdogInv

\* The invariant over every step that leaves the watchdog's clocks alone.
LEMMA OthersInv ==
  ASSUME TypeOK, WatchdogInv, Reliable,
         \/ \E r \in Requests : Enqueue(r)
         \/ MarkDirty \/ Stop \/ HandMicPtt
         \/ PopTask \/ RunTask \/ DrainDone \/ PollId \/ Publish \/ Wake
  PROVE  WatchdogInv'
<1>1. CASE UNCHANGED <<rig, carrier, was_tx, held, gap, pc, s>>
  BY <1>1 DEF WatchdogInv
<1>2. ASSUME NEW r \in Rig, RigBecomes(r), UNCHANGED <<pc, was_tx, held, gap, s>>
      PROVE  WatchdogInv'
  <2>1. r.TX \in BOOLEAN
    BY DEF Rig
  <2>2. carrier' \in Nat
    BY <1>2, RigBecomesType DEF TypeOK
  <2>3. (~rig'.TX => carrier' = 0) /\ carrier' <= carrier
    BY <1>2, <2>1, CarrierKept
  <2> QED
    BY <1>2, <2>2, <2>3, QuietInv
<1>3. CASE HandMicPtt
  <2>1. <<"TX", ~rig.TX>> \in Write /\ rig \in Rig
    BY DEF TypeOK, Write
  <2>2. Written(<<"TX", ~rig.TX>>, rig) \in Rig
    BY <2>1, WrittenType
  <2> QED
    BY <1>2, <1>3, <2>2 DEF HandMicPtt, pollVars, dogVars
<1>4. CASE RunTask
  <2>1. Head(task) \in Write
    BY <1>4 DEF TypeOK, RunTask
  <2>2. PICK r \in Sent(Head(task)) : RigBecomes(r)
    BY <1>4 DEF RunTask
  <2>3. r \in Rig
    BY <2>1, <2>2, SentType DEF TypeOK
  <2> QED
    BY <1>2, <1>4, <2>2, <2>3 DEF RunTask, dogVars
<1>5. CASE DrainDone \/ Publish \/ Wake
  BY <1>5, QuietInv, Clocks DEF DrainDone, Publish, Wake, dogVars, rigVars, WatchdogInv
<1>6. CASE PollId
  BY <1>6 DEF PollId, dogVars, rigVars, WatchdogInv
<1> QED
  BY <1>1, <1>3, <1>4, <1>5, <1>6
     DEF Enqueue, MarkDirty, Stop, PopTask, pollVars, dogVars, rigVars

\* Time ages the carrier, the over and the gap alike.
LEMMA TickInv ==
  ASSUME TypeOK, WatchdogInv, Reliable, Tick
  PROVE  WatchdogInv'
<1>1. gap < MaxGap /\ gap' = gap + 1
  BY DEF Tick, Reliable
<1>2. /\ ~rig'.TX => carrier' = 0
      /\ carrier' <= carrier + 1 /\ carrier' \in Nat
  BY Clocks DEF Tick
<1>3. held' = (IF was_tx THEN held + 1 ELSE held) /\ UNCHANGED <<was_tx, pc, s>>
  BY DEF Tick, pollVars
<1> QED
  BY <1>1, <1>2, <1>3, Clocks DEF WatchdogInv

\* A read that says the radio is receiving says so of a carrier of age zero.
LEMMA PollInv ==
  ASSUME TypeOK, WatchdogInv, Reliable, PollFast \/ PollFull \/ CarryForward
  PROVE  WatchdogInv'
<1>1. UNCHANGED <<rig, carrier, was_tx, held, gap>>
  BY DEF PollFast, PollFull, CarryForward, dogVars, rigVars
<1>2. CASE PollFast
  <2>1. s'.TX = rig.TX
    BY <1>2 DEF PollFast, Reliable, Reply, TypeOK, Snapshot
  <2> QED
    BY <1>1, <2>1, Clocks DEF WatchdogInv
<1>3. CASE PollFull \/ CarryForward
  <2>1. pc = "slow"
    BY <1>3 DEF PollFull, CarryForward
  <2>2. s'.TX = s.TX
    BY <1>3 DEF PollFull, CarryForward, TypeOK, Snapshot
  <2> QED
    BY <1>1, <2>1, <2>2 DEF WatchdogInv
<1> QED
  BY <1>2, <1>3

\* The check: a known over stays within two periods of its clock, a new one
\* starts that clock, and an expired one is ended.
LEMMA CheckInv ==
  ASSUME TypeOK, WatchdogInv, Reliable, CheckWatchdog \/ WatchdogTrip
  PROVE  WatchdogInv'
<1>1. CASE CheckWatchdog
  <2>1. CASE s.TX /\ was_tx
    BY <1>1, <2>1, Clocks DEF CheckWatchdog, HeldNow, Expired, WatchdogInv, rigVars
  <2>2. CASE s.TX /\ ~was_tx
    BY <1>1, <2>2, Clocks DEF CheckWatchdog, HeldNow, Expired, WatchdogInv, rigVars
  <2>3. CASE ~s.TX
    BY <1>1, <2>3, Clocks DEF CheckWatchdog, HeldNow, Expired, WatchdogInv, rigVars
  <2> QED
    BY <2>1, <2>2, <2>3
<1>2. CASE WatchdogTrip
  <2>1. rig' = Written(<<"TX", FALSE>>, rig)
    BY <1>2 DEF WatchdogTrip, Reliable, Sent, RigBecomes
  <2>2. ~rig'.TX
    BY <2>1 DEF Written, TypeOK, Rig
  <2>3. carrier' = 0
    BY <1>2, <2>1, <2>2 DEF WatchdogTrip, RigBecomes, Reliable, Sent
  <2> QED
    BY <1>2, <2>2, <2>3, Clocks DEF WatchdogTrip, WatchdogInv
<1> QED
  BY <1>1, <1>2

\* The invariant of the watchdog holds in every reachable state.
THEOREM WatchdogInvariant ==
  ASSUME Reliable
  PROVE  Spec => []WatchdogInv
<1>1. Init => WatchdogInv
  BY Constants DEF Init, WatchdogInv
<1>2. TypeOK /\ WatchdogInv /\ [Next]_vars => WatchdogInv'
  <2> SUFFICES ASSUME TypeOK, WatchdogInv, [Next]_vars PROVE WatchdogInv'
    OBVIOUS
  <2>1. CASE Poller
    BY <2>1, OthersInv, PollInv, CheckInv DEF Poller, Reliable, PollIdLost
  <2>2. CASE (\E r \in Requests : Enqueue(r)) \/ MarkDirty \/ Stop \/ HandMicPtt
    BY <2>2, OthersInv
  <2>3. CASE Tick
    BY <2>3, TickInv
  <2>4. CASE UNCHANGED vars
    BY <2>4 DEF WatchdogInv, vars, pollVars, dogVars, rigVars
  <2> QED
    BY <2>1, <2>2, <2>3, <2>4 DEF Next
<1> QED
  BY <1>1, <1>2, TypeCorrect, PTL DEF Spec

\* The watchdog's promise: on a line that loses nothing and with drains that
\* end in time, no carrier outlives the limit by more than three periods.
THEOREM WatchdogBound ==
  ASSUME Reliable
  PROVE  Spec => []CarrierBounded
<1>1. TypeOK /\ WatchdogInv => CarrierBounded
  BY Clocks DEF WatchdogInv, CarrierBounded
<1> QED
  BY <1>1, TypeCorrect, WatchdogInvariant, PTL

----------------------------------------------------------------------------
(***************************************************************************)
(* The slow set.  The lag is bounded by where the cycle counter is: from   *)
(* the scheduled read on it can only grow by one with each cycle.          *)
(***************************************************************************)

\* The cycles since the last scheduled read, when the next is number n.
Since(n) == IF n = 0 THEN FullEvery - 1 ELSE n - 1

ScheduleInv ==
  /\ lag < FullEvery
  /\ pc \notin {"watchdog", "publish"} => lag <= Since(cycle)
  /\ pc \in {"watchdog", "publish"} => s.NB = rig.NB \/ lag + 1 <= Since(cycle)

\* What the arithmetic of the invariant needs to know of the types.
LEMMA Counters ==
  ASSUME TypeOK
  PROVE  lag \in Nat /\ cycle \in Nat /\ cycle < FullEvery /\ FullEvery \in Nat \ {0}
BY Constants DEF TypeOK

\* The counter counts up and starts again.
LEMMA NextCycle ==
  ASSUME NEW n \in Nat, n < FullEvery
  PROVE  (n + 1) % FullEvery = IF n + 1 = FullEvery THEN 0 ELSE n + 1
<1> FullEvery \in Nat \ {0}
  BY Constants
<1>1. CASE n + 1 = FullEvery
  BY <1>1
<1>2. CASE n + 1 # FullEvery
  BY <1>2
<1> QED
  BY <1>1, <1>2

\* The PTT is no slow field.
LEMMA PttKeepsSlow ==
  ASSUME TypeOK, NEW on \in BOOLEAN, NEW r \in Sent(<<"TX", on>>), RigBecomes(r)
  PROVE  rig'.NB = rig.NB
BY DEF TypeOK, Rig, Sent, Written, RigBecomes

\* A step inside a cycle that changes neither counter nor lag nor a slow field.
LEMMA SameLag ==
  ASSUME ScheduleInv, UNCHANGED <<lag, cycle>>,
         \/ pc \notin {"watchdog", "publish"} /\ pc' \notin {"watchdog", "publish"}
         \/ /\ pc \in {"watchdog", "publish"} /\ pc' \in {"watchdog", "publish"}
            /\ s' = s /\ rig'.NB = rig.NB
  PROVE  ScheduleInv'
BY DEF ScheduleInv, Since

\* What other threads, the operator at the radio and time do.
LEMMA OthersSchedule ==
  ASSUME TypeOK, ScheduleInv,
         \/ \E r \in Requests : Enqueue(r)
         \/ MarkDirty \/ Stop \/ HandMicPtt \/ Tick
  PROVE  ScheduleInv'
<1>1. UNCHANGED <<lag, cycle, pc, s>>
  BY DEF Enqueue, MarkDirty, Stop, HandMicPtt, Tick, pollVars
<1>2. rig'.NB = rig.NB
  <2>1. CASE HandMicPtt
    BY <2>1 DEF HandMicPtt, RigBecomes, Written, TypeOK, Rig
  <2>2. CASE ~HandMicPtt
    BY <2>2 DEF Enqueue, MarkDirty, Stop, Tick, rigVars
  <2> QED
    BY <2>1, <2>2
<1> QED
  BY <1>1, <1>2, SameLag

\* The poll thread: a scheduled or a dirty cycle reads the field, any other
\* carries it and is one cycle further from the schedule.
LEMMA PollerSchedule ==
  ASSUME TypeOK, ScheduleInv, ~LossyReads, Poller
  PROVE  ScheduleInv'
<1> USE Counters
<1>1. CASE PopTask \/ RunTask \/ DrainDone \/ PollId \/ PollFast
  BY <1>1, SameLag DEF PopTask, RunTask, DrainDone, PollId, PollFast
<1>2. CASE PollIdLost
  BY <1>2 DEF PollIdLost, ScheduleInv, Since
<1>3. CASE PollFull
  <2>1. s'.NB = rig.NB /\ rig' = rig
    BY <1>3 DEF PollFull, Reply, TypeOK, Snapshot, rigVars
  <2>2. pc' = "watchdog" /\ lag' = lag
    BY <1>3 DEF PollFull
  <2> QED
    BY <2>1, <2>2 DEF ScheduleInv
<1>4. CASE CarryForward
  <2>1. cycle # 0 /\ pc = "slow"
    BY <1>4 DEF CarryForward, Scheduled
  <2>2. pc' = "watchdog" /\ lag' = lag /\ cycle' = (cycle + 1) % FullEvery
    BY <1>4 DEF CarryForward
  <2>3. lag <= cycle - 1 /\ lag < FullEvery
    BY <2>1 DEF ScheduleInv, Since
  <2>4. cycle' = IF cycle + 1 = FullEvery THEN 0 ELSE cycle + 1
    BY <2>2, NextCycle
  <2>5. Since(cycle') = cycle
    BY <2>4 DEF Since
  <2>6. lag' + 1 <= Since(cycle')
    BY <2>2, <2>3, <2>5
  <2> QED
    BY <2>2, <2>3, <2>6 DEF ScheduleInv, Since
<1>5. CASE CheckWatchdog
  BY <1>5, SameLag DEF CheckWatchdog, rigVars
<1>6. CASE WatchdogTrip
  <2>1. rig'.NB = rig.NB
    BY <1>6, PttKeepsSlow DEF WatchdogTrip
  <2> QED
    BY <1>6, <2>1, SameLag DEF WatchdogTrip
<1>7. CASE Publish
  BY <1>7 DEF Publish, ScheduleInv, Since
<1>8. CASE Wake
  BY <1>8, SameLag DEF Wake
<1> QED
  BY <1>1, <1>2, <1>3, <1>4, <1>5, <1>6, <1>7, <1>8 DEF Poller

\* RereadOnSchedule: whatever happens to the dirty flag, a slow field the rig
\* has changed is shown within FullEvery cycles, if the line loses no reply.
THEOREM SlowSetReread ==
  ASSUME ~LossyReads
  PROVE  Spec => []RereadOnSchedule
<1>1. Init => ScheduleInv
  BY Constants DEF Init, ScheduleInv, Since
<1>2. TypeOK /\ ScheduleInv /\ [Next]_vars => ScheduleInv'
  <2> SUFFICES ASSUME TypeOK, ScheduleInv, [Next]_vars PROVE ScheduleInv'
    OBVIOUS
  <2>1. CASE UNCHANGED vars
    BY <2>1 DEF vars, queueVars, pollVars, rigVars, ScheduleInv, Since
  <2> QED
    BY <2>1, OthersSchedule, PollerSchedule DEF Next
<1>3. ScheduleInv => RereadOnSchedule
  BY DEF ScheduleInv, RereadOnSchedule
<1> QED
  BY <1>1, <1>2, <1>3, TypeCorrect, PTL DEF Spec

----------------------------------------------------------------------------
(***************************************************************************)
(* Compound tasks.  Between the two writes of one the poll thread is in    *)
(* its drain, and it reads nothing there.                                  *)
(***************************************************************************)

\* Requests that move both VFOs move them to one frequency (vfo-copy), and no
\* command is lost on the line.
Together ==
  /\ ~LossyWrites
  /\ \A r \in Requests :
       \/ \E f \in Freqs : r = <<<<"FA", f>>, <<"FB", f>>>>
       \/ \E w \in {"TX", "NB"} \X BOOLEAN : r = <<w>>

Whole(shot) == shot.FA # 0 /\ shot.FB # 0 => shot.FA = shot.FB

WholeInv ==
  /\ \/ rig.FA = rig.FB /\ (task = <<>> \/ task \in Requests)
     \/ \E f \in Freqs : task = <<<<"FB", f>>>> /\ rig.FA = f
  /\ pc # "drain" => task = <<>>
  /\ Whole(s) /\ Whole(snap)

\* A PTT or slow-field command leaves both VFOs alone.
LEMMA SwitchKeepsDial ==
  ASSUME TypeOK, NEW w \in {"TX", "NB"} \X BOOLEAN, RigBecomes(Written(w, rig))
  PROVE  rig'.FA = rig.FA /\ rig'.FB = rig.FB
BY DEF TypeOK, Rig, Written, RigBecomes

\* One write of the task in hand.
LEMMA WriteKeepsWhole ==
  ASSUME TypeOK, WholeInv, Together, RunTask
  PROVE  WholeInv'
<1>1. pc = "drain" /\ task # <<>> /\ task' = Tail(task) /\ UNCHANGED <<pc, s, snap>>
  BY DEF RunTask
<1>2. RigBecomes(Written(Head(task), rig))
  BY DEF RunTask, Sent, Together
<1>3. Whole(s)' /\ Whole(snap)' /\ (pc' # "drain" => task' = <<>>)
  BY <1>1 DEF WholeInv, Whole
<1>4. ASSUME NEW f \in Freqs, task = <<<<"FB", f>>>>, rig.FA = f PROVE WholeInv'
  <2>1. task' = <<>> /\ rig' = Written(<<"FB", f>>, rig)
    BY <1>1, <1>2, <1>4 DEF RigBecomes
  <2>2. rig'.FA = rig'.FB
    BY <1>4, <2>1 DEF TypeOK, Rig, Written
  <2> QED
    BY <1>3, <2>1, <2>2 DEF WholeInv
<1>5. ASSUME rig.FA = rig.FB, NEW f \in Freqs, task = <<<<"FA", f>>, <<"FB", f>>>>
      PROVE  WholeInv'
  <2>1. task' = <<<<"FB", f>>>> /\ rig' = Written(<<"FA", f>>, rig)
    BY <1>1, <1>2, <1>5 DEF RigBecomes
  <2>2. rig'.FA = f
    BY <2>1 DEF TypeOK, Rig, Written
  <2> QED
    BY <1>3, <2>1, <2>2 DEF WholeInv
<1>6. ASSUME rig.FA = rig.FB, NEW w \in {"TX", "NB"} \X BOOLEAN, task = <<w>>
      PROVE  WholeInv'
  <2>1. task' = <<>> /\ rig'.FA = rig'.FB
    BY <1>1, <1>2, <1>6, SwitchKeepsDial
  <2> QED
    BY <1>3, <2>1 DEF WholeInv
<1> QED
  BY <1>1, <1>4, <1>5, <1>6 DEF WholeInv, Together

\* Everything else that moves leaves the dial to the drain.
LEMMA OthersKeepWhole ==
  ASSUME TypeOK, WholeInv, Together,
         \/ \E r \in Requests : Enqueue(r)
         \/ MarkDirty \/ Stop \/ HandMicPtt \/ Tick
  PROVE  WholeInv'
<1>1. UNCHANGED <<task, pc, s, snap>>
  BY DEF Enqueue, MarkDirty, Stop, HandMicPtt, Tick, pollVars
<1>2. rig'.FA = rig.FA /\ rig'.FB = rig.FB
  <2>1. CASE HandMicPtt
    <3>1. <<"TX", ~rig.TX>> \in {"TX", "NB"} \X BOOLEAN
      OBVIOUS
    <3> QED
      BY <2>1, <3>1, SwitchKeepsDial DEF HandMicPtt
  <2>2. CASE ~HandMicPtt
    BY <2>2 DEF Enqueue, MarkDirty, Stop, Tick, rigVars
  <2> QED
    BY <2>1, <2>2
<1> QED
  BY <1>1, <1>2 DEF WholeInv, Whole

\* The poll thread reads both VFOs where no task is in hand.
LEMMA PollerKeepsWhole ==
  ASSUME TypeOK, WholeInv, Together, Poller
  PROVE  WholeInv'
<1>1. CASE PopTask
  <2>1. task' \in Requests
    BY <1>1 DEF PopTask, TypeOK
  <2> QED
    BY <1>1, <2>1 DEF PopTask, WholeInv, Whole, rigVars
<1>2. CASE RunTask
  BY <1>2, WriteKeepsWhole
<1>3. CASE DrainDone \/ Wake \/ CheckWatchdog \/ Publish
  BY <1>3 DEF DrainDone, Wake, CheckWatchdog, Publish, WholeInv, Whole, rigVars
<1>4. CASE PollId \/ PollIdLost
  BY <1>4 DEF PollId, PollIdLost, Blank, WholeInv, Whole, rigVars
<1>5. CASE PollFast
  <2>1. rig.FA = rig.FB /\ task = <<>>
    BY <1>5 DEF PollFast, WholeInv
  <2>2. s'.FA \in {rig.FA, 0} /\ s'.FB \in {rig.FB, 0}
    BY <1>5 DEF PollFast, Reply, TypeOK, Snapshot
  <2>3. Whole(s)'
    BY <2>1, <2>2 DEF Whole
  <2> QED
    BY <1>5, <2>1, <2>3 DEF PollFast, WholeInv, Whole, rigVars
<1>6. CASE PollFull \/ CarryForward
  <2>1. s'.FA = s.FA /\ s'.FB = s.FB
    BY <1>6 DEF PollFull, CarryForward, TypeOK, Snapshot
  <2>2. UNCHANGED <<task, snap, rig>> /\ task = <<>>
    BY <1>6 DEF PollFull, CarryForward, rigVars, WholeInv
  <2> QED
    BY <2>1, <2>2 DEF WholeInv, Whole
<1>7. CASE WatchdogTrip
  <2>1. RigBecomes(Written(<<"TX", FALSE>>, rig)) /\ UNCHANGED <<task, s, snap>>
    BY <1>7 DEF WatchdogTrip, Sent, Together
  <2>2. rig'.FA = rig.FA /\ rig'.FB = rig.FB
    BY <2>1, SwitchKeepsDial
  <2>3. task = <<>>
    BY <1>7 DEF WatchdogTrip, WholeInv
  <2> QED
    BY <2>1, <2>2, <2>3 DEF WholeInv, Whole
<1> QED
  BY <1>1, <1>2, <1>3, <1>4, <1>5, <1>6, <1>7 DEF Poller

\* NoHalfApplied: no snapshot shows a compound task half done, whatever replies
\* the line loses and however many threads queue.
THEOREM CompoundTasksWhole ==
  ASSUME Together
  PROVE  Spec => []NoHalfApplied
<1>1. Init => WholeInv
  BY DEF Init, Blank, Rig, WholeInv, Whole
<1>2. TypeOK /\ WholeInv /\ [Next]_vars => WholeInv'
  <2> SUFFICES ASSUME TypeOK, WholeInv, [Next]_vars PROVE WholeInv'
    OBVIOUS
  <2>1. CASE UNCHANGED vars
    BY <2>1 DEF vars, pollVars, rigVars, WholeInv, Whole
  <2> QED
    BY <2>1, OthersKeepWhole, PollerKeepsWhole DEF Next
<1>3. WholeInv => NoHalfApplied
  BY DEF WholeInv, Whole, NoHalfApplied
<1> QED
  BY <1>1, <1>2, <1>3, TypeCorrect, PTL DEF Spec

----------------------------------------------------------------------------
(* The shutdown. *)

\* Once main is past the join the poll thread has ended, and a report that the
\* rig confirmed is made at the exit only, with the rig receiving.
ShutdownInv ==
  /\ main \in {"unkey", "confirm", "resend", "exited"} => pc = "stopped"
  /\ confirmed => main = "exited" /\ ~rig.TX

\* A poll thread that has ended takes no step.
LEMMA StoppedIsStill ==
  ASSUME pc = "stopped" PROVE ~Poller
BY DEF Poller, PopTask, RunTask, DrainDone, PollId, PollIdLost, PollFast,
       PollFull, CarryForward, CheckWatchdog, WatchdogTrip, Publish, Wake

\* The main thread's own steps keep the invariant: only Joined leaves the
\* join, and only a rig that reads as receiving is reported as confirmed.
LEMMA MainKeeps ==
  ASSUME ShutdownInv, Main PROVE ShutdownInv'
<1>1. CASE Signal \/ ListenersStopped \/ ReadWasKeyed
  BY <1>1 DEF ShutdownInv, Signal, ListenersStopped, ReadWasKeyed, Goto, vars,
              pollVars, rigVars
<1>2. CASE StopPoller
  BY <1>2 DEF ShutdownInv, StopPoller, Goto, Stop, pollVars, rigVars
<1>3. CASE Joined
  BY <1>3 DEF ShutdownInv, Joined, vars, pollVars, rigVars
<1>4. CASE SendUnkey
  <2>1. main \in {"unkey", "resend"} /\ main' = "confirm"
    BY <1>4 DEF SendUnkey, Goto
  <2>2. UNCHANGED <<pc, confirmed>>
    BY <1>4 DEF SendUnkey, restVars, pollVars
  <2> QED
    BY <2>1, <2>2 DEF ShutdownInv
<1>5. CASE AskUnkeyed
  BY <1>5 DEF ShutdownInv, AskUnkeyed, vars, pollVars, rigVars
<1>6. CASE GiveUp
  BY <1>6 DEF ShutdownInv, GiveUp, Goto, vars, pollVars, rigVars
<1> QED
  BY <1>1, <1>2, <1>3, <1>4, <1>5, <1>6 DEF Main

\* A queued request reaches neither the poll thread's place nor the radio.
LEMMA CallersKeep ==
  ASSUME ShutdownInv, HostCallers PROVE ShutdownInv'
<1>1. UNCHANGED <<pc, rig>>
  BY DEF HostCallers, Enqueue, MarkDirty, pollVars, rigVars
<1> QED
  BY <1>1 DEF ShutdownInv, HostCallers, mainVars

\* The poll thread moves only while main is before the join.
LEMMA PollerKeeps ==
  ASSUME ShutdownInv, Poller, UNCHANGED mainVars PROVE ShutdownInv'
<1>1. pc # "stopped"
  BY StoppedIsStill
<1> QED
  BY <1>1 DEF ShutdownInv, mainVars

\* The invariant of the shutdown holds in every reachable state.
THEOREM ShutdownInvariant == HostSpec => []ShutdownInv
<1>1. HostInit => ShutdownInv
  BY DEF HostInit, ShutdownInv
<1>2. ShutdownInv /\ [HostNext]_hostVars => ShutdownInv'
  <2> SUFFICES ASSUME ShutdownInv, [HostNext]_hostVars PROVE ShutdownInv'
    OBVIOUS
  <2>1. CASE UNCHANGED hostVars
    BY <2>1 DEF ShutdownInv, hostVars, mainVars, vars, pollVars, rigVars
  <2> QED
    BY <2>1, MainKeeps, CallersKeep, PollerKeeps DEF HostNext
<1> QED
  BY <1>1, <1>2, PTL DEF HostSpec

\* Exactly one thread talks to the rig: UnkeyAndConfirm runs on the main
\* thread after the poll thread has ended, whatever was queued meanwhile.
THEOREM OneThread == HostSpec => []OneThreadOnPort
<1>1. ShutdownInv => OneThreadOnPort
  BY DEF ShutdownInv, OneThreadOnPort
<1> QED
  BY <1>1, ShutdownInvariant, PTL

\* A shutdown that reports a confirmed unkey leaves the rig unkeyed, on any
\* line and with tuners and CAT clients still queueing requests.
THEOREM ConfirmedUnkey == HostSpec => []ConfirmedIsOff
<1>1. ShutdownInv => ConfirmedIsOff
  BY DEF ShutdownInv, ConfirmedIsOff
<1> QED
  BY <1>1, ShutdownInvariant, PTL

----------------------------------------------------------------------------
(* The types, on the poller's lemmas. *)

\* The main thread's own steps: Stop and the unkey are all they do to the poller.
LEMMA MainType ==
  ASSUME HostTypeOK, Main PROVE HostTypeOK'
<1>1. main' \in MainSteps
  BY DEF Main, Signal, ListenersStopped, ReadWasKeyed, StopPoller, Joined, SendUnkey,
         AskUnkeyed, GiveUp, Goto, MainSteps
<1>2. was_keyed' \in BOOLEAN /\ confirmed' \in BOOLEAN
  BY DEF Main, Signal, ListenersStopped, ReadWasKeyed, StopPoller, Joined, SendUnkey,
         AskUnkeyed, GiveUp, HostTypeOK, TypeOK, Snapshot
<1>3. TypeOK'
  <2>1. CASE StopPoller
    BY <2>1, OthersType DEF StopPoller, HostTypeOK
  <2>2. CASE SendUnkey
    <3>1. PICK r \in Sent(<<"TX", FALSE>>) : RigBecomes(r)
      BY <2>2 DEF SendUnkey
    <3>2. <<"TX", FALSE>> \in Write /\ rig \in Rig /\ carrier \in Nat
      BY DEF Write, HostTypeOK, TypeOK
    <3>3. rig' \in Rig /\ carrier' \in Nat
      BY <3>1, <3>2, SentType, RigBecomesType
    <3> QED
      BY <2>2, <3>3
         DEF SendUnkey, HostTypeOK, TypeOK, restVars, queueVars, pollVars, dogVars
  <2>3. CASE UNCHANGED vars
    BY <2>3 DEF HostTypeOK, TypeOK, vars, queueVars, pollVars, dogVars, rigVars
  <2> QED
    BY <2>1, <2>2, <2>3
       DEF Main, Signal, ListenersStopped, ReadWasKeyed, Joined, AskUnkeyed, GiveUp
<1> QED
  BY <1>1, <1>2, <1>3 DEF HostTypeOK

\* HostTypeOK: the types of the poller hold through the shutdown as well.
THEOREM HostTypeCorrect == HostSpec => []HostTypeOK
<1>1. HostInit => HostTypeOK
  BY InitType DEF HostInit, HostTypeOK, MainSteps
<1>2. HostTypeOK /\ [HostNext]_hostVars => HostTypeOK'
  <2> SUFFICES ASSUME HostTypeOK, [HostNext]_hostVars PROVE HostTypeOK'
    OBVIOUS
  <2>1. CASE UNCHANGED hostVars
    BY <2>1 DEF HostTypeOK, hostVars, mainVars, TypeOK, vars, queueVars, pollVars,
                dogVars, rigVars
  <2>2. CASE HostCallers
    <3>1. TypeOK'
      BY <2>2, OthersType, LateRequestsAssumption DEF HostCallers, HostTypeOK
    <3> QED
      BY <2>2, <3>1 DEF HostCallers, HostTypeOK, mainVars
  <2>3. CASE Poller /\ UNCHANGED mainVars
    <3>1. TypeOK'
      BY <2>3, DrainType, PollType, WatchdogType DEF Poller, HostTypeOK
    <3> QED
      BY <2>3, <3>1 DEF HostTypeOK, mainVars
  <2> QED
    BY <2>1, <2>2, <2>3, MainType DEF HostNext
<1> QED
  BY <1>1, <1>2, PTL DEF HostSpec

----------------------------------------------------------------------------
(***************************************************************************)
(* The queue.  What a task writes, and what the serial rig makes of it.    *)
(***************************************************************************)

\* A set of numbers up to some n has a largest one.
LEMMA Largest ==
  ASSUME NEW n \in Nat, NEW T \in SUBSET (1 .. n), T # {}
  PROVE  \E x \in T : \A y \in T : y <= x
<1> DEFINE R == {ss \in Nat \X Nat : ss[1] < ss[2]}
           U == {n - x : x \in T}
<1>1. R = OpToRel(<, Nat)
  BY DEF OpToRel
<1>2. IsWellFoundedOn(R, Nat)
  BY <1>1, NatLessThanWellFounded
<1>3. U \in SUBSET Nat /\ U # {}
  <2>1. ASSUME NEW x \in T PROVE n - x \in Nat
    OBVIOUS
  <2> QED BY <2>1
<1> HIDE DEF R
<1>4. PICK u \in U : \A v \in U : <<v, u>> \notin R
  BY <1>2, <1>3, WFMin
<1>5. PICK x \in T : u = n - x
  BY <1>4
<1>6. ASSUME NEW y \in T PROVE y <= x
  <2>1. n - y \in U /\ n - y \in Nat /\ n - x \in Nat
    BY <1>3
  <2>2. <<n - y, n - x>> \notin R
    BY <1>4, <1>5, <2>1
  <2>3. ~(n - y < n - x)
    BY <2>1, <2>2 DEF R
  <2> QED BY <2>3
<1> QED BY <1>6

\* What the i-th write says of its field is what is left of it, if no later one
\* names that field.
LEMMA LastSays ==
  ASSUME NEW ws \in Seq(Write), NEW r, NEW f \in DOMAIN r, NEW i \in 1 .. Len(ws),
         ws[i][1] = f, \A j \in i + 1 .. Len(ws) : ws[j][1] # f
  PROVE  Line!Apply(ws, r)[f] = ws[i][2]
<1> DEFINE on == {k \in DOMAIN ws : ws[k][1] = f}
           top == CHOOSE k \in on : \A j \in on : j <= k
<1>1. DOMAIN ws = 1 .. Len(ws) /\ Len(ws) \in Nat
  OBVIOUS
<1>2. i \in on /\ on \subseteq 1 .. Len(ws)
  BY <1>1
<1>3. ASSUME NEW j \in on PROVE j <= i
  BY <1>1, <1>3
<1>4. top = i
  <2>1. top \in on /\ \A j \in on : j <= top
    BY <1>2, <1>3
  <2> HIDE DEF top, on
  <2>2. top <= i /\ i <= top
    BY <1>2, <1>3, <2>1
  <2> QED BY <1>2, <2>1, <2>2
<1>5. Line!Apply(ws, r)[f] = IF on = {} THEN r[f] ELSE ws[top][2]
  BY DEF Line!Apply
<1> HIDE DEF top, on
<1> QED BY <1>2, <1>4, <1>5

\* A field no write names is left alone.
LEMMA SilentKeeps ==
  ASSUME NEW ws \in Seq(Write), NEW r, NEW f \in DOMAIN r,
         \A j \in 1 .. Len(ws) : ws[j][1] # f
  PROVE  Line!Apply(ws, r)[f] = r[f]
<1>1. {k \in DOMAIN ws : ws[k][1] = f} = {}
  OBVIOUS
<1> QED BY <1>1 DEF Line!Apply

\* A field that is named is named last somewhere.
LEMMA NamedLast ==
  ASSUME NEW ws \in Seq(Write), NEW f, NEW k \in 1 .. Len(ws), ws[k][1] = f
  PROVE  \E i \in 1 .. Len(ws) : ws[i][1] = f /\ \A j \in i + 1 .. Len(ws) : ws[j][1] # f
<1> DEFINE on == {j \in 1 .. Len(ws) : ws[j][1] = f}
<1>1. PICK i \in on : \A j \in on : j <= i
  <2>1. on \in SUBSET (1 .. Len(ws)) /\ on # {} /\ Len(ws) \in Nat
    OBVIOUS
  <2> HIDE DEF on
  <2> QED BY <2>1, Largest
<1>2. ASSUME NEW j \in i + 1 .. Len(ws) PROVE ws[j][1] # f
  <2>1. j \in 1 .. Len(ws) /\ ~(j <= i)
    BY <1>1, <1>2
  <2> QED BY <1>1, <2>1
<1> QED BY <1>1, <1>2

\* The radio's fields.
LEMMA Fields ==
  ASSUME NEW r \in Rig, NEW w \in Write
  PROVE  /\ DOMAIN r = {"TX", "FA", "FB", "NB"} /\ w[1] \in DOMAIN r
         /\ DOMAIN Written(w, r) = DOMAIN r
         /\ \A f \in DOMAIN r : Written(w, r)[f] = IF f = w[1] THEN w[2] ELSE r[f]
<1>1. w[1] \in {"TX", "FA", "FB", "NB"}
  BY DEF Write
<1> QED BY <1>1 DEF Rig, Written

\* The first write, and then the others.
LEMMA FirstThenRest ==
  ASSUME NEW ws \in Seq(Write), ws # <<>>, NEW r \in Rig
  PROVE  Line!Apply(Tail(ws), Written(Head(ws), r)) = Line!Apply(ws, r)
<1> DEFINE q == Written(Head(ws), r)
           vs == Tail(ws)
<1>1. /\ Head(ws) = ws[1] /\ Head(ws) \in Write /\ vs \in Seq(Write)
      /\ Len(ws) \in Nat \ {0} /\ Len(vs) = Len(ws) - 1
      /\ \A j \in 1 .. Len(vs) : vs[j] = ws[j + 1]
  OBVIOUS
<1>2. /\ DOMAIN q = DOMAIN r
      /\ \A f \in DOMAIN r : q[f] = IF f = ws[1][1] THEN ws[1][2] ELSE r[f]
  BY <1>1, Fields
<1> HIDE DEF q, vs
<1>3. ASSUME NEW f \in DOMAIN r PROVE Line!Apply(vs, q)[f] = Line!Apply(ws, r)[f]
  <2>1. CASE \E k \in 1 .. Len(vs) : vs[k][1] = f
    <3>1. PICK i \in 1 .. Len(vs) : vs[i][1] = f /\ \A j \in i + 1 .. Len(vs) : vs[j][1] # f
      BY <1>1, <2>1, NamedLast
    <3>2. i + 1 \in 1 .. Len(ws) /\ ws[i + 1] = vs[i]
      BY <1>1, <3>1
    <3>3. ASSUME NEW j \in (i + 1) + 1 .. Len(ws) PROVE ws[j][1] # f
      <4>1. j - 1 \in i + 1 .. Len(vs) /\ j - 1 \in 1 .. Len(vs) /\ vs[j - 1] = ws[j]
        BY <1>1, <3>1, <3>3
      <4> QED BY <3>1, <4>1
    <3>4. Line!Apply(vs, q)[f] = vs[i][2]
      BY <1>1, <1>2, <3>1, LastSays
    <3>5. Line!Apply(ws, r)[f] = ws[i + 1][2]
      BY <3>1, <3>2, <3>3, LastSays
    <3> QED BY <3>2, <3>4, <3>5
  <2>2. CASE \A k \in 1 .. Len(vs) : vs[k][1] # f
    <3>1. Line!Apply(vs, q)[f] = q[f]
      BY <1>1, <1>2, <2>2, SilentKeeps
    <3>2. ASSUME NEW j \in 2 .. Len(ws) PROVE ws[j][1] # f
      <4>1. j - 1 \in 1 .. Len(vs) /\ vs[j - 1] = ws[j]
        BY <1>1, <3>2
      <4> QED BY <2>2, <4>1
    <3>3. CASE ws[1][1] = f
      <4>1. 1 \in 1 .. Len(ws) /\ \A j \in 1 + 1 .. Len(ws) : ws[j][1] # f
        BY <1>1, <3>2
      <4>2. Line!Apply(ws, r)[f] = ws[1][2]
        BY <3>3, <4>1, LastSays
      <4> QED BY <1>2, <3>1, <3>3, <4>2
    <3>4. CASE ws[1][1] # f
      <4>1. ASSUME NEW j \in 1 .. Len(ws) PROVE ws[j][1] # f
        <5>1. j = 1 \/ j \in 2 .. Len(ws)
          BY <1>1, <4>1
        <5> QED BY <3>2, <3>4, <5>1
      <4>2. Line!Apply(ws, r)[f] = r[f]
        BY <4>1, SilentKeeps
      <4> QED BY <1>2, <3>1, <3>4, <4>2
    <3> QED BY <3>3, <3>4
  <2> QED BY <2>1, <2>2
<1>4. /\ Line!Apply(vs, q) = [f \in DOMAIN r |-> Line!Apply(vs, q)[f]]
      /\ Line!Apply(ws, r) = [f \in DOMAIN r |-> Line!Apply(ws, r)[f]]
  BY <1>2 DEF Line!Apply
<1>5. Line!Apply(vs, q) = Line!Apply(ws, r)
  BY <1>3, <1>4
<1> QED BY <1>5 DEF q, vs

----------------------------------------------------------------------------
(* Every step is one of the serial rig, or none that it sees.              *)

\* Whoever changes TX behind a task's back changes TX alone, once the task has run.
LEMMA TxBehind ==
  ASSUME NEW ws \in Seq(Write), NEW r \in Rig, NEW q \in Rig,
         q.FA = r.FA, q.FB = r.FB, q.NB = r.NB
  PROVE  \E tx \in BOOLEAN : Line!Apply(ws, q) = [Line!Apply(ws, r) EXCEPT !.TX = tx]
<1>1. DOMAIN r = {"TX", "FA", "FB", "NB"} /\ DOMAIN q = DOMAIN r
  BY DEF Rig
<1>2. ASSUME NEW f \in DOMAIN r
      PROVE  /\ f # "TX" => Line!Apply(ws, q)[f] = Line!Apply(ws, r)[f]
             /\ f = "TX" => Line!Apply(ws, q)[f] \in BOOLEAN
  <2>1. CASE \E k \in 1 .. Len(ws) : ws[k][1] = f
    <3>1. PICK i \in 1 .. Len(ws) : ws[i][1] = f /\ \A j \in i + 1 .. Len(ws) : ws[j][1] # f
      BY <2>1, NamedLast
    <3>2. Line!Apply(ws, q)[f] = ws[i][2] /\ Line!Apply(ws, r)[f] = ws[i][2]
      BY <1>1, <3>1, LastSays
    <3>3. ws[i] \in Write
      BY <3>1
    <3>4. f = "TX" => ws[i][2] \in BOOLEAN
      BY <3>1, <3>3 DEF Write
    <3> QED BY <3>2, <3>4
  <2>2. CASE \A k \in 1 .. Len(ws) : ws[k][1] # f
    <3>1. Line!Apply(ws, q)[f] = q[f] /\ Line!Apply(ws, r)[f] = r[f]
      BY <1>1, <2>2, SilentKeeps
    <3> QED BY <1>1, <3>1 DEF Rig
  <2> QED BY <2>1, <2>2
<1>3. /\ Line!Apply(ws, q) = [f \in DOMAIN r |-> Line!Apply(ws, q)[f]]
      /\ Line!Apply(ws, r) = [f \in DOMAIN r |-> Line!Apply(ws, r)[f]]
  BY <1>1 DEF Line!Apply
<1> DEFINE aq == Line!Apply(ws, q)
           ar == Line!Apply(ws, r)
<1>4. aq = [f \in DOMAIN r |-> aq[f]] /\ ar = [f \in DOMAIN r |-> ar[f]]
  BY <1>3
<1>5. "TX" \in DOMAIN r /\ aq["TX"] \in BOOLEAN
      /\ \A f \in DOMAIN r : f # "TX" => aq[f] = ar[f]
  BY <1>1, <1>2
<1> HIDE DEF aq, ar
<1>6. aq = [ar EXCEPT !.TX = aq["TX"]]
  BY <1>4, <1>5
<1> QED BY <1>5, <1>6 DEF aq, ar

\* Nothing to do leaves the radio as it is.
LEMMA NoWrite == ASSUME NEW r \in Rig PROVE Line!Apply(<<>>, r) = r
<1>1. DOMAIN <<>> = {} /\ r = [f \in DOMAIN r |-> r[f]]
  BY DEF Rig
<1>2. {i \in DOMAIN <<>> : <<>>[i][1] = "TX"} = {}
  BY <1>1
<1> QED BY <1>1 DEF Line!Apply

\* What a lost command may do: with it the rest of its task is no longer whole,
\* so on a line that loses commands only requests to key and to unkey are whole
\* whatever is lost.
TxAlone(ws) == \A i \in DOMAIN ws : ws[i][1] = "TX"
WholeOnLine == LossyWrites => \A r \in Requests : TxAlone(r)

OnLine == TypeOK /\ (LossyWrites => TxAlone(task))

Taken == [Queue!Next]_<<tasks, Line!Apply(task, rig)>>

\* No step of the radio or the queue, or one of TX alone.
LEMMA TxTaken ==
  ASSUME TypeOK, rig' \in Rig, UNCHANGED <<tasks, task>>,
         rig'.FA = rig.FA, rig'.FB = rig.FB, rig'.NB = rig.NB
  PROVE  Taken
<1>1. task \in Seq(Write) /\ rig \in Rig
  BY DEF TypeOK
<1>2. PICK tx \in BOOLEAN : Line!Apply(task, rig') = [Line!Apply(task, rig) EXCEPT !.TX = tx]
  BY <1>1, TxBehind
<1>3. Line!Apply(task', rig') = [Line!Apply(task, rig) EXCEPT !.TX = tx]
  BY <1>2
<1>4. Queue!Ptt
  BY <1>3 DEF Queue!Ptt
<1> QED BY <1>4 DEF Taken, Queue!Next

\* The commands of the task in hand, and the next task.
LEMMA DrainTaken ==
  ASSUME OnLine, WholeOnLine, PopTask \/ RunTask
  PROVE  Taken /\ (LossyWrites => TxAlone(task))'
<1>0. tasks \in Seq(Requests) /\ task \in Seq(Write) /\ rig \in Rig
      /\ \A r \in Requests : r \in Seq(Write)
  BY Constants DEF OnLine, TypeOK
<1>1. CASE PopTask
  <2>1. task = <<>> /\ tasks # <<>> /\ task' = Head(tasks) /\ tasks' = Tail(tasks) /\ rig' = rig
    BY <1>1 DEF PopTask, rigVars
  <2>2. Head(tasks) \in Requests
    BY <1>0, <2>1
  <2>3. Line!Apply(task', rig') = Line!Apply(Head(tasks), Line!Apply(task, rig))
    BY <1>0, <2>1, NoWrite
  <2>4. Queue!Serve
    BY <2>1, <2>3 DEF Queue!Serve, Line!Apply, Queue!Apply
  <2> QED BY <2>1, <2>2, <2>4 DEF Taken, Queue!Next, WholeOnLine
<1>2. CASE RunTask
  <2>0. /\ task # <<>> /\ task' = Tail(task) /\ UNCHANGED tasks
        /\ \E r \in Sent(Head(task)) : RigBecomes(r)
    BY <1>2 DEF RunTask, queueVars
  <2>1. Head(task) \in Write /\ Tail(task) \in Seq(Write) /\ Head(task) = task[1]
        /\ 1 \in DOMAIN task
    BY <1>0, <2>0
  <2>2. rig' = Written(Head(task), rig) \/ (LossyWrites /\ rig' = rig)
    BY <2>0 DEF Sent, RigBecomes
  <2>3. Line!Apply(Tail(task), Written(Head(task), rig)) = Line!Apply(task, rig)
    BY <1>0, <2>0, FirstThenRest
  <2>4. (LossyWrites => TxAlone(task))'
    <3>1. ASSUME NEW i \in DOMAIN Tail(task), TxAlone(task) PROVE Tail(task)[i][1] = "TX"
      <4>1. i + 1 \in DOMAIN task /\ Tail(task)[i] = task[i + 1]
        BY <1>0, <2>0, <3>1
      <4> QED BY <3>1, <4>1 DEF TxAlone
    <3> QED BY <2>0, <3>1 DEF OnLine, TxAlone
  <2>5. CASE rig' = Written(Head(task), rig)
    <3>1. Line!Apply(task', rig') = Line!Apply(task, rig)
      BY <2>0, <2>3, <2>5
    <3>2. UNCHANGED <<tasks, Line!Apply(task, rig)>>
      BY <2>0, <3>1
    <3> QED BY <2>4, <3>2 DEF Taken
  <2>6. CASE LossyWrites /\ rig' = rig
    <3> DEFINE q == Written(Head(task), rig)
    <3>1. task[1][1] = "TX"
      BY <2>1, <2>6 DEF OnLine, TxAlone
    <3>2. q \in Rig /\ rig.FA = q.FA /\ rig.FB = q.FB /\ rig.NB = q.NB
      <4>1. DOMAIN rig = {"TX", "FA", "FB", "NB"}
        BY <1>0 DEF Rig
      <4> QED BY <1>0, <2>1, <3>1, <4>1, Fields, WrittenType
    <3> HIDE DEF q
    <3>3. PICK tx \in BOOLEAN :
            Line!Apply(Tail(task), rig) = [Line!Apply(Tail(task), q) EXCEPT !.TX = tx]
      BY <1>0, <2>1, <3>2, TxBehind
    <3>4. Line!Apply(task', rig') = [Line!Apply(task, rig) EXCEPT !.TX = tx]
      BY <2>0, <2>3, <2>6, <3>3 DEF q
    <3>5. Queue!Ptt
      BY <2>0, <3>4 DEF Queue!Ptt
    <3> QED BY <2>4, <3>5 DEF Taken, Queue!Next
  <2> QED BY <2>2, <2>5, <2>6
<1> QED BY <1>1, <1>2

\* The radio is changed by hand, by the watchdog or by main.
LEMMA PttTaken ==
  ASSUME TypeOK, NEW tx \in BOOLEAN, NEW r \in Sent(<<"TX", tx>>), RigBecomes(r),
         UNCHANGED <<tasks, task>>
  PROVE  Taken
<1>1. rig \in Rig /\ <<"TX", tx>> \in Write
  BY DEF TypeOK, Write
<1>2. rig' = rig \/ rig' = Written(<<"TX", tx>>, rig)
  BY DEF Sent, RigBecomes
<1>3. DOMAIN rig = {"TX", "FA", "FB", "NB"}
  BY <1>1 DEF Rig
<1>4. rig' \in Rig /\ rig'.FA = rig.FA /\ rig'.FB = rig.FB /\ rig'.NB = rig.NB
  BY <1>1, <1>2, <1>3, Fields, WrittenType
<1> QED BY <1>4, TxTaken

\* A request joins the queue.
LEMMA EnqueueTaken ==
  ASSUME NEW r \in Requests, Enqueue(r) PROVE Taken /\ UNCHANGED task
<1>1. /\ Len(tasks) < MaxQueue /\ tasks' = Append(tasks, r) /\ UNCHANGED <<task, rig>>
  BY DEF Enqueue, pollVars, rigVars
<1>2. Queue!Submit
  BY <1>1 DEF Queue!Submit
<1> QED BY <1>1, <1>2 DEF Taken, Queue!Next

\* Neither the queue, nor the task in hand, nor the radio.
LEMMA NothingTaken ==
  ASSUME UNCHANGED <<tasks, task, rig>> PROVE Taken
BY DEF Taken

LEMMA PollerTaken ==
  ASSUME OnLine, WholeOnLine, Poller PROVE Taken /\ (LossyWrites => TxAlone(task))'
<1>1. CASE PopTask \/ RunTask
  BY <1>1, DrainTaken
<1>2. CASE WatchdogTrip
  <2>1. PICK r \in Sent(<<"TX", FALSE>>) : RigBecomes(r)
    BY <1>2 DEF WatchdogTrip
  <2>2. UNCHANGED <<tasks, task>>
    BY <1>2 DEF WatchdogTrip, queueVars
  <2> QED BY <2>1, <2>2, PttTaken DEF OnLine
<1>3. CASE \/ DrainDone \/ PollId \/ PollIdLost \/ PollFast \/ PollFull \/ CarryForward
           \/ CheckWatchdog \/ Publish \/ Wake
  <2>1. UNCHANGED <<tasks, task, rig>>
    BY <1>3 DEF DrainDone, PollId, PollIdLost, PollFast, PollFull, CarryForward,
                CheckWatchdog, Publish, Wake, queueVars, rigVars
  <2> QED BY <2>1, NothingTaken DEF OnLine
<1> QED BY <1>1, <1>2, <1>3 DEF Poller

LEMMA OthersTaken ==
  ASSUME OnLine,
         \/ \E r \in Requests : Enqueue(r)
         \/ MarkDirty \/ Stop \/ HandMicPtt \/ Tick \/ UNCHANGED vars
  PROVE  Taken /\ UNCHANGED task
<1>1. CASE \E r \in Requests : Enqueue(r)
  BY <1>1, EnqueueTaken
<1>2. CASE HandMicPtt
  <2> DEFINE b == ~rig.TX
  <2>1. b \in BOOLEAN
    OBVIOUS
  <2>2. RigBecomes(Written(<<"TX", b>>, rig)) /\ UNCHANGED <<tasks, task>>
    BY <1>2 DEF HandMicPtt, queueVars, pollVars
  <2> HIDE DEF b
  <2>3. Written(<<"TX", b>>, rig) \in Sent(<<"TX", b>>)
    BY DEF Sent
  <2> QED BY <2>1, <2>2, <2>3, PttTaken DEF OnLine
<1>3. CASE MarkDirty \/ Stop \/ Tick \/ UNCHANGED vars
  <2>1. UNCHANGED <<tasks, task, rig>>
    BY <1>3 DEF MarkDirty, Stop, Tick, vars, queueVars, pollVars, rigVars
  <2> QED BY <2>1, NothingTaken
<1> QED BY <1>1, <1>2, <1>3

\* ServesInOrder: the poll thread with its queue implements the serial rig, for
\* any requests, any number of callers and any length of the queue, with the
\* watchdog and the hand microphone at work.  On a line that loses commands
\* this is so of requests that only key and unkey.
THEOREM QueueIsSerial == ASSUME WholeOnLine PROVE Spec => ServesInOrder
<1>1. Init => tasks = <<>> /\ (LossyWrites => TxAlone(task))
  BY DEF Init, TxAlone
<1>2. OnLine /\ [Next]_vars => Taken /\ (LossyWrites => TxAlone(task))'
  <2> SUFFICES ASSUME OnLine, [Next]_vars PROVE Taken /\ (LossyWrites => TxAlone(task))'
    OBVIOUS
  <2>1. CASE Poller
    BY <2>1, PollerTaken
  <2>2. CASE \/ \E r \in Requests : Enqueue(r)
             \/ MarkDirty \/ Stop \/ HandMicPtt \/ Tick \/ UNCHANGED vars
    BY <2>2, OthersTaken DEF OnLine, TxAlone
  <2> QED BY <2>1, <2>2 DEF Next
<1>3. OnLine <=> TypeOK /\ (LossyWrites => TxAlone(task))
  BY DEF OnLine
<1>4. Taken <=> [Queue!Next]_<<tasks, Line!Apply(task, rig)>>
  BY DEF Taken
<1> QED BY <1>1, <1>2, <1>3, <1>4, TypeCorrect, PTL DEF Spec, ServesInOrder, Queue!Spec

\* The same with main at the end of the program: its unkey goes past the queue
\* and changes TX alone, and what is queued late is served as ever.
THEOREM QueueIsSerialToTheEnd == ASSUME WholeOnLine PROVE HostSpec => ServesInOrder
<1>1. HostInit => tasks = <<>> /\ (LossyWrites => TxAlone(task))
  BY DEF HostInit, Init, TxAlone
<1>2. OnLine /\ [HostNext]_hostVars => Taken /\ (LossyWrites => TxAlone(task))'
  <2> SUFFICES ASSUME OnLine, [HostNext]_hostVars
               PROVE  Taken /\ (LossyWrites => TxAlone(task))'
    OBVIOUS
  <2>1. CASE Poller
    BY <2>1, PollerTaken
  <2>2. CASE \/ \E r \in Requests : Enqueue(r)
             \/ MarkDirty \/ Stop \/ UNCHANGED vars
    BY <2>2, OthersTaken DEF OnLine, TxAlone
  <2>3. CASE SendUnkey
    <3>1. PICK r \in Sent(<<"TX", FALSE>>) : RigBecomes(r)
      BY <2>3 DEF SendUnkey
    <3>2. UNCHANGED <<tasks, task>>
      BY <2>3 DEF SendUnkey, restVars, queueVars, pollVars
    <3> QED BY <3>1, <3>2, PttTaken DEF OnLine, TxAlone
  <2>4. HostCallers => (\E r \in Requests : Enqueue(r)) \/ MarkDirty
    BY LateRequestsAssumption DEF HostCallers
  <2>5. Main => SendUnkey \/ Stop \/ UNCHANGED vars
    BY DEF Main, Signal, ListenersStopped, ReadWasKeyed, StopPoller, Joined, AskUnkeyed, GiveUp
  <2>6. UNCHANGED hostVars => UNCHANGED vars
    BY DEF hostVars
  <2> QED BY <2>1, <2>2, <2>3, <2>4, <2>5, <2>6 DEF HostNext
<1>3. OnLine <=> TypeOK /\ (LossyWrites => TxAlone(task))
  BY DEF OnLine
<1>4. Taken <=> [Queue!Next]_<<tasks, Line!Apply(task, rig)>>
  BY DEF Taken
<1>5. HostTypeOK => TypeOK
  BY DEF HostTypeOK
<1> QED
  BY <1>1, <1>2, <1>3, <1>4, <1>5, HostTypeCorrect, PTL DEF HostSpec, ServesInOrder, Queue!Spec
=============================================================================
