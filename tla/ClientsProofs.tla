--------------------------- MODULE ClientsProofs ---------------------------
(***************************************************************************)
(* The programs outside the host, and the statistics they show.  The       *)
(* panel: its keys always have an end in mind for the carrier they put up, *)
(* and its drive test leaves neither a setting nor a carrier behind, for   *)
(* any keys, gains, ladder and number of requests.  What a panel is told   *)
(* of a session adds up, for any bands that lie far enough apart, any dial *)
(* and any length of a session; and the pusher writes over nobody and      *)
(* shows nothing that is not in Wavelog, for any readings, waits and       *)
(* sessions left behind.                                                   *)
(***************************************************************************)
EXTENDS ClientMC, ObserversMC, Integers, TLAPS

(* The statistics and the pusher. *)

StatsSpec == StatsInit /\ [][StatsNext]_statsVars

Stats ==
  [start : Nat, qsy : Nat, tx : Nat, txTime : Nat, prevTick : Nat, lastQsy : Nat,
   lastTx : BOOLEAN, txStarted : Nat, lastBand : DOMAIN Bands \cup {NoName},
   lastMode : Modes \cup {NoName}, bands : Nat, modes : Nat]

KeyedTime(s, now) == s.txTime + IF s.lastTx THEN now - s.txStarted ELSE 0

\* The overs counted and the one in progress fit into the session, one after
\* the other.
InTime(s, now) ==
  /\ s.start <= now /\ s.txStarted <= now
  /\ IF s.lastTx THEN s.start + s.txTime <= s.txStarted ELSE s.start + s.txTime <= now

InBand(f, b) == Bands[b].lo <= f /\ f <= Bands[b].hi

\* A visit there is no move for yet: the dial is where it was when it was
\* counted, so the next band is a move away.
Fresh(s) ==
  /\ s.bands = s.qsy + 1 /\ s.lastQsy # 0
  /\ s.lastBand \in DOMAIN Bands
  /\ \E g \in Nat : InBand(g, s.lastBand) /\ Distance(g, s.lastQsy) < kQsyThreshold

Counted(s) == s.bands <= s.qsy \/ Fresh(s)

StatsInv ==
  /\ clock \in Nat /\ stats \in Stats
  /\ InTime(stats, clock) /\ Counted(stats)

----------------------------------------------------------------------------
(* Helpers. *)

\* The ends of a band are numbers, and two bands are two thresholds apart.
LEMMA BandsApart ==
  /\ kQsyThreshold \in Nat \ {0} /\ PerSecond \in Nat \ {0} /\ NoName \notin DOMAIN Bands
  /\ \A b, c \in DOMAIN Bands : b # c =>
       \A f, g \in Nat : InBand(f, b) /\ InBand(g, c) => Distance(f, g) >= 2 * kQsyThreshold
<1>1. \A b \in DOMAIN Bands : Bands[b].lo \in Nat /\ Bands[b].hi \in Nat
  BY StatsAssumption
<1>2. ASSUME NEW b \in DOMAIN Bands, NEW c \in DOMAIN Bands, b # c,
             NEW f \in Nat, NEW g \in Nat, InBand(f, b), InBand(g, c)
      PROVE  Distance(f, g) >= 2 * kQsyThreshold
  <2>1. f \in Bands[b].lo .. Bands[b].hi /\ g \in Bands[c].lo .. Bands[c].hi
    BY <1>1, <1>2 DEF InBand
  <2> QED BY <1>2, <2>1, StatsAssumption
<1> QED BY <1>2, StatsAssumption

\* A frequency that has a band is in it.
LEMMA BandForHolds ==
  ASSUME NEW f, BandFor(f) # NoName
  PROVE  BandFor(f) \in DOMAIN Bands /\ InBand(f, BandFor(f))
BY DEF BandFor, InBand

\* Whole seconds grow with the time they are of.
LEMMA SecondsGrow ==
  ASSUME NEW m \in Nat, NEW n \in Nat, NEW k \in Nat \ {0}, m <= n
  PROVE  m \div k <= n \div k
<1> DEFINE p == m \div k
           q == n \div k
<1>1. p \in Int /\ q \in Int /\ k * p <= m /\ n < k * (q + 1)
  BY SMTT(30)
<1>2. ASSUME p > q PROVE FALSE
  <2>1. k * (q + 1) <= k * p
    <3> HIDE DEF p, q
    <3> QED BY <1>1, <1>2, SMTT(30)
  <2>2. k * p \in Int /\ k * (q + 1) \in Int
    <3> HIDE DEF p, q
    <3> QED BY <1>1
  <2> HIDE DEF p, q
  <2> QED BY <1>1, <2>1, <2>2
<1> HIDE DEF p, q
<1>3. p <= q BY <1>1, <1>2
<1> QED BY <1>3 DEF p, q

\* An edge of the key moves keyed time from the over in progress to those that
\* are over, and loses none.
LEMMA KeyedKeeps ==
  ASSUME NEW s \in Stats, NEW tx \in BOOLEAN, clock \in Nat, InTime(s, clock), Counted(s)
  PROVE  LET t == Keyed(s, tx) IN
         /\ t \in Stats /\ InTime(t, clock) /\ Counted(t)
         /\ KeyedTime(t, clock) = KeyedTime(s, clock)
<1> DEFINE t == Keyed(s, tx)
<1>1. t \in Stats
  <2>1. \A m, n \in Nat, k \in BOOLEAN :
          /\ [s EXCEPT !.tx = m, !.txStarted = n, !.lastTx = k] \in Stats
          /\ [s EXCEPT !.txTime = m, !.lastTx = k] \in Stats
    BY DEF Stats
  <2>2. s.tx + 1 \in Nat /\ s.txTime + (clock - s.txStarted) \in Nat BY DEF InTime, Stats
  <2>3. [s EXCEPT !.tx = s.tx + 1, !.txStarted = clock, !.lastTx = TRUE] \in Stats
    BY <2>1, <2>2
  <2>4. [s EXCEPT !.txTime = s.txTime + (clock - s.txStarted), !.lastTx = FALSE] \in Stats
    BY <2>1, <2>2
  <2> QED BY <2>3, <2>4 DEF Keyed
<1>2. /\ t.start = s.start /\ t.bands = s.bands /\ t.qsy = s.qsy
      /\ t.lastQsy = s.lastQsy /\ t.lastBand = s.lastBand
  BY DEF Keyed, Stats
<1>3. InTime(t, clock) BY DEF Keyed, Stats, InTime
<1>4. KeyedTime(t, clock) = KeyedTime(s, clock) BY DEF Keyed, Stats, InTime, KeyedTime
<1>5. Counted(t)
  <2> HIDE DEF t
  <2> QED BY <1>2 DEF Counted, Fresh
<1> QED BY <1>1, <1>3, <1>4, <1>5

\* A move is a threshold at least; the first frequency is none.
LEMMA MovedKeeps ==
  ASSUME NEW s \in Stats, NEW f \in Nat \ {0}, clock \in Nat, InTime(s, clock), Counted(s)
  PROVE  LET t == Moved(s, f) IN
         /\ t \in Stats /\ InTime(t, clock) /\ Counted(t)
         /\ KeyedTime(t, clock) = KeyedTime(s, clock)
         /\ t.lastQsy # 0 /\ Distance(f, t.lastQsy) < kQsyThreshold
<1> DEFINE t == Moved(s, f)
<1>1. t \in Stats
  <2>1. \A m, n \in Nat : /\ [s EXCEPT !.lastQsy = n] \in Stats
                           /\ [s EXCEPT !.qsy = m, !.lastQsy = n] \in Stats
    BY DEF Stats
  <2>2. s.qsy + 1 \in Nat BY DEF Stats
  <2>3. [s EXCEPT !.lastQsy = f] \in Stats /\ [s EXCEPT !.qsy = s.qsy + 1, !.lastQsy = f] \in Stats
    BY <2>1, <2>2
  <2> QED BY <2>3 DEF Moved
<1>2. InTime(t, clock) /\ KeyedTime(t, clock) = KeyedTime(s, clock)
  BY DEF Moved, Stats, InTime, KeyedTime
<1>3. t.lastQsy # 0 /\ Distance(f, t.lastQsy) < kQsyThreshold
  BY BandsApart DEF Moved, Stats, Distance
<1>4. Counted(t)
  <2>1. CASE t = s BY <2>1
  <2>2. CASE t # s
    <3>1. /\ t.bands = s.bands /\ (s.lastQsy = 0 => t.qsy = s.qsy)
          /\ s.lastQsy # 0 => t.qsy = s.qsy + 1
      BY <2>2 DEF Moved, Stats
    <3>2. /\ s.bands \in Nat /\ s.qsy \in Nat
          /\ s.bands <= s.qsy + 1 /\ (s.lastQsy = 0 => s.bands <= s.qsy)
      BY DEF Counted, Fresh, Stats
    <3>3. t.bands <= t.qsy BY <3>1, <3>2
    <3> QED BY <3>1, <3>2, <3>3 DEF Counted, Fresh
  <2> QED BY <2>1, <2>2
<1> QED BY <1>1, <1>2, <1>3, <1>4

\* Another band is a move away from one that has not been left yet.
LEMMA VisitedKeeps ==
  ASSUME NEW s \in Stats, NEW f \in Nat, clock \in Nat, InTime(s, clock), Counted(s),
         s.lastQsy # 0, Distance(f, s.lastQsy) < kQsyThreshold
  PROVE  LET t == Visited(s, f) IN
         /\ t \in Stats /\ InTime(t, clock) /\ Counted(t)
         /\ KeyedTime(t, clock) = KeyedTime(s, clock)
<1> DEFINE t == Visited(s, f)
<1>1. CASE BandFor(f) \in {NoName, s.lastBand} BY <1>1 DEF Visited
<1>2. CASE BandFor(f) \notin {NoName, s.lastBand}
  <2>1. BandFor(f) \in DOMAIN Bands /\ InBand(f, BandFor(f)) BY <1>2, BandForHolds
  <2>2. t = [s EXCEPT !.bands = @ + 1, !.lastBand = BandFor(f)] BY <1>2 DEF Visited
  <2>3. /\ t.bands = s.bands + 1 /\ t.qsy = s.qsy /\ t.lastQsy = s.lastQsy
        /\ t.lastBand = BandFor(f)
    BY <2>2 DEF Stats
  <2>4. t \in Stats
    <3>1. \A n \in Nat, b \in DOMAIN Bands : [s EXCEPT !.bands = n, !.lastBand = b] \in Stats
      BY DEF Stats
    <3>2. s.bands + 1 \in Nat BY DEF Stats
    <3> QED BY <2>1, <2>2, <3>1, <3>2
  <2>5. InTime(t, clock) /\ KeyedTime(t, clock) = KeyedTime(s, clock)
    BY <2>2 DEF Stats, InTime, KeyedTime
  <2>6. ~Fresh(s)
    <3> SUFFICES ASSUME Fresh(s) PROVE FALSE OBVIOUS
    <3>1. PICK g \in Nat : InBand(g, s.lastBand) /\ Distance(g, s.lastQsy) < kQsyThreshold
      BY DEF Fresh
    <3>2. s.lastBand \in DOMAIN Bands /\ s.lastBand # BandFor(f) BY <1>2 DEF Fresh
    <3>3. Distance(f, g) >= 2 * kQsyThreshold BY <2>1, <3>1, <3>2, BandsApart
    <3>4. s.lastQsy \in Nat BY DEF Stats
    <3> QED BY <3>1, <3>3, <3>4, BandsApart DEF Distance
  <2>7. s.bands <= s.qsy BY <2>6 DEF Counted
  <2>8. s.bands \in Nat /\ s.qsy \in Nat BY DEF Stats
  <2>9. t.bands <= t.qsy \/ t.bands = t.qsy + 1 BY <2>3, <2>7, <2>8
  <2>10. Counted(t) BY <2>1, <2>3, <2>9 DEF Counted, Fresh
  <2> QED BY <2>4, <2>5, <2>10
<1> QED BY <1>1, <1>2

\* What a cycle with an answer does to the counts.
LEMMA SettledKeeps ==
  ASSUME NEW s \in Stats, NEW f \in Nat \ {0}, clock \in Nat, InTime(s, clock), Counted(s)
  PROVE  LET t == Settled(s, f) IN
         /\ t \in Stats /\ InTime(t, clock) /\ Counted(t)
         /\ KeyedTime(t, clock) = KeyedTime(s, clock)
<1>1. CASE f = s.prevTick
  <2> DEFINE m == Moved(s, f)
  <2>1. /\ m \in Stats /\ InTime(m, clock) /\ Counted(m)
        /\ KeyedTime(m, clock) = KeyedTime(s, clock)
        /\ m.lastQsy # 0 /\ Distance(f, m.lastQsy) < kQsyThreshold
    BY MovedKeeps
  <2>2. Settled(s, f) = Visited(m, f) BY <1>1 DEF Settled
  <2> HIDE DEF m
  <2> QED BY <2>1, <2>2, VisitedKeeps
<1>2. CASE f # s.prevTick BY <1>2 DEF Settled
<1> QED BY <1>1, <1>2

----------------------------------------------------------------------------
(* The steps. *)

\* What a step keeps, and what it tells the panel meanwhile.
Kept == StatsInv' /\ KeyedTime(stats', clock') >= KeyedTime(stats, clock)

LEMMA GapKeeps == ASSUME StatsInv, ObserveGap PROVE Kept
BY DEF StatsInv, ObserveGap, Kept, Stats, InTime, Counted, Fresh, KeyedTime

LEMMA CycleKeeps == ASSUME StatsInv, CycleEnds PROVE Kept
BY DEF StatsInv, CycleEnds, Kept, Stats, InTime, Counted, Fresh, KeyedTime

LEMMA ResetKeeps == ASSUME StatsInv, Reset PROVE StatsInv'
<1>1. stats' \in Stats /\ clock' = clock BY DEF StatsInv, Reset, Stats
<1>2. InTime(stats', clock') BY DEF StatsInv, Reset, Stats, InTime
<1>3. stats'.bands <= stats'.qsy BY DEF Reset
<1> QED BY <1>1, <1>2, <1>3 DEF StatsInv, Counted

LEMMA RigKeeps == ASSUME StatsInv, ObserveRig PROVE Kept
<1>1. PICK f \in Freqs, mode \in Modes \cup {NoName}, tx \in BOOLEAN :
        stats' = IF f = 0 THEN Keyed(stats, tx)
                 ELSE ModeSeen([Settled(Keyed(stats, tx), f) EXCEPT !.prevTick = f], mode)
  BY DEF ObserveRig
<1>2. clock' = clock BY DEF ObserveRig
<1> DEFINE k == Keyed(stats, tx)
           t == Settled(k, f)
           p == [t EXCEPT !.prevTick = f]
<1>3. /\ k \in Stats /\ InTime(k, clock) /\ Counted(k)
      /\ KeyedTime(k, clock) = KeyedTime(stats, clock)
  BY KeyedKeeps DEF StatsInv
<1>4. CASE f = 0 BY <1>1, <1>2, <1>3, <1>4 DEF Kept, StatsInv, KeyedTime, InTime, Stats
<1>5. CASE f # 0
  <2>1. f \in Nat \ {0} BY <1>5, StatsAssumption
  <2>2. /\ t \in Stats /\ InTime(t, clock) /\ Counted(t)
        /\ KeyedTime(t, clock) = KeyedTime(k, clock)
    <3> HIDE DEF k
    <3> QED BY <1>3, <2>1, SettledKeeps DEF StatsInv
  <2> HIDE DEF t
  <2>3. \A n \in Nat : [t EXCEPT !.prevTick = n] \in Stats BY <2>2 DEF Stats
  <2>4. p \in Stats /\ InTime(p, clock) /\ Counted(p) /\ KeyedTime(p, clock) = KeyedTime(t, clock)
    <3>1. p \in Stats BY <2>1, <2>3
    <3>2. /\ p.start = t.start /\ p.txTime = t.txTime /\ p.lastTx = t.lastTx
          /\ p.txStarted = t.txStarted /\ p.bands = t.bands /\ p.qsy = t.qsy
          /\ p.lastQsy = t.lastQsy /\ p.lastBand = t.lastBand
      BY <2>2 DEF Stats
    <3> HIDE DEF p
    <3> QED BY <2>2, <3>1, <3>2 DEF InTime, Counted, Fresh, KeyedTime
  <2> HIDE DEF p
  <2>5. stats' = ModeSeen(p, mode) BY <1>1, <1>5 DEF p, t, k
  <2>6. \A n \in Nat : \A m \in Modes : [p EXCEPT !.modes = n, !.lastMode = m] \in Stats
    BY <2>4 DEF Stats
  <2>7. p.modes + 1 \in Nat BY <2>4 DEF Stats
  <2>8. stats' \in Stats BY <2>4, <2>5, <2>6, <2>7 DEF ModeSeen
  <2>9. /\ stats'.start = p.start /\ stats'.txTime = p.txTime /\ stats'.lastTx = p.lastTx
        /\ stats'.txStarted = p.txStarted /\ stats'.bands = p.bands /\ stats'.qsy = p.qsy
        /\ stats'.lastQsy = p.lastQsy /\ stats'.lastBand = p.lastBand
    BY <2>4, <2>5 DEF ModeSeen, Stats
  <2>10. KeyedTime(stats', clock') = KeyedTime(stats, clock)
    BY <1>2, <1>3, <2>2, <2>4, <2>9 DEF KeyedTime
  <2>11. InTime(stats', clock') /\ Counted(stats')
    BY <1>2, <2>4, <2>9 DEF InTime, Counted, Fresh
  <2>12. KeyedTime(stats, clock) \in Int BY DEF StatsInv, KeyedTime, Stats
  <2> QED BY <1>2, <2>8, <2>10, <2>11, <2>12 DEF Kept, StatsInv
<1> QED BY <1>4, <1>5

----------------------------------------------------------------------------
(* The theorem. *)

\* What the invariant says of a report: no more keyed time than session, no
\* more visits than moves.
LEMMA ReportsHold == ASSUME StatsInv PROVE TxWithinSession /\ VisitsAreMoves
<1>1. KeyedTime(stats, clock) \in Nat /\ clock - stats.start \in Nat
      /\ KeyedTime(stats, clock) <= clock - stats.start
  BY DEF StatsInv, KeyedTime, InTime, Stats
<1>2. TxWithinSession
  BY <1>1, SecondsGrow, StatsAssumption DEF TxWithinSession, TxSeconds, SessionSeconds, KeyedTime
<1>3. VisitsAreMoves BY DEF StatsInv, Counted, Fresh, VisitsAreMoves, Stats
<1> QED BY <1>2, <1>3

\* Keyed time grows with every step but a reset.
LEMMA SecondsHold ==
  ASSUME StatsInv, [StatsNext]_statsVars
  PROVE  StatsInv' /\ (~Reset => TxSeconds' >= TxSeconds)
<1>1. CASE Reset BY <1>1, ResetKeeps
<1>2. CASE Kept
  <2>1. StatsInv' BY <1>2 DEF Kept
  <2>2. /\ KeyedTime(stats, clock) \in Nat /\ KeyedTime(stats', clock') \in Nat
        /\ KeyedTime(stats, clock) <= KeyedTime(stats', clock')
    BY <1>2, <2>1 DEF Kept, StatsInv, KeyedTime, InTime, Stats
  <2>3. KeyedTime(stats, clock) \div PerSecond <= KeyedTime(stats', clock') \div PerSecond
    BY <2>2, SecondsGrow, StatsAssumption
  <2>4. /\ TxSeconds = KeyedTime(stats, clock) \div PerSecond
        /\ TxSeconds' = KeyedTime(stats', clock') \div PerSecond
    BY DEF TxSeconds, KeyedTime
  <2>5. TxSeconds \in Int /\ TxSeconds' \in Int BY <2>2, <2>4, StatsAssumption
  <2> QED BY <2>1, <2>3, <2>4, <2>5
<1>3. CASE UNCHANGED statsVars
  <2>1. Kept BY <1>3 DEF Kept, StatsInv, statsVars, KeyedTime, InTime, Counted, Fresh, Stats
  <2> QED BY <2>1, <1>2
<1> QED BY <1>1, <1>2, <1>3, GapKeeps, RigKeeps, CycleKeeps DEF StatsNext

\* SessionStats::Observe, Reset and the report: in a session of any length, for
\* any dial and any bands two thresholds apart, there is never more keyed time
\* than session, keyed time goes back at a reset only, and every visit to a
\* band but the first is a move.
THEOREM ReportsAddUp == StatsSpec => StatsAreTrue
<1>1. StatsInit => StatsInv BY StatsAssumption DEF StatsInit, StatsInv, Stats, InTime, Counted
<1>2. StatsInv /\ [StatsNext]_statsVars => StatsInv' BY SecondsHold
<1>3. StatsInv /\ [StatsNext]_statsVars => [~Reset => TxSeconds' >= TxSeconds]_statsVars
  BY SecondsHold
<1>4. StatsInv => TxWithinSession /\ VisitsAreMoves BY ReportsHold
<1> QED BY <1>1, <1>2, <1>3, <1>4, PTL DEF StatsSpec, StatsAreTrue

----------------------------------------------------------------------------
(* The counters. *)

\* A cycle is observed once, so nothing is counted more often than cycles have
\* ended.
Observed == IF due THEN clock - 1 ELSE clock

Within(s, n) == s.qsy <= n /\ s.tx <= n /\ s.bands <= n /\ s.modes <= n
OnDial(s) == s.prevTick \in Freqs \cup {0} /\ s.lastQsy \in Freqs \cup {0}

CountInv ==
  /\ clock <= MaxClock /\ due \in BOOLEAN /\ (due => clock >= 1)
  /\ Within(stats, Observed) /\ OnDial(stats)

\* What each part of Observe counts.
LEMMA KeyedCounts ==
  ASSUME NEW s \in Stats, NEW tx \in BOOLEAN
  PROVE  LET t == Keyed(s, tx) IN
         /\ t.tx \in {s.tx, s.tx + 1} /\ t.qsy = s.qsy /\ t.bands = s.bands /\ t.modes = s.modes
         /\ t.prevTick = s.prevTick /\ t.lastQsy = s.lastQsy
BY DEF Keyed, Stats

LEMMA MovedCounts ==
  ASSUME NEW s \in Stats, NEW f
  PROVE  LET t == Moved(s, f) IN
         /\ t.qsy \in {s.qsy, s.qsy + 1} /\ t.tx = s.tx /\ t.bands = s.bands /\ t.modes = s.modes
         /\ t.prevTick = s.prevTick /\ t.lastQsy \in {s.lastQsy, f}
BY DEF Moved, Stats

LEMMA VisitedCounts ==
  ASSUME NEW s \in Stats, NEW f
  PROVE  LET t == Visited(s, f) IN
         /\ t.bands \in {s.bands, s.bands + 1} /\ t.tx = s.tx /\ t.qsy = s.qsy /\ t.modes = s.modes
         /\ t.prevTick = s.prevTick /\ t.lastQsy = s.lastQsy
BY DEF Visited, Stats

LEMMA ModeSeenCounts ==
  ASSUME NEW s \in Stats, NEW m
  PROVE  LET t == ModeSeen(s, m) IN
         /\ t.modes \in {s.modes, s.modes + 1} /\ t.tx = s.tx /\ t.qsy = s.qsy /\ t.bands = s.bands
         /\ t.prevTick = s.prevTick /\ t.lastQsy = s.lastQsy
BY DEF ModeSeen, Stats

LEMMA SettledCounts ==
  ASSUME NEW s \in Stats, NEW f \in Nat \ {0}, clock \in Nat, InTime(s, clock), Counted(s)
  PROVE  LET t == Settled(s, f) IN
         /\ t.qsy \in {s.qsy, s.qsy + 1} /\ t.bands \in {s.bands, s.bands + 1}
         /\ t.tx = s.tx /\ t.modes = s.modes
         /\ t.prevTick = s.prevTick /\ t.lastQsy \in {s.lastQsy, f}
<1>1. CASE f = s.prevTick
  <2> DEFINE m == Moved(s, f)
  <2>1. m \in Stats
    BY MovedKeeps
  <2>2. /\ m.qsy \in {s.qsy, s.qsy + 1} /\ m.tx = s.tx /\ m.bands = s.bands /\ m.modes = s.modes
        /\ m.prevTick = s.prevTick /\ m.lastQsy \in {s.lastQsy, f}
    BY MovedCounts
  <2>3. Settled(s, f) = Visited(m, f)
    BY <1>1 DEF Settled
  <2> HIDE DEF m
  <2> DEFINE v == Visited(m, f)
  <2>4. /\ v.bands \in {m.bands, m.bands + 1} /\ v.tx = m.tx /\ v.qsy = m.qsy /\ v.modes = m.modes
        /\ v.prevTick = m.prevTick /\ v.lastQsy = m.lastQsy
    BY <2>1, VisitedCounts
  <2> HIDE DEF v
  <2> QED BY <2>2, <2>3, <2>4 DEF v
<1>2. CASE f # s.prevTick
  BY <1>2 DEF Settled
<1> QED BY <1>1, <1>2

LEMMA RigCounts ==
  ASSUME StatsInv, CountInv, ObserveRig PROVE CountInv'
<1>1. PICK f \in Freqs, mode \in Modes \cup {NoName}, tx \in BOOLEAN :
        stats' = IF f = 0 THEN Keyed(stats, tx)
                 ELSE ModeSeen([Settled(Keyed(stats, tx), f) EXCEPT !.prevTick = f], mode)
  BY DEF ObserveRig
<1>2. clock' = clock /\ due /\ due' = FALSE
  BY DEF ObserveRig
<1> DEFINE k == Keyed(stats, tx)
           t == Settled(k, f)
           p == [t EXCEPT !.prevTick = f]
           e == ModeSeen(p, mode)
<1>3. /\ k \in Stats /\ InTime(k, clock) /\ Counted(k)
      /\ k.tx \in {stats.tx, stats.tx + 1} /\ k.qsy = stats.qsy /\ k.bands = stats.bands
      /\ k.modes = stats.modes /\ k.prevTick = stats.prevTick /\ k.lastQsy = stats.lastQsy
  BY KeyedKeeps, KeyedCounts DEF StatsInv
<1>4. PICK n \in Nat : n = clock - 1 /\ n + 1 = clock
  <2>1. clock \in Nat /\ clock >= 1
    BY <1>2 DEF StatsInv, CountInv
  <2>2. clock - 1 \in Nat /\ (clock - 1) + 1 = clock
    BY <2>1
  <2> QED BY <2>2
<1>5. Within(stats, n) /\ OnDial(stats) /\ stats \in Stats
  BY <1>2, <1>4 DEF CountInv, Observed, StatsInv
<1>6. Observed' = n + 1
  BY <1>2, <1>4 DEF Observed
<1>7. Within(stats', n + 1) /\ OnDial(stats')
  <2>1. CASE f = 0
    <3>1. stats' = k
      BY <1>1, <2>1
    <3> HIDE DEF k
    <3> QED BY <1>3, <1>5, <3>1 DEF Within, OnDial, Stats
  <2>2. CASE f # 0
    <3>1. f \in Nat \ {0}
      BY <2>2, StatsAssumption
    <3>2. stats' = e
      BY <1>1, <2>2
    <3> HIDE DEF k
    <3>3. /\ t \in Stats
          /\ t.qsy \in {k.qsy, k.qsy + 1} /\ t.bands \in {k.bands, k.bands + 1}
          /\ t.tx = k.tx /\ t.modes = k.modes
          /\ t.prevTick = k.prevTick /\ t.lastQsy \in {k.lastQsy, f}
      BY <1>3, <3>1, SettledKeeps, SettledCounts DEF StatsInv
    <3> HIDE DEF t
    <3>4. /\ p \in Stats
          /\ p.qsy = t.qsy /\ p.bands = t.bands /\ p.tx = t.tx /\ p.modes = t.modes
          /\ p.prevTick = f /\ p.lastQsy = t.lastQsy
      BY <3>1, <3>3 DEF Stats
    <3> HIDE DEF p
    <3>5. /\ e.modes \in {p.modes, p.modes + 1} /\ e.tx = p.tx /\ e.qsy = p.qsy
          /\ e.bands = p.bands /\ e.prevTick = p.prevTick /\ e.lastQsy = p.lastQsy
      BY <3>4, ModeSeenCounts
    <3> HIDE DEF e
    <3> QED BY <1>3, <1>5, <3>2, <3>3, <3>4, <3>5 DEF Within, OnDial, Stats
  <2> QED BY <2>1, <2>2
<1> QED BY <1>2, <1>4, <1>6, <1>7 DEF CountInv

LEMMA CountsKept ==
  ASSUME StatsInv, CountInv, [StatsNext]_statsVars PROVE CountInv'
<1>0. clock \in Nat /\ stats \in Stats /\ MaxClock \in Nat
  BY StatsAssumption DEF StatsInv
<1>1. CASE ObserveGap
  <2> DEFINE n == clock - 1
  <2>1. due /\ due' = FALSE /\ clock' = clock /\ stats' = [stats EXCEPT !.prevTick = 0]
    BY <1>1 DEF ObserveGap
  <2>2. /\ stats'.qsy = stats.qsy /\ stats'.tx = stats.tx
        /\ stats'.bands = stats.bands /\ stats'.modes = stats.modes
        /\ stats'.prevTick = 0 /\ stats'.lastQsy = stats.lastQsy
    BY <1>0, <2>1 DEF Stats
  <2>3. /\ Within(stats, n) /\ OnDial(stats) /\ Observed' = clock
        /\ clock <= MaxClock /\ clock >= 1
    BY <2>1 DEF CountInv, Observed
  <2>4. Within(stats', clock) /\ OnDial(stats')
    <3>1. /\ stats.qsy \in Nat /\ stats.tx \in Nat /\ stats.bands \in Nat
          /\ stats.modes \in Nat
      BY <1>0 DEF Stats
    <3>2. OnDial(stats')
      BY <2>2, <2>3 DEF OnDial
    <3> QED BY <1>0, <2>2, <2>3, <3>1, <3>2 DEF Within
  <2> QED BY <1>0, <2>1, <2>3, <2>4 DEF CountInv
<1>2. CASE Reset
  BY <1>0, <1>2 DEF Reset, CountInv, Observed, Within, OnDial
<1>3. CASE CycleEnds
  BY <1>0, <1>3 DEF CycleEnds, CountInv, Observed, Within, OnDial, Stats
<1>4. CASE UNCHANGED statsVars
  BY <1>4 DEF statsVars, CountInv, Observed, Within, OnDial
<1> QED BY <1>1, <1>2, <1>3, <1>4, RigCounts DEF StatsNext

LEMMA StatsTyped ==
  ASSUME StatsInv, CountInv PROVE StatsTypeOK
<1>1. stats \in Stats /\ clock \in Nat /\ MaxClock \in Nat
  BY StatsAssumption DEF StatsInv
<1>2. /\ stats.start \in Nat /\ stats.txTime \in Nat /\ stats.txStarted \in Nat
      /\ stats.qsy \in Nat /\ stats.tx \in Nat /\ stats.bands \in Nat /\ stats.modes \in Nat
  BY <1>1 DEF Stats
<1>3. stats.start <= clock /\ stats.txTime <= clock /\ stats.txStarted <= clock
  BY <1>1, <1>2 DEF StatsInv, InTime
<1>4. Observed <= MaxClock /\ Observed \in Int
  BY <1>1 DEF CountInv, Observed
<1>5. stats.qsy <= MaxClock /\ stats.tx <= MaxClock /\ stats.bands <= MaxClock
      /\ stats.modes <= MaxClock
  BY <1>1, <1>2, <1>4 DEF CountInv, Within
<1>6. /\ stats.lastTx \in BOOLEAN
      /\ stats.lastBand \in DOMAIN Bands \cup {NoName} /\ stats.lastMode \in Modes \cup {NoName}
  BY <1>1 DEF Stats
<1> QED BY <1>1, <1>2, <1>3, <1>5, <1>6 DEF StatsTypeOK, CountInv, OnDial

----------------------------------------------------------------------------
(* The pusher. *)

Asked == {"remote", "reloginRemote", "retryRemote", "decide", "post"}

\* A pass that asks has a reading, the host's answer is whether somebody was
\* operating, and only a pass that was told nobody does posts.
PushInv ==
  /\ PushTypeOK
  /\ pass \in [seen : Readings \cup {Empty}, remote : BOOLEAN,
               was : {"away", "listening", "talking"}]
  /\ pc \in Asked => pass.seen \in Readings
  /\ pc \in {"decide", "post"} => (pass.remote <=> Operating(pass.was))
  /\ pc = "post" => ~pass.remote
  /\ PublishedIsThere

\* /api/remote/status leaves the asker's own session out, and the sessions it
\* left behind count for nothing.
LEMMA RemoteIsOperator ==
  ASSUME PushTypeOK PROVE RemoteActive <=> Operating(op)
BY PushAssumption DEF PushTypeOK, RemoteActive, Operating

LEMMA ReadingKey ==
  ASSUME NEW r \in Readings PROVE r.key \in Keys /\ r.key \in Maybe /\ r.good \in BOOLEAN
BY DEF Readings, Maybe

Policies == [candidate : Maybe, held : 0 .. Settle, published : Maybe, age : 0 .. Heartbeat]

LEMMA PolicySet ==
  ASSUME NEW p \in Policies, NEW k \in Maybe, NEW m \in 0 .. Settle, NEW n \in 0 .. Heartbeat
  PROVE  /\ [p EXCEPT !.candidate = k, !.held = m] \in Policies
         /\ [p EXCEPT !.candidate = k, !.held = m].published = p.published
         /\ [p EXCEPT !.published = k, !.age = n] \in Policies
         /\ [p EXCEPT !.published = k, !.age = n].published = k
         /\ [p EXCEPT !.held = m, !.age = n] \in Policies
         /\ [p EXCEPT !.held = m, !.age = n].published = p.published
BY DEF Policies

LEMMA PushFacts ==
  ASSUME PushInv
  PROVE  /\ rig \in Readings /\ op \in {"away", "listening", "talking"}
         /\ up \in BOOLEAN /\ wavelog \in BOOLEAN /\ rewritten \in BOOLEAN
         /\ mine \in {"none", "live", "dead"} /\ ghosts \in 0 .. MaxGhosts /\ MaxGhosts \in Nat
         /\ pc \in {"wait", "start", "relogin", "retry", "remote", "reloginRemote", "retryRemote",
                    "decide", "post"}
         /\ policy \in Policies /\ row \in Maybe /\ late \in Maybe
         /\ Settle \in Nat \ {0} /\ Heartbeat \in Nat \ {0} /\ Empty \notin Keys
BY PushAssumption DEF PushInv, PushTypeOK, Policies

\* A login and the sessions it may leave behind.
LEMMA LoginKeeps ==
  ASSUME PushInv, Login PROVE mine' \in {"none", "live", "dead"} /\ ghosts' \in 0 .. MaxGhosts
BY PushFacts DEF Login

LEMMA PushKept ==
  ASSUME PushInv, PushNext PROVE PushInv'
<1> USE PushFacts
<1> USE DEF Policies
<1>n. NoPass \in [seen : Readings \cup {Empty}, remote : BOOLEAN,
                  was : {"away", "listening", "talking"}]
  BY DEF NoPass
<1> DEFINE Rest == UNCHANGED <<rig, op, up, wavelog, policy, row, late, rewritten>>
<1>1. ASSUME Rest, mine' \in {"none", "live", "dead"}, ghosts' \in 0 .. MaxGhosts,
             \/ UNCHANGED <<pc, pass>>
             \/ pass' = pass /\ pc = "start" /\ pc' \in {"relogin", "retry"}
             \/ pass' = pass /\ pc = "relogin" /\ pc' = "retry"
             \/ pass' = pass /\ pc = "remote" /\ pc' = "reloginRemote"
             \/ pass' = pass /\ pc = "reloginRemote" /\ pc' = "retryRemote"
             \/ pass' = NoPass /\ pc' = "wait"
      PROVE  PushInv'
  BY <1>1, <1>n DEF PushInv, PushTypeOK, Asked, PublishedIsThere
<1>2. CASE Rejected \/ HostFails
  <2>1. Rest /\ UNCHANGED <<mine, ghosts>>
    BY <1>2 DEF Rejected, HostFails, worldVars, sessionVars, logVars
  <2> QED BY <1>1, <1>2, <2>1 DEF Rejected, HostFails
<1>3. CASE Relogin
  <2>1. Rest
    BY <1>3 DEF Relogin, worldVars, logVars
  <2> QED BY <1>1, <1>3, <2>1, LoginKeeps DEF Relogin
<1>4. CASE DeckPress
  <2>1. Rest /\ UNCHANGED <<pc, pass>>
    BY <1>4 DEF DeckPress, worldVars, passVars, logVars
  <2> QED BY <1>1, <1>4, <2>1, LoginKeeps DEF DeckPress
<1>5. CASE SessionDies \/ GhostFades
  <2>1. Rest /\ UNCHANGED <<pc, pass>>
    BY <1>5 DEF SessionDies, GhostFades, worldVars, passVars, logVars
  <2>2. mine' \in {"none", "live", "dead"} /\ ghosts' \in 0 .. MaxGhosts
    BY <1>5 DEF SessionDies, GhostFades
  <2> QED BY <1>1, <2>1, <2>2
<1>6. CASE ReadStatus
  <2>1. /\ pc' = "remote" /\ pass' = [pass EXCEPT !.seen = rig]
        /\ Rest /\ UNCHANGED <<mine, ghosts>>
    BY <1>6 DEF ReadStatus, worldVars, sessionVars, logVars
  <2> QED BY <2>1 DEF PushInv, PushTypeOK, Asked, PublishedIsThere
<1>7. CASE AskRemote
  <2>1. /\ pc \in {"remote", "retryRemote"} /\ pc' = "decide"
        /\ pass' = [pass EXCEPT !.remote = RemoteActive, !.was = op]
        /\ Rest /\ UNCHANGED <<mine, ghosts>>
    BY <1>7 DEF AskRemote, worldVars, sessionVars, logVars
  <2>2. RemoteActive \in BOOLEAN /\ (RemoteActive <=> Operating(op))
    <3>1. RemoteActive \in BOOLEAN
      BY DEF RemoteActive
    <3> QED BY <3>1, RemoteIsOperator DEF PushInv
  <2>3. /\ pass'.seen = pass.seen /\ pass'.remote = RemoteActive /\ pass'.was = op
        /\ pass' \in [seen : Readings \cup {Empty}, remote : BOOLEAN,
                      was : {"away", "listening", "talking"}]
    BY <2>1, <2>2 DEF PushInv
  <2>4. pass.seen \in Readings
    BY <2>1 DEF PushInv, Asked
  <2>5. pass'.remote <=> Operating(pass'.was)
    BY <2>2, <2>3
  <2> QED BY <2>1, <2>3, <2>4, <2>5 DEF PushInv, PushTypeOK, Asked, PublishedIsThere
<1>8. CASE Decide
  <2>1. /\ pc = "decide" /\ UNCHANGED <<rig, op, up, wavelog, mine, ghosts, row, late, rewritten>>
        /\ policy' = policy \/ policy' = Candidate
        /\ \/ Publishes /\ pc' = "post" /\ pass' = pass
           \/ pc' = "wait" /\ pass' = NoPass
    BY <1>8 DEF Decide, worldVars, sessionVars, logVars
  <2>2. pass.seen \in Readings
    BY <2>1 DEF PushInv, Asked
  <2>3. policy' \in Policies /\ policy'.published = policy.published
    <3>1. 0 \in 0 .. Settle /\ pass.seen.key \in Maybe
      BY <2>2, ReadingKey
    <3>2. Candidate \in Policies /\ Candidate.published = policy.published
      <4>1. [policy EXCEPT !.candidate = pass.seen.key, !.held = 0] \in Policies
            /\ [policy EXCEPT !.candidate = pass.seen.key, !.held = 0].published = policy.published
        <5>1. 0 \in 0 .. Heartbeat
          OBVIOUS
        <5> QED BY <3>1, <5>1, PolicySet
      <4> QED BY <4>1 DEF Candidate
    <3> QED BY <2>1, <3>2
  <2>4. Publishes => ~pass.remote
    BY DEF Publishes
  <2> QED
    BY <1>n, <2>1, <2>2, <2>3, <2>4 DEF PushInv, PushTypeOK, Asked, PublishedIsThere
<1>9. CASE PostAccepted
  <2>1. /\ pc = "post" /\ row' = pass.seen.key /\ rewritten' = FALSE
        /\ policy' = [policy EXCEPT !.published = pass.seen.key, !.age = 0]
        /\ pc' = "wait" /\ pass' = NoPass
        /\ UNCHANGED <<rig, op, up, wavelog, mine, ghosts, late>>
    BY <1>9 DEF PostAccepted, Recorded, worldVars, sessionVars
  <2>2. pass.seen \in Readings /\ pass.seen.key \in Maybe
    BY <2>1, ReadingKey DEF PushInv, Asked
  <2>3. policy' \in Policies /\ policy'.published = pass.seen.key
    <3>1. 0 \in 0 .. Settle /\ 0 \in 0 .. Heartbeat
      OBVIOUS
    <3> QED BY <2>1, <2>2, <3>1, PolicySet
  <2> QED BY <1>n, <2>1, <2>2, <2>3 DEF PushInv, PushTypeOK, Asked, PublishedIsThere
<1>10. CASE PostFails
  <2>1. /\ pc = "post" /\ pc' = "wait" /\ pass' = NoPass
        /\ UNCHANGED <<rig, op, up, wavelog, mine, ghosts, policy>>
        /\ row' \in {row, pass.seen.key} /\ late' \in {late, pass.seen.key}
        /\ rewritten' = (rewritten \/ row' # row)
    BY <1>10 DEF PostFails, worldVars, sessionVars
  <2>2. pass.seen \in Readings /\ pass.seen.key \in Maybe
    BY <2>1, ReadingKey DEF PushInv, Asked
  <2>3. rewritten' \in BOOLEAN /\ (~rewritten' => ~rewritten /\ row' = row)
    <3>1. (rewritten \/ row' # row) \in BOOLEAN
      OBVIOUS
    <3> QED BY <2>1, <3>1
  <2> QED BY <1>n, <2>1, <2>2, <2>3 DEF PushInv, PushTypeOK, Asked, PublishedIsThere
<1>11. CASE LateApplied
  <2>1. /\ row' = late /\ late' = Empty /\ rewritten' = TRUE
        /\ UNCHANGED <<rig, op, up, wavelog, mine, ghosts, pc, pass, policy>>
    BY <1>11 DEF LateApplied, worldVars, sessionVars, passVars
  <2> QED BY <2>1 DEF PushInv, PushTypeOK, Asked, PublishedIsThere, Maybe
<1>12. CASE Elapse
  <2>1. /\ pc = "wait" /\ pc' = "start"
        /\ UNCHANGED <<rig, op, up, wavelog, mine, ghosts, pass, row, late, rewritten>>
    BY <1>12 DEF Elapse, worldVars, sessionVars, logVars
  <2>2. PICK n \in 1 .. Heartbeat :
          policy' = [policy EXCEPT !.held = Least(@ + n, Settle), !.age = Least(@ + n, Heartbeat)]
    BY <1>12 DEF Elapse
  <2>3. Least(policy.held + n, Settle) \in 0 .. Settle
        /\ Least(policy.age + n, Heartbeat) \in 0 .. Heartbeat
    <3>1. policy.held \in 0 .. Settle /\ policy.age \in 0 .. Heartbeat
      OBVIOUS
    <3> QED BY <3>1 DEF Least
  <2>4. policy' \in Policies /\ policy'.published = policy.published
    <3>1. Empty \in Maybe
      BY DEF Maybe
    <3> QED BY <2>2, <2>3, <3>1, PolicySet
  <2> QED BY <2>1, <2>4 DEF PushInv, PushTypeOK, Asked, PublishedIsThere
<1>13. CASE Restarts
  <2>1. /\ policy' = NewPolicy /\ mine' = "none" /\ pc' = "wait" /\ pass' = NoPass
        /\ ghosts' \in 0 .. MaxGhosts
        /\ UNCHANGED <<rig, op, up, wavelog, row, late, rewritten>>
    BY <1>13 DEF Restarts, worldVars, logVars
  <2>2. NewPolicy \in Policies /\ NewPolicy.published = Empty
    BY DEF NewPolicy, Maybe
  <2> QED BY <1>n, <2>1, <2>2 DEF PushInv, PushTypeOK, Asked, PublishedIsThere
<1>14. CASE World
  <2>1. /\ rig' \in Readings /\ op' \in {"away", "listening", "talking"}
        /\ up' \in BOOLEAN /\ wavelog' \in BOOLEAN
        /\ UNCHANGED <<mine, ghosts, pc, pass, policy, row, late, rewritten>>
    BY <1>14 DEF World, sessionVars, passVars, logVars
  <2> QED BY <2>1 DEF PushInv, PushTypeOK, Asked, PublishedIsThere
<1> QED
  BY <1>2, <1>3, <1>4, <1>5, <1>6, <1>7, <1>8, <1>9, <1>10, <1>11, <1>12, <1>13, <1>14
  DEF PushNext, Tick

----------------------------------------------------------------------------
(* Both together. *)

ObserversInv == PushInv /\ StatsInv /\ CountInv

LEMMA ObserversInvStarts == Init => ObserversInv
<1> SUFFICES ASSUME Init PROVE ObserversInv
  OBVIOUS
<1>1. StatsInv /\ CountInv
  <2>1. StatsInit
    BY DEF Init
  <2>2. StatsInv
    BY <2>1, StatsAssumption DEF StatsInit, StatsInv, Stats, InTime, Counted
  <2>3. CountInv
    <3>1. clock = 0 /\ due = FALSE /\ Observed = 0 /\ MaxClock \in Nat
      BY <2>1, StatsAssumption DEF StatsInit, Observed
    <3>2. Within(stats, 0) /\ OnDial(stats)
      <4>1. /\ stats.qsy = 0 /\ stats.tx = 0 /\ stats.bands = 0 /\ stats.modes = 0
            /\ stats.prevTick = 0 /\ stats.lastQsy = 0
        BY <2>1 DEF StatsInit
      <4> QED BY <4>1 DEF Within, OnDial
    <3>3. clock <= MaxClock
      BY <3>1
    <3>4. due \in BOOLEAN /\ ~due
      BY <3>1
    <3>5. Within(stats, Observed)
      BY <3>1, <3>2
    <3> QED BY <3>2, <3>3, <3>4, <3>5, Zenon DEF CountInv
  <2> QED BY <2>2, <2>3
<1>2. PushInv
  <2>1. rig \in Readings
    BY DEF Init, PushInit, Readings
  <2>2. /\ NewPolicy \in [candidate : Maybe, held : 0 .. Settle, published : Maybe,
                          age : 0 .. Heartbeat]
        /\ Empty \in Maybe /\ 0 \in 0 .. MaxGhosts /\ NewPolicy.published = Empty
    BY PushAssumption DEF NewPolicy, Maybe
  <2>3. NoPass \in [seen : Readings \cup {Empty}, remote : BOOLEAN,
                    was : {"away", "listening", "talking"}]
    BY DEF NoPass
  <2> QED BY <2>1, <2>2, <2>3 DEF Init, PushInit, PushInv, PushTypeOK, Asked, PublishedIsThere
<1> QED BY <1>1, <1>2 DEF ObserversInv

LEMMA ObserversInvStays == ObserversInv /\ [Next]_vars => ObserversInv'
<1> SUFFICES ASSUME ObserversInv, [Next]_vars PROVE ObserversInv'
  OBVIOUS
<1>1. StatsInv' /\ CountInv'
  <2>1. [StatsNext]_statsVars
    BY DEF Next, Pushes, Counts, vars
  <2> QED BY <2>1, SecondsHold, CountsKept DEF ObserversInv
<1>2. PushInv'
  <2>1. CASE PushNext
    BY <2>1, PushKept DEF ObserversInv
  <2>2. CASE UNCHANGED pushVars
    BY <2>2
    DEF ObserversInv, PushInv, PushTypeOK, Asked, PublishedIsThere, pushVars, worldVars,
        sessionVars, passVars, logVars
  <2> QED BY <2>1, <2>2 DEF Next, Pushes, Counts, vars
<1> QED BY <1>1, <1>2 DEF ObserversInv

\* The inductive invariant of the two observers: the pusher's pass knows what
\* it was told, the session's times follow one another and nothing is counted
\* more often than cycles have ended.
THEOREM ObserversInvariant == Spec => []ObserversInv
BY ObserversInvStarts, ObserversInvStays, PTL DEF Spec

\* The types of the pusher and of SessionStats; that the counters and the times
\* stay within the time observed is part of it.
THEOREM ObserversTypeCorrect == Spec => []TypeOK
<1>1. ObserversInv => TypeOK
  BY StatsTyped DEF ObserversInv, PushInv, TypeOK
<1> QED BY <1>1, ObserversInvariant, PTL

\* Runner.tick and /api/remote/status: nothing is published over an operator
\* the pass was told of, and the pusher stands down for nobody else, its own
\* sessions on the host included.
THEOREM PusherStandsDown == Spec => []StandsDown
<1>1. ObserversInv => StandsDown
  BY DEF ObserversInv, PushInv, StandsDown
<1> QED BY <1>1, ObserversInvariant, PTL

\* record_published: what the pusher shows as published is in Wavelog, but for
\* a post it gave up on that was applied all the same.
THEOREM PublishedIsInWavelog == Spec => []PublishedIsThere
<1>1. ObserversInv => PublishedIsThere
  BY DEF ObserversInv, PushInv
<1> QED BY <1>1, ObserversInvariant, PTL

\* The report of the session adds up beside the pusher as it does alone.
THEOREM ReportsAddUpBeside == Spec => StatsAreTrue
<1>1. Init => StatsInit
  BY DEF Init
<1>2. [Next]_vars => [StatsNext]_statsVars
  BY DEF Next, Pushes, Counts, vars
<1>3. Spec => StatsSpec
  BY <1>1, <1>2, PTL DEF Spec, StatsSpec
<1> QED BY <1>3, ReportsAddUp, PTL

----------------------------------------------------------------------------
(* The drive test: the types. *)

\* A request more, or one less, among those on their way.
LEMMA BagFacts ==
  ASSUME NEW b, NEW x, IsABag(b)
  PROVE  /\ IsABag(BagAdd(b, x)) /\ BagToSet(BagAdd(b, x)) = BagToSet(b) \cup {x}
         /\ IsABag(BagRemove(b, x)) /\ BagToSet(BagRemove(b, x)) \subseteq BagToSet(b)
BY DEF IsABag, BagToSet, BagAdd, BagRemove

LEMMA NoRequests == BagToSet(EmptyBag) = {} /\ IsABag(EmptyBag)
BY DEF IsABag, BagToSet, EmptyBag, SetToBag

Tests == [mode : {"off", "sweep", "voice"}, tick : Nat, idx : 0 .. Steps - 1, best : BOOLEAN]
Settings == [gain : Gains, tone : BOOLEAN]
Sources == {"mic", "tone"}
Requests == {"on", "off", "close", "logout"}
AirTyped == IsABag(air) /\ BagToSet(air) \subseteq Requests

DriveTyped ==
  /\ test \in Tests /\ (test.mode = "sweep" => test.tick < TicksPerStep)
  /\ gain \in Gains /\ saved \in Settings /\ chosen \in Settings
  /\ tone \in BOOLEAN /\ told \in BOOLEAN /\ session \in BOOLEAN /\ armed \in BOOLEAN
  /\ rearmed \in BOOLEAN /\ micKeyed \in BOOLEAN /\ wasTx \in BOOLEAN /\ fresh \in BOOLEAN
  /\ host \in BOOLEAN
  /\ timers \in Seq({1, 2}) /\ sources \subseteq Sources
  /\ status \in {"none", "rx", "tx"} /\ reply \in {"none", "rx", "tx"}
  /\ AirTyped
  /\ carrier \in {Silent, "sweep", "other"} /\ tests \in 0 .. MaxTests

\* What a tick does: it ends the test, or goes on with it in the same mode,
\* the voice check with the gain it found.
GoesOn(t, g) ==
  /\ Goes(t, g) /\ t \in Tests /\ t.mode = test.mode /\ t.best = test.best
  /\ t.mode = "sweep" => t.tick < TicksPerStep
  /\ g \in Gains /\ (test.mode # "sweep" => g = gain)

LEMMA DriveTicks ==
  ASSUME DriveTyped, DriveTick
  PROVE  test.mode # "off" /\ ((\E best \in BOOLEAN : Ends(best)) \/ \E t, g : GoesOn(t, g))
<1> USE DriveAssumption
<1>1. test \in Tests /\ gain \in Gains
  BY DEF DriveTyped
<1>2. CASE TickVoice
  <2>1. CASE test.tick + 1 >= VoiceTicks
    BY <1>2, <2>1 DEF TickVoice
  <2>2. CASE ~(test.tick + 1 >= VoiceTicks)
    <3> DEFINE t == [test EXCEPT !.tick = @ + 1]
    <3>1. Goes(t, gain) /\ test.mode = "voice"
      BY <1>2, <2>2 DEF TickVoice
    <3>2. t \in Tests /\ t.mode = test.mode /\ t.best = test.best
      BY <1>1 DEF Tests
    <3> QED BY <1>1, <3>1, <3>2 DEF GoesOn
  <2> QED BY <1>2, <2>1, <2>2 DEF TickVoice
<1>3. CASE TickSweep
  <2>5. test.mode = "sweep"
    BY <1>3 DEF TickSweep
  <2>0. /\ Dropped => Ends(FALSE)
        /\ ~Dropped /\ test.tick + 1 < TicksPerStep => Goes([test EXCEPT !.tick = @ + 1], gain)
        /\ ~Dropped /\ ~(test.tick + 1 < TicksPerStep) /\ test.idx + 1 >= Steps =>
             \E best \in BOOLEAN : Ends(best)
        /\ ~Dropped /\ ~(test.tick + 1 < TicksPerStep) /\ ~(test.idx + 1 >= Steps) =>
             Goes([test EXCEPT !.tick = 0, !.idx = @ + 1], test.idx + 2)
    BY <1>3, Zenon DEF TickSweep
  <2>1. CASE Dropped
    BY <2>0, <2>1, <2>5
  <2>2. CASE ~Dropped /\ test.tick + 1 < TicksPerStep
    <3> DEFINE t == [test EXCEPT !.tick = @ + 1]
    <3>1. Goes(t, gain) /\ test.mode = "sweep"
      BY <2>0, <2>2, <2>5
    <3>2. t \in Tests /\ t.mode = test.mode /\ t.best = test.best /\ t.tick = test.tick + 1
      BY <1>1 DEF Tests
    <3> QED BY <1>1, <2>2, <3>1, <3>2 DEF GoesOn
  <2>3. CASE ~Dropped /\ ~(test.tick + 1 < TicksPerStep) /\ test.idx + 1 >= Steps
    BY <2>0, <2>3, <2>5
  <2>4. CASE ~Dropped /\ ~(test.tick + 1 < TicksPerStep) /\ ~(test.idx + 1 >= Steps)
    <3> DEFINE t == [test EXCEPT !.tick = 0, !.idx = @ + 1]
    <3>1. Goes(t, test.idx + 2) /\ test.mode = "sweep"
      BY <2>0, <2>4, <2>5
    <3>2. test.idx + 1 \in 0 .. Steps - 1
      BY <1>1, <2>4 DEF Tests
    <3>4. t \in Tests /\ t.mode = test.mode /\ t.best = test.best /\ t.tick = 0
      BY <1>1, <3>2 DEF Tests
    <3>3. test.idx + 2 \in Gains
      BY <1>1, <2>4 DEF Tests, Gains
    <3>5. 0 < TicksPerStep
      BY DEF TicksPerStep
    <3> HIDE DEF t
    <3> QED BY <3>1, <3>3, <3>4, <3>5 DEF GoesOn
  <2> QED BY <2>1, <2>2, <2>3, <2>4, <2>5
<1>4. CASE TickAborts
  BY <1>4 DEF TickAborts
<1>5. TickVoice => test.mode = "voice"
  BY DEF TickVoice
<1> QED BY <1>2, <1>3, <1>4, <1>5 DEF DriveTick, Ticks, TickSweep, TickAborts

\* The test goes on, or ends.
LEMMA TestTyped ==
  ASSUME DriveTyped, (\E best \in BOOLEAN : Ends(best)) \/ \E t, g : GoesOn(t, g)
  PROVE  DriveTyped'
<1> USE DriveAssumption
<1>1. ASSUME NEW best \in BOOLEAN, Ends(best) PROVE DriveTyped'
  <2>1. test' \in Tests /\ test'.mode = "off"
    BY <1>1 DEF Ends, EndDriveTest, NoTest, Tests
  <2>2. gain' \in Gains /\ tone' \in BOOLEAN
    BY <1>1 DEF DriveTyped, Settings, Ends, EndDriveTest
  <2>5. timers \in Seq({1, 2}) /\ 1 \in {1, 2}
    BY DEF DriveTyped
  <2>6. timers' = timers \/ timers' = Append(timers, 1)
    BY <1>1 DEF Ends, EndDriveTest
  <2>3. timers' \in Seq({1, 2})
    BY <2>5, <2>6
  <2>4. AirTyped'
    BY <1>1, BagFacts DEF DriveTyped, AirTyped, Requests, Ends, EndDriveTest
  <2> QED BY <1>1, <2>1, <2>2, <2>3, <2>4 DEF DriveTyped, Ends, pollVars
<1>2. ASSUME NEW t, NEW g, GoesOn(t, g) PROVE DriveTyped'
  <2>1. AirTyped'
    BY <1>2 DEF DriveTyped, AirTyped, GoesOn, Goes, rigVars
  <2> QED BY <1>2, <2>1 DEF DriveTyped, GoesOn, Goes, pollVars, rigVars
<1> QED BY <1>1, <1>2

LEMMA DriveTypedStarts == DriveInit => DriveTyped
<1> SUFFICES ASSUME DriveInit PROVE DriveTyped
  OBVIOUS
<1>1. gain \in Gains /\ tone \in BOOLEAN
  BY DriveAssumption DEF DriveInit, Gains
<1>2. saved \in Settings /\ chosen \in Settings
  BY <1>1 DEF DriveInit, Settings
<1>3. test \in Tests /\ test.mode # "sweep"
  BY DriveAssumption DEF DriveInit, NoTest, Tests
<1>4. AirTyped
  BY NoRequests DEF DriveInit, AirTyped
<1>5. timers \in Seq({1, 2}) /\ sources \subseteq Sources /\ tests \in 0 .. MaxTests
  BY DriveAssumption DEF DriveInit
<1> QED BY <1>1, <1>2, <1>3, <1>4, <1>5, DriveAssumption DEF DriveInit, DriveTyped

\* The panel's own steps.
LEMMA PanelTyped ==
  ASSUME DriveTyped,
         \/ startToneSweep \/ startVoiceCheck \/ VerifyTimer
         \/ (\E g \in OpGains : setMicGain(g)) \/ applyBestGain
         \/ Arm \/ Disarm \/ LinkDrops \/ disconnectSession
  PROVE  DriveTyped'
<1> USE DriveAssumption
<1>0. /\ AirTyped /\ gain \in Gains /\ tone \in BOOLEAN /\ tests \in 0 .. MaxTests
      /\ test \in Tests /\ (test.mode = "sweep" => test.tick < TicksPerStep)
  BY DEF DriveTyped
<1>12. NoTest \in Tests /\ NoTest.tick = 0
  BY DEF NoTest, Tests
<1>1. CASE startToneSweep
  <2>1. test' \in Tests /\ test'.tick = 0
    BY <1>1, <1>12 DEF startToneSweep, Tests
  <2>2. saved' \in Settings /\ gain' \in Gains
    BY <1>0, <1>1 DEF startToneSweep, Settings, Gains
  <2>3. AirTyped'
    BY <1>0, <1>1, BagFacts DEF startToneSweep, AirTyped, Requests
  <2>4. tests' \in 0 .. MaxTests
    BY <1>0, <1>1 DEF startToneSweep
  <2>5. 0 < TicksPerStep
    BY DEF TicksPerStep
  <2> QED BY <1>1, <2>1, <2>2, <2>3, <2>4, <2>5 DEF startToneSweep, DriveTyped, pollVars
<1>2. CASE startVoiceCheck
  <2>1. test' \in Tests /\ test'.mode = "voice"
    BY <1>2, <1>12 DEF startVoiceCheck, Tests
  <2>2. tests' \in 0 .. MaxTests
    BY <1>0, <1>2 DEF startVoiceCheck
  <2>3. AirTyped'
    BY <1>0, <1>2 DEF startVoiceCheck, rigVars, AirTyped
  <2> QED
    BY <1>2, <2>1, <2>2, <2>3 DEF startVoiceCheck, DriveTyped, audioVars, pollVars, rigVars
<1>3. CASE VerifyTimer
  <2>1. timers \in Seq({1, 2}) /\ timers # <<>> /\ 2 \in {1, 2}
    BY <1>3 DEF DriveTyped, VerifyTimer
  <2>2. Tail(timers) \in Seq({1, 2}) /\ Append(Tail(timers), 2) \in Seq({1, 2})
    BY <2>1
  <2>3. timers' = Tail(timers) \/ timers' = Append(Tail(timers), 2)
    BY <1>3 DEF VerifyTimer, Verify
  <2>4. air' = air \/ air' = BagAdd(air, "off")
    BY <1>3 DEF VerifyTimer, Verify
  <2>5. AirTyped'
    BY <1>0, <2>4, BagFacts DEF AirTyped, Requests
  <2>6. told' \in BOOLEAN
    BY <1>3 DEF DriveTyped, VerifyTimer, Verify
  <2>7. timers' \in Seq({1, 2})
    BY <2>2, <2>3
  <2> QED BY <1>3, <2>5, <2>6, <2>7 DEF VerifyTimer, DriveTyped, audioVars, pollVars
<1>4. ASSUME NEW g \in Gains, gain' = g, chosen' = [chosen EXCEPT !.gain = g],
             UNCHANGED <<testVars, tone, armed, sources, rearmed, micKeyed, session,
                         pollVars, rigVars>>
      PROVE  DriveTyped'
  <2>1. chosen' \in Settings
    BY <1>4 DEF DriveTyped, Settings
  <2>2. AirTyped'
    BY <1>0, <1>4 DEF AirTyped, rigVars
  <2> QED BY <1>4, <2>1, <2>2 DEF DriveTyped, testVars, pollVars, rigVars
<1>5. CASE \E g \in OpGains : setMicGain(g)
  BY <1>4, <1>5 DEF setMicGain, Gains
<1>6. CASE applyBestGain
  BY <1>4, <1>6 DEF applyBestGain, Gains
<1>7. ASSUME UNCHANGED <<testVars, gain, tone, chosen, wasTx, reply, fresh, host, carrier>>,
             sources' \subseteq Sources, armed' \in BOOLEAN, rearmed' \in BOOLEAN,
             micKeyed' \in BOOLEAN,
             session' \in BOOLEAN, status' \in {"none", "rx", "tx"}, AirTyped'
      PROVE  DriveTyped'
  BY <1>7 DEF DriveTyped, testVars
<1>8. CASE Arm
  <2>1. AirTyped'
    BY <1>0, <1>8 DEF Arm, AirTyped, rigVars
  <2>2. sources' \subseteq Sources
    BY <1>8 DEF Arm, Opened, Sources, DriveTyped
  <2> QED BY <1>7, <1>8, <2>1, <2>2 DEF DriveTyped, Arm, pollVars, rigVars
<1>9. CASE Disarm
  <2>1. AirTyped'
    BY <1>0, <1>9, BagFacts DEF Disarm, AirTyped, Requests
  <2> QED BY <1>7, <1>9, <2>1 DEF DriveTyped, Disarm, Disarms, pollVars
<1>10. CASE LinkDrops
  <2>1. AirTyped'
    BY <1>0, <1>10, BagFacts DEF LinkDrops, AirTyped, Requests
  <2> QED BY <1>7, <1>10, <2>1 DEF DriveTyped, LinkDrops, pollVars
<1>11. CASE disconnectSession
  <2>1. AirTyped'
    BY <1>0, <1>11, BagFacts DEF disconnectSession, AirTyped, Requests
  <2> QED BY <1>7, <1>11, <2>1 DEF DriveTyped, disconnectSession, Disarms
<1> QED BY <1>1, <1>2, <1>3, <1>5, <1>6, <1>8, <1>9, <1>10, <1>11

\* The polls, the host and the rig.
LEMMA RigTyped ==
  ASSUME DriveTyped,
         \/ PollServed \/ StatusUpdated
         \/ (\E c \in BagToSet(air) : HostServes(c) \/ Lost(c))
         \/ OtherKeys \/ OtherUnkeys
  PROVE  DriveTyped'
<1>1. ASSUME UNCHANGED <<testVars, gain, tone, chosen, armed, sources, rearmed, session>>,
             micKeyed' \in BOOLEAN, wasTx' \in BOOLEAN, fresh' \in BOOLEAN, host' \in BOOLEAN,
             status' \in {"none", "rx", "tx"}, reply' \in {"none", "rx", "tx"},
             carrier' \in {Silent, "sweep", "other"}, AirTyped'
      PROVE  DriveTyped'
  BY <1>1 DEF DriveTyped, testVars
<1>2. CASE PollServed
  <2>1. AirTyped'
    BY <1>2 DEF DriveTyped, PollServed, AirTyped, rigVars
  <2> QED BY <1>1, <1>2, <2>1 DEF DriveTyped, PollServed, audioVars, rigVars
<1>3. CASE StatusUpdated
  <2>1. AirTyped'
    BY <1>3 DEF DriveTyped, StatusUpdated, AirTyped, rigVars
  <2>2. wasTx' \in BOOLEAN /\ micKeyed' \in BOOLEAN
    BY <1>3 DEF DriveTyped, StatusUpdated
  <2> QED BY <1>1, <1>3, <2>1, <2>2 DEF DriveTyped, StatusUpdated, rigVars
<1>4. ASSUME NEW c \in BagToSet(air), HostServes(c) PROVE DriveTyped'
  <2>1. AirTyped'
    BY <1>4, BagFacts DEF DriveTyped, HostServes, AirTyped, Requests
  <2>2. carrier' \in {Silent, "sweep", "other"}
    BY <1>4 DEF DriveTyped, HostServes, Obeyed
  <2>3. host' \in BOOLEAN /\ fresh' \in BOOLEAN
    BY <1>4 DEF DriveTyped, HostServes
  <2> QED BY <1>1, <1>4, <2>1, <2>2, <2>3 DEF DriveTyped, HostServes, audioVars
<1>5. ASSUME NEW c \in BagToSet(air), Lost(c) PROVE DriveTyped'
  <2>1. AirTyped'
    BY <1>5, BagFacts DEF DriveTyped, Lost, AirTyped, Requests
  <2> QED BY <1>1, <1>5, <2>1 DEF DriveTyped, Lost, audioVars, pollVars
<1>6. CASE OtherKeys
  <2>1. AirTyped'
    BY <1>6 DEF DriveTyped, OtherKeys, AirTyped
  <2> QED BY <1>1, <1>6, <2>1 DEF DriveTyped, OtherKeys, audioVars, pollVars
<1>7. CASE OtherUnkeys
  <2>1. AirTyped'
    BY <1>7 DEF DriveTyped, OtherUnkeys, AirTyped
  <2> QED BY <1>1, <1>7, <2>1 DEF DriveTyped, OtherUnkeys, audioVars, pollVars
<1> QED BY <1>2, <1>3, <1>4, <1>5, <1>6, <1>7

LEMMA DriveTypedStays == DriveTyped /\ [DriveNext]_driveVars => DriveTyped'
<1> SUFFICES ASSUME DriveTyped, [DriveNext]_driveVars PROVE DriveTyped'
  OBVIOUS
<1>1. CASE stopDriveTest
  BY <1>1, TestTyped DEF stopDriveTest
<1>2. CASE DriveTick
  BY <1>2, DriveTicks, TestTyped
<1>3. CASE UNCHANGED driveVars
  <2>1. AirTyped'
    BY <1>3 DEF DriveTyped, AirTyped, driveVars, rigVars
  <2> QED
    BY <1>3, <2>1 DEF DriveTyped, driveVars, testVars, audioVars, pollVars, rigVars
<1> QED BY <1>1, <1>2, <1>3, PanelTyped, RigTyped DEF DriveNext

----------------------------------------------------------------------------
(* The drive test: what is set aside, and what is looked after. *)

\* During a sweep what it found is set aside, outside of it the operator's
\* choice is in use; a recommendation is of a test that is over.
SettingsHeld ==
  /\ test.mode = "sweep" => tone /\ saved.gain = chosen.gain /\ saved.tone = chosen.tone
  /\ test.mode # "sweep" => gain = chosen.gain /\ tone = chosen.tone
  /\ test.best => test.mode = "off"

\* What is open: with no link no tone's timer runs, the microphone has been opened
\* only if it was chosen, and the tone, unless a sweep's link brought it, likewise.
SourcesKnown ==
  /\ ~armed => ~("tone" \in sources)
  /\ "mic" \in sources => ~chosen.tone
  /\ "tone" \in sources /\ ~rearmed => chosen.tone

\* The audio's notion of being keyed is the panel's last word on the rig.
EdgesMatch ==
  /\ armed => session
  /\ session => wasTx = (status = "tx") /\ wasTx = micKeyed

\* The sweep's carrier, or a key of its own on the way to the rig.
SweepHot == carrier = "sweep" \/ "on" \in BagToSet(air)

\* As long as a sweep's carrier is up or may come up somebody looks after it,
\* or the operator has been told; and who looks sees it: a poll served since
\* the rig last moved says so.
CarrierWatched ==
  session =>
    /\ SweepHot => test.mode = "sweep" \/ timers # <<>> \/ told
    /\ fresh /\ carrier = "sweep" => reply = "tx" \/ (reply = "none" /\ status = "tx")

DriveInv ==
  /\ DriveTyped /\ CarrierWatched
  /\ ~Fiddles => SettingsHeld /\ SourcesKnown /\ EdgesMatch

LEMMA DriveInvStarts == DriveInit => DriveInv
<1> SUFFICES ASSUME DriveInit PROVE DriveInv
  OBVIOUS
<1>1. DriveTyped
  BY DriveTypedStarts
<1>2. CarrierWatched
  BY DriveAssumption, NoRequests DEF DriveInit, CarrierWatched, SweepHot
<1>3. SettingsHeld
  BY DEF DriveInit, SettingsHeld, NoTest
<1>4. EdgesMatch
  BY DEF DriveInit, EdgesMatch
<1>5. SourcesKnown
  BY DEF DriveInit, SourcesKnown
<1> QED BY <1>1, <1>2, <1>3, <1>4, <1>5 DEF DriveInv

\* What is looked after stays so as long as nobody else keys for the sweep.
LEMMA StaysWatched ==
  ASSUME CarrierWatched, session' => session, SweepHot' => SweepHot,
         test'.mode = test.mode, timers' = timers, told' = told,
         fresh' /\ carrier' = "sweep" => fresh /\ carrier = "sweep",
         reply' = reply, session' => status' = status
  PROVE  CarrierWatched'
BY DEF CarrierWatched

LEMMA PanelWatched ==
  ASSUME DriveTyped, CarrierWatched,
         \/ startToneSweep \/ startVoiceCheck \/ stopDriveTest \/ DriveTick \/ VerifyTimer
         \/ (\E g \in OpGains : setMicGain(g)) \/ applyBestGain
         \/ Arm \/ Disarm \/ LinkDrops \/ disconnectSession
  PROVE  CarrierWatched'
<1>0. IsABag(air)
  BY DEF DriveTyped, AirTyped
<1>1. CASE startToneSweep
  BY <1>1 DEF startToneSweep, CarrierWatched, NoTest, pollVars
<1>2. ASSUME UNCHANGED <<timers, told, session, pollVars, rigVars>>,
             test'.mode = test.mode \/ test.mode # "sweep"
      PROVE  CarrierWatched'
  BY <1>2 DEF CarrierWatched, SweepHot, pollVars, rigVars
<1>3. CASE startVoiceCheck
  BY <1>2, <1>3 DEF startVoiceCheck
<1>4. ASSUME NEW best \in BOOLEAN, Ends(best) PROVE CarrierWatched'
  <2>1. CASE test.mode = "sweep"
    <3>1. timers \in Seq({1, 2}) /\ timers' = Append(timers, 1)
      BY <1>4, <2>1 DEF DriveTyped, Ends, EndDriveTest
    <3>2. timers' # <<>>
      BY <3>1
    <3> QED BY <1>4, <3>2 DEF CarrierWatched, Ends, pollVars
  <2>2. CASE test.mode # "sweep"
    <3>1. timers' = timers /\ air' = air
      BY <1>4, <2>2 DEF Ends, EndDriveTest
    <3> QED BY <1>2, <1>4, <2>2, <3>1 DEF Ends, rigVars
  <2> QED BY <2>1, <2>2
<1>5. CASE stopDriveTest
  BY <1>4, <1>5 DEF stopDriveTest
<1>6. CASE DriveTick
  <2>1. ASSUME NEW t, NEW g, GoesOn(t, g) PROVE CarrierWatched'
    BY <1>2, <2>1 DEF GoesOn, Goes
  <2> QED BY <1>4, <1>6, <2>1, DriveTicks
<1>7. CASE VerifyTimer
  <2>1. /\ timers # <<>> /\ air = EmptyBag /\ reply = "none" /\ (session => fresh) /\ Verify
        /\ UNCHANGED <<test, session, pollVars, host, carrier>>
    BY <1>7 DEF VerifyTimer
  <2>2. CASE status # "tx"
    <3>1. air' = air /\ ~("on" \in BagToSet(air))
      BY <2>1, <2>2, NoRequests DEF Verify
    <3>2. session => ~SweepHot
      BY <2>1, <2>2, <3>1 DEF CarrierWatched, SweepHot
    <3> QED BY <2>1, <3>1, <3>2 DEF CarrierWatched, SweepHot, pollVars
  <2>3. CASE status = "tx" /\ Head(timers) = 1
    <3>1. timers \in Seq({1, 2}) /\ timers' = Append(Tail(timers), 2)
      BY <2>1, <2>3 DEF DriveTyped, Verify
    <3>2. timers' # <<>>
      BY <2>1, <3>1
    <3> QED BY <2>1, <3>2 DEF CarrierWatched, pollVars
  <2>4. CASE status = "tx" /\ Head(timers) # 1
    BY <2>1, <2>4 DEF Verify, CarrierWatched, pollVars
  <2> QED BY <2>2, <2>3, <2>4
<1>8. CASE \E g \in OpGains : setMicGain(g)
  BY <1>2, <1>8 DEF setMicGain, testVars
<1>9. CASE applyBestGain
  BY <1>2, <1>9 DEF applyBestGain, testVars
<1>10. CASE Arm
  BY <1>2, <1>10 DEF Arm, testVars
<1>11. "on" \in BagToSet(BagAdd(air, "close")) <=> "on" \in BagToSet(air)
  BY <1>0, BagFacts
<1>12. CASE Disarm
  BY <1>11, <1>12, StaysWatched DEF Disarm, SweepHot, testVars, pollVars
<1>13. CASE LinkDrops
  BY <1>11, <1>13, StaysWatched DEF LinkDrops, SweepHot, testVars, pollVars
<1>14. CASE disconnectSession
  BY <1>14 DEF disconnectSession, CarrierWatched
<1> QED
  BY <1>1, <1>3, <1>5, <1>6, <1>7, <1>8, <1>9, <1>10, <1>12, <1>13, <1>14

LEMMA RigWatched ==
  ASSUME DriveTyped, CarrierWatched,
         \/ PollServed \/ StatusUpdated
         \/ (\E c \in BagToSet(air) : HostServes(c) \/ Lost(c))
         \/ OtherKeys \/ OtherUnkeys
  PROVE  CarrierWatched'
<1>0. IsABag(air) /\ {Silent, "other"} \cap {"sweep"} = {}
  BY DriveAssumption DEF DriveTyped, AirTyped
<1>1. CASE PollServed
  BY <1>0, <1>1 DEF PollServed, CarrierWatched, SweepHot, testVars, rigVars
<1>2. CASE StatusUpdated
  BY <1>2 DEF StatusUpdated, CarrierWatched, SweepHot, testVars, rigVars
<1>3. ASSUME NEW c \in BagToSet(air), HostServes(c) PROVE CarrierWatched'
  <2>1. BagToSet(air') \subseteq BagToSet(air)
    BY <1>0, <1>3, BagFacts DEF HostServes
  <2>2. carrier' = "sweep" => carrier = "sweep" \/ c = "on"
    BY <1>0, <1>3 DEF HostServes, Obeyed
  <2>3. SweepHot' => SweepHot
    BY <2>1, <2>2 DEF SweepHot
  <2> QED BY <1>3, <2>3, StaysWatched DEF HostServes, testVars, audioVars
<1>4. ASSUME NEW c \in BagToSet(air), Lost(c) PROVE CarrierWatched'
  <2>1. SweepHot' => SweepHot
    BY <1>0, <1>4, BagFacts DEF Lost, SweepHot
  <2> QED BY <1>4, <2>1, StaysWatched DEF Lost, testVars, audioVars, pollVars
<1>5. CASE OtherKeys
  BY <1>0, <1>5, StaysWatched DEF OtherKeys, SweepHot, testVars, audioVars, pollVars
<1>6. CASE OtherUnkeys
  BY <1>0, <1>6, StaysWatched DEF OtherUnkeys, SweepHot, testVars, audioVars, pollVars
<1> QED BY <1>1, <1>2, <1>3, <1>4, <1>5, <1>6

\* No setting is changed while a test has it.
LEMMA SettingsStay ==
  ASSUME DriveTyped, SettingsHeld, ~Fiddles, [DriveNext]_driveVars PROVE SettingsHeld'
<1>1. ASSUME UNCHANGED <<test, saved, gain, tone, chosen>> PROVE SettingsHeld'
  BY <1>1 DEF SettingsHeld
<1>2. CASE startToneSweep
  BY <1>2 DEF startToneSweep, SettingsHeld, NoTest
<1>3. CASE startVoiceCheck
  BY <1>3 DEF startVoiceCheck, SettingsHeld, NoTest, audioVars
<1>4. ASSUME NEW best \in BOOLEAN, Ends(best) PROVE SettingsHeld'
  BY <1>4 DEF Ends, EndDriveTest, SettingsHeld, NoTest
<1>5. CASE stopDriveTest
  BY <1>4, <1>5 DEF stopDriveTest
<1>6. CASE DriveTick
  <2>1. ASSUME NEW t, NEW g, GoesOn(t, g) PROVE SettingsHeld'
    <3>1. /\ test'.mode = test.mode /\ test'.best = test.best
          /\ test.mode # "sweep" => gain' = gain
          /\ UNCHANGED <<saved, tone, chosen>>
      BY <2>1 DEF GoesOn, Goes
    <3> QED BY <3>1 DEF SettingsHeld
  <2> QED BY <1>4, <1>6, <2>1, DriveTicks
<1>7. ASSUME NEW g, gain' = g, chosen' = [chosen EXCEPT !.gain = g],
             test.mode # "sweep", UNCHANGED <<test, saved, tone>>
      PROVE  SettingsHeld'
  <2>1. chosen'.gain = g /\ chosen'.tone = chosen.tone
    BY <1>7 DEF DriveTyped, Settings
  <2> QED BY <1>7, <2>1 DEF SettingsHeld
<1>8. CASE \E g \in OpGains : setMicGain(g)
  BY <1>7, <1>8 DEF setMicGain, Idle, testVars
<1>9. CASE applyBestGain
  <2>1. test.mode # "sweep"
    BY <1>9 DEF applyBestGain, SettingsHeld
  <2> QED BY <1>7, <1>9, <2>1 DEF applyBestGain, testVars
<1>10. CASE VerifyTimer \/ Arm \/ Disarm \/ LinkDrops \/ disconnectSession
  BY <1>1, <1>10
  DEF VerifyTimer, Arm, Disarm, LinkDrops, disconnectSession, Disarms, testVars, audioVars
<1>11. CASE \/ PollServed \/ StatusUpdated \/ OtherKeys \/ OtherUnkeys
            \/ \E c \in BagToSet(air) : HostServes(c) \/ Lost(c)
  BY <1>1, <1>11
  DEF PollServed, StatusUpdated, OtherKeys, OtherUnkeys, HostServes, Lost, testVars, audioVars
<1>12. CASE UNCHANGED driveVars
  BY <1>1, <1>12 DEF driveVars, testVars, audioVars
<1> QED
  BY <1>2, <1>3, <1>5, <1>6, <1>8, <1>9, <1>10, <1>11, <1>12 DEF DriveNext

\* A source is opened by Arm alone; what the link brought goes with it.
LEMMA SourcesStay ==
  ASSUME DriveTyped, SettingsHeld, SourcesKnown, ~Fiddles, [DriveNext]_driveVars
  PROVE  SourcesKnown'
<1>1. ASSUME UNCHANGED <<armed, sources, rearmed>>, chosen'.tone = chosen.tone PROVE SourcesKnown'
  BY <1>1 DEF SourcesKnown
<1>2. CASE startToneSweep \/ startVoiceCheck \/ VerifyTimer
  BY <1>1, <1>2 DEF startToneSweep, startVoiceCheck, VerifyTimer, audioVars
<1>3. ASSUME NEW best \in BOOLEAN, Ends(best) PROVE SourcesKnown'
  BY <1>1, <1>3 DEF Ends
<1>4. CASE stopDriveTest
  BY <1>3, <1>4 DEF stopDriveTest
<1>5. CASE DriveTick
  <2>1. ASSUME NEW t, NEW g, GoesOn(t, g) PROVE SourcesKnown'
    BY <1>1, <2>1 DEF GoesOn, Goes
  <2> QED BY <1>3, <1>5, <2>1, DriveTicks
<1>6. CASE applyBestGain \/ \E g \in OpGains : setMicGain(g)
  <2>1. PICK g : chosen' = [chosen EXCEPT !.gain = g]
    BY <1>6 DEF applyBestGain, setMicGain
  <2>2. chosen'.tone = chosen.tone
    BY <2>1 DEF DriveTyped, Settings
  <2> QED BY <1>1, <1>6, <2>2 DEF applyBestGain, setMicGain
<1>7. CASE Arm
  <2>1. ~armed /\ armed' /\ chosen' = chosen /\ rearmed' = (test.mode = "sweep")
    BY <1>7 DEF Arm
  <2>2. CASE tone
    <3>1. sources' = sources \cup {"tone"}
      BY <1>7, <2>2 DEF Arm, Opened
    <3>2. ~rearmed' => chosen.tone
      BY <2>1, <2>2 DEF SettingsHeld
    <3> QED BY <2>1, <3>1, <3>2 DEF SourcesKnown
  <2>3. CASE ~tone
    <3>1. sources' \subseteq {"mic"} /\ ~chosen.tone
      BY <1>7, <2>3 DEF Arm, Opened, SettingsHeld
    <3> QED BY <2>1, <3>1 DEF SourcesKnown
  <2> QED BY <2>2, <2>3
<1>8. CASE Disarm \/ disconnectSession
  BY <1>8 DEF Disarm, disconnectSession, Disarms, SourcesKnown
<1>9. CASE LinkDrops
  BY <1>9 DEF LinkDrops, SourcesKnown
<1>10. CASE \/ PollServed \/ StatusUpdated \/ OtherKeys \/ OtherUnkeys
            \/ \E c \in BagToSet(air) : HostServes(c) \/ Lost(c)
  BY <1>1, <1>10
  DEF PollServed, StatusUpdated, OtherKeys, OtherUnkeys, HostServes, Lost, audioVars
<1>11. CASE UNCHANGED driveVars
  BY <1>1, <1>11 DEF driveVars, audioVars
<1> QED
  BY <1>2, <1>4, <1>5, <1>6, <1>7, <1>8, <1>9, <1>10, <1>11 DEF DriveNext

LEMMA EdgesStay ==
  ASSUME DriveTyped, EdgesMatch, ~Fiddles, [DriveNext]_driveVars PROVE EdgesMatch'
<1>1. ASSUME UNCHANGED <<armed, session, wasTx, status, micKeyed>> PROVE EdgesMatch'
  BY <1>1 DEF EdgesMatch
<1>2. CASE \/ startToneSweep \/ startVoiceCheck \/ VerifyTimer
           \/ applyBestGain \/ \E g \in OpGains : setMicGain(g)
  BY <1>1, <1>2
  DEF startToneSweep, startVoiceCheck, VerifyTimer, applyBestGain, setMicGain, audioVars, pollVars
<1>3. ASSUME NEW best \in BOOLEAN, Ends(best) PROVE EdgesMatch'
  BY <1>1, <1>3 DEF Ends, pollVars
<1>4. CASE stopDriveTest
  BY <1>3, <1>4 DEF stopDriveTest
<1>5. CASE DriveTick
  <2>1. ASSUME NEW t, NEW g, GoesOn(t, g) PROVE EdgesMatch'
    BY <1>1, <2>1 DEF GoesOn, Goes, pollVars
  <2> QED BY <1>3, <1>5, <2>1, DriveTicks
<1>6. CASE Arm
  BY <1>6 DEF Arm, EdgesMatch, pollVars
<1>7. CASE Disarm
  BY <1>7 DEF Disarm, Disarms, EdgesMatch, DriveTyped, pollVars
<1>8. CASE LinkDrops
  BY <1>8 DEF LinkDrops, EdgesMatch, pollVars
<1>9. CASE disconnectSession
  BY <1>9 DEF disconnectSession, Disarms, EdgesMatch
<1>10. CASE StatusUpdated
  BY <1>10 DEF StatusUpdated, EdgesMatch, DriveTyped
<1>11. CASE \/ PollServed \/ OtherKeys \/ OtherUnkeys
            \/ \E c \in BagToSet(air) : HostServes(c) \/ Lost(c)
  BY <1>1, <1>11
  DEF PollServed, OtherKeys, OtherUnkeys, HostServes, Lost, audioVars, pollVars
<1>12. CASE UNCHANGED driveVars
  BY <1>1, <1>12 DEF driveVars, audioVars, pollVars
<1> QED
  BY <1>2, <1>4, <1>5, <1>6, <1>7, <1>8, <1>9, <1>10, <1>11, <1>12 DEF DriveNext

LEMMA DriveInvStays == DriveInv /\ [DriveNext]_driveVars => DriveInv'
<1> SUFFICES ASSUME DriveInv, [DriveNext]_driveVars PROVE DriveInv'
  OBVIOUS
<1>1. DriveTyped'
  BY DriveTypedStays DEF DriveInv
<1>2. CASE UNCHANGED driveVars
  <2>1. CarrierWatched'
    BY <1>2 DEF DriveInv, CarrierWatched, SweepHot, driveVars, testVars, pollVars, rigVars
  <2> QED BY <1>1, <2>1, SettingsStay, SourcesStay, EdgesStay DEF DriveInv
<1>3. CASE DriveNext
  <2>1. CarrierWatched'
    BY <1>3, PanelWatched, RigWatched DEF DriveNext, DriveInv
  <2> QED BY <1>1, <2>1, SettingsStay, SourcesStay, EdgesStay DEF DriveInv
<1> QED BY <1>2, <1>3

LEMMA DriveInvMeans ==
  ASSUME DriveInv
  PROVE  DriveTypeOK /\ LeftUnkeyedOrTold /\ (~Fiddles => AudioAsChosen)
<1>1. DriveTypeOK
  BY DEF DriveInv, DriveTyped, DriveTypeOK, Tests, Settings, Sources, AirTyped, Requests
<1>2. LeftUnkeyedOrTold
  BY DEF DriveInv, CarrierWatched, SweepHot, LeftUnkeyedOrTold
<1>3. ASSUME ~Fiddles PROVE SettingsComeBack /\ OnlyTheChosen /\ MicFollowsRig
  <2>1. SettingsComeBack
    BY <1>3 DEF DriveInv, SettingsHeld, SettingsComeBack
  <2>2. MicFollowsRig
    <3>1. ASSUME armed, status = "tx" PROVE micKeyed
      <4>1. wasTx = (status = "tx") /\ wasTx = micKeyed
        BY <1>3, <3>1 DEF DriveInv, EdgesMatch
      <4>2. micKeyed \in BOOLEAN /\ wasTx \in BOOLEAN
        BY DEF DriveInv, DriveTyped
      <4> QED BY <3>1, <4>1, <4>2
    <3> QED BY <3>1 DEF MicFollowsRig, GoesOut
  <2>3. OnlyTheChosen
    <3>1. SourcesKnown /\ sources \subseteq {"mic", "tone"}
      BY <1>3 DEF DriveInv, DriveTyped, Sources
    <3>2. ~rearmed => sources \subseteq {IF chosen.tone THEN "tone" ELSE "mic"}
      BY <3>1 DEF SourcesKnown
    <3> QED BY <3>2 DEF OnlyTheChosen, GoesOut
  <2> QED BY <2>1, <2>2, <2>3
<1> QED BY <1>1, <1>2, <1>3 DEF AudioAsChosen

----------------------------------------------------------------------------
(* The PTT keys. *)

\* When the requests cs have been served to a rig that k keyed, w's carrier is
\* up, or would be had nobody keyed before.
Keying(cs, k, w) ==
  \E i \in 0 .. Len(cs) :
    /\ IF i = 0 THEN k = w ELSE cs[i].path = "on" /\ cs[i].by = w
    /\ \A j \in i + 1 .. Len(cs) : cs[j].path # "off"

\* Unless an unkey went astray, a carrier of the window's key that is up, or
\* will be, is one the key is held or latched for, and one of the system-wide
\* key's has its limit running.  A held key is under the finger and in a window
\* that has the focus and the key for itself; a latch is in one that has the
\* focus, or it is an orphan.
KeysInv ==
  /\ PttTypeOK
  /\ ~stray =>
       /\ Keying(calls, keyed, "window") => win.held \/ win.latched
       /\ Keying(calls, keyed, "global") => glob.limit
  /\ win.held => win.mode = "hold" /\ focus /\ down = win.key /\ ~glob.armed
  /\ win.latched /\ win.mode = "toggle" => focus
  /\ glob.limit => glob.hold /\ glob.down

LEMMA OneMore ==
  ASSUME NEW cs \in Seq(Calls), NEW c \in Calls
  PROVE  /\ cs \o <<c>> \in Seq(Calls) /\ Len(cs \o <<c>>) = Len(cs) + 1
         /\ (cs \o <<c>>)[Len(cs) + 1] = c
         /\ \A j \in 1 .. Len(cs) : (cs \o <<c>>)[j] = cs[j]
OBVIOUS

LEMMA NothingKeys ==
  ASSUME NEW cs \in Seq(Calls)
  PROVE  cs \o NoCall = cs
BY DEF NoCall

LEMMA UnkeyEnds ==
  ASSUME NEW cs \in Seq(Calls), NEW k, NEW w
  PROVE  cs \o Unkey \in Seq(Calls) /\ ~Keying(cs \o Unkey, k, w)
<1> DEFINE c == [path |-> "off", by |-> "toggle"]
           ds == cs \o <<c>>
<1>1. c \in Calls /\ c.path = "off"
  BY DEF Calls, Who
<1>2. ds \in Seq(Calls) /\ Len(ds) = Len(cs) + 1 /\ ds[Len(ds)].path = "off" /\ Len(cs) \in Nat
  BY <1>1, OneMore
<1> HIDE DEF ds, c
<1>3. ~Keying(ds, k, w)
  <2>1. ASSUME NEW i \in 0 .. Len(ds),
               IF i = 0 THEN k = w ELSE ds[i].path = "on" /\ ds[i].by = w,
               \A j \in i + 1 .. Len(ds) : ds[j].path # "off"
        PROVE  FALSE
    <3>1. CASE i = Len(ds)
      BY <1>2, <2>1, <3>1
    <3>2. CASE i # Len(ds)
      <4>1. Len(ds) \in i + 1 .. Len(ds)
        BY <1>2, <2>1, <3>2
      <4> QED BY <1>2, <2>1, <4>1
    <3> QED BY <3>1, <3>2
  <2> QED BY <2>1 DEF Keying
<1> QED BY <1>2, <1>3 DEF ds, c, Unkey

LEMMA OthersKey ==
  ASSUME NEW cs \in Seq(Calls), NEW c \in Calls, NEW k, NEW w,
         c.path = "off" \/ Keying(cs \o <<c>>, k, w)
  PROVE  c.path = "off" \/ Keying(cs, k, w) \/ (c.path = "on" /\ c.by = w)
<1> SUFFICES ASSUME c.path # "off" PROVE Keying(cs, k, w) \/ (c.path = "on" /\ c.by = w)
  OBVIOUS
<1> DEFINE ds == cs \o <<c>>
<1>1. /\ Len(ds) = Len(cs) + 1 /\ ds[Len(cs) + 1] = c /\ Len(cs) \in Nat
      /\ \A j \in 1 .. Len(cs) : ds[j] = cs[j]
  BY OneMore
<1>2. Keying(ds, k, w)
  OBVIOUS
<1> HIDE DEF ds
<1>3. PICK i \in 0 .. Len(ds) :
        /\ IF i = 0 THEN k = w ELSE ds[i].path = "on" /\ ds[i].by = w
        /\ \A j \in i + 1 .. Len(ds) : ds[j].path # "off"
  BY <1>2 DEF Keying
<1>4. CASE i = Len(cs) + 1
  BY <1>1, <1>3, <1>4
<1>5. CASE i # Len(cs) + 1
  <2>1. i \in 0 .. Len(cs)
    BY <1>1, <1>3, <1>5
  <2>2. IF i = 0 THEN k = w ELSE cs[i].path = "on" /\ cs[i].by = w
    BY <1>1, <1>3, <2>1
  <2>3. \A j \in i + 1 .. Len(cs) : cs[j].path # "off"
    BY <1>1, <1>3, <2>1
  <2> QED BY <2>1, <2>2, <2>3 DEF Keying
<1> QED BY <1>4, <1>5

LEMMA KeyKeys ==
  ASSUME NEW cs \in Seq(Calls), NEW who \in Who, NEW k, NEW w
  PROVE  /\ cs \o Key(who) \in Seq(Calls)
         /\ Keying(cs \o Key(who), k, w) => Keying(cs, k, w) \/ who = w
<1>1. [path |-> "on", by |-> who] \in Calls
  BY DEF Calls
<1> QED BY <1>1, OneMore, OthersKey DEF Key

LEMMA ReadKeysNot ==
  ASSUME NEW cs \in Seq(Calls), NEW k, NEW w
  PROVE  /\ cs \o Read \in Seq(Calls)
         /\ Keying(cs \o Read, k, w) => Keying(cs, k, w)
<1>1. [path |-> "read", by |-> "toggle"] \in Calls
  BY DEF Calls, Who
<1> QED BY <1>1, OneMore, OthersKey DEF Read

\* Two sequences, one after the other.
LEMMA Joined ==
  ASSUME NEW S, NEW a \in Seq(S), NEW b \in Seq(S)
  PROVE  /\ a \o b \in Seq(S) /\ Len(a \o b) = Len(a) + Len(b)
         /\ \A j \in 1 .. Len(a) + Len(b) :
              (a \o b)[j] = IF j <= Len(a) THEN a[j] ELSE b[j - Len(a)]
OBVIOUS

\* What is left when the i-th has gone.
LEMMA Removed ==
  ASSUME NEW S, NEW cs \in Seq(S), NEW i \in 1 .. Len(cs)
  PROVE  /\ RemoveAt(cs, i) \in Seq(S) /\ Len(RemoveAt(cs, i)) = Len(cs) - 1
         /\ \A j \in 1 .. i - 1 : RemoveAt(cs, i)[j] = cs[j]
         /\ \A j \in i .. Len(cs) - 1 : RemoveAt(cs, i)[j] = cs[j + 1]
<1> DEFINE a == SubSeq(cs, 1, i - 1)
           b == SubSeq(cs, i + 1, Len(cs))
<1>1. /\ a \in Seq(S) /\ Len(a) = i - 1 /\ \A j \in 1 .. i - 1 : a[j] = cs[j]
      /\ b \in Seq(S) /\ Len(b) = Len(cs) - i
      /\ \A j \in 1 .. Len(cs) - i : b[j] = cs[i + j]
      /\ Len(cs) \in Nat /\ i \in Nat
  OBVIOUS
<1>2. RemoveAt(cs, i) = a \o b
  BY DEF RemoveAt
<1> HIDE DEF a, b
<1>3. a \o b \in Seq(S) /\ Len(a \o b) = Len(cs) - 1
  <2>1. a \o b \in Seq(S) /\ Len(a \o b) = Len(a) + Len(b)
    BY <1>1, Joined
  <2> QED BY <1>1, <2>1
<1>5. ASSUME NEW j \in 1 .. Len(a) + Len(b)
      PROVE  (a \o b)[j] = IF j <= Len(a) THEN a[j] ELSE b[j - Len(a)]
  BY <1>1, <1>5, Joined
<1>6. ASSUME NEW j \in 1 .. i - 1 PROVE (a \o b)[j] = a[j]
  <2>1. j \in 1 .. Len(a) + Len(b) /\ j <= Len(a)
    BY <1>1, <1>6
  <2> QED BY <1>5, <2>1
<1>7. ASSUME NEW j \in i .. Len(cs) - 1 PROVE (a \o b)[j] = b[j - (i - 1)]
  <2>1. j \in 1 .. Len(a) + Len(b) /\ ~(j <= Len(a)) /\ Len(a) = i - 1
    BY <1>1, <1>7
  <2> QED BY <1>5, <2>1
<1>4. ASSUME NEW j \in i .. Len(cs) - 1 PROVE b[j - (i - 1)] = cs[j + 1]
  <2>1. j - (i - 1) \in 1 .. Len(cs) - i /\ i + (j - (i - 1)) = j + 1
    BY <1>1, <1>4
  <2> QED BY <1>1, <2>1
<1> QED BY <1>1, <1>2, <1>3, <1>4, <1>6, <1>7

\* A carrier that is left to come up after a request has gone was to come up
\* before, unless that request was an unkey with a key still on its way before
\* it.
LEMMA LeavesKeys ==
  ASSUME NEW cs \in Seq(Calls), NEW i \in 1 .. Len(cs), NEW k, NEW n, NEW w, w # Nobody,
         \/ cs[i].path # "off" /\ (n = k \/ (cs[i].path = "on" /\ n = cs[i].by))
         \/ /\ cs[i].path = "off" /\ n = Nobody
            /\ \A j \in 1 .. i - 1 : cs[j].path # "on",
         Keying(RemoveAt(cs, i), n, w)
  PROVE  Keying(cs, k, w)
<1> DEFINE ds == RemoveAt(cs, i)
<1>0. Len(cs) \in Nat /\ i \in Nat
  OBVIOUS
<1>1. /\ Len(cs) \in Nat /\ i \in Nat /\ Len(ds) = Len(cs) - 1
      /\ \A j \in 1 .. i - 1 : ds[j] = cs[j]
      /\ \A j \in i .. Len(cs) - 1 : ds[j] = cs[j + 1]
  BY <1>0, Removed, Zenon
<1>2. PICK d \in 0 .. Len(ds) :
        /\ IF d = 0 THEN n = w ELSE ds[d].path = "on" /\ ds[d].by = w
        /\ \A j \in d + 1 .. Len(ds) : ds[j].path # "off"
  BY DEF Keying
<1> HIDE DEF ds
<1>3. ASSUME NEW j \in 1 .. Len(cs), j # i, (j < i /\ j > d) \/ (j > i /\ j > d + 1)
      PROVE  cs[j].path # "off"
  <2>1. CASE j < i
    <3>1. j \in 1 .. i - 1 /\ j \in d + 1 .. Len(ds)
      BY <1>1, <1>2, <1>3, <2>1
    <3> QED BY <1>1, <1>2, <3>1
  <2>2. CASE j > i
    <3>1. j - 1 \in i .. Len(cs) - 1 /\ j - 1 \in d + 1 .. Len(ds) /\ (j - 1) + 1 = j
      BY <1>1, <1>2, <1>3, <2>2
    <3> QED BY <1>1, <1>2, <3>1
  <2> QED BY <1>3, <2>1, <2>2
<1>4. CASE d # 0 /\ d < i
  <2>1. d \in 1 .. i - 1 /\ cs[d].path = "on" /\ cs[d].by = w
    BY <1>1, <1>2, <1>4
  <2>2. cs[i].path # "off"
    BY <2>1
  <2>3. \A j \in d + 1 .. Len(cs) : cs[j].path # "off"
    <3> SUFFICES ASSUME NEW j \in d + 1 .. Len(cs), j # i PROVE cs[j].path # "off"
      BY <2>2
    <3>1. j \in 1 .. Len(cs) /\ ((j < i /\ j > d) \/ (j > i /\ j > d + 1))
      BY <1>1, <1>4, <2>1
    <3> QED BY <1>3, <3>1
  <2>4. d \in 0 .. Len(cs)
    BY <1>1, <2>1
  <2> QED BY <1>4, <2>1, <2>3, <2>4 DEF Keying
<1>5. CASE d # 0 /\ d >= i
  <2>1. d \in i .. Len(cs) - 1 /\ d + 1 \in 0 .. Len(cs) /\ d + 1 # 0
    BY <1>1, <1>2, <1>5
  <2>2. cs[d + 1].path = "on" /\ cs[d + 1].by = w
    BY <1>1, <1>2, <1>5, <2>1
  <2>3. \A j \in (d + 1) + 1 .. Len(cs) : cs[j].path # "off"
    <3> SUFFICES ASSUME NEW j \in (d + 1) + 1 .. Len(cs) PROVE cs[j].path # "off"
      OBVIOUS
    <3>1. j \in 1 .. Len(cs) /\ j # i /\ j > i /\ j > d + 1
      BY <1>1, <1>5, <2>1
    <3> QED BY <1>3, <3>1
  <2> QED BY <2>1, <2>2, <2>3 DEF Keying
<1>6. CASE d = 0
  <2>1. n = w /\ cs[i].path # "off"
    BY <1>2, <1>6
  <2>2. \A j \in 1 .. Len(cs) : j # i => cs[j].path # "off"
    <3> SUFFICES ASSUME NEW j \in 1 .. Len(cs), j # i PROVE cs[j].path # "off"
      OBVIOUS
    <3>1. (j < i /\ j > d) \/ (j > i /\ j > d + 1)
      BY <1>1, <1>6
    <3> QED BY <1>3, <3>1
  <2>3. \A j \in 1 .. Len(cs) : cs[j].path # "off"
    BY <2>1, <2>2
  <2>4. CASE n = k
    <3>1. 0 \in 0 .. Len(cs) /\ \A j \in 0 + 1 .. Len(cs) : cs[j].path # "off"
      BY <1>1, <2>3
    <3> QED BY <2>1, <2>4, <3>1 DEF Keying
  <2>5. CASE cs[i].path = "on" /\ n = cs[i].by
    <3>1. i \in 0 .. Len(cs) /\ i # 0 /\ \A j \in i + 1 .. Len(cs) : cs[j].path # "off"
      BY <1>1, <2>3
    <3> QED BY <2>1, <2>5, <3>1 DEF Keying
  <2> QED BY <2>1, <2>4, <2>5
<1> QED BY <1>1, <1>2, <1>4, <1>5, <1>6

\* With no key on its way nothing but what is up is left to come up.
LEMMA NoneKeys ==
  ASSUME NEW cs \in Seq(Calls), NEW i \in 1 .. Len(cs), NEW w, w # Nobody,
         \A j \in 1 .. Len(cs) : cs[j].path # "on"
  PROVE  ~Keying(RemoveAt(cs, i), Nobody, w)
<1> DEFINE ds == RemoveAt(cs, i)
<1>1. /\ Len(cs) \in Nat /\ i \in Nat /\ Len(ds) = Len(cs) - 1
      /\ \A j \in 1 .. i - 1 : ds[j] = cs[j]
      /\ \A j \in i .. Len(cs) - 1 : ds[j] = cs[j + 1]
  BY Removed
<1> HIDE DEF ds
<1>2. ASSUME NEW d \in 1 .. Len(ds) PROVE ds[d].path # "on"
  <2>1. CASE d < i
    <3>1. d \in 1 .. i - 1 /\ d \in 1 .. Len(cs)
      BY <1>1, <1>2, <2>1
    <3> QED BY <1>1, <3>1
  <2>2. CASE d >= i
    <3>1. d \in i .. Len(cs) - 1 /\ d + 1 \in 1 .. Len(cs)
      BY <1>1, <1>2, <2>2
    <3> QED BY <1>1, <3>1
  <2> QED BY <1>1, <2>1, <2>2
<1>3. ~Keying(ds, Nobody, w)
  BY <1>1, <1>2 DEF Keying
<1> QED BY <1>3 DEF ds

LEMMA KeysInvStarts == PttInit => KeysInv
<1> SUFFICES ASSUME PttInit PROVE KeysInv
  OBVIOUS
<1>1. win \in [key : HotKeys, mode : {"hold", "toggle"}, held : BOOLEAN, latched : BOOLEAN]
      /\ ~win.held /\ ~win.latched
  BY DEF PttInit
<1>2. glob \in [armed : BOOLEAN, down : BOOLEAN, hold : BOOLEAN, limit : BOOLEAN] /\ ~glob.limit
  BY DEF PttInit, Applied
<1>6. calls \in Seq(Calls) /\ asks \in Seq(BOOLEAN) /\ keyed = Nobody /\ down = Nobody
      /\ focus = TRUE /\ snapTx = FALSE /\ stray = FALSE
      /\ platform \in {"windows", "macos", "other"}
  BY DEF PttInit
<1>3. PttTypeOK
  BY <1>1, <1>2, <1>6 DEF PttTypeOK
<1>4. Len(calls) = 0 /\ keyed = Nobody /\ Nobody \notin {"window", "global"}
  BY PttAssumption DEF PttInit, Who
<1>5. ASSUME NEW w \in {"window", "global"} PROVE ~Keying(calls, keyed, w)
  BY <1>4, <1>5 DEF Keying
<1> QED BY <1>1, <1>2, <1>3, <1>5 DEF KeysInv

Wins == [key : HotKeys, mode : {"hold", "toggle"}, held : BOOLEAN, latched : BOOLEAN]
Globs == [armed : BOOLEAN, down : BOOLEAN, hold : BOOLEAN, limit : BOOLEAN]

\* The types of what the keys and the registration do.
LEMMA KeysTyped ==
  ASSUME PttTypeOK, NEW who \in Who
  PROVE  /\ calls \in Seq(Calls) /\ win \in Wins /\ glob \in Globs
         /\ calls \o NoCall = calls
         /\ calls \o Unkey \in Seq(Calls) /\ calls \o Key(who) \in Seq(Calls)
         /\ calls \o Read \in Seq(Calls)
BY NothingKeys, UnkeyEnds, KeyKeys, ReadKeysNot DEF PttTypeOK, Wins, Globs

\* What of the invariant is about the panel, should the requests on their way
\* grow by these.
Grows(more) ==
  /\ calls' = calls \o more /\ calls' \in Seq(Calls) /\ keyed' = keyed
  /\ ~stray =>
       /\ Keying(calls', keyed', "window") => win'.held \/ win'.latched
       /\ Keying(calls', keyed', "global") => glob'.limit

Books(w, g, f, d) ==
  /\ w.held => w.mode = "hold" /\ f /\ d = w.key /\ ~g.armed
  /\ w.latched /\ w.mode = "toggle" => f
  /\ g.limit => g.hold /\ g.down

LEMMA KeysKept ==
  ASSUME KeysInv, NEW more, Grows(more), win' \in Wins, glob' \in Globs,
         down' \in HotKeys \cup {Nobody}, focus' \in BOOLEAN,
         UNCHANGED <<platform, asks, stray, hostVars>>, Books(win', glob', focus', down')
  PROVE  KeysInv'
<1>1. PttTypeOK'
  BY DEF KeysInv, PttTypeOK, Grows, Wins, Globs, hostVars
<1> QED BY <1>1 DEF KeysInv, Grows, Books

\* Nothing new is sent, or nothing that keys.
LEMMA GrowsBy ==
  ASSUME KeysInv, NEW more, calls' = calls \o more, keyed' = keyed
  PROVE  /\ more = Unkey => Grows(more)
         /\ (/\ more = NoCall \/ more = Read
             /\ win.held \/ win.latched => win'.held \/ win'.latched
             /\ glob.limit => glob'.limit) => Grows(more)
         /\ \A who \in Who :
              (/\ more = Key(who)
               /\ win.held \/ win.latched \/ who = "window" => win'.held \/ win'.latched
               /\ glob.limit \/ who = "global" => glob'.limit) => Grows(more)
<1>0. calls \in Seq(Calls)
  BY DEF KeysInv, PttTypeOK
<1>1. more = Unkey => Grows(more)
  BY <1>0, UnkeyEnds DEF Grows
<1>2. ASSUME more = NoCall \/ more = Read,
             win.held \/ win.latched => win'.held \/ win'.latched, glob.limit => glob'.limit
      PROVE  Grows(more)
  <2>1. /\ calls' \in Seq(Calls)
        /\ \A w \in Who : Keying(calls', keyed, w) => Keying(calls, keyed, w)
    BY <1>0, <1>2, NothingKeys, ReadKeysNot
  <2>2. {"window", "global"} \subseteq Who
    BY DEF Who
  <2> QED BY <1>2, <2>1, <2>2 DEF KeysInv, Grows
<1>3. ASSUME NEW who \in Who, more = Key(who),
             win.held \/ win.latched \/ who = "window" => win'.held \/ win'.latched,
             glob.limit \/ who = "global" => glob'.limit
      PROVE  Grows(more)
  <2>1. /\ calls' \in Seq(Calls)
        /\ \A w \in Who : Keying(calls', keyed, w) => Keying(calls, keyed, w) \/ who = w
    BY <1>0, <1>3, KeyKeys
  <2>2. {"window", "global"} \subseteq Who
    BY DEF Who
  <2> QED BY <1>3, <2>1, <2>2 DEF KeysInv, Grows
<1> QED BY <1>1, <1>2, <1>3

\* The key goes down.
LEMMA PressKeeps ==
  ASSUME KeysInv, PressAnywhere \/ PressInWindow \/ PressButton PROVE KeysInv'
<1>0. /\ win \in Wins /\ glob \in Globs /\ win.key \in HotKeys /\ win.key # Nobody
      /\ {"window", "global", "toggle"} \subseteq Who /\ Books(win, glob, focus, down)
      /\ focus \in BOOLEAN /\ down \in HotKeys \cup {Nobody}
  BY PttAssumption DEF KeysInv, PttTypeOK, Wins, Globs, Books, Who
<1>1. CASE PressAnywhere
  <2> DEFINE more == IF glob.hold THEN Key("global") ELSE Read
  <2>1. /\ down' = win.key /\ calls' = calls \o more
        /\ glob' = [glob EXCEPT !.down = TRUE, !.limit = @ \/ glob.hold]
        /\ down = Nobody /\ glob.armed
        /\ UNCHANGED <<platform, focus, win, asks, stray, hostVars>>
    BY <1>1 DEF PressAnywhere, Pressed, Sent
  <2>2. /\ glob' \in Globs /\ glob'.down /\ glob'.limit = (glob.limit \/ glob.hold)
        /\ glob'.hold = glob.hold /\ glob'.armed = glob.armed
    BY <1>0, <2>1 DEF Globs
  <2>3. more = Read \/ (glob.hold /\ more = Key("global"))
    BY DEF more
  <2> HIDE DEF more
  <2>4. Grows(more)
    BY <1>0, <2>1, <2>2, <2>3, GrowsBy DEF hostVars
  <2>5. Books(win', glob', focus', down')
    BY <1>0, <2>1, <2>2 DEF Books
  <2> QED BY <1>0, <2>1, <2>2, <2>4, <2>5, KeysKept
<1>2. CASE PressInWindow
  <2>0. /\ down' = win.key /\ down = Nobody /\ ~glob.armed /\ focus /\ WindowPress
        /\ UNCHANGED <<platform, focus, glob, asks, stray, hostVars>>
    BY <1>2 DEF PressInWindow
  <2>1. CASE win.mode = "hold"
    <3>1. /\ win' = [win EXCEPT !.held = TRUE]
          /\ calls' = calls \o (IF win.held THEN NoCall ELSE Key("window"))
      BY <2>0, <2>1 DEF WindowPress, Sent
    <3>2. win' \in Wins /\ win'.held /\ win'.mode = "hold" /\ win'.key = win.key
          /\ win'.latched = win.latched
      BY <1>0, <2>1, <3>1 DEF Wins
    <3>3. ~win.held
      BY <1>0, <2>0 DEF Books
    <3>4. Grows(Key("window"))
      BY <1>0, <2>0, <3>1, <3>2, <3>3, GrowsBy DEF hostVars
    <3>5. Books(win', glob', focus', down')
      BY <1>0, <2>0, <2>1, <3>2 DEF Books
    <3> QED BY <1>0, <2>0, <3>2, <3>4, <3>5, KeysKept
  <2>2. CASE win.mode # "hold"
    <3>1. /\ win' = [win EXCEPT !.latched = ~@]
          /\ calls' = calls \o (IF win.latched THEN Unkey ELSE Key("window"))
      BY <2>0, <2>2 DEF WindowPress, Sent
    <3>2. win' \in Wins /\ win'.held = win.held /\ win'.mode = "toggle" /\ win'.key = win.key
          /\ win'.latched = ~win.latched
      BY <1>0, <2>2, <3>1 DEF Wins
    <3>3. Books(win', glob', focus', down') /\ ~win.held
      BY <1>0, <2>0, <2>2, <3>2 DEF Books
    <3>4. CASE win.latched
      <4>1. Grows(Unkey)
        BY <1>0, <2>0, <3>1, <3>4, GrowsBy DEF hostVars
      <4> QED BY <1>0, <2>0, <3>2, <3>3, <4>1, KeysKept
    <3>5. CASE ~win.latched
      <4>1. Grows(Key("window"))
        BY <1>0, <2>0, <3>1, <3>2, <3>5, GrowsBy DEF hostVars
      <4> QED BY <1>0, <2>0, <3>2, <3>3, <4>1, KeysKept
    <3> QED BY <3>4, <3>5
  <2> QED BY <2>1, <2>2
<1>3. CASE PressButton
  <2>1. /\ calls' = calls \o Read
        /\ UNCHANGED <<platform, down, focus, win, glob, asks, stray, hostVars>>
    BY <1>3 DEF PressButton, Sent, keyVars, panelVars
  <2>2. Grows(Read)
    BY <2>1, GrowsBy DEF hostVars
  <2> QED BY <1>0, <2>1, <2>2, KeysKept
<1> QED BY <1>1, <1>2, <1>3

\* The key comes up, the focus goes, or the limit fires.
LEMMA ReleaseKeeps ==
  ASSUME KeysInv, KeyUp \/ KeyUpReported \/ LosesFocus \/ GainsFocus \/ PollKeyState \/ LimitFires
  PROVE  KeysInv'
<1>0. /\ win \in Wins /\ glob \in Globs
      /\ {"window", "global", "toggle"} \subseteq Who /\ Books(win, glob, focus, down)
      /\ focus \in BOOLEAN /\ down \in HotKeys \cup {Nobody}
  BY DEF KeysInv, PttTypeOK, Wins, Globs, Books, Who
<1>a. /\ AfterRelease(glob) \in Globs /\ ~AfterRelease(glob).down /\ ~AfterRelease(glob).limit
      /\ AfterRelease(glob).hold = glob.hold /\ AfterRelease(glob).armed = glob.armed
  BY <1>0 DEF AfterRelease, Globs
<1>1. CASE KeyUp
  <2>0. /\ down # Nobody /\ down' = Nobody
        /\ win' = (IF focus THEN WindowRelease(down) ELSE win)
        /\ calls' = calls \o (IF focus THEN SaysRelease(down) ELSE NoCall)
        /\ UNCHANGED <<platform, focus, glob, asks, stray, hostVars>>
    BY <1>1 DEF KeyUp, Sent
  <2>1. CASE win.held
    <3>1. EndsHold(down) /\ focus
      BY <1>0, <2>1 DEF Books, EndsHold
    <3>2. win' = [win EXCEPT !.held = FALSE] /\ calls' = calls \o Unkey
      BY <2>0, <3>1 DEF WindowRelease, SaysRelease
    <3>3. /\ win' \in Wins /\ ~win'.held /\ win'.mode = win.mode /\ win'.key = win.key
          /\ win'.latched = win.latched
      BY <1>0, <3>2 DEF Wins
    <3>4. Grows(Unkey)
      BY <1>0, <2>0, <3>2, GrowsBy DEF hostVars
    <3>5. Books(win', glob', focus', down')
      BY <1>0, <2>0, <3>3 DEF Books
    <3> QED BY <1>0, <2>0, <3>3, <3>4, <3>5, KeysKept
  <2>2. CASE ~win.held
    <3>1. win' = win /\ calls' = calls \o NoCall
      BY <2>0, <2>2 DEF WindowRelease, SaysRelease, EndsHold
    <3>2. Grows(NoCall)
      BY <2>0, <3>1, GrowsBy DEF hostVars
    <3>3. Books(win', glob', focus', down')
      BY <1>0, <2>0, <2>2, <3>1 DEF Books
    <3> QED BY <1>0, <2>0, <3>1, <3>2, <3>3, KeysKept
  <2> QED BY <2>1, <2>2
<1>2. CASE KeyUpReported
  <2>0. /\ glob.armed /\ down' = Nobody /\ glob' = [Unregistered EXCEPT !.hold = TRUE]
        /\ calls' = calls \o (IF glob.down THEN Released(TRUE) ELSE NoCall)
        /\ UNCHANGED <<platform, focus, win, asks, stray, hostVars>>
    BY <1>2 DEF KeyUpReported, Sent
  <2>1. CASE glob.down
    <3>1. glob' = [AfterRelease(glob) EXCEPT !.hold = TRUE] /\ calls' = calls \o Unkey
      BY <2>0, <2>1 DEF Unregistered, Released
    <3>2. glob' \in Globs /\ ~glob'.limit /\ glob'.armed
      BY <1>0, <1>a, <2>0, <3>1 DEF Globs
    <3>3. Grows(Unkey)
      BY <1>0, <2>0, <3>1, GrowsBy DEF hostVars
    <3>4. Books(win', glob', focus', down')
      BY <1>0, <2>0, <3>2 DEF Books
    <3> QED BY <1>0, <2>0, <3>2, <3>3, <3>4, KeysKept
  <2>2. CASE ~glob.down
    <3>1. glob' = [glob EXCEPT !.hold = TRUE] /\ calls' = calls \o NoCall
      BY <2>0, <2>2 DEF Unregistered
    <3>2. glob' \in Globs /\ glob'.limit = glob.limit /\ glob'.armed /\ ~glob.limit
      BY <1>0, <2>0, <2>2, <3>1 DEF Globs, Books
    <3>3. Grows(NoCall)
      BY <2>0, <3>1, <3>2, GrowsBy DEF hostVars
    <3>4. Books(win', glob', focus', down')
      BY <1>0, <2>0, <3>2 DEF Books
    <3> QED BY <1>0, <2>0, <3>2, <3>3, <3>4, KeysKept
  <2> QED BY <2>1, <2>2
<1>3. CASE LosesFocus
  <2> DEFINE latch == win.mode = "toggle" /\ win.latched
  <2>0. /\ focus' = FALSE
        /\ win' = [win EXCEPT !.held = FALSE, !.latched = @ /\ ~latch]
        /\ calls' = calls \o ((IF win.held THEN Unkey ELSE NoCall)
                                \o (IF latch THEN Unkey ELSE NoCall))
        /\ UNCHANGED <<platform, down, glob, asks, stray, hostVars>>
    BY <1>3 DEF LosesFocus, Sent
  <2>1. ~(win.held /\ latch)
    BY <1>0 DEF Books, Wins
  <2>2. /\ win' \in Wins /\ ~win'.held /\ win'.mode = win.mode
        /\ win'.latched = (win.latched /\ ~latch) /\ ~(win'.latched /\ win'.mode = "toggle")
    BY <1>0, <2>0 DEF Wins
  <2> HIDE DEF latch
  <2>3. Books(win', glob', focus', down')
    BY <1>0, <2>0, <2>2 DEF Books
  <2>4. Unkey \o <<>> = Unkey /\ <<>> \o Unkey = Unkey
        /\ <<>> \o <<>> = <<>>
    BY DEF Unkey
  <2>5. CASE win.held \/ latch
    <3>1. calls' = calls \o Unkey
      BY <2>0, <2>1, <2>4, <2>5 DEF NoCall
    <3>2. Grows(Unkey)
      BY <1>0, <2>0, <3>1, GrowsBy DEF hostVars
    <3> QED BY <1>0, <2>0, <2>2, <2>3, <3>2, KeysKept
  <2>6. CASE ~win.held /\ ~latch
    <3>1. calls' = calls \o NoCall
      BY <2>0, <2>1, <2>4, <2>6 DEF NoCall
    <3>2. Grows(NoCall)
      BY <2>0, <2>2, <2>6, <3>1, GrowsBy DEF hostVars
    <3> QED BY <1>0, <2>0, <2>2, <2>3, <3>2, KeysKept
  <2> QED BY <2>5, <2>6
<1>4. CASE GainsFocus
  <2>0. focus' = TRUE /\ UNCHANGED <<platform, down, win, glob, calls, asks, stray, hostVars>>
    BY <1>4 DEF GainsFocus, panelVars
  <2>1. calls' = calls \o NoCall
    BY <2>0, NothingKeys DEF KeysInv, PttTypeOK
  <2>2. Grows(NoCall)
    BY <2>0, <2>1, GrowsBy DEF hostVars
  <2>3. Books(win', glob', focus', down')
    BY <1>0, <2>0 DEF Books
  <2> QED BY <1>0, <2>0, <2>2, <2>3, KeysKept
<1>5. CASE PollKeyState
  <2>0. /\ glob' = AfterRelease(glob) /\ calls' = calls \o Released(glob.hold)
        /\ UNCHANGED <<platform, down, focus, win, asks, stray, hostVars>>
    BY <1>5 DEF PollKeyState, Sent, keyVars
  <2>1. Books(win', glob', focus', down')
    BY <1>0, <1>a, <2>0 DEF Books
  <2>2. CASE glob.hold
    <3>1. Grows(Unkey)
      BY <1>0, <2>0, <2>2, GrowsBy DEF hostVars, Released
    <3> QED BY <1>0, <1>a, <2>0, <2>1, <3>1, KeysKept
  <2>3. CASE ~glob.hold
    <3>1. ~glob.limit
      BY <1>0, <2>3 DEF Books
    <3>2. Grows(NoCall)
      BY <2>0, <2>3, <3>1, GrowsBy DEF hostVars, Released
    <3> QED BY <1>0, <1>a, <2>0, <2>1, <3>2, KeysKept
  <2> QED BY <2>2, <2>3
<1>6. CASE LimitFires
  <2>0. /\ glob' = [glob EXCEPT !.limit = FALSE] /\ calls' = calls \o Unkey
        /\ UNCHANGED <<platform, down, focus, win, asks, stray, hostVars>>
    BY <1>6 DEF LimitFires, Sent, keyVars
  <2>1. glob' \in Globs /\ ~glob'.limit /\ glob'.armed = glob.armed
    BY <1>0, <2>0 DEF Globs
  <2>2. Grows(Unkey)
    BY <1>0, <2>0, GrowsBy DEF hostVars
  <2>3. Books(win', glob', focus', down')
    BY <1>0, <2>0, <2>1 DEF Books
  <2> QED BY <1>0, <2>0, <2>1, <2>2, <2>3, KeysKept
<1> QED BY <1>1, <1>2, <1>3, <1>4, <1>5, <1>6

\* A setting is changed while no key is down.
LEMMA SettingKeeps ==
  ASSUME KeysInv, ~Meddles,
         \/ \E k \in HotKeys : setHotkeyIndex(k)
         \/ \E mode \in {"hold", "toggle"} : setHotkeyHold(mode)
  PROVE  KeysInv'
<1>0. /\ win \in Wins /\ glob \in Globs /\ Books(win, glob, focus, down)
      /\ focus \in BOOLEAN /\ down \in HotKeys \cup {Nobody}
  BY DEF KeysInv, PttTypeOK, Wins, Globs, Books
<1>1. ASSUME win' \in Wins, win'.held = win.held, win'.latched = win.latched, glob' \in Globs,
             glob'.limit = glob.limit, ~win.held, focus, ~glob.down,
             calls' = calls \o NoCall, UNCHANGED <<platform, down, focus, asks, stray, hostVars>>
      PROVE  KeysInv'
  <2>1. Books(win', glob', focus', down')
    BY <1>0, <1>1 DEF Books
  <2>2. Grows(NoCall)
    BY <1>1, GrowsBy DEF hostVars
  <2> QED BY <1>0, <1>1, <2>1, <2>2, KeysKept
<1>2. ASSUME NEW k \in HotKeys, setHotkeyIndex(k) PROVE KeysInv'
  <2>0. /\ ~win.held /\ focus /\ ~glob.down /\ win' = [win EXCEPT !.key = k]
        /\ calls' = calls \o Unregisters
        /\ UNCHANGED <<platform, down, focus, asks, stray, hostVars>>
    BY <1>2 DEF setHotkeyIndex, AtRest, Sent, keyVars
  <2>1. PICK ok \in BOOLEAN : glob' = Applied(Unregistered, ok)
    BY <1>2 DEF setHotkeyIndex
  <2>2. Unregistered = glob /\ Unregisters = NoCall
    BY <2>0 DEF Unregistered, Unregisters
  <2>3. glob' \in Globs /\ glob'.limit = glob.limit
    BY <1>0, <2>1, <2>2 DEF Applied, Globs
  <2>4. win' \in Wins /\ win'.held = win.held /\ win'.latched = win.latched
    BY <1>0, <2>0 DEF Wins
  <2> QED BY <1>1, <2>0, <2>2, <2>3, <2>4
<1>3. ASSUME NEW mode \in {"hold", "toggle"}, setHotkeyHold(mode) PROVE KeysInv'
  <2>0. /\ ~win.held /\ focus /\ ~glob.down /\ win' = [win EXCEPT !.mode = mode]
        /\ UNCHANGED <<platform, down, focus, glob, calls, asks, stray, hostVars>>
    BY <1>3 DEF setHotkeyHold, AtRest, keyVars
  <2>1. calls' = calls \o NoCall
    BY <2>0, NothingKeys DEF KeysInv, PttTypeOK
  <2>2. win' \in Wins /\ win'.held = win.held /\ win'.latched = win.latched
    BY <1>0, <2>0 DEF Wins
  <2> QED BY <1>0, <1>1, <2>0, <2>1, <2>2
<1> QED BY <1>2, <1>3

\* A request is served or lost, the host polls, or a read is answered.
LEMMA HostKeeps ==
  ASSUME KeysInv,
         \/ \E i \in 1 .. Len(calls) : CallLeaves(i)
         \/ HostPolls
         \/ \E i \in 1 .. Len(asks) : togglePtt(i)
  PROVE  KeysInv'
<1>0. /\ win \in Wins /\ glob \in Globs /\ Books(win, glob, focus, down)
      /\ focus \in BOOLEAN /\ down \in HotKeys \cup {Nobody} /\ calls \in Seq(Calls)
      /\ asks \in Seq(BOOLEAN) /\ "toggle" \in Who /\ {"window", "global"} \subseteq Who
      /\ "window" # Nobody /\ "global" # Nobody /\ stray \in BOOLEAN
  BY PttAssumption DEF KeysInv, PttTypeOK, Wins, Globs, Books, Who
<1>1. ASSUME NEW i \in 1 .. Len(calls), CallServed(i) PROVE KeysInv'
  <2>0. /\ calls' = RemoveAt(calls, i) /\ stray' = Strays(i)
        /\ UNCHANGED <<platform, down, focus, win, glob, snapTx>>
    BY <1>1 DEF CallServed, keyVars, panelVars
  <2>1. /\ keyed' = CASE calls[i].path = "off" -> Nobody
                     [] calls[i].path = "on" /\ keyed = Nobody -> calls[i].by
                     [] OTHER -> keyed
        /\ asks' = asks \/ asks' = Append(asks, snapTx)
    BY <1>1 DEF CallServed, Obeys
  <2>2. calls[i] \in Calls /\ calls' \in Seq(Calls)
    BY <1>0, <1>1, <2>0, Removed
  <2>3. ASSUME ~stray', NEW w \in {"window", "global"}, Keying(calls', keyed', w)
        PROVE  ~stray /\ Keying(calls, keyed, w)
    <3>1. CASE calls[i].path # "off"
      <4>1. ~stray
        BY <2>0, <2>3, <3>1 DEF Strays
      <4>2. keyed' = keyed \/ (calls[i].path = "on" /\ keyed' = calls[i].by)
        BY <2>1, <3>1
      <4> QED BY <1>0, <2>0, <2>3, <3>1, <4>1, <4>2, LeavesKeys
    <3>2. CASE calls[i].path = "off"
      <4>1. keyed' = Nobody
        BY <2>1, <3>2
      <4>2. \E j \in 1 .. Len(calls) : calls[j].path = "on"
        BY <1>0, <2>0, <2>3, <4>1, NoneKeys
      <4>3. ~stray /\ ~Overtakes(i)
        BY <2>0, <2>3, <3>2, <4>2 DEF Strays
      <4>4. \A j \in 1 .. i - 1 : calls[j].path # "on"
        BY <4>3 DEF Overtakes
      <4> QED BY <1>0, <2>0, <2>3, <3>2, <4>1, <4>3, <4>4, LeavesKeys
    <3> QED BY <3>1, <3>2
  <2>4. keyed' \in Who \cup {Nobody}
    BY <2>1, <2>2 DEF KeysInv, PttTypeOK, Calls
  <2>5. asks' \in Seq(BOOLEAN)
    <3>1. snapTx \in BOOLEAN
      BY DEF KeysInv, PttTypeOK
    <3> QED BY <1>0, <2>1, <3>1
  <2>6. stray' \in BOOLEAN
    BY <1>0, <2>0 DEF Strays, Overtakes
  <2>7. PttTypeOK'
    BY <2>0, <2>2, <2>4, <2>5, <2>6 DEF KeysInv, PttTypeOK
  <2> QED BY <2>0, <2>3, <2>7 DEF KeysInv
<1>2. ASSUME NEW i \in 1 .. Len(calls), CallLost(i) PROVE KeysInv'
  <2>0. /\ calls' = RemoveAt(calls, i) /\ stray' = (stray \/ calls[i].path = "off")
        /\ UNCHANGED <<platform, down, focus, win, glob, asks, keyed, snapTx>>
    BY <1>2 DEF CallLost, keyVars, panelVars, hostVars
  <2>1. calls' \in Seq(Calls) /\ stray' \in BOOLEAN
    BY <1>0, <2>0, Removed
  <2>2. ASSUME ~stray', NEW w \in {"window", "global"}, Keying(calls', keyed', w)
        PROVE  ~stray /\ Keying(calls, keyed, w)
    BY <1>0, <2>0, <2>2, LeavesKeys
  <2>3. PttTypeOK'
    BY <2>0, <2>1 DEF KeysInv, PttTypeOK
  <2> QED BY <2>0, <2>2, <2>3 DEF KeysInv
<1>3. CASE HostPolls
  BY <1>3 DEF HostPolls, KeysInv, PttTypeOK, keyVars, panelVars
<1>4. ASSUME NEW i \in 1 .. Len(asks), togglePtt(i) PROVE KeysInv'
  <2>0. /\ asks' = RemoveAt(asks, i)
        /\ UNCHANGED <<platform, down, focus, win, glob, stray, keyed, snapTx>>
    BY <1>4 DEF togglePtt, keyVars, panelVars, hostVars
  <2>1. /\ calls' \in Seq(Calls)
        /\ \A w \in {"window", "global"} : Keying(calls', keyed, w) => Keying(calls, keyed, w)
    <3>1. calls' = calls \/ calls' = calls \o Unkey \/ calls' = calls \o Key("toggle")
      BY <1>4 DEF togglePtt
    <3>2. calls \o Unkey \in Seq(Calls) /\ \A w : ~Keying(calls \o Unkey, keyed, w)
      BY <1>0, UnkeyEnds
    <3>3. /\ calls \o Key("toggle") \in Seq(Calls)
          /\ \A w \in {"window", "global"} :
               Keying(calls \o Key("toggle"), keyed, w) => Keying(calls, keyed, w)
      BY <1>0, KeyKeys
    <3> QED BY <1>0, <3>1, <3>2, <3>3
  <2>2. asks' \in Seq(BOOLEAN)
    BY <1>0, <2>0, Removed
  <2>3. PttTypeOK'
    BY <2>0, <2>1, <2>2 DEF KeysInv, PttTypeOK
  <2> QED BY <2>0, <2>1, <2>3 DEF KeysInv
<1> QED BY <1>1, <1>2, <1>3, <1>4 DEF CallLeaves

LEMMA KeysInvStays == ASSUME ~Meddles PROVE KeysInv /\ [PttNext]_pttVars => KeysInv'
<1> SUFFICES ASSUME KeysInv, [PttNext]_pttVars PROVE KeysInv'
  OBVIOUS
<1>1. CASE UNCHANGED pttVars
  BY <1>1 DEF KeysInv, PttTypeOK, pttVars, keyVars, panelVars, hostVars
<1>2. CASE PttNext
  BY <1>2, PressKeeps, ReleaseKeeps, SettingKeeps, HostKeeps DEF PttNext
<1> QED BY <1>1, <1>2

LEMMA KeysInvMeans == KeysInv => SomeoneEndsIt
<1> SUFFICES ASSUME KeysInv, calls = <<>>, ~stray
             PROVE  /\ keyed = "window" => win.held \/ win.latched
                    /\ keyed = "global" => glob.limit
  BY DEF SomeoneEndsIt
<1>1. ASSUME NEW w, keyed = w PROVE Keying(calls, keyed, w)
  BY <1>1 DEF Keying
<1> QED BY <1>1 DEF KeysInv

----------------------------------------------------------------------------
(* The panel. *)

\* The types alone do not need the settings to rest.
LEMMA KeysTypedStay == PttTypeOK /\ [PttNext]_pttVars => PttTypeOK'
<1> SUFFICES ASSUME PttTypeOK, [PttNext]_pttVars PROVE PttTypeOK'
  OBVIOUS
<1>0. /\ win \in Wins /\ glob \in Globs /\ win.key \in HotKeys /\ calls \in Seq(Calls)
      /\ asks \in Seq(BOOLEAN) /\ keyed \in Who \cup {Nobody} /\ snapTx \in BOOLEAN
      /\ stray \in BOOLEAN
      /\ focus \in BOOLEAN /\ down \in HotKeys \cup {Nobody}
      /\ platform \in {"windows", "macos", "other"}
  BY DEF PttTypeOK, Wins, Globs
<1>1. ASSUME win' \in Wins, glob' \in Globs, calls' \in Seq(Calls), asks' \in Seq(BOOLEAN),
             keyed' \in Who \cup {Nobody}, snapTx' \in BOOLEAN, stray' \in BOOLEAN,
             focus' \in BOOLEAN,
             down' \in HotKeys \cup {Nobody}, platform' = platform
      PROVE  PttTypeOK'
  BY <1>0, <1>1 DEF PttTypeOK, Wins, Globs
<1>2. /\ \A who \in Who : calls \o Unkey \in Seq(Calls) /\ calls \o Key(who) \in Seq(Calls)
      /\ calls \o NoCall \in Seq(Calls) /\ calls \o Read \in Seq(Calls)
      /\ {"window", "global", "toggle"} \subseteq Who
  BY <1>0, NothingKeys, UnkeyEnds, KeyKeys, ReadKeysNot DEF Who
<1>3. CASE PressAnywhere
  <2>1. glob' \in Globs
    BY <1>0, <1>3 DEF PressAnywhere, Pressed, Globs
  <2>2. calls' \in Seq(Calls)
    BY <1>2, <1>3 DEF PressAnywhere, Pressed, Sent
  <2> QED BY <1>0, <1>1, <1>3, <2>1, <2>2 DEF PressAnywhere, hostVars
<1>4. CASE PressInWindow
  <2>1. win' \in Wins
    BY <1>0, <1>4 DEF PressInWindow, WindowPress, Wins
  <2>2. calls' \in Seq(Calls)
    BY <1>2, <1>4 DEF PressInWindow, WindowPress, Sent
  <2> QED BY <1>0, <1>1, <1>4, <2>1, <2>2 DEF PressInWindow, hostVars
<1>5. CASE KeyUp
  <2>1. win' \in Wins
    BY <1>0, <1>5 DEF KeyUp, WindowRelease, Wins
  <2>2. calls' \in Seq(Calls)
    BY <1>2, <1>5 DEF KeyUp, SaysRelease, Sent
  <2> QED BY <1>0, <1>1, <1>5, <2>1, <2>2 DEF KeyUp, hostVars
<1>a. Unregistered \in Globs /\ AfterRelease(glob) \in Globs
  BY <1>0 DEF Unregistered, AfterRelease, Globs
<1>6. CASE KeyUpReported
  <2>1. glob' \in Globs
    BY <1>6, <1>a DEF KeyUpReported, Globs
  <2>2. calls' \in Seq(Calls)
    BY <1>2, <1>6 DEF KeyUpReported, Released, Sent
  <2> QED BY <1>0, <1>1, <1>6, <2>1, <2>2 DEF KeyUpReported, hostVars
<1>7. CASE LosesFocus
  <2>0. /\ focus' = FALSE /\ UNCHANGED <<platform, down, glob, asks, stray, hostVars>>
        /\ win' = [win EXCEPT !.held = FALSE,
                              !.latched = @ /\ ~(win.mode = "toggle" /\ win.latched)]
    BY <1>7 DEF LosesFocus
  <2>1. win' \in Wins
    BY <1>0, <2>0 DEF Wins
  <2>2. PICK a \in {NoCall, Unkey}, b \in {NoCall, Unkey} :
          calls' = calls \o (a \o b)
    BY <1>7 DEF LosesFocus, Sent
  <2>3. a \in Seq(Calls) /\ b \in Seq(Calls)
    <3>1. [path |-> "off", by |-> "toggle"] \in Calls
      BY DEF Calls, Who
    <3>2. Unkey \in Seq(Calls) /\ NoCall \in Seq(Calls)
      BY <3>1 DEF NoCall, Unkey
    <3> QED BY <2>2, <3>2
  <2>4. calls' \in Seq(Calls)
    BY <1>0, <2>2, <2>3
  <2> QED BY <1>0, <1>1, <2>0, <2>1, <2>4 DEF hostVars
<1>8. CASE GainsFocus
  BY <1>0, <1>1, <1>8 DEF GainsFocus, panelVars, hostVars
<1>9. CASE PressButton
  BY <1>0, <1>1, <1>2, <1>9 DEF PressButton, Sent, keyVars, panelVars, hostVars
<1>10. ASSUME NEW k \in HotKeys, setHotkeyIndex(k) PROVE PttTypeOK'
  <2>1. glob' \in Globs
    BY <1>10, <1>a DEF setHotkeyIndex, Applied, Globs
  <2>2. win' \in Wins
    BY <1>0, <1>10 DEF setHotkeyIndex, Wins
  <2>3. calls' \in Seq(Calls)
    BY <1>2, <1>10 DEF setHotkeyIndex, Unregisters, Released, Sent
  <2> QED BY <1>0, <1>1, <1>10, <2>1, <2>2, <2>3 DEF setHotkeyIndex, keyVars, hostVars
<1>11. ASSUME NEW mode \in {"hold", "toggle"}, setHotkeyHold(mode) PROVE PttTypeOK'
  <2>1. win' \in Wins
    BY <1>0, <1>11 DEF setHotkeyHold, Wins
  <2> QED BY <1>0, <1>1, <1>11, <2>1 DEF setHotkeyHold, keyVars, hostVars
<1>12. CASE PollKeyState
  <2>1. calls' \in Seq(Calls)
    BY <1>2, <1>12 DEF PollKeyState, Released, Sent
  <2> QED BY <1>0, <1>1, <1>12, <1>a, <2>1 DEF PollKeyState, keyVars, hostVars
<1>13. CASE LimitFires
  <2>1. glob' \in Globs
    BY <1>0, <1>13 DEF LimitFires, Globs
  <2> QED BY <1>0, <1>1, <1>2, <1>13, <2>1 DEF LimitFires, Sent, keyVars, hostVars
<1>14. ASSUME NEW i \in 1 .. Len(calls), CallLeaves(i) PROVE PttTypeOK'
  <2>1. calls[i] \in Calls /\ calls' \in Seq(Calls)
    BY <1>0, <1>14, Removed DEF CallLeaves, CallServed, CallLost
  <2>2. keyed' \in Who \cup {Nobody}
    BY <1>0, <1>14, <2>1 DEF CallLeaves, CallServed, CallLost, Obeys, Calls, hostVars
  <2>3. asks' = asks \/ asks' = Append(asks, snapTx)
    BY <1>14 DEF CallLeaves, CallServed, CallLost, Obeys
  <2>4. asks' \in Seq(BOOLEAN)
    BY <1>0, <2>3
  <2>5. stray' \in BOOLEAN
    BY <1>0, <1>14 DEF CallLeaves, CallServed, CallLost, Strays, Overtakes
  <2> QED BY <1>0, <1>1, <1>14, <2>1, <2>2, <2>4, <2>5
          DEF CallLeaves, CallServed, CallLost, keyVars, panelVars, hostVars
<1>15. CASE HostPolls
  BY <1>0, <1>1, <1>15 DEF HostPolls, keyVars, panelVars
<1>16. ASSUME NEW i \in 1 .. Len(asks), togglePtt(i) PROVE PttTypeOK'
  <2>1. calls' = calls \/ calls' = calls \o Unkey \/ calls' = calls \o Key("toggle")
    BY <1>16 DEF togglePtt
  <2>2. calls' \in Seq(Calls)
    BY <1>0, <1>2, <2>1
  <2>3. asks' \in Seq(BOOLEAN)
    BY <1>0, <1>16, Removed DEF togglePtt
  <2> QED BY <1>0, <1>1, <1>16, <2>2, <2>3 DEF togglePtt, keyVars, panelVars, hostVars
<1>17. CASE UNCHANGED pttVars
  BY <1>17 DEF PttTypeOK, pttVars, keyVars, panelVars, hostVars
<1> QED
  BY <1>3, <1>4, <1>5, <1>6, <1>7, <1>8, <1>9, <1>10, <1>11, <1>12, <1>13, <1>14, <1>15,
     <1>16, <1>17 DEF PttNext

\* Either side of the panel keeps its own part, and the other one rests.
ClientInv == DriveInv /\ PttTypeOK /\ (~Meddles => KeysInv)

\* What a behaviour of the panel keeps throughout.
THEOREM ClientInvariant == ClientSpec => []ClientInv
<1>1. ClientInit => ClientInv
  BY DriveInvStarts, KeysInvStarts DEF ClientInit, ClientInv, KeysInv
<1>2. ClientInv /\ [ClientNext]_clientVars => ClientInv'
  <2> SUFFICES ASSUME ClientInv, [ClientNext]_clientVars PROVE ClientInv'
    OBVIOUS
  <2>1. [PttNext]_pttVars /\ [DriveNext]_driveVars
    BY DEF ClientNext, clientVars
  <2> QED BY <2>1, DriveInvStays, KeysTypedStay, KeysInvStays DEF ClientInv
<1> QED BY <1>1, <1>2, PTL DEF ClientSpec

\* Both parts of the panel keep to their types, whatever is changed meanwhile.
THEOREM ClientTypeCorrect == ClientSpec => []ClientTypeOK
<1>1. ClientInv => ClientTypeOK
  BY DriveInvMeans DEF ClientInv, ClientTypeOK
<1> QED BY <1>1, ClientInvariant, PTL

\* While the PTT settings rest under a finger, and until an unkey has been lost
\* or has overtaken its key, a carrier one of the two keys put up always has
\* somebody in the panel who means to end it, for any keys and any number of
\* requests in flight, in whatever order they are served.
THEOREM CarriersHaveAnEnd == ASSUME ~Meddles PROVE ClientSpec => []SomeoneEndsIt
<1>1. ClientInv => SomeoneEndsIt
  BY KeysInvMeans DEF ClientInv
<1> QED BY <1>1, ClientInvariant, PTL

\* While gain and arming rest during a sweep, a test gives back what the
\* operator had chosen, a link opened outside a sweep sends the chosen source and
\* no other when the sweeps are over, and the audio follows the rig, for any
\* ladder, any gains, any number of tests and of links lost.
THEOREM AudioIsAsChosen == ASSUME ~Fiddles PROVE ClientSpec => []AudioAsChosen
<1>1. ClientInv => AudioAsChosen
  BY DriveInvMeans DEF ClientInv
<1> QED BY <1>1, ClientInvariant, PTL

\* A sweep's carrier that outlives its unkey has been said to, whatever the
\* operator does meanwhile.
THEOREM SweepsLeaveNoCarrier == ClientSpec => []LeftUnkeyedOrTold
<1>1. ClientInv => LeftUnkeyedOrTold
  BY DriveInvMeans DEF ClientInv
<1> QED BY <1>1, ClientInvariant, PTL
=============================================================================
