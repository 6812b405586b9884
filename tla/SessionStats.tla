---------------------------- MODULE SessionStats ----------------------------
(***************************************************************************)
(* What the session has done (src/src/session_stats.cpp): time, moves and  *)
(* keyed time, counted from what each poll cycle observes and read by      *)
(* /api/session/stats.  Each operation holds mu_, so each is one action.   *)
(*                                                                         *)
(* Time is counted in milliseconds there and in 1/PerSecond here; both     *)
(* reports are truncated to seconds.  The maps of visits are kept as their *)
(* totals.                                                                 *)
(***************************************************************************)
EXTENDS Naturals

CONSTANTS
  Freqs,         \* what the dial may read, 0 for no reading
  Bands,         \* kBands: a function of a band's name to its two ends
  kQsyThreshold,
  Modes,
  NoName,        \* an empty band or mode
  PerSecond,
  MaxClock       \* bound on the time observed

VARIABLES
  clock,
  due,           \* a poll cycle has not been observed yet
  stats          \* the members of SessionStats

statsVars == <<clock, due, stats>>

Distance(m, n) == IF m < n THEN n - m ELSE m - n

ASSUME StatsAssumption ==
  /\ Freqs \subseteq Nat /\ kQsyThreshold \in Nat \ {0}
  /\ NoName \notin DOMAIN Bands \cup Modes
  /\ \A b \in DOMAIN Bands : Bands[b] \in [lo : Nat, hi : Nat] /\ Bands[b].lo > 0
  /\ \A b, c \in DOMAIN Bands : b # c =>
       \A f \in Bands[b].lo .. Bands[b].hi, g \in Bands[c].lo .. Bands[c].hi :
         Distance(f, g) >= 2 * kQsyThreshold
  /\ PerSecond \in Nat \ {0} /\ MaxClock \in Nat

StatsTypeOK ==
  /\ clock \in 0 .. MaxClock /\ due \in BOOLEAN
  /\ {stats.start, stats.txTime, stats.txStarted} \subseteq 0 .. clock
  /\ {stats.qsy, stats.tx, stats.bands, stats.modes} \subseteq 0 .. MaxClock
  /\ {stats.prevTick, stats.lastQsy} \subseteq Freqs \cup {0}
  /\ stats.lastTx \in BOOLEAN
  /\ stats.lastBand \in DOMAIN Bands \cup {NoName} /\ stats.lastMode \in Modes \cup {NoName}

----------------------------------------------------------------------------
(* Observe, part by part. *)

BandFor(f) ==
  LET in == {b \in DOMAIN Bands : Bands[b].lo <= f /\ f <= Bands[b].hi}
  IN  IF in = {} THEN NoName ELSE CHOOSE b \in in : TRUE

\* The edges of the key, as the rig reports it.
Keyed(s, tx) ==
  IF tx /\ ~s.lastTx THEN [s EXCEPT !.tx = @ + 1, !.txStarted = clock, !.lastTx = TRUE]
  ELSE IF s.lastTx /\ ~tx
       THEN [s EXCEPT !.txTime = @ + (clock - s.txStarted), !.lastTx = FALSE] ELSE s

Moved(s, f) ==
  IF s.lastQsy = 0 THEN [s EXCEPT !.lastQsy = f]
  ELSE IF Distance(f, s.lastQsy) >= kQsyThreshold
       THEN [s EXCEPT !.qsy = @ + 1, !.lastQsy = f] ELSE s

Visited(s, f) ==
  IF BandFor(f) \notin {NoName, s.lastBand}
  THEN [s EXCEPT !.bands = @ + 1, !.lastBand = BandFor(f)] ELSE s

\* Moves and bands are counted on a frequency two cycles have seen.
Settled(s, f) == IF f = s.prevTick THEN Visited(Moved(s, f), f) ELSE s

ModeSeen(s, mode) ==
  IF mode \notin {NoName, s.lastMode}
  THEN [s EXCEPT !.modes = @ + 1, !.lastMode = mode] ELSE s

\* Mutant: no answer is read as not transmitting.
ObserveGapUnkeyed ==
  /\ due /\ due' = FALSE
  /\ stats' = [stats EXCEPT !.prevTick = 0, !.lastTx = FALSE]
  /\ UNCHANGED clock

\* A cycle with no answer.
ObserveGap ==
  /\ due /\ due' = FALSE
  /\ stats' = [stats EXCEPT !.prevTick = 0]
  /\ UNCHANGED clock

ObserveRig ==
  /\ due /\ due' = FALSE
  /\ \E f \in Freqs, mode \in Modes \cup {NoName}, tx \in BOOLEAN :
       stats' = IF f = 0 THEN Keyed(stats, tx)
                ELSE ModeSeen([Settled(Keyed(stats, tx), f) EXCEPT !.prevTick = f], mode)
  /\ UNCHANGED clock

\* /api/session/reset, in an over or not.
Reset ==
  /\ stats' = [start |-> clock, qsy |-> 0, tx |-> 0, txTime |-> 0, prevTick |-> 0,
               lastQsy |-> 0, lastTx |-> stats.lastTx,
               txStarted |-> IF stats.lastTx THEN clock ELSE stats.txStarted,
               lastBand |-> NoName, lastMode |-> NoName, bands |-> 0, modes |-> 0]
  /\ UNCHANGED <<clock, due>>

CycleEnds ==
  /\ clock < MaxClock /\ ~due
  /\ clock' = clock + 1 /\ due' = TRUE
  /\ UNCHANGED stats

StatsInit ==
  /\ clock = 0 /\ due = FALSE
  /\ stats = [start |-> 0, qsy |-> 0, tx |-> 0, txTime |-> 0, prevTick |-> 0,
              lastQsy |-> 0, lastTx |-> FALSE, txStarted |-> 0,
              lastBand |-> NoName, lastMode |-> NoName, bands |-> 0, modes |-> 0]

StatsNext == ObserveGap \/ ObserveRig \/ Reset \/ CycleEnds

----------------------------------------------------------------------------
(* Get. *)

SessionSeconds == (clock - stats.start) \div PerSecond

\* The over in progress is included.
TxSeconds ==
  (stats.txTime + IF stats.lastTx THEN clock - stats.txStarted ELSE 0) \div PerSecond

TxWithinSession == TxSeconds <= SessionSeconds
VisitsAreMoves == stats.bands <= stats.qsy + 1

\* What a panel is told adds up.  There is never more keyed time than session,
\* whatever over a reset cut in two; keyed time goes back at a reset only, not
\* at the end of an over and not when a cycle goes unanswered in the middle of
\* one; and but for the first there are no more visits to bands than moves,
\* however far the dial was spun to get there.
StatsAreTrue ==
  /\ []TxWithinSession
  /\ [][~Reset => TxSeconds' >= TxSeconds]_statsVars
  /\ []VisitsAreMoves
=============================================================================
