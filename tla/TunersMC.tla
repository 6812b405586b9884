------------------------------ MODULE TunersMC ------------------------------
(***************************************************************************)
(* A small instance of Tuners for TLC, under two regimes: both tuners,     *)
(* started, stopped and overlapped at any time, with polls that fail, on a *)
(* host whose sleeps outlast a poll cycle; and one tune at a time, started *)
(* when the cache is up to date, with sleeps of any length.                *)
(***************************************************************************)
EXTENDS Tuners

Sideband == [power |-> 50, mode |-> ModeCode("USB")]
Low      == [power |-> 5, mode |-> ModeCode("LSB")]
\* A home whose mode a tune does not change: fewer states where settings are
\* not the question.
CwHome   == [power |-> AfterPower, mode |-> ModeCode("CW")]

MCHomes == {Sideband, Low, CwHome}

MCRegimes == {
  [lossyReads |-> TRUE, calm |-> FALSE, overlap |-> TRUE, settles |-> TRUE,
   homes |-> {CwHome}],
  [lossyReads |-> FALSE, calm |-> TRUE, overlap |-> FALSE, settles |-> FALSE,
   homes |-> {Sideband, Low}] }

\* Threads run; every wait of a worker is bounded (kOverallLimitMs,
\* kCarrierMs, the connect and read timeouts).  Fairness is strong because the
\* bound on the queue, which the code does not have, must starve no worker.
FairSpec ==
  /\ Spec
  /\ WF_vars(Undisturbed /\ Poller /\ UNCHANGED regime)
  /\ \A t \in Used : SF_vars(Undisturbed /\ Worker(t) /\ UNCHANGED regime)
=============================================================================
