SPECIFICATION RigSpec
CONSTANTS
  Freqs = {1, 2}
  Requests <- PanelRequests
  LateRequests = {}
  Limit = 2
  MaxGap = 2
  FullEvery = 3
  MaxQueue = 2
  Callers = 1
  Horizon = 10
  HandMic = TRUE
  LossyReads = TRUE
  MissedPolls = TRUE
  LossyWrites = TRUE
  BoundedDrain = TRUE
INVARIANTS CarrierBounded NoHalfApplied RereadOnSchedule ConfirmedIsOff
PROPERTIES ServesInOrder UnkeyServed ShutdownEnds
\* The process ends, or the poll thread is stopped for good.
CHECK_DEADLOCK FALSE
