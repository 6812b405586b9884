\* A reliable line and no late requests: the stale snapshot alone.
SPECIFICATION HostSpec
CONSTANTS
  Freqs = {1}
  Requests <- PttRequests
  LateRequests = {}
  Limit = 0
  MaxGap = 1
  FullEvery = 1
  MaxQueue = 2
  Callers = 1
  Horizon = 0
  HandMic = FALSE
  LossyReads = FALSE
  MissedPolls = FALSE
  LossyWrites = FALSE
  BoundedDrain = TRUE
INVARIANTS NoCarrierLeft
\* The process ends.
CHECK_DEADLOCK FALSE
