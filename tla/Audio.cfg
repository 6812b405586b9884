\* Two operators who come and go, and frames with no claim behind them, on a
\* device that starts at 2 chunks; two listeners.  Capture may end, hence no deadlock check.
SPECIFICATION Spec
CONSTANTS
  None = None
  Nothing = Nothing
  Operators = {ann, bob}
  Floor = 2
  Start = 2
  Ceil = 4
  Grow = 2
  Decay = 1
  Capacity = 5
  Buffer = 3
  Threshold = 2
  MaxChunks = 4
  MaxQueue = 6
  Clients = {c1, c2}
  Chunks = {x, y}
  Config = config
  Max = 2
PROPERTIES TxInOrder RxInOrder NeverSilent NeverDeaf
CHECK_DEADLOCK FALSE
