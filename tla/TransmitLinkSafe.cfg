SPECIFICATION LinkSpec
CONSTANTS
  c1 = c1
  c2 = c2
  ann = ann
  bob = bob
  None = None
  Conns = {c1, c2}
  Users = {ann, bob}
  UserOf <- TwoOperators
  Denied = {}
  Asked = {"key", "unkey", "remote"}
  Tunes = TRUE
  Timeout = 1
  MaxGap = 1
  MaxQueue = 1
INVARIANTS HolderIsConnected DeadCarrierBounded
PROPERTIES HandedBack
