\* Both tuners, started, stopped and overlapped at any time, with polls that
\* fail; and one tune at a time from a current cache.
SPECIFICATION FairSpec
CONSTANTS
  Used = {"amp", "tgxl"}
  Homes <- MCHomes
  Regimes <- MCRegimes
  MaxQueue = 2
INVARIANTS LeftUnkeyed NoTunedOver PutBack
PROPERTY CarrierGoes
