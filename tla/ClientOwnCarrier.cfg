\* The drive test next to another panel's over.
SPECIFICATION OwnSpec
CONSTANTS
  Silent = Silent
  Steps = 2
  OpGains = {50}
  Fiddles = FALSE
  VoiceTicks = 2
  MaxTests = 1
PROPERTIES OwnCarrierOnly
