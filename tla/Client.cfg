\* One key, since it is chosen anew only at rest; two presses in flight; a ladder
\* of two steps, two tests.
SPECIFICATION ClientSpec
CONSTANTS
  HotKeys = {k1}
  Nobody = Nobody
  Meddles = FALSE
  MaxCalls = 2
  Silent = Silent
  Steps = 2
  OpGains = {50}
  Fiddles = FALSE
  VoiceTicks = 2
  MaxTests = 2
INVARIANTS SomeoneEndsIt AudioAsChosen LeftUnkeyedOrTold
PROPERTIES KeysEnd TestsEnd
