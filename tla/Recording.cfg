\* Automatic recording on, three frequencies a threshold apart, a ceiling.
SPECIFICATION Spec
CONSTANTS
  Freqs = {1, 2, 3}
  Enabled = TRUE
  Idle = 1
  Threshold = 1
  Ceiling = 1
  MaxGap = 1
INVARIANTS OversBracketed AutoEnds
