\* Two readings and a post that may come late; a dial with two bands and a
\* spot next to one of them, over six cycles of half a second.
SPECIFICATION Spec
CONSTANTS
  Empty = Empty
  Keys = {a, b}
  Settle = 1
  Heartbeat = 2
  MaxGhosts = 1
  Freqs = {0, 2, 3, 9}
  Bands <- MCBands
  kQsyThreshold = 2
  Modes = {usb}
  NoName = NoName
  PerSecond = 2
  MaxClock = 6
INVARIANTS StandsDown PublishedIsThere
PROPERTIES LogCatchesUp StatsAreTrue
