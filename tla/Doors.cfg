\* One logger against the poll thread, three commands, two answers late; nine
\* desks of routes, two clients, three presses.  A panel without a request and
\* a proxy that has stopped do stop, hence no deadlock check.
SPECIFICATION DoorsSpec
CONSTANTS
  Commands = {"RM4", "RM5", "FA", "TX1"}
  Queries = {"RM4", "RM5", "FA"}
  Verb <- MCVerb
  Absent = Absent
  MaxOwed = 2
  Loggers = {l1}
  PollQueries = {"FA"}
  Wanted = {"RM4", "RM5", "TX1"}
  MaxSent = 2
  Clients = {"ann", "bob"}
  Trusted = {"bob"}
  Desks <- MCDesks
  Loud = 3
  MaxJobs = 3
  MaxPresses = 3
INVARIANTS DoorsTypeOK ReplyIsOwn ServedInOrder PanelKeepsWord
PROPERTIES StopJoins LockHolds RightToTransmit UnkeyIsObeyed
CHECK_DEADLOCK FALSE
