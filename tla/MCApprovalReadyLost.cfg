SPECIFICATION FairSpec
CONSTANTS
  Commands = {c1}
  Requests = {r1, r2, r3}
  NoCall = NoCall
  MaxClock = 0
PROPERTY
  ReadyIsAnnounced
CHECK_DEADLOCK FALSE
