SPECIFICATION FairSpec
CONSTANTS
  None = None
  Events = {e1, e2}
  Provided = {e1}
  Contents = {c1}
  Processes = {p1, p2}
  WorkerId <- MCWorkerId
  Lease = 1
  MaxClock = 2
INVARIANT
  LeaseIsExclusive
PROPERTIES
  AckedByHolder
  SettledIsFinal
  EventuallyAcked
