CONSTANTS
  Workers = {w1, w2}
  Clients = {c1}
  Jobs = {1, 2, 3}
  s1 = s1
  s2 = s2
  Sources = {s1}
  SourceOf <- OneSource
  Limit = 2
  Live = TRUE
  MaxRollbacks = 1
  NoSession = NoSession
  NoJob = NoJob
  NoLink = NoLink
SPECIFICATION FairSpec
INVARIANTS TypeOK ExclusiveClaim NoLostReservation QuotaHeld
PROPERTIES BlockedStops Settled AtomicSpec EveryJobSettles
CHECK_DEADLOCK FALSE
