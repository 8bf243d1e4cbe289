CONSTANTS
  Workers = {worker}
  Requests = {request}
  Boots = {api}
  Versions = {1, 2}
  MaxRuns = 2
  MaxRollbacks = 1
  NoSession = NoSession
  NoRow = NoRow
  NoRun = NoRun
SPECIFICATION FairSpec
INVARIANTS TypeOK LineageResolves ServedWhole KnownRunSuperseded RunsDecided ConflictOnce
PROPERTIES EveryPublicationEnds
CHECK_DEADLOCK FALSE
