CONSTANTS
  Workers = {w1, w2}
  Clients = {}
  Jobs = {1, 2, 3}
  s1 = s1
  s2 = s2
  Sources = {s1, s2}
  SourceOf <- TwoSources
  Limit = 1
  Live = TRUE
  MaxRollbacks = 0
  NoSession = NoSession
  NoJob = NoJob
  NoLink = NoLink
SPECIFICATION Spec
INVARIANTS ChainLinear
CHECK_DEADLOCK FALSE
