CONSTANTS
  c1 = c1
  c2 = c2
  Collectors = {c1, c2}
  Days = {1, 2}
  Ranges <- MCRanges
  Ladder <- MCLadder
  Type <- MCType
  EnabledSources = {"duffel", "indigo_page"}
  KillSwitch = {}
  RobotsFiles = {"ALLOWED"}
  Environments <- MCEnvironments
  Hashes = {0}
  Simulated <- MCSimulated
  Fares <- MCFares
  MaxRuns <- MCMaxRuns
  Statutory <- MCStatutory
  Fee = 0
  FareFloor <- MCFloor
  FareCeiling <- MCCeiling
  ApwWindows = {1}
  TukeyK = 3
SPECIFICATION CollectionSpec
INVARIANTS LedgerHonest QuotesTraced
CHECK_DEADLOCK FALSE
