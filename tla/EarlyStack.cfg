CONSTANTS
  Collectors = {c1}
  Days = {1, 2}
  Ranges <- MCRanges
  Ladder <- MCLadder
  Type <- MCType
  EnabledSources = {"duffel"}
  KillSwitch = {}
  RobotsFiles = {"ALLOWED"}
  Environments <- MCEnvironments
  Hashes = {0}
  Simulated <- MCSimulated
  Fares <- MCFares
  MaxRuns <- MCMaxRuns
  Statutory <- MCStatutory
  Fee = 100
  FareFloor <- MCFloor
  FareCeiling <- MCCeiling
  ApwWindows = {1, 7}
  TukeyK = 1
  RouteWeight <- MCRouteWeight
  CarrierWeight <- MCCarrierWeight
  Omega <- MCOmega
  Level <- MCLevel
  Unpinned = 0
  Method <- MCMethod
  MinOmega = 60
  MonthOf <- MCMonthOf
  MinMonths = 1
  MinObservations = 2
  Indexers = {i1, i2}
  MaxIndexRuns = 2
  MaxLoads = 1
SPECIFICATION Spec
INVARIANTS ServedLabelled
SYMMETRY IndexersAlike
CHECK_DEADLOCK FALSE
