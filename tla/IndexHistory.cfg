CONSTANTS
  Days = {1, 2, 3}
  Products <- MCProducts
  RouteWeight <- MCRouteWeight
  CarrierWeight <- MCCarrierWeight
  Omega <- MCOmega
  Level <- MCLevel
  Hundred <- MCHundred
  Unpinned = 0
  Whole <- MCWhole
  Captures <- MCCaptures
  KnownAirports = {"DEL", "BOM", "BLR"}
  KnownCarriers = {"6E", "AI"}
  Ends <- MCEnds
  FareCeiling = 500000
  TukeyK = 3
  HampelZ = 51891
  LogOf <- MCLogOf
  Methods <- MCMethods
SPECIFICATION Spec
INVARIANTS AggregatesAgree EnginesAgree
PROPERTIES BaseStays PastStands
CHECK_DEADLOCK FALSE
