CONSTANTS
  Preferred = "html"
  Chain <- HttpChain
  UrlsOf <- HttpUrls
  Urls = {"home", "route"}
  StartUrl = "home"
  SeededPaths = {}
  RobotsFiles <- HttpRobots
  Matches <- MCMatches
  Replies <- MoreReplies
  OpenAtFirst <- NoneOpen
  MaxAdapterRetries = 1
  FailureThreshold = 2
  MaxRuns = 2
  Nodes <- ProxiesFirst
  DirectNodes = {"direct"}
  Region <- MCRegion
  GlobalMode = "proxy_pool"
  Policy <- StickyPolicy
  NoRegion = ""
  MaxLoad = 1
SPECIFICATION Spec
INVARIANTS RefusalRestricts
PROPERTIES NoContactAfterRefusal LimitBacksOff EgressForNetworkOnly BreakerTrips FailoverMoves ListedStays
CHECK_DEADLOCK FALSE
