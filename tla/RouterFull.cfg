CONSTANTS
  Preferred = "html"
  Chain <- KindsChain
  UrlsOf <- KindsUrls
  Urls = {"sitemap", "home"}
  StartUrl = "home"
  SeededPaths = {}
  RobotsFiles <- KindsRobots
  Matches <- MCMatches
  Replies <- FewReplies
  OpenAtFirst <- HtmlOpen
  MaxAdapterRetries = 1
  FailureThreshold = 1
  MaxRuns = 1
  Nodes <- DirectOnly
  DirectNodes = {"direct"}
  Region <- MCRegion
  GlobalMode = "direct"
  Policy <- SeededPolicy
  NoRegion = ""
  MaxLoad = 1
SPECIFICATION FairSpec
INVARIANTS AskBudget SlotReturned
PROPERTIES RunEnds
CHECK_DEADLOCK FALSE
