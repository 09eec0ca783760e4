SPECIFICATION Spec
CONSTANTS
  w1 = w1  w2 = w2  w3 = w3  a = a  b = b  c = c  d = d  x = x  h1 = h1  h2 = h2
  Worker <- OneWorker
  URL <- URLs
  Host <- Hosts
  HostOf <- OnTwoHosts
  Seed = a
  InScope <- URLs
  Links <- TwoWays
  Outcome <- OneFails
  RobotsBlocked = {}
  SitemapLocs <- OneLoc
  MaxDepth = 2
  MaxPages = 0
  MaxFrontierSize = 4
  PerHost = 1
  MaxRetries = 1
  HasDeadline = TRUE
  CallerMayCancel = FALSE
  DiscoverOpenAPI = FALSE
  SpecSizes = {}
INVARIANTS DepthLimitIsBFS ReportedDepthIsDistance
