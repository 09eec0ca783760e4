SPECIFICATION Spec
CONSTANTS
  w1 = w1  w2 = w2  w3 = w3  a = a  b = b  c = c  d = d  x = x  h1 = h1  h2 = h2
  Worker <- TwoWorkers
  URL <- URLs
  Host <- Hosts
  HostOf <- OnTwoHosts
  Seed = a
  InScope <- URLs
  Links <- Bushy
  Outcome <- AllOK
  RobotsBlocked = {}
  SitemapLocs <- NoLocs
  MaxDepth = 2
  MaxPages = 0
  MaxFrontierSize = 1
  PerHost = 2
  MaxRetries = 0
  HasDeadline = FALSE
  CallerMayCancel = FALSE
  DiscoverOpenAPI = FALSE
  SpecSizes = {}
PROPERTY RunTerminates
CHECK_DEADLOCK FALSE
