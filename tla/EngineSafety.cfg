SPECIFICATION Spec
CONSTANTS
  w1 = w1  w2 = w2  w3 = w3  a = a  b = b  c = c  d = d  x = x  h1 = h1  h2 = h2
  Worker <- ThreeWorkers
  URL <- URLs
  Host <- Hosts
  HostOf <- OnTwoHosts
  Seed = a
  InScope <- Local
  Links <- Diamond
  Outcome <- SomeFail
  RobotsBlocked = {d}
  SitemapLocs <- SomeLocs
  MaxDepth = 2
  MaxPages = 2
  MaxFrontierSize = 2
  PerHost = 1
  MaxRetries = 1
  HasDeadline = TRUE
  CallerMayCancel = TRUE
  DiscoverOpenAPI = TRUE
  SpecSizes = {0, 2}
SYMMETRY WorkerSymmetry
INVARIANTS TypeOK PendingAccounting DrainedMeansIdle SlotsAccounted OneRecordPerURL PageBudgetExact RequestsBalance SeedingNeverBlocks 
PROPERTY QuietAfterJoin
