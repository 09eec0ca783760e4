SPECIFICATION HeadlessSpec
CONSTANTS
  w1 = w1  w2 = w2  h1 = h1  h2 = h2
  Worker <- TwoWorkers
  Host <- TwoHosts
  PerHost = 1
  Policies = {"default", "legacy"}
  MaxRetries = 1
  BaseDelay = 1
  MaxDelay = 2
  FlatDelay = 1
  Status = {200, 429}
  RetryAfter = {0}
  MaxRedirects = 2
  SourceMaps = TRUE
  MayCancel = TRUE
  Jobs = 1
  Renderers = {TRUE, FALSE}
  PoolSize = 1
INVARIANTS TokensMatchGates SlotWhileInFlight RetriesReported RequestsBounded TabsInUseBounded
PROPERTY FetchReturns
