SPECIFICATION Spec
CONSTANTS
  c1 = c1  c2 = c2  h1 = h1  star = star  bot = bot
  Caller <- TwoCallers
  Host <- OneHost
  Agent <- Agents
  Star = star
  UserAgent = bot
  Path <- Paths
  Files <- AllFiles
  Calls = 1
SYMMETRY RobotsSymmetry
INVARIANTS VerdictFollowsFile OneFetchPerHost
