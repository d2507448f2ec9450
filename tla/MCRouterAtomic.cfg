CONSTANTS
  src = src
  lib = lib
  out = out
  bad = bad
  fixed = fixed
  worse = worse
  built = built
  absent = absent
  torn = torn
  linked = linked
  nopath = nopath
  Absent = absent
  Torn = torn
  Linked = linked
  NoPath = nopath
  Envs <- MCEnvs
  Paths <- MCPaths
  Contents <- MCContents
  InitialLower <- MCLower
  BuildWrites <- MCBuild
  MaxRetries = 2
  Threshold = 0
  Penalties <- MCPenalties
  CandidateLists <- MCCandidates
  Sources <- MCSources
  GoodSources <- MCGood
SPECIFICATION Spec
INVARIANT
  FailedRepairLeavesHost
