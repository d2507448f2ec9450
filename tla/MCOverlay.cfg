CONSTANTS
  e1 = e1
  e2 = e2
  src = src
  out = out
  old = old
  fixed = fixed
  built = built
  absent = absent
  torn = torn
  linked = linked
  nopath = nopath
  Absent = absent
  Torn = torn
  Linked = linked
  NoPath = nopath
  Envs <- MCEnvs
  Paths <- MCPaths
  Contents <- MCContents
  InitialLower <- MCLower
  BuildWrites <- MCBuild
  Patches <- MCPatches
SYMMETRY Symmetry
SPECIFICATION Spec
INVARIANTS
  TypeOK
  TornFileRecoverable
PROPERTIES
  MergedShowsLayers
  EngineKeepsLower
  NoPatchLost
