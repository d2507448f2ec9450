CONSTANTS
  e1 = e1
  e2 = e2
  src = src
  out = out
  old = old
  fixed = fixed
  built = built
  absent = absent
  torn = torn
  linked = linked
  nopath = nopath
  Absent = absent
  Torn = torn
  Linked = linked
  NoPath = nopath
  Envs <- MCOneEnv
  Paths <- MCPaths
  Contents <- MCContents
  InitialLower <- MCLower
  BuildWrites <- MCBuild
  Patches <- MCPatches
SPECIFICATION Spec
PROPERTY
  BuildIsolation
