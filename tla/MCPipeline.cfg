CONSTANTS
  top = top
  inner = inner
  beside = beside
  other = other
  x = x
  y = y
  bad = bad
  fixed = fixed
  older = older
  absent = absent
  torn = torn
  none = none
  Absent = absent
  Torn = torn
  NoUnit = none
  Units <- MCUnits
  Sources <- MCSources
  Dir <- MCDir
  Contents <- MCContents
  Hosts <- MCHosts
  GoodSources <- MCGood
  Offers <- MCOffers
  MaxRetries = 3
  DepGraphs <- MCGraphs
SPECIFICATION Spec
INVARIANTS
  TypeOK
  DependenciesFirst
  HostAccountsForRepairs
  ExitCodeAccounts
PROPERTIES
  BuiltUnitsBuild
  Exits
