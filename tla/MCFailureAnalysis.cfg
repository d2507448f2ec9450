CONSTANTS
  noName = noName
  broken = broken
  noManifest = noManifest
  nan = nan
  posInf = posInf
  negInf = negInf
  noNode = noNode
  noFile = noFile
  NoName = noName
  Broken = broken
  NoManifest = noManifest
  NaN = nan
  PosInf = posInf
  NegInf = negInf
  NoNode = noNode
  NoFile = noFile
  Trees <- MCTrees
  Languages <- MCLanguages
  Hidden <- MCHidden
  Vectors <- MCVectors
  MaxFloat = 1000
  MaxChanged = 2
  Committed <- MCCommitted
  Top <- Root
  Templates <- MCTemplates
  Prints <- MCPrints
SPECIFICATION Spec
INVARIANTS
  GraphWellFormed
  GraphOfManifests
  DistancesShortest
  RootCauseIsStrongest
  PatchRestoresNamedFile
