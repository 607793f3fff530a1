CONSTANTS
  NoType = NoType
  points <- MCPoints
  RootModule = app
  configs <- MCConfigs
  packages <- MCPackages
  nameOrder <- MCOrder
  tools = {compile, link}
  compiler = compile
  initialDisks <- MCDisks
  sources <- MCSources
  binaries <- MCBinaries
  MaxEdits = 1
SPECIFICATION Spec
INVARIANTS
  CacheIsFresh
  SuffixIsStable
