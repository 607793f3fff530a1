CONSTANTS
  NoType <- Unknown
  points <- MCPoints
  RootModule <- MCRoot
  worlds <- MCTransitive
  MaxBytesEagerness = 8
  BlankNode <- MCBlank
SPECIFICATION WSpec
INVARIANTS
  WovenAsIfUnfiltered
