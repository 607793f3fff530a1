CONSTANTS
  NoType <- Unknown
  points <- MCPoints
  RootModule <- MCRoot
  worlds <- MCWorlds
  MaxBytesEagerness = 8
  BlankNode <- MCBlank
SPECIFICATION WSpec
INVARIANTS
  WovenAsIfUnfiltered
  EachNodeOnce
  InjectedNamesResolve
  InjectedIsHashed
  LangCoversWoven
