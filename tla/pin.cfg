\* The processes are interchangeable.
SYMMETRY MCSymmetry
CONSTANTS
  Pinners = {p1, p2, p3}
  None = None
  kinds <- MCKinds
  orchestrion = "orchestrion"
  instrument = "instrument"
  tracerV1 = "v1"
  tracerV2 = "v2"
  tracerV2All = "all"
  provider <- MCProvider
  configured = {"all", "x"}
  sourceImports = {"x"}
  toolFiles <- MCToolFiles
  goMods <- MCGoMods
  latest <- MCLatest
  shipped = 3
  MinV1 = 2
  MinV2 = 2
  MinGo = 23
  needs <- MCNeeds
  localToolchain = 26
  MaxVersion = 24
SPECIFICATION Spec
INVARIANTS
  StaysPinned
  LeavesGoModTidy
  ToolchainIsRestored
