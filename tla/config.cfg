CONSTANTS
  worlds <- MCWorlds
  BuiltIn <- Orchestrion
SPECIFICATION CSpec
INVARIANTS
  ErrorsAreExact
  LoadIsExact
  DependenciesFirst
  NoReentry
