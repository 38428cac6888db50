SPECIFICATION FairSpec
CONSTANTS
  Reserved <- ReservedLabels
  Infrastructure <- InfrastructureLabels
  Networks <- RolloutNetworks
  Envs <- RolloutEnvs
  MaxMishaps = 1
  MaxInterruptions = 1
  MaxGenerations = 3
CHECK_DEADLOCK FALSE

INVARIANT FinishedIsWired
INVARIANT GrantIsTemporary
INVARIANT HandedOverNamesResolve
PROPERTY AddressesAreStable
PROPERTY SafeToRerun
PROPERTY Completes
