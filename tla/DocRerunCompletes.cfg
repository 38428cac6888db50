SPECIFICATION FairSpec
CONSTANTS
  Reserved <- ReservedLabels
  Infrastructure <- InfrastructureLabels
  Networks <- UpToOwnedResolver
  Envs <- GoodEnvs
  MaxMishaps = 1
  MaxInterruptions = 1
  MaxGenerations = 3
CHECK_DEADLOCK FALSE

PROPERTY RerunCompletes
