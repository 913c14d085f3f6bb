SPECIFICATION FairSpec
CONSTANTS
  d1 = d1
  d2 = d2
  None = None
  Unlimited = Unlimited
  Deploys = {d1, d2}
  ConfigOf <- MCConfigOf
  Reports <- MCReports
  Registries <- MCRegistries
  Base = base
  Attempts = 2
  MaxChanges = 2
INVARIANTS
  OnlyScannedImagesServe
  PromotesItsOwnBuild
  RolledBackIsNeverReported
PROPERTY
  EveryDeploymentEnds
CHECK_DEADLOCK FALSE
