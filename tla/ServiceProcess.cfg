CONSTANTS
  Environments <- MCEnvironments
  i1 = i1
  Identities = {i1}
  Limit = 2
  Window = 3
  MaxAttempts = 4
  InitialDelay = 1
  MaxDelay = 3
  MaxTime = 5
  MaxRestarts = 1
  MaxRefused = 1
SPECIFICATION FairSpec
INVARIANTS
  ServiceTypeOK
  ServesOnlyReady
  GivesUpOnlyAfterBackoff
  BurstIsBounded
PROPERTIES
  PreflightTellsTruth
  StartupEnds
  RefusalIsEarned
