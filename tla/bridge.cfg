SPECIFICATION Spec
CONSTANTS
  Covers = {"c1"}
  Updaters = {"reader"}
  MaxJobs = 2
  MaxOutages = 1
INVARIANTS
  TypeOK
  OfflineIsMeant
  PlugEndsOn
  DiscoveryIsCleared
  AvailabilityIsWithdrawn
  MapIsExclusive

  
CHECK_DEADLOCK FALSE
