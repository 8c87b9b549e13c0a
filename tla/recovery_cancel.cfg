SPECIFICATION SafetySpec
CONSTANTS
  Configs <- HealthConfigs
  WedgeAfter = 1
  MinGap = 2
  PauseTicks = 1
  Attempts = 2
  Faults = {"freeze", "sigterm"}
INVARIANT
  CancelRestoresPower
