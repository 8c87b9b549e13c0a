SPECIFICATION SafetySpec
CONSTANTS
  Configs <- MixedConfigs
  WedgeAfter = 1
  MinGap = 2
  PauseTicks = 1
  Attempts = 2
  Faults = {"freeze", "drop", "refuse", "slowBoot", "crash", "sigterm"}
INVARIANTS
  TypeOK
  OneRecoveryAtATime
  DialFromCleanSlate
  HeartbeatPaused
  DarkOnlyMidCycle
  OfflineIsRemembered
  ExitIsClean
PROPERTY
  PlugIsRespected
