SPECIFICATION Spec
CONSTANTS
  Configs <- SoftConfigs
  WedgeAfter = 0
  MinGap = 0
  PauseTicks = 0
  Attempts = 1
  Faults = {"freeze"}
PROPERTY
  DeadGatewayShownOffline
