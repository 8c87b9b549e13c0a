SPECIFICATION Spec
CONSTANTS
  Configs <- LiveConfigs
  WedgeAfter = 0
  MinGap = 1
  PauseTicks = 0
  Attempts = 1
  Faults = {"freeze", "drop", "refuse", "crash"}
PROPERTIES
  PowerComesBack
  ServiceResumes
  StopCompletes
