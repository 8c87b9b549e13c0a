SPECIFICATION SafetySpec
CONSTANTS
  Devices <- Awnings
  Stops = {0, 100}
  Payloads = {"CLOSE", "ON", "OFF"}
  Handlers = {"h1"}
  MaxLoads = 2
  MaxWire = 2
  Faults = {"drop", "vague"}
INVARIANTS
  TypeOK
  
  CommandsMeanWhatTheySay
