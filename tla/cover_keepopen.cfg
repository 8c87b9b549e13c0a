SPECIFICATION SafetySpec
CONSTANTS
  Devices <- Shutters
  Stops = {0, 100}
  Payloads = {"SET", "ON", "OFF"}
  Handlers = {"h1"}
  MaxLoads = 2
  MaxWire = 2
  Faults = {}
INVARIANTS
  KeepOpenIsShown
