SPECIFICATION Spec
CONSTANTS
  Devices <- All
  Stops = {0, 100}
  Payloads = {"OPEN", "STOP"}
  Handlers = {"h1"}
  MaxLoads = 1
  MaxWire = 2
  Faults = {"remote", "timeout", "reject"}
INVARIANT
  CommandsMeanWhatTheySay
PROPERTY
  BlindPositionHeals
