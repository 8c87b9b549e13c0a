SPECIFICATION Spec
CONSTANTS
  Traffic <- Scenarios
  MaxRead = 4096
  Covers = {1, 2}
INVARIANTS
  DeliveredAsMeant
  NothingHeldBack
  
CHECK_DEADLOCK FALSE
