SPECIFICATION Spec
CONSTANTS
  Callers = {c1}
  c1 = c1
  c2 = c2
  MaxConns = 2
  MaxQueue = 2
  MaxSid = 2
PROPERTIES
  CallsEndWithConnection
  LossIsNoticed
