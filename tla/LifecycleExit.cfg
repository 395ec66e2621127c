SPECIFICATION TimedSpec
CONSTANTS
  Order <- InOut
  Inputs = {"in"}
  Workers = {"w1"}
  Cap = 1
  MaxEvents = 2
  MaxReloads = 1
PROPERTY Exits
CHECK_DEADLOCK FALSE
