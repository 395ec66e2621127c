SPECIFICATION Spec
CONSTANTS
  Order <- InOut
  Inputs = {"in"}
  Workers = {"w1", "w2"}
  Cap = 1
  MaxEvents = 2
  MaxReloads = 2
INVARIANT QuietAtSave
PROPERTIES OrderlyExit ReloadHonoured
CHECK_DEADLOCK FALSE
