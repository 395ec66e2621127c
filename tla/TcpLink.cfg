SPECIFICATION Spec
CONSTANTS
  NumRecords = 2
  RecLen = 2
  Window = 3
  MaxConns = 4
  MaxFaults = 2
  MaxInterval = 3
INVARIANTS TypeOK HandedOverOnce OnlyFirstTorn SenderGoesOn EventsHaveInputs
PROPERTIES AllHandedOver
