SPECIFICATION LinkSpec
CONSTANTS
  Window = 2
  Modulo = 4
  ResendLimit = 1
  Command = {"G1", "G28"}
  Barrier = {"G28"}
  MaxFree = 1
  MaxSends = 7
  StreamWindow = 2
  ProtoErrors = {TRUE, FALSE}
  MaxDamaged = 2
  MaxLost = 1
  MaxClears = 1
INVARIANTS LookupSound ResendRunUnbroken AcknowledgedWereExecuted ExecutedInOrder AcksAreAnswerable
CHECK_DEADLOCK FALSE
