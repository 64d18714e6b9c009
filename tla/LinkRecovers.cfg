SPECIFICATION LinkFairSpec
CONSTANTS
  Window = 2
  Modulo = 4
  ResendLimit = 1
  Command = {"G1"}
  Barrier = {}
  MaxFree = 1
  MaxSends = 6
  StreamWindow = 2
  ProtoErrors = {FALSE}
  MaxDamaged = 1
  MaxLost = 0
  MaxClears = 0
PROPERTIES EverySentExecuted
CHECK_DEADLOCK FALSE
