SPECIFICATION NetSpec
CONSTANTS
  MaxTaps = 4
  MaxTroubles = 1
INVARIANTS EthernetIsWhole
PROPERTIES ReportedIsInForce AddressConverges
CHECK_DEADLOCK FALSE
