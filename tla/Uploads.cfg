CONSTANTS
  Name = {"a", "b"}
  Axis = {"X", "Y"}
  Size = 1
  Absent = Absent
  Garbled = Garbled
  NaN = NaN
  LongName = "long"
  Archives <- MCArchives
  MaxListed = 2
  Guid = {"pla"}
  BadGuid = "bad"
  NozzleText <- MCNozzles
  MaxRequests = 3
  MaxStops = 1
SPECIFICATION UploadsSpec
INVARIANTS  PrintedFits
CHECK_DEADLOCK FALSE
