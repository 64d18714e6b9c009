SPECIFICATION ClientsSpec
CONSTANTS
  Job = {"a", "b"}
  Conflicting = {"a"}
  UsbJob = {"b"}
  MaxActions = 2
  MaxFaults = 1
INVARIANTS RecordHasFile HistoryIsOfPrints IdleIsNoticed
CHECK_DEADLOCK FALSE
