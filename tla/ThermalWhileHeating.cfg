SPECIFICATION ServiceSpec
CONSTANTS
  StreamWindow = 2
  PollTicks = 2
  JobTargets <- NoTargets
  BodyText <- HeatedBody
  ManualGcode <- NoGcode
  MacroFile <- NoMacros
  MaxLines = 2
  MaxCommands = 1
  FaultLine <- ThermalFault
  MaxFaults = 1
  MaxGarbled = 0
  MaxResyncs = 0
  MaxUnsent = 0
INVARIANTS AnyFatalFaultAborts
