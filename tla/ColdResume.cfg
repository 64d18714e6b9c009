SPECIFICATION ServiceSpec
CONSTANTS
  StreamWindow = 4
  PollTicks = 2
  JobTargets <- NoTargets
  BodyText <- HeatedBody
  ManualGcode <- NoGcode
  MacroFile <- NoMacros
  MaxLines = 1
  MaxCommands = 3
  FaultLine <- ThermalFault
  MaxFaults = 0
  MaxGarbled = 0
  MaxResyncs = 0
  MaxUnsent = 0
PROPERTIES ResumeFailsClosed
