SPECIFICATION FairServiceSpec
CONSTANTS
  StreamWindow = 2
  PollTicks = 2
  JobTargets <- HeadOnly
  BodyText <- HeatedBody
  ManualGcode <- WaitingGcode
  MacroFile <- WaitingMacro
  MaxLines = 1
  MaxCommands = 2
  FaultLine <- ThermalFault
  MaxFaults = 0
  MaxGarbled = 0
  MaxResyncs = 1
  MaxUnsent = 1
PROPERTIES AbortCompletes PauseSettles JobProgresses
