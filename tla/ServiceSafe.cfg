SPECIFICATION ServiceSpec
CONSTANTS
  StreamWindow = 2
  PollTicks = 2
  JobTargets <- NoTargets
  BodyText <- HeatedBody
  ManualGcode <- CoolingGcode
  MacroFile <- Releases
  MaxLines = 1
  MaxCommands = 3
  FaultLine <- ThermalFault
  MaxFaults = 1
  MaxGarbled = 1
  MaxResyncs = 0
  MaxUnsent = 0
INVARIANTS ServiceTypeOK OneLifecycle PausedIsStill FatalFaultAborts
PROPERTIES AbortEndsCold PausePositionFresh ResumeWaitsForHeat ImplementsLifecycle
