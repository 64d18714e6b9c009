SPECIFICATION ScreensSpec
CONSTANTS
  StackMax = 8
  MaxTour = 1
  MaxJobs = 2
  MaxFaults = 1
INVARIANTS HeaterIsLeftOff
PROPERTIES MacrosInOrder LevelMoveEnds
CHECK_DEADLOCK FALSE
