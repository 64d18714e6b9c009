SPECIFICATION WebSpec
CONSTANTS
  Client = {"cura"}
  Password = {"pw"}
  MaxTokens = 2
  MaxNonces = 2
  Fd = {1, 2, 3}
  MaxSseClients = 2
  MaxHeaders = 2
  MaxRequests = 3
  MaxFaults = 2
INVARIANTS EventsGoToListeners RefusalHasAWayIn ProtectionPersists NewestAreKept
PROPERTIES ListenerIsClosed
CHECK_DEADLOCK FALSE
