CONSTANTS
  Slots = {"sim0"}
  InitialProfiles <- ImsFirst
  MaxProfiles = 1
  MaxLinks = 1
  IpLen = 3
  IpAddrs <- OneAddress
  InitialBuffer <- ZeroedBuffer
  MaxOutstanding = 2
  MaxActivations = 1
  Prompt = FALSE
  Faults = {"bind", "start_noreply", "start_executed_noreply", "start_call_failed", "start_error", "settings_error"}
SPECIFICATION Spec
INVARIANT StagesInOrder
PROPERTY ImplementsBearer
CHECK_DEADLOCK FALSE
