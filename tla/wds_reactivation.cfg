CONSTANTS
  Slots = {"sim0"}
  InitialProfiles <- OtherProfile
  MaxProfiles = 2
  MaxLinks = 2
  IpLen = 3
  IpAddrs <- OneAddress
  InitialBuffer <- ZeroedBuffer
  MaxOutstanding = 1
  MaxActivations = 2
  Prompt = FALSE
  Faults = {"early_activation", "allocate", "list", "profile_settings", "create", "create_lost", "link", "bind", "start_noreply", "start_executed_noreply", "start_call_failed", "start_error", "settings_noreply", "settings_error", "settings_incomplete"}
SPECIFICATION Spec
INVARIANTS OneIndicationPerActivation OneLinkPerActivation IndInv
CHECK_DEADLOCK FALSE
