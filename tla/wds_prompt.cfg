CONSTANTS
  Slots = {"sim0", "sim1"}
  InitialProfiles <- OtherProfile
  MaxProfiles = 3
  MaxLinks = 2
  IpLen = 3
  IpAddrs <- OneAddress
  InitialBuffer <- ZeroedBuffer
  MaxOutstanding = 1
  MaxActivations = 1
  Prompt = TRUE
  Faults = {"list", "profile_settings", "create", "bind", "start_noreply", "start_executed_noreply", "start_call_failed", "settings_incomplete"}
SPECIFICATION FairSpec
INVARIANT NetworkOnImsProfile
PROPERTIES AnnouncesLiveNetwork ActivationIsAnnounced
CHECK_DEADLOCK FALSE
