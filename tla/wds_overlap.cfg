CONSTANTS
  Slots = {"sim0"}
  InitialProfiles <- NoProfiles
  MaxProfiles = 2
  MaxLinks = 1
  IpLen = 3
  IpAddrs <- OneAddress
  InitialBuffer <- ZeroedBuffer
  MaxOutstanding = 2
  MaxActivations = 1
  Prompt = FALSE
  Faults = {}
SPECIFICATION FairSpec
PROPERTY ActivationIsAnnounced
CHECK_DEADLOCK FALSE
