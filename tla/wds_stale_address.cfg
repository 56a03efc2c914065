CONSTANTS
  Slots = {"sim0"}
  InitialProfiles <- ImsFirst
  MaxProfiles = 2
  MaxLinks = 2
  IpLen = 3
  IpAddrs <- TwoLengths
  InitialBuffer <- ZeroedBuffer
  MaxOutstanding = 1
  MaxActivations = 2
  Prompt = TRUE
  Faults = {}
SPECIFICATION Spec
PROPERTY AnnouncesGrantedAddress
CHECK_DEADLOCK FALSE
