CONSTANTS
  InitialProfiles <- ImsFirst
  MaxProfiles = 1
  MaxLinks = 2
  IpLen = 3
  IpAddrs <- TwoAddresses
  InitialBuffer <- ZeroedBuffer
  MaxOutstanding = 1
  MaxActivations = 1
  Prompt = TRUE
  Faults = {}
  Clients = {"c1"}
  MaxSimSlots = 2
  Slots = {0, 1}
  Sequences32 = {1}
  Instances = {}
  TransactionIds = {1}
  RequestSlots = {0, 1}
  Absent = Absent
  NoRequest = NoRequest
SPECIFICATION ImsFairSpec
PROPERTIES IndicatesGrantedAddress ImplementsPdpService ActivationIsIndicated
CHECK_DEADLOCK FALSE
