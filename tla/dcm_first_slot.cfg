CONSTANTS
  Clients = {"c1"}
  MaxSimSlots = 2
  Sequences32 <- SmallSequences
  Instances = {1, 2}
  TransactionIds = {1}
  Addresses = {"10.0.0.1"}
  MaxIndications = 3
  Absent = Absent
  NoRequest = NoRequest
SPECIFICATION Spec
INVARIANT IndicatesOwnRequest
