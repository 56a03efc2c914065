CONSTANTS
  Clients = {c1, c2}
  MaxSimSlots = 2
  Sequences32 <- SmallSequences
  Instances = {3}
  TransactionIds = {1}
  Addresses = {"10.0.0.1"}
  MaxIndications = 2
  Absent = Absent
  NoRequest = NoRequest
SPECIFICATION Spec
INVARIANTS TypeOK IndicatesWhatItAnswered IndicatesOwnRequestOnceAllActive
PROPERTY FreshTransactionIds
SYMMETRY ClientSymmetry
