SPECIFICATION Spec
CONSTANTS
  MaxTlvs = 3
  Lengths = {0, 1, 4}
  Ids = {2, 16, 18}
  ResultCodes = {0, 1, 3}
  Capacity = 18
  Messages <- AllMessages
INVARIANT ReturnsTellTheMessage
PROPERTY ImplementsRecordWalk
CHECK_DEADLOCK FALSE
