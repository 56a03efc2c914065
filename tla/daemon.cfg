SPECIFICATION Spec
CONSTANTS
  Instances = {a, b, c}
  Inodes = {i, j}
  NoInode = NoInode
  Cleared = TRUE
  Unasked <- AllButTwo
  Untracked <- OnlyImss
INVARIANTS
  DaemonInv
  OneInstance
PROPERTIES
  RefusedOnlyByTheLiving
  CrashesOnlyBeforeClients
CHECK_DEADLOCK FALSE
