\* Every order of four details, the list and the selection, with every error.
SPECIFICATION FairSpec
CONSTANTS
  Configs <- FourConfigs
  Zeroed = TRUE
  Faults = {"list", "info", "selected", "set_selected", "activate"}
INVARIANTS
  IndInv
  SelectedWhenComplete
  CrashesOnlyWithoutList
PROPERTIES
  ActivatedUnlessRefused
\* The system stops: everything is asked for once.
CHECK_DEADLOCK FALSE
