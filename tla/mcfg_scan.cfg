SPECIFICATION Spec
CONSTANTS
  NoName = NoName
  Name = Name
  Names = {NoName, Name}
  MAX_FOOTER_SECTIONS = 2
  MaxItems = 2
  MaxSections = 3
  Directories <- AllDirectories
INVARIANTS ScanInv EntriesTellTheirFiles BuffersInUse SizesSurviveTheWrap CrashesOverTheFile
PROPERTIES ImplementsItemWalk ImplementsSectionWalk
CHECK_DEADLOCK FALSE
