SPECIFICATION FairSpec
CONSTANTS
  Dirs = {1, 2}
  Names = {f}
  MaxVersion = 2
  Size <- MCSize
  MaxIds = 8
  MaxEdits = 2
  MaxTroubles = 2
CONSTRAINT
  Telling
INVARIANTS
  TypeOK
  MappingsSound
  
PROPERTIES
  FullSyncRepairs
  
CHECK_DEADLOCK FALSE
