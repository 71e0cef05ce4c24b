SPECIFICATION Ext4FairSpec
CONSTANTS
  Caller = {p, q}
  BLK_REQ_MAX = 1
  Sector <- MCSector
  MaxErrors = 1
  Disk <- MCDisk
  Blank <- MCBlank
  SECTORS = 2
  InodesPerGroup = 4
  InodesPerSector = 2
  GdsPerSector = 1
  EXT4_MAX_ROOT_ENTRIES = 2
  Length = {3}
  Files <- MCFiles
  RootNames <- MCRootNames
INVARIANTS SlotsAreOwned  
 
CHECK_DEADLOCK FALSE
