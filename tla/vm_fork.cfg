\* Fork, copy on write and release, until memory runs out, also while a
\* fork clones the mmap area.
SPECIFICATION Spec
CONSTANTS
  PROC_MAX = 2
  MMAP_END = 2
  TABLE_SPAN = 1
  IMAGE_TABLES = 3
  PROC_VMA_MAX = 2
  RAM = 12
  Value = {0, 1}
  Protections <- JustWritable
  CachesTranslations = FALSE
INVARIANTS CountsMatchMappings SharedIsReadOnly
PROPERTIES ImplementsPrivateMemory
VIEW UpToFrames
