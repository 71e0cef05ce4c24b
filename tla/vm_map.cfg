\* mmap, munmap and exec of one process: VMAs are cut, split and run out.
SPECIFICATION Spec
CONSTANTS
  PROC_MAX = 1
  MMAP_END = 4
  TABLE_SPAN = 4
  IMAGE_TABLES = 3
  PROC_VMA_MAX = 3
  RAM = 8
  Value = {0}
  Protections <- ReadOnlyOrWritable
  CachesTranslations = FALSE
INVARIANTS PointerCheckIsExact MappedIsCovered CountsMatchMappings
PROPERTIES MunmapIsExact
