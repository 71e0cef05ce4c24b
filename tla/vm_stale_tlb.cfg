\* The hart keeps translations that fork has made read-only.
SPECIFICATION Spec
CONSTANTS
  PROC_MAX = 2
  MMAP_END = 1
  TABLE_SPAN = 1
  IMAGE_TABLES = 3
  PROC_VMA_MAX = 2
  RAM = 10
  Value = {0}
  Protections <- JustWritable
  CachesTranslations = TRUE
INVARIANTS TlbIsPrivate
