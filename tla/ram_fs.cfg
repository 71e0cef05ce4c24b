\* Two processes with one descriptor each, on two inodes of two bytes.
SPECIFICATION FsSpec
CONSTANTS
  PROC_MAX = 2
  FD_MAX = 1
  RAMFS_MAX_FILES = 2
  RAMFS_DATA_MAX = 2
  a = a
  b = b
  c = c
  Name <- ThreeNames
  README = a
  OpenFlags <- FourFlags
  Data = {1}
  MaxLen = 2
INVARIANTS NamesAreUnique DescriptorsAreLive
PROPERTIES ImplementsFileStore
VIEW WithoutUnused
SYMMETRY NameSymmetry
