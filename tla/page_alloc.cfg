SPECIFICATION Spec
CONSTANTS
  managed_page_count = 6
  PAGE_SIZE = 28
  ADDRESSES = 192
  MaxPages = 6
  MaxShare = 2
INVARIANTS RunsAreMaximal PagesAreAccounted MetadataIsSeparate NoPanic
PROPERTIES ImplementsPool
