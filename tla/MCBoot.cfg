SPECIFICATION Spec
CONSTANTS
  SECTOR = 2
  FAT_PER_SECTOR = 6
  EOC = 50
  LOADER_KERNEL_PHYS_BASE = 72
  LOADER_END = 66
  LOADER_PAGE = 4
  PAGE_SIZE = 4
  RAM_BASE = 64
  RAM_DIRECTMAP_SIZE = 64
  HH_BASE = 1024
  PMM_METADATA_PAGES = 1
  PLATFORM_MAX_RANGES = 4
  BITMAP_PAGES = 16
  RAM_BLOCK_SIZE = 16
  L1_BLOCK_SIZE = 64
  L1_ENTRIES = 4
  MAX_L2_TABLES = 2
  MAX_L3_TABLES = 3
  UART_PA = 9
  CELL = 100
  MAX_DEPTH = 4
  COLLECT_DEPTH = 6
  DTB_MAX_MEMORY_RANGES = 3
  DTB_MAX_RESERVED_RANGES = 3
  VIRTIO_RANGES = 2
  BucketSizes <- MCBucketSizes
  OBJ_SIZE = 2
  OBJ_ALIGN = 1
  Sizes = {1, 2, 4}
  Counts = {1, 2}
  MaxLive = 3
  SectionPages <- MCSectionPages
  RunPages = 4
  Disks <- MCDisks
  Blobs <- MCBlobs
INVARIANTS
  
  
  UsableIsExact
  
  PageCountExact
  EveryPageHasOneOwner
  AllocationsDisjoint
CHECK_DEADLOCK FALSE
