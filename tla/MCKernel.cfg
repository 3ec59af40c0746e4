SPECIFICATION KernelFairSpec
CONSTANTS
  MaxPid = 3
  MaxDelay = 1
  Terminals <- OneTerminal
  ExitStatuses <- OneStatus
  PAGE_TABLE_LEN = 16
  KERNEL_STACK_BASE = 15
  MEM_INVALID_PAGES = 1
  NumFrames = 32
  MaxKernelBrk = 31
  KernelHeapEnd = 30
  UnclearedMarks <- NoMarks
  IdleProgram <- Small
  Programs <- OneProgram
  MaxCalls = 4
  Growths = {0, 1}
  BrkPages = {1, 2, 4}
  AccessPages = {1, 13}
INVARIANTS
  SpacesMatch
  ReleasedBeforeUser
  OnlyMemoryStops
PROPERTIES
  MemoryIsBoots
  ExitedIsReleased
