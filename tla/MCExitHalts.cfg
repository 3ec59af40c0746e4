SPECIFICATION BootSpec
CONSTANTS
  PAGE_TABLE_LEN = 16
  KERNEL_STACK_BASE = 15
  MEM_INVALID_PAGES = 1
  NumFrames = 32
  UserPids = {1, 2, 3}
  MaxKernelBrk = 31
  KernelHeapEnd = 30
  UnclearedMarks <- NoMarks
  IdleProgram <- Small
  Programs <- TwoPrograms
  MaxCalls = 5
  Growths = {0}
  BrkPages = {1, 2, 4}
  AccessPages = {1, 13, 16}
INVARIANT
  OnlyIdleStackIsRefused
