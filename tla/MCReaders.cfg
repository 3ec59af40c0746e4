SPECIFICATION TurnSpec
CONSTANTS
  MaxPid = 3
  MaxDelay = 0
  Terminals <- OneTerminal
  ExitStatuses <- NoStatus
  TERMINAL_MAX_LINE = 2
  InputLines <- EmptyLine
  OutputTexts <- OneText
  ReadLengths = {1, 2}
  InitialCounts <- UnsetCounts
  MaxTransmissions = 1
INVARIANTS
  UnstoredOnlyFromMalloc
  IdleYieldsSoon
  WaitIsWokenByReport
