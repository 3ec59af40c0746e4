SPECIFICATION TermSpec
CONSTANTS
  MaxPid = 3
  MaxDelay = 0
  Terminals <- OneTerminal
  ExitStatuses <- NoStatus
  TERMINAL_MAX_LINE = 4
  InputLines <- OneLine
  OutputTexts <- NoText
  ReadLengths = {1, 3}
  InitialCounts = {0}
  MaxTransmissions = 1
INVARIANT
  ReadersWaitForALine
