SPECIFICATION TermSpec
CONSTANTS
  MaxPid = 2
  MaxDelay = 0
  Terminals <- OneTerminal
  ExitStatuses <- NoStatus
  TERMINAL_MAX_LINE = 4
  InputLines <- TwoLines
  OutputTexts <- NoText
  ReadLengths = {4}
  InitialCounts = {0}
  MaxTransmissions = 1
INVARIANT
  ReadsWhatIsUnread
