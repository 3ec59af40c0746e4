SPECIFICATION TermSpec
CONSTANTS
  MaxPid = 2
  MaxDelay = 0
  Terminals <- TwoTerminals
  ExitStatuses <- NoStatus
  TERMINAL_MAX_LINE = 2
  InputLines <- NoText
  OutputTexts <- OneText
  ReadLengths = {1}
  InitialCounts = {0}
  MaxTransmissions = 2
INVARIANT
  OneTransmission
