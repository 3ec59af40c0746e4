SPECIFICATION TermSpec
CONSTANTS
  MaxPid = 3
  MaxDelay = 0
  Terminals <- TwoTerminals
  ExitStatuses <- NoStatus
  TERMINAL_MAX_LINE = 1
  InputLines <- NoText
  OutputTexts <- OneText
  ReadLengths = {1}
  InitialCounts = {0}
  MaxTransmissions = 2
INVARIANTS
  TermTypeOK
  OneWriterTransmitting
  HaltsOnlyWithLastExit
