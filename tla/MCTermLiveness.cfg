SPECIFICATION TermFairSpec
CONSTANTS
  MaxPid = 3
  MaxDelay = 0
  Terminals <- OneTerminal
  ExitStatuses <- NoStatus
  TERMINAL_MAX_LINE = 1
  InputLines <- EmptyLine
  OutputTexts <- OneText
  ReadLengths = {1}
  InitialCounts = {0}
  MaxTransmissions = 3
INVARIANTS
  OneWriterTransmitting
  WaitingWriterHasWaker
PROPERTIES
  WaitingWriterIsWoken
  WriterIsUnmarked
