SPECIFICATION ProcFairSpec
CONSTANTS
  MaxPid = 4
  MaxDelay = 2
  Terminals <- OneTerminal
  ExitStatuses <- OneStatus
INVARIANTS
  TypeOK
  NoLostProcess
  ParentAlive
  ChildCountExact
  WaitIsWokenByReport
  ReportsInOrder
  WaitReturnsOwnChild
  ExitingIsFreedFirst
  HaltsOnlyWithLastExit
  RunningIsReady
PROPERTIES
  ImplementsLifecycle
  ReadyRuns
  DelayEnds
  ReportIsCollected
