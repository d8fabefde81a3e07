SPECIFICATION LiveSpec
CONSTANTS
  BufSize = 7
  ReadSize = 2
  Small = 3
  Mid = 6
  RowCounts = {0, 1, 3}
  MaxCommands = 2
  MaxAlerts = 1
  MaxPings = 1
CHECK_DEADLOCK FALSE
INVARIANTS
  WireFramed
  CommandsIntact
  AnswerExact

  
