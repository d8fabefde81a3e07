SPECIFICATION LiveSpec
CONSTANTS
  Clients = {c1}
  Callers = {r1}
  Alerts = {a1}
  Series = {s1, s2}
  SocketLines = 1
  MaxWrites = 2
  MaxCommands = 2
INVARIANTS
  RepliesInOrder
PROPERTIES
  CallsReturn
  LeavesLists
