SPECIFICATION Spec
CONSTANTS
  Clients = {c1, c2}
  Callers = {r1}
  Alerts = {a1}
  Series = {s1}
  SocketLines = 1
  MaxWrites = 2
  MaxCommands = 1
SYMMETRY ClientSymmetry
INVARIANTS
  TypeOK
  TailExact
  AlertsReachAll
  NoGhosts
