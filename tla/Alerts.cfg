SPECIFICATION Spec
CONSTANTS
  btc = btc
  cpu = cpu
  low = low
  high = high
  Series = {btc, cpu}
  Values = {low, high}
  Conditions <- MCConditions
  Defaults <- MCDefaults
  IdMod = 3
  Cooldown = 2
  MaxHistory = 2
  Faults = {"open", "write", "read"}
  MaxTime = 2
  MaxFired = 3
INVARIANTS
  TypeOK
  RulesOnDisk
  CooldownHolds
