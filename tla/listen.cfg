SPECIFICATION FairSpec
CONSTANTS
  Devices = {d1, d2}
  Subs = {1, 2}
  Subscribe = {d1}
  Procs = {p1, p2}
  Drivers = {1, 2, 3}
  MaxGen = 4
  MaxRecv = 1
  Budgets <- ListenBudgets
INVARIANTS
  TypeOK
  InStep
  Unsubscribed
  NamedRight
PROPERTIES
  ServedAgain
  KeepsConnection
CHECK_DEADLOCK FALSE
