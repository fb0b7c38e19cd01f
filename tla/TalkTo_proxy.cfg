SPECIFICATION Spec
CONSTANTS
  Heights = {0, 3}
  InRoom = 1
  OutRoom = 1
  Echo = 1
  MaxPresses = 3
  Budgets <- MCBudgets
CHECK_DEADLOCK FALSE
INVARIANTS
  TypeOK
  InjectedInOrder
  KeysKeepOut
PROPERTIES
  LoopGoesOn
  SizeTracked
  TriggersSent
  Relinks
