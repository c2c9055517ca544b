SPECIFICATION Spec
CONSTANTS
  Person = {1, 2, 3, 4}
  Group = {1, 2}
  ListOf <- MCListOf
  Scale = 6
  Total = {2, 1001}
  Typed <- MCTyped
CHECK_DEADLOCK FALSE
INVARIANTS
  ValidIsAccepted
  NobodyElsePays
  PartsAddUp
  ShownIsClose
