SPECIFICATION LiveSpec
CONSTANTS
  e1 = e1
  alice = alice
  bob = bob
  carol = carol
  c1 = c1
  c2 = c2
  k1 = k1
  Expense <- TheExpense
  User <- Trio
  Client <- TwoClients
  Sweeper <- OneSweeper
  MaxRounds = 2

INVARIANT StatusMatchesSplits
PROPERTY OnlyLateRejectReopens
PROPERTY PendingIsResolved
