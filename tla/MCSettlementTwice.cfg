SPECIFICATION Spec
CONSTANTS
  alice = alice
  bob = bob
  carol = carol
  t1 = t1
  t2 = t2
  t3 = t3
  Tx <- TwoTx
  User <- Trio
  Split <- TripSplits
  Expense = {1, 2}
  ExpenseOf <- TripExpenseOf
  Owes <- TripOwes
  Payer <- TripPayer
  Amount <- TripAmount
  Claim = {1, 2}
  Requests = {"settle", "cover"}
  MayExpire = {}
INVARIANT ClaimedOnce
CHECK_DEADLOCK FALSE
