SPECIFICATION LiveSpec
CONSTANTS
  alice = alice
  bob = bob
  carol = carol
  t1 = t1
  t2 = t2
  t3 = t3
  Tx <- TwoTx
  User <- Trio
  Split <- DinnerSplits
  Expense = {1}
  ExpenseOf <- DinnerExpenseOf
  Owes <- DinnerOwes
  Payer <- DinnerPayer
  Amount <- DinnerAmount
  Claim = {1, 2}
  Requests = {"settle", "cover", "confirm", "reject", "sweep"}
  MayExpire = {1, 2}

INVARIANT ConfirmedClaimIsHonoured
INVARIANT SettledWasClaimed
INVARIANT SettledExpenseIsComplete
PROPERTY DecidedOnce
PROPERTY ClaimIsDecided
CHECK_DEADLOCK FALSE
