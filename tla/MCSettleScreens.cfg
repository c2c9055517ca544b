SPECIFICATION FairSpec
CONSTANTS
  Split = {1, 2}
  Mine = {1}
  Amount <- MCAmount
  Claim = {1, 2}
  MaxCalls = 2
CHECK_DEADLOCK FALSE
INVARIANTS
  NoClaimVanishes
PROPERTIES
  FiledCardGivesWay
