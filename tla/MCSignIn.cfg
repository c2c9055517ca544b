SPECIFICATION Spec
CONSTANTS
  Tab = {t1, t2}
  Token = {c1, c2}
  NoTab = NoTab
  NoToken = NoToken
  MaxRequests = 2
  Retries = 1
SYMMETRY Symmetry
INVARIANTS
  NothingLeftValid
PROPERTIES
  OwnLoginSurvives
