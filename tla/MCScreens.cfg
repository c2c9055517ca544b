SPECIFICATION Spec
CONSTANTS
  Groups = {g1, g2}
  Users = {ann, bob}
  Requests = {q1, q2}
  Values = {a, b}
  Handles = {h1, h2}
  Inputs = {full_name, email}
SYMMETRY Perms
INVARIANTS
  NewestFirst
  NewestShown
  SignedOutIsDetached
  NoOlderThanMyAnswer
  
  ScrubbedUnlessOverlapped
  OwesOnlyLater
PROPERTY UnreadChangesStay
