SPECIFICATION Spec
CONSTANTS
  User = {u1, u2}
  Link = {l1, l2}
  Accept = {a1, a2, a3}
  MaxUses = 1
  Nobody = Nobody
  NoLink = NoLink
SYMMETRY Symmetry
PROPERTIES
  RevocationSticks
CHECK_DEADLOCK FALSE
