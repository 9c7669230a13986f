SPECIFICATION Spec
CONSTANTS
  Principal = {p1, p2}
  Team = {admins}
  Binding = {b1, b2}
  Tx = {t1, t2}
  Absent = Absent
  MaxChanges = 4
SYMMETRY Symmetry
INVARIANTS
  OwnerRemains
  SessionKnowsItsTeams
PROPERTY NoSessionRevives
CHECK_DEADLOCK FALSE
