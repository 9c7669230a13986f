SPECIFICATION SessionSpec
CONSTANTS
  Session = {s1, s2}
  Request = {r1, r2}
  Absent = Absent
  IdleLifetime = 2
  AbsoluteLifetime = 4
  Second = 2
  Text <- MCText
  LastUsedInterval = 1
  MaxClock = 4
  MaxToken = 2
SYMMETRY Symmetry
INVARIANTS
  AttemptMakesOneSession
PROPERTIES
  SessionGoesForward
  RejectionSparesTheRefreshed
CHECK_DEADLOCK FALSE
