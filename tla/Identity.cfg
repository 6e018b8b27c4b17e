\* One account, two requests under way.
CONSTANTS
  Roles = {"user", "superadmin"}
  Authenticators = {a1, a2}
  Steps = {t1}
  Subjects = {x1}
  Browsers = {s1}
  Restricteds = {p1, p2}
  Requests = {r1, r2}
  None = None
  Threshold = 2
  MaxEpoch = 3
  MaxGlobal = 2
  MaxPolicy = 2
  MaxChanges = 6
SPECIFICATION Spec
SYMMETRY Symmetry
INVARIANTS ProofsCurrent UsedOnce
PROPERTY SecurityChangeEndsSessions
CHECK_DEADLOCK FALSE
