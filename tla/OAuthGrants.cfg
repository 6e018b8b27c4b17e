\* One user, two grants and one rotation each.
CONSTANTS
  Users = {u1}
  Grants = {g1, g2}
  Redirects = {d1, d2}
  NoUser = NoUser
  NoRedirect = NoRedirect
  Settings <- MCSettings
  CodeTtl = 1
  MaxCodes = 1
  MaxTokens = 4
  SweepLimit = 2
  RevocationLimit = 1
  MaxSequence = 1
  MaxProofs = 1
  MaxEvents = 1
  MaxTime = 2
SPECIFICATION Spec
SYMMETRY Symmetry
INVARIANTS
  TypeOK ReplayDetectable ActiveGrantsCurrent NothingOutlivesItsOwner TotpOnce
PROPERTIES
  NoRevival
CHECK_DEADLOCK FALSE
