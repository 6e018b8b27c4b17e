\* OIDC users exchange the codes they are given.
CONSTANTS
  Users = {u1}
  Grants = {g1}
  Redirects = {d1}
  NoUser = NoUser
  NoRedirect = NoRedirect
  Settings <- MCSettings
  CodeTtl = 1
  MaxCodes = 1
  MaxTokens = 4
  SweepLimit = 2
  RevocationLimit = 1
  MaxSequence = 1
  MaxProofs = 1
  MaxEvents = 1
  MaxTime = 2
SPECIFICATION Spec
INVARIANT LiveCodesExchange
CHECK_DEADLOCK FALSE
