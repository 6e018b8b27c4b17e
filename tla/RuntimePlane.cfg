\* One request with one reference, two commits and one fault; two users, one
\* group and three changes of groups, assignments and policies.
CONSTANTS
  c1 = c1
  f1 = f1
  r1 = r1
  Credentials = {c1}
  References = {f1}
  Requests = {r1}
  NoCredential = NoCredential
  NoReference = NoReference
  Batch = 1
  TimerPolls = TRUE
  MaxCommits = 2
  MaxFaults = 1
  u1 = u1
  u2 = u2
  g1 = g1
  Users = {u1, u2}
  Groups = {g1}
  AssignedCredentials = {c1}
  Slots = {1, 2}
  RuleSlots = {1, 2}
  MaxRulesTotal = 3
  MaxProjected = 1
  MaxPriority = 2
  Profiles <- SomeRules
  Choices <- EachSelector
  MaxChanges = 3
SPECIFICATION PlaneSpec
INVARIANTS
  
  ReferencesCurrent

  
  
CHECK_DEADLOCK FALSE
