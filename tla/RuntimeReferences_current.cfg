SPECIFICATION Spec
CONSTANTS
  c1 = c1
  f1 = f1
  r1 = r1
  Credentials = {c1}
  References = {f1}
  Requests = {r1}
  NoCredential = NoCredential
  NoReference = NoReference
  Batch = 3
  TimerPolls = FALSE
  MaxCommits = 3
  MaxFaults = 0
INVARIANTS
  CurrentIsServed
CHECK_DEADLOCK FALSE
