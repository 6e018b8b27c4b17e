CONSTANTS
  q1 = q1  q2 = q2
  Legacy = Legacy
  NoVersion = NoVersion
  Requests = {q1, q2}
  RecordCount = 3
  BatchSize = 2
  Targets = {"vault", "identity"}
  MaxCrashes = 1
SPECIFICATION Spec
INVARIANTS
  InterruptedResumes
