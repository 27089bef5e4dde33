CONSTANTS
  Tasks = {t1}
  Deps <- Chain
  MaxAttempts = 2
  Gates <- NoGates
  Reconcilers = {c}
  None = none
  Consumers = {c}
  Results = {"success", "deferred"}
  Rounds = 3
  Calls = 1
  MaxFaults = 0
  MaxCrashes = 0
  First = t1
SPECIFICATION Spec
INVARIANT RetriesExhausted
