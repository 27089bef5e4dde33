CONSTANTS
  Tasks = {t1}
  Deps <- Chain
  MaxAttempts = 2
  Gates <- NoGates
  Reconcilers = {c, h}
  None = none
  Consumers = {c}
  Results = {"success", "recoverable", "deferred"}
  Rounds = 3
  Calls = 1
  MaxFaults = 1
  MaxCrashes = 1
  First = t1
SPECIFICATION Spec
INVARIANTS ExecutorOwnsAttempt AtMostOncePerWake ReportKept
