CONSTANTS
  Tasks = {t1, t2}
  Deps <- Chain
  MaxAttempts = 2
  Gates <- NoGates
  Reconcilers = {c}
  None = none
  Consumers = {c}
  Results = {"success", "recoverable", "permanent"}
  Rounds = 5
  Calls = 1
  MaxFaults = 1
  MaxCrashes = 2
  First = t1
SPECIFICATION FairSpec
INVARIANTS AuditComplete WorkflowOutcomeSound RetriesExhausted
PROPERTIES ImplementsTaskAttempts EventuallySettled
