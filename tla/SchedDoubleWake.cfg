CONSTANTS
  Tasks = {t1}
  Deps <- Chain
  MaxAttempts = 1
  Gates <- TwoGates
  Reconcilers = {c}
  None = none
  Consumers = {c}
  Results = {"success"}
  Rounds = 3
  Calls = 1
  MaxFaults = 0
  MaxCrashes = 0
  First = t1
SPECIFICATION Spec
INVARIANT OneWakePerApproval
