CONSTANTS
  Scenes = {"scheduler", "intake"}
  \* The scheduler, with one gate.
  Tasks = {t1}
  Deps <- Chain
  MaxAttempts = 1
  Gates <- OneGate
  Reconcilers = {r}
  None = none
  Consumers = {r}
  Results = {"success", "permanent"}
  Rounds = 3
  Calls = 1
  MaxFaults = 2
  MaxCrashes = 2
  First = t1
  \* Event intake.
  Events = {e}
  Pollers = {c, d}
  Operators = {o}
  Crews <- MCCrews
  Resolvable = {1, 2}
  MaxVersion = 2
  MaxMoves = 1
  MaxIntakeTroubles = 1
SPECIFICATION DeliveriesSpec
INVARIANTS OneRunPerApproval
INVARIANTS RetiredIsSettled PinnedRevision AuditIsNumbered
PROPERTIES ApprovalEventuallyWakes AcknowledgedSettles
CHECK_DEADLOCK FALSE
