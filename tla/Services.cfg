CONSTANTS
  Scenes = {"budget", "patch", "evidence", "docker", "publication", "admission"}
  \* Execution budgets.
  i1 = i1  i2 = i2  i3 = i3  t1 = t1  t2 = t2  a1 = a1
  Invocations = {i1, i2, i3}
  Tasks = {t1, t2}
  Agents = {a1}
  TaskOf <- TasksOf
  AgentOf <- AgentsOf
  Setups <- Ordinary
  Estimates = {1}
  Overshoot = 1
  Uncapped = 3
  MaxFaults = 1
  MaxCrashes = 1
  \* Patch generation.
  Editable = {f, g, h}
  Required = {f, g}
  Satisfied = {g}
  Retained = {h}
  MaxPatches = 2
  MaxEdits = 1
  MaxPatchFaults = 2
  \* The chain of evidence.
  MaxTurns = 2
  MaxRetries = 1
  MaxLosses = 1
  Normalizations = {TRUE, FALSE}
  \* Docker validation.
  Calls = {c1, c2, c3}
  Commands = 2
  \* Publication.
  Publishers = {p, q}
  MaxTries = 2
  Nobody = nobody
  Policies <- MCPolicies
  MaxMishaps = 2
  MaxDeaths = 1
  MaxDoubles = 1
  \* Admission to the Model's provider.
  Callers = {x, y}
  Interval = 1
  Demands = {2}
  Excess = 1
  Pauses = {2}
  Patience = 4
  MaxRequests = 2
  Horizon = 3
  MaxInvocations = 3
  MaxOutages = 1
  MaxStops = 1
SPECIFICATION ServicesSpec
INVARIANTS ServicesTypeOK
INVARIANTS SpendingWithinLimits  OverrunIsMarked
INVARIANTS FailureRestoresTree EligiblePatchIsOwn
INVARIANTS AcceptanceIsExact
INVARIANTS CallersAgree DoneLeavesNothing
INVARIANTS OnePullRequest SuccessIsPublished PublishedIsAuthorized
PROPERTIES UnknownSpendStops ForeignEditsKept RequestsArePaced
CHECK_DEADLOCK FALSE
