CONSTANTS
  Scenes = {"checkpoint", "checkout"}
  \* Calls of the durable store.
  Procs = {p1, p2}
  Mutations = {m1, m2}
  Key <- TwoContend
  DirectorySyncs = TRUE
  MaxFaults = 1
  MaxCrashes = 1
  MaxPowerLosses = 0
  None = none
  First = m1
  \* Execution checkouts.
  Executions = {e1, e2}
  Workers = {w1, w2}
  Ending = {e1}
  Nobody = nobody
  Gone = gone
  MaxTroubles = 1
SPECIFICATION RetriesSpec
INVARIANTS OneMutator ReadyIsIntact
PROPERTIES CheckpointCallsReturn CheckoutsGetReady
CHECK_DEADLOCK FALSE
