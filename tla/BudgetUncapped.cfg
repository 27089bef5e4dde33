CONSTANTS
  i1 = i1  i2 = i2  i3 = i3  t1 = t1  t2 = t2  a1 = a1
  Invocations = {i1, i2, i3}
  Tasks = {t1, t2}
  Agents = {a1}
  TaskOf <- TasksOf
  AgentOf <- AgentsOf
  Setups <- Tight
  Estimates = {1}
  Overshoot = 1
  Uncapped = 3
  MaxFaults = 0
  MaxCrashes = 0
SPECIFICATION Spec
INVARIANT PricedOutputIsCapped
CHECK_DEADLOCK FALSE
