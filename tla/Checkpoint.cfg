CONSTANTS
  Procs = {p1, p2}
  Mutations = {m1, m2, m3}
  Key <- TwoContend
  DirectorySyncs = TRUE
  MaxFaults = 2
  MaxCrashes = 1
  MaxPowerLosses = 1
  None = none
  First = m1
SYMMETRY Interchangeable
SPECIFICATION Spec
INVARIANTS AcknowledgedSurvives WriterKeepsItsTemporary ReadsAreCommitted
PROPERTIES UpdatesAccumulate ImplementsAtomicStore
