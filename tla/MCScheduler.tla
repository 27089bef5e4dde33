----------------------------- MODULE MCScheduler -----------------------------
(* Constants for the model checker: task graphs and gates of a small plan.  *)
EXTENDS WorkflowScheduler

CONSTANT First  \* the task that has no dependency

\* Every other task depends on the first.
Chain == [t \in Tasks |-> IF t = First THEN {} ELSE {First}]

NoGates  == [t \in Tasks |-> 0]
OneGate  == [t \in Tasks |-> 1]
TwoGates == [t \in Tasks |-> 2]
=============================================================================
