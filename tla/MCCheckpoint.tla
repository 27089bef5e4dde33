----------------------------- MODULE MCCheckpoint -----------------------------
(* Constants for the model checker: which mutations contend for a key.      *)
EXTENDS DurableCheckpoint, TLC

CONSTANT First  \* the mutation that is alone with its key

TwoContend == [m \in Mutations |-> IF m = First THEN "a" ELSE "b"]

Interchangeable == Permutations(Procs) \cup Permutations(Mutations \ {First})
=============================================================================
