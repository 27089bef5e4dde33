------------------------------- MODULE MCBudget -------------------------------
(* Constants for the model checker: three invocations by one Agent, two of   *)
(* them attempts of one Task, and the Resources they are governed by.       *)
EXTENDS ExecutionBudget, TLC

CONSTANTS i1, i2, i3, t1, t2, a1

TasksOf == i1 :> t1 @@ i2 :> t1 @@ i3 :> t2
AgentsOf == [i \in Invocations |-> a1]

NoLimits == <<>>

\* Every kind of limit, each at another scope; the override lowers the first.
Everywhere ==
  [workflow |-> [invocations |-> 5, elapsed |-> 1], override |-> [invocations |-> 3],
   task |-> t1 :> [input |-> 4, output |-> 5] @@ t2 :> [invocations |-> 2],
   agent |-> [a \in Agents |-> [cost |-> 9]],
   tokenLimit |-> 2, maxAttempts |-> 3,
   priced |-> TRUE, inputPrice |-> 1, outputPrice |-> 1]

\* A limit of the money alone, a Model that omits tokenLimit and does not
\* retry, and a Task without any limit.
MoneyOnly ==
  [workflow |-> NoLimits, override |-> NoLimits,
   task |-> t1 :> [cost |-> 7] @@ t2 :> NoLimits,
   agent |-> [a \in Agents |-> NoLimits],
   tokenLimit |-> 0, maxAttempts |-> 1,
   priced |-> TRUE, inputPrice |-> 1, outputPrice |-> 1]

\* The first Task is declared with more than its workflow has.
Widening ==
  [Everywhere EXCEPT !.task[t1] = [invocations |-> 6]]

\* A Model without prices: the Task that has money cannot use it.
Unpriced == [MoneyOnly EXCEPT !.priced = FALSE]

\* The retries of a Model that omits tokenLimit, and little money.
LittleMoney ==
  [MoneyOnly EXCEPT !.task[t1] = [cost |-> 4], !.maxAttempts = 3]

Ordinary == {Everywhere, MoneyOnly, Unpriced, Widening}
Tight == {LittleMoney}
=============================================================================
