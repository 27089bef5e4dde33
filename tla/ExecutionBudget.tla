--------------------------- MODULE ExecutionBudget ---------------------------
(***************************************************************************)
(* Execution budgets of one RUNNING WorkflowExecution: the ledgers of      *)
(* src/aep/execution_budgets.py, one for the workflow, one per Task and    *)
(* one per Agent, and the invocations of src/aep/agent_invocation.py that  *)
(* reserve an allowance, call the provider and reconcile.                  *)
(*                                                                         *)
(* An invocation belongs to one TaskExecution and is made at most once     *)
(* (AtMostOnce of WorkflowSchedulerProofs); a retry is an invocation of    *)
(* its own with the same Task.  A mutation of the ledgers is one step      *)
(* (mutate_execution_budget over the store of DurableCheckpoint); it can   *)
(* fail with or without effect, and a process can end between any two      *)
(* steps.  Amounts are integers: a cost counts units of the smallest price.*)
(***************************************************************************)
EXTENDS Integers, FiniteSets, FiniteSetsExt

CONSTANTS
  Invocations,
  Tasks, Agents, TaskOf, AgentOf,   \* [Invocations -> Tasks], [... -> Agents]
  Setups,          \* the Resources that may be loaded, see IsSetup
  Estimates,       \* token counts of ContextPackages
  Overshoot,       \* bound on the input tokens reported beyond the estimate
  Uncapped,        \* output tokens of an attempt that was given no cap
  MaxFaults, MaxCrashes

Dimensions == {"invocations", "input", "output", "cost"}

\* A spec.budget: the limits of some dimensions.
IsBudget(b) ==
  /\ DOMAIN b \subseteq Dimensions \cup {"elapsed"}
  /\ b \in [DOMAIN b -> Nat \ {0}]

\* The declared budgets and the Model: tokenLimit bounds the output of an
\* attempt (0: omitted), maxAttempts is that of its retryPolicy.
IsSetup(r) ==
  /\ IsBudget(r.workflow) /\ IsBudget(r.override)
  /\ \A t \in Tasks : IsBudget(r.task[t])
  /\ \A a \in Agents : IsBudget(r.agent[a])
  /\ r.tokenLimit \in Nat /\ r.maxAttempts \in Nat \ {0}
  /\ r.priced \in BOOLEAN /\ r.inputPrice \in Nat /\ r.outputPrice \in Nat

ASSUME BudgetAssumption ==
  /\ IsFiniteSet(Invocations)
  /\ TaskOf \in [Invocations -> Tasks] /\ AgentOf \in [Invocations -> Agents]
  /\ Tasks \cap Agents = {} /\ "workflow" \notin Tasks \cup Agents
  /\ \A r \in Setups : IsSetup(r)
  /\ Estimates \subseteq Nat \ {0} /\ Overshoot \in Nat /\ Uncapped \in Nat
  /\ MaxFaults \in Nat /\ MaxCrashes \in Nat

-----------------------------------------------------------------------------
VARIABLES
  resources, \* the Resources, immutable: one of the Setups
  \* The ledgers, in WorkflowExecution.budgetConsumption.
  used,      \* [Scopes -> [Dimensions -> Nat]], consumed
  held,      \* [Scopes -> [Dimensions -> Nat]], reserved
  blocked,   \* scopes with a sticky decision, BUDGET_COST_UNAVAILABLE
  overrun,   \* scopes marked as overrun
  \* Private to the process of an invocation.
  pc,        \* [Invocations -> {"new", "prepared", "reserved", "done"}]
  grant,     \* [Invocations -> Grants], the reservation in TaskBudget._reservation
  sent,      \* [Invocations -> Nat], attempts dispatched to the provider
  \* Bounds and history.
  faults, crashes,
  share,     \* [Invocations -> amounts], what of the ledgers' held is its own
  recorded,  \* the invocations whose attempts were charged
  timedOut,  \* those of them that timed out before an attempt, see Timeout
  unknown,   \* those of them with an attempt whose usage nobody knows
  spent      \* [Invocations -> Nat], the most that its attempts may have cost

ledgers == <<used, held, blocked, overrun>>
private == <<pc, grant, sent>>
history == <<share, recorded, timedOut, unknown, spent>>
vars == <<resources, used, held, blocked, overrun, pc, grant, sent, faults, crashes,
          share, recorded, timedOut, unknown, spent>>

TokenLimit == resources.tokenLimit
MaxAttempts == resources.maxAttempts
Priced == resources.priced
InputPrice == resources.inputPrice
OutputPrice == resources.outputPrice

-----------------------------------------------------------------------------
(* The resolution of the limits.                                           *)

Smaller(x, y) == IF x <= y THEN x ELSE y
Larger(x, y) == IF x <= y THEN y ELSE x

\* Field by field, the smaller of the limits that are declared.
MostRestrictive(parent, child) ==
  [d \in DOMAIN parent \cup DOMAIN child |->
     IF d \notin DOMAIN child THEN parent[d]
     ELSE IF d \notin DOMAIN parent THEN child[d]
     ELSE Smaller(parent[d], child[d])]

Widens(child, parent) ==
  \E d \in DOMAIN child \cap DOMAIN parent : child[d] > parent[d]

Scopes == {"workflow"} \cup Tasks \cup Agents

ScopesOf(i) == {"workflow", TaskOf[i], AgentOf[i]}

\* The effective limits of a scope.  Those of a Task do not reach its Agent.
Limit(s) ==
  LET workflow == MostRestrictive(resources.workflow, resources.override) IN
  IF s = "workflow" THEN workflow
  ELSE MostRestrictive(workflow, IF s \in Tasks THEN resources.task[s]
                                 ELSE resources.agent[s])

\* A budget that resolve_execution_budget raises for.
Malformed(i) ==
  \/ Widens(resources.override, resources.workflow)
  \/ Widens(resources.task[TaskOf[i]], resources.workflow)
  \/ Widens(resources.agent[AgentOf[i]], resources.workflow)
  \/ Widens(resources.agent[AgentOf[i]], resources.task[TaskOf[i]])

Budgeted(i) == \E s \in ScopesOf(i) : DOMAIN Limit(s) # {}

\* The scopes of an invocation that bound a dimension.
Bounding(i, d) == {s \in ScopesOf(i) : d \in DOMAIN Limit(s)}

-----------------------------------------------------------------------------
Zero == [d \in Dimensions |-> 0]
Plus(x, y) == [d \in Dimensions |-> x[d] + y[d]]
Times(n, x) == [d \in Dimensions |-> n * x[d]]

\* What is granted: a number of attempts, and for each of them the output cap
\* (0: no cap), the estimated input, and the amounts that it reserves.
Grants == [attempts : Nat, cap : Nat, estimate : Nat, each : [Dimensions -> Nat]]
NoGrant == [attempts |-> 0, cap |-> 0, estimate |-> 0, each |-> Zero]

Init ==
  /\ resources \in Setups
  /\ used = [s \in Scopes |-> Zero] /\ held = [s \in Scopes |-> Zero]
  /\ blocked = {} /\ overrun = {}
  /\ pc = [i \in Invocations |-> "new"]
  /\ grant = [i \in Invocations |-> NoGrant]
  /\ sent = [i \in Invocations |-> 0]
  /\ faults = 0 /\ crashes = 0
  /\ share = [i \in Invocations |-> Zero]
  /\ recorded = {} /\ timedOut = {} /\ unknown = {}
  /\ spent = [i \in Invocations |-> 0]

-----------------------------------------------------------------------------
(* preflight, inside its mutation: the check of every scope and the plan.  *)

Committed(s, d) == used[s][d] + held[s][d]

\* The smallest remainder of the scopes that bound a dimension.
Room(i, d) == Min({Limit(s)[d] - Committed(s, d) : s \in Bounding(i, d)})

\* What one attempt takes at least: one unit, the input, one output token.
AttemptCost(e, cap) == e * InputPrice + Larger(1, cap) * OutputPrice

Least(e) == [invocations |-> 1, input |-> e, output |-> 1, cost |-> AttemptCost(e, 1)]

\* Elapsed time is no state of this module: see Block.
ScopeAdmits(s, e) ==
  /\ s \notin blocked
  /\ "cost" \in DOMAIN Limit(s) => Priced
  /\ \A d \in DOMAIN Limit(s) \cap Dimensions : Committed(s, d) + Least(e)[d] <= Limit(s)[d]

Bounded(i, d) == Bounding(i, d) # {}

\* As many attempts as the Model configures and the scopes have room for.
AttemptLimit(i, e) ==
  LET units == IF Bounded(i, "invocations")
               THEN Smaller(MaxAttempts, Room(i, "invocations")) ELSE MaxAttempts
      inputs == IF Bounded(i, "input")
                THEN Smaller(units, Larger(1, Room(i, "input") \div e)) ELSE units
  IN IF Bounded(i, "output") THEN Smaller(inputs, Larger(1, Room(i, "output"))) ELSE inputs

\* The output that each of n attempts may have.
ShareOfOutput(i, n) ==
  LET each == Larger(1, Room(i, "output") \div n) IN
  IF TokenLimit = 0 THEN each ELSE Smaller(TokenLimit, each)

\* The cap of an attempt; it follows from the money that is left when neither
\* the Model nor a limit gives one, unless that does not pay for one token.
OutputCap(i, e, n) ==
  IF Bounded(i, "output") THEN ShareOfOutput(i, n)
  ELSE IF TokenLimit = 0 /\ Bounded(i, "cost") /\ Priced /\ OutputPrice > 0
       THEN LET left == Room(i, "cost") - n * e * InputPrice IN
            IF left >= n * OutputPrice THEN left \div (n * OutputPrice) ELSE 0
       ELSE TokenLimit

\* One turn of the loop that lowers the number of attempts to what the money
\* allows; the share of the output is computed anew, a derived cap is not.
FitCost(i, e, plan) ==
  LET affordable == Room(i, "cost") \div AttemptCost(e, plan.cap)
      n == Larger(1, affordable)
  IN IF ~ Priced \/ AttemptCost(e, plan.cap) = 0 \/ affordable >= plan.attempts
     THEN plan
     ELSE [attempts |-> n,
           cap |-> IF Bounded(i, "output") THEN ShareOfOutput(i, n) ELSE plan.cap]

Plan(i, e) ==
  LET n == AttemptLimit(i, e)
      first == [attempts |-> n, cap |-> OutputCap(i, e, n)]
      plan == IF Bounded(i, "cost")
              THEN FitCost(i, e, FitCost(i, e, FitCost(i, e, first)))
              ELSE first
  IN [attempts |-> plan.attempts, cap |-> plan.cap, estimate |-> e,
      each |-> [invocations |-> 1, input |-> e,
                output |-> IF Bounded(i, "output") THEN plan.cap ELSE 0,
                cost |-> IF Priced THEN AttemptCost(e, plan.cap) ELSE 0]]

\* Bug: that the whole grant can be paid for is not checked.
Bug_Admissible(i, e) == \A s \in ScopesOf(i) : ScopeAdmits(s, e)

\* Every scope passes, and the whole grant can be paid for.
Admissible(i, e) ==
  /\ \A s \in ScopesOf(i) : ScopeAdmits(s, e)
  /\ Bounded(i, "cost") =>
       Plan(i, e).attempts * Plan(i, e).each.cost <= Room(i, "cost")

-----------------------------------------------------------------------------
(* The steps of an invocation.                                             *)

Goto(i, point) == pc' = [pc EXCEPT ![i] = point]

\* A mutation of the ledgers.  The store may report an error although the
\* mutation has taken effect; the invocation ends with any error.
Mutate(i, point, Effect, NoEffect) ==
  /\ \/ Effect /\ Goto(i, point) /\ UNCHANGED faults
     \/ /\ faults < MaxFaults /\ faults' = faults + 1
        /\ Goto(i, "done")
        /\ Effect \/ NoEffect
  /\ UNCHANGED crashes

\* The scheduler creates the next attempt of a Task when the last has ended.
\* TaskBudgetManager.prepare: without any limit there is no budget, and the
\* invocation has what the Model configures.
Prepare(i) ==
  /\ pc[i] = "new"
  /\ \A j \in Invocations : TaskOf[j] = TaskOf[i] => pc[j] \in {"new", "done"}
  /\ \/ Malformed(i) /\ Goto(i, "done") /\ UNCHANGED grant
     \/ ~ Malformed(i) /\ Budgeted(i) /\ Goto(i, "prepared") /\ UNCHANGED grant
     \/ /\ ~ Malformed(i) /\ ~ Budgeted(i)
        /\ Goto(i, "reserved")
        /\ \E e \in Estimates :
             grant' = [grant EXCEPT ![i] = [NoGrant EXCEPT !.attempts = MaxAttempts,
                                              !.cap = TokenLimit, !.estimate = e]]
  /\ UNCHANGED <<resources, ledgers, sent, faults, crashes, history>>

Reserve(i, g) ==
  /\ held' = [s \in Scopes |-> IF s \in ScopesOf(i)
                               THEN Plus(held[s], Times(g.attempts, g.each)) ELSE held[s]]
  /\ share' = [share EXCEPT ![i] = Times(g.attempts, g.each)]

Admit(i) ==
  /\ pc[i] = "prepared"
  /\ \E e \in Estimates :
       /\ Admissible(i, e)
       /\ grant' = [grant EXCEPT ![i] = Plan(i, e)]
       /\ Mutate(i, "reserved", Reserve(i, Plan(i, e)), UNCHANGED <<held, share>>)
  /\ UNCHANGED <<resources, used, blocked, overrun, sent, recorded, timedOut, unknown, spent>>

\* ExecutionBudgetExceeded.  The time that a scope may take runs out at a
\* moment that is not modelled.  The decision that is stored changes nothing
\* that a later check reads.
Block(i) ==
  /\ pc[i] = "prepared"
  /\ \/ \E e \in Estimates : ~ Admissible(i, e)
     \/ Bounded(i, "elapsed")
  /\ Goto(i, "done")
  /\ UNCHANGED <<resources, ledgers, grant, sent, faults, crashes, history>>

\* The subtraction that never goes below zero.
Monus(x, y) == [d \in Dimensions |-> Larger(0, x[d] - y[d])]

Returned(i, s) == Monus(held[s], Times(grant[i].attempts, grant[i].each))

\* TaskBudget.release: the records of the invocation cannot be created, or
\* are there already.
Withdraw(i) ==
  /\ pc[i] = "reserved" /\ sent[i] = 0 /\ Budgeted(i)
  /\ Mutate(i, "done",
       /\ held' = [s \in Scopes |-> IF s \in ScopesOf(i) THEN Returned(i, s) ELSE held[s]]
       /\ share' = [share EXCEPT ![i] = Zero],
       UNCHANGED <<held, share>>)
  /\ UNCHANGED <<resources, used, blocked, overrun, grant, sent, recorded, timedOut, unknown,
                 spent>>

\* The most that an attempt can cost: the provider keeps to the cap.
WorstCost(i) ==
  grant[i].estimate * InputPrice
    + (IF grant[i].cap = 0 THEN Uncapped ELSE grant[i].cap) * OutputPrice

\* The adapter dispatches an attempt; the one before has failed.
Attempt(i) ==
  /\ pc[i] = "reserved" /\ sent[i] < grant[i].attempts
  /\ sent' = [sent EXCEPT ![i] = @ + 1]
  /\ spent' = [spent EXCEPT ![i] = @ + WorstCost(i)]
  /\ UNCHANGED <<resources, ledgers, pc, grant, faults, crashes, share, recorded, timedOut,
                 unknown>>

\* Bug: the reservation of attempts without a usage is given back, too.
Bug_Kept(i, n) == Zero

\* What stays reserved for n attempts whose usage is not known.
Kept(i, n) ==
  [Times(Smaller(n, grant[i].attempts), grant[i].each) EXCEPT !.invocations = 0]

Exceeds(s, u, h) ==
  \E d \in DOMAIN Limit(s) \cap Dimensions : u[s][d] + h[s][d] > Limit(s)[d]

\* Bug: what is reserved does not count.
Bug_Marked(i, u, h) ==
  {s \in ScopesOf(i) : \E d \in DOMAIN Limit(s) \cap Dimensions : u[s][d] > Limit(s)[d]}

\* The scopes that a charge of i marks, after it.
Marked(i, u, h) == {s \in ScopesOf(i) : Exceeds(s, u, h)}

\* TaskBudget.record: the usage of some attempts, n of which reported none,
\* takes the place of the reservation.  Money that nobody can account for
\* blocks every scope that bounds it.
Charge(i, usage, n, priced) ==
  /\ used' = [s \in Scopes |-> IF s \in ScopesOf(i) THEN Plus(used[s], usage) ELSE used[s]]
  /\ held' = [s \in Scopes |-> IF s \in ScopesOf(i)
                               THEN Plus(Returned(i, s), Kept(i, n)) ELSE held[s]]
  /\ blocked' = IF usage.invocations > 0 /\ (n > 0 \/ ~ priced)
                THEN blocked \cup Bounding(i, "cost") ELSE blocked
  /\ overrun' = overrun \cup Marked(i, used', held')

Record(i, usage, n, priced) ==
  IF Budgeted(i) THEN Charge(i, usage, n, priced) ELSE UNCHANGED ledgers

Usage(attempts, input, output) ==
  [invocations |-> attempts, input |-> input, output |-> output,
   cost |-> IF Priced THEN input * InputPrice + output * OutputPrice ELSE 0]

\* The amounts of attempts that were dispatched and told no usage.
Untold(i, n) == [Times(n, grant[i].each) EXCEPT !.invocations = 0]

\* Bug: the attempts before the one that succeeded are forgotten.
Bug_Unreported(i) == 0

\* A response tells the usage of the last attempt, and of no other.
Unreported(i) == sent[i] - 1

\* The cost is an estimate from the prices and the usage, if there is any.
Succeed(i) ==
  /\ pc[i] = "reserved" /\ sent[i] > 0
  /\ \E input \in {0} \cup grant[i].estimate .. grant[i].estimate + Overshoot,
        output \in 0 .. (IF grant[i].cap = 0 THEN Uncapped ELSE grant[i].cap) :
       LET priced == Priced /\ input + output > 0 IN
       Mutate(i, "done",
         /\ Record(i, Usage(sent[i], input, output), Unreported(i), priced)
         /\ share' = [share EXCEPT ![i] = Untold(i, sent[i] - 1)]
         /\ recorded' = recorded \cup {i}
         /\ unknown' = IF sent[i] > 1 \/ ~ priced THEN unknown \cup {i} ELSE unknown
         /\ spent' = [spent EXCEPT
                        ![i] = @ - WorstCost(i) + input * InputPrice + output * OutputPrice]
         /\ UNCHANGED timedOut,
         UNCHANGED <<ledgers, history>>)
  /\ UNCHANGED <<resources, grant, sent>>

\* What is charged for a ModelInvocationError with n attempts.
ChargeFailure(i, n) ==
  /\ Record(i, Usage(n, 0, 0), n, FALSE)
  /\ share' = [share EXCEPT ![i] = Untold(i, n)]
  /\ recorded' = recorded \cup {i}
  /\ unknown' = IF sent[i] > 0 THEN unknown \cup {i} ELSE unknown
  /\ UNCHANGED spent

\* ModelInvocationError: deferred, refused, or failed after its attempts.
Fail(i) ==
  /\ pc[i] = "reserved"
  /\ Mutate(i, "done", ChargeFailure(i, sent[i]) /\ UNCHANGED timedOut,
            UNCHANGED <<ledgers, history>>)
  /\ UNCHANGED <<resources, grant, sent>>

\* The time is over before an attempt is dispatched, the first or a retry.  The
\* error of _remaining_ms does not tell how many were, and counts for one.
Timeout(i) ==
  /\ pc[i] = "reserved" /\ sent[i] < grant[i].attempts
  /\ Mutate(i, "done", ChargeFailure(i, 1) /\ timedOut' = timedOut \cup {i},
            UNCHANGED <<ledgers, history>>)
  /\ UNCHANGED <<resources, grant, sent>>

\* The process ends, or an error leaves invoke_agent that it does not handle.
Crash(i) ==
  /\ pc[i] \in {"prepared", "reserved"}
  /\ crashes < MaxCrashes /\ crashes' = crashes + 1
  /\ Goto(i, "done")
  /\ UNCHANGED <<resources, ledgers, grant, sent, faults, history>>

Next ==
  \E i \in Invocations :
    \/ Prepare(i) \/ Admit(i) \/ Block(i) \/ Withdraw(i)
    \/ Attempt(i) \/ Succeed(i) \/ Fail(i) \/ Timeout(i) \/ Crash(i)

Spec == Init /\ [][Next]_vars

-----------------------------------------------------------------------------
Amounts == [Dimensions -> Nat]

\* Every variable keeps to its type; no invocation has more attempts than the
\* Model configures (with_budget_bounds).
TypeOK ==
  /\ resources \in Setups
  /\ used \in [Scopes -> Amounts] /\ held \in [Scopes -> Amounts]
  /\ blocked \subseteq Scopes /\ overrun \subseteq Scopes
  /\ pc \in [Invocations -> {"new", "prepared", "reserved", "done"}]
  /\ grant \in [Invocations -> Grants]
  /\ sent \in [Invocations -> 0 .. MaxAttempts]
  /\ faults \in 0 .. MaxFaults /\ crashes \in 0 .. MaxCrashes
  /\ share \in [Invocations -> Amounts]
  /\ recorded \subseteq Invocations
  /\ timedOut \subseteq recorded /\ unknown \subseteq recorded
  /\ spent \in [Invocations -> Nat]

\* The sum over the invocations that count against a scope: the number of all
\* their units.
Units(amount, s) ==
  UNION {{i} \X (1 .. amount[i]) : i \in {j \in Invocations : s \in ScopesOf(j)}}
Total(amount, s) == Cardinality(Units(amount, s))

\* The attempts that are charged for an invocation that is recorded; those of
\* its attempts that the books know of, and what they may have cost.  A timeout
\* before a retry leaves out all attempts but one.
Charges(i) == IF i \in timedOut THEN 1 ELSE sent[i]
Known(i) == Smaller(sent[i], Charges(i))
KnownCost(i) == IF i \in timedOut THEN Known(i) * WorstCost(i) ELSE spent[i]

\* maxModelInvocations bounds the attempts that reach the provider, those of
\* invocations that crashed or could not be recorded included, in every scope
\* and whatever runs at the same time - but for the attempts that a timeout
\* before a retry leaves out of the books (_reservation_plan, record, release).
AttemptsWithinLimit ==
  \A s \in Scopes : "invocations" \in DOMAIN Limit(s) =>
    Total([i \in Invocations |-> Known(i)], s) <= Limit(s)["invocations"]

\* maxCostUsd bounds what the same attempts may have cost, reported or not, as
\* long as none used more input than its ContextPackage counted.
MoneyWithinLimit ==
  \A s \in Scopes : "cost" \in DOMAIN Limit(s) =>
    s \in overrun \/ Total([i \in Invocations |-> KnownCost(i)], s) <= Limit(s)["cost"]

\* The limits of a scope hold for what was really sent and spent, where no
\* timeout before a retry has left attempts out.
SpendingWithinLimits == AttemptsWithinLimit /\ MoneyWithinLimit

\* The books balance: what is consumed was charged once, for the attempts that
\* were sent or, after a timeout before one, for one; what is reserved belongs
\* to an invocation that still needs it, ended without an answer, or left
\* attempts unaccounted for; record and release never give back what is
\* another's.  A scope is blocked for an attempt that nobody can account for or
\* for such a timeout: deferred and refused requests poison no ledger.
LedgersBalance ==
  \A s \in Scopes : (\E i \in Invocations : s \in ScopesOf(i) /\ Budgeted(i)) =>
    /\ used[s].invocations =
         Total([i \in Invocations |->
                  IF i \in recorded /\ Budgeted(i) THEN Charges(i) ELSE 0], s)
    /\ \A d \in Dimensions : held[s][d] = Total([i \in Invocations |-> share[i][d]], s)
    /\ s \in blocked => \E i \in unknown \cup timedOut : s \in ScopesOf(i)

\* Only usage beyond the estimate can exceed a limit, and a scope where what
\* is consumed and reserved exceeds one is marked (_apply_overruns).
OverrunIsMarked ==
  \A s \in Scopes : Exceeds(s, used, held) => s \in overrun

\* After an attempt whose cost nobody knows, no invocation is admitted in a
\* scope that bounds the cost, whether the attempt failed or a later one of
\* the same invocation succeeded (record's sticky decision, _check_scope).
UnknownSpendStops ==
  [][\A i \in Invocations, j \in unknown :
       pc[i] = "prepared" /\ pc'[i] = "reserved" =>
         Bounding(i, "cost") \cap ScopesOf(j) = {}]_vars

\* "If the Model also omits tokenLimit, the coordinator derives a finite
\* per-attempt output cap from the remaining monetary allowance; when no safely
\* priced bound can be established, the invocation is blocked"
\* (docs/architecture/workflow-runtime.md, 8.1).
PricedOutputIsCapped ==
  \A i \in Invocations :
    pc[i] = "reserved" /\ Bounded(i, "cost") /\ OutputPrice > 0 => grant[i].cap > 0
=============================================================================
