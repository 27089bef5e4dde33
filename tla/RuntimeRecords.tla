--------------------------- MODULE RuntimeRecords ---------------------------
(***************************************************************************)
(* The TaskExecution record of src/aep/runtime_store.py and the decisions  *)
(* the runtime takes by looking at one record (or at one listing of them): *)
(* when a store call is accepted, what it writes, and which attempts a     *)
(* reconciliation finds ready.  There is no state here; WorkflowScheduler  *)
(* gives these operators the records they are asked about.                 *)
(***************************************************************************)
EXTENDS Naturals, FiniteSets

CONSTANTS
  Tasks,        \* the nodes of the resolved TaskDagPlan
  Deps,         \* [Tasks -> SUBSET Tasks], the dependencies of each node
  MaxAttempts,  \* WorkflowScheduler(max_attempts=...)
  Gates,        \* [Tasks -> Nat], how many actions of the task's handler
                \* an evaluated Policy answers with REQUIRE_APPROVAL
  Reconcilers,  \* the schedulers that may reconcile the WorkflowExecution
  None          \* "no owner", "no attempt in hand"

ASSUME TasksAssumption ==
  /\ IsFiniteSet(Tasks)
  /\ MaxAttempts \in Nat \ {0}
  /\ Deps \in [Tasks -> SUBSET Tasks]
  /\ Gates \in [Tasks -> Nat]

ASSUME NoneAssumption == None \notin Reconcilers

\* A TaskExecution's identity is (taskRef, attempt): ids are uuid5 of the two.
Attempts == Tasks \X (1 .. MaxAttempts)

\* The gates of all tasks, in the order a handler reaches them.
AllGates == UNION {1 .. Gates[t] : t \in Tasks}

\* What a record says of its Approval: one of them, or 0 for none.
Binding == AllGates \cup {0}

Statuses == {"NONE", "PENDING", "RUNNING", "AWAITING_APPROVAL",
             "SUCCEEDED", "FAILED"}

\* TERMINAL_STATUSES, as far as a TaskExecution reaches them: no code of the
\* runtime cancels a TaskExecution, and EXPIRED/APPROVED/REJECTED are the
\* Approval's.
Terminal == {"SUCCEEDED", "FAILED"}

\* What a handler reports.  "deferred" is a recoverable failure whose
\* retryNotBefore lies in the future; "policy" and "permanent" are failures
\* that are never retried.
Outcomes == {"success", "recoverable", "deferred", "permanent", "policy"}

TaskRecord ==
  [status     : Statuses,
   dispatch   : {"none", "PENDING", "CLAIMED"},        \* dispatchState
   owner      : Reconcilers \cup {None},               \* dispatchOwnerId
   evidence   : Outcomes \cup {"none"},                \* terminalEvidence
   failure    : (Outcomes \ {"success"}) \cup {"none"},  \* failure.class
   approvalId : Binding,  \* the gate whose Approval is bound, 0 for none
   intent     : Binding,  \* pendingApprovalRequest: its gate, 0 for none
   expected   : Binding,  \* ... and its expectedCurrentApprovalId
   started    : BOOLEAN,    \* startedAt is set
   diagnosed  : BOOLEAN]    \* persistenceDiagnostics is not empty

NoRecord ==
  [status |-> "NONE", dispatch |-> "none", owner |-> None,
   evidence |-> "none", failure |-> "none", approvalId |-> 0,
   intent |-> 0, expected |-> 0, started |-> FALSE, diagnosed |-> FALSE]

NewRecord == [NoRecord EXCEPT !.status = "PENDING"]

StatusOf(outcome) == IF outcome = "success" THEN "SUCCEEDED" ELSE "FAILED"

FailureOf(outcome) == IF outcome = "success" THEN "none" ELSE outcome

-----------------------------------------------------------------------------
(* Store calls on one record.                                              *)

\* update_status moves the record from the status the caller read; a record
\* that is terminal accepts nothing but its own status again.
UpdateAccepted(rec, expected) ==
  /\ rec.status = expected
  /\ rec.status \notin Terminal

\* Bug: dispatchState is not a write-once field.
Bug_StartAccepted(rec, seen) == UpdateAccepted(rec, seen.status)

\* The start commit: update_status with dispatchState among the changes, a
\* write-once field that a second start may not replace.
StartAccepted(rec, seen) ==
  /\ UpdateAccepted(rec, seen.status)
  /\ rec.dispatch = "none"

Started(rec, withDiagnostic) ==
  [rec EXCEPT !.status = "RUNNING", !.dispatch = "PENDING", !.started = TRUE,
              !.diagnosed = @ \/ withDiagnostic]

\* Bug: a claim does not look at an earlier claim.
Bug_ClaimAccepted(rec) == rec.status = "RUNNING"

\* claim_task_dispatch.
ClaimAccepted(rec) == rec.status = "RUNNING" /\ rec.dispatch = "PENDING"

\* Bug: any approval of the task wakes it.
Bug_WakeApplies(rec, gate) == rec.status \in {"AWAITING_APPROVAL", "PENDING"}

\* Bug: a wake-up does not look at the status.
Bug_WakesAnything(rec, gate) == rec.approvalId = gate

\* wake_approved_task: only the approval the task is bound to wakes it.
WakeApplies(rec, gate) ==
  /\ rec.approvalId = gate
  /\ rec.status \in {"AWAITING_APPROVAL", "PENDING"}

Woken(rec) ==
  [rec EXCEPT !.status = "PENDING", !.dispatch = "none", !.owner = None]

\* Bug: expected_current_approval_id is not compared.
Bug_BindOutcome(rec, gate, expected) ==
  IF rec.status # "AWAITING_APPROVAL" THEN "value_error" ELSE "bound"

\* create_approval_request, the three ways it can go: the task no longer
\* waits (ValueError); its binding is another than the request expected
\* (StatusConflictError); or it is bound, now or already.
BindOutcome(rec, gate, expected) ==
  IF rec.status # "AWAITING_APPROVAL" THEN "value_error"
  ELSE IF rec.approvalId \notin {gate, expected} THEN "conflict"
  ELSE "bound"

\* Bug: a repaired attempt is always recorded as succeeded.
Bug_Finished(rec, outcome) == [rec EXCEPT !.status = "SUCCEEDED"]

Finished(rec, outcome) ==
  [rec EXCEPT !.status = StatusOf(outcome), !.failure = FailureOf(outcome)]

-----------------------------------------------------------------------------
(* What a reconciliation reads from one listing T of the attempts.         *)

\* Bug: a dependency that has merely ended unblocks its dependents.
Bug_DependenciesSucceeded(T, t) ==
  \A d \in Deps[t] : \E n \in 1 .. MaxAttempts : T[<<d, n>>].status \in Terminal

\* _succeeded_dependency_ids: every dependency has a successful attempt.
DependenciesSucceeded(T, t) ==
  \A d \in Deps[t] : \E n \in 1 .. MaxAttempts : T[<<d, n>>].status = "SUCCEEDED"

\* _attempts_by_task: attempt n is the last one persisted for its task.
IsLatest(T, a) ==
  /\ T[a].status # "NONE"
  /\ \A n \in 1 .. MaxAttempts : n > a[2] => T[<<a[1], n>>].status = "NONE"

\* _retry_is_ready: a recoverable failure whose retryNotBefore, if it has
\* one, has passed (due holds the attempts whose delay has elapsed).
RetryIsReady(rec, a, due) ==
  /\ rec.status = "FAILED"
  /\ rec.failure = "recoverable" \/ (rec.failure = "deferred" /\ a \in due)

\* Bug: an attempt that was started but not dispatched is not taken up again.
Bug_ReadyWave(T, due) ==
  {a \in Attempts :
     /\ DependenciesSucceeded(T, a[1])
     /\ \/ T[a].status = "NONE" /\ a[2] = 1
        \/ T[a].status = "PENDING"}

\* The ready wave: first attempts, attempts that were queued or started but
\* not dispatched, and the attempts that follow a failure ready for a retry.
ReadyWave(T, due) ==
  {a \in Attempts :
     /\ DependenciesSucceeded(T, a[1])
     /\ \/ /\ T[a].status = "NONE"
           /\ \/ a[2] = 1
              \/ /\ a[2] > 1
                 /\ IsLatest(T, <<a[1], a[2] - 1>>)
                 /\ RetryIsReady(T[<<a[1], a[2] - 1>>], <<a[1], a[2] - 1>>, due)
        \/ /\ IsLatest(T, a)
           /\ \/ T[a].status = "PENDING"
              \/ T[a].status = "RUNNING" /\ T[a].dispatch = "PENDING"}

\* Bug: an attempt that was dispatched is not counted as in flight.
Bug_InFlight(T) ==
  \E a \in Attempts : T[a].status \in {"PENDING", "AWAITING_APPROVAL"}

\* _has_in_flight_tasks.
InFlight(T) ==
  \E a \in Attempts : T[a].status \in {"PENDING", "RUNNING", "AWAITING_APPROVAL"}

\* The names of the successful attempts are the names of the plan's nodes.
AllSucceeded(T) ==
  \A t \in Tasks : \E n \in 1 .. MaxAttempts : T[<<t, n>>].status = "SUCCEEDED"
=============================================================================
