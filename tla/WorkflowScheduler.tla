------------------------- MODULE WorkflowScheduler -------------------------
(***************************************************************************)
(* One WorkflowExecution, from the pending outbox row that asks for it to  *)
(* its terminal status: the reconcile() of src/aep/workflow_scheduler.py   *)
(* over a DurableJsonRuntimeObjectStore, the runner and the consumer of    *)
(* src/aep/dogfood_runtime.py that call it, and the operator's             *)
(* "aep approvals decide" of src/aep/approval.py, a process of its own.    *)
(*                                                                         *)
(* The grain is one store call: a mutation runs under the store's          *)
(* cross-process fence and becomes visible with one file replacement, so   *)
(* it is one step; everything a reconciler does between two calls is       *)
(* private to it.  What a reconciler read is kept in snap and may be stale *)
(* when it is used.  A store call can fail before its replacement (nothing *)
(* happened) or after it (it happened, and the caller gets an error); a    *)
(* failure that no handler catches leaves reconcile() like a crash does,   *)
(* so Crash stands for both.                                               *)
(***************************************************************************)
EXTENDS RuntimeRecords

CONSTANTS
  Consumers,     \* the reconcilers that are the outbox consumer's thread;
                 \* the others call reconcile() and nothing else
  Results,       \* the outcomes a handler may report
  Rounds,        \* reconcile() calls per run: 2 * Cardinality(Tasks) + 1
  Calls,         \* bound on the reconcile() calls of one that is no consumer
  MaxFaults,     \* bound on the store faults that a handler catches
  MaxCrashes     \* bound on the processes that die or abandon a call

ASSUME SchedulerAssumption ==
  /\ Consumers \subseteq Reconcilers
  /\ Results \subseteq (Outcomes \ {"policy"})
  /\ Rounds \in Nat \ {0} /\ Calls \in Nat
  /\ MaxFaults \in Nat /\ MaxCrashes \in Nat

VARIABLES
  \* The durable store and the SQLite outbox.
  task,        \* [Attempts -> TaskRecord]
  approval,    \* [Attempts -> [gates -> ApprovalStatuses]]
  events,      \* SUBSET (Attempts \X EventTypes): ExecutionEvents, whose ids
               \* are derived from the pair, so that a repetition is no event
  members,     \* WorkflowExecution.taskExecutionIds
  wf,          \* WorkflowExecution.status
  outbox,      \* the row: PENDING, COMPLETED, or RETIRED (COMPLETED, with a
               \* row in reconciliation_failures)
  \* Private to each reconciler; lost when it crashes.
  pc,          \* the part of reconcile(), or of the run around it
  round,       \* reconcile() calls begun
  todo,        \* pairs <<attempt, gate>> left in this part (gate 0: unused)
  snap,        \* the records as this part read them
  sched,       \* attempts scheduled by this pass and not yet started
  cur,         \* the attempt in hand
  held,        \* what the last call or the handler returned
  \* The operator, the clock, and the bounds.
  cliWake,     \* <<attempt, gate>> decided APPROVED, its wake-up not yet made
  due,         \* attempts whose retryNotBefore has passed
  faults, crashes,
  \* History.
  runs,        \* [Attempts -> Nat], how often the handler was invoked
  wakes        \* [Attempts -> Nat], how often a wait ended in a wake-up

store   == <<task, approval, events, members, wf, outbox>>
private == <<pc, round, todo, snap, sched, cur, held>>
outside == <<cliWake, due>>
bounds  == <<faults, crashes>>
history == <<runs, wakes>>
vars    == <<store, private, outside, bounds, history>>

ApprovalStatuses == {"NONE", "PENDING", "APPROVED", "REJECTED"}
EventTypes == {"Queued", "Started", "AwaitingApproval", "Succeeded", "Failed"}
Phases == {"idle", "requests", "wakeups", "rejects", "repair", "create",
           "dispatch", "start", "resume", "recover", "claim", "execute",
           "evidence", "reevidence", "terminal", "wait", "request", "outcome",
           "commit", "settle"}
Holdings == Outcomes \cup {"none", "pre_commit", "post_commit",
                           "SUCCEEDED", "FAILED"}

TerminalEvent(outcome) == IF outcome = "success" THEN "Succeeded" ELSE "Failed"

NoSnap == [a \in Attempts |-> NoRecord]

Init ==
  /\ task = NoSnap
  /\ approval = [a \in Attempts |-> [g \in AllGates |-> "NONE"]]
  /\ events = {} /\ members = {} /\ wf = "RUNNING" /\ outbox = "PENDING"
  /\ pc = [r \in Reconcilers |-> "idle"]
  /\ round = [r \in Reconcilers |-> 0]
  /\ todo = [r \in Reconcilers |-> {}]
  /\ snap = [r \in Reconcilers |-> NoSnap]
  /\ sched = [r \in Reconcilers |-> {}]
  /\ cur = [r \in Reconcilers |-> None]
  /\ held = [r \in Reconcilers |-> "none"]
  /\ cliWake = {} /\ due = {}
  /\ faults = 0 /\ crashes = 0
  /\ runs = [a \in Attempts |-> 0]
  /\ wakes = [a \in Attempts |-> 0]

-----------------------------------------------------------------------------
(* Moving between the parts of a pass.                                     *)

Limit(r) == IF r \in Consumers THEN Rounds ELSE Calls

Goto(r, phase) == pc' = [pc EXCEPT ![r] = phase]

\* A fault the code catches.
Fault == faults < MaxFaults /\ faults' = faults + 1

NoFault == UNCHANGED faults

\* The reconciler forgets everything; a consumer's next run starts over.
Forget(r) ==
  /\ Goto(r, "idle")
  /\ todo' = [todo EXCEPT ![r] = {}]
  /\ snap' = [snap EXCEPT ![r] = NoSnap]
  /\ sched' = [sched EXCEPT ![r] = {}]
  /\ cur' = [cur EXCEPT ![r] = None]
  /\ held' = [held EXCEPT ![r] = "none"]
  /\ round' = IF r \in Consumers THEN [round EXCEPT ![r] = 0] ELSE round

\* A RuntimeStoreError (StatusConflictError is one) leaves reconcile(); the
\* consumer keeps the row pending.
LeaveRecoverable(r) == Forget(r) /\ UNCHANGED store

\* A ValueError leaves reconcile(); the consumer takes it for a CONFIGURATION
\* failure and calls mark_failed.
LeaveValueError(r) ==
  /\ Forget(r)
  /\ outbox' = IF r \in Consumers THEN "RETIRED" ELSE outbox
  /\ UNCHANGED <<task, approval, events, members, wf>>

\* "continue": give the attempt in hand up, go on with the next one.
Skip(r) ==
  /\ Goto(r, "dispatch")
  /\ cur' = [cur EXCEPT ![r] = None]
  /\ todo' = [todo EXCEPT ![r] = {}]
  /\ held' = [held EXCEPT ![r] = "none"]
  /\ UNCHANGED <<round, snap, sched>>

\* The pairs a part of reconcile() finds in its listing.
Listed(phase) ==
  CASE phase = "requests" ->
         {<<a, task[a].intent>> : a \in {b \in Attempts :
            task[b].status = "AWAITING_APPROVAL" /\ task[b].intent # 0}}
    [] phase = "wakeups" ->
         {p \in Attempts \X AllGates : approval[p[1]][p[2]] = "APPROVED"}
    [] phase = "rejects" ->
         {p \in Attempts \X AllGates :
            /\ task[p[1]].status = "AWAITING_APPROVAL"
            /\ task[p[1]].approvalId = p[2]
            /\ approval[p[1]][p[2]] = "REJECTED"}
    [] phase = "repair" ->
         {<<a, 0>> : a \in {b \in Attempts : task[b].status # "NONE"}}
    [] phase = "create" -> {<<a, 0>> : a \in ReadyWave(task, due)}
    [] OTHER -> {}

\* Begin a part: list the runtime objects and keep what it has to do.
Enter(r, phase) ==
  /\ Goto(r, phase)
  /\ todo' = [todo EXCEPT ![r] = Listed(phase)]
  /\ snap' = [snap EXCEPT ![r] = task]

\* The consumer finds the row pending and the WorkflowExecution RUNNING, or a
\* run goes on to its next call; a terminal WorkflowExecution ends a run that
\* has not begun, and is an InvalidSchedulerInputError later.
BeginPass(r) ==
  /\ pc[r] = "idle" /\ round[r] < Limit(r)
  /\ r \in Consumers => outbox = "PENDING"
  /\ r \notin Consumers => wf = "RUNNING"
  /\ IF wf = "RUNNING"
     THEN /\ Enter(r, "requests")
          /\ round' = [round EXCEPT ![r] = @ + 1]
          /\ UNCHANGED <<sched, cur, held, store>>
     ELSE IF round[r] = 0
          THEN /\ Goto(r, "settle")
               /\ UNCHANGED <<todo, snap, sched, cur, held, round, store>>
          ELSE LeaveValueError(r)
  /\ UNCHANGED <<outside, bounds, history>>

\* Bug: wake-ups that were interrupted are not repaired.
Bug_Following == [requests |-> "rejects", rejects |-> "repair",
                  repair |-> "create"]

\* The parts that come before the DAG is looked at, in the order of the code.
Following == [requests |-> "wakeups", wakeups |-> "rejects",
              rejects |-> "repair", repair |-> "create"]

-----------------------------------------------------------------------------
(* Approvals.                                                              *)

\* ApprovalGate.request -> create_approval_request: the Approval and its
\* binding to the task are one mutation, undone when it is refused.
Request(r, a, gate, expected, Continue) ==
  LET result == BindOutcome(task[a], gate, expected)
  IN  IF result = "value_error" THEN LeaveValueError(r)
      ELSE IF result = "conflict" THEN LeaveRecoverable(r)
      ELSE /\ approval' = [approval EXCEPT ![a][gate] =
                             IF @ = "NONE" THEN "PENDING" ELSE @]
           /\ task' = [task EXCEPT ![a].approvalId = gate]
           /\ Continue
           /\ UNCHANGED <<events, members, wf, outbox>>

\* _recover_pending_approval_requests: ask again for every approval that a
\* waiting task of the listing intends.
RecoverRequest(r) ==
  /\ pc[r] = "requests"
  /\ \E p \in todo[r] :
       Request(r, p[1], p[2], snap[r][p[1]].expected,
               /\ todo' = [todo EXCEPT ![r] = @ \ {p}]
               /\ UNCHANGED <<pc, round, snap, sched, cur, held>>)
  /\ UNCHANGED <<outside, bounds, history>>

\* wake_approved_task, called for an Approval that is APPROVED.
WakeTask(a, gate) ==
  IF WakeApplies(task[a], gate)
  THEN /\ task' = [task EXCEPT ![a] = Woken(@)]
       /\ wakes' = IF task[a].status = "AWAITING_APPROVAL"
                   THEN [wakes EXCEPT ![a] = @ + 1] ELSE wakes
  ELSE UNCHANGED <<task, wakes>>

\* _recover_approved_task_wakeups, for one Approval of its listing.
RecoverWakeup(r) ==
  /\ pc[r] = "wakeups"
  /\ \E p \in todo[r] :
       /\ WakeTask(p[1], p[2])
       /\ todo' = [todo EXCEPT ![r] = @ \ {p}]
  /\ UNCHANGED <<pc, round, snap, sched, cur, held, approval, events, members,
                 wf, outbox, outside, bounds, runs>>

\* _fail_rejected_approval_waits, for one waiting task of its listing.
FailRejected(r) ==
  /\ pc[r] = "rejects"
  /\ \E p \in todo[r] :
       IF UpdateAccepted(task[p[1]], "AWAITING_APPROVAL")
       THEN /\ task' = [task EXCEPT ![p[1]] = Finished(@, "policy")]
            /\ events' = events \cup {<<p[1], "Failed">>}
            /\ todo' = [todo EXCEPT ![r] = @ \ {p}]
            /\ UNCHANGED <<pc, round, snap, sched, cur, held, approval,
                           members, wf, outbox>>
       ELSE LeaveRecoverable(r)
  /\ UNCHANGED <<outside, bounds, history>>

\* ApprovalGate.decide by an authorized reviewer on the digest that was
\* requested: the decision is one checkpoint, the wake-up another.
Decide(a, gate, decision) ==
  /\ approval[a][gate] = "PENDING"
  /\ approval' = [approval EXCEPT ![a][gate] = decision]
  /\ cliWake' = IF decision = "APPROVED" THEN cliWake \cup {<<a, gate>>}
                ELSE cliWake
  /\ UNCHANGED <<task, events, members, wf, outbox, private, due, bounds,
                 history>>

\* decide again, by the reviewer who approved: the wake-up is repeated.
RepeatDecision(a, gate) ==
  /\ approval[a][gate] = "APPROVED" /\ <<a, gate>> \notin cliWake
  /\ cliWake' = cliWake \cup {<<a, gate>>}
  /\ UNCHANGED <<store, private, due, bounds, history>>

\* _wake_task, at the end of decide.
DecideWake(a, gate) ==
  /\ <<a, gate>> \in cliWake
  /\ cliWake' = cliWake \ {<<a, gate>>}
  /\ WakeTask(a, gate)
  /\ UNCHANGED <<approval, events, members, wf, outbox, private, due, bounds,
                 runs>>

\* The operator's process ends between the decision and the wake-up.
DecideCrash(a, gate) ==
  /\ crashes < MaxCrashes /\ crashes' = crashes + 1
  /\ <<a, gate>> \in cliWake
  /\ cliWake' = cliWake \ {<<a, gate>>}
  /\ UNCHANGED <<store, private, due, faults, history>>

-----------------------------------------------------------------------------
(* _repair_attempt_evidence and the creation of the ready wave.            *)

\* An attempt of this part whose record is known to exist.
Existing(r, a) == <<a, 0>> \in todo[r] /\ snap[r][a].status # "NONE"

\* The repair owes an attempt its TaskExecutionStarted too, once it has started.
StartedOwed(r, a) == pc[r] = "repair" /\ snap[r][a].started

Queued(r, a) ==
  /\ <<a, "Queued">> \in events
  /\ StartedOwed(r, a) => <<a, "Started">> \in events

\* Bug: the repair does not look for terminal events that are missing.
Bug_Unfinished(r, a) ==
  \/ snap[r][a].status = "NONE" \/ a \notin members \/ ~ Queued(r, a)
  \/ /\ pc[r] = "repair"
     /\ snap[r][a].status = "RUNNING" /\ snap[r][a].evidence # "none"

\* Whether a part has calls left that change anything for attempt a.
Unfinished(r, a) ==
  \/ snap[r][a].status = "NONE"
  \/ a \notin members
  \/ ~ Queued(r, a)
  \/ /\ pc[r] = "repair"
     /\ \/ snap[r][a].status = "RUNNING" /\ snap[r][a].evidence # "none"
        \/ /\ snap[r][a].status \in Terminal
           /\ <<a, TerminalEvent(IF snap[r][a].status = "SUCCEEDED"
                                 THEN "success" ELSE snap[r][a].failure)>>
                \notin events

\* The next part begins when this one has nothing left to do.  The ready wave
\* is created before any of it is started.
NextPhase(r) ==
  /\ pc[r] \in DOMAIN Following
  /\ IF pc[r] = "repair"
     THEN \A p \in todo[r] : ~ Unfinished(r, p[1])
     ELSE todo[r] = {}
  /\ Enter(r, Following[pc[r]])
  /\ UNCHANGED <<round, sched, cur, held, store, outside, bounds, history>>

WaveCreated(r) ==
  /\ pc[r] = "create"
  /\ \A p \in todo[r] : ~ Unfinished(r, p[1])
  /\ Goto(r, "dispatch")
  /\ sched' = [sched EXCEPT ![r] = {p[1] : p \in todo[r]}]
  /\ todo' = [todo EXCEPT ![r] = {}]
  /\ UNCHANGED <<round, snap, cur, held, store, outside, bounds, history>>

\* append_task_execution_id; a terminal WorkflowExecution takes no new one.
Attach(r) ==
  /\ pc[r] \in {"repair", "create"}
  /\ \E a \in Attempts :
       /\ Existing(r, a) /\ a \notin members
       /\ IF wf = "RUNNING"
          THEN /\ members' = members \cup {a}
               /\ UNCHANGED <<private, task, approval, events, wf, outbox>>
          ELSE LeaveRecoverable(r)
  /\ UNCHANGED <<outside, bounds, history>>

\* TaskExecutionQueued, and in the repair TaskExecutionStarted if startedAt is
\* recorded.  The start commit wrote the latter with startedAt, so the second of
\* the two calls finds its event there.
EmitQueued(r) ==
  /\ pc[r] \in {"repair", "create"}
  /\ \E a \in Attempts :
       /\ Existing(r, a) /\ a \in members /\ ~ Queued(r, a)
       /\ events' = events \cup {<<a, "Queued">>}
                    \cup (IF StartedOwed(r, a) THEN {<<a, "Started">>} ELSE {})
  /\ UNCHANGED <<private, task, approval, members, wf, outbox, outside, bounds,
                 history>>

\* A RUNNING attempt of the listing whose body has reported: take the report
\* for its outcome.
RepairMarker(r) ==
  /\ pc[r] = "repair"
  /\ \E a \in Attempts :
       /\ Existing(r, a) /\ a \in members /\ Queued(r, a)
       /\ snap[r][a].status = "RUNNING" /\ snap[r][a].evidence # "none"
       /\ IF UpdateAccepted(task[a], "RUNNING")
          THEN /\ task' = [task EXCEPT ![a] = Finished(@, snap[r][a].evidence)]
               /\ snap' = [snap EXCEPT ![r][a] =
                             Finished(@, snap[r][a].evidence)]
               /\ UNCHANGED <<pc, round, todo, sched, cur, held, approval,
                              events, members, wf, outbox>>
          ELSE LeaveRecoverable(r)
  /\ UNCHANGED <<outside, bounds, history>>

\* The terminal event of an attempt that the listing, or RepairMarker, shows
\* terminal.
EmitTerminal(r) ==
  /\ pc[r] = "repair"
  /\ \E a \in Attempts :
       /\ Existing(r, a) /\ a \in members /\ Queued(r, a)
       /\ snap[r][a].status \in Terminal
       /\ Unfinished(r, a)
       /\ events' = events \cup
            {<<a, TerminalEvent(IF snap[r][a].status = "SUCCEEDED"
                                THEN "success" ELSE snap[r][a].failure)>>}
  /\ UNCHANGED <<private, task, approval, members, wf, outbox, outside, bounds,
                 history>>

\* _create_attempt and lifecycle.retry: the key is the task and the attempt
\* number, so the record of another reconciler is returned as it stands.
CreateAttempt(r) ==
  /\ pc[r] = "create"
  /\ \E a \in Attempts :
       /\ <<a, 0>> \in todo[r] /\ snap[r][a].status = "NONE"
       /\ task' = [task EXCEPT ![a] = IF @.status = "NONE" THEN NewRecord ELSE @]
       /\ snap' = [snap EXCEPT ![r][a] = task'[a]]
  /\ UNCHANGED <<pc, round, todo, sched, cur, held, approval, events, members,
                 wf, outbox, outside, bounds, history>>

-----------------------------------------------------------------------------
(* Starting, claiming and running the attempts of the wave, one at a time. *)

\* The next scheduled attempt.  One that the pass read as started but not
\* dispatched is resumed, with a diagnostic of the interruption.
Take(r) ==
  /\ pc[r] = "dispatch" /\ cur[r] = None
  /\ \E a \in sched[r] :
       /\ cur' = [cur EXCEPT ![r] = a]
       /\ sched' = [sched EXCEPT ![r] = @ \ {a}]
       /\ Goto(r, IF snap[r][a].status # "RUNNING" \/ snap[r][a].dispatch # "PENDING"
                  THEN "start"
                  ELSE IF snap[r][a].diagnosed THEN "claim" ELSE "resume")
  /\ UNCHANGED <<round, todo, snap, held, store, outside, bounds, history>>

\* _persist_recovered_start_diagnostics, for a start that was interrupted.
Resume(r) ==
  LET a == cur[r]
  IN  /\ pc[r] = "resume"
      /\ \/ /\ NoFault
            /\ IF UpdateAccepted(task[a], "RUNNING")
               THEN /\ task' = [task EXCEPT ![a].diagnosed = TRUE]
                    /\ Goto(r, "claim")
                    /\ UNCHANGED <<round, todo, snap, sched, cur, held>>
               ELSE Skip(r) /\ UNCHANGED task
         \/ Fault /\ Skip(r) /\ UNCHANGED task
      /\ UNCHANGED <<approval, events, members, wf, outbox, outside, crashes,
                     history>>

\* The start commit: status, dispatchState and TaskExecutionStarted in one
\* checkpoint.  A fault of the checkpoint is recovered in place; one before it,
\* of the fence or of reading the file, leaves the attempt for another pass.
Start(r) ==
  LET a        == cur[r]
      accepted == StartAccepted(task[a], snap[r][a])
      Commit   == /\ task' = [task EXCEPT ![a] = Started(@, FALSE)]
                  /\ events' = events \cup {<<a, "Started">>}
      Keep(phase, what) == /\ Goto(r, phase)
                           /\ held' = [held EXCEPT ![r] = what]
                           /\ UNCHANGED <<round, todo, snap, sched, cur>>
  IN  /\ pc[r] = "start"
      /\ \/ /\ NoFault
            /\ IF accepted THEN Commit /\ Keep("claim", "none")
               ELSE Skip(r) /\ UNCHANGED <<task, events>>
         \/ Fault /\ (Keep("recover", "pre_commit") \/ Skip(r)) /\ UNCHANGED <<task, events>>
         \/ Fault /\ accepted /\ Commit /\ Keep("recover", "post_commit")
      /\ UNCHANGED <<approval, members, wf, outbox, outside, crashes, history>>

\* _recover_durable_start: start again what is still PENDING, or adopt a start
\* that the fault did not prevent.  Its read and its write are one step: a
\* conflict between them leaves reconcile() as Crash does.
Recover(r) ==
  LET a == cur[r]
      Restart == /\ task' = [task EXCEPT ![a] = Started(@, TRUE)]
                 /\ events' = events \cup {<<a, "Started">>}
  IN  /\ pc[r] = "recover"
      /\ IF task[a].status = "PENDING"
         THEN /\ Restart
              /\ \/ /\ NoFault
                    /\ Goto(r, "claim")
                    /\ held' = [held EXCEPT ![r] = "none"]
                 \/ /\ Fault
                    /\ held' = [held EXCEPT ![r] = "post_commit"]
                    /\ UNCHANGED pc
              /\ UNCHANGED <<round, todo, snap, sched, cur, approval, members,
                             wf, outbox>>
         ELSE /\ NoFault
              /\ IF held[r] = "post_commit" /\ task[a].status = "RUNNING"
                 THEN /\ task' = [task EXCEPT ![a].diagnosed = TRUE]
                      /\ Goto(r, "claim")
                      /\ held' = [held EXCEPT ![r] = "none"]
                      /\ UNCHANGED <<round, todo, snap, sched, cur, approval,
                                     events, members, wf, outbox>>
                 ELSE LeaveRecoverable(r)
      /\ UNCHANGED <<outside, crashes, history>>

\* _claim_durable_dispatch.  A claim that was made although its call failed is
\* recognised by its owner id and adopted, so the fault changes nothing; one
\* that was not made gives the attempt up until the next pass.
Claim(r) ==
  LET a == cur[r]
  IN  /\ pc[r] = "claim"
      /\ \/ /\ NoFault
            /\ IF ClaimAccepted(task[a])
               THEN /\ task' = [task EXCEPT ![a].dispatch = "CLAIMED",
                                            ![a].owner = r]
                    /\ snap' = [snap EXCEPT ![r][a] = task'[a]]
                    /\ Goto(r, "execute")
                    /\ UNCHANGED <<round, todo, sched, cur, held>>
               ELSE Skip(r) /\ UNCHANGED task
         \/ Fault /\ Skip(r) /\ UNCHANGED task
      /\ UNCHANGED <<approval, events, members, wf, outbox, outside, crashes,
                     history>>

\* The handler runs.  It passes its gates in order and has its outward effect
\* behind the last one; an approval is looked up among the persisted ones.
Execute(r) ==
  LET a    == cur[r]
      open == {g \in 1 .. Gates[a[1]] : approval[a][g] # "APPROVED"}
      Report(outcome) == /\ held' = [held EXCEPT ![r] = outcome]
                         /\ Goto(r, "evidence")
                         /\ UNCHANGED todo
  IN  /\ pc[r] = "execute"
      /\ \/ \E o \in Results : (o = "success" => open = {}) /\ Report(o)
         \/ \E g \in open :
              /\ \A h \in open : g <= h
              /\ IF approval[a][g] = "REJECTED"
                 THEN Report("policy")
                 ELSE /\ todo' = [todo EXCEPT ![r] = {<<a, g>>}]
                      /\ Goto(r, "wait")
                      /\ UNCHANGED held
      /\ runs' = [runs EXCEPT ![a] = @ + 1]
      /\ UNCHANGED <<store, round, snap, sched, cur, outside, bounds, wakes>>

-----------------------------------------------------------------------------
(* Recording what the handler reported.                                    *)

\* _persist_terminal_evidence: the report becomes durable before the status
\* that follows from it.  One fault of the checkpoint, which may have happened
\* or not, is answered by writing again.
PersistEvidence(r) ==
  LET a == cur[r]
      Write == task' = [task EXCEPT ![a].evidence = held[r]]
  IN  /\ pc[r] = "evidence"
      /\ IF UpdateAccepted(task[a], "RUNNING")
         THEN /\ \/ NoFault /\ Write /\ Goto(r, "terminal")
                 \/ Fault /\ (Write \/ UNCHANGED task) /\ Goto(r, "reevidence")
              /\ UNCHANGED <<round, todo, snap, sched, cur, held, approval,
                             events, members, wf, outbox>>
         ELSE NoFault /\ LeaveRecoverable(r)
      /\ UNCHANGED <<outside, crashes, history>>

\* The second write keeps the diagnostic of the first with the report.
RetryEvidence(r) ==
  LET a == cur[r]
  IN  /\ pc[r] = "reevidence"
      /\ IF UpdateAccepted(task[a], "RUNNING")
         THEN /\ task' = [task EXCEPT ![a].evidence = held[r],
                                      ![a].diagnosed = TRUE]
              /\ Goto(r, "terminal")
              /\ UNCHANGED <<round, todo, snap, sched, cur, held, approval,
                             events, members, wf, outbox>>
         ELSE LeaveRecoverable(r)
      /\ UNCHANGED <<outside, bounds, history>>

\* The terminal commit: status, failure and terminal event in one checkpoint.
\* Another reconciler may have taken the evidence for the outcome by now.
CommitTerminal(r) ==
  LET a == cur[r]
  IN  /\ pc[r] = "terminal"
      /\ IF UpdateAccepted(task[a], "RUNNING")
         THEN /\ task' = [task EXCEPT ![a] = Finished(@, held[r])]
              /\ events' = events \cup {<<a, TerminalEvent(held[r])>>}
              /\ Skip(r)
              /\ UNCHANGED <<approval, members, wf, outbox>>
         ELSE LeaveRecoverable(r)
      /\ UNCHANGED <<outside, bounds, history>>

\* The attempt waits; the request it intends is committed with the wait.
CommitWait(r) ==
  LET a == cur[r]
  IN  /\ pc[r] = "wait"
      /\ IF UpdateAccepted(task[a], "RUNNING")
         THEN /\ task' = [task EXCEPT
                            ![a].status   = "AWAITING_APPROVAL",
                            ![a].intent   = CHOOSE g \in AllGates :
                                              <<a, g>> \in todo[r],
                            ![a].expected = snap[r][a].approvalId]
              /\ events' = events \cup {<<a, "AwaitingApproval">>}
              /\ Goto(r, "request")
              /\ UNCHANGED <<round, todo, snap, sched, cur, held, approval,
                             members, wf, outbox>>
         ELSE LeaveRecoverable(r)
      /\ UNCHANGED <<outside, bounds, history>>

\* The request itself, a checkpoint of its own.
RequestApproval(r) ==
  /\ pc[r] = "request"
  /\ \E p \in todo[r] :
       Request(r, p[1], p[2], snap[r][p[1]].approvalId, Skip(r))
  /\ UNCHANGED <<outside, bounds, history>>

-----------------------------------------------------------------------------
(* The end of a pass, of a run, and of the workflow.                       *)

\* Bug: the run stops one call short.
Bug_LastRound(r) == r \in Consumers /\ round[r] >= Rounds - 1

LastRound(r) == r \in Consumers /\ round[r] = Rounds

\* The wave is done.  A consumer calls reconcile() again, Rounds times.
EndPass(r) ==
  /\ pc[r] = "dispatch" /\ cur[r] = None /\ sched[r] = {}
  /\ Goto(r, IF LastRound(r) THEN "outcome" ELSE "idle")
  /\ snap' = [snap EXCEPT ![r] = NoSnap]
  /\ UNCHANGED <<round, todo, sched, cur, held, store, outside, bounds, history>>

\* The runner lists the attempts and draws its conclusion from the listing.
ReadOutcome(r) ==
  /\ pc[r] = "outcome"
  /\ IF InFlight(task)
     THEN Goto(r, "settle") /\ UNCHANGED held
     ELSE /\ Goto(r, "commit")
          /\ held' = [held EXCEPT ![r] = IF AllSucceeded(task) THEN "SUCCEEDED"
                                         ELSE "FAILED"]
  /\ UNCHANGED <<round, todo, snap, sched, cur, store, outside, bounds, history>>

\* The conclusion and its WorkflowExecution event are one checkpoint; a
\* workflow that is no longer RUNNING is left alone.
CommitOutcome(r) ==
  /\ pc[r] = "commit"
  /\ wf' = IF wf = "RUNNING" THEN held[r] ELSE wf
  /\ Goto(r, "settle")
  /\ held' = [held EXCEPT ![r] = "none"]
  /\ UNCHANGED <<round, todo, snap, sched, cur, task, approval, events, members,
                 outbox, outside, bounds, history>>

\* is_reconciliation_complete and mark_completed.
Settle(r) ==
  /\ pc[r] = "settle"
  /\ outbox' = IF wf # "RUNNING" THEN "COMPLETED" ELSE outbox
  /\ Forget(r)
  /\ UNCHANGED <<task, approval, events, members, wf, outside, bounds, history>>

\* The consumer polls an outbox without pending rows.
IdlePoll ==
  /\ outbox # "PENDING" /\ \A r \in Reconcilers : pc[r] = "idle"
  /\ UNCHANGED vars

\* The process of reconciler r dies, or a failure that nothing catches leaves
\* reconcile(): what it did to the store stays, the rest is forgotten.
Crash(r) ==
  /\ crashes < MaxCrashes /\ crashes' = crashes + 1
  /\ pc[r] # "idle"
  /\ Forget(r)
  /\ UNCHANGED <<store, outside, faults, history>>

\* The retryNotBefore of a deferred failure passes.
TimePasses ==
  /\ \E a \in Attempts : /\ task[a].failure = "deferred" /\ a \notin due
                         /\ due' = due \cup {a}
  /\ UNCHANGED <<store, private, cliWake, bounds, history>>

-----------------------------------------------------------------------------
Recovery(r) == RecoverRequest(r) \/ RecoverWakeup(r) \/ FailRejected(r)

Listing(r) == \/ NextPhase(r) \/ WaveCreated(r) \/ Attach(r) \/ EmitQueued(r)
              \/ RepairMarker(r) \/ EmitTerminal(r) \/ CreateAttempt(r)

Dispatch(r) == Take(r) \/ Resume(r) \/ Start(r) \/ Recover(r) \/ Claim(r)

Handling(r) == \/ Execute(r) \/ PersistEvidence(r) \/ RetryEvidence(r)
               \/ CommitTerminal(r) \/ CommitWait(r) \/ RequestApproval(r)

Ending(r) == EndPass(r) \/ ReadOutcome(r) \/ CommitOutcome(r) \/ Settle(r)

\* What reconciler r does of its own accord.
Step(r) ==
  BeginPass(r) \/ Recovery(r) \/ Listing(r) \/ Dispatch(r) \/ Handling(r)
    \/ Ending(r)

Operator ==
  \E a \in Attempts : \E g \in AllGates :
    \/ Decide(a, g, "APPROVED") \/ Decide(a, g, "REJECTED")
    \/ RepeatDecision(a, g) \/ DecideWake(a, g) \/ DecideCrash(a, g)

Next ==
  \/ \E r \in Reconcilers : Step(r) \/ Crash(r)
  \/ Operator
  \/ TimePasses
  \/ IdlePoll

Spec == Init /\ [][Next]_vars

\* The consumer's thread polls for ever, a handler returns (its tools and its
\* model calls have timeouts), and the clock runs.  Nothing is assumed of the
\* operator, and nothing prevents a crash.
FairSpec ==
  /\ Spec
  /\ \A r \in Consumers : WF_vars(Step(r))
  /\ WF_vars(TimePasses)

-----------------------------------------------------------------------------
(* What the runtime promises.                                              *)

StoreType ==
  /\ task \in [Attempts -> TaskRecord]
  /\ approval \in [Attempts -> [AllGates -> ApprovalStatuses]]
  /\ events \subseteq Attempts \X EventTypes
  /\ members \subseteq Attempts
  /\ wf \in {"RUNNING", "SUCCEEDED", "FAILED"}
  /\ outbox \in {"PENDING", "COMPLETED", "RETIRED"}

PrivateType ==
  /\ pc \in [Reconcilers -> Phases]
  /\ round \in [Reconcilers -> Nat]
  /\ todo \in [Reconcilers -> SUBSET (Attempts \X Binding)]
  /\ snap \in [Reconcilers -> [Attempts -> TaskRecord]]
  /\ sched \in [Reconcilers -> SUBSET Attempts]
  /\ cur \in [Reconcilers -> Attempts \cup {None}]
  /\ held \in [Reconcilers -> Holdings]

RestType ==
  /\ cliWake \subseteq Attempts \X AllGates
  /\ due \subseteq Attempts
  /\ faults \in Nat /\ crashes \in Nat
  /\ runs \in [Attempts -> Nat] /\ wakes \in [Attempts -> Nat]

\* Every variable keeps to its type: the JSON record of a TaskExecution, the
\* status of an Approval, the place of a reconciler in its pass.
TypeOK == StoreType /\ PrivateType /\ RestType

\* The phases in which a reconciler holds the dispatch of an attempt.
Holding == {"execute", "evidence", "reevidence", "terminal", "wait"}

\* claim_task_dispatch gives one dispatch to one reconciler: whoever runs an
\* attempt, or has its report in hand, is the owner on record.  Two reconcilers
\* that both passed the start and the claim would break it.
ExecutorOwnsAttempt ==
  \A r \in Reconcilers :
    pc[r] \in Holding =>
      /\ cur[r] \in Attempts
      /\ task[cur[r]].dispatch = "CLAIMED" /\ task[cur[r]].owner = r

\* A handler, whose effects are not repeatable, is invoked once per dispatch:
\* once for the attempt and once for each wake-up, whatever crashes, faults and
\* other reconcilers do.
AtMostOncePerWake == \A a \in Attempts : runs[a] <= wakes[a] + 1

\* "After an approval, the task returns to PENDING and is dispatched once."
OneRunPerApproval ==
  \A a \in Attempts :
    runs[a] <= 1 + Cardinality({g \in AllGates : approval[a][g] = "APPROVED"})

\* "A valid approval wakes only the task's current request": one approval ends
\* one wait.
OneWakePerApproval ==
  \A a \in Attempts :
    wakes[a] <= Cardinality({g \in AllGates : approval[a][g] = "APPROVED"})

\* What the handler reported, once durable, is what the attempt ends with, no
\* matter which reconciler carries it from the evidence to the status; and the
\* audit trail says of an attempt only what its record says: a terminal event
\* is there only for an attempt that ended that way.
ReportKept ==
  \A a \in Attempts :
    /\ task[a].status \in Terminal /\ task[a].evidence # "none" =>
         /\ task[a].status = StatusOf(task[a].evidence)
         /\ task[a].failure = FailureOf(task[a].evidence)
    /\ <<a, "Succeeded">> \in events => task[a].status = "SUCCEEDED"
    /\ <<a, "Failed">> \in events => task[a].status = "FAILED"

\* When the WorkflowExecution is terminal the trail has all of it: every
\* attempt is listed, was queued, was started if it ran, and ended.  Crashes and
\* faults between an attempt's checkpoints leave gaps that later passes close.
AuditComplete ==
  wf # "RUNNING" =>
    \A a \in Attempts :
      task[a].status # "NONE" =>
        /\ a \in members /\ <<a, "Queued">> \in events
        /\ runs[a] > 0 => <<a, "Started">> \in events
        /\ <<a, TerminalEvent(IF task[a].status = "SUCCEEDED" THEN "success"
                              ELSE task[a].failure)>> \in events

\* A workflow ends with nothing in flight, and succeeds only with every task.
WorkflowOutcomeSound ==
  /\ wf # "RUNNING" =>
       \A a \in Attempts : task[a].status \in Terminal \cup {"NONE"}
  /\ wf = "SUCCEEDED" =>
       \A t \in Tasks : \E n \in 1 .. MaxAttempts :
         task[<<t, n>>].status = "SUCCEEDED"

\* The row leaves the outbox only for terminal work.
RetiredOnlyWhenTerminal == outbox # "PENDING" => wf # "RUNNING"

\* A workflow fails only when no task has an attempt left that its recoverable
\* failure calls for: 2 * Cardinality(Tasks) + 1 calls of reconcile() are
\* enough, with a call lost to a fault.
RetriesExhausted ==
  wf = "FAILED" =>
    ~ \E a \in Attempts : /\ IsLatest(task, a) /\ a[2] < MaxAttempts
                          /\ task[a].status = "FAILED"
                          /\ task[a].failure \in {"recoverable", "deferred"}

\* A human is only asked for what still waits for the answer: a PENDING
\* Approval is the one its waiting task is bound to.  A stale reconciler that
\* repeats an older request would break it.
PendingApprovalIsAwaited ==
  \A a \in Attempts : \A g \in AllGates :
    approval[a][g] = "PENDING" =>
      task[a].status = "AWAITING_APPROVAL" /\ task[a].approvalId = g

\* The handler of an attempt never runs again after one of its approvals was
\* rejected, whichever older approvals are repeated or repaired.
RejectionIsFinal ==
  [][\A a \in Attempts :
       (\E g \in AllGates : approval[a][g] = "REJECTED") =>
         runs'[a] = runs[a]]_vars

\* An attempt whose dispatcher is gone before its report was durable.  The
\* runtime never repeats it: its handler may have had its effect.
Abandoned(a) ==
  /\ task[a].status = "RUNNING" /\ task[a].dispatch = "CLAIMED"
  /\ task[a].evidence = "none"
  /\ \A r \in Reconcilers : ~ (pc[r] \in Holding /\ cur[r] = a)

\* Without gates, every requested workflow ends and leaves the outbox, through
\* faults and crashes, unless an attempt is abandoned.
EventuallySettled ==
  <>(outbox = "COMPLETED" \/ \E a \in Attempts : Abandoned(a))

\* An approval is never lost: the task bound to it stops waiting even if the
\* operator's process dies between the decision and the wake-up.
ApprovalEventuallyWakes ==
  \A a \in Attempts : \A g \in AllGates :
    (/\ approval[a][g] = "APPROVED"
     /\ task[a].status = "AWAITING_APPROVAL" /\ task[a].approvalId = g)
      ~> task[a].status # "AWAITING_APPROVAL"

-----------------------------------------------------------------------------
(* The attempts as TaskAttempts sees them.                                 *)

AttemptState(a) ==
  CASE task[a].status = "NONE" -> "absent"
    [] task[a].status = "PENDING" -> "queued"
    [] task[a].status = "RUNNING" /\ runs[a] = wakes[a] -> "queued"
    [] task[a].status = "RUNNING" /\ runs[a] # wakes[a] -> "ran"
    [] task[a].status = "AWAITING_APPROVAL" -> "waiting"
    [] OTHER -> "done"

AttemptOutcome(a) ==
  CASE task[a].status = "SUCCEEDED" -> "success"
    [] task[a].status = "FAILED" -> task[a].failure
    [] OTHER -> "none"

Abstract == INSTANCE TaskAttempts WITH
              state   <- [a \in Attempts |-> AttemptState(a)],
              outcome <- [a \in Attempts |-> AttemptOutcome(a)],
              bodies  <- runs

\* The scheduler, its store, its crashes and its rivals implement the attempts
\* that TaskAttempts describes.
ImplementsTaskAttempts == Abstract!Spec
=============================================================================
