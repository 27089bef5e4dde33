# A TLA+ model of the agent engineering platform

The platform (`src/src/aep`) receives a GitHub event, resolves a Workflow with a
DAG of Tasks, runs the Tasks' handlers (context, model, patch, validation,
evaluation, pull request), keeps every fact about them in one durable JSON
store, and asks an operator before a gated action. Its hard part is small: a
scheduler, a store and a consumer that must carry a workflow to its end through
crashes, failing disks, rival processes and late decisions, *without running a
handler twice*. This project models that part, the checkpoint file beneath it, the
way of an event into it, and the services that handlers call: checkouts, budgets,
patches, validations in containers, the evidence they hand on, the publication.

## 1. The system

### 1.1 Components, their state and operations

| Component (file) | State it keeps | Operations | Correct when |
|---|---|---|---|
| Workflow scheduler (`workflow_scheduler.py`) | none of its own; what one `reconcile()` has read | recover approval requests, wake-ups, rejections; repair evidence; create, start, claim, execute, finish the ready wave | one run per dispatch; dependencies first; a report is never lost or replaced; every crash is repaired or visible |
| Runtime object store (`runtime_store.py`) | objects, deterministic keys, claims, leases; one checkpoint file | create, update_status, atomic transitions, claim, wake, bind approval, budget mutation, leases | every call is atomic across processes and crashes; terminal records and write-once fields never change |
| Approvals (`approval.py`, `inspection_cli.py approvals decide`) | Approval objects in the store | request, decide, wake | a decision is final, wakes the current wait only, and is not lost |
| Consumer and runner (`dogfood_runtime.py`) | an in-process lock | poll the outbox, run, draw the workflow's outcome, settle the row | a row leaves the outbox only for ended work; outcomes agree with the attempts |
| Webhook inbox/outbox (`github_webhook.py`, `webhook_dispatch.py`) | SQLite inbox, outbox, failures | submit, list, complete, fail | a delivery that was acknowledged is settled, once |
| Workflow creation, replay (`workflow_execution.py`, `execution_replay.py`) | WorkflowExecution, its lifecycle events | create, announce, replay | created once, pinned to one revision, its events numbered without gaps |
| Checkouts (`execution_checkout.py`) | SQLite registry of claims, a shared clone, worktrees | claim, renew, provision, publish, clean up | one process mutates the clone at a time; a checkout that is READY is whole, and gets ready after any crash that git survives |
| Budgets (`execution_budgets.py`) | consumption and reservations in the store | preflight, record, release | usage and reservations stay within the limits |
| Evaluation suites, experiments (`evaluation_suites.py`, `experiments.py`) | a lease and checkpoints | acquire, heartbeat, checkpoint, finish | one runner at a time |
| Rate limits (`model_rate_limits.py`) | request and token clocks on disk | admit, revalidate, observe | spacing is kept across processes |
| Publication (`create_pull_request.py`, `git_tool.py`, `github_tool.py`) | persisted Git and GitHub invocations, approvals | gates, commit, push, create, reconcile | one pull request per workflow, of what was accepted and authorized |
| Tools (`tool_runtime.py`, `docker_validation_tool.py`, `filesystem_tool.py`) | invocation records, containers | create or await, start, wait, terminate, kill, clean up | every caller is told what is on record; what is done has left nothing behind |
| Patches and artifacts (`generate_patch.py`, `patch_evaluation.py`, `generated_artifact_store.py`) | the working tree, content and metadata stores | apply, record, roll back, evaluate, publish | a failed attempt leaves nothing in the tree, but where the record of its undoing failed and was kept; an eligible patch is its own |
| Evidence (`analyze_issue.py` ... `evaluate_acceptance.py`) | EvaluationResults, attachments, artifacts | record, attach, publish, check, aggregate | acceptance rests on exactly the evidence of the attempts that succeeded |
| DAG, patches, policies, resources, context (`task_dag.py`, `localized_patch.py`, ...) | none | pure functions | equal to their definitions |

### 1.2 How they interact

The consumer's thread polls the outbox and, for each pending row, calls the
runner, which calls `reconcile()` `2 * nodes + 1` times and then draws the
outcome. All of them share state through the store only. The store holds a
cross-process file lock for the length of one call, restores the checkpoint,
applies the operation and replaces the file, so a call is atomic and everything
between two calls is not. The operator's `aep approvals decide` is a process of
its own on the same store. The scheduler's documentation allows several
reconcilers (`docs/architecture/workflow-runtime.md`); the deployment that is
documented runs one.

An event enters through the receiver, which commits it to the inbox and the outbox
in one SQLite transaction before it answers. The consumer reads the branch's
revision, has a checkout made for it, creates the execution and schedules it; a
second service process may do the same from the same files. Handlers work in that
checkout: the patch is applied to it, validated in a container, evaluated,
accepted, committed, pushed and published. They hand on records: each handler
reads and checks what the Tasks before it have stored and attached, and a Task that
is repeated starts from records of its own, in the same working tree.

### 1.3 What is hard

* interleavings of reconcilers, of the operator, and of one pass with what the
  store has become since the pass read it;
* crashes between any two store calls, and in a handler that may have had its
  effect;
* store calls that fail before or *after* the mutation became visible;
* a checkpoint file that several processes replace, and that a power loss may
  take back;
* decisions and wake-ups that come late, twice or never;
* bounded retry loops and delays that outlive them;
* claims of SQLite rows and directories that time out while a git command runs,
  and what a dead process leaves on the disk;
* deliveries, answers and results that come twice, late or not at all;
* records that are created in one call and attached in another, by an attempt that
  fails in between and is repeated;
* effects outside the store - a file, a commit, a push, a pull request, a container
  - whose record, or whose undoing, fails.

`PROJECT.json` lists these hazards line by line with the properties that would
catch them.

## 2. The modules

| Module | What it models |
|---|---|
| `RuntimeRecords` | the TaskExecution record, what each store call accepts and writes, and what `reconcile()` concludes from a listing. Operators only. |
| `WorkflowScheduler` | `reconcile()`, the runner, the consumer, `decide`, faults and crashes over that store |
| `TaskAttempts` | the abstract promise: an attempt runs when its dependencies have succeeded, once per dispatch, ends with its report, and is followed by another only after a recoverable failure |
| `DurableCheckpoint` | one call of the durable store, step by step: fence, cleanup, restore, operation, temporary file, sync, rename, directory sync, release; with failing steps, crashes and power losses |
| `AtomicStore` | the abstract promise: a call is one step, its answer can be relied on, what is acknowledged survives |
| `ExecutionBudget` | the budget ledgers of one workflow, its Tasks and Agents, and the invocations that reserve, call the provider and reconcile |
| `EventIntake` | from a delivery to a settled row: receiver, inbox, outbox, consumers, the creation of executions, redeployments, a branch that moves, replays |
| `CheckoutManager` | the registry of claims, a shared clone, the worktrees made from it, and the processes that provision and clean them up |
| `PatchApplication` | the attempts of generate-patch over one working tree: application, rollback, evaluation, publication |
| `EvidenceChain` | what analysis, plan, patch, validation and acceptance store, attach, reference and check |
| `ModelAdmission` | the request and token clocks of a provider, their state file, and the attempts that they pace |
| `DockerValidation` | one invocation of the validation Tool, its container and the calls that share it |
| `PullRequestPublication` | the create-pull-request Task over Git, GitHub and its persisted invocations |
| `GatedRelease` | the abstract promise: the accepted change goes out by an authorized commit, push and one pull request, in this order and for good; attempts follow each other |
| `MCScheduler`, `MCCheckpoint`, `MCBudget` | instances for TLC |
| `MCDeliveries`, `MCRetries`, `MCServices` | compositions for TLC (2.11) |
| `WorkflowSchedulerProofs`, `DurableCheckpointProofs`, `ExecutionBudgetProofs`, `EventIntakeProofs`, `CheckoutManagerProofs`, `PullRequestPublicationProofs` | theorems about the module of that name; those of the intake and the checkouts also about `MCDeliveries` and `MCRetries` |
| `TaskHandlerProofs` | theorems about `DockerValidation`, `PatchApplication` and `EvidenceChain` |
| `ServicesProofs` | theorems about `ModelAdmission`, and about `MCServices`, which puts the parts around the scheduler together |

How they fit together: `WorkflowScheduler` takes a store call for one step, with a
fault that happens before or after the mutation; `DurableCheckpoint` is why it
may: `AtomicStore` is that contract. It takes a handler for a choice of outcomes;
`PatchApplication`, `EvidenceChain`, `DockerValidation`, `ExecutionBudget`,
`ModelAdmission` and `PullRequestPublication` are what is inside of handlers. `EventIntake` takes the
scheduling of an execution for one step that ends or does not, which
`EventuallySettled` of the scheduler justifies, and the provisioning of a checkout
for another, which is `CheckoutManager`.

### 2.1 State and actions of `WorkflowScheduler`

`task`, `approval`, `events`, `members`, `wf` are the store; `outbox` is the row.
Each reconciler has a phase `pc` and what it holds between two store calls:
`snap` (the records as this part read them), `todo` (what the part still has to
do), `sched` (attempts scheduled and not yet started), `cur` (attempt in hand),
`held` (what the handler, or a failed call, returned), `round` (calls made).

One action is one store call together with the private code around it. In the
order of the code:

`BeginPass` → `RecoverRequest`\* → `RecoverWakeup`\* → `FailRejected`\* →
(`Attach`, `EmitQueued`, `RepairMarker`, `EmitTerminal`)\* → (`CreateAttempt`,
`Attach`, `EmitQueued`)\* → for each scheduled attempt `Take`, then `Start` /
`Recover` or `Resume`, `Claim`, `Execute`, and either `PersistEvidence` /
`RetryEvidence` and `CommitTerminal`, or `CommitWait` and `RequestApproval` →
`EndPass`; after the last pass `ReadOutcome`, `CommitOutcome`, `Settle`.

The operator is `Decide`, `RepeatDecision`, `DecideWake`, `DecideCrash`.

What the abstraction leaves out and why that is sound:

* calls that change nothing (an event that is already there, a member that is
  already listed) are not steps;
* the attempts of a wave are taken in any order; the code takes them in the
  order of the plan, so the model has more behaviours, not fewer;
* `Recover` reads and writes in one step; a conflict in between raises out of
  `reconcile()`, which is what `Crash` does; so does a fault where no handler
  catches one;
* a claim's owner is a fresh uuid per claim in the code and the reconciler's
  name here: a reconciler claims an attempt only when no claim is on record, so
  the two tell the same claims apart;
* a handler is a choice of outcome (`Results`), after its gates. A handler that
  raises is a recoverable failure, as in the code;
* expiry of approvals is left out: the scheduler never sets `expires_at`;
* the path for stores without atomic transitions is left out: the runtime uses
  the durable store.

### 2.2 State and actions of `DurableCheckpoint`

`file` is what the path names; `kept` and `loose` are what the disk would show
after a power loss: the checkpoint of the last directory sync, or one renamed
since. `lock` is the writer fence. Each process has one store object (`mem`), the
snapshot of `_mutate` (`saved`), its temporary file (`temp`), and where its call
is (`pc`, `call`, `verdict`). `answer` is what callers were told.

The contents of the store are the set of mutations that took effect; `Key` says
which mutations exclude each other (two claims of a key, two transitions of a
record). That is all the protocol depends on: it serialises and restores the
whole store at once.

`Begin` → `AcquireFence` → (`Cleanup` in the constructor) → `Restore` →
`Operate` → `WriteTemporary` → `SyncTemporary` → `Replace` → `SyncDirectory` →
`ReleaseFence`. Each of them but `Begin` and `Operate` may fail with an
`OSError` (`FailsFor`); a failure before the rename rolls memory back
(`RollBack`), a failed directory sync does not. `Restore` also fails on a torn
checkpoint and `Replace` when its temporary file is gone; the properties imply
that neither happens. `Crash` ends a process, whose descriptors and fence the
system frees; `PowerLoss` ends all of them.

Left out: serialisation and validation of the payload, diagnostics, the removal
of a temporary file that fails too (the next constructor repeats it), Windows
(where the fence does not block and a contended call fails instead), and the
threads of one process, which queue at the store's `RLock` before the fence.

### 2.3 State and actions of `ExecutionBudget`

`resources` is what was loaded: the budgets of the workflow, its override, the
Tasks and the Agents, and the Model's prices, `tokenLimit` and attempts. A ledger
per scope says what is `used` and `held` (reserved) of each dimension, whether the
scope is `blocked` by the sticky decision, and whether it is marked as `overrun`.
An invocation has a phase `pc`, its `grant` and the attempts `sent` to the
provider.

`Prepare` (resolution of the limits) → `Admit` or `Block` (`preflight`) →
`Attempt`\* → `Succeed`, `Fail` or `Timeout` (`record`), or `Withdraw` (`release`,
before any attempt). `Fail` charges the attempts that were sent. `Timeout` is the error
of `_remaining_ms` before an attempt, which carries no metadata: `_attempt_count` then
takes the default, and one attempt is charged, whether none or several were sent.
`Mutate` wraps each mutation of the ledgers: the store may report an error with or
without effect, and the invocation ends with it, because nothing repeats a charge.
`Crash` ends an invocation anywhere. `Plan` is the arithmetic of `_reservation_plan`,
with its loop that trades attempts for money.

`share`, `recorded`, `timedOut`, `unknown` and `spent` are history: what of the
reservations is whose, and what the provider may have been paid. `Charges` is what an
invocation is charged for, `Known` how many of its attempts the books know of, and
`KnownCost` what these may have cost: the limits are stated for them, because what a
timeout before a retry leaves out no limit can hold.

Left out or assumed:

* costs are integers, multiples of the smallest price; the code has fixed-point
  decimals of twelve places;
* a provider keeps to the output cap it is sent, and an attempt that reports no
  usage used no more input than was estimated. One that reports may exceed the
  estimate by `Overshoot`; its scope is then marked;
* the elapsed-time limit is a refusal that may come at any preflight of a scope
  that has one;
* two attempts of one Task do not run at once, which is `AtMostOncePerWake` of
  the scheduler's module together with its retry of an ended attempt only;
* `mutate_execution_budget` repeats a mutation refused as busy. One whose error is
  busy *after* the file was replaced would be applied twice; here it is not.

### 2.4 State and actions of `EventIntake`

`requests` is the outbox, `refused` its failures, `acknowledged` what GitHub got a
2xx for. `execution` holds for each Event and Workflow version the
WorkflowExecution with its lifecycle events and their numbers (`audit`); `bound` and
`peer` are the checkout's revision and the evaluation checkout beside it. `tip` is
the default branch, `deployed` and `loaded` the Workflow version of the deployment
and of each process. `stalled` are the executions that wait for somebody outside: for
the decision of a gate, or because a worker left the scheduling after a claim, whose
attempt then stays RUNNING. A worker has a `phase`, the `work` it is at and the
`revision` it read.

`Deliver` (with or without an answer that arrives) → `Poll` → `TakeRow` →
`ReadRevision` → `ProvisionWorkspace` → `CreateExecution` → `Announce` → `Clone` →
`Switch` → `Schedule` → `Check` → `Retire`, completed or refused. `Replay`, `StartReplay`,
`RefuseReplay` and `EndReplay` are the operator's. `Transient`, `ProvisionFails`,
`CloneFails` are the classes of errors that `run_once` tells apart, `EndProcess`
ends a process anywhere (`MayAbandon`: perhaps with a claim) and `Deploy`, `MoveBranch`
and `Resolve` - a decision, or an operator's repair - are the world.

Left out: signatures and payload checks, which refuse before there is any state;
shutdown and health reports.

### 2.5 State and actions of `CheckoutManager`

`record` and `cacheClaim` are the rows of the registry: a state, an owner and
whether the claim is live. `cache`, `workspace`, `branch`, `linked` are the disk: the
bare clone, each worktree, the branches and the worktree list in the clone. A
worker has a place (`at`), a `job`, a `mode` and a git mutation it is `doing`.

`Request` → `Claim` → `ClaimCache` → `Source` → `Fetch` → `Drift` or `Recover` (what
a predecessor has left: remove the worktree, delete the branch) → `Create` → `Renew` →
`Publish` → `Release`; `BeginCleanup` → `Inspect` → `Prune` → `Release`. Mutations
begin with a renewal and end with `EndMutation` or `MutationFails`; `Interrupted`
says what a command that is cut off may leave. `Lapse` lets a claim expire between
two mutations, `Expire` and `ExpireCache` those of a dead worker.

Assumed: a heartbeat renews in time while a mutation goes on. (When it cannot, the
code lets the mutation finish and reports the failure afterwards; then two
mutations can overlap.) A git command that is cut off can leave what the checks of
the code refuse for ever - a broken clone, a directory that is no worktree, a link
without one (`BeyondRetry`) - and `EventuallyReady` names that exception.

### 2.6 State and actions of `PatchApplication`

`file` says of each authorized file who wrote what it holds: the revision, an
attempt, a failed write (`Torn`) or somebody else (`Foreign`). `result`, `undoing`,
`artifact`, `content` are what is on record. The rest are `execute()`'s locals.

`Preflight` → `Read`\* → `VerifyAtRevision` → `Propose` (or `AgentFails`,
`RejectProposal`, `RejectOperations`) → `Reconcile` → `Reread`\* → (`Capture`,
`Compare`, `Write`, `RecordWrite`, `Attach`)\* → `Diff` → `Evaluate` → `PutContent` →
`CreateMetadata`; a failure goes through (`UndoStep`, `Unwrite`, `RecordUndo`)\* to
`Undone`, and the scheduler may run another attempt. `Edit` is somebody else's edit,
`ReadFails`, `StoreFails` and the branches with `PatchFault` are failing calls, `Stop`
ends the process.

The filesystem invocation is taken apart where others can come in between, since its
lock is one of the process: it keeps what the file holds (`preimage`), compares what it
reads (`current`) with what is expected, writes, and records. A write that fails puts
`current` back; a record that fails puts `preimage` back and raises (`PutBack`). An
error before the comparison reaches the same clause with nothing read, and may leave
the file empty; the remains of any of these are `Torn`. `Replaced` is an edit that
replaced the entry, so that the write goes to a file that is no longer there. A rollback
whose record was kept although its update raised is in `revived`, with the attempt whose
content it put back: the rollback that follows finds the record, and leaves the file.

What the plan asks is three sets of files (`Required`, `Satisfied`, `Retained`):
whether a criterion is met is a matter of text, which is abstracted to "differs from
the revision". `FailureRestoresTree` speaks of attempts that *return* a failure. An
error outside the except clause, a rollback that fails, and a write that fails
twice (`Torn`) leave the tree dirty: those escape (`escaped`), and every later
attempt stops at its preflight.

### 2.7 State and actions of `EvidenceChain`

`judged` are the EvaluationResults in the store, `attached` what the attempts list,
`published` what their artifacts refer to, `report` the outcomes, `call` the
validation's ToolInvocation. A Task goes `ReadInputs` → an answer (`AnswerAccepted`,
`AnswerRejected`, `PlanRejected`, `NoAnswer`) or `RunValidation` → `RecordEvaluation`\*
→ `LinkEvaluations` → `PublishArtifact` → `LinkArtifact`; acceptance is `Aggregate`.
`RecordsFail` fails any of them and `Retried` gives a Task another attempt;
`LoseContent` loses an artifact, `StopHandler` ends the process.

`Usable` is what the next handler demands of the one before, from its own code; it
is the demand that the normalized analysis does not meet (section 5).

### 2.8 State and actions of `DockerValidation`

`toolCall` is the record, `container` and `running` are Docker, `callAt` and `got`
each call's place and result. `Book` creates the record or waits for it, then
`Authorize` → `StartContainer` → `Probe` → (`StartCommand`, `EndCommand`)\* →
`StopContainer` → `RemoveContainer` → `SettleCall`; who waits does `AwaitCall`, and
`LoseCall` ends a call's process. A client that fails may have started a container,
a stopped one may still run, a removal may fail: each is recorded as an adapter
error, and `DoneLeavesNothing` holds of every other class.

### 2.9 State and actions of `PullRequestPublication`

The store has `attempt`, `approval`, `invocation` (one for each attempt and each of
commit, push, create), `evidence` and `described`; the world has `tree`, `remote`,
`opened`, `open` and the operator's marker `disabled`; a publisher is one call of
`execute()` with a `stage` and the attempt it tries.

`GatePublication` → `GatePush` → `OpenCommit` → `StageChanges` → `CommitChanges` →
`OpenPush` → `Push` → `GateCreate` → `MatchCreation` → `OpenCreate` →
`VerifyEvidence` → `LookUp` → `PostPull` → `Describe` → `Report`. `Settle` records an
effect, or fails to; `Die` ends a call; `Review` and `Wake` are the operator's
decision, `DoubleDispatch` the second call that `SchedDoubleWake` leaves behind.

One restriction of the environment: a pull request is not merged or closed between
a publisher's look-up and its POST (`ClosePull`). If it is, GitHub accepts the POST
and a second pull request is opened; only two attempts that overlap can be there.

`ImplementsGatedRelease` reads the state as `GatedRelease` does: `Published` is how far
the change has come, `Standing` an attempt as open, ended or absent, and an attempt has
passed the gates that `PolicyAllows`.

### 2.10 State and actions of `ModelAdmission`

`clocks` holds the coordinator's three deadlines, `restored` and `latest` whether they
were read from disk and its latest reservation id, `stateFile` what is on disk; each
caller is a thread with its `request` and its `place` in `invoke()`. Time is counted in
ticks, tokens in the ticks that the rate lets the next request wait. A reservation
is an estimate: an answer may have used fewer tokens, or up to `Excess` more, which the
code makes up for no further.

`Invoke` → `Ask` (admit and sleep; refused beyond the deadline) → `Recheck`
(revalidate: sleep on, give up, or send) → `Answered` (observe_success), `Refused`, or
`Throttled` (observe_throttle; then `Ask` again, or the end). `Saved` and `NotSaved` are
the state file that may fail, after memory has changed; `Unreadable` is one that
cannot be read. `Restart` ends all threads and starts with an empty coordinator.
`granted` and `hinted` are history.

Assumed or left out: the monotonic and the wall clock advance together; a caller reads
the clock in the step that takes the lock, and sends in the step that rechecks. Read
earlier, a clock only makes waits longer, except in the very first call after a start,
where restored deadlines are counted from it. Delays are rounded to milliseconds in the
code. A coordinator without a state root, as in unit tests, is not modelled.

### 2.11 Composition

`MCDeliveries` joins the scheduler and the intake, `MCRetries` the checkpoint and
the checkouts, `MCServices` the services. The parts of one composition keep
their state in different stores, and what one hands to the other is a single step in
the other's model. Interleaving them would multiply states and add no behaviour, so
a behaviour moves one part, its `scene`, chosen at the start, and leaves the others
in a fixed initial state. Each part has all of its own interleavings.

### 2.12 Faults, crashes, time

`Fault` is a checkpoint error that a handler of the code catches; each place
that catches one has a branch where the mutation happened and one where it did
not. `Crash` ends a reconciler, or abandons its call, at any point. Both are
bounded (`MaxFaults`, `MaxCrashes`); the theorems hold whatever the bounds, and
`RetriesUsed`, which counts faults, says how many rounds they ask for.
`due` says whose `retryNotBefore` has passed; `TimePasses` is the clock. The other
modules bound theirs in the same way: `MaxIntakeTroubles`, `MaxTroubles`,
`MaxPatchFaults`, `MaxRetries` and `MaxLosses`, `MaxMishaps`, `MaxDeaths` and
`MaxDoubles`, `MaxOutages` and `MaxStops`. Only `ModelAdmission` has a clock, `time` up
to its `Horizon`.

### 2.13 Fairness

`FairSpec` of the scheduler assumes weak fairness of each consumer's `Step` (its
thread polls for ever, `dogfood_runtime.py:1085`, and every handler, tool and model
call has a timeout) and of `TimePasses`. Nothing is assumed of the operator, of
reconcilers that are no consumer, or against crashes and faults; these stop only
because they are bounded.

In `DurableCheckpoint` a call that has begun goes on (weak fairness of `Step`);
nobody has to begin one. A process that waits in `flock` gets the fence if it is
free again and again (strong fairness of `AcquireFence`): the kernel keeps its
waiters in a queue.

In `EventIntake` a consumer's steps go on (its thread polls for ever), and an
execution that is scheduled again and again while it is not stalled ends (strong
fairness, for each execution, of `Schedule` with an end), which is what
`EventuallySettled` shows of the scheduler. Nothing is assumed of what is stalled:
nobody has to decide a gate or to resolve an abandoned attempt, and an execution may be
stalled again. GitHub need not deliver, and the operator need not replay.

In `CheckoutManager` a call goes on, the consumer comes to every pending row again
and again (strong fairness of `Request`: polls take all rows of their listing), and
a dead owner's claim expires. Nobody has to end or clean up an execution.

The other modules state safety only.

## 3. What is checked

| Run | Instance | Shows |
|---|---|---|
| `SchedSettle` | one consumer, `t1 → t2`, two attempts each, one fault, two crashes, 5 rounds | the workflow ends and leaves the outbox unless an attempt is abandoned (`EventuallySettled`), retries are used up before it fails (`RetriesExhausted`), the trail is complete (`AuditComplete`), the outcome agrees with the attempts (`WorkflowOutcomeSound`); refines `TaskAttempts` |
| `SchedConcurrent` | consumer and a second reconciler, one task, two attempts, a fault, a crash, deferred retries | `ExecutorOwnsAttempt`, `AtMostOncePerWake`; records and events keep to the handler's report (`ReportKept`) |
| `SchedGates` | consumer, second reconciler and operator, one task with two gates, one crash | `PendingApprovalIsAwaited`, `RejectionIsFinal` |
| `Deliveries` | the scheduler with one consumer, one gate, two faults, two crashes; the intake with one Event, two consumers or a consumer and an operator's replay, two versions, a branch that moves once, one trouble | an approval is spent on one run and wakes it in the end (`OneRunPerApproval`, `ApprovalEventuallyWakes`); an acknowledged delivery is settled unless its execution stays stalled, or is so again and again (`AcknowledgedSettles`), by an execution that is over (`RetiredIsSettled`), pinned to one revision (`PinnedRevision`), with a trail without gaps (`AuditIsNumbered`) |
| `Checkpoint` | two processes, three mutations of which two contend, two failing steps, one crash, one power loss; processes and contenders interchangeable | `AcknowledgedSurvives`, `WriterKeepsItsTemporary`, `ReadsAreCommitted`, `UpdatesAccumulate`; refines `AtomicStore` |
| `Retries` | the checkpoint with two processes, two mutations, one failing step, one crash; two checkouts of one clone, one of which ends, two workers, one trouble | no call waits for ever (`CheckpointCallsReturn`); one process mutates the clone (`OneMutator`), a ready checkout is whole (`ReadyIsIntact`), and every checkout gets ready (`CheckoutsGetReady`) |
| `Services` | *budgets*: three invocations of two Tasks and one Agent, limits at every scope, up to three attempts, timeouts, one erring mutation, one crash, one token beyond the estimate; *patch*: three files, two attempts, two faults, one foreign edit; *evidence*: two attempts a Task, one retry, one lost content; *docker*: three calls, two commands; *publication*: two publishers, two attempts, three policies, two mishaps, one death, one double dispatch; *admission*: two callers, three invocations, two attempts, one token beyond the reservation, one failure of the state file, one restart | `SpendingWithinLimits`, `LedgersBalance`, `OverrunIsMarked`, `UnknownSpendStops`; `FailureRestoresTree`, `EligiblePatchIsOwn`, `ForeignEditsKept`; `AcceptanceIsExact`; `CallersAgree`, `DoneLeavesNothing`; `OnePullRequest`, `SuccessIsPublished`, `PublishedIsAuthorized`; `RequestsArePaced` |
| `BudgetUncapped`, `SchedRetired`, `SchedDoubleWake`, `SchedDeferred`, `NormalizedAnalysis` | the smallest instances, without faults or crashes | five places where the code does what its documentation excludes (section 5) |

Why the bounds are enough: two tasks are a dependency; two attempts are a retry
and its exhaustion; two gates are the least number for which an approval can be
an older one; two reconcilers are a race, and a third adds no new pair; two
crashes allow one in the recovery from the other; two faults allow the recovery
from a fault to fail as well. `Rounds` is the code's own `2 * nodes + 1`.

For the checkpoint, two contending mutations and a third that contends with
neither give a lost claim and an update to lose; two failing steps allow a failed
directory sync and a failure in the call that follows it; one power loss reaches
every set of checkpoints that it may choose from, since it ends all that went
before.

For the budgets, two Tasks of one Agent reserve at the same time from the ledgers
they share; the third invocation is the retry of one of them and meets what the
first left behind. Of three attempts, one succeeds after another has failed, and a
timeout before the third leaves one out of the books.

For the intake, Events share nothing but the branch and the deployment, so that one
is enough; two consumers race for its row, one of which may run an older version. For
the checkouts, two executions share a clone and two workers are what a takeover
needs: the one that lapses and the one that takes over.

For the patch, one file is required, one is required and satisfied already, one is
to be retained: a change that fails has one applied before it and one after it, and
two faults allow the rollback to fail too. One edit falls between the comparison and
the write, or between the write and its record; that an invocation compares something
else than it kept takes two, which TLC covers for the patch alone (`MaxEdits = 2`,
1,066,054 states, no error) and the theorems for any number. For the evidence, a retry leaves an
attempt's records behind at any of the handlers, and one repetition suffices for
records of an older attempt to be there; a Task's attempts are bounded by
`MaxTurns`. For the container, of three calls one owns, one waits and one comes
late. For the publication, a second attempt meets all that the first has left, two
mishaps are an effect without an answer and a record that fails. For the admission, a
credit needs a reservation before it and one after it to do harm, which are three
invocations of two callers. The theorems need none of these bounds.

Where a part really may stop - a service that has done its work, an intake without
Events, a budget without invocations - its run says `CHECK_DEADLOCK FALSE`; the
runs of the scheduler and the checkpoint check deadlock.

Some properties hold for one consumer and are checked there only.
`AuditComplete`, `WorkflowOutcomeSound` and `RetriesExhausted` speak about the
moment the runner draws the outcome, and a second reconciler can create or start
an attempt between its listing and its commit. The documented deployment has one
worker. `RetriesExhausted` holds with one call lost to a fault, because
`2 * nodes + 1` has one call to spare; it does not hold with two.

Every property of a passing run has a mutant: a plausible bug of the code
(operators named `Bug_...`, each next to what it replaces) that makes TLC report
the property.

## 4. What is proved

Each theorem holds for every value of the constants that satisfies the module's
assumption (TLC evaluates the assumptions on every run that has them). A `[]` before
the formula is left out.

| Module | For any ... | Theorems |
|---|---|---|
| `WorkflowSchedulerProofs` | finite set of tasks, DAG, number of attempts, gates, reconcilers, rounds, faults and crashes | `TypeCorrect` (`TypeOK`), `ExecutorOwnership` (`ExecutorOwnsAttempt`), `AtMostOnce` (`AtMostOncePerWake`), `ReportsKept` (`ReportKept`), `ApprovalsAwaited` (`PendingApprovalIsAwaited`), `RejectedStaysRejected` (`RejectionIsFinal`), `Implementation` (the refinement of `TaskAttempts`); for one gate a task: `OneGateOneRun` (`OneRunPerApproval`); for one reconciler: `OutcomeSound` (`WorkflowOutcomeSound`), `TrailComplete` (`AuditComplete`); for one reconciler, no gates, no deferred retries and `Rounds >= MaxAttempts * Cardinality(Tasks) + MaxFaults`: `RetriesUsed` (`RetriesExhausted`) |
| `DurableCheckpointProofs` | processes, mutations, number of faults, crashes and power losses | `CheckpointTypeCorrect` (`TypeOK`), `Durability` (`AcknowledgedSurvives`), `CommittedReads` (`ReadsAreCommitted`), `TemporaryKept` (`WriterKeepsItsTemporary`), `NoLostUpdate` (`UpdatesAccumulate`); if the filesystem syncs directories: `Implementation` (the refinement of `AtomicStore`) |
| `ExecutionBudgetProofs` | budgets, prices, Tasks, Agents, finite set of invocations | `BudgetTypeCorrect` (`TypeOK`), `OverrunMarked` (`OverrunIsMarked`), `UnknownStops` (`UnknownSpendStops`), `LedgersBalanced` (`LedgersBalance`); if no Model tries more than twice: `AttemptsLimited`; if no Model with priced output omits its `tokenLimit` and retries: `SpendingLimited` (`SpendingWithinLimits`), `OutputCapped` (`PricedOutputIsCapped`) |
| `EventIntakeProofs` | Events, consumers, operators, deployments, movements and losses | `RetiredSettled` (`RetiredIsSettled`), `RevisionPinned` (`PinnedRevision`), `AuditNumbered` (`AuditIsNumbered`); in `MCDeliveries`: `DeliveriesKeepPromises`, `DeliveriesSpendOnce` |
| `CheckoutManagerProofs` | executions, workers, lapses, failures and deaths | `MutationsExclude` (`OneMutator`), `ReadyMeansIntact` (`ReadyIsIntact`), `CheckoutTypes` (`CheckoutTypeOK`); in `MCRetries`: `RetriesKeepPromises` |
| `TaskHandlerProofs` | calls, commands; files, attempts, faults, foreign edits; retries, lost contents | `DockerTypes`, `CallersAgreement` (`CallersAgree`), `DoneIsTidy` (`DoneLeavesNothing`); `PatchInvariant`, `PatchTypesKept`, `FailureRestores` (`FailureRestoresTree`), `PatchIsOwn` (`EligiblePatchIsOwn`), `ForeignKept` (`ForeignEditsKept`); `EvidenceInvariant`, `EvidenceTypesKept`, `AcceptanceExact` (`AcceptanceIsExact`) |
| `PullRequestPublicationProofs` | publishers, attempts, policies, mishaps, deaths and double dispatches | `PublicationInvariant`, `PublicationTypes`, `PublicationOnce` (`OnePullRequest`), `SuccessPublished` (`SuccessIsPublished`), `PublicationAuthorized` (`PublishedIsAuthorized`), `PublicationImplements` (the refinement of `GatedRelease`), `OneAttemptAtATime` |
| `ServicesProofs` | callers, rates, demands, excess usage, pauses, invocations, restarts, failures of the state file | `AdmissionTypes`, `Pacing` (`RequestsArePaced`); in `MCServices`: `ServicesTypes` (`ServicesTypeOK`), `ServicesKeepPromises` |

Each hypothesis leaves out a case in which the code does not keep the promise, or that
the deployment excludes. With three attempts or more, a timeout before the third charges
one for two, and a scope can send more than its `maxModelInvocations` (section 5);
`SpendingLimited` therefore counts the attempts the books know of, and `AttemptsLimited`
those that were sent where the two agree. Two gates break
`OneRunPerApproval` (the run `SchedDoubleWake`). A second reconciler can create or
start an attempt between the listing and the commit of the first; the deployment has
one. A Model with priced output, no `tokenLimit` and retries may be given no cap (the
run `BudgetUncapped`): then an attempt may cost more than is reserved for it, and
`OutputCapped` says that this is the only way. The rounds of a run are counted for
attempts that end: a second reconciler can use one up on a refusal, a handler that
asks for an approval on a wait, and a retry that is not due yet leaves one empty (the
run `SchedDeferred`). With `max_attempts=2` (`dogfood_runtime.py:806`) the runner's
`2 * nodes + 1` rounds are what `RetriesUsed` asks for if one call is lost; with two
lost calls TLC finds the property violated.

### 4.1 The scheduler

`TypeOK` is not inductive, because a phase implies what the other
private variables hold: an attempt in hand (`CurOK`), a report (`HeldOK`), the
gate to wait for (`WaitOK`). `TypeInv` adds them. For the dispatch protocol
`DispatchInv` adds to it that an attempt that is not started holds no claim
(`UnstartedUnclaimed`), that whoever is past the claim is the owner on record and
its attempt is neither waiting nor queued (`HolderOwns`), and that runs are
counted: `runs[a] <= wakes[a]`, plus one if a claim is on record (`RunsCounted`),
with no plus one for whoever is about to run (`ExecuteFresh`). Almost every step
is `Quiet` - it neither makes nor ends a claim - and the lemma `QuietPreserves`
does for all of them; a claim, a run and a wake-up are looked at one by one.
`StatusConflictError` on a record that is not RUNNING and the write-once
`dispatchState` are what makes them go through.

`RecordsInv` relates the records of an attempt to each other (`AttemptOK`: its status,
report, events, approvals and binding) and a reconciler's private state to them
(`PlaceOK`): what it holds is what the record says, or will be refused. `Sound` is the
three together, and is inductive. A second group of lemmas says what a step can do at
all: it keeps what the store never gives up (`StoreKept`), and it moves at most one
attempt, in one of seven ways (`OneMoves`: created, begun, run, ended, waiting, woken,
rejected). `Implementation` maps each of them to an action of
`TaskAttempts`, or to none.

`OneWakeInv` counts: with one gate an attempt waits once. `OutcomeInv` says that the
runner is about to commit only what is still so (`AtRest`): with one reconciler nobody
can start an attempt once nothing is in flight, and an operator finds no attempt that
waits. `AuditInv` follows the last repair: a listing that was read after an attempt's
creation puts it on the repair's list (`todo`), and past the repair every attempt is
`Audited`, until something new begins - which the runner does only before it reads
again.

`RoundsInv` is about the rounds. `Effort` counts the attempts that have ended and the
faults that were spent; it never falls (`EffortGrows`). Each round that was begun is
`Worth` one unit of it, the present one on credit as long as it is `Pursued`: it has an
attempt that it is about to repair, create or run, and what it goes by is still so (the
listing is `Fresh`). Or else nothing is left to create and none to run (`Settled`), or
an attempt is lost to a dispatcher that died (`Lost`); both stay so. Each part of a
pass keeps to its way or pays (`Pays`, a lemma for each part). Since an attempt is
followed by another only when it has failed (`InOrder`), `MaxAttempts` ends are all
that a task can have; so when the last round is over and nothing is in flight, either
every attempt has been made or nothing was left to do (`RoundsEnough`). A lost attempt
keeps the workflow RUNNING.

### 4.2 The checkpoint

`IInv` says who holds the fence (`OneWriter`),
that a mutation is called by one process (`CalledOnce`), that what a power loss may
leave is readable and older than the file (`CheckpointsSound`), that memory past
the restore is the file, with the mutation after the operation (`MemoryFresh`),
and is empty while there is no file (`MemoryEmptyAtFirst`, which needs the
rollback), that past the rename the file is what the call left (`OutcomeSound`),
that every mutation in the file was answered so or is past its rename
(`AppliedIsKnown`: an error before the rename means never), and that an answer is
given only for what is synced (`SyncedInTime`). There is one lemma per action. For
`Implementation`, `Replace` is the step that applies the mutation,
a step that answers is a `Reply` (`ReplyStep`), a power loss undoes nothing
acknowledged (`PowerLossImplements`), and every other step is a stutter
(`QuietStep`).

### 4.3 The budgets

`GrantFits` is the heart of it: whatever is admitted, each
scope has room for all of it in every dimension. It rests on lemmas about the
arithmetic of the plan, one per operator: the least room is that of one of the
scopes (`RoomIsLeast`), the attempts fit the invocations, the input and the output
(`AttemptLimitFits`), so does the output that each may have (`ShareFits`,
`OutputCapFits`), and a turn of the loop keeps it so (`FitCostFits`); that the money
suffices is checked by the code itself. `IInv` adds to the properties that a grant
has no more attempts than the Model, that what an attempt may have cost is counted
(`AttemptsPaid`), and that unknown spend has blocked its scopes (`UnknownBlocks`).

`BooksInv` is about sums over the invocations. A sum is the number of units
(`Total`, the cardinality of `Units`), so that `SumChange` - a sum moves by what one
invocation adds - and `SumGrows` follow from the theorems on finite sets, and no
induction is needed. What an invocation counts for is its `Claim`: all of its share
while it is at work or has ended without a record, what the books know of once it is
recorded. The invariant says that the ledgers hold the shares and have the charges
(`HeldBalanced`, `UsedBalanced`), that every claim is covered by what its scopes have
committed (`ClaimsCovered`), that committed attempts fit their limit (`AttemptsFit`;
their number is known, so no charge can overrun it), and what each invocation owns at
each point (`Own`): a share is its grant, and enough for what it sent and spent, or after a
timeout for the one attempt that is charged. That
an attempt costs at most what is reserved for it (`WorstIsReserved`) needs a cap, which
is where the hypothesis comes from (`CapIsPositive`). `RecordBooks` is the lemma of both
charges, `ReserveBooks` that of an admission; a mutation that was reported to fail is
the same step with another end of the invocation, or none at all (`EndingBooks`).

### 4.4 The handlers

The container: one call at most owns the invocation (`OneOwner`),
from the record's creation until it has settled a result or died; nobody else
touches the container. Hence what the owner knows when it settles still holds
(`SettledTidy`), and before the container is created there is none (`NotYet`). A
result on record is never replaced, so what was answered stays true.

The patch: `Tree` says of each file, at each step, whose content it has. While
an attempt works, what it has written is on its list of applied changes or is being
recorded; while it undoes, on what is left to undo; and no attempt that failed has
left anything, but where its undo is `revived`. `Reads` says what `preimage` and
`current` may hold at each step, so that nothing that is put back is an earlier
attempt's, and `Once` that no file is changed twice. `Flow` bounds the phases, and
`Judging` says that what is evaluated is this attempt's alone and answers the plan. The
proof showed one place where the model allowed more than the code: `LastApplied` could
name a file that was undone already, out of order; `_rollback_applied_changes` goes over
`reversed(applied)`, and the definition says so now.

The evidence: `Own` describes the records of the attempt in hand at each spot of its
handler, `Good` those of an attempt that succeeded; `Chain` says that all Tasks before
the current one have a success that is `Good`, which the later ones never change, and
`FutureBlank` that those after it have nothing. Hence an aggregation that fails can
only have met content that is gone (`RefusedForLoss`).

### 4.5 The publication

`OwnershipSound` says whose a pending invocation is, `RecordsTrue` what an
invocation on record as successful proves: the commit is in the tree, the branch on
the remote, the pull request opened. `Came(p)` is the rest of a publisher's way: the
gates it has passed (`GatesPassed`), the effects before the present one
(`EffectsDone`), and that a result or report in hand is true (`ResultTrue`,
`ReportTrue`). What was allowed, done, pushed or opened stays so (`Grows`), so that a
step of one publisher preserves what is said of the others; each action is looked at
for the publisher that takes it. `OnePullRequest` holds because at the POST, if
anything was opened, it is still open, and GitHub refuses a second.

`GatedRelease` says all of it in one specification of six actions, without calls,
records or deaths. `PublicationImplements` maps `CommitChanges`, `Push`, `PostPull`,
`Describe` and `Report` to its steps, `Review` to a gate that is passed, and `Wake` to the
end of an attempt that was rejected; every other action is a stutter
(`BetweenUnseen`, `AroundUnseen`). It says more than the invariants do: the commit, the
push and the pull request happen in this order, each when its gates are passed, none
is taken back, and an attempt that succeeds has described the pull request with every
gate passed in its own right. `OneAttemptAtATime` is proved from the abstract steps
alone: an attempt exists only if all before it failed recoverably, so that one is open
at a time and one at most succeeds, although calls of different attempts do overlap.
The refinement is proved only; `Services` checks the three invariants that it sharpens.

### 4.6 Intake, checkouts, admission, and the parts together

The intake. The rows need what a consumer knows to stay true: it
completes a row only after it has found the execution over (`CompletesEnded`), and what
is over stays so. The revision needs three facts: one that was read is not the 0 that
stands for none (`Dated`), a runner that is about to create an execution has the
revision its checkout is bound to, and a replay has that of its execution
(`InHandIsBound`). Workers do not share executions beyond what the store keeps
(`OwnWork`): a replay has a version of its own. For the events, `TrailInv` says which
trail an execution has in each status (`Trail`), that a consumer drives no execution
whose start is not on record (`StartedFirst`) - so that its end comes after it - and
that a replay is touched by nobody but its operator (`ReplayWaits`).

The checkouts. A step is a step of one worker, and changes the disk
only in a mutation, which that worker makes under both claims (`Holds`). So what the
invariant says of any other worker is preserved by a single lemma for all steps
(`LocalKeepsOthers`), and each action is looked at only for the worker that takes it:
what its mutation finds (`Aimed`), what it has removed (`Emptied`) and completed
(`Completed`), and that the clone is there once it is used (`Cached`). A record is
READY only if the worktree is on the disk, on the list and on its branch (`Intact`);
`Owns` fences whoever comes late. The theorems assume what `CheckoutAssumption` says of
the names, and the timely heartbeat of `Lapse`.

The admission. The deadlines in memory, and those on disk, keep
whatever was granted and announced (`Keeps`), read at the present time, so that a
restart that shortens them to the present loses nothing (`SavedSays`,
`RestoredKeeps`). A credit shortens the token deadline (`CreditKeeps`): it is given to
the last reservation only, which everybody before is apart from (`Spaced`), and whose
holder is the only one (`Owned`: a caller whose id is the latest holds the last
reservation that was granted, because one that could not be saved takes an id too).
What was granted is answered by the caller that holds it, alone, and only lowers what
others have to keep away from (`PaidKeeps`), by its credit; usage beyond the
reservation changes no deadline. So `RequestsArePaced` is a statement about
reservations, and no promise about the tokens a provider counts.

The compositions. A step of `MCServices`, `MCDeliveries` or `MCRetries` is a step of one
part that leaves the others alone, so each implements the specifications of its parts
(`ServicesAreParts`, `DeliveriesAreParts`, `RetriesAreParts`), and every theorem that
needs no hypothesis on the constants carries over (`ServicesKeepPromises`,
`DeliveriesKeepPromises`, `RetriesKeepPromises`); `DeliveriesSpendOnce` and the spending
limits are stated with theirs. So what the runs check on small instances is proved of
the specifications they check. That the parts share no state is read off the code -
files, keys and records of their own - and built into the modules, not proved.

### 4.7 What is model-checked only

* The liveness properties - `EventuallySettled`, `ApprovalEventuallyWakes`,
  `AcknowledgedSettles`, `CheckpointCallsReturn`, `CheckoutsGetReady` - because liveness
  under fairness is out of the prover's reach.
* That the bounds and constants stand for the code's - one consumer, two attempts,
  `2 * nodes + 1` rounds - is read off the source.

## 5. Where code and documentation differ

1. `SchedRetired`. The consumer lists a task that is AWAITING_APPROVAL; the
   operator approves and the task becomes PENDING; the consumer repeats the
   request for it, which raises `ValueError`, which the consumer takes for a
   configuration failure: it retires the row of a workflow that is RUNNING. The
   approved task stays PENDING.
2. `SchedDoubleWake`. The task waits for its second gate but is still bound to
   the first approval until the second request is made. A wake-up of the first
   approval that arrives in between ends the second wait. The handler then finds
   the second gate unapproved and waits again, so no gate is passed; but the
   approval has woken the attempt, and run its handler, twice.
3. `SchedDeferred`. A deferred retry is not in flight, so the runner fails the
   workflow before `retryNotBefore`.
4. `BudgetUncapped`. A Model without `tokenLimit` gets its output cap from the
   money that is left, divided by the attempts that are configured. If that does
   not pay for one output token each, no cap is derived; the loop that follows
   lowers the attempts until their least cost fits, does not derive the cap again,
   and the invocation is admitted with no cap.
5. `NormalizedAnalysis`. An analysis that repeats a predicate an evaluator owns is
   normalized; its schema evaluation is then about the artifact. The plan's handler
   accepts only an evaluation about the Agent's invocation: it finds none, fails with
   a configuration error, and the workflow ends. AEP-068 asks that it "reaches
   BuildImplementationPlan".

Met while modelling, and not written as a property, because no document says
otherwise or the point is outside of the bounds assumed:

* `provision()` of a checkout whose cleanup was refused because it was dirty removes
  it by force; a crash during a cleanup leaves a checkout that can no longer be
  cleaned up;
* a row whose branch moved between the reading of its revision and the fetch, or
  between the binding of its checkout and the creation of its execution, is retired
  as a configuration error: the event is settled by refusing it;
* a redeployment between polls gives an Event a second execution, and the first may
  stay RUNNING; a replay whose process ends is never taken up;
* a call that dies between the POST and its record leaves the invocation PENDING
  for good, and every retry then fails recoverably: nothing is published twice, nor
  reported as published;
* a timeout before a retry (`_remaining_ms`, `openai_model_provider.py:1154`) is
  charged as one attempt whatever was sent (`agent_invocation.py:459`): with three
  attempts or more a scope can pass its `maxModelInvocations`, and one before the first
  dispatch charges an attempt that was never made and blocks the scopes that bound
  money. What was sent and not charged is in no ledger;
* the update of a rollback's record may raise after the store has kept it (a directory
  sync that fails). The attempt's content is then put back (`filesystem_tool.py:714`),
  `execute()` rolls back once more, and is answered from the record
  (`filesystem_tool.py:657`) without the file being touched: the failure is returned with
  that content in the tree. `FailureRestoresTree` names this case, and the next
  attempt's preflight refuses the tree;
* a guarded write compares and writes under a lock of one process
  (`filesystem_tool.py:185`): an edit of another program in between is overwritten. An
  `OSError` before the comparison is done writes back what was read, which is nothing
  (`filesystem_tool.py:328`), and empties the file. `ForeignEditsKept` names both;
* tokens used beyond a reservation are made up for by nothing
  (`model_rate_limits.py:127`);
* a failed cleanup of a Tool turns an effect that succeeded into a failure;
* reservations that wait out a throttle are all released at its end, at the same time:
  `RequestsArePaced` is about reservations, and about what a request may not precede;
* a credit that cannot be saved raises `CoordinatorStateError` out of
  `OpenAIModelAdapter.invoke` (`openai_model_provider.py:743`), where `invoke_agent`
  expects `ModelInvocationError` (`agent_invocation.py:280`): the answer is lost, the
  invocations stay RUNNING, and the reservation of their budget is never settled.

## 6. What is not modelled, and the plan

Not modelled, with the reason in `PROJECT.json`: evaluation suites and experiments
(an offline tool over leases of the store), the Task DAG's
construction, resources and their resolution, context construction, policy rules (pure functions over declarative files, given to the models as
constants), token caches and HTTP, displays, health endpoints, the MVP harness. Of
the components that are modelled in part: expiry of approvals, which the scheduler
never sets; the store's leases and its repetition of a busy mutation; reads and
path checks of the filesystem tool; prompts and schemas of the handlers.

What would come next, in this order:

1. `StoreLease` with evaluation suites: acquire, heartbeat, expiry, takeover,
   checkpoints under the lease.
2. The repetition of a busy budget mutation, whose error can follow its effect.
3. Theorems: `RetriesExhausted` with gates, where a round may also end in a wait; the
   abstract promises of the ledgers and of the intake as specifications that the
   detailed ones implement; the type of `EventIntake`, whose bound on revisions
   follows the movements of the branch.
4. Pure algorithms against their definitions (`TaskDag`, localized patches, policy precedence).
