------------------------------ MODULE EventIntake ------------------------------
(***************************************************************************)
(* From a webhook delivery to a settled WorkflowExecution: the receiver in *)
(* src/aep/github_webhook.py, the inbox and outbox of webhook_dispatch.py, *)
(* the polling consumer and the runner of dogfood_runtime.py, the creation *)
(* of the execution in workflow_execution.py, and the operator's replay    *)
(* (execution_replay.py) of an execution that is over.                     *)
(*                                                                         *)
(* The checkout (CheckoutManager) and the scheduling of the Tasks          *)
(* (WorkflowScheduler) are one step each here.  An Event has one execution *)
(* for each version of the Workflow a consumer runs with.                  *)
(***************************************************************************)
EXTENDS Naturals, FiniteSets

CONSTANTS
  Events,         \* normalized Events, one for each GitHub delivery id
  Pollers,        \* polling threads, one in each service process
  Operators,      \* calls of "replay", each of which has its own execution
  Crews,          \* sets of workers that may be there together
  Resolvable,     \* versions whose triggers match exactly one Workflow
  MaxVersion,     \* bound on deployments of another Workflow version
  MaxMoves,       \* bound on commits to the default branch
  MaxIntakeTroubles  \* bound on failing calls and processes that end

Versions == 1..MaxVersion
Revisions == 1..(MaxMoves + 1)
Runners == Pollers \cup Operators

ASSUME IntakeAssumption ==
  /\ Pollers \cap Operators = {} /\ Versions \cap Operators = {}
  /\ MaxVersion \in Nat \ {0} /\ MaxMoves \in Nat

\* The deterministic id of an execution names its Event and Workflow version,
\* that of a replay is unique.
Works == Events \X (Versions \cup Operators)
IsReplay(x) == x[2] \in Operators

VARIABLES
  requests,      \* [Events -> "none", "PENDING" or "COMPLETED"]
  acknowledged,  \* Events GitHub has a 202 or 200 for
  refused,       \* Events with a record in reconciliation_failures
  execution,     \* [Works -> WorkflowExecution and its lifecycle events]
  bound,         \* [Works -> revision its checkout is bound to, or 0]
  provisioned,   \* executions whose checkout is READY
  peer,          \* [Works -> the evaluation checkout]
  tip,           \* revision of the default branch
  deployed,      \* version of the Resources in the deployment
  stalled,       \* executions that wait for somebody outside: a gate nobody has
                 \* decided, an attempt that was claimed and abandoned
  loaded,        \* [Pollers -> version its process started with]
  rows,          \* [Pollers -> rows left from the listing of this poll]
  work,          \* [Runners -> execution it works on]
  revision,      \* [Runners -> revision it read]
  phase,         \* [Runners -> place in the code]
  intakeTroubles

inbox == <<requests, acknowledged, refused>>
files == <<bound, provisioned, peer>>
around == <<tip, deployed, stalled>>
inHand == <<loaded, rows, work, revision>>
intakeVars == <<inbox, execution, files, around, inHand, phase, intakeTroubles>>

Over == {"SUCCEEDED", "FAILED"}
Terminated(x) == execution[x].status \in Over

\* "audit" holds the lifecycle events with their sequence numbers; an event's
\* id derives from its type, so that appending it again changes nothing.
Unborn == [status |-> "absent", revision |-> 0, audit |-> {}]

IntakeInit ==
  /\ requests = [e \in Events |-> "none"]
  /\ acknowledged = {} /\ refused = {}
  /\ execution = [x \in Works |-> Unborn]
  /\ bound = [x \in Works |-> 0] /\ provisioned = {}
  /\ peer = [x \in Works |-> "absent"]
  /\ tip = 1 /\ deployed = 1 /\ stalled = {}
  /\ loaded = [c \in Pollers |-> 1]
  /\ rows = [c \in Pollers |-> {}]
  /\ work = [w \in Runners |-> CHOOSE x \in Works : TRUE]
  /\ revision = [w \in Runners |-> 0]
  /\ \E crew \in Crews : phase = [w \in Runners |-> IF w \in crew THEN "idle" ELSE "done"]
  /\ intakeTroubles = 0

Proceed(w, p) == phase' = [phase EXCEPT ![w] = p]
Working(w, p) == phase[w] = p
IntakeTrouble == intakeTroubles < MaxIntakeTroubles /\ intakeTroubles' = intakeTroubles + 1

\* An exception leaves the runner.  A consumer refuses the row for a
\* CONFIGURATION error and keeps it for any other; a replay fails either way.
Raise(w, class) ==
  Proceed(w, IF w \in Operators THEN "raise"
             ELSE IF class = "CONFIGURATION" THEN "refuse" ELSE "next")

\* A worker that leaves the scheduling may leave an attempt claimed, which
\* nobody claims again.
MayAbandon(w) ==
  \/ UNCHANGED stalled
  \/ /\ Working(w, "schedule") /\ execution[work[w]].status = "RUNNING"
     /\ stalled' = stalled \cup {work[w]}

Transient(w, p) ==
  /\ Working(w, p) /\ IntakeTrouble /\ Raise(w, "RECOVERABLE") /\ MayAbandon(w)
  /\ UNCHANGED <<inbox, execution, files, tip, deployed, inHand>>

-----------------------------------------------------------------------------
(* Deliveries and the world.                                               *)

\* handle() answers once submit() has returned; the answer may get lost.
Reply(e, answered) == acknowledged' = acknowledged \cup (IF answered THEN {e} ELSE {})

\* Mutant: the receiver answers before its transaction has committed.
Bug_Deliver(e, answered) ==
  /\ requests' = [requests EXCEPT ![e] = IF @ = "none" /\ answered THEN "PENDING" ELSE @]
  /\ acknowledged' = acknowledged \cup {e}
  /\ UNCHANGED <<refused, execution, files, around, inHand, phase, intakeTroubles>>

\* One transaction looks the deduplication key up, and enters the Event and
\* its request.  GitHub may send a delivery again.
Deliver(e, answered) ==
  /\ requests' = [requests EXCEPT ![e] = IF @ = "none" THEN "PENDING" ELSE @]
  /\ Reply(e, answered)
  /\ UNCHANGED <<refused, execution, files, around, inHand, phase, intakeTroubles>>

MoveBranch ==
  /\ tip <= MaxMoves
  /\ tip' = tip + 1
  /\ UNCHANGED <<inbox, execution, files, deployed, stalled, inHand, phase, intakeTroubles>>

Deploy ==
  /\ deployed < MaxVersion
  /\ deployed' = deployed + 1
  /\ UNCHANGED <<inbox, execution, files, tip, stalled, inHand, phase, intakeTroubles>>

\* The gate is decided, or an operator resolves the abandoned attempt.
Resolve(x) ==
  /\ x \in stalled
  /\ stalled' = stalled \ {x}
  /\ UNCHANGED <<inbox, execution, files, tip, deployed, inHand, phase, intakeTroubles>>

\* The process of a consumer ends, and a new one starts with the Resources that
\* are deployed; the process of a replay is not started again.
EndProcess(w) ==
  /\ IntakeTrouble /\ phase[w] \notin {"idle", "done", "dead"} /\ MayAbandon(w)
  /\ Proceed(w, IF w \in Operators THEN "dead" ELSE "idle")
  /\ loaded' = IF w \in Pollers THEN [loaded EXCEPT ![w] = deployed] ELSE loaded
  /\ rows' = IF w \in Pollers THEN [rows EXCEPT ![w] = {}] ELSE rows
  /\ UNCHANGED <<inbox, execution, files, tip, deployed, work, revision>>

-----------------------------------------------------------------------------
(* The consumer's poll.                                                    *)

Poll(c) ==
  LET pending == {e \in Events : requests[e] = "PENDING"}
  IN /\ Working(c, "idle") /\ pending # {}
     /\ rows' = [rows EXCEPT ![c] = pending] /\ Proceed(c, "next")
     /\ UNCHANGED <<inbox, execution, files, around, loaded, work, revision, intakeTroubles>>

\* Exactly one Workflow of the version the process has loaded matches the Event;
\* none or several are a CONFIGURATION error.
Resolves(c) == loaded[c] \in Resolvable

\* The next row of the listing, which another consumer may have retired since.
TakeRow(c) ==
  /\ Working(c, "next")
  /\ IF rows[c] = {}
     THEN Proceed(c, "idle") /\ UNCHANGED <<rows, work>>
     ELSE \E e \in rows[c] :
            /\ rows' = [rows EXCEPT ![c] = @ \ {e}]
            /\ work' = [work EXCEPT ![c] = <<e, loaded[c]>>]
            /\ Proceed(c, IF Resolves(c) THEN "revision" ELSE "refuse")
  /\ UNCHANGED <<inbox, execution, files, around, loaded, revision, intakeTroubles>>

\* Mutant: a run that returns is taken for a workflow that is over.
Bug_Check(c) ==
  /\ Working(c, "check") /\ Proceed(c, "complete")
  /\ UNCHANGED <<inbox, execution, files, around, inHand, intakeTroubles>>

\* A row leaves the listing once its execution is over.
Check(c) ==
  /\ Working(c, "check")
  /\ Proceed(c, IF Terminated(work[c]) THEN "complete" ELSE "next")
  /\ UNCHANGED <<inbox, execution, files, around, inHand, intakeTroubles>>

Retire(c, p) ==
  /\ Working(c, p) /\ Proceed(c, "next")
  /\ requests' = [requests EXCEPT ![work[c][1]] = "COMPLETED"]
  /\ refused' = refused \cup (IF p = "refuse" THEN {work[c][1]} ELSE {})
  /\ UNCHANGED <<acknowledged, execution, files, around, inHand, intakeTroubles>>

-----------------------------------------------------------------------------
(* The runner, for a consumer and for a replay.                            *)

\* The revision an existing execution is pinned to, or that of the branch.
Pinned(x) == IF execution[x].status = "absent" THEN tip ELSE execution[x].revision

ReadRevision(w) ==
  LET x == work[w]
  IN /\ Working(w, "revision")
     /\ revision' = [revision EXCEPT ![w] = Pinned(x)]
     /\ Proceed(w, IF Terminated(x) THEN "check" ELSE "provision")
     /\ UNCHANGED <<inbox, execution, files, around, loaded, rows, work, intakeTroubles>>

\* Mutant: the binding of an earlier claim is not compared.
Bug_SameBinding(x, r) == bound[x] \in {0, r} \cup Revisions

\* A workspace stays bound to the revision of the first claim.
SameBinding(x, r) == bound[x] \in {0, r}

\* Until it is READY, provisioning compares the tip of the default branch with
\* the revision it was asked for.
ProvisionWorkspace(w) ==
  LET x == work[w]
      r == revision[w]
      ready == x \in provisioned \/ tip = r
  IN /\ Working(w, "provision")
     /\ IF SameBinding(x, r)
        THEN /\ bound' = [bound EXCEPT ![x] = r]
             /\ provisioned' = IF ready THEN provisioned \cup {x} ELSE provisioned
             /\ IF ready THEN Proceed(w, "begin") ELSE Raise(w, "CONFIGURATION")
        ELSE Raise(w, "CONFIGURATION") /\ UNCHANGED <<bound, provisioned>>
     /\ UNCHANGED <<inbox, execution, peer, around, inHand, intakeTroubles>>

\* The claim binds the workspace before anything can fail.
ProvisionFails(w) ==
  LET x == work[w]
  IN /\ Working(w, "provision") /\ IntakeTrouble
     /\ bound' = [bound EXCEPT ![x] = IF @ = 0 THEN revision[w] ELSE @]
     /\ Raise(w, IF SameBinding(x, revision[w]) THEN "RECOVERABLE" ELSE "CONFIGURATION")
     /\ UNCHANGED <<inbox, execution, provisioned, peer, around, inHand>>

\* WorkflowExecutionCreator.create: the first caller's record is kept, and a
\* later call returns it.
CreateExecution(c) ==
  LET x == work[c]
  IN /\ c \in Pollers /\ Working(c, "begin")
     /\ execution' = IF execution[x].status # "absent" THEN execution
                     ELSE [execution EXCEPT ![x].status = "RUNNING",
                                            ![x].revision = revision[c]]
     /\ Proceed(c, IF Terminated(x) THEN "repair" ELSE "announce")
     /\ UNCHANGED <<inbox, files, around, inHand, intakeTroubles>>

Event(x, type, n) == [execution EXCEPT ![x].audit = @ \cup {<<type, n>>}]

\* The started event is a checkpoint of its own, which every call repeats.
Announced(x) == Event(x, "started", 1)

Announce(c) ==
  /\ phase[c] \in {"announce", "repair"}
  /\ execution' = Announced(work[c])
  /\ Proceed(c, IF Working(c, "repair") THEN "check" ELSE "clone")
  /\ UNCHANGED <<inbox, files, around, inHand, intakeTroubles>>

\* _evaluation_checkout: a directory that exists has to be a finished, clean
\* checkout; else it is cloned and then checked out.
Clone(w) ==
  LET x == work[w]
  IN /\ Working(w, "clone")
     /\ CASE peer[x] = "absent" -> /\ peer' = [peer EXCEPT ![x] = "cloned"]
                                   /\ Proceed(w, "switch")
          [] peer[x] = "cloned" -> Raise(w, "CONFIGURATION") /\ UNCHANGED peer
          [] OTHER -> Proceed(w, "schedule") /\ UNCHANGED peer
     /\ UNCHANGED <<inbox, execution, bound, provisioned, around, inHand, intakeTroubles>>

CloneFails(w) ==
  /\ Working(w, "clone") /\ peer[work[w]] = "absent" /\ IntakeTrouble
  /\ Raise(w, "CONFIGURATION")
  /\ UNCHANGED <<inbox, execution, files, around, inHand>>

Switch(w) ==
  /\ Working(w, "switch")
  /\ peer' = [peer EXCEPT ![work[w]] = "ready"]
  /\ Proceed(w, "schedule")
  /\ UNCHANGED <<inbox, execution, bound, provisioned, around, inHand, intakeTroubles>>

\* Mutant: every execution is numbered like one a consumer created.
Bug_NextNumber(x) == IF x \in Works THEN 2 ELSE 3

\* A replay's own events come before, and its start may never have happened.
NextNumber(x) ==
  IF IsReplay(x) /\ \E n \in 1..3 : <<"started", n>> \in execution[x].audit THEN 3 ELSE 2

\* The status and its event are one checkpoint, conditional on the status.
Ended(x, status) ==
  [Event(x, "ended", NextNumber(x)) EXCEPT ![x].status = status]

\* The Tasks are driven until they are over, or as far as they get: for now,
\* or until somebody decides a gate.  What is stalled is in flight.
Schedule(w, result) ==
  LET x == work[w]
      running == execution[x].status = "RUNNING"
  IN /\ Working(w, "schedule")
     /\ result \in Over => x \notin stalled
     /\ execution' = IF running /\ result \in Over THEN Ended(x, result) ELSE execution
     /\ stalled' = IF running /\ result = "gate" THEN stalled \cup {x} ELSE stalled
     /\ Proceed(w, "check")
     /\ UNCHANGED <<inbox, files, tip, deployed, inHand, intakeTroubles>>

-----------------------------------------------------------------------------
(* A replay.                                                               *)

\* The replay of an execution that is over, pinned to its revision, with its
\* creation event: one checkpoint.
Replay(o, x) ==
  LET y == <<x[1], o>>
  IN /\ Working(o, "idle") /\ Terminated(x)
     /\ execution' = [execution EXCEPT ![y] = [status |-> "PENDING", audit |-> {<<"created", 1>>},
                                               revision |-> execution[x].revision]]
     /\ work' = [work EXCEPT ![o] = y]
     /\ Proceed(o, "revision")
     /\ UNCHANGED <<inbox, files, around, loaded, rows, revision, intakeTroubles>>

StartReplay(o) ==
  LET x == work[o]
  IN /\ o \in Operators /\ Working(o, "begin")
     /\ execution' = [Event(x, "started", NextNumber(x)) EXCEPT ![x].status = "RUNNING"]
     /\ Proceed(o, "clone")
     /\ UNCHANGED <<inbox, files, around, inHand, intakeTroubles>>

\* What the source execution was given - its Event, its contexts and the
\* Resources it names - is not all to be had any more.
RefuseReplay(o) ==
  /\ o \in Operators /\ Working(o, "begin") /\ Proceed(o, "raise")
  /\ UNCHANGED <<inbox, execution, files, around, inHand, intakeTroubles>>

\* _fail_replay
FailReplay(x) == IF Terminated(x) THEN execution ELSE Ended(x, "FAILED")

\* The replay returns, or an exception has left the runner.
EndReplay(o) ==
  /\ o \in Operators /\ phase[o] \in {"raise", "check"}
  /\ execution' = IF Working(o, "raise") THEN FailReplay(work[o]) ELSE execution
  /\ Proceed(o, "done")
  /\ UNCHANGED <<inbox, files, around, inHand, intakeTroubles>>

-----------------------------------------------------------------------------

Drive(w) ==
  \/ ReadRevision(w) \/ ProvisionWorkspace(w) \/ Clone(w) \/ Switch(w)
  \/ \E result \in Over \cup {"in flight", "gate"} : Schedule(w, result)

ConsumerStep(c) ==
  \/ Poll(c) \/ TakeRow(c) \/ Check(c) \/ Retire(c, "complete") \/ Retire(c, "refuse")
  \/ CreateExecution(c) \/ Announce(c) \/ Drive(c)

IntakeMishap(w) ==
  \/ ProvisionFails(w) \/ CloneFails(w) \/ EndProcess(w)
  \/ \E p \in {"revision", "begin", "announce", "switch", "schedule"} : Transient(w, p)

IntakeNext ==
  \/ \E e \in Events : Deliver(e, TRUE) \/ Deliver(e, FALSE)
  \/ MoveBranch \/ Deploy \/ \E x \in Works : Resolve(x)
  \/ \E c \in Pollers : ConsumerStep(c)
  \/ \E o \in Operators : \/ \E x \in Works : Replay(o, x)
                          \/ StartReplay(o) \/ RefuseReplay(o) \/ EndReplay(o) \/ Drive(o)
  \/ \E w \in Runners : IntakeMishap(w)

\* A consumer polls for ever, and the Tasks of an execution that is scheduled
\* again and again while nobody outside holds it come to an end
\* (WorkflowScheduler!EventuallySettled).  Nobody has to decide a gate, and no
\* one to resolve an abandoned attempt.
IntakeFairness ==
  \A c \in Pollers :
    /\ WF_intakeVars(ConsumerStep(c))
    /\ \A x \in Events \X Versions :
         SF_intakeVars(work[c] = x /\ \E result \in Over : Schedule(c, result))

IntakeSpec == IntakeInit /\ [][IntakeNext]_intakeVars /\ IntakeFairness

-----------------------------------------------------------------------------
(* Properties.                                                             *)

IntakeTypeOK ==
  /\ requests \in [Events -> {"none", "PENDING", "COMPLETED"}]
  /\ acknowledged \subseteq Events /\ refused \subseteq Events
  /\ \A x \in Works : /\ execution[x].status \in {"absent", "PENDING", "RUNNING"} \cup Over
                      /\ execution[x].revision \in 0..(MaxMoves + 1)
                      /\ bound[x] \in 0..(MaxMoves + 1)
  /\ \A w \in Runners : work[w] \in Works

\* A row is retired without a recorded refusal only if an execution of its
\* Event is over: whatever other consumers, crashes and deployments do between
\* the check and the update (DogfoodReconciliationConsumer.run_once).
RetiredIsSettled ==
  \A e \in Events :
    requests[e] = "COMPLETED" /\ e \notin refused => \E v \in Versions : Terminated(<<e, v>>)

\* An execution works on the revision its checkout was made from, although the
\* branch moves and the two are recorded by different stores at different
\* times (_reconciliation_revision, ExecutionCheckoutManager._same_binding).
PinnedRevision ==
  \A x \in Works :
    execution[x].status \in {"RUNNING", "SUCCEEDED"} => bound[x] = execution[x].revision

\* The lifecycle events of an execution that is over are numbered without a
\* gap and without two of one number, for any crash between the creation of an
\* execution and its event and for a replay that fails before or after its
\* start (WorkflowExecutionCreator.create, _commit_workflow_transition).
AuditIsNumbered ==
  \A x \in Works :
    Terminated(x) => LET audit == execution[x].audit
                     IN {event[2] : event \in audit} = 1..Cardinality(audit)

\* A delivery GitHub got an acknowledgement for is settled in the end, unless
\* one of its executions stays stalled, or is stalled again and again: none is lost
\* between the inbox, the outbox and the consumers, and one that was stalled is
\* taken up again (submit, run_once).
Stalled(e) == \E v \in Versions : <<e, v>> \in stalled
AcknowledgedSettles ==
  \A e \in Events : e \in acknowledged ~> requests[e] = "COMPLETED" \/ Stalled(e)
=============================================================================
