----------------------- MODULE WorkflowSchedulerProofs -----------------------
(***************************************************************************)
(* Proofs about WorkflowScheduler, for every DAG, number of attempts, gates *)
(* and reconcilers, and for any number of faults and crashes.               *)
(*                                                                          *)
(* First the types.  TypeOK is not inductive: a reconciler's phase says what *)
(* its other variables hold (an attempt in hand, a report, the gate it is   *)
(* about to wait for), which TypeInv adds.                                  *)
(*                                                                          *)
(* Then the dispatch protocol.  DispatchInv counts the runs of an attempt   *)
(* against its wake-ups and the one claim it may have; most steps are Quiet, *)
(* and three (a claim, a run, a wake-up) are looked at one by one.          *)
(*                                                                          *)
(* Then the records.  RecordsInv says what a record, its approvals and its  *)
(* events say of each other, and what of it a stale snapshot may still be   *)
(* trusted with; with the two before it, it makes Sound.                    *)
(*                                                                          *)
(* Then the moves.  Under Sound every step moves one attempt at most, in    *)
(* one of seven ways (OneMoves).  That rejections are final and that the    *)
(* attempts implement TaskAttempts follow from the moves, and, with the     *)
(* parts a pass goes through (Came), what an approval brings about, how the *)
(* workflow ends and what its trail then holds.                             *)
(*                                                                          *)
(* Last the rounds of a run.  Each that the consumer begins is worth an     *)
(* attempt that ends or a fault that is spent (Worth), so that those it has *)
(* are enough for every attempt a workflow may make (RetriesUsed).          *)
(***************************************************************************)
EXTENDS WorkflowScheduler, FiniteSetTheorems, TLAPS

-----------------------------------------------------------------------------
(* What the phase of a reconciler says about its other variables.          *)

\* The phases in which a reconciler has an attempt in hand.
Engaged == Holding \cup {"start", "resume", "recover", "claim", "request"}

CurOK == \A r \in Reconcilers : pc[r] \in Engaged => cur[r] \in Attempts

\* The report of the handler until it is recorded, the outcome of a workflow
\* until it is committed.
HeldOK ==
  \A r \in Reconcilers :
    /\ pc[r] \in {"evidence", "reevidence", "terminal"} => held[r] \in Outcomes
    /\ pc[r] = "commit" => held[r] \in {"SUCCEEDED", "FAILED"}

\* The gate an attempt is about to wait for.
WaitOK ==
  \A r \in Reconcilers :
    pc[r] = "wait" => \E g \in AllGates : <<cur[r], g>> \in todo[r]

PrivateInv == PrivateType /\ CurOK /\ HeldOK /\ WaitOK

\* The inductive strengthening of TypeOK.
TypeInv == StoreType /\ RestType /\ PrivateInv

-----------------------------------------------------------------------------
(* Every step keeps TypeInv: a lemma for each action.                      *)

LEMMA NewRecordType == NoRecord \in TaskRecord /\ NewRecord \in TaskRecord
  BY DEF NoRecord, NewRecord, TaskRecord, Statuses, Outcomes, Binding

LEMMA StartedType ==
  ASSUME NEW rec \in TaskRecord, NEW b \in BOOLEAN
  PROVE  Started(rec, b) \in TaskRecord
  BY DEF Started, TaskRecord, Statuses

LEMMA WokenType ==
  ASSUME NEW rec \in TaskRecord
  PROVE  Woken(rec) \in TaskRecord
  BY DEF Woken, TaskRecord, Statuses

LEMMA FinishedType ==
  ASSUME NEW rec \in TaskRecord, NEW o \in Outcomes
  PROVE  Finished(rec, o) \in TaskRecord
  <1>1. StatusOf(o) \in Statuses /\ FailureOf(o) \in (Outcomes \ {"success"}) \cup {"none"}
    BY DEF Statuses, StatusOf, FailureOf
  <1> QED
    BY <1>1 DEF Finished, TaskRecord

LEMMA BoundType ==
  ASSUME NEW rec \in TaskRecord, NEW g \in Binding
  PROVE  [rec EXCEPT !.approvalId = g] \in TaskRecord
  BY DEF TaskRecord

LEMMA ClaimedType ==
  ASSUME NEW rec \in TaskRecord, NEW r \in Reconcilers
  PROVE  [rec EXCEPT !.dispatch = "CLAIMED", !.owner = r] \in TaskRecord
  BY DEF TaskRecord

LEMMA ForgetType ==
  ASSUME TypeInv, NEW r \in Reconcilers, Forget(r)
  PROVE  PrivateInv'
  <1>1. PrivateType'
    BY NewRecordType DEF TypeInv, PrivateInv, PrivateType, Forget, Goto, Phases, Holdings, NoSnap
  <1> QED
    BY <1>1 DEF TypeInv, PrivateInv, PrivateType, CurOK, HeldOK, WaitOK, Engaged, Holding, Forget, Goto

LEMMA SkipType ==
  ASSUME TypeInv, NEW r \in Reconcilers, Skip(r)
  PROVE  PrivateInv'
  <1>1. PrivateType'
    BY DEF TypeInv, PrivateInv, PrivateType, Skip, Goto, Phases, Holdings
  <1> QED
    BY <1>1 DEF TypeInv, PrivateInv, PrivateType, CurOK, HeldOK, WaitOK, Engaged, Holding, Skip, Goto

LEMMA ListedType ==
  ASSUME TypeInv, NEW phase
  PROVE  Listed(phase) \subseteq Attempts \X (Binding)
  <1>1. CASE phase = "requests"
    BY <1>1 DEF Listed, TypeInv, StoreType, TaskRecord
  <1>2. CASE phase = "wakeups"
    BY <1>2 DEF Listed, Binding
  <1>3. CASE phase = "rejects"
    BY <1>3 DEF Listed, Binding
  <1>4. CASE phase = "repair"
    BY <1>4 DEF Listed, Binding
  <1>5. CASE phase = "create"
    <2>1. ReadyWave(task, due) \subseteq Attempts
      BY DEF ReadyWave
    <2> QED BY <1>5, <2>1 DEF Listed, Binding
  <1>6. CASE phase \notin {"requests", "wakeups", "rejects", "repair", "create"}
    BY <1>6 DEF Listed
  <1> QED BY <1>1, <1>2, <1>3, <1>4, <1>5, <1>6

LEMMA EnterType ==
  ASSUME TypeInv, NEW r \in Reconcilers,
         NEW phase \in {"requests", "wakeups", "rejects", "repair", "create"},
         Enter(r, phase), UNCHANGED <<sched, cur, held>>,
         round' \in [Reconcilers -> Nat]
  PROVE  PrivateInv'
  <1>1. PrivateType'
    BY ListedType DEF TypeInv, PrivateInv, PrivateType, StoreType, Enter, Goto, Phases
  <1> QED
    BY <1>1 DEF TypeInv, PrivateInv, PrivateType, CurOK, HeldOK, WaitOK, Engaged, Holding, Enter, Goto

LEMMA LeaveType ==
  ASSUME TypeInv, NEW r \in Reconcilers, LeaveRecoverable(r) \/ LeaveValueError(r)
  PROVE  StoreType' /\ PrivateInv'
  BY ForgetType DEF TypeInv, StoreType, LeaveRecoverable, LeaveValueError, store

LEMMA TypeBeginPass ==
  ASSUME TypeInv, NEW r \in Reconcilers, BeginPass(r) PROVE TypeInv'
  <1>1. RestType'
    BY DEF TypeInv, RestType, BeginPass, outside, bounds, history
  <1>2. CASE wf = "RUNNING"
    <2>1. Enter(r, "requests") /\ UNCHANGED <<sched, cur, held, store>>
          /\ round' \in [Reconcilers -> Nat]
      BY <1>2 DEF BeginPass, TypeInv, PrivateInv, PrivateType
    <2> QED BY <1>1, <2>1, EnterType DEF TypeInv, StoreType, store
  <1>3. CASE wf # "RUNNING" /\ round[r] = 0
    <2>1. /\ Goto(r, "settle")
          /\ UNCHANGED <<todo, snap, sched, cur, held, round, store>>
      BY <1>3 DEF BeginPass
    <2>2. PrivateType'
      BY <2>1 DEF TypeInv, PrivateInv, PrivateType, Goto, Phases
    <2>3. PrivateInv'
      BY <2>1, <2>2 DEF TypeInv, PrivateInv, PrivateType, CurOK, HeldOK, WaitOK, Engaged, Holding, Goto
    <2> QED BY <1>1, <2>1, <2>3 DEF TypeInv, StoreType, store
  <1>4. CASE wf # "RUNNING" /\ round[r] # 0
    BY <1>1, <1>4, LeaveType DEF BeginPass, TypeInv
  <1> QED BY <1>2, <1>3, <1>4

LEMMA BindType ==
  ASSUME TypeInv, NEW a \in Attempts, NEW g \in Binding,
         approval' = [approval EXCEPT ![a][g] = IF @ = "NONE" THEN "PENDING" ELSE @],
         task' = [task EXCEPT ![a].approvalId = g],
         UNCHANGED <<events, members, wf, outbox>>
  PROVE  StoreType'
  <1>1. task' \in [Attempts -> TaskRecord]
    <2>1. task[a] \in TaskRecord
      BY DEF TypeInv, StoreType
    <2>2. [task[a] EXCEPT !.approvalId = g] \in TaskRecord
      BY <2>1, BoundType
    <2> QED BY <2>2 DEF TypeInv, StoreType
  <1>2. approval' \in [Attempts -> [AllGates -> ApprovalStatuses]]
    BY DEF TypeInv, StoreType, ApprovalStatuses
  <1> QED BY <1>1, <1>2 DEF TypeInv, StoreType

LEMMA TypeRecoverRequest ==
  ASSUME TypeInv, NEW r \in Reconcilers, RecoverRequest(r) PROVE TypeInv'
  <1>1. RestType'
    BY DEF TypeInv, RestType, RecoverRequest, outside, bounds, history
  <1>2. PICK p \in todo[r] :
          Request(r, p[1], p[2], snap[r][p[1]].expected,
               /\ todo' = [todo EXCEPT ![r] = @ \ {p}]
               /\ UNCHANGED <<pc, round, snap, sched, cur, held>>)
    BY DEF RecoverRequest
  <1>3. p[1] \in Attempts /\ p[2] \in Binding /\ pc[r] = "requests"
    BY DEF TypeInv, PrivateInv, PrivateType, RecoverRequest
  <1>4. CASE LeaveRecoverable(r) \/ LeaveValueError(r)
    BY <1>1, <1>4, LeaveType DEF TypeInv
  <1>5. CASE /\ approval' = [approval EXCEPT ![p[1]][p[2]] = IF @ = "NONE" THEN "PENDING" ELSE @]
             /\ task' = [task EXCEPT ![p[1]].approvalId = p[2]]
             /\ todo' = [todo EXCEPT ![r] = @ \ {p}]
             /\ UNCHANGED <<pc, round, snap, sched, cur, held>>
             /\ UNCHANGED <<events, members, wf, outbox>>
    <2>1. StoreType'
      BY <1>3, <1>5, BindType
    <2>2. PrivateInv'
      BY <1>3, <1>5 DEF TypeInv, PrivateInv, PrivateType, CurOK, HeldOK, WaitOK, Engaged, Holding
    <2> QED BY <1>1, <2>1, <2>2 DEF TypeInv
  <1> QED BY <1>2, <1>4, <1>5 DEF Request

LEMMA WakeType ==
  ASSUME TypeInv, NEW a \in Attempts, NEW g, WakeTask(a, g)
  PROVE  task' \in [Attempts -> TaskRecord] /\ wakes' \in [Attempts -> Nat]
  <1>1. Woken(task[a]) \in TaskRecord
    BY WokenType DEF TypeInv, StoreType
  <1>2. CASE WakeApplies(task[a], g)
    <2>1. task' = [task EXCEPT ![a] = Woken(task[a])]
      BY <1>2 DEF WakeTask
    <2>2. wakes' = [wakes EXCEPT ![a] = @ + 1] \/ wakes' = wakes
      BY <1>2 DEF WakeTask
    <2> QED BY <1>1, <2>1, <2>2 DEF TypeInv, StoreType, RestType
  <1>3. CASE ~ WakeApplies(task[a], g)
    BY <1>3 DEF TypeInv, StoreType, RestType, WakeTask
  <1> QED BY <1>2, <1>3

LEMMA TypeRecoverWakeup ==
  ASSUME TypeInv, NEW r \in Reconcilers, RecoverWakeup(r) PROVE TypeInv'
  <1>1. PICK p \in todo[r] : /\ WakeTask(p[1], p[2])
                             /\ todo' = [todo EXCEPT ![r] = @ \ {p}]
    BY DEF RecoverWakeup
  <1>2. p[1] \in Attempts /\ pc[r] = "wakeups"
    BY DEF TypeInv, PrivateInv, PrivateType, RecoverWakeup
  <1>3. task' \in [Attempts -> TaskRecord] /\ wakes' \in [Attempts -> Nat]
    BY <1>1, <1>2, WakeType
  <1>4. PrivateInv'
    BY <1>1, <1>2 DEF TypeInv, PrivateInv, PrivateType, CurOK, HeldOK, WaitOK, Engaged, Holding, RecoverWakeup
  <1> QED BY <1>3, <1>4 DEF TypeInv, StoreType, RestType, RecoverWakeup, outside, bounds

LEMMA TypeFailRejected ==
  ASSUME TypeInv, NEW r \in Reconcilers, FailRejected(r) PROVE TypeInv'
  <1>1. RestType'
    BY DEF TypeInv, RestType, FailRejected, outside, bounds, history
  <1>2. CASE LeaveRecoverable(r)
    BY <1>1, <1>2, LeaveType DEF TypeInv
  <1>3. ASSUME NEW p \in todo[r],
               task' = [task EXCEPT ![p[1]] = Finished(@, "policy")],
               events' = events \cup {<<p[1], "Failed">>},
               todo' = [todo EXCEPT ![r] = @ \ {p}],
               UNCHANGED <<pc, round, snap, sched, cur, held, approval, members, wf, outbox>>
        PROVE  TypeInv'
    <2>1. p[1] \in Attempts /\ pc[r] = "rejects"
      BY DEF TypeInv, PrivateInv, PrivateType, FailRejected
    <2>2. Finished(task[p[1]], "policy") \in TaskRecord
      BY <2>1, FinishedType DEF TypeInv, StoreType, Outcomes
    <2>3. StoreType'
      BY <1>3, <2>1, <2>2 DEF TypeInv, StoreType, EventTypes
    <2>4. PrivateInv'
      BY <1>3, <2>1 DEF TypeInv, PrivateInv, PrivateType, CurOK, HeldOK, WaitOK, Engaged, Holding
    <2> QED BY <1>1, <2>3, <2>4 DEF TypeInv
  <1> QED BY <1>2, <1>3 DEF FailRejected

LEMMA TypeOperator ==
  ASSUME TypeInv, NEW a \in Attempts, NEW g \in AllGates,
         \/ Decide(a, g, "APPROVED") \/ Decide(a, g, "REJECTED")
         \/ RepeatDecision(a, g) \/ DecideWake(a, g) \/ DecideCrash(a, g)
  PROVE  TypeInv'
  <1>1. PrivateInv'
    BY DEF TypeInv, PrivateInv, PrivateType, CurOK, HeldOK, WaitOK, private, Decide,
           RepeatDecision, DecideWake, DecideCrash
  <1>2. ASSUME NEW d \in {"APPROVED", "REJECTED"}, Decide(a, g, d) PROVE TypeInv'
    <2>1. approval' \in [Attempts -> [AllGates -> ApprovalStatuses]]
      BY <1>2 DEF TypeInv, StoreType, Decide, ApprovalStatuses
    <2>2. cliWake' \subseteq Attempts \X AllGates
      BY <1>2 DEF TypeInv, RestType, Decide
    <2> QED BY <1>1, <1>2, <2>1, <2>2 DEF TypeInv, StoreType, RestType, Decide, bounds, history
  <1>3. CASE RepeatDecision(a, g)
    BY <1>1, <1>3 DEF TypeInv, StoreType, RestType, RepeatDecision, store, bounds, history
  <1>4. CASE DecideWake(a, g)
    <2>1. task' \in [Attempts -> TaskRecord] /\ wakes' \in [Attempts -> Nat]
      BY <1>4, WakeType DEF DecideWake
    <2> QED BY <1>1, <1>4, <2>1 DEF TypeInv, StoreType, RestType, DecideWake, bounds
  <1>5. CASE DecideCrash(a, g)
    BY <1>1, <1>5 DEF TypeInv, StoreType, RestType, DecideCrash, store, history
  <1> QED BY <1>2, <1>3, <1>4, <1>5

LEMMA TypeNextPhase ==
  ASSUME TypeInv, NEW r \in Reconcilers, NextPhase(r) PROVE TypeInv'
  <1>1. Following[pc[r]] \in {"requests", "wakeups", "rejects", "repair", "create"}
    BY DEF NextPhase, Following
  <1>2. PrivateInv'
    BY <1>1, EnterType DEF NextPhase, TypeInv, PrivateInv, PrivateType
  <1> QED BY <1>2 DEF TypeInv, StoreType, RestType, NextPhase, store, outside, bounds, history

LEMMA TypeWaveCreated ==
  ASSUME TypeInv, NEW r \in Reconcilers, WaveCreated(r) PROVE TypeInv'
  <1>1. PrivateType'
    BY DEF TypeInv, PrivateInv, PrivateType, WaveCreated, Goto, Phases
  <1>2. PrivateInv'
    BY <1>1 DEF TypeInv, PrivateInv, PrivateType, CurOK, HeldOK, WaitOK, Engaged, Holding,
                WaveCreated, Goto
  <1> QED BY <1>2 DEF TypeInv, StoreType, RestType, WaveCreated, store, outside, bounds, history

LEMMA TypeAttach ==
  ASSUME TypeInv, NEW r \in Reconcilers, Attach(r) PROVE TypeInv'
  <1>1. RestType'
    BY DEF TypeInv, RestType, Attach, outside, bounds, history
  <1>2. CASE LeaveRecoverable(r)
    BY <1>1, <1>2, LeaveType DEF TypeInv
  <1>3. ASSUME NEW a \in Attempts, members' = members \cup {a},
               UNCHANGED <<private, task, approval, events, wf, outbox>>
        PROVE  TypeInv'
    BY <1>1, <1>3 DEF TypeInv, StoreType, PrivateInv, PrivateType, CurOK, HeldOK, WaitOK, private
  <1> QED BY <1>2, <1>3 DEF Attach

LEMMA TypeEvents ==
  ASSUME TypeInv, NEW r \in Reconcilers, EmitQueued(r) \/ EmitTerminal(r) PROVE TypeInv'
  <1>1. events' \subseteq Attempts \X EventTypes
    BY DEF TypeInv, StoreType, EmitQueued, EmitTerminal, EventTypes, TerminalEvent
  <1>2. PrivateInv'
    BY DEF TypeInv, PrivateInv, PrivateType, CurOK, HeldOK, WaitOK, private, EmitQueued, EmitTerminal
  <1>3. UNCHANGED <<task, approval, members, wf, outbox, outside, bounds, history>>
    BY DEF EmitQueued, EmitTerminal
  <1> QED BY <1>1, <1>2, <1>3 DEF TypeInv, StoreType, RestType, outside, bounds, history

LEMMA TypeRepairMarker ==
  ASSUME TypeInv, NEW r \in Reconcilers, RepairMarker(r) PROVE TypeInv'
  <1>1. RestType'
    BY DEF TypeInv, RestType, RepairMarker, outside, bounds, history
  <1>2. CASE LeaveRecoverable(r)
    BY <1>1, <1>2, LeaveType DEF TypeInv
  <1>3. ASSUME NEW a \in Attempts, snap[r][a].evidence # "none",
               task' = [task EXCEPT ![a] = Finished(@, snap[r][a].evidence)],
               snap' = [snap EXCEPT ![r][a] = Finished(@, snap[r][a].evidence)],
               UNCHANGED <<pc, round, todo, sched, cur, held, approval, events, members, wf, outbox>>
        PROVE  TypeInv'
    <2>1. snap[r][a] \in TaskRecord /\ task[a] \in TaskRecord
      BY DEF TypeInv, PrivateInv, PrivateType, StoreType
    <2>2. snap[r][a].evidence \in Outcomes
      BY <1>3, <2>1 DEF TaskRecord
    <2>3. /\ Finished(snap[r][a], snap[r][a].evidence) \in TaskRecord
          /\ Finished(task[a], snap[r][a].evidence) \in TaskRecord
      BY <2>1, <2>2, FinishedType
    <2>4. StoreType'
      BY <1>3, <2>3 DEF TypeInv, StoreType
    <2>5. PrivateType'
      BY <1>3, <2>3 DEF TypeInv, PrivateInv, PrivateType
    <2>6. PrivateInv'
      BY <1>3, <2>5 DEF TypeInv, PrivateInv, CurOK, HeldOK, WaitOK
    <2> QED BY <1>1, <2>4, <2>6 DEF TypeInv
  <1> QED BY <1>2, <1>3 DEF RepairMarker

LEMMA TypeCreateAttempt ==
  ASSUME TypeInv, NEW r \in Reconcilers, CreateAttempt(r) PROVE TypeInv'
  <1>1. PICK a \in Attempts :
          /\ task' = [task EXCEPT ![a] = IF @.status = "NONE" THEN NewRecord ELSE @]
          /\ snap' = [snap EXCEPT ![r][a] = task'[a]]
    BY DEF CreateAttempt
  <1>2. task' \in [Attempts -> TaskRecord]
    BY <1>1, NewRecordType DEF TypeInv, StoreType
  <1>3. PrivateType'
    BY <1>1, <1>2 DEF TypeInv, PrivateInv, PrivateType, CreateAttempt
  <1>4. PrivateInv'
    BY <1>3 DEF TypeInv, PrivateInv, CurOK, HeldOK, WaitOK, CreateAttempt
  <1> QED BY <1>2, <1>4 DEF TypeInv, StoreType, RestType, CreateAttempt, outside, bounds, history

LEMMA CurInHand ==
  ASSUME TypeInv, NEW r \in Reconcilers, pc[r] \in Engaged
  PROVE  cur[r] \in Attempts /\ task[cur[r]] \in TaskRecord
  BY DEF TypeInv, PrivateInv, CurOK, StoreType

LEMMA TypeTake ==
  ASSUME TypeInv, NEW r \in Reconcilers, Take(r) PROVE TypeInv'
  <1>1. PICK a \in sched[r] :
       /\ cur' = [cur EXCEPT ![r] = a]
       /\ sched' = [sched EXCEPT ![r] = @ \ {a}]
       /\ \E phase \in {"start", "claim", "resume"} : Goto(r, phase)
       /\ UNCHANGED <<round, todo, snap, held>>
    BY DEF Take
  <1>2. a \in Attempts
    BY DEF TypeInv, PrivateInv, PrivateType
  <1>3. PrivateType'
    BY <1>1, <1>2 DEF TypeInv, PrivateInv, PrivateType, Goto, Phases
  <1>4. CurOK'
    BY <1>1, <1>2 DEF TypeInv, PrivateInv, PrivateType, CurOK, Goto
  <1>5. HeldOK' /\ WaitOK'
    BY <1>1, <1>2 DEF TypeInv, PrivateInv, PrivateType, HeldOK, WaitOK, Goto
  <1> QED BY <1>3, <1>4, <1>5 DEF TypeInv, PrivateInv, StoreType, RestType, Take, store, outside, bounds, history

\* A step of r that moves it to another working phase with the same attempt.
LEMMA WorkOnType ==
  ASSUME TypeInv, NEW r \in Reconcilers,
         NEW phase \in {"recover", "claim", "execute", "request"}, Goto(r, phase),
         cur[r] \in Attempts,
         UNCHANGED <<round, todo, sched, cur>>,
         snap' \in [Reconcilers -> [Attempts -> TaskRecord]],
         held' = held \/ \E what \in Holdings : held' = [held EXCEPT ![r] = what]
  PROVE  PrivateInv'
  <1>1. PrivateType'
    BY DEF TypeInv, PrivateInv, PrivateType, Goto, Phases
  <1> QED
    BY <1>1 DEF TypeInv, PrivateInv, PrivateType, CurOK, HeldOK, WaitOK, Goto

LEMMA DiagnosedType ==
  ASSUME NEW rec \in TaskRecord
  PROVE  [rec EXCEPT !.diagnosed = TRUE] \in TaskRecord
  BY DEF TaskRecord

LEMMA TypeResume ==
  ASSUME TypeInv, NEW r \in Reconcilers, Resume(r) PROVE TypeInv'
  <1>0. cur[r] \in Attempts /\ task[cur[r]] \in TaskRecord
    BY CurInHand DEF Resume, Engaged
  <1>1. RestType'
    BY DEF TypeInv, RestType, Resume, outside, history, Fault, NoFault
  <1>2. CASE Skip(r) /\ UNCHANGED task
    BY <1>1, <1>2, SkipType DEF TypeInv, StoreType, Resume
  <1>3. CASE /\ task' = [task EXCEPT ![cur[r]].diagnosed = TRUE]
             /\ Goto(r, "claim")
             /\ UNCHANGED <<round, todo, snap, sched, cur, held>>
    <2>1. StoreType'
      BY <1>0, <1>3, DiagnosedType DEF TypeInv, StoreType, Resume
    <2>2. PrivateInv'
      BY <1>0, <1>3, WorkOnType DEF TypeInv, PrivateInv, PrivateType
    <2> QED BY <1>1, <2>1, <2>2 DEF TypeInv
  <1> QED BY <1>2, <1>3 DEF Resume

LEMMA StartCommitType ==
  ASSUME TypeInv, NEW a \in Attempts, NEW b \in BOOLEAN,
         task' = [task EXCEPT ![a] = Started(@, b)],
         events' = events \cup {<<a, "Started">>},
         UNCHANGED <<approval, members, wf, outbox>>
  PROVE  StoreType'
  <1>1. Started(task[a], b) \in TaskRecord
    BY StartedType DEF TypeInv, StoreType
  <1> QED BY <1>1 DEF TypeInv, StoreType, EventTypes

LEMMA TypeStart ==
  ASSUME TypeInv, NEW r \in Reconcilers, Start(r) PROVE TypeInv'
  <1>0. cur[r] \in Attempts
    BY CurInHand DEF Start, Engaged
  <1>1. RestType'
    <2>1. faults' = faults \/ faults' = faults + 1
      BY DEF Start, Fault, NoFault
    <2>2. UNCHANGED <<outside, crashes, history>>
      BY DEF Start
    <2> QED BY <2>1, <2>2 DEF TypeInv, RestType, outside, history
  <1>2. StoreType'
    <2>1. \/ UNCHANGED <<task, events>>
          \/ /\ task' = [task EXCEPT ![cur[r]] = Started(@, FALSE)]
             /\ events' = events \cup {<<cur[r], "Started">>}
      BY DEF Start
    <2> QED BY <1>0, <2>1, StartCommitType DEF TypeInv, StoreType, Start
  <1>3. CASE Skip(r)
    BY <1>1, <1>2, <1>3, SkipType DEF TypeInv
  <1>4. CASE ~ Skip(r)
    <2>1. /\ \E phase \in {"recover", "claim"} : Goto(r, phase)
          /\ \E what \in Holdings : held' = [held EXCEPT ![r] = what]
          /\ UNCHANGED <<round, todo, snap, sched, cur>>
      BY <1>4 DEF Start, Holdings
    <2>2. PrivateInv'
      BY <1>0, <2>1, WorkOnType DEF TypeInv, PrivateInv, PrivateType
    <2> QED BY <1>1, <1>2, <2>2 DEF TypeInv
  <1> QED BY <1>3, <1>4

LEMMA TypeRecover ==
  ASSUME TypeInv, NEW r \in Reconcilers, Recover(r) PROVE TypeInv'
  <1>0. cur[r] \in Attempts /\ task[cur[r]] \in TaskRecord
    BY CurInHand DEF Recover, Engaged
  <1>1. RestType'
    <2>1. faults' = faults \/ faults' = faults + 1
      BY DEF Recover, Fault, NoFault
    <2>2. UNCHANGED <<outside, crashes, history>>
      BY DEF Recover
    <2> QED BY <2>1, <2>2 DEF TypeInv, RestType, outside, history
  <1>2. CASE LeaveRecoverable(r)
    BY <1>1, <1>2, LeaveType DEF TypeInv
  <1>3. CASE task[cur[r]].status = "PENDING"
    <2>1. StoreType'
      BY <1>0, <1>3, StartCommitType DEF Recover
    <2>2. /\ Goto(r, "claim") \/ Goto(r, "recover")
          /\ \E what \in Holdings : held' = [held EXCEPT ![r] = what]
          /\ UNCHANGED <<round, todo, snap, sched, cur>>
      BY <1>3 DEF Recover, Goto, TypeInv, PrivateInv, PrivateType, Holdings
    <2>3. PrivateInv'
      BY <1>0, <2>2, WorkOnType DEF TypeInv, PrivateInv, PrivateType
    <2> QED BY <1>1, <2>1, <2>3 DEF TypeInv
  <1>4. CASE /\ task' = [task EXCEPT ![cur[r]].diagnosed = TRUE]
             /\ Goto(r, "claim")
             /\ held' = [held EXCEPT ![r] = "none"]
             /\ UNCHANGED <<round, todo, snap, sched, cur, approval,
                            events, members, wf, outbox>>
    <2>1. StoreType'
      BY <1>0, <1>4, DiagnosedType DEF TypeInv, StoreType
    <2>2. PrivateInv'
      BY <1>0, <1>4, WorkOnType DEF TypeInv, PrivateInv, PrivateType, Holdings
    <2> QED BY <1>1, <2>1, <2>2 DEF TypeInv
  <1> QED BY <1>2, <1>3, <1>4 DEF Recover

LEMMA TypeClaim ==
  ASSUME TypeInv, NEW r \in Reconcilers, Claim(r) PROVE TypeInv'
  <1>0. cur[r] \in Attempts /\ task[cur[r]] \in TaskRecord
    BY CurInHand DEF Claim, Engaged
  <1>1. RestType'
    BY DEF TypeInv, RestType, Claim, outside, history, Fault, NoFault
  <1>2. CASE Skip(r) /\ UNCHANGED task
    BY <1>1, <1>2, SkipType DEF TypeInv, StoreType, Claim
  <1>3. CASE /\ task' = [task EXCEPT ![cur[r]].dispatch = "CLAIMED", ![cur[r]].owner = r]
             /\ snap' = [snap EXCEPT ![r][cur[r]] = task'[cur[r]]]
             /\ Goto(r, "execute")
             /\ UNCHANGED <<round, todo, sched, cur, held>>
    <2>1. task' \in [Attempts -> TaskRecord]
      BY <1>0, <1>3, ClaimedType DEF TypeInv, StoreType
    <2>2. PrivateInv'
      BY <1>0, <1>3, <2>1, WorkOnType DEF TypeInv, PrivateInv, PrivateType
    <2> QED BY <1>1, <2>1, <2>2 DEF TypeInv, StoreType, Claim
  <1> QED BY <1>2, <1>3 DEF Claim

LEMMA TypeExecute ==
  ASSUME TypeInv, NEW r \in Reconcilers, Execute(r) PROVE TypeInv'
  <1>0. cur[r] \in Attempts
    BY CurInHand DEF Execute, Engaged, Holding
  <1>1. StoreType' /\ RestType'
    BY <1>0 DEF TypeInv, StoreType, RestType, Execute, store, outside, bounds
  <1>2. UNCHANGED <<round, snap, sched, cur>>
    BY DEF Execute
  <1>3. CASE \E o \in Outcomes : /\ held' = [held EXCEPT ![r] = o]
                                 /\ Goto(r, "evidence") /\ UNCHANGED todo
    <2>1. PrivateType'
      BY <1>2, <1>3 DEF TypeInv, PrivateInv, PrivateType, Goto, Phases, Holdings
    <2>2. CurOK'
      BY <1>0, <1>2, <1>3 DEF TypeInv, PrivateInv, PrivateType, CurOK, Goto
    <2>3. HeldOK' /\ WaitOK'
      BY <1>2, <1>3 DEF TypeInv, PrivateInv, PrivateType, HeldOK, WaitOK, Goto
    <2> QED BY <1>1, <2>1, <2>2, <2>3 DEF TypeInv, PrivateInv
  <1>4. CASE \E g \in AllGates : /\ todo' = [todo EXCEPT ![r] = {<<cur[r], g>>}]
                                 /\ Goto(r, "wait") /\ UNCHANGED held
    <2>1. PrivateType'
      BY <1>0, <1>2, <1>4 DEF TypeInv, PrivateInv, PrivateType, Goto, Phases, Binding
    <2>2. CurOK'
      BY <1>0, <1>2, <1>4 DEF TypeInv, PrivateInv, PrivateType, CurOK, Goto
    <2>3. HeldOK'
      BY <1>2, <1>4 DEF TypeInv, PrivateInv, PrivateType, HeldOK, Goto
    <2>4. WaitOK'
      <3> SUFFICES ASSUME NEW q \in Reconcilers, pc'[q] = "wait"
                   PROVE  \E g \in AllGates : <<cur'[q], g>> \in todo'[q]
        BY DEF WaitOK
      <3>1. CASE q = r
        BY <1>2, <1>4, <3>1 DEF TypeInv, PrivateInv, PrivateType
      <3>2. CASE q # r
        BY <1>2, <1>4, <3>2 DEF TypeInv, PrivateInv, PrivateType, WaitOK, Goto
      <3> QED BY <3>1, <3>2
    <2> QED BY <1>1, <2>1, <2>2, <2>3, <2>4 DEF TypeInv, PrivateInv
  <1>5. 1 .. Gates[cur[r][1]] \subseteq AllGates
    BY <1>0 DEF Attempts, AllGates
  <1>6. Results \subseteq Outcomes /\ "policy" \in Outcomes
    BY SchedulerAssumption DEF Outcomes
  <1> QED BY <1>3, <1>4, <1>5, <1>6 DEF Execute

LEMMA EvidenceType ==
  ASSUME NEW rec \in TaskRecord, NEW o \in Outcomes
  PROVE  /\ [rec EXCEPT !.evidence = o] \in TaskRecord
         /\ [rec EXCEPT !.evidence = o, !.diagnosed = TRUE] \in TaskRecord
  BY DEF TaskRecord

\* A step of r that goes on with the handler's report in hand.
LEMMA ReportOnType ==
  ASSUME TypeInv, NEW r \in Reconcilers,
         NEW phase \in {"reevidence", "terminal"}, Goto(r, phase),
         cur[r] \in Attempts, held[r] \in Outcomes,
         UNCHANGED <<round, todo, snap, sched, cur, held>>
  PROVE  PrivateInv'
  <1>1. PrivateType'
    BY DEF TypeInv, PrivateInv, PrivateType, Goto, Phases
  <1> QED
    BY <1>1 DEF TypeInv, PrivateInv, PrivateType, CurOK, HeldOK, WaitOK, Goto

LEMMA TypePersistEvidence ==
  ASSUME TypeInv, NEW r \in Reconcilers, PersistEvidence(r) \/ RetryEvidence(r)
  PROVE  TypeInv'
  <1>0. /\ cur[r] \in Attempts /\ task[cur[r]] \in TaskRecord
        /\ held[r] \in Outcomes
    BY CurInHand DEF PersistEvidence, RetryEvidence, Engaged, Holding, TypeInv, PrivateInv, HeldOK
  <1>1. RestType'
    <2>1. faults' = faults \/ faults' = faults + 1
      BY DEF PersistEvidence, RetryEvidence, Fault, NoFault, bounds
    <2>2. UNCHANGED <<outside, crashes, history>>
      BY DEF PersistEvidence, RetryEvidence, bounds
    <2> QED BY <2>1, <2>2 DEF TypeInv, RestType, outside, history
  <1>2. CASE LeaveRecoverable(r)
    BY <1>1, <1>2, LeaveType DEF TypeInv
  <1>3. CASE ~ LeaveRecoverable(r)
    <2>1. /\ \/ UNCHANGED task
             \/ task' = [task EXCEPT ![cur[r]].evidence = held[r]]
             \/ task' = [task EXCEPT ![cur[r]].evidence = held[r], ![cur[r]].diagnosed = TRUE]
          /\ Goto(r, "reevidence") \/ Goto(r, "terminal")
          /\ UNCHANGED <<round, todo, snap, sched, cur, held, approval, events, members, wf, outbox>>
      BY <1>3 DEF PersistEvidence, RetryEvidence
    <2>2. task' \in [Attempts -> TaskRecord]
      <3>1. CASE task' = [task EXCEPT ![cur[r]].evidence = held[r]]
        BY <1>0, <3>1, EvidenceType DEF TypeInv, StoreType
      <3>2. CASE task' = [task EXCEPT ![cur[r]].evidence = held[r], ![cur[r]].diagnosed = TRUE]
        BY <1>0, <3>2, EvidenceType DEF TypeInv, StoreType
      <3> QED BY <2>1, <3>1, <3>2 DEF TypeInv, StoreType
    <2>3. PrivateInv'
      BY <1>0, <2>1, ReportOnType
    <2> QED BY <1>1, <2>1, <2>2, <2>3 DEF TypeInv, StoreType
  <1> QED BY <1>2, <1>3

LEMMA TypeCommitTerminal ==
  ASSUME TypeInv, NEW r \in Reconcilers, CommitTerminal(r) PROVE TypeInv'
  <1>0. /\ cur[r] \in Attempts /\ task[cur[r]] \in TaskRecord
        /\ held[r] \in Outcomes
    BY CurInHand DEF CommitTerminal, Engaged, Holding, TypeInv, PrivateInv, HeldOK
  <1>1. RestType'
    BY DEF TypeInv, RestType, CommitTerminal, outside, bounds, history
  <1>2. CASE LeaveRecoverable(r)
    BY <1>1, <1>2, LeaveType DEF TypeInv
  <1>3. CASE /\ task' = [task EXCEPT ![cur[r]] = Finished(@, held[r])]
             /\ events' = events \cup {<<cur[r], TerminalEvent(held[r])>>}
             /\ Skip(r)
             /\ UNCHANGED <<approval, members, wf, outbox>>
    <2>1. Finished(task[cur[r]], held[r]) \in TaskRecord
      BY <1>0, FinishedType
    <2>2. StoreType'
      BY <1>0, <1>3, <2>1 DEF TypeInv, StoreType, TerminalEvent, EventTypes
    <2> QED BY <1>1, <1>3, <2>2, SkipType DEF TypeInv
  <1> QED BY <1>2, <1>3 DEF CommitTerminal

LEMMA WaitingType ==
  ASSUME NEW rec \in TaskRecord, NEW g \in AllGates, NEW e \in Binding
  PROVE  [rec EXCEPT !.status = "AWAITING_APPROVAL", !.intent = g, !.expected = e]
           \in TaskRecord
  <1>1. g \in Binding
    BY DEF Binding
  <1> QED BY <1>1 DEF TaskRecord, Statuses

LEMMA TypeCommitWait ==
  ASSUME TypeInv, NEW r \in Reconcilers, CommitWait(r) PROVE TypeInv'
  <1>0. /\ cur[r] \in Attempts /\ task[cur[r]] \in TaskRecord
        /\ snap[r][cur[r]].approvalId \in Binding
    <2>1. cur[r] \in Attempts /\ task[cur[r]] \in TaskRecord
      BY CurInHand DEF CommitWait, Engaged, Holding
    <2>2. snap[r][cur[r]] \in TaskRecord
      BY <2>1 DEF TypeInv, PrivateInv, PrivateType
    <2> QED BY <2>1, <2>2 DEF TaskRecord
  <1>1. RestType'
    BY DEF TypeInv, RestType, CommitWait, outside, bounds, history
  <1>2. CASE LeaveRecoverable(r)
    BY <1>1, <1>2, LeaveType DEF TypeInv
  <1>3. CASE ~ LeaveRecoverable(r)
    <2> DEFINE gate == CHOOSE g \in AllGates : <<cur[r], g>> \in todo[r]
    <2>1. gate \in AllGates
      BY DEF CommitWait, TypeInv, PrivateInv, WaitOK
    <2>2. /\ task' = [task EXCEPT ![cur[r]].status = "AWAITING_APPROVAL",
                                  ![cur[r]].intent = gate,
                                  ![cur[r]].expected = snap[r][cur[r]].approvalId]
          /\ events' = events \cup {<<cur[r], "AwaitingApproval">>}
          /\ Goto(r, "request")
          /\ UNCHANGED <<round, todo, snap, sched, cur, held, approval, members, wf, outbox>>
      BY <1>3 DEF CommitWait
    <2> HIDE DEF gate
    <2>3. [task[cur[r]] EXCEPT !.status = "AWAITING_APPROVAL", !.intent = gate,
                               !.expected = snap[r][cur[r]].approvalId] \in TaskRecord
      BY <1>0, <2>1, WaitingType
    <2>4. StoreType'
      <3>1. task' \in [Attempts -> TaskRecord]
        BY <1>0, <2>2, <2>3 DEF TypeInv, StoreType
      <3>2. events' \subseteq Attempts \X EventTypes
        BY <1>0, <2>2 DEF TypeInv, StoreType, EventTypes
      <3> QED BY <2>2, <3>1, <3>2 DEF TypeInv, StoreType
    <2>5. PrivateInv'
      BY <1>0, <2>2, WorkOnType DEF TypeInv, PrivateInv, PrivateType
    <2> QED BY <1>1, <2>4, <2>5 DEF TypeInv
  <1> QED BY <1>2, <1>3

LEMMA TypeRequestApproval ==
  ASSUME TypeInv, NEW r \in Reconcilers, RequestApproval(r) PROVE TypeInv'
  <1>1. RestType'
    BY DEF TypeInv, RestType, RequestApproval, outside, bounds, history
  <1>2. PICK p \in todo[r] :
          Request(r, p[1], p[2], snap[r][p[1]].approvalId, Skip(r))
    BY DEF RequestApproval
  <1>3. p[1] \in Attempts /\ p[2] \in Binding
    BY DEF TypeInv, PrivateInv, PrivateType
  <1>4. CASE LeaveRecoverable(r) \/ LeaveValueError(r)
    BY <1>1, <1>4, LeaveType DEF TypeInv
  <1>5. CASE /\ approval' = [approval EXCEPT ![p[1]][p[2]] = IF @ = "NONE" THEN "PENDING" ELSE @]
             /\ task' = [task EXCEPT ![p[1]].approvalId = p[2]]
             /\ Skip(r)
             /\ UNCHANGED <<events, members, wf, outbox>>
    BY <1>1, <1>3, <1>5, BindType, SkipType DEF TypeInv
  <1> QED BY <1>2, <1>4, <1>5 DEF Request

LEMMA TypeEnding ==
  ASSUME TypeInv, NEW r \in Reconcilers, Ending(r) PROVE TypeInv'
  <1>1. CASE EndPass(r)
    <2>1. PrivateType'
      BY <1>1, NewRecordType DEF TypeInv, PrivateInv, PrivateType, EndPass, Goto, Phases, NoSnap
    <2>2. PrivateInv'
      BY <1>1, <2>1 DEF TypeInv, PrivateInv, PrivateType, CurOK, HeldOK, WaitOK, Engaged, Holding, EndPass, Goto
    <2> QED BY <1>1, <2>2 DEF TypeInv, StoreType, RestType, EndPass, store, outside, bounds, history
  <1>2. CASE ReadOutcome(r)
    <2>1. PrivateType'
      BY <1>2 DEF TypeInv, PrivateInv, PrivateType, ReadOutcome, Goto, Phases, Holdings
    <2>2. CurOK' /\ WaitOK'
      <3>1. /\ UNCHANGED <<cur, todo>> /\ \A q \in Reconcilers \ {r} : pc'[q] = pc[q]
            /\ pc'[r] \in {"settle", "commit"}
        BY <1>2 DEF TypeInv, PrivateInv, PrivateType, ReadOutcome, Goto
      <3> QED BY <3>1 DEF TypeInv, PrivateInv, CurOK, WaitOK, Engaged, Holding
    <2>3. HeldOK'
      <3>1. CASE InFlight(task)
        BY <1>2, <3>1 DEF TypeInv, PrivateInv, PrivateType, HeldOK, ReadOutcome, Goto
      <3>2. CASE ~ InFlight(task)
        BY <1>2, <3>2 DEF TypeInv, PrivateInv, PrivateType, HeldOK, ReadOutcome, Goto
      <3> QED BY <3>1, <3>2
    <2> QED BY <1>2, <2>1, <2>2, <2>3 DEF TypeInv, PrivateInv, StoreType, RestType, ReadOutcome, store, outside, bounds, history
  <1>3. CASE CommitOutcome(r)
    <2>1. wf' \in {"RUNNING", "SUCCEEDED", "FAILED"}
      BY <1>3 DEF TypeInv, StoreType, PrivateInv, HeldOK, CommitOutcome
    <2>2. PrivateType'
      BY <1>3 DEF TypeInv, PrivateInv, PrivateType, CommitOutcome, Goto, Phases, Holdings
    <2>3. PrivateInv'
      BY <1>3, <2>2 DEF TypeInv, PrivateInv, PrivateType, CurOK, HeldOK, WaitOK, Engaged, Holding, CommitOutcome, Goto
    <2> QED BY <1>3, <2>1, <2>3 DEF TypeInv, StoreType, RestType, CommitOutcome, outside, bounds, history
  <1>4. CASE Settle(r)
    BY <1>4, ForgetType DEF TypeInv, StoreType, RestType, Settle, outside, bounds, history
  <1> QED BY <1>1, <1>2, <1>3, <1>4 DEF Ending

LEMMA TypeCrash ==
  ASSUME TypeInv, NEW r \in Reconcilers, Crash(r) PROVE TypeInv'
  BY ForgetType DEF TypeInv, StoreType, RestType, Crash, store, outside, history

LEMMA TypeTimePasses ==
  ASSUME TypeInv, TimePasses PROVE TypeInv'
  BY DEF TypeInv, StoreType, RestType, PrivateInv, PrivateType, CurOK, HeldOK, WaitOK,
         TimePasses, store, private, bounds, history

LEMMA TypeStutter ==
  ASSUME TypeInv, UNCHANGED vars PROVE TypeInv'
  BY DEF TypeInv, StoreType, RestType, PrivateInv, PrivateType, CurOK, HeldOK, WaitOK,
         vars, store, private, outside, bounds, history

LEMMA TypeInitial == Init => TypeInv
  BY NewRecordType DEF Init, TypeInv, StoreType, RestType, PrivateInv, PrivateType,
     CurOK, HeldOK, WaitOK, Engaged, Holding, Phases, Holdings, NoSnap, ApprovalStatuses

LEMMA TypeStep == TypeInv /\ [Next]_vars => TypeInv'
  <1> SUFFICES ASSUME TypeInv, [Next]_vars PROVE TypeInv'
    OBVIOUS
  <1>1. ASSUME NEW r \in Reconcilers, Step(r) PROVE TypeInv'
    BY <1>1, TypeBeginPass, TypeRecoverRequest, TypeRecoverWakeup, TypeFailRejected,
       TypeNextPhase, TypeWaveCreated, TypeAttach, TypeEvents, TypeRepairMarker,
       TypeCreateAttempt, TypeTake, TypeResume, TypeStart, TypeRecover, TypeClaim,
       TypeExecute, TypePersistEvidence, TypeCommitTerminal, TypeCommitWait,
       TypeRequestApproval, TypeEnding
    DEF Step, Recovery, Listing, Dispatch, Handling
  <1>2. ASSUME NEW r \in Reconcilers, Crash(r) PROVE TypeInv'
    BY <1>2, TypeCrash
  <1>3. CASE Operator
    BY <1>3, TypeOperator DEF Operator
  <1>4. CASE TimePasses
    BY <1>4, TypeTimePasses
  <1>5. CASE IdlePoll \/ UNCHANGED vars
    BY <1>5, TypeStutter DEF IdlePoll
  <1> QED BY <1>1, <1>2, <1>3, <1>4, <1>5 DEF Next

\* Records, approvals, events and the reconcilers' private state keep to their
\* types in every reachable state of the scheduler.
THEOREM TypeCorrect == Spec => []TypeOK
  <1>1. TypeInv => TypeOK
    BY DEF TypeInv, PrivateInv, TypeOK
  <1> QED BY <1>1, TypeInitial, TypeStep, PTL DEF Spec

-----------------------------------------------------------------------------
(* One dispatch, one owner, one run.                                       *)

\* An attempt that is not started holds no claim.
UnstartedUnclaimed ==
  \A a \in Attempts :
    task[a].status \in {"NONE", "PENDING"} => task[a].dispatch # "CLAIMED"

\* The attempt a reconciler has dispatched is its own, and neither waits nor
\* is queued.
HolderOwns ==
  \A r \in Reconcilers :
    pc[r] \in Holding =>
      /\ task[cur[r]].dispatch = "CLAIMED" /\ task[cur[r]].owner = r
      /\ task[cur[r]].status \in {"RUNNING", "SUCCEEDED", "FAILED"}

\* The run that a claim allows is the only one ahead of the wake-ups.
RunsCounted ==
  \A a \in Attempts :
    runs[a] <= wakes[a] + (IF task[a].dispatch = "CLAIMED" THEN 1 ELSE 0)

\* A handler about to run has not run in this dispatch.
ExecuteFresh ==
  \A r \in Reconcilers : pc[r] = "execute" => runs[cur[r]] <= wakes[cur[r]]

DispatchInv == UnstartedUnclaimed /\ HolderOwns /\ RunsCounted /\ ExecuteFresh

\* A step that neither makes nor ends a claim, runs nothing and wakes nothing.
Quiet ==
  /\ UNCHANGED <<runs, wakes>>
  /\ \A a \in Attempts :
       /\ task[a].dispatch = "CLAIMED" =>
            /\ task'[a].dispatch = "CLAIMED" /\ task'[a].owner = task[a].owner
            /\ task'[a].status \notin {"NONE", "PENDING"}
       /\ task[a].dispatch # "CLAIMED" => task'[a].dispatch # "CLAIMED"
  /\ \A r \in Reconcilers :
       pc'[r] \in Holding =>
         /\ pc[r] \in Holding /\ cur'[r] = cur[r]
         /\ task'[cur[r]].status \in {"RUNNING", "SUCCEEDED", "FAILED"}
         /\ pc'[r] = "execute" => pc[r] = "execute"

LEMMA QuietPreserves ==
  ASSUME TypeInv, DispatchInv, Quiet
  PROVE  DispatchInv'
  <1>0. \A r \in Reconcilers : pc[r] \in Holding => cur[r] \in Attempts
    BY DEF TypeInv, PrivateInv, CurOK, Engaged
  <1>1. UnstartedUnclaimed'
    BY DEF DispatchInv, UnstartedUnclaimed, Quiet
  <1>2. HolderOwns'
    BY <1>0 DEF DispatchInv, HolderOwns, Quiet
  <1>3. RunsCounted'
    BY DEF DispatchInv, RunsCounted, Quiet, TypeInv, RestType
  <1>4. ExecuteFresh'
    BY <1>0 DEF DispatchInv, ExecuteFresh, Quiet, Holding
  <1> QED BY <1>1, <1>2, <1>3, <1>4 DEF DispatchInv

\* Steps that leave the records alone and do not enter a holding phase.
LEMMA SameTaskQuiet ==
  ASSUME TypeInv, DispatchInv, NEW r \in Reconcilers, UNCHANGED <<task, runs, wakes>>,
         NEW phase, pc' = [pc EXCEPT ![r] = phase],
         \/ phase \notin Holding
         \/ pc[r] \in Holding /\ phase # "execute" /\ cur'[r] = cur[r],
         \A q \in Reconcilers \ {r} : cur'[q] = cur[q]
  PROVE  Quiet
  BY DEF Quiet, TypeInv, PrivateInv, PrivateType, DispatchInv, UnstartedUnclaimed, HolderOwns

\* Steps that write one record, without touching a claim.
LEMMA OneTaskQuiet ==
  ASSUME TypeInv, DispatchInv, NEW r \in Reconcilers, UNCHANGED <<runs, wakes>>,
         NEW a \in Attempts, NEW rec, task' = [task EXCEPT ![a] = rec],
         task[a].dispatch = "CLAIMED" =>
           /\ rec.dispatch = "CLAIMED" /\ rec.owner = task[a].owner
           /\ \/ rec.status \in {"RUNNING", "SUCCEEDED", "FAILED"}
              \/ /\ rec.status = "AWAITING_APPROVAL"
                 /\ task[a].status = "AWAITING_APPROVAL",
         task[a].dispatch # "CLAIMED" => rec.dispatch # "CLAIMED",
         NEW phase, pc' = [pc EXCEPT ![r] = phase],
         \/ phase \notin Holding
         \/ pc[r] \in Holding /\ phase # "execute" /\ cur'[r] = cur[r],
         \A q \in Reconcilers \ {r} : cur'[q] = cur[q]
  PROVE  Quiet
  <1>1. \A b \in Attempts \ {a} : task'[b] = task[b]
    BY DEF TypeInv, StoreType
  <1>2. task'[a] = rec
    BY DEF TypeInv, StoreType
  <1>3. \A q \in Reconcilers \ {r} : pc'[q] = pc[q]
    BY DEF TypeInv, PrivateInv, PrivateType
  <1>4. pc'[r] = phase
    BY DEF TypeInv, PrivateInv, PrivateType
  <1>5. \A q \in Reconcilers : pc[q] \in Holding => cur[q] \in Attempts
    BY DEF TypeInv, PrivateInv, CurOK, Engaged
  <1>6. \A b \in Attempts :
       /\ task[b].dispatch = "CLAIMED" =>
            /\ task'[b].dispatch = "CLAIMED" /\ task'[b].owner = task[b].owner
            /\ task'[b].status \notin {"NONE", "PENDING"}
       /\ task[b].dispatch # "CLAIMED" => task'[b].dispatch # "CLAIMED"
    BY <1>1, <1>2 DEF DispatchInv, UnstartedUnclaimed
  <1>7. ASSUME NEW q \in Reconcilers, pc'[q] \in Holding
        PROVE /\ pc[q] \in Holding /\ cur'[q] = cur[q]
              /\ task'[cur[q]].status \in {"RUNNING", "SUCCEEDED", "FAILED"}
              /\ pc'[q] = "execute" => pc[q] = "execute"
    <2>1. pc[q] \in Holding /\ cur'[q] = cur[q] /\ (pc'[q] = "execute" => pc[q] = "execute")
      BY <1>3, <1>4, <1>7
    <2>2. task'[cur[q]].status \in {"RUNNING", "SUCCEEDED", "FAILED"}
      BY <1>1, <1>2, <1>5, <2>1 DEF DispatchInv, HolderOwns
    <2> QED BY <2>1, <2>2
  <1> QED BY <1>6, <1>7 DEF Quiet

\* The common case: the record keeps its claim and its owner, and is not
\* waiting when it was running.
KeepsClaim(r, a, rec, phase) ==
  /\ task' = [task EXCEPT ![a] = rec]
  /\ rec.dispatch = task[a].dispatch /\ rec.owner = task[a].owner
  /\ \/ rec.status \in {"RUNNING", "SUCCEEDED", "FAILED"}
     \/ /\ rec.status = "AWAITING_APPROVAL"
        /\ task[a].status = "AWAITING_APPROVAL"
  /\ pc' = [pc EXCEPT ![r] = phase]
  /\ \/ phase \notin Holding
     \/ pc[r] \in Holding /\ phase # "execute" /\ cur'[r] = cur[r]
  /\ \A q \in Reconcilers \ {r} : cur'[q] = cur[q]

LEMMA KeptClaimQuiet ==
  ASSUME TypeInv, DispatchInv, NEW r \in Reconcilers, UNCHANGED <<runs, wakes>>,
         NEW a \in Attempts, NEW rec, NEW phase, KeepsClaim(r, a, rec, phase)
  PROVE  Quiet
  <1> USE DEF KeepsClaim
  <1>1. task[a].dispatch = "CLAIMED" =>
          /\ rec.dispatch = "CLAIMED" /\ rec.owner = task[a].owner
          /\ \/ rec.status \in {"RUNNING", "SUCCEEDED", "FAILED"}
             \/ /\ rec.status = "AWAITING_APPROVAL"
                /\ task[a].status = "AWAITING_APPROVAL"
    OBVIOUS
  <1>2. task[a].dispatch # "CLAIMED" => rec.dispatch # "CLAIMED"
    OBVIOUS
  <1> QED BY <1>1, <1>2, OneTaskQuiet

LEMMA NoMoveQuiet ==
  ASSUME TypeInv, DispatchInv, UNCHANGED <<task, runs, wakes, pc, cur>>
  PROVE  Quiet
  BY DEF Quiet, DispatchInv, UnstartedUnclaimed, HolderOwns

LEMMA LeaveQuiet ==
  ASSUME TypeInv, DispatchInv, NEW r \in Reconcilers, UNCHANGED <<task, runs, wakes>>, Forget(r)
  PROVE  Quiet
  <1>1. pc' = [pc EXCEPT ![r] = "idle"] /\ \A q \in Reconcilers \ {r} : cur'[q] = cur[q]
    BY DEF Forget, Goto, TypeInv, PrivateInv, PrivateType
  <1> QED BY <1>1, SameTaskQuiet DEF Holding

LEMMA QuietUnchanged ==
  ASSUME TypeInv, DispatchInv, NEW r \in Reconcilers,
         \/ BeginPass(r) \/ NextPhase(r) \/ WaveCreated(r) \/ Attach(r)
         \/ EmitQueued(r) \/ EmitTerminal(r) \/ Take(r) \/ Ending(r) \/ Crash(r)
  PROVE  Quiet
  <1>1. UNCHANGED <<task, runs, wakes>>
    BY DEF BeginPass, NextPhase, WaveCreated, Attach, EmitQueued, EmitTerminal, Take, Ending,
           EndPass, ReadOutcome, CommitOutcome, Settle, Crash, LeaveValueError,
           LeaveRecoverable, store, history
  <1>2. CASE Forget(r)
    BY <1>1, <1>2, LeaveQuiet
  <1>3. CASE UNCHANGED <<pc, cur>>
    BY <1>1, <1>3, NoMoveQuiet
  <1>4. CASE \E phase \in Phases \ Holding : Goto(r, phase) /\ UNCHANGED cur
    BY <1>1, <1>4, SameTaskQuiet DEF Goto
  <1>5. CASE Take(r)
    <2>1. \E phase \in {"start", "claim", "resume"} : Goto(r, phase)
      BY <1>5 DEF Take
    <2>2. \A q \in Reconcilers \ {r} : cur'[q] = cur[q]
      BY <1>5 DEF Take, TypeInv, PrivateInv, PrivateType
    <2> QED BY <1>1, <2>1, <2>2, SameTaskQuiet DEF Goto, Holding
  <1>6. CASE BeginPass(r)
    BY <1>2, <1>4, <1>6 DEF BeginPass, Enter, LeaveValueError, Phases, Holding
  <1>7. CASE NextPhase(r)
    BY <1>4, <1>7 DEF NextPhase, Following, Enter, Phases, Holding
  <1>8. CASE WaveCreated(r)
    BY <1>4, <1>8 DEF WaveCreated, Phases, Holding
  <1>9. CASE Attach(r)
    BY <1>2, <1>3, <1>9 DEF Attach, LeaveRecoverable, private
  <1>10. CASE EmitQueued(r) \/ EmitTerminal(r)
    BY <1>3, <1>10 DEF EmitQueued, EmitTerminal, private
  <1>11. CASE Ending(r)
    BY <1>2, <1>4, <1>11 DEF Ending, EndPass, ReadOutcome, CommitOutcome, Settle, Phases, Holding
  <1>12. CASE Crash(r)
    BY <1>2, <1>12 DEF Crash
  <1> QED BY <1>5, <1>6, <1>7, <1>8, <1>9, <1>10, <1>11, <1>12

LEMMA QuietRequest ==
  ASSUME TypeInv, DispatchInv, NEW r \in Reconcilers,
         RecoverRequest(r) \/ RequestApproval(r)
  PROVE  Quiet
  <1>1. UNCHANGED <<runs, wakes>>
    BY DEF RecoverRequest, RequestApproval, history
  <1>2. CASE (LeaveRecoverable(r) \/ LeaveValueError(r))
    BY <1>1, <1>2, LeaveQuiet DEF LeaveRecoverable, LeaveValueError, store
  <1>3. CASE ~ (LeaveRecoverable(r) \/ LeaveValueError(r))
    <2>1. PICK p \in todo[r] :
            /\ task[p[1]].status = "AWAITING_APPROVAL"
            /\ task' = [task EXCEPT ![p[1]].approvalId = p[2]]
            /\ \/ UNCHANGED <<pc, cur>> /\ pc[r] = "requests"
               \/ Skip(r)
      BY <1>3 DEF RecoverRequest, RequestApproval, Request, BindOutcome
    <2>2. PICK a \in Attempts, g \in Binding :
            /\ task[a].status = "AWAITING_APPROVAL"
            /\ task' = [task EXCEPT ![a].approvalId = g]
      <3>1. p \in Attempts \X Binding
        BY DEF TypeInv, PrivateInv, PrivateType
      <3> QED BY <2>1, <3>1
    <2> DEFINE rec == [task[a] EXCEPT !.approvalId = g]
    <2>3. /\ rec.status = "AWAITING_APPROVAL"
          /\ rec.dispatch = task[a].dispatch /\ rec.owner = task[a].owner
      BY <2>2 DEF TaskRecord, TypeInv, StoreType
    <2>4. task' = [task EXCEPT ![a] = rec]
      BY <2>2
    <2>5. /\ \E phase \in {"requests", "dispatch"} : pc' = [pc EXCEPT ![r] = phase]
          /\ \A q \in Reconcilers \ {r} : cur'[q] = cur[q]
      BY <2>1 DEF Skip, Goto, TypeInv, PrivateInv, PrivateType
    <2>6. PICK phase \in {"requests", "dispatch"} : pc' = [pc EXCEPT ![r] = phase]
      BY <2>5
    <2>7. phase \notin Holding
      BY DEF Holding
    <2> HIDE DEF rec
    <2>8. KeepsClaim(r, a, rec, phase)
      BY <2>2, <2>3, <2>4, <2>5, <2>6, <2>7 DEF KeepsClaim
    <2> QED BY <1>1, <2>8, KeptClaimQuiet
  <1> QED BY <1>2, <1>3

LEMMA FinishedKeepsClaim ==
  ASSUME NEW rec \in TaskRecord, NEW o
  PROVE  /\ Finished(rec, o).dispatch = rec.dispatch
         /\ Finished(rec, o).owner = rec.owner
         /\ Finished(rec, o).status \in {"SUCCEEDED", "FAILED"}
  <1>1. StatusOf(o) \in {"SUCCEEDED", "FAILED"}
    BY DEF StatusOf
  <1> QED
    BY <1>1 DEF Finished, TaskRecord

LEMMA QuietFinish ==
  ASSUME TypeInv, DispatchInv, NEW r \in Reconcilers,
         FailRejected(r) \/ RepairMarker(r) \/ CommitTerminal(r)
  PROVE  Quiet
  <1>1. UNCHANGED <<runs, wakes>>
    BY DEF FailRejected, RepairMarker, CommitTerminal, history
  <1>2. CASE LeaveRecoverable(r)
    BY <1>1, <1>2, LeaveQuiet DEF LeaveRecoverable, store
  <1>3. CASE ~ LeaveRecoverable(r)
    <2>1. PICK a \in Attempts :
            /\ \E o : task' = [task EXCEPT ![a] = Finished(@, o)]
            /\ \/ UNCHANGED <<pc, cur>> /\ pc[r] \in {"rejects", "repair"}
               \/ Skip(r)
      <3>1. CASE FailRejected(r)
        <4>1. PICK p \in todo[r] : /\ task' = [task EXCEPT ![p[1]] = Finished(@, "policy")]
                                   /\ UNCHANGED <<pc, cur>>
          BY <1>3, <3>1 DEF FailRejected
        <4>2. p[1] \in Attempts /\ pc[r] = "rejects"
          BY <3>1 DEF FailRejected, TypeInv, PrivateInv, PrivateType
        <4> QED BY <4>1, <4>2
      <3>2. CASE RepairMarker(r)
        BY <1>3, <3>2 DEF RepairMarker
      <3>3. CASE CommitTerminal(r)
        BY <1>3, <3>3, CurInHand DEF CommitTerminal, Engaged, Holding
      <3> QED BY <3>1, <3>2, <3>3
    <2>2. task[a] \in TaskRecord
      BY DEF TypeInv, StoreType
    <2>3. /\ \E phase \in {"rejects", "repair", "dispatch"} : pc' = [pc EXCEPT ![r] = phase]
          /\ \A q \in Reconcilers \ {r} : cur'[q] = cur[q]
      BY <2>1 DEF Skip, Goto, TypeInv, PrivateInv, PrivateType
    <2>4. PICK phase \in {"rejects", "repair", "dispatch"} : pc' = [pc EXCEPT ![r] = phase]
      BY <2>3
    <2>5. phase \notin Holding
      BY DEF Holding
    <2> PICK o : task' = [task EXCEPT ![a] = Finished(@, o)]
      BY <2>1
    <2> DEFINE rec == Finished(task[a], o)
    <2>6. /\ rec.dispatch = task[a].dispatch /\ rec.owner = task[a].owner
          /\ rec.status \in {"SUCCEEDED", "FAILED"}
      BY <2>2, FinishedKeepsClaim
    <2>7. task' = [task EXCEPT ![a] = rec]
      OBVIOUS
    <2> HIDE DEF rec
    <2>8. \A q \in Reconcilers \ {r} : cur'[q] = cur[q]
      BY <2>3
    <2>9. KeepsClaim(r, a, rec, phase)
      BY <2>4, <2>5, <2>6, <2>7, <2>8 DEF KeepsClaim
    <2> QED BY <1>1, <2>9, KeptClaimQuiet
  <1> QED BY <1>2, <1>3

LEMMA QuietCreate ==
  ASSUME TypeInv, DispatchInv, NEW r \in Reconcilers, CreateAttempt(r)
  PROVE  Quiet
  <1>1. PICK a \in Attempts :
          task' = [task EXCEPT ![a] = IF @.status = "NONE" THEN NewRecord ELSE @]
    BY DEF CreateAttempt
  <1>2. UNCHANGED <<runs, wakes, pc, cur>> /\ pc[r] = "create"
    BY DEF CreateAttempt, history
  <1>3. CASE task[a].status = "NONE"
    <2>1. task' = [task EXCEPT ![a] = NewRecord] /\ task[a].dispatch # "CLAIMED"
      BY <1>1, <1>3 DEF DispatchInv, UnstartedUnclaimed
    <2>2. NewRecord.dispatch # "CLAIMED"
      BY DEF NewRecord, NoRecord
    <2>3. pc' = [pc EXCEPT ![r] = "create"]
      BY <1>2 DEF TypeInv, PrivateInv, PrivateType
    <2> QED BY <1>2, <2>1, <2>2, <2>3, OneTaskQuiet DEF Holding
  <1>4. CASE task[a].status # "NONE"
    <2>1. task' = task
      BY <1>1, <1>4 DEF TypeInv, StoreType
    <2> QED BY <1>2, <2>1, NoMoveQuiet
  <1> QED BY <1>3, <1>4
LEMMA StartQuiet ==
  ASSUME TypeInv, DispatchInv, NEW r \in Reconcilers,
         Resume(r) \/ Start(r) \/ Recover(r)
  PROVE  Quiet
  <1>1. UNCHANGED <<runs, wakes>>
    BY DEF Resume, Start, Recover, history
  <1>2. cur[r] \in Attempts /\ task[cur[r]] \in TaskRecord
    BY CurInHand DEF Resume, Start, Recover, Engaged
  <1>3. CASE Skip(r) /\ UNCHANGED task
    <2>1. pc' = [pc EXCEPT ![r] = "dispatch"] /\ \A q \in Reconcilers \ {r} : cur'[q] = cur[q]
      BY <1>3 DEF Skip, Goto, TypeInv, PrivateInv, PrivateType
    <2> QED BY <1>1, <1>3, <2>1, SameTaskQuiet DEF Holding
  <1>4. CASE LeaveRecoverable(r)
    BY <1>1, <1>4, LeaveQuiet DEF LeaveRecoverable, store
  <1>5. CASE Goto(r, "recover") /\ UNCHANGED <<task, cur>>
    BY <1>1, <1>5, SameTaskQuiet DEF Goto, Holding
  <1>6. ASSUME NEW phase \in {"recover", "claim"}, Goto(r, phase), UNCHANGED cur,
               NEW b, task' = [task EXCEPT ![cur[r]] = Started(@, b)],
               \/ task[cur[r]].status = "PENDING" \/ task[cur[r]].dispatch = "none"
        PROVE  Quiet
    <2> DEFINE rec == Started(task[cur[r]], b)
    <2>1. task[cur[r]].dispatch # "CLAIMED" /\ task' = [task EXCEPT ![cur[r]] = rec]
      BY <1>2, <1>6 DEF DispatchInv, UnstartedUnclaimed
    <2>2. rec.dispatch = "PENDING"
      BY <1>2 DEF Started, TaskRecord
    <2> HIDE DEF rec
    <2> QED BY <1>1, <1>2, <1>6, <2>1, <2>2, OneTaskQuiet DEF Goto, Holding
  <1>7. ASSUME Goto(r, "claim"), UNCHANGED cur, task[cur[r]].status = "RUNNING",
               task' = [task EXCEPT ![cur[r]].diagnosed = TRUE]
        PROVE  Quiet
    <2> DEFINE rec == [task[cur[r]] EXCEPT !.diagnosed = TRUE]
    <2>1. task' = [task EXCEPT ![cur[r]] = rec]
      BY <1>7
    <2>2. rec.dispatch = task[cur[r]].dispatch /\ rec.owner = task[cur[r]].owner
          /\ rec.status = "RUNNING"
      BY <1>2, <1>7 DEF TaskRecord
    <2>3. pc' = [pc EXCEPT ![r] = "claim"] /\ "claim" \notin Holding
      BY <1>7 DEF Goto, Holding
    <2> HIDE DEF rec
    <2>4. KeepsClaim(r, cur[r], rec, "claim")
      BY <1>7, <2>1, <2>2, <2>3 DEF KeepsClaim
    <2> QED BY <1>1, <1>2, <2>4, KeptClaimQuiet
  <1>8. CASE Resume(r)
    BY <1>3, <1>7, <1>8 DEF Resume, UpdateAccepted
  <1>9. CASE Start(r)
    <2> DEFINE Committed == /\ StartAccepted(task[cur[r]], snap[r][cur[r]])
                            /\ task' = [task EXCEPT ![cur[r]] = Started(@, FALSE)]
    <2>1. CASE ~ Committed
      <3> HIDE DEF Committed
      <3>1. \/ Committed
            \/ Skip(r) /\ UNCHANGED task
            \/ Goto(r, "recover") /\ UNCHANGED <<task, cur>>
        BY <1>9 DEF Start, Committed
      <3> QED BY <1>3, <1>5, <2>1, <3>1
    <2>2. CASE Committed
      <3>1. task[cur[r]].dispatch = "none"
        BY <2>2 DEF StartAccepted
      <3>2. \/ Skip(r) /\ UNCHANGED task
            \/ \E phase \in {"recover", "claim"} : Goto(r, phase) /\ UNCHANGED cur
        BY <1>9 DEF Start
      <3> QED BY <1>3, <1>6, <2>2, <3>1, <3>2
    <2> QED BY <2>1, <2>2
  <1>10. CASE Recover(r)
    <2>1. CASE task[cur[r]].status = "PENDING"
      <3>1. /\ task' = [task EXCEPT ![cur[r]] = Started(@, TRUE)]
            /\ UNCHANGED cur
            /\ Goto(r, "claim") \/ UNCHANGED pc
        BY <1>10, <2>1 DEF Recover
      <3>2. Goto(r, "claim") \/ Goto(r, "recover")
        BY <1>10, <3>1 DEF Recover, Goto, TypeInv, PrivateInv, PrivateType
      <3> QED BY <1>6, <2>1, <3>1, <3>2
    <2>2. CASE task[cur[r]].status # "PENDING"
      BY <1>4, <1>7, <1>10, <2>2 DEF Recover
    <2> QED BY <2>1, <2>2
  <1> QED BY <1>8, <1>9, <1>10

LEMMA EvidenceQuiet ==
  ASSUME TypeInv, DispatchInv, NEW r \in Reconcilers,
         PersistEvidence(r) \/ RetryEvidence(r)
  PROVE  Quiet
  <1>1. UNCHANGED <<runs, wakes>> /\ pc[r] \in Holding
    BY DEF PersistEvidence, RetryEvidence, history, Holding
  <1>2. cur[r] \in Attempts /\ task[cur[r]] \in TaskRecord
    BY <1>1, CurInHand DEF Engaged
  <1>3. CASE LeaveRecoverable(r)
    BY <1>1, <1>3, LeaveQuiet DEF LeaveRecoverable, store
  <1>4. CASE ~ LeaveRecoverable(r)
    <2>1. /\ task[cur[r]].status = "RUNNING" /\ UNCHANGED cur
          /\ \E phase \in {"terminal", "reevidence"} : Goto(r, phase)
          /\ \/ UNCHANGED task
             \/ task' = [task EXCEPT ![cur[r]].evidence = held[r]]
             \/ task' = [task EXCEPT ![cur[r]].evidence = held[r],
                                     ![cur[r]].diagnosed = TRUE]
      BY <1>4 DEF PersistEvidence, RetryEvidence, UpdateAccepted
    <2>2. PICK phase \in {"terminal", "reevidence"} : Goto(r, phase)
      BY <2>1
    <2>3. CASE UNCHANGED task
      BY <1>1, <2>1, <2>2, <2>3, SameTaskQuiet DEF Goto, Holding
    <2>4. ASSUME NEW rec, task' = [task EXCEPT ![cur[r]] = rec],
                 rec.dispatch = task[cur[r]].dispatch, rec.owner = task[cur[r]].owner,
                 rec.status = "RUNNING"
          PROVE  Quiet
      <3>1. KeepsClaim(r, cur[r], rec, phase)
        BY <1>1, <1>2, <2>1, <2>2, <2>4 DEF KeepsClaim, Goto, Holding
      <3> QED BY <1>1, <1>2, <3>1, KeptClaimQuiet
    <2>5. CASE task' = [task EXCEPT ![cur[r]].evidence = held[r]]
      <3> DEFINE rec == [task[cur[r]] EXCEPT !.evidence = held[r]]
      <3>1. task' = [task EXCEPT ![cur[r]] = rec]
        BY <2>5
      <3>2. rec.dispatch = task[cur[r]].dispatch /\ rec.owner = task[cur[r]].owner
            /\ rec.status = "RUNNING"
        BY <1>2, <2>1 DEF TaskRecord
      <3> HIDE DEF rec
      <3> QED BY <2>4, <3>1, <3>2
    <2>6. CASE task' = [task EXCEPT ![cur[r]].evidence = held[r], ![cur[r]].diagnosed = TRUE]
      <3> DEFINE rec == [task[cur[r]] EXCEPT !.evidence = held[r], !.diagnosed = TRUE]
      <3>1. task' = [task EXCEPT ![cur[r]] = rec]
        BY <1>2, <2>6 DEF TypeInv, StoreType
      <3>2. rec.dispatch = task[cur[r]].dispatch /\ rec.owner = task[cur[r]].owner
            /\ rec.status = "RUNNING"
        BY <1>2, <2>1 DEF TaskRecord
      <3> HIDE DEF rec
      <3> QED BY <2>4, <3>1, <3>2
    <2> QED BY <2>1, <2>3, <2>5, <2>6
  <1> QED BY <1>3, <1>4

LEMMA WaitQuiet ==
  ASSUME TypeInv, DispatchInv, NEW r \in Reconcilers, CommitWait(r)
  PROVE  Quiet
  <1>1. UNCHANGED <<runs, wakes>> /\ pc[r] = "wait" /\ pc[r] \in Holding
    BY DEF CommitWait, history, Holding
  <1>2. cur[r] \in Attempts /\ task[cur[r]] \in TaskRecord
    BY <1>1, CurInHand DEF Engaged
  <1>3. CASE LeaveRecoverable(r)
    BY <1>1, <1>3, LeaveQuiet DEF LeaveRecoverable, store
  <1>4. CASE ~ LeaveRecoverable(r)
    <2>1. /\ Goto(r, "request") /\ UNCHANGED cur
          /\ \A b \in Attempts \ {cur[r]} : task'[b] = task[b]
          /\ task'[cur[r]].dispatch = task[cur[r]].dispatch
          /\ task'[cur[r]].owner = task[cur[r]].owner
          /\ task'[cur[r]].status = "AWAITING_APPROVAL"
      <3> DEFINE a == cur[r]
      <3>1. PICK i, e : task' = [task EXCEPT ![a].status = "AWAITING_APPROVAL",
                                            ![a].intent = i, ![a].expected = e]
        BY <1>4 DEF CommitWait
      <3>2. task'[a] = [task[a] EXCEPT !.status = "AWAITING_APPROVAL",
                                      !.intent = i, !.expected = e]
            /\ \A b \in Attempts \ {a} : task'[b] = task[b]
        BY <1>2, <3>1 DEF TypeInv, StoreType
      <3>3. Goto(r, "request") /\ UNCHANGED cur
        BY <1>4 DEF CommitWait
      <3> QED BY <1>2, <3>2, <3>3 DEF TaskRecord
    <2>2. pc'[r] = "request" /\ \A q \in Reconcilers \ {r} : pc'[q] = pc[q]
      BY <2>1 DEF Goto, TypeInv, PrivateInv, PrivateType
    <2>3. \A a \in Attempts :
            /\ task[a].dispatch = "CLAIMED" =>
                 /\ task'[a].dispatch = "CLAIMED" /\ task'[a].owner = task[a].owner
                 /\ task'[a].status \notin {"NONE", "PENDING"}
            /\ task[a].dispatch # "CLAIMED" => task'[a].dispatch # "CLAIMED"
      BY <1>2, <2>1 DEF DispatchInv, UnstartedUnclaimed
    <2>4. ASSUME NEW q \in Reconcilers, pc'[q] \in Holding
          PROVE  /\ pc[q] \in Holding /\ cur'[q] = cur[q]
                 /\ task'[cur[q]].status \in {"RUNNING", "SUCCEEDED", "FAILED"}
                 /\ pc'[q] = "execute" => pc[q] = "execute"
      <3>1. q # r /\ pc'[q] = pc[q]
        BY <2>2, <2>4 DEF Holding
      <3>2. cur[q] \in Attempts /\ cur[q] # cur[r]
        BY <1>1, <2>4, <3>1, CurInHand DEF DispatchInv, HolderOwns, Engaged
      <3> QED BY <2>1, <2>4, <3>1, <3>2 DEF DispatchInv, HolderOwns
    <2> QED BY <1>1, <2>3, <2>4 DEF Quiet
  <1> QED BY <1>3, <1>4

LEMMA QuietOutside ==
  ASSUME TypeInv, DispatchInv,
         \/ \E a \in Attempts, g \in AllGates :
              \/ Decide(a, g, "APPROVED") \/ Decide(a, g, "REJECTED")
              \/ RepeatDecision(a, g) \/ DecideCrash(a, g)
         \/ TimePasses \/ IdlePoll \/ UNCHANGED vars
  PROVE  Quiet
  <1>1. UNCHANGED <<task, runs, wakes, pc, cur>>
    BY DEF Decide, RepeatDecision, DecideCrash, TimePasses, IdlePoll, vars, store, private, history
  <1> QED BY <1>1, NoMoveQuiet

\* A claim makes its owner the only one who may run the attempt.
LEMMA ClaimKeeps ==
  ASSUME TypeInv, DispatchInv, NEW r \in Reconcilers, Claim(r)
  PROVE  DispatchInv'
  <1>1. UNCHANGED <<runs, wakes>> /\ pc[r] = "claim"
    BY DEF Claim, history
  <1>2. cur[r] \in Attempts /\ task[cur[r]] \in TaskRecord
    BY <1>1, CurInHand DEF Engaged
  <1>3. CASE Skip(r) /\ UNCHANGED task
    <2>1. pc' = [pc EXCEPT ![r] = "dispatch"] /\ \A q \in Reconcilers \ {r} : cur'[q] = cur[q]
      BY <1>3 DEF Skip, Goto, TypeInv, PrivateInv, PrivateType
    <2> QED BY <1>1, <1>3, <2>1, SameTaskQuiet, QuietPreserves DEF Holding
  <1>4. CASE ~ (Skip(r) /\ UNCHANGED task)
    <2>1. /\ ClaimAccepted(task[cur[r]])
          /\ Goto(r, "execute") /\ UNCHANGED cur
          /\ \A b \in Attempts \ {cur[r]} : task'[b] = task[b]
          /\ task'[cur[r]].dispatch = "CLAIMED" /\ task'[cur[r]].owner = r
          /\ task'[cur[r]].status = task[cur[r]].status
      BY <1>2, <1>4 DEF Claim, TypeInv, StoreType, TaskRecord
    <2>2. pc'[r] = "execute" /\ \A q \in Reconcilers \ {r} : pc'[q] = pc[q]
      BY <2>1 DEF Goto, TypeInv, PrivateInv, PrivateType
    <2>3. task[cur[r]].status = "RUNNING" /\ task[cur[r]].dispatch = "PENDING"
      BY <2>1 DEF ClaimAccepted
    <2>4. \A q \in Reconcilers \ {r} :
            pc'[q] \in Holding => cur[q] \in Attempts /\ cur[q] # cur[r] /\ pc[q] \in Holding
      BY <2>2, <2>3, CurInHand DEF DispatchInv, HolderOwns, Engaged
    <2>5. UnstartedUnclaimed'
      BY <1>2, <2>1, <2>3 DEF DispatchInv, UnstartedUnclaimed
    <2>6. HolderOwns'
      BY <2>1, <2>2, <2>3, <2>4 DEF DispatchInv, HolderOwns
    <2>7. runs[cur[r]] <= wakes[cur[r]]
      BY <1>2, <2>3 DEF DispatchInv, RunsCounted, TypeInv, RestType
    <2>8. RunsCounted'
      BY <1>1, <1>2, <2>1, <2>7 DEF DispatchInv, RunsCounted, TypeInv, RestType
    <2>9. ExecuteFresh'
      BY <1>1, <2>1, <2>2, <2>7 DEF DispatchInv, ExecuteFresh
    <2> QED BY <2>5, <2>6, <2>8, <2>9 DEF DispatchInv
  <1> QED BY <1>3, <1>4

\* A run uses its claim up.
LEMMA ExecuteKeeps ==
  ASSUME TypeInv, DispatchInv, NEW r \in Reconcilers, Execute(r)
  PROVE  DispatchInv'
  <1>1. /\ UNCHANGED <<task, wakes, cur>> /\ pc[r] = "execute" /\ pc[r] \in Holding
        /\ runs' = [runs EXCEPT ![cur[r]] = @ + 1]
        /\ \E phase \in {"evidence", "wait"} : Goto(r, phase)
    BY DEF Execute, store, Holding
  <1>2. cur[r] \in Attempts
    BY <1>1, CurInHand DEF Engaged
  <1>3. pc'[r] \in {"evidence", "wait"} /\ \A q \in Reconcilers \ {r} : pc'[q] = pc[q]
    BY <1>1 DEF Goto, TypeInv, PrivateInv, PrivateType
  <1>4. runs'[cur[r]] = runs[cur[r]] + 1
        /\ \A b \in Attempts \ {cur[r]} : runs'[b] = runs[b]
    BY <1>1, <1>2 DEF TypeInv, RestType
  <1>5. runs[cur[r]] <= wakes[cur[r]] /\ task[cur[r]].dispatch = "CLAIMED"
    BY <1>1 DEF DispatchInv, ExecuteFresh, HolderOwns
  <1>6. \A q \in Reconcilers \ {r} :
          pc'[q] \in Holding => cur[q] \in Attempts /\ cur[q] # cur[r]
    BY <1>1, <1>3, CurInHand DEF DispatchInv, HolderOwns, Engaged
  <1>7. UnstartedUnclaimed'
    BY <1>1 DEF DispatchInv, UnstartedUnclaimed
  <1>8. HolderOwns'
    BY <1>1, <1>3 DEF DispatchInv, HolderOwns
  <1>9. RunsCounted'
    BY <1>1, <1>2, <1>4, <1>5 DEF DispatchInv, RunsCounted, TypeInv, RestType
  <1>10. ExecuteFresh'
    BY <1>1, <1>3, <1>4, <1>6 DEF DispatchInv, ExecuteFresh, Holding
  <1> QED BY <1>7, <1>8, <1>9, <1>10 DEF DispatchInv

\* A wake-up ends the dispatch that waits, which nobody holds any more.
LEMMA WakeKeeps ==
  ASSUME TypeInv, DispatchInv, NEW a \in Attempts, NEW g, WakeTask(a, g),
         UNCHANGED <<runs, pc, cur>>
  PROVE  DispatchInv'
  <1>1. CASE ~ WakeApplies(task[a], g)
    BY <1>1, NoMoveQuiet, QuietPreserves DEF WakeTask
  <1>2. CASE WakeApplies(task[a], g)
    <2>1. task[a].status \in {"AWAITING_APPROVAL", "PENDING"} /\ task[a] \in TaskRecord
      BY <1>2 DEF WakeApplies, TypeInv, StoreType
    <2>2. task'[a] = Woken(task[a]) /\ \A b \in Attempts \ {a} : task'[b] = task[b]
      BY <1>2 DEF WakeTask, TypeInv, StoreType
    <2>3. task'[a].status = "PENDING" /\ task'[a].dispatch = "none"
      BY <2>1, <2>2 DEF Woken, TaskRecord
    <2>4. /\ wakes'[a] = IF task[a].status = "AWAITING_APPROVAL" THEN wakes[a] + 1 ELSE wakes[a]
          /\ \A b \in Attempts \ {a} : wakes'[b] = wakes[b]
      BY <1>2 DEF WakeTask, TypeInv, RestType
    <2>5. runs[a] <= wakes'[a]
      BY <2>1, <2>4 DEF DispatchInv, UnstartedUnclaimed, RunsCounted, TypeInv, RestType
    <2>6. \A q \in Reconcilers : pc[q] \in Holding => cur[q] \in Attempts /\ cur[q] # a
      BY <2>1, CurInHand DEF DispatchInv, HolderOwns, Engaged
    <2>7. UnstartedUnclaimed'
      BY <2>2, <2>3 DEF DispatchInv, UnstartedUnclaimed
    <2>8. HolderOwns'
      BY <2>2, <2>6 DEF DispatchInv, HolderOwns
    <2>9. RunsCounted'
      BY <2>2, <2>3, <2>4, <2>5 DEF DispatchInv, RunsCounted, TypeInv, RestType
    <2>10. ExecuteFresh'
      BY <2>4, <2>6 DEF DispatchInv, ExecuteFresh, Holding
    <2> QED BY <2>7, <2>8, <2>9, <2>10 DEF DispatchInv
  <1> QED BY <1>1, <1>2

LEMMA DispatchInitial == Init => DispatchInv
  BY DEF Init, DispatchInv, UnstartedUnclaimed, HolderOwns, RunsCounted, ExecuteFresh,
     Holding, NoSnap, NoRecord

LEMMA DispatchStep == TypeInv /\ DispatchInv /\ [Next]_vars => DispatchInv'
  <1> SUFFICES ASSUME TypeInv, DispatchInv, [Next]_vars PROVE DispatchInv'
    OBVIOUS
  <1>1. ASSUME NEW r \in Reconcilers, Step(r) \/ Crash(r) PROVE DispatchInv'
    <2>1. CASE Claim(r)
      BY <2>1, ClaimKeeps
    <2>2. CASE Execute(r)
      BY <2>2, ExecuteKeeps
    <2>3. CASE RecoverWakeup(r)
      <3>1. PICK p \in todo[r] : WakeTask(p[1], p[2])
        BY <2>3 DEF RecoverWakeup
      <3>2. p[1] \in Attempts /\ UNCHANGED <<runs, pc, cur>>
        BY <2>3 DEF RecoverWakeup, TypeInv, PrivateInv, PrivateType
      <3> QED BY <3>1, <3>2, WakeKeeps
    <2>4. CASE ~ (Claim(r) \/ Execute(r) \/ RecoverWakeup(r))
      <3>1. Quiet
        BY <1>1, <2>4, QuietUnchanged, QuietRequest, QuietFinish, QuietCreate, StartQuiet,
           EvidenceQuiet, WaitQuiet
        DEF Step, Recovery, Listing, Dispatch, Handling
      <3> QED BY <3>1, QuietPreserves
    <2> QED BY <2>1, <2>2, <2>3, <2>4
  <1>2. CASE \E a \in Attempts, g \in AllGates : DecideWake(a, g)
    BY <1>2, WakeKeeps DEF DecideWake, private
  <1>3. CASE Next /\ ~ \E r \in Reconcilers : Step(r) \/ Crash(r)
    BY <1>2, <1>3, QuietOutside, QuietPreserves DEF Next, Operator
  <1>4. CASE UNCHANGED vars
    BY <1>4, QuietOutside, QuietPreserves
  <1> QED BY <1>1, <1>3, <1>4

\* claim_task_dispatch and the write-once dispatchState make whoever runs an
\* attempt its owner on record, for any number of reconcilers and attempts.
THEOREM ExecutorOwnership == Spec => []ExecutorOwnsAttempt
  <1>1. TypeInv /\ DispatchInv => ExecutorOwnsAttempt
    BY CurInHand DEF DispatchInv, HolderOwns, ExecutorOwnsAttempt, Engaged
  <1> QED BY <1>1, TypeInitial, TypeStep, DispatchInitial, DispatchStep, PTL DEF Spec

\* A handler is invoked at most once for the attempt and once for each
\* wake-up, however many reconcilers, crashes and faults there are.
THEOREM AtMostOnce == Spec => []AtMostOncePerWake
  <1>1. TypeInv /\ DispatchInv => AtMostOncePerWake
    BY DEF DispatchInv, RunsCounted, AtMostOncePerWake, TypeInv, RestType
  <1> QED BY <1>1, TypeInitial, TypeStep, DispatchInitial, DispatchStep, PTL DEF Spec

-----------------------------------------------------------------------------
(* What a record says of its attempt, and a snapshot of the record.        *)

\* An attempt that has not been dispatched has run as often as it was woken, one
\* that waits or has reported once more.
RecordShape(a) ==
  /\ task[a].status \in {"NONE", "PENDING"} =>
       task[a].dispatch = "none" /\ task[a].evidence = "none" /\ runs[a] = wakes[a]
  /\ task[a].status = "RUNNING" => task[a].dispatch # "none"
  /\ task[a].dispatch = "PENDING" =>
       task[a].status = "RUNNING" /\ task[a].evidence = "none" /\ runs[a] = wakes[a]
  /\ task[a].status = "AWAITING_APPROVAL" =>
       task[a].dispatch = "CLAIMED" /\ task[a].evidence = "none" /\ runs[a] = wakes[a] + 1
  /\ task[a].evidence # "none" => runs[a] = wakes[a] + 1

\* ReportKept, for one attempt.
ReportFits(a) ==
  /\ task[a].status \in Terminal /\ task[a].evidence # "none" =>
       /\ task[a].status = StatusOf(task[a].evidence)
       /\ task[a].failure = FailureOf(task[a].evidence)
  /\ <<a, "Succeeded">> \in events => task[a].status = "SUCCEEDED"
  /\ <<a, "Failed">> \in events => task[a].status = "FAILED"

Approved(a, g) == g # 0 => approval[a][g] = "APPROVED"

\* Only the approval that a waiting attempt is bound to is open; one that was
\* rejected is the last; every earlier one was approved.
ApprovalsFit(a) ==
  /\ \A g \in AllGates :
       /\ approval[a][g] = "PENDING" =>
            task[a].status = "AWAITING_APPROVAL" /\ task[a].approvalId = g
       /\ approval[a][g] = "REJECTED" =>
            \/ task[a].status = "AWAITING_APPROVAL" /\ task[a].approvalId = g
            \/ task[a].status = "FAILED"
  /\ task[a].status \in {"NONE", "PENDING", "RUNNING"} => Approved(a, task[a].approvalId)
  /\ Approved(a, task[a].expected)

Unblocked(a) == task[a].status # "NONE" => DependenciesSucceeded(task, a[1])

AttemptOK(a) == RecordShape(a) /\ ReportFits(a) /\ ApprovalsFit(a) /\ Unblocked(a)

\* The attempt in a reconciler's hand.
HandOK(r) ==
  /\ pc[r] = "execute" => runs[cur[r]] = wakes[cur[r]]
  /\ pc[r] \in Holding \ {"execute"} => runs[cur[r]] = wakes[cur[r]] + 1
  /\ pc[r] \in {"execute", "evidence", "wait"} =>
       task[cur[r]].status = "RUNNING" /\ task[cur[r]].evidence = "none"
  /\ pc[r] = "reevidence" => task[cur[r]].evidence \in {"none", held[r]}
  /\ pc[r] = "terminal" => task[cur[r]].evidence = held[r]
  /\ pc[r] \in Holding \cup {"request"} => Approved(cur[r], snap[r][cur[r]].approvalId)
  /\ pc[r] \in Engaged => task[cur[r]].status # "NONE"

\* An attempt that may be created has its dependencies, and the failure of the
\* one before it.
Follows(a) ==
  \/ task[a].status # "NONE"
  \/ a[2] = 1
  \/ /\ a[2] > 1
     /\ task[<<a[1], a[2] - 1>>].status = "FAILED"
     /\ task[<<a[1], a[2] - 1>>].failure \in {"recoverable", "deferred"}

\* What a reconciler still has to do in this part.
TodoOK(r) ==
  /\ pc[r] \in {"wait", "request"} => \E g \in AllGates : todo[r] = {<<cur[r], g>>}
  /\ pc[r] = "requests" => \A p \in todo[r] : p[2] \in AllGates
  /\ pc[r] = "wakeups" => \A p \in todo[r] : p[2] \in AllGates /\ approval[p[1]][p[2]] = "APPROVED"
  /\ pc[r] = "rejects" => \A p \in todo[r] : p[2] \in AllGates /\ approval[p[1]][p[2]] = "REJECTED"
  /\ pc[r] = "create" =>
       \A p \in todo[r] : DependenciesSucceeded(task, p[1][1]) /\ Follows(p[1])
  /\ \A a \in sched[r] : task[a].status # "NONE"

\* A snapshot may be old, but what is final in it still holds.
SnapOK(r) ==
  \A a \in Attempts :
    /\ snap[r][a].status # "NONE" => task[a].status # "NONE"
    /\ snap[r][a].evidence # "none" => task[a].evidence = snap[r][a].evidence
    /\ snap[r][a].status \in Terminal =>
         task[a].status = snap[r][a].status /\ task[a].failure = snap[r][a].failure
    /\ Approved(a, snap[r][a].expected)

PlaceOK(r) == HandOK(r) /\ TodoOK(r) /\ SnapOK(r)

WakesOK == \A p \in cliWake : approval[p[1]][p[2]] = "APPROVED"

RecordsInv ==
  /\ \A a \in Attempts : AttemptOK(a)
  /\ \A r \in Reconcilers : PlaceOK(r)
  /\ WakesOK

\* With the types and the dispatch protocol.
Sound == TypeInv /\ DispatchInv /\ RecordsInv

-----------------------------------------------------------------------------
(* What no step takes back.                                                *)

AdvanceAt(a) ==
  /\ task[a].status # "NONE" => task'[a].status # "NONE"
  /\ task[a].status \in Terminal =>
       task'[a].status = task[a].status /\ task'[a].failure = task[a].failure
  /\ task[a].evidence # "none" => task'[a].evidence = task[a].evidence
  /\ \A g \in AllGates : approval[a][g] \in {"APPROVED", "REJECTED"} =>
                           approval'[a][g] = approval[a][g]

Advance == \A a \in Attempts : AdvanceAt(a)

\* What a reconciler keeps to itself.
Still(q) ==
  /\ pc'[q] = pc[q] /\ todo'[q] = todo[q] /\ snap'[q] = snap[q] /\ sched'[q] = sched[q]
  /\ cur'[q] = cur[q] /\ held'[q] = held[q]

\* ... and the attempt it has dispatched stays as it needs it.
Rival(q) ==
  /\ Still(q)
  /\ pc[q] \in Holding =>
       /\ runs'[cur[q]] = runs[cur[q]] /\ wakes'[cur[q]] = wakes[cur[q]]
       /\ task'[cur[q]].evidence = task[cur[q]].evidence
       /\ task[cur[q]].status = "RUNNING" /\ task[cur[q]].evidence = "none" =>
            task'[cur[q]].status = "RUNNING"

SameAttempt(a) ==
  /\ task'[a] = task[a] /\ runs'[a] = runs[a] /\ wakes'[a] = wakes[a]
  /\ approval'[a] = approval[a]
  /\ \A e \in {"Succeeded", "Failed"} : <<a, e>> \in events' => <<a, e>> \in events

LEMMA GatesArePositive ==
  /\ 0 \notin AllGates
  /\ \A g \in Binding : g # 0 => g \in AllGates
  /\ \A t \in Tasks : 1 .. Gates[t] \subseteq AllGates
BY TasksAssumption DEF AllGates, Binding

\* A dependency that has succeeded stays so.
LEMMA DependenciesStay ==
  ASSUME TypeInv, Advance, NEW t \in Tasks, DependenciesSucceeded(task, t)
  PROVE  DependenciesSucceeded(task, t)'
<1>1. \A d \in Deps[t], n \in 1 .. MaxAttempts : <<d, n>> \in Attempts
  BY TasksAssumption DEF Attempts
<1> QED
  BY <1>1 DEF DependenciesSucceeded, Advance, AdvanceAt, Terminal

LEMMA ApprovedStays ==
  ASSUME Advance, NEW a \in Attempts, NEW g \in Binding, Approved(a, g)
  PROVE  Approved(a, g)'
BY GatesArePositive DEF Advance, AdvanceAt, Approved

LEMMA FollowsStays ==
  ASSUME TypeInv, Advance, NEW a \in Attempts, Follows(a)
  PROVE  Follows(a)'
<1>1. a[2] > 1 => <<a[1], a[2] - 1>> \in Attempts
  BY TasksAssumption DEF Attempts
<1> QED
  BY <1>1 DEF Follows, Advance, AdvanceAt, Terminal

LEMMA SnapStays ==
  ASSUME Sound, Advance, NEW q \in Reconcilers, snap'[q] = snap[q]
  PROVE  SnapOK(q)'
<1> SUFFICES ASSUME NEW a \in Attempts
             PROVE  /\ snap[q][a].status # "NONE" => task'[a].status # "NONE"
                    /\ snap[q][a].evidence # "none" => task'[a].evidence = snap[q][a].evidence
                    /\ snap[q][a].status \in Terminal =>
                         /\ task'[a].status = snap[q][a].status
                         /\ task'[a].failure = snap[q][a].failure
                    /\ Approved(a, snap[q][a].expected)'
  BY DEF SnapOK
<1>1. SnapOK(q) /\ snap[q][a] \in TaskRecord
  BY DEF Sound, RecordsInv, PlaceOK, TypeInv, PrivateInv, PrivateType
<1>2. Approved(a, snap[q][a].expected)'
  BY <1>1, ApprovedStays DEF SnapOK, TaskRecord, Approved
<1> QED
  BY <1>1, <1>2 DEF SnapOK, Advance, AdvanceAt

LEMMA RivalStays ==
  ASSUME Sound, Advance, NEW q \in Reconcilers, Rival(q)
  PROVE  PlaceOK(q)'
<1>1. PlaceOK(q) /\ Still(q)
  BY DEF Sound, RecordsInv, Rival
<1>2. /\ pc[q] \in Engaged => cur[q] \in Attempts
      /\ pc[q] \in Holding \cup {"request"} => pc[q] \in Engaged
      /\ todo[q] \subseteq Attempts \X Binding
      /\ sched[q] \subseteq Attempts /\ \A a \in Attempts : snap[q][a] \in TaskRecord
  BY DEF Sound, TypeInv, PrivateInv, PrivateType, CurOK, Engaged
<1>3. HandOK(q)'
  <2>1. ASSUME pc[q] \in Holding \cup {"request"}, snap[q][cur[q]].approvalId # 0
        PROVE  approval'[cur[q]][snap[q][cur[q]].approvalId] = "APPROVED"
    <3>1. snap[q][cur[q]].approvalId \in AllGates
      BY <1>2, <2>1, GatesArePositive DEF TaskRecord
    <3> QED
      BY <1>1, <1>2, <2>1, <3>1 DEF PlaceOK, HandOK, Approved, Advance, AdvanceAt
  <2>2. pc'[q] \in Holding \cup {"request"} => Approved(cur[q], snap[q][cur[q]].approvalId)'
    BY <1>1, <2>1 DEF Still, Approved
  <2>3. pc[q] \in Engaged => task'[cur[q]].status # "NONE"
    BY <1>1, <1>2 DEF PlaceOK, HandOK, Advance, AdvanceAt
  <2> QED
    BY <1>1, <2>2, <2>3 DEF PlaceOK, HandOK, Rival, Still, Approved, Engaged, Holding
<1>4. TodoOK(q)'
  <2>1. pc[q] = "wakeups" => \A p \in todo[q] : p[2] \in AllGates /\ approval'[p[1]][p[2]] = "APPROVED"
    BY <1>1, <1>2 DEF PlaceOK, TodoOK, Advance, AdvanceAt
  <2>2. pc[q] = "rejects" => \A p \in todo[q] : p[2] \in AllGates /\ approval'[p[1]][p[2]] = "REJECTED"
    BY <1>1, <1>2 DEF PlaceOK, TodoOK, Advance, AdvanceAt
  <2>3. ASSUME pc[q] = "create", NEW p \in todo[q]
        PROVE  DependenciesSucceeded(task, p[1][1])' /\ Follows(p[1])'
    <3>1. p[1] \in Attempts /\ p[1][1] \in Tasks
      BY <1>2 DEF Attempts
    <3>2. DependenciesSucceeded(task, p[1][1]) /\ Follows(p[1])
      BY <1>1, <2>3 DEF PlaceOK, TodoOK
    <3> QED
      BY <3>1, <3>2, DependenciesStay, FollowsStays DEF Sound
  <2>4. \A a \in sched[q] : task'[a].status # "NONE"
    BY <1>1, <1>2 DEF PlaceOK, TodoOK, Advance, AdvanceAt
  <2> QED
    BY <1>1, <2>1, <2>2, <2>3, <2>4 DEF PlaceOK, TodoOK, Still
<1> QED
  BY <1>1, <1>3, <1>4, SnapStays DEF PlaceOK, Still

LEMMA SameAttemptStays ==
  ASSUME Sound, Advance, NEW a \in Attempts, SameAttempt(a)
  PROVE  AttemptOK(a)'
<1>1. AttemptOK(a)
  BY DEF Sound, RecordsInv
<1>2. RecordShape(a)'
  BY <1>1 DEF AttemptOK, RecordShape, SameAttempt
<1>3. ReportFits(a)'
  BY <1>1 DEF AttemptOK, ReportFits, SameAttempt
<1>4. ApprovalsFit(a)'
  BY <1>1 DEF AttemptOK, ApprovalsFit, Approved, SameAttempt
<1>5. Unblocked(a)'
  BY <1>1, DependenciesStay DEF AttemptOK, Unblocked, SameAttempt, Sound, Attempts
<1> QED
  BY <1>2, <1>3, <1>4, <1>5 DEF AttemptOK

LEMMA RecordsKept ==
  ASSUME Sound, Advance,
         \A a \in Attempts : SameAttempt(a) \/ AttemptOK(a)',
         \A q \in Reconcilers : Rival(q) \/ PlaceOK(q)',
         WakesOK'
  PROVE  RecordsInv'
BY RivalStays, SameAttemptStays DEF RecordsInv

-----------------------------------------------------------------------------
(* Where a step leaves the reconciler that takes it.                       *)

LEMMA ForgetPlace ==
  ASSUME Sound, NEW r \in Reconcilers, Forget(r)
  PROVE  PlaceOK(r)' /\ \A q \in Reconcilers \ {r} : Still(q)
<1>1. /\ pc'[r] = "idle" /\ todo'[r] = {} /\ snap'[r] = NoSnap /\ sched'[r] = {}
      /\ cur'[r] = None
  BY DEF Forget, Goto, Sound, TypeInv, PrivateInv, PrivateType
<1>2. \A q \in Reconcilers \ {r} : Still(q)
  BY DEF Forget, Goto, Sound, TypeInv, PrivateInv, PrivateType, Still
<1>3. HandOK(r)' /\ TodoOK(r)'
  BY <1>1 DEF HandOK, TodoOK, Engaged, Holding
<1>4. SnapOK(r)'
  BY <1>1 DEF SnapOK, NoSnap, NoRecord, Approved, Terminal
<1> QED
  BY <1>2, <1>3, <1>4 DEF PlaceOK

\* It goes on to a part in which it has no attempt in hand.
LEMMA FreePlace ==
  ASSUME Sound, Advance, NEW r \in Reconcilers,
         NEW phase \in {"idle", "requests", "repair", "dispatch", "recover", "claim",
                       "outcome", "commit", "settle"},
         pc'[r] = phase, snap'[r] \in {snap[r], NoSnap},
         phase \in {"recover", "claim"} => pc[r] \in Engaged /\ cur'[r] = cur[r],
         sched'[r] \subseteq sched[r],
         phase = "requests" => \A p \in todo'[r] : p[2] \in AllGates
  PROVE  PlaceOK(r)'
<1>1. PlaceOK(r) /\ (pc[r] \in Engaged => cur[r] \in Attempts) /\ sched[r] \subseteq Attempts
  BY DEF Sound, RecordsInv, TypeInv, PrivateInv, PrivateType, CurOK
<1>2. SnapOK(r)'
  <2>1. CASE snap'[r] = snap[r]
    BY <2>1, SnapStays
  <2>2. CASE snap'[r] = NoSnap
    BY <2>2 DEF SnapOK, NoSnap, NoRecord, Approved, Terminal
  <2> QED
    BY <2>1, <2>2
<1>3. HandOK(r)'
  BY <1>1 DEF PlaceOK, HandOK, Engaged, Holding, Advance, AdvanceAt
<1>4. TodoOK(r)'
  <2>1. \A a \in sched'[r] : task'[a].status # "NONE"
    BY <1>1 DEF PlaceOK, TodoOK, Advance, AdvanceAt
  <2> QED
    BY <2>1 DEF TodoOK
<1> QED
  BY <1>2, <1>3, <1>4 DEF PlaceOK

LEMMA SkipPlace ==
  ASSUME Sound, NEW r \in Reconcilers, Skip(r)
  PROVE  (Advance => PlaceOK(r)') /\ \A q \in Reconcilers \ {r} : Still(q)
<1>1. /\ pc'[r] = "dispatch" /\ snap'[r] = snap[r] /\ cur'[r] = None /\ sched'[r] = sched[r]
  BY DEF Skip, Goto, Sound, TypeInv, PrivateInv, PrivateType
<1>2. \A q \in Reconcilers \ {r} : Still(q)
  BY DEF Skip, Goto, Sound, TypeInv, PrivateInv, PrivateType, Still
<1> QED
  BY <1>1, <1>2, FreePlace

\* It stays in its part and has less to do.
LEMMA StayPlace ==
  ASSUME Sound, Advance, NEW r \in Reconcilers, pc[r] \notin Holding \cup {"wait", "request"},
         pc'[r] = pc[r], SnapOK(r)', sched'[r] = sched[r], cur'[r] = cur[r],
         todo'[r] \subseteq todo[r]
  PROVE  PlaceOK(r)'
<1>1. /\ PlaceOK(r) /\ (pc[r] \in Engaged => cur[r] \in Attempts) /\ sched[r] \subseteq Attempts
      /\ todo[r] \subseteq Attempts \X Binding
  BY DEF Sound, RecordsInv, TypeInv, PrivateInv, PrivateType, CurOK
<1>2. HandOK(r)'
  BY <1>1 DEF PlaceOK, HandOK, Holding, Advance, AdvanceAt
<1>3. TodoOK(r)'
  <2>1. pc[r] = "wakeups" => \A p \in todo[r] : p[2] \in AllGates /\ approval'[p[1]][p[2]] = "APPROVED"
    BY <1>1 DEF PlaceOK, TodoOK, Advance, AdvanceAt
  <2>2. pc[r] = "rejects" => \A p \in todo[r] : p[2] \in AllGates /\ approval'[p[1]][p[2]] = "REJECTED"
    BY <1>1 DEF PlaceOK, TodoOK, Advance, AdvanceAt
  <2>3. ASSUME pc[r] = "create", NEW p \in todo[r]
        PROVE  DependenciesSucceeded(task, p[1][1])' /\ Follows(p[1])'
    <3>1. p[1] \in Attempts /\ p[1][1] \in Tasks
      BY <1>1 DEF Attempts
    <3>2. DependenciesSucceeded(task, p[1][1]) /\ Follows(p[1])
      BY <1>1, <2>3 DEF PlaceOK, TodoOK
    <3> QED
      BY <3>1, <3>2, DependenciesStay, FollowsStays DEF Sound
  <2>4. \A a \in sched'[r] : task'[a].status # "NONE"
    BY <1>1 DEF PlaceOK, TodoOK, Advance, AdvanceAt
  <2> QED
    BY <1>1, <2>1, <2>2, <2>3, <2>4 DEF PlaceOK, TodoOK
<1> QED
  BY <1>2, <1>3 DEF PlaceOK

\* A step that writes one record a leaves the rivals alone that have none of it:
\* they have not dispatched a, or what they need of it stays.
LEMMA RivalsKept ==
  ASSUME Sound, NEW r, \A q \in Reconcilers \ {r} : Still(q),
         NEW a \in Attempts,
         \A b \in Attempts \ {a} :
           task'[b] = task[b] /\ runs'[b] = runs[b] /\ wakes'[b] = wakes[b],
         \/ \A q \in Reconcilers \ {r} : pc[q] \in Holding => cur[q] # a
         \/ /\ runs'[a] = runs[a] /\ wakes'[a] = wakes[a]
            /\ task'[a].evidence = task[a].evidence
            /\ task[a].status = "RUNNING" /\ task[a].evidence = "none" =>
                 task'[a].status = "RUNNING"
  PROVE  \A q \in Reconcilers \ {r} : Rival(q)
<1>1. \A q \in Reconcilers : pc[q] \in Holding => cur[q] \in Attempts
  BY DEF Sound, TypeInv, PrivateInv, CurOK, Engaged
<1> QED
  BY <1>1 DEF Rival

\* A step that writes the record, the approvals or the events of one attempt;
\* r is none of the reconcilers when the operator takes it.
LEMMA OneRecordStep ==
  ASSUME Sound, NEW r, NEW a \in Attempts,
         \A b \in Attempts \ {a} : SameAttempt(b),
         AdvanceAt(a),
         Advance => AttemptOK(a)',
         \A q \in Reconcilers \ {r} : Still(q),
         \/ \A q \in Reconcilers \ {r} : pc[q] \in Holding => cur[q] # a
         \/ /\ runs'[a] = runs[a] /\ wakes'[a] = wakes[a]
            /\ task'[a].evidence = task[a].evidence
            /\ task[a].status = "RUNNING" /\ task[a].evidence = "none" =>
                 task'[a].status = "RUNNING",
         Advance /\ r \in Reconcilers => PlaceOK(r)',
         cliWake' \subseteq cliWake \/ WakesOK'
  PROVE  RecordsInv'
<1>1. Advance
  BY DEF Advance, AdvanceAt, SameAttempt
<1>2. \A q \in Reconcilers \ {r} : Rival(q)
  BY RivalsKept DEF SameAttempt
<1>3. WakesOK'
  <2>1. ASSUME cliWake' \subseteq cliWake PROVE WakesOK'
    BY <1>1, <2>1 DEF Sound, RecordsInv, WakesOK, Advance, AdvanceAt, TypeInv, RestType
  <2> QED
    BY <2>1
<1> QED
  BY <1>1, <1>2, <1>3, RecordsKept

\* The holder of a claim is its only one.
LEMMA OneHolder ==
  ASSUME Sound, NEW r \in Reconcilers, pc[r] \in Holding
  PROVE  /\ cur[r] \in Attempts
         /\ task[cur[r]].dispatch = "CLAIMED"
         /\ \A q \in Reconcilers \ {r} : pc[q] \in Holding => cur[q] # cur[r]
BY DEF Sound, DispatchInv, HolderOwns, TypeInv, PrivateInv, CurOK, Engaged

\* Nobody holds an attempt that is queued, waits, or is not yet claimed.
LEMMA NoHolder ==
  ASSUME Sound, NEW a \in Attempts,
         task[a].status \in {"NONE", "PENDING", "AWAITING_APPROVAL"} \/ task[a].dispatch = "PENDING"
  PROVE  \A q \in Reconcilers : pc[q] \in Holding => cur[q] # a
BY DEF Sound, DispatchInv, HolderOwns

\* A step that writes no record.
LEMMA NoRecordStep ==
  ASSUME Sound, NEW r \in Reconcilers, UNCHANGED <<task, approval, runs, wakes, cliWake>>,
         \A q \in Reconcilers \ {r} : Still(q),
         \A a \in Attempts, e \in {"Succeeded", "Failed"} : <<a, e>> \in events' => <<a, e>> \in events,
         Advance => PlaceOK(r)'
  PROVE  RecordsInv'
<1>1. Advance
  BY DEF Advance, AdvanceAt
<1>2. ASSUME NEW a \in Attempts PROVE SameAttempt(a)
  <2>1. \A e \in {"Succeeded", "Failed"} : <<a, e>> \in events' => <<a, e>> \in events
    OBVIOUS
  <2> QED
    BY <2>1 DEF SameAttempt
<1>3. \A q \in Reconcilers \ {r} : Rival(q)
  BY DEF Rival
<1>4. WakesOK'
  BY DEF Sound, RecordsInv, WakesOK
<1> QED
  BY <1>1, <1>2, <1>3, <1>4, RecordsKept

LEMMA LeaveRecords ==
  ASSUME Sound, NEW r \in Reconcilers, UNCHANGED <<runs, wakes, cliWake>>,
         LeaveRecoverable(r) \/ LeaveValueError(r)
  PROVE  RecordsInv'
<1>1. UNCHANGED <<task, approval, events>> /\ Forget(r)
  BY DEF LeaveRecoverable, LeaveValueError, store
<1> QED
  BY <1>1, ForgetPlace, NoRecordStep

-----------------------------------------------------------------------------
(* The steps that write no record.                                         *)

LEMMA EnterPlace ==
  ASSUME Sound, NEW r \in Reconcilers, UNCHANGED <<task, approval, sched, cur, held>>,
         NEW phase \in {"requests", "wakeups", "rejects", "repair", "create"}, Enter(r, phase)
  PROVE  PlaceOK(r)' /\ \A q \in Reconcilers \ {r} : Still(q)
<1>1. PlaceOK(r) /\ \A a \in Attempts : AttemptOK(a) /\ task[a] \in TaskRecord
  BY DEF Sound, RecordsInv, TypeInv, StoreType
<1>2. pc'[r] = phase /\ todo'[r] = Listed(phase) /\ snap'[r] = task
  BY DEF Enter, Goto, Sound, TypeInv, PrivateInv, PrivateType
<1>3. \A q \in Reconcilers \ {r} : Still(q)
  BY DEF Enter, Goto, Sound, TypeInv, PrivateInv, PrivateType, Still
<1>4. HandOK(r)'
  BY <1>1, <1>2 DEF PlaceOK, HandOK, Engaged, Holding
<1>5. SnapOK(r)'
  BY <1>1, <1>2 DEF SnapOK, AttemptOK, ApprovalsFit, Approved
<1>6. TodoOK(r)'
  <2>1. phase = "requests" => \A p \in todo'[r] : p[2] \in AllGates
    <3>1. \A a \in Attempts : task[a].intent # 0 => task[a].intent \in AllGates
      BY <1>1, GatesArePositive DEF TaskRecord
    <3> QED
      BY <1>2, <3>1 DEF Listed
  <2>2. phase = "wakeups" => \A p \in todo'[r] : p[2] \in AllGates /\ approval[p[1]][p[2]] = "APPROVED"
    BY <1>2 DEF Listed
  <2>3. phase = "rejects" => \A p \in todo'[r] : p[2] \in AllGates /\ approval[p[1]][p[2]] = "REJECTED"
    BY <1>2 DEF Listed
  <2>4. ASSUME phase = "create", NEW p \in todo'[r]
        PROVE  DependenciesSucceeded(task, p[1][1]) /\ Follows(p[1])
    <3>1. PICK a \in ReadyWave(task, due) : p = <<a, 0>>
      BY <1>2, <2>4 DEF Listed
    <3>2. DependenciesSucceeded(task, a[1]) /\ Follows(a)
      BY <3>1 DEF ReadyWave, IsLatest, RetryIsReady, Follows
    <3> QED
      BY <3>1, <3>2
  <2> QED
    BY <1>1, <1>2, <2>1, <2>2, <2>3, <2>4 DEF PlaceOK, TodoOK, Follows, DependenciesSucceeded
<1> QED
  BY <1>3, <1>4, <1>5, <1>6 DEF PlaceOK

LEMMA RecordsBeginPass ==
  ASSUME Sound, NEW r \in Reconcilers, BeginPass(r) PROVE RecordsInv'
<1>1. UNCHANGED <<runs, wakes, cliWake>>
  BY DEF BeginPass, history, outside
<1>2. CASE wf = "RUNNING"
  <2>1. Enter(r, "requests") /\ UNCHANGED <<sched, cur, held, task, approval, events>>
    BY <1>2 DEF BeginPass, store
  <2> QED
    BY <1>1, <2>1, EnterPlace, NoRecordStep
<1>3. CASE wf # "RUNNING" /\ round[r] = 0
  <2>1. Goto(r, "settle") /\ UNCHANGED <<todo, snap, sched, cur, held, task, approval, events>>
    BY <1>3 DEF BeginPass, store
  <2>2. pc'[r] = "settle" /\ \A q \in Reconcilers \ {r} : Still(q)
    BY <2>1 DEF Goto, Sound, TypeInv, PrivateInv, PrivateType, Still
  <2>3. Advance => PlaceOK(r)'
    BY <2>1, <2>2, FreePlace
  <2> QED
    BY <1>1, <2>1, <2>2, <2>3, NoRecordStep
<1>4. CASE wf # "RUNNING" /\ round[r] # 0
  BY <1>1, <1>4, LeaveRecords DEF BeginPass
<1> QED
  BY <1>2, <1>3, <1>4

LEMMA RecordsNextPhase ==
  ASSUME Sound, NEW r \in Reconcilers, NextPhase(r) PROVE RecordsInv'
<1>1. UNCHANGED <<runs, wakes, cliWake, sched, cur, held, task, approval, events>>
  BY DEF NextPhase, store, outside, history
<1>2. PICK phase \in {"requests", "wakeups", "rejects", "repair", "create"} : Enter(r, phase)
  BY DEF NextPhase, Following
<1> QED
  BY <1>1, <1>2, EnterPlace, NoRecordStep

LEMMA RecordsWaveCreated ==
  ASSUME Sound, NEW r \in Reconcilers, WaveCreated(r) PROVE RecordsInv'
<1>1. UNCHANGED <<runs, wakes, cliWake, snap, cur, held, task, approval, events>>
  BY DEF WaveCreated, store, outside, history
<1>2. pc'[r] = "dispatch" /\ sched'[r] = {p[1] : p \in todo[r]} /\ \A q \in Reconcilers \ {r} : Still(q)
  BY <1>1 DEF WaveCreated, Goto, Sound, TypeInv, PrivateInv, PrivateType, Still
<1>3. PlaceOK(r) /\ todo[r] \subseteq Attempts \X Binding
  BY DEF Sound, RecordsInv, TypeInv, PrivateInv, PrivateType
<1>4. \A a \in sched'[r] : task'[a].status # "NONE"
  <2>1. \A p \in todo[r] : p[1] \in Attempts /\ snap[r][p[1]].status # "NONE"
    BY <1>3 DEF WaveCreated, Unfinished
  <2> QED
    BY <1>1, <1>2, <1>3, <2>1 DEF PlaceOK, SnapOK
<1>5. ASSUME Advance PROVE PlaceOK(r)'
  <2>1. HandOK(r)'
    BY <1>1, <1>2, <1>3 DEF PlaceOK, HandOK, Engaged, Holding
  <2>2. TodoOK(r)'
    BY <1>2, <1>4 DEF TodoOK
  <2> QED
    BY <1>1, <1>5, <2>1, <2>2, SnapStays DEF PlaceOK
<1> QED
  BY <1>1, <1>2, <1>5, NoRecordStep

\* Nothing changes for any reconciler.
LEMMA NobodyMoves ==
  ASSUME Sound, UNCHANGED <<pc, todo, snap, sched, cur, held>>
  PROVE  \A q \in Reconcilers : Still(q)
BY DEF Still

LEMMA RecordsAttach ==
  ASSUME Sound, NEW r \in Reconcilers, Attach(r) PROVE RecordsInv'
<1>1. UNCHANGED <<runs, wakes, cliWake>>
  BY DEF Attach, history, outside
<1>2. CASE LeaveRecoverable(r)
  BY <1>1, <1>2, LeaveRecords
<1>3. CASE ~ LeaveRecoverable(r)
  <2>1. UNCHANGED <<pc, todo, snap, sched, cur, held, task, approval, events>>
    BY <1>3 DEF Attach, private
  <2>2. Advance => PlaceOK(r)'
    BY <1>1, <2>1, RivalStays DEF Rival, Still
  <2> QED
    BY <1>1, <2>1, <2>2, NobodyMoves, NoRecordStep
<1> QED
  BY <1>2, <1>3

LEMMA RecordsEmitQueued ==
  ASSUME Sound, NEW r \in Reconcilers, EmitQueued(r) PROVE RecordsInv'
<1>1. UNCHANGED <<pc, todo, snap, sched, cur, held, task, approval, runs, wakes, cliWake>>
  BY DEF EmitQueued, private, outside, history
<1>2. \A a \in Attempts, e \in {"Succeeded", "Failed"} : <<a, e>> \in events' => <<a, e>> \in events
  BY DEF EmitQueued
<1>3. Advance => PlaceOK(r)'
  BY <1>1, RivalStays DEF Rival, Still
<1> QED
  BY <1>1, <1>2, <1>3, NobodyMoves, NoRecordStep

LEMMA RecordsTake ==
  ASSUME Sound, NEW r \in Reconcilers, Take(r) PROVE RecordsInv'
<1>1. UNCHANGED <<runs, wakes, cliWake, snap, held, task, approval, events, todo>>
  BY DEF Take, store, outside, history
<1>2. PICK a \in sched[r] : /\ cur' = [cur EXCEPT ![r] = a] /\ sched' = [sched EXCEPT ![r] = @ \ {a}]
                            /\ \E phase \in {"start", "claim", "resume"} : Goto(r, phase)
  BY DEF Take
<1>3. PlaceOK(r) /\ sched[r] \subseteq Attempts
  BY DEF Sound, RecordsInv, TypeInv, PrivateInv, PrivateType
<1>4. /\ pc'[r] \in {"start", "claim", "resume"} /\ cur'[r] = a /\ sched'[r] = sched[r] \ {a}
      /\ \A q \in Reconcilers \ {r} : Still(q)
  BY <1>1, <1>2 DEF Goto, Sound, TypeInv, PrivateInv, PrivateType, Still
<1>5. ASSUME Advance PROVE PlaceOK(r)'
  <2>1. HandOK(r)'
    BY <1>1, <1>3, <1>4 DEF PlaceOK, TodoOK, HandOK, Engaged, Holding
  <2>2. TodoOK(r)'
    BY <1>1, <1>3, <1>4 DEF PlaceOK, TodoOK
  <2> QED
    BY <1>1, <1>5, <2>1, <2>2, SnapStays DEF PlaceOK
<1> QED
  BY <1>1, <1>4, <1>5, NoRecordStep

LEMMA RecordsEnding ==
  ASSUME Sound, NEW r \in Reconcilers, Ending(r) PROVE RecordsInv'
<1>1. UNCHANGED <<runs, wakes, cliWake, task, approval, events>>
  BY DEF Ending, EndPass, ReadOutcome, CommitOutcome, Settle, store, outside, history
<1>2. CASE EndPass(r)
  <2>1. /\ pc'[r] \in {"outcome", "idle"} /\ snap'[r] = NoSnap /\ UNCHANGED <<sched, cur>>
        /\ \A q \in Reconcilers \ {r} : Still(q)
    BY <1>2 DEF EndPass, Goto, Sound, TypeInv, PrivateInv, PrivateType, Still
  <2>2. Advance => PlaceOK(r)'
    BY <2>1, FreePlace
  <2> QED
    BY <1>1, <2>1, <2>2, NoRecordStep
<1>3. CASE ReadOutcome(r) \/ CommitOutcome(r)
  <2>1. /\ pc'[r] \in {"settle", "commit"} /\ UNCHANGED <<snap, sched, cur>>
        /\ \A q \in Reconcilers \ {r} : Still(q)
    BY <1>3 DEF ReadOutcome, CommitOutcome, Goto, Sound, TypeInv, PrivateInv, PrivateType, Still
  <2>2. Advance => PlaceOK(r)'
    BY <2>1, FreePlace
  <2> QED
    BY <1>1, <2>1, <2>2, NoRecordStep
<1>4. CASE Settle(r)
  BY <1>1, <1>4, ForgetPlace, NoRecordStep DEF Settle
<1> QED
  BY <1>2, <1>3, <1>4 DEF Ending

LEMMA RecordsCrash ==
  ASSUME Sound, NEW r \in Reconcilers, Crash(r) PROVE RecordsInv'
<1>1. UNCHANGED <<runs, wakes, cliWake, task, approval, events>> /\ Forget(r)
  BY DEF Crash, store, outside, history
<1> QED
  BY <1>1, ForgetPlace, NoRecordStep

-----------------------------------------------------------------------------
(* The steps that write a record, its approvals or its events.             *)

\* Only record a is written, and only its approvals.
Alone(a) ==
  \A b \in Attempts \ {a} : task'[b] = task[b] /\ approval'[b] = approval[b]

LEMMA AloneSame ==
  ASSUME NEW a \in Attempts, Alone(a),
         \A b \in Attempts \ {a} : runs'[b] = runs[b] /\ wakes'[b] = wakes[b],
         events' \ events \subseteq {a} \X EventTypes
  PROVE  \A b \in Attempts \ {a} : SameAttempt(b)
BY DEF Alone, SameAttempt

LEMMA UnblockedStays ==
  ASSUME Sound, Advance, NEW a \in Attempts, task[a].status # "NONE"
  PROVE  Unblocked(a)'
BY DependenciesStay DEF Sound, RecordsInv, AttemptOK, Unblocked, Attempts

LEMMA RecordsEmitTerminal ==
  ASSUME Sound, NEW r \in Reconcilers, EmitTerminal(r) PROVE RecordsInv'
<1>1. UNCHANGED <<pc, todo, snap, sched, cur, held, task, approval, runs, wakes, cliWake>>
  BY DEF EmitTerminal, private, outside, history
<1>2. PICK a \in Attempts :
        /\ snap[r][a].status \in Terminal
        /\ events' = events \cup
             {<<a, TerminalEvent(IF snap[r][a].status = "SUCCEEDED"
                                 THEN "success" ELSE snap[r][a].failure)>>}
  BY DEF EmitTerminal
<1>3. AttemptOK(a) /\ PlaceOK(r) /\ snap[r][a] \in TaskRecord
  BY DEF Sound, RecordsInv, TypeInv, PrivateInv, PrivateType
<1>4. /\ events' \ events \subseteq {a} \X EventTypes
      /\ <<a, "Succeeded">> \in events' => <<a, "Succeeded">> \in events \/ snap[r][a].status = "SUCCEEDED"
      /\ <<a, "Failed">> \in events' => <<a, "Failed">> \in events \/ snap[r][a].status = "FAILED"
  <2>1. CASE snap[r][a].status = "SUCCEEDED"
    BY <1>2, <2>1 DEF TerminalEvent, EventTypes
  <2>2. CASE snap[r][a].status = "FAILED"
    <3>1. snap[r][a].failure # "success"
      BY <1>3 DEF TaskRecord
    <3>2. events' = events \cup {<<a, "Failed">>}
      BY <1>2, <2>2, <3>1 DEF TerminalEvent
    <3> QED
      BY <2>2, <3>2 DEF EventTypes
  <2> QED
    BY <1>2, <2>1, <2>2 DEF Terminal
<1>5. \A b \in Attempts \ {a} : SameAttempt(b)
  BY <1>1, <1>4, AloneSame DEF Alone
<1>6. AdvanceAt(a)
  BY <1>1 DEF AdvanceAt
<1>7. ASSUME Advance PROVE AttemptOK(a)'
  <2>1. ReportFits(a)'
    BY <1>1, <1>2, <1>3, <1>4 DEF AttemptOK, ReportFits, PlaceOK, SnapOK
  <2>2. RecordShape(a)' /\ ApprovalsFit(a)'
    BY <1>1, <1>3 DEF AttemptOK, RecordShape, ApprovalsFit, Approved
  <2>3. task[a].status # "NONE"
    BY <1>2, <1>3 DEF PlaceOK, SnapOK, Terminal
  <2> QED
    BY <1>7, <2>1, <2>2, <2>3, UnblockedStays DEF AttemptOK
<1>8. Advance => PlaceOK(r)'
  BY <1>1, RivalStays DEF Rival, Still
<1>9. \A q \in Reconcilers \ {r} : Still(q)
  BY <1>1, NobodyMoves
<1> QED
  BY <1>1, <1>5, <1>6, <1>7, <1>8, <1>9, OneRecordStep

\* create_approval_request binds the waiting attempt to an approval that may be
\* new; the binding it replaces was approved.
LEMMA BindKeeps ==
  ASSUME Sound, NEW r \in Reconcilers, NEW a \in Attempts, NEW g \in AllGates, NEW e,
         Approved(a, e), BindOutcome(task[a], g, e) = "bound",
         approval' = [approval EXCEPT ![a][g] = IF @ = "NONE" THEN "PENDING" ELSE @],
         task' = [task EXCEPT ![a].approvalId = g],
         UNCHANGED <<events, runs, wakes, cliWake>>,
         \A q \in Reconcilers \ {r} : Still(q),
         Advance => PlaceOK(r)'
  PROVE  RecordsInv'
<1>1. task[a].status = "AWAITING_APPROVAL" /\ task[a].approvalId \in {g, e}
  BY DEF BindOutcome
<1>2. AttemptOK(a) /\ task[a] \in TaskRecord
  BY DEF Sound, RecordsInv, TypeInv, StoreType
<1>3. /\ Alone(a) /\ task'[a] = [task[a] EXCEPT !.approvalId = g]
      /\ \A h \in AllGates : approval'[a][h] = IF h = g /\ approval[a][h] = "NONE"
                                               THEN "PENDING" ELSE approval[a][h]
  BY DEF Alone, Sound, TypeInv, StoreType
<1>4. /\ task'[a].approvalId = g
      /\ task'[a].status = task[a].status /\ task'[a].dispatch = task[a].dispatch
      /\ task'[a].evidence = task[a].evidence /\ task'[a].failure = task[a].failure
      /\ task'[a].expected = task[a].expected
  BY <1>2, <1>3 DEF TaskRecord
<1>5. \A b \in Attempts \ {a} : SameAttempt(b)
  BY <1>3, AloneSame
<1>6. AdvanceAt(a)
  BY <1>3, <1>4 DEF AdvanceAt
<1>7. ASSUME Advance PROVE AttemptOK(a)'
  <2>1. RecordShape(a)' /\ ReportFits(a)'
    BY <1>1, <1>2, <1>4 DEF AttemptOK, RecordShape, ReportFits, Terminal
  <2>2. ApprovalsFit(a)'
    <3>1. task[a].expected \in Binding
      BY <1>2 DEF TaskRecord
    <3>2. task[a].expected # 0 => approval'[a][task[a].expected] = "APPROVED"
      BY <1>2, <1>3, <3>1, GatesArePositive DEF AttemptOK, ApprovalsFit, Approved
    <3>3. \A h \in AllGates : approval[a][h] \in {"PENDING", "REJECTED"} => h = g
      BY <1>1, <1>2, GatesArePositive DEF AttemptOK, ApprovalsFit, Approved
    <3> QED
      BY <1>1, <1>3, <1>4, <3>2, <3>3 DEF ApprovalsFit, Approved
  <2> QED
    BY <1>1, <1>7, <2>1, <2>2, UnblockedStays DEF AttemptOK
<1>8. \A q \in Reconcilers : pc[q] \in Holding => cur[q] # a
  BY <1>1, NoHolder
<1> QED
  BY <1>5, <1>6, <1>7, <1>8, OneRecordStep

LEMMA RecordsRecoverRequest ==
  ASSUME Sound, NEW r \in Reconcilers, RecoverRequest(r) PROVE RecordsInv'
<1>1. UNCHANGED <<runs, wakes, cliWake>> /\ pc[r] = "requests"
  BY DEF RecoverRequest, outside, history
<1>2. PICK p \in todo[r] :
        Request(r, p[1], p[2], snap[r][p[1]].expected,
                /\ todo' = [todo EXCEPT ![r] = @ \ {p}]
                /\ UNCHANGED <<pc, round, snap, sched, cur, held>>)
  BY DEF RecoverRequest
<1>3. PlaceOK(r) /\ p[1] \in Attempts /\ p[2] \in AllGates
  BY <1>1 DEF Sound, RecordsInv, PlaceOK, TodoOK, TypeInv, PrivateInv, PrivateType
<1>4. CASE LeaveRecoverable(r) \/ LeaveValueError(r)
  BY <1>1, <1>4, LeaveRecords
<1>5. CASE ~ (LeaveRecoverable(r) \/ LeaveValueError(r))
  <2>1. /\ BindOutcome(task[p[1]], p[2], snap[r][p[1]].expected) = "bound"
        /\ approval' = [approval EXCEPT ![p[1]][p[2]] = IF @ = "NONE" THEN "PENDING" ELSE @]
        /\ task' = [task EXCEPT ![p[1]].approvalId = p[2]]
        /\ todo' = [todo EXCEPT ![r] = @ \ {p}]
        /\ UNCHANGED <<pc, round, snap, sched, cur, held, events>>
    BY <1>2, <1>5 DEF Request, BindOutcome
  <2>2. Approved(p[1], snap[r][p[1]].expected)
    BY <1>3 DEF PlaceOK, SnapOK
  <2>3. todo'[r] \subseteq todo[r] /\ \A q \in Reconcilers \ {r} : Still(q)
    BY <2>1 DEF Sound, TypeInv, PrivateInv, PrivateType, Still
  <2>4. Advance => PlaceOK(r)'
    BY <1>1, <2>1, <2>3, SnapStays, StayPlace DEF Holding
  <2> QED
    BY <1>1, <1>3, <2>1, <2>2, <2>3, <2>4, BindKeeps
<1> QED
  BY <1>4, <1>5

LEMMA RecordsRequestApproval ==
  ASSUME Sound, NEW r \in Reconcilers, RequestApproval(r) PROVE RecordsInv'
<1>1. UNCHANGED <<runs, wakes, cliWake>> /\ pc[r] = "request"
  BY DEF RequestApproval, outside, history
<1>2. PICK p \in todo[r] : Request(r, p[1], p[2], snap[r][p[1]].approvalId, Skip(r))
  BY DEF RequestApproval
<1>3. PlaceOK(r) /\ p[1] \in Attempts
  BY DEF Sound, RecordsInv, TypeInv, PrivateInv, PrivateType
<1>4. p[2] \in AllGates /\ p[1] = cur[r]
  BY <1>1, <1>3 DEF PlaceOK, TodoOK
<1>5. CASE LeaveRecoverable(r) \/ LeaveValueError(r)
  BY <1>1, <1>5, LeaveRecords
<1>6. CASE ~ (LeaveRecoverable(r) \/ LeaveValueError(r))
  <2>1. /\ BindOutcome(task[p[1]], p[2], snap[r][p[1]].approvalId) = "bound"
        /\ approval' = [approval EXCEPT ![p[1]][p[2]] = IF @ = "NONE" THEN "PENDING" ELSE @]
        /\ task' = [task EXCEPT ![p[1]].approvalId = p[2]]
        /\ UNCHANGED events /\ Skip(r)
    BY <1>2, <1>6 DEF Request, BindOutcome
  <2>2. Approved(p[1], snap[r][p[1]].approvalId)
    BY <1>1, <1>3, <1>4 DEF PlaceOK, HandOK
  <2>3. (\A q \in Reconcilers \ {r} : Still(q)) /\ (Advance => PlaceOK(r)')
    BY <2>1, SkipPlace
  <2> QED
    BY <1>1, <1>3, <1>4, <2>1, <2>2, <2>3, BindKeeps
<1> QED
  BY <1>5, <1>6

\* wake_approved_task for an approval that is there.
LEMMA WakeKeepsRecords ==
  ASSUME Sound, NEW r, NEW a \in Attempts, NEW g \in AllGates,
         approval[a][g] = "APPROVED", WakeTask(a, g),
         UNCHANGED <<approval, events, runs>>, cliWake' \subseteq cliWake,
         \A q \in Reconcilers \ {r} : Still(q),
         Advance /\ r \in Reconcilers => PlaceOK(r)'
  PROVE  RecordsInv'
<1>1. AttemptOK(a) /\ task[a] \in TaskRecord /\ task \in [Attempts -> TaskRecord]
  BY DEF Sound, RecordsInv, TypeInv, StoreType
<1>2. CASE ~ WakeApplies(task[a], g)
  <2>1. UNCHANGED <<task, wakes>>
    BY <1>2 DEF WakeTask
  <2>2. (\A b \in Attempts \ {a} : SameAttempt(b)) /\ SameAttempt(a) /\ AdvanceAt(a)
    BY <2>1 DEF SameAttempt, AdvanceAt
  <2> QED
    BY <2>1, <2>2, SameAttemptStays, OneRecordStep
<1>3. CASE WakeApplies(task[a], g)
  <2>1. /\ task[a].approvalId = g /\ task[a].status \in {"AWAITING_APPROVAL", "PENDING"}
        /\ task' = [task EXCEPT ![a] = Woken(task[a])]
        /\ wakes' = IF task[a].status = "AWAITING_APPROVAL"
                    THEN [wakes EXCEPT ![a] = @ + 1] ELSE wakes
    BY <1>3 DEF WakeTask, WakeApplies
  <2>2. /\ task'[a] = Woken(task[a]) /\ Alone(a)
        /\ \A b \in Attempts \ {a} : runs'[b] = runs[b] /\ wakes'[b] = wakes[b]
        /\ wakes'[a] = IF task[a].status = "AWAITING_APPROVAL" THEN wakes[a] + 1 ELSE wakes[a]
    BY <1>1, <2>1 DEF Alone, Sound, TypeInv, RestType
  <2>3. /\ task'[a].status = "PENDING" /\ task'[a].dispatch = "none"
        /\ task'[a].evidence = task[a].evidence /\ task'[a].approvalId = g
        /\ task'[a].expected = task[a].expected
    BY <1>1, <2>1, <2>2 DEF Woken, TaskRecord
  <2>4. task[a].evidence = "none" /\ runs'[a] = wakes'[a]
    BY <1>1, <2>1, <2>2 DEF AttemptOK, RecordShape
  <2>5. \A b \in Attempts \ {a} : SameAttempt(b)
    BY <2>2, AloneSame
  <2>6. AdvanceAt(a)
    BY <2>1, <2>3, <2>4 DEF AdvanceAt, Terminal
  <2>7. ASSUME Advance PROVE AttemptOK(a)'
    <3>1. RecordShape(a)' /\ ReportFits(a)'
      BY <1>1, <2>1, <2>3, <2>4 DEF AttemptOK, RecordShape, ReportFits, Terminal
    <3>2. \A h \in AllGates : approval[a][h] \notin {"PENDING", "REJECTED"}
      BY <1>1, <2>1 DEF AttemptOK, ApprovalsFit
    <3>3. ApprovalsFit(a)'
      BY <1>1, <2>3, <3>2 DEF AttemptOK, ApprovalsFit, Approved
    <3> QED
      BY <2>1, <2>7, <3>1, <3>3, UnblockedStays DEF AttemptOK
  <2>8. \A q \in Reconcilers : pc[q] \in Holding => cur[q] # a
    BY <2>1, NoHolder
  <2> QED
    BY <2>5, <2>6, <2>7, <2>8, OneRecordStep
<1> QED
  BY <1>2, <1>3

LEMMA RecordsRecoverWakeup ==
  ASSUME Sound, NEW r \in Reconcilers, RecoverWakeup(r) PROVE RecordsInv'
<1>1. /\ UNCHANGED <<approval, events, runs, cliWake, pc, snap, sched, cur, held>>
      /\ pc[r] = "wakeups"
  BY DEF RecoverWakeup, outside
<1>2. PICK p \in todo[r] : WakeTask(p[1], p[2]) /\ todo' = [todo EXCEPT ![r] = @ \ {p}]
  BY DEF RecoverWakeup
<1>3. p[1] \in Attempts /\ p[2] \in AllGates /\ approval[p[1]][p[2]] = "APPROVED"
  BY <1>1 DEF Sound, RecordsInv, PlaceOK, TodoOK, TypeInv, PrivateInv, PrivateType
<1>4. todo'[r] \subseteq todo[r] /\ \A q \in Reconcilers \ {r} : Still(q)
  BY <1>1, <1>2 DEF Sound, TypeInv, PrivateInv, PrivateType, Still
<1>5. Advance => PlaceOK(r)'
  BY <1>1, <1>4, SnapStays, StayPlace DEF Holding
<1> QED
  BY <1>1, <1>2, <1>3, <1>4, <1>5, WakeKeepsRecords

\* A record that ends: with the report that is durable, or with the rejection.
LEMMA FinishKeeps ==
  ASSUME Sound, NEW r \in Reconcilers, NEW a \in Attempts, NEW o \in Outcomes,
         \/ task[a].status = "RUNNING" /\ task[a].evidence = o
         \/ /\ task[a].status = "AWAITING_APPROVAL" /\ o = "policy"
            /\ approval[a][task[a].approvalId] = "REJECTED",
         task' = [task EXCEPT ![a] = Finished(@, o)],
         events' \in {events, events \cup {<<a, TerminalEvent(o)>>}},
         UNCHANGED <<approval, runs, wakes, cliWake>>,
         \A q \in Reconcilers \ {r} : Still(q),
         Advance => PlaceOK(r)'
  PROVE  RecordsInv'
<1>1. AttemptOK(a) /\ task[a] \in TaskRecord /\ task \in [Attempts -> TaskRecord]
  BY DEF Sound, RecordsInv, TypeInv, StoreType
<1>2. task'[a] = Finished(task[a], o) /\ Alone(a)
  BY <1>1 DEF Alone
<1>3. /\ task'[a].status = StatusOf(o) /\ task'[a].failure = FailureOf(o)
      /\ task'[a].evidence = task[a].evidence /\ task'[a].dispatch = task[a].dispatch
      /\ task'[a].expected = task[a].expected
      /\ StatusOf(o) \in Terminal
  BY <1>1, <1>2 DEF Finished, TaskRecord, StatusOf, Terminal
<1>4. /\ events' \ events \subseteq {a} \X EventTypes
      /\ <<a, "Succeeded">> \in events' => <<a, "Succeeded">> \in events \/ StatusOf(o) = "SUCCEEDED"
      /\ <<a, "Failed">> \in events' => <<a, "Failed">> \in events \/ StatusOf(o) = "FAILED"
  BY DEF TerminalEvent, EventTypes, StatusOf
<1>5. \A b \in Attempts \ {a} : SameAttempt(b)
  BY <1>2, <1>4, AloneSame
<1>6. AdvanceAt(a)
  BY <1>3 DEF AdvanceAt, Terminal
<1>7. ASSUME Advance PROVE AttemptOK(a)'
  <2>1. ReportFits(a)'
    BY <1>1, <1>3, <1>4 DEF AttemptOK, ReportFits, RecordShape, Terminal
  <2>2. task[a].evidence # "none" => runs[a] = wakes[a] + 1
    BY <1>1 DEF AttemptOK, RecordShape
  <2>3. task[a].dispatch # "PENDING"
    BY <1>1 DEF AttemptOK, RecordShape, Outcomes
  <2>4. RecordShape(a)'
    BY <1>3, <2>2, <2>3 DEF RecordShape, Terminal
  <2>5. \A h \in AllGates : approval[a][h] # "PENDING"
    BY <1>1 DEF AttemptOK, ApprovalsFit
  <2>6. \A h \in AllGates : approval[a][h] = "REJECTED" => StatusOf(o) = "FAILED"
    BY <1>1 DEF AttemptOK, ApprovalsFit, StatusOf
  <2>7. ApprovalsFit(a)'
    BY <1>1, <1>3, <2>5, <2>6 DEF AttemptOK, ApprovalsFit, Approved, Terminal
  <2>8. task[a].status # "NONE"
    OBVIOUS
  <2> QED
    BY <1>7, <2>1, <2>4, <2>7, <2>8, UnblockedStays DEF AttemptOK
<1>8. \/ \A q \in Reconcilers \ {r} : pc[q] \in Holding => cur[q] # a
      \/ /\ runs'[a] = runs[a] /\ wakes'[a] = wakes[a]
         /\ task'[a].evidence = task[a].evidence
         /\ task[a].status = "RUNNING" /\ task[a].evidence = "none" => task'[a].status = "RUNNING"
  BY <1>3 DEF Outcomes
<1> QED
  BY <1>5, <1>6, <1>7, <1>8, OneRecordStep

LEMMA RecordsFailRejected ==
  ASSUME Sound, NEW r \in Reconcilers, FailRejected(r) PROVE RecordsInv'
<1>1. UNCHANGED <<runs, wakes, cliWake>> /\ pc[r] = "rejects"
  BY DEF FailRejected, outside, history
<1>2. CASE LeaveRecoverable(r)
  BY <1>1, <1>2, LeaveRecords
<1>3. CASE ~ LeaveRecoverable(r)
  <2>1. PICK p \in todo[r] :
          /\ task[p[1]].status = "AWAITING_APPROVAL"
          /\ task' = [task EXCEPT ![p[1]] = Finished(@, "policy")]
          /\ events' = events \cup {<<p[1], "Failed">>}
          /\ todo' = [todo EXCEPT ![r] = @ \ {p}]
          /\ UNCHANGED <<pc, snap, sched, cur, held, approval>>
    BY <1>3 DEF FailRejected, UpdateAccepted
  <2>2. p[1] \in Attempts /\ p[2] \in AllGates /\ approval[p[1]][p[2]] = "REJECTED"
    BY <1>1 DEF Sound, RecordsInv, PlaceOK, TodoOK, TypeInv, PrivateInv, PrivateType
  <2>3. approval[p[1]][task[p[1]].approvalId] = "REJECTED"
    BY <2>1, <2>2 DEF Sound, RecordsInv, AttemptOK, ApprovalsFit
  <2>4. todo'[r] \subseteq todo[r] /\ \A q \in Reconcilers \ {r} : Still(q)
    BY <2>1 DEF Sound, TypeInv, PrivateInv, PrivateType, Still
  <2>5. Advance => PlaceOK(r)'
    BY <1>1, <2>1, <2>4, SnapStays, StayPlace DEF Holding
  <2>6. "policy" \in Outcomes /\ TerminalEvent("policy") = "Failed"
    BY DEF Outcomes, TerminalEvent
  <2> QED
    BY <1>1, <2>1, <2>2, <2>3, <2>4, <2>5, <2>6, FinishKeeps
<1> QED
  BY <1>2, <1>3

LEMMA RecordsRepairMarker ==
  ASSUME Sound, NEW r \in Reconcilers, RepairMarker(r) PROVE RecordsInv'
<1>1. UNCHANGED <<runs, wakes, cliWake>> /\ pc[r] = "repair"
  BY DEF RepairMarker, outside, history
<1>2. CASE LeaveRecoverable(r)
  BY <1>1, <1>2, LeaveRecords
<1>3. CASE ~ LeaveRecoverable(r)
  <2>1. PICK a \in Attempts :
          /\ snap[r][a].status = "RUNNING" /\ snap[r][a].evidence # "none"
          /\ task[a].status = "RUNNING"
          /\ task' = [task EXCEPT ![a] = Finished(@, snap[r][a].evidence)]
          /\ snap' = [snap EXCEPT ![r][a] = Finished(@, snap[r][a].evidence)]
          /\ UNCHANGED <<pc, todo, sched, cur, held, approval, events>>
    BY <1>3 DEF RepairMarker, UpdateAccepted
  <2>2. /\ PlaceOK(r) /\ snap[r] \in [Attempts -> TaskRecord] /\ task[a] \in TaskRecord
        /\ task \in [Attempts -> TaskRecord]
    BY DEF Sound, RecordsInv, TypeInv, PrivateInv, PrivateType, StoreType
  <2>3. task[a].evidence = snap[r][a].evidence /\ snap[r][a].evidence \in Outcomes
    BY <2>1, <2>2 DEF PlaceOK, SnapOK, TaskRecord
  <2>4. /\ snap'[r] = [snap[r] EXCEPT ![a] = Finished(@, snap[r][a].evidence)]
        /\ \A q \in Reconcilers \ {r} : Still(q)
    BY <2>1 DEF Sound, TypeInv, PrivateInv, PrivateType, Still
  <2>5. SnapOK(r)'
    <3>2. /\ task'[a] = Finished(task[a], task[a].evidence)
          /\ snap'[r][a] = Finished(snap[r][a], task[a].evidence)
      BY <2>1, <2>2, <2>3, <2>4
    <3>3. /\ task'[a].status = snap'[r][a].status /\ task'[a].failure = snap'[r][a].failure
          /\ task'[a].evidence = task[a].evidence /\ snap'[r][a].evidence = snap[r][a].evidence
          /\ snap'[r][a].expected = snap[r][a].expected /\ task'[a].status # "NONE"
      BY <2>2, <3>2 DEF Finished, StatusOf, TaskRecord
    <3>4. ASSUME NEW b \in Attempts, b # a
          PROVE  /\ snap'[r][b] = snap[r][b] /\ task'[b] = task[b]
      BY <2>1, <2>2, <2>4, <3>4
    <3>5. ASSUME NEW b \in Attempts
          PROVE  /\ snap'[r][b].status # "NONE" => task'[b].status # "NONE"
                 /\ snap'[r][b].evidence # "none" => task'[b].evidence = snap'[r][b].evidence
                 /\ snap'[r][b].status \in Terminal =>
                      task'[b].status = snap'[r][b].status /\ task'[b].failure = snap'[r][b].failure
                 /\ snap'[r][b].expected = snap[r][b].expected
      <4>1. CASE b = a
        BY <2>3, <3>3, <4>1
      <4>2. CASE b # a
        BY <2>2, <3>4, <4>2 DEF PlaceOK, SnapOK
      <4> QED
        BY <4>1, <4>2
    <3> QED
      BY <2>1, <2>2, <3>5 DEF PlaceOK, SnapOK, Approved
  <2>6. Advance => PlaceOK(r)'
    BY <1>1, <2>1, <2>5, StayPlace DEF Holding
  <2> QED
    BY <1>1, <2>1, <2>3, <2>4, <2>6, FinishKeeps
<1> QED
  BY <1>2, <1>3

LEMMA RecordsCreate ==
  ASSUME Sound, NEW r \in Reconcilers, CreateAttempt(r) PROVE RecordsInv'
<1>1. UNCHANGED <<pc, todo, sched, cur, held, approval, events, runs, wakes, cliWake>> /\ pc[r] = "create"
  BY DEF CreateAttempt, outside, history
<1>2. PICK a \in Attempts :
        /\ <<a, 0>> \in todo[r] /\ snap[r][a].status = "NONE"
        /\ task' = [task EXCEPT ![a] = IF @.status = "NONE" THEN NewRecord ELSE @]
        /\ snap' = [snap EXCEPT ![r][a] = task'[a]]
  BY DEF CreateAttempt
<1>3. /\ PlaceOK(r) /\ snap[r] \in [Attempts -> TaskRecord] /\ AttemptOK(a)
      /\ task \in [Attempts -> TaskRecord]
  BY DEF Sound, RecordsInv, TypeInv, PrivateInv, PrivateType, StoreType
<1>4. /\ task'[a] = IF task[a].status = "NONE" THEN NewRecord ELSE task[a]
      /\ Alone(a)
  BY <1>1, <1>2, <1>3 DEF Alone
<1>5. /\ snap'[r] = [snap[r] EXCEPT ![a] = task'[a]]
      /\ \A q \in Reconcilers \ {r} : Still(q)
  BY <1>1, <1>2 DEF Sound, TypeInv, PrivateInv, PrivateType, Still
<1>6. NewRecord.status = "PENDING" /\ NewRecord.dispatch = "none" /\ NewRecord.evidence = "none"
      /\ NewRecord.approvalId = 0 /\ NewRecord.expected = 0
  BY DEF NewRecord, NoRecord
<1>7. \A b \in Attempts \ {a} : SameAttempt(b)
  BY <1>1, <1>4, AloneSame
<1>8. AdvanceAt(a)
  BY <1>1, <1>3, <1>4, <1>6 DEF AdvanceAt, AttemptOK, RecordShape, Terminal
<1>9. ASSUME Advance PROVE AttemptOK(a)'
  <2>1. CASE task[a].status # "NONE"
    BY <1>1, <1>4, <1>9, <2>1, SameAttemptStays DEF SameAttempt
  <2>2. CASE task[a].status = "NONE"
    <3>1. RecordShape(a)' /\ ReportFits(a)'
      BY <1>1, <1>3, <1>4, <1>6, <2>2 DEF AttemptOK, RecordShape, ReportFits, Terminal
    <3>2. ApprovalsFit(a)'
      BY <1>1, <1>3, <1>4, <1>6, <2>2 DEF AttemptOK, ApprovalsFit, Approved
    <3>3. DependenciesSucceeded(task, a[1])
      BY <1>1, <1>2, <1>3 DEF PlaceOK, TodoOK
    <3>4. Unblocked(a)'
      BY <1>9, <3>3, DependenciesStay DEF Unblocked, Attempts, Sound
    <3> QED
      BY <3>1, <3>2, <3>4 DEF AttemptOK
  <2> QED
    BY <2>1, <2>2
<1>10. Advance => PlaceOK(r)'
  <2>1. Approved(a, task'[a].expected)
    BY <1>3, <1>4, <1>6 DEF AttemptOK, ApprovalsFit, Approved
  <2>2. task'[a].status # "NONE"
    BY <1>4, <1>6
  <2>3. ASSUME NEW b \in Attempts
        PROVE  /\ snap'[r][b].status # "NONE" => task'[b].status # "NONE"
               /\ snap'[r][b].evidence # "none" => task'[b].evidence = snap'[r][b].evidence
               /\ snap'[r][b].status \in Terminal =>
                    task'[b].status = snap'[r][b].status /\ task'[b].failure = snap'[r][b].failure
               /\ Approved(b, snap'[r][b].expected)
    <3>1. CASE b = a
      BY <1>3, <1>5, <2>1, <2>2, <3>1
    <3>2. CASE b # a
      BY <1>3, <1>4, <1>5, <3>2 DEF PlaceOK, SnapOK, Alone
    <3> QED
      BY <3>1, <3>2
  <2>4. SnapOK(r)'
    BY <1>1, <2>3 DEF SnapOK, Approved
  <2> QED
    BY <1>1, <2>4, StayPlace DEF Holding
<1>11. CASE task[a].status = "NONE"
  BY <1>1, <1>5, <1>7, <1>8, <1>9, <1>10, <1>11, NoHolder, OneRecordStep
<1>12. CASE task[a].status # "NONE"
  BY <1>1, <1>4, <1>5, <1>7, <1>8, <1>9, <1>10, <1>12, OneRecordStep
<1> QED
  BY <1>11, <1>12

\* A diagnostic is all that is recorded.
LEMMA DiagnosedKeeps ==
  ASSUME Sound, NEW r \in Reconcilers, NEW a \in Attempts,
         task' = [task EXCEPT ![a].diagnosed = TRUE],
         UNCHANGED <<approval, events, runs, wakes, cliWake>>,
         \A q \in Reconcilers \ {r} : Still(q),
         Advance => PlaceOK(r)'
  PROVE  RecordsInv'
<1>1. AttemptOK(a) /\ task[a] \in TaskRecord /\ task \in [Attempts -> TaskRecord]
  BY DEF Sound, RecordsInv, TypeInv, StoreType
<1>2. task'[a] = [task[a] EXCEPT !.diagnosed = TRUE] /\ Alone(a)
  BY <1>1 DEF Alone
<1>3. /\ task'[a].status = task[a].status /\ task'[a].dispatch = task[a].dispatch
      /\ task'[a].evidence = task[a].evidence /\ task'[a].failure = task[a].failure
      /\ task'[a].approvalId = task[a].approvalId /\ task'[a].expected = task[a].expected
  BY <1>1, <1>2 DEF TaskRecord
<1>4. \A b \in Attempts \ {a} : SameAttempt(b)
  BY <1>2, AloneSame
<1>5. AdvanceAt(a)
  BY <1>3 DEF AdvanceAt
<1>6. ASSUME Advance PROVE AttemptOK(a)'
  <2>1. RecordShape(a)' /\ ReportFits(a)'
    BY <1>1, <1>3 DEF AttemptOK, RecordShape, ReportFits
  <2>2. ApprovalsFit(a)'
    BY <1>1, <1>3 DEF AttemptOK, ApprovalsFit, Approved
  <2>3. CASE task[a].status # "NONE"
    BY <1>6, <2>1, <2>2, <2>3, UnblockedStays DEF AttemptOK
  <2>4. CASE task[a].status = "NONE"
    BY <1>3, <2>1, <2>2, <2>4 DEF AttemptOK, Unblocked
  <2> QED
    BY <2>3, <2>4
<1> QED
  BY <1>3, <1>4, <1>5, <1>6, OneRecordStep

\* It works on with the attempt in hand.
LEMMA OnPlace ==
  ASSUME Sound, NEW r \in Reconcilers, pc[r] \in Engaged,
         NEW phase \in {"recover", "claim"}, Goto(r, phase),
         UNCHANGED <<todo, snap, sched, cur>>,
         \E what : held' = [held EXCEPT ![r] = what]
  PROVE  (Advance => PlaceOK(r)') /\ \A q \in Reconcilers \ {r} : Still(q)
<1>1. pc'[r] = phase /\ \A q \in Reconcilers \ {r} : Still(q)
  BY DEF Goto, Sound, TypeInv, PrivateInv, PrivateType, Still
<1> QED
  BY <1>1, FreePlace

LEMMA RecordsResume ==
  ASSUME Sound, NEW r \in Reconcilers, Resume(r) PROVE RecordsInv'
<1>1. UNCHANGED <<runs, wakes, cliWake, approval, events>> /\ pc[r] = "resume" /\ pc[r] \in Engaged
  BY DEF Resume, outside, history, Engaged
<1>2. cur[r] \in Attempts
  BY <1>1 DEF Sound, TypeInv, PrivateInv, CurOK, Engaged
<1>3. CASE Skip(r) /\ UNCHANGED task
  BY <1>1, <1>3, SkipPlace, NoRecordStep
<1>4. CASE /\ task' = [task EXCEPT ![cur[r]].diagnosed = TRUE]
           /\ Goto(r, "claim")
           /\ UNCHANGED <<round, todo, snap, sched, cur, held>>
  <2>1. \E what : held' = [held EXCEPT ![r] = what]
    <3>1. held' = [held EXCEPT ![r] = held[r]]
      BY <1>4 DEF Sound, TypeInv, PrivateInv, PrivateType
    <3> QED
      BY <3>1
  <2>2. (Advance => PlaceOK(r)') /\ \A q \in Reconcilers \ {r} : Still(q)
    BY <1>1, <1>4, <2>1, OnPlace
  <2> QED
    BY <1>1, <1>2, <1>4, <2>2, DiagnosedKeeps
<1> QED
  BY <1>3, <1>4 DEF Resume

\* The start commit.
LEMMA StartKeeps ==
  ASSUME Sound, NEW r \in Reconcilers, NEW a \in Attempts, NEW d \in BOOLEAN,
         task[a].status = "PENDING",
         task' = [task EXCEPT ![a] = Started(@, d)],
         events' = events \cup {<<a, "Started">>},
         UNCHANGED <<approval, runs, wakes, cliWake>>,
         \A q \in Reconcilers \ {r} : Still(q),
         Advance => PlaceOK(r)'
  PROVE  RecordsInv'
<1>1. AttemptOK(a) /\ task[a] \in TaskRecord /\ task \in [Attempts -> TaskRecord]
  BY DEF Sound, RecordsInv, TypeInv, StoreType
<1>2. task'[a] = Started(task[a], d) /\ Alone(a)
  BY <1>1 DEF Alone
<1>3. /\ task'[a].status = "RUNNING" /\ task'[a].dispatch = "PENDING"
      /\ task'[a].evidence = task[a].evidence
      /\ task'[a].approvalId = task[a].approvalId /\ task'[a].expected = task[a].expected
  BY <1>1, <1>2 DEF Started, TaskRecord
<1>4. \A b \in Attempts \ {a} : SameAttempt(b)
  BY <1>2, AloneSame DEF EventTypes
<1>5. AdvanceAt(a)
  BY <1>3 DEF AdvanceAt, Terminal
<1>6. ASSUME Advance PROVE AttemptOK(a)'
  <2>1. RecordShape(a)' /\ ReportFits(a)'
    BY <1>1, <1>3 DEF AttemptOK, RecordShape, ReportFits, Terminal
  <2>2. ApprovalsFit(a)'
    BY <1>1, <1>3 DEF AttemptOK, ApprovalsFit, Approved
  <2> QED
    BY <1>6, <2>1, <2>2, UnblockedStays DEF AttemptOK
<1> QED
  BY <1>4, <1>5, <1>6, NoHolder, OneRecordStep

LEMMA RecordsStart ==
  ASSUME Sound, NEW r \in Reconcilers, Start(r) PROVE RecordsInv'
<1>1. UNCHANGED <<runs, wakes, cliWake, approval>> /\ pc[r] = "start" /\ pc[r] \in Engaged
  BY DEF Start, outside, history, Engaged
<1>2. cur[r] \in Attempts
  BY <1>1 DEF Sound, TypeInv, PrivateInv, CurOK, Engaged
<1>3. CASE Skip(r) /\ UNCHANGED <<task, events>>
  BY <1>1, <1>3, SkipPlace, NoRecordStep
<1>4. CASE ~ (Skip(r) /\ UNCHANGED <<task, events>>)
  <2>1. PICK phase \in {"claim", "recover"}, what \in {"none", "pre_commit", "post_commit"} :
          /\ Goto(r, phase) /\ held' = [held EXCEPT ![r] = what]
          /\ UNCHANGED <<todo, snap, sched, cur>>
    BY <1>4 DEF Start
  <2>2. (Advance => PlaceOK(r)') /\ \A q \in Reconcilers \ {r} : Still(q)
    BY <1>1, <2>1, OnPlace
  <2>3. CASE UNCHANGED <<task, events>>
    BY <1>1, <2>2, <2>3, NoRecordStep
  <2>4. CASE ~ UNCHANGED <<task, events>>
    <3>1. /\ StartAccepted(task[cur[r]], snap[r][cur[r]])
          /\ task' = [task EXCEPT ![cur[r]] = Started(@, FALSE)]
          /\ events' = events \cup {<<cur[r], "Started">>}
      BY <1>4, <2>4 DEF Start
    <3>2. AttemptOK(cur[r]) /\ PlaceOK(r) /\ task[cur[r]] \in TaskRecord
      BY <1>2 DEF Sound, RecordsInv, TypeInv, StoreType
    <3>3. task[cur[r]].status = "PENDING"
      BY <1>1, <3>1, <3>2 DEF StartAccepted, UpdateAccepted, AttemptOK, RecordShape, PlaceOK, HandOK, TaskRecord,
                        Statuses, Terminal
    <3> QED
      BY <1>1, <1>2, <2>2, <3>1, <3>3, StartKeeps
  <2> QED
    BY <2>3, <2>4
<1> QED
  BY <1>3, <1>4

LEMMA RecordsRecover ==
  ASSUME Sound, NEW r \in Reconcilers, Recover(r) PROVE RecordsInv'
<1>1. UNCHANGED <<runs, wakes, cliWake>> /\ pc[r] = "recover" /\ pc[r] \in Engaged
  BY DEF Recover, outside, history, Engaged
<1>2. cur[r] \in Attempts
  BY <1>1 DEF Sound, TypeInv, PrivateInv, CurOK, Engaged
<1>3. CASE LeaveRecoverable(r)
  BY <1>1, <1>3, LeaveRecords
<1>4. CASE task[cur[r]].status = "PENDING"
  <2>1. PICK phase \in {"claim", "recover"}, what \in {"none", "post_commit"} :
          /\ Goto(r, phase) /\ held' = [held EXCEPT ![r] = what]
          /\ UNCHANGED <<todo, snap, sched, cur, approval>>
          /\ task' = [task EXCEPT ![cur[r]] = Started(@, TRUE)]
          /\ events' = events \cup {<<cur[r], "Started">>}
    <3>1. pc = [pc EXCEPT ![r] = "recover"]
      BY <1>1 DEF Sound, TypeInv, PrivateInv, PrivateType
    <3> QED
      BY <1>4, <3>1 DEF Recover, Goto
  <2>2. (Advance => PlaceOK(r)') /\ \A q \in Reconcilers \ {r} : Still(q)
    BY <1>1, <2>1, OnPlace
  <2> QED
    BY <1>1, <1>2, <1>4, <2>1, <2>2, StartKeeps
<1>5. CASE task[cur[r]].status # "PENDING" /\ ~ LeaveRecoverable(r)
  <2>1. /\ task' = [task EXCEPT ![cur[r]].diagnosed = TRUE]
        /\ Goto(r, "claim") /\ held' = [held EXCEPT ![r] = "none"]
        /\ UNCHANGED <<todo, snap, sched, cur, approval, events>>
    BY <1>5 DEF Recover
  <2>2. (Advance => PlaceOK(r)') /\ \A q \in Reconcilers \ {r} : Still(q)
    BY <1>1, <2>1, OnPlace
  <2> QED
    BY <1>1, <1>2, <2>1, <2>2, DiagnosedKeeps
<1> QED
  BY <1>3, <1>4, <1>5

LEMMA RecordsClaim ==
  ASSUME Sound, NEW r \in Reconcilers, Claim(r) PROVE RecordsInv'
<1>1. UNCHANGED <<runs, wakes, cliWake, approval, events>> /\ pc[r] = "claim"
  BY DEF Claim, outside, history
<1>2. CASE Skip(r) /\ UNCHANGED task
  BY <1>1, <1>2, SkipPlace, NoRecordStep
<1>3. CASE ~ (Skip(r) /\ UNCHANGED task)
  <2>0. PICK a \in Attempts : a = cur[r]
    BY <1>1 DEF Sound, TypeInv, PrivateInv, CurOK, Engaged
  <2>1. /\ task[a].status = "RUNNING" /\ task[a].dispatch = "PENDING"
        /\ task' = [task EXCEPT ![a].dispatch = "CLAIMED", ![a].owner = r]
        /\ snap' = [snap EXCEPT ![r][a] = task'[a]]
        /\ Goto(r, "execute")
        /\ UNCHANGED <<todo, sched, cur, held>>
    BY <1>3, <2>0 DEF Claim, ClaimAccepted
  <2>2. /\ a \in Attempts /\ AttemptOK(a) /\ PlaceOK(r)
        /\ task \in [Attempts -> TaskRecord] /\ task[a] \in TaskRecord
        /\ snap[r] \in [Attempts -> TaskRecord]
    BY DEF Sound, RecordsInv, TypeInv, PrivateInv, PrivateType, StoreType
  <2>3. /\ task'[a] = [task[a] EXCEPT !.dispatch = "CLAIMED", !.owner = r] /\ Alone(a)
        /\ snap'[r] = [snap[r] EXCEPT ![a] = task'[a]]
        /\ pc'[r] = "execute" /\ \A q \in Reconcilers \ {r} : Still(q)
    BY <1>1, <2>1, <2>2 DEF Alone, Goto, Sound, TypeInv, PrivateInv, PrivateType, Still
  <2>4. /\ task'[a].status = "RUNNING" /\ task'[a].dispatch = "CLAIMED"
        /\ task'[a].evidence = "none" /\ runs[a] = wakes[a]
        /\ task'[a].approvalId = task[a].approvalId /\ task'[a].expected = task[a].expected
    BY <2>1, <2>2, <2>3 DEF TaskRecord, AttemptOK, RecordShape
  <2>5. \A b \in Attempts \ {a} : SameAttempt(b)
    BY <1>1, <2>3, AloneSame
  <2>6. AdvanceAt(a)
    BY <1>1, <2>1, <2>2, <2>4 DEF AdvanceAt, Terminal, AttemptOK, RecordShape
  <2>7. ASSUME Advance PROVE AttemptOK(a)'
    <3>1. RecordShape(a)' /\ ReportFits(a)'
      BY <1>1, <2>1, <2>2, <2>4 DEF AttemptOK, RecordShape, ReportFits, Terminal
    <3>2. ApprovalsFit(a)'
      BY <1>1, <2>1, <2>2, <2>4 DEF AttemptOK, ApprovalsFit, Approved
    <3> QED
      BY <2>1, <2>2, <2>7, <3>1, <3>2, UnblockedStays DEF AttemptOK
  <2>8. Approved(a, task[a].approvalId) /\ Approved(a, task[a].expected)
    BY <2>1, <2>2 DEF AttemptOK, ApprovalsFit
  <2>9. ASSUME Advance PROVE PlaceOK(r)'
    <3>1. HandOK(r)'
      <4>1. cur'[r] = a /\ snap'[r][a] = task'[a]
        BY <2>0, <2>1, <2>2, <2>3
      <4>2. runs'[a] = wakes'[a]
        BY <1>1, <2>4
      <4>3. snap'[r][a].approvalId # 0 => approval'[a][snap'[r][a].approvalId] = "APPROVED"
        BY <1>1, <2>4, <2>8, <4>1 DEF Approved
      <4> QED
        BY <2>3, <2>4, <4>1, <4>2, <4>3 DEF HandOK, Approved
    <3>2. TodoOK(r)'
      BY <2>1, <2>2, <2>3, <2>9 DEF PlaceOK, TodoOK, Advance, AdvanceAt, Sound, TypeInv, PrivateInv, PrivateType
    <3>3. ASSUME NEW b \in Attempts
          PROVE  /\ snap'[r][b].status # "NONE" => task'[b].status # "NONE"
                 /\ snap'[r][b].evidence # "none" => task'[b].evidence = snap'[r][b].evidence
                 /\ snap'[r][b].status \in Terminal =>
                      task'[b].status = snap'[r][b].status /\ task'[b].failure = snap'[r][b].failure
                 /\ Approved(b, snap'[r][b].expected)
      <4>1. CASE b = a
        BY <2>2, <2>3, <2>4, <2>8, <4>1
      <4>2. CASE b # a
        BY <2>2, <2>3, <4>2 DEF PlaceOK, SnapOK, Alone
      <4> QED
        BY <4>1, <4>2
    <3>4. SnapOK(r)'
      BY <1>1, <3>3 DEF SnapOK, Approved
    <3> QED
      BY <3>1, <3>2, <3>4 DEF PlaceOK
  <2>10. \A q \in Reconcilers : pc[q] \in Holding => cur[q] # a
    BY <2>1, <2>2, NoHolder
  <2> QED
    BY <1>1, <2>2, <2>3, <2>5, <2>6, <2>7, <2>9, <2>10, OneRecordStep
<1> QED
  BY <1>2, <1>3

LEMMA RecordsExecute ==
  ASSUME Sound, NEW r \in Reconcilers, Execute(r) PROVE RecordsInv'
<1>0. PICK a \in Attempts : a = cur[r]
  BY DEF Sound, TypeInv, PrivateInv, CurOK, Engaged, Holding, Execute
<1>1. /\ UNCHANGED <<task, approval, events, wakes, cliWake, snap, sched, cur>>
      /\ pc[r] = "execute" /\ runs' = [runs EXCEPT ![a] = @ + 1]
  BY <1>0 DEF Execute, outside, store
<1>2. \/ Goto(r, "evidence") /\ UNCHANGED todo
      \/ /\ Goto(r, "wait")
         /\ \E g \in 1 .. Gates[a[1]] : todo' = [todo EXCEPT ![r] = {<<a, g>>}]
  BY <1>0 DEF Execute
<1>3. \E what : held' = [held EXCEPT ![r] = what]
  <2>1. held = [held EXCEPT ![r] = held[r]]
    BY DEF Sound, TypeInv, PrivateInv, PrivateType
  <2> QED
    BY <2>1 DEF Execute
<1>4. /\ a \in Attempts /\ AttemptOK(a) /\ PlaceOK(r) /\ task[a].dispatch = "CLAIMED"
      /\ \A q \in Reconcilers \ {r} : pc[q] \in Holding => cur[q] # a
  BY <1>0, <1>1, OneHolder DEF Sound, RecordsInv, Holding
<1>5. task[a].status = "RUNNING" /\ task[a].evidence = "none" /\ runs[a] = wakes[a]
  BY <1>0, <1>1, <1>4 DEF PlaceOK, HandOK
<1>6. Approved(a, snap[r][a].approvalId)
  BY <1>0, <1>1, <1>4 DEF PlaceOK, HandOK, Holding
<1>7. runs'[a] = runs[a] + 1 /\ \A b \in Attempts \ {a} : runs'[b] = runs[b]
  BY <1>1, <1>4 DEF Sound, TypeInv, RestType
<1>8. (\A q \in Reconcilers \ {r} : Still(q)) /\ pc'[r] \in {"evidence", "wait"}
  BY <1>1, <1>2, <1>3 DEF Goto, Sound, TypeInv, PrivateInv, PrivateType, Still
<1>9. pc'[r] = "wait" => \E g \in AllGates : todo'[r] = {<<a, g>>}
  <2>1. 1 .. Gates[a[1]] \subseteq AllGates
    BY <1>4, GatesArePositive DEF Attempts
  <2> QED
    BY <1>2, <2>1 DEF Goto, Sound, TypeInv, PrivateInv, PrivateType
<1>10. \A b \in Attempts \ {a} : SameAttempt(b)
  BY <1>1, <1>7 DEF SameAttempt
<1>11. AdvanceAt(a)
  BY <1>1 DEF AdvanceAt
<1>12. ASSUME Advance PROVE AttemptOK(a)'
  <2>1. RecordShape(a)' /\ ReportFits(a)'
    BY <1>1, <1>4, <1>5 DEF AttemptOK, RecordShape, ReportFits, Terminal
  <2>2. ApprovalsFit(a)'
    BY <1>1, <1>4 DEF AttemptOK, ApprovalsFit, Approved
  <2> QED
    BY <1>4, <1>5, <1>12, <2>1, <2>2, UnblockedStays DEF AttemptOK
<1>13. ASSUME Advance PROVE PlaceOK(r)'
  <2>1. HandOK(r)'
    <3>1. cur'[r] = a /\ snap'[r] = snap[r]
      BY <1>0, <1>1
    <3> QED
      BY <1>1, <1>5, <1>6, <1>7, <1>8, <3>1 DEF HandOK, Approved, Holding, Engaged
  <2>2. TodoOK(r)'
    <3>1. cur'[r] = a
      BY <1>0, <1>1
    <3> QED
      BY <1>1, <1>4, <1>8, <1>9, <3>1 DEF PlaceOK, TodoOK
  <2> QED
    BY <1>1, <1>13, <2>1, <2>2, SnapStays DEF PlaceOK
<1> QED
  BY <1>1, <1>4, <1>8, <1>10, <1>11, <1>12, <1>13, OneRecordStep

\* The report becomes durable.
LEMMA EvidenceKeeps ==
  ASSUME Sound, NEW r \in Reconcilers, pc[r] \in {"evidence", "reevidence"},
         task[cur[r]].status = "RUNNING", NEW rec,
         rec.evidence = held[r], rec.status = "RUNNING", rec.dispatch = task[cur[r]].dispatch,
         rec.approvalId = task[cur[r]].approvalId, rec.expected = task[cur[r]].expected,
         task' = [task EXCEPT ![cur[r]] = rec],
         pc' \in {[pc EXCEPT ![r] = "terminal"], [pc EXCEPT ![r] = "reevidence"]},
         UNCHANGED <<approval, events, runs, wakes, cliWake, todo, snap, sched, cur, held>>
  PROVE  RecordsInv'
<1>0. PICK a \in Attempts : a = cur[r]
  BY OneHolder DEF Holding
<1>1. /\ a \in Attempts /\ AttemptOK(a) /\ PlaceOK(r) /\ task[a].dispatch = "CLAIMED"
      /\ \A q \in Reconcilers \ {r} : pc[q] \in Holding => cur[q] # a
      /\ task \in [Attempts -> TaskRecord]
  BY <1>0, OneHolder DEF Sound, RecordsInv, Holding, TypeInv, StoreType
<1>2. /\ runs[a] = wakes[a] + 1 /\ task[a].evidence \in {"none", held[r]}
      /\ Approved(a, snap[r][a].approvalId) /\ held[r] # "none"
  BY <1>0, <1>1 DEF PlaceOK, HandOK, Holding, Sound, TypeInv, PrivateInv, HeldOK, Outcomes
<1>3. cur'[r] = a /\ snap'[r] = snap[r] /\ held'[r] = held[r] /\ sched'[r] = sched[r]
  BY <1>0
<1>4. task[a].status = "RUNNING" /\ rec.dispatch = task[a].dispatch
      /\ rec.approvalId = task[a].approvalId /\ rec.expected = task[a].expected
      /\ task' = [task EXCEPT ![a] = rec]
  BY <1>0
<1>5. task'[a] = rec /\ Alone(a)
  BY <1>1, <1>4 DEF Alone
<1>6. pc'[r] \in {"terminal", "reevidence"} /\ \A q \in Reconcilers \ {r} : Still(q)
  BY DEF Sound, TypeInv, PrivateInv, PrivateType, Still
<1>7. \A b \in Attempts \ {a} : SameAttempt(b)
  BY <1>5, AloneSame
<1>8. AdvanceAt(a)
  BY <1>2, <1>4, <1>5 DEF AdvanceAt, Terminal
<1>9. ASSUME Advance PROVE AttemptOK(a)'
  <2>1. RecordShape(a)' /\ ReportFits(a)'
    BY <1>1, <1>2, <1>4, <1>5 DEF AttemptOK, RecordShape, ReportFits, Terminal
  <2>2. ApprovalsFit(a)'
    BY <1>1, <1>4, <1>5 DEF AttemptOK, ApprovalsFit, Approved
  <2> QED
    BY <1>1, <1>4, <1>9, <2>1, <2>2, UnblockedStays DEF AttemptOK
<1>10. ASSUME Advance PROVE PlaceOK(r)'
  <2>1. HandOK(r)'
    BY <1>2, <1>3, <1>5, <1>6 DEF HandOK, Approved, Holding, Engaged
  <2>2. TodoOK(r)'
    BY <1>1, <1>3, <1>6, <1>10 DEF PlaceOK, TodoOK, Advance, AdvanceAt, Sound, TypeInv, PrivateInv, PrivateType
  <2> QED
    BY <1>10, <2>1, <2>2, SnapStays DEF PlaceOK
<1> QED
  BY <1>1, <1>6, <1>7, <1>8, <1>9, <1>10, OneRecordStep

LEMMA RecordsPersistEvidence ==
  ASSUME Sound, NEW r \in Reconcilers, PersistEvidence(r) PROVE RecordsInv'
<1> DEFINE a == cur[r]
           rec == [task[a] EXCEPT !.evidence = held[r]]
<1>1. UNCHANGED <<runs, wakes, cliWake>> /\ pc[r] = "evidence" /\ pc[r] \in Holding
  BY DEF PersistEvidence, outside, history, Holding
<1>2. CASE LeaveRecoverable(r)
  BY <1>1, <1>2, LeaveRecords
<1>3. CASE ~ LeaveRecoverable(r)
  <2>1. /\ task[a].status = "RUNNING"
        /\ \/ Goto(r, "terminal") /\ task' = [task EXCEPT ![a].evidence = held[r]]
           \/ Goto(r, "reevidence") /\ task' = [task EXCEPT ![a].evidence = held[r]]
           \/ Goto(r, "reevidence") /\ UNCHANGED task
        /\ UNCHANGED <<todo, snap, sched, cur, held, approval, events>>
    BY <1>3 DEF PersistEvidence, UpdateAccepted
  <2>2. a \in Attempts /\ task[a] \in TaskRecord /\ task \in [Attempts -> TaskRecord] /\ PlaceOK(r)
    BY <1>1, OneHolder DEF Sound, TypeInv, StoreType, RecordsInv
  <2>3. CASE UNCHANGED task
    <3>1. Goto(r, "reevidence") /\ task[a].evidence = "none" /\ runs[a] = wakes[a] + 1
          /\ Approved(a, snap[r][a].approvalId)
      <4>1. task[a].evidence = "none" /\ held[r] # "none" /\ runs[a] = wakes[a] + 1
            /\ Approved(a, snap[r][a].approvalId)
        BY <1>1, <2>2 DEF PlaceOK, HandOK, Holding, Sound, TypeInv, PrivateInv, HeldOK, Outcomes
      <4>2. task' # [task EXCEPT ![a].evidence = held[r]]
        BY <2>2, <2>3, <4>1 DEF TaskRecord
      <4> QED
        BY <2>1, <4>1, <4>2
    <3>2. pc'[r] = "reevidence" /\ \A q \in Reconcilers \ {r} : Still(q)
      BY <2>1, <3>1 DEF Goto, Sound, TypeInv, PrivateInv, PrivateType, Still
    <3>3. ASSUME Advance PROVE PlaceOK(r)'
      <4>1. HandOK(r)'
        BY <1>1, <2>1, <2>3, <3>1, <3>2 DEF HandOK, Approved, Holding, Engaged
      <4>2. TodoOK(r)'
        BY <2>1, <2>2, <2>3, <3>2 DEF PlaceOK, TodoOK
      <4> QED
        BY <2>1, <3>3, <4>1, <4>2, SnapStays DEF PlaceOK
    <3> QED
      BY <1>1, <2>1, <2>3, <3>2, <3>3, NoRecordStep
  <2>4. CASE task' = [task EXCEPT ![a].evidence = held[r]] /\ (Goto(r, "terminal") \/ Goto(r, "reevidence"))
    <3>1. /\ rec.evidence = held[r] /\ rec.status = "RUNNING" /\ rec.dispatch = task[a].dispatch
          /\ rec.approvalId = task[a].approvalId /\ rec.expected = task[a].expected
      BY <2>1, <2>2 DEF TaskRecord
    <3>2. task' = [task EXCEPT ![a] = rec]
      BY <2>4
    <3> QED
      BY <1>1, <2>1, <2>4, <3>1, <3>2, EvidenceKeeps DEF Goto
  <2> QED
    BY <2>1, <2>3, <2>4
<1> QED
  BY <1>2, <1>3

LEMMA RecordsRetryEvidence ==
  ASSUME Sound, NEW r \in Reconcilers, RetryEvidence(r) PROVE RecordsInv'
<1> DEFINE a == cur[r]
           rec == [task[a] EXCEPT !.evidence = held[r], !.diagnosed = TRUE]
<1>1. UNCHANGED <<runs, wakes, cliWake>> /\ pc[r] = "reevidence" /\ pc[r] \in Holding
  BY DEF RetryEvidence, outside, history, Holding
<1>2. CASE LeaveRecoverable(r)
  BY <1>1, <1>2, LeaveRecords
<1>3. CASE ~ LeaveRecoverable(r)
  <2>1. /\ task[a].status = "RUNNING" /\ Goto(r, "terminal")
        /\ task' = [task EXCEPT ![a].evidence = held[r], ![a].diagnosed = TRUE]
        /\ UNCHANGED <<todo, snap, sched, cur, held, approval, events>>
    BY <1>3 DEF RetryEvidence, UpdateAccepted
  <2>2. a \in Attempts /\ task[a] \in TaskRecord /\ task \in [Attempts -> TaskRecord]
    BY <1>1, OneHolder DEF Sound, TypeInv, StoreType
  <2>3. /\ rec.evidence = held[r] /\ rec.status = "RUNNING" /\ rec.dispatch = task[a].dispatch
        /\ rec.approvalId = task[a].approvalId /\ rec.expected = task[a].expected
    BY <2>1, <2>2 DEF TaskRecord
  <2>4. task' = [task EXCEPT ![a] = rec]
    BY <2>1, <2>2
  <2> QED
    BY <1>1, <2>1, <2>3, <2>4, EvidenceKeeps DEF Goto
<1> QED
  BY <1>2, <1>3

LEMMA RecordsCommitTerminal ==
  ASSUME Sound, NEW r \in Reconcilers, CommitTerminal(r) PROVE RecordsInv'
<1>1. UNCHANGED <<runs, wakes, cliWake>> /\ pc[r] = "terminal" /\ pc[r] \in Holding
  BY DEF CommitTerminal, outside, history, Holding
<1>2. CASE LeaveRecoverable(r)
  BY <1>1, <1>2, LeaveRecords
<1>3. CASE ~ LeaveRecoverable(r)
  <2>1. /\ task[cur[r]].status = "RUNNING" /\ Skip(r)
        /\ task' = [task EXCEPT ![cur[r]] = Finished(@, held[r])]
        /\ events' = events \cup {<<cur[r], TerminalEvent(held[r])>>}
        /\ UNCHANGED approval
    BY <1>3 DEF CommitTerminal, UpdateAccepted
  <2>2. cur[r] \in Attempts /\ task[cur[r]].evidence = held[r] /\ held[r] \in Outcomes
    BY <1>1, OneHolder DEF Sound, RecordsInv, PlaceOK, HandOK, TypeInv, PrivateInv, HeldOK
  <2> QED
    BY <1>1, <2>1, <2>2, SkipPlace, FinishKeeps
<1> QED
  BY <1>2, <1>3

LEMMA RecordsCommitWait ==
  ASSUME Sound, NEW r \in Reconcilers, CommitWait(r) PROVE RecordsInv'
<1>0. UNCHANGED <<outside, bounds, history>> /\ pc[r] = "wait"
  BY DEF CommitWait
<1>1. UNCHANGED <<runs, wakes, cliWake>> /\ pc[r] = "wait" /\ pc[r] \in Holding
  BY <1>0 DEF outside, history, Holding
<1>2. CASE LeaveRecoverable(r)
  BY <1>1, <1>2, LeaveRecords
<1>3. CASE ~ LeaveRecoverable(r)
  <2>1. PICK a \in Attempts : a = cur[r]
    BY <1>1, OneHolder
  <2>2. PICK g \in AllGates : todo[r] = {<<a, g>>}
    BY <1>1, <2>1 DEF Sound, RecordsInv, PlaceOK, TodoOK
  <2> DEFINE gate == CHOOSE h \in AllGates : <<cur[r], h>> \in todo[r]
  <2>3. gate \in AllGates
    BY <1>1 DEF Sound, TypeInv, PrivateInv, WaitOK
  <2>20. /\ task[cur[r]].status = "RUNNING"
         /\ task' = [task EXCEPT ![cur[r]].status = "AWAITING_APPROVAL", ![cur[r]].intent = gate,
                                 ![cur[r]].expected = snap[r][cur[r]].approvalId]
         /\ events' = events \cup {<<cur[r], "AwaitingApproval">>}
         /\ Goto(r, "request")
         /\ UNCHANGED <<todo, snap, sched, cur, held, approval>>
    BY <1>3 DEF CommitWait, UpdateAccepted
  <2> HIDE DEF gate
  <2>4. PICK h \in AllGates :
          /\ task[a].status = "RUNNING"
          /\ task' = [task EXCEPT ![a].status = "AWAITING_APPROVAL", ![a].intent = h,
                                  ![a].expected = snap[r][a].approvalId]
          /\ events' = events \cup {<<a, "AwaitingApproval">>}
          /\ Goto(r, "request")
          /\ UNCHANGED <<todo, snap, sched, cur, held, approval>>
    BY <2>1, <2>3, <2>20
  <2>5. /\ AttemptOK(a) /\ PlaceOK(r) /\ task[a] \in TaskRecord /\ task \in [Attempts -> TaskRecord]
        /\ \A q \in Reconcilers \ {r} : pc[q] \in Holding => cur[q] # a
        /\ task[a].dispatch = "CLAIMED"
    BY <1>1, <2>1, OneHolder DEF Sound, RecordsInv, TypeInv, StoreType
  <2>6. /\ task[a].evidence = "none" /\ runs[a] = wakes[a] + 1
        /\ Approved(a, snap[r][a].approvalId)
    BY <1>1, <2>1, <2>5 DEF PlaceOK, HandOK, Holding
  <2>7. /\ task'[a] = [task[a] EXCEPT !.status = "AWAITING_APPROVAL", !.intent = h,
                                      !.expected = snap[r][a].approvalId]
        /\ Alone(a)
    BY <2>4, <2>5 DEF Alone
  <2>8. /\ task'[a].status = "AWAITING_APPROVAL" /\ task'[a].dispatch = "CLAIMED"
        /\ task'[a].evidence = "none" /\ task'[a].expected = snap[r][a].approvalId
    BY <2>5, <2>6, <2>7 DEF TaskRecord
  <2>9. pc'[r] = "request" /\ \A q \in Reconcilers \ {r} : Still(q)
    BY <2>4 DEF Goto, Sound, TypeInv, PrivateInv, PrivateType, Still
  <2>10. \A b \in Attempts \ {a} : SameAttempt(b)
    BY <1>1, <2>4, <2>7, AloneSame DEF EventTypes
  <2>11. AdvanceAt(a)
    BY <2>4, <2>6, <2>8 DEF AdvanceAt, Terminal
  <2>12. ASSUME Advance PROVE AttemptOK(a)'
    <3>1. RecordShape(a)' /\ ReportFits(a)'
      BY <1>1, <2>4, <2>5, <2>6, <2>8 DEF AttemptOK, RecordShape, ReportFits, Terminal
    <3>2. \A k \in AllGates : approval[a][k] \notin {"PENDING", "REJECTED"}
      BY <2>4, <2>5 DEF AttemptOK, ApprovalsFit
    <3>3. ApprovalsFit(a)'
      BY <2>4, <2>6, <2>8, <3>2 DEF ApprovalsFit, Approved
    <3> QED
      BY <2>4, <2>5, <2>12, <3>1, <3>3, UnblockedStays DEF AttemptOK
  <2>13. ASSUME Advance PROVE PlaceOK(r)'
    <3>1. cur'[r] = a /\ snap'[r] = snap[r] /\ todo'[r] = {<<a, g>>} /\ sched'[r] = sched[r]
      BY <2>1, <2>2, <2>4
    <3>2. snap[r][a].approvalId # 0 => approval'[a][snap[r][a].approvalId] = "APPROVED"
      BY <2>4, <2>6 DEF Approved
    <3>3. HandOK(r)'
      BY <2>8, <2>9, <3>1, <3>2 DEF HandOK, Approved, Holding
    <3>4. TodoOK(r)'
      BY <2>5, <2>9, <2>13, <3>1 DEF PlaceOK, TodoOK, Advance, AdvanceAt, Sound, TypeInv,
                                     PrivateInv, PrivateType
    <3> QED
      BY <2>4, <2>13, <3>3, <3>4, SnapStays DEF PlaceOK
  <2> QED
    BY <1>1, <2>5, <2>9, <2>10, <2>11, <2>12, <2>13, OneRecordStep
<1> QED
  BY <1>2, <1>3

LEMMA RecordsDecide ==
  ASSUME Sound, NEW a \in Attempts, NEW g \in AllGates, NEW d \in {"APPROVED", "REJECTED"},
         Decide(a, g, d)
  PROVE  RecordsInv'
<1>1. /\ approval[a][g] = "PENDING"
      /\ approval' = [approval EXCEPT ![a][g] = d]
      /\ cliWake' \subseteq cliWake \cup {<<a, g>>}
      /\ d # "APPROVED" => cliWake' = cliWake
      /\ UNCHANGED <<task, events, runs, wakes, pc, todo, snap, sched, cur, held>>
  BY DEF Decide, private, history
<1>2. AttemptOK(a)
  BY DEF Sound, RecordsInv
<1>3. /\ \A b \in Attempts \ {a} : approval'[b] = approval[b]
      /\ \A h \in AllGates : approval'[a][h] = IF h = g THEN d ELSE approval[a][h]
  BY <1>1 DEF Sound, TypeInv, StoreType
<1>4. Alone(a)
  BY <1>1, <1>3 DEF Alone
<1>5. \A b \in Attempts \ {a} : SameAttempt(b)
  BY <1>1, <1>4, AloneSame
<1>6. AdvanceAt(a)
  BY <1>1, <1>3 DEF AdvanceAt
<1>7. task[a].status = "AWAITING_APPROVAL" /\ task[a].approvalId = g
  BY <1>1, <1>2 DEF AttemptOK, ApprovalsFit
<1>8. ASSUME Advance PROVE AttemptOK(a)'
  <2>1. RecordShape(a)' /\ ReportFits(a)'
    BY <1>1, <1>2 DEF AttemptOK, RecordShape, ReportFits
  <2>2. task[a].expected # 0 => approval'[a][task[a].expected] = "APPROVED"
    <3>1. task[a].expected \in Binding
      BY DEF Sound, TypeInv, StoreType, TaskRecord
    <3> QED
      BY <1>1, <1>2, <1>3, <3>1, GatesArePositive DEF AttemptOK, ApprovalsFit, Approved
  <2>3. ApprovalsFit(a)'
    BY <1>1, <1>2, <1>3, <1>7, <2>2 DEF AttemptOK, ApprovalsFit, Approved
  <2> QED
    BY <1>7, <1>8, <2>1, <2>3, UnblockedStays DEF AttemptOK
<1>9. Advance => WakesOK'
  <2>1. ASSUME NEW p \in cliWake, Advance PROVE approval'[p[1]][p[2]] = "APPROVED"
    BY <2>1 DEF Sound, RecordsInv, WakesOK, TypeInv, RestType, Advance, AdvanceAt
  <2> QED
    BY <1>1, <1>3, <2>1 DEF WakesOK
<1>10. Advance
  BY <1>5, <1>6 DEF Advance, AdvanceAt, SameAttempt
<1>11. \A q \in Reconcilers \ {None} : Still(q)
  BY <1>1 DEF Still
<1> QED
  BY <1>1, <1>5, <1>6, <1>8, <1>9, <1>10, <1>11, NoneAssumption, OneRecordStep

LEMMA RecordsDecideWake ==
  ASSUME Sound, NEW a \in Attempts, NEW g \in AllGates, DecideWake(a, g) PROVE RecordsInv'
<1>1. /\ UNCHANGED <<approval, events, runs, pc, todo, snap, sched, cur, held>>
      /\ cliWake' \subseteq cliWake /\ WakeTask(a, g) /\ <<a, g>> \in cliWake
  BY DEF DecideWake, private
<1>2. approval[a][g] = "APPROVED"
  BY <1>1 DEF Sound, RecordsInv, WakesOK
<1>3. \A q \in Reconcilers \ {None} : Still(q)
  BY <1>1 DEF Still
<1> QED
  BY <1>1, <1>2, <1>3, NoneAssumption, WakeKeepsRecords

\* The steps outside: what they change is the operator's list and the clock.
LEMMA RecordsOutside ==
  ASSUME Sound, UNCHANGED <<store, private, history>>,
         \A p \in cliWake' : p \in cliWake \/ approval[p[1]][p[2]] = "APPROVED"
  PROVE  RecordsInv'
<1>1. UNCHANGED <<task, approval, events, runs, wakes, pc, todo, snap, sched, cur, held>>
  BY DEF store, private, history
<1>2. Advance
  BY <1>1 DEF Advance, AdvanceAt
<1>3. \A a \in Attempts : SameAttempt(a)
  BY <1>1 DEF SameAttempt
<1>4. \A q \in Reconcilers : Rival(q)
  BY <1>1 DEF Rival, Still
<1>5. WakesOK'
  BY <1>1 DEF Sound, RecordsInv, WakesOK
<1> QED
  BY <1>2, <1>3, <1>4, <1>5, RecordsKept

LEMMA RecordsOperator ==
  ASSUME Sound, Operator PROVE RecordsInv'
<1>1. PICK a \in Attempts, g \in AllGates :
        \/ Decide(a, g, "APPROVED") \/ Decide(a, g, "REJECTED")
        \/ RepeatDecision(a, g) \/ DecideWake(a, g) \/ DecideCrash(a, g)
  BY DEF Operator
<1>2. CASE Decide(a, g, "APPROVED") \/ Decide(a, g, "REJECTED")
  BY <1>2, RecordsDecide
<1>3. CASE RepeatDecision(a, g)
  BY <1>3, RecordsOutside DEF RepeatDecision
<1>4. CASE DecideWake(a, g)
  BY <1>4, RecordsDecideWake
<1>5. CASE DecideCrash(a, g)
  BY <1>5, RecordsOutside DEF DecideCrash
<1> QED
  BY <1>1, <1>2, <1>3, <1>4, <1>5

LEMMA RecordsInitial == Init => RecordsInv
<1> SUFFICES ASSUME Init PROVE RecordsInv
  OBVIOUS
<1>1. /\ \A a \in Attempts :
           /\ task[a].status = "NONE" /\ task[a].dispatch = "none" /\ task[a].evidence = "none"
           /\ task[a].approvalId = 0 /\ task[a].expected = 0
           /\ runs[a] = 0 /\ wakes[a] = 0
           /\ \A g \in AllGates : approval[a][g] = "NONE"
      /\ events = {} /\ cliWake = {}
      /\ \A r \in Reconcilers : pc[r] = "idle" /\ todo[r] = {} /\ snap[r] = NoSnap /\ sched[r] = {}
  BY DEF Init, NoSnap, NoRecord
<1>2. \A a \in Attempts : AttemptOK(a)
  BY <1>1 DEF AttemptOK, RecordShape, ReportFits, ApprovalsFit, Approved, Unblocked, Terminal
<1>3. \A r \in Reconcilers : PlaceOK(r)
  BY <1>1 DEF PlaceOK, HandOK, TodoOK, SnapOK, NoSnap, NoRecord, Approved, Engaged, Holding, Terminal
<1> QED
  BY <1>1, <1>2, <1>3 DEF RecordsInv, WakesOK

LEMMA RecordsStep == Sound /\ [Next]_vars => RecordsInv'
<1> SUFFICES ASSUME Sound, [Next]_vars PROVE RecordsInv'
  OBVIOUS
<1>1. ASSUME NEW r \in Reconcilers, Step(r) PROVE RecordsInv'
  <2>1. CASE BeginPass(r) \/ Recovery(r)
    BY <2>1, RecordsBeginPass, RecordsRecoverRequest, RecordsRecoverWakeup, RecordsFailRejected
    DEF Recovery
  <2>2. CASE Listing(r)
    BY <2>2, RecordsNextPhase, RecordsWaveCreated, RecordsAttach, RecordsEmitQueued,
       RecordsRepairMarker, RecordsEmitTerminal, RecordsCreate DEF Listing
  <2>3. CASE Dispatch(r)
    BY <2>3, RecordsTake, RecordsResume, RecordsStart, RecordsRecover, RecordsClaim DEF Dispatch
  <2>4. CASE Handling(r)
    BY <2>4, RecordsExecute, RecordsPersistEvidence, RecordsRetryEvidence, RecordsCommitTerminal,
       RecordsCommitWait, RecordsRequestApproval DEF Handling
  <2>5. CASE Ending(r)
    BY <2>5, RecordsEnding
  <2> QED
    BY <1>1, <2>1, <2>2, <2>3, <2>4, <2>5 DEF Step
<1>2. ASSUME NEW r \in Reconcilers, Crash(r) PROVE RecordsInv'
  BY <1>2, RecordsCrash
<1>3. CASE Operator
  BY <1>3, RecordsOperator
<1>4. CASE TimePasses
  BY <1>4, RecordsOutside DEF TimePasses
<1>5. CASE IdlePoll \/ UNCHANGED vars
  <2>1. UNCHANGED <<store, private, history, cliWake>>
    BY <1>5 DEF IdlePoll, vars, outside
  <2> QED
    BY <2>1, RecordsOutside
<1> QED
  BY <1>1, <1>2, <1>3, <1>4, <1>5 DEF Next

LEMMA SoundStep == Sound /\ [Next]_vars => Sound'
BY TypeStep, DispatchStep, RecordsStep DEF Sound

LEMMA AlwaysSound == Spec => []Sound
BY TypeInitial, DispatchInitial, RecordsInitial, SoundStep, PTL DEF Spec, Sound

\* What a handler reported, once it is durable, is what the attempt ends with,
\* whichever reconciler carries it from the evidence to the status; and a
\* terminal event is there only for an attempt that ended that way.
THEOREM ReportsKept == Spec => []ReportKept
<1>1. Sound => ReportKept
  <2>1. Sound => \A a \in Attempts : ReportFits(a)
    BY DEF Sound, RecordsInv, AttemptOK
  <2> QED
    BY <2>1 DEF ReportFits, ReportKept
<1> QED
  BY <1>1, AlwaysSound, PTL

\* An Approval that create_approval_request left PENDING is the one that its
\* waiting task is bound to, also after a stale reconciler has asked again.
THEOREM ApprovalsAwaited == Spec => []PendingApprovalIsAwaited
<1>1. Sound => PendingApprovalIsAwaited
  BY DEF Sound, RecordsInv, AttemptOK, ApprovalsFit, PendingApprovalIsAwaited
<1> QED
  BY <1>1, AlwaysSound, PTL

-----------------------------------------------------------------------------
(* What a step does to the attempts, as TaskAttempts looks at them.        *)

Lasting(b) ==
  /\ task'[b].status = task[b].status /\ task'[b].failure = task[b].failure
  /\ runs'[b] = runs[b] /\ wakes'[b] = wakes[b]

\* The status of attempt a goes from one to another; its counts stay.
Turns(a, from, to) ==
  /\ task[a].status = from /\ task'[a].status = to
  /\ runs'[a] = runs[a] /\ wakes'[a] = wakes[a]

Created(a) ==
  /\ Turns(a, "NONE", "PENDING")
  /\ DependenciesSucceeded(task, a[1]) /\ Follows(a)
  /\ \E r \in Reconcilers : pc[r] = "create" /\ <<a, 0>> \in todo[r]

Begun(a) == Turns(a, "PENDING", "RUNNING") /\ <<a, "Started">> \in events'

Ran(a) ==
  /\ task[a].status = "RUNNING" /\ task'[a].status = "RUNNING"
  /\ runs[a] = wakes[a] /\ runs'[a] = runs[a] + 1 /\ wakes'[a] = wakes[a]

Stops(a) ==
  /\ runs[a] # wakes[a]
  /\ \E o \in Outcomes :
       /\ Turns(a, "RUNNING", StatusOf(o)) /\ task'[a].failure = FailureOf(o)
       /\ \/ /\ <<a, TerminalEvent(o)>> \in events'
             /\ \E r \in Reconcilers : pc[r] = "terminal"
          \/ \E r \in Reconcilers : RepairMarker(r)

Waits(a) ==
  /\ runs[a] # wakes[a] /\ Turns(a, "RUNNING", "AWAITING_APPROVAL")
  /\ \E r \in Reconcilers : pc[r] = "wait" /\ cur[r] = a

Wakes(a) ==
  /\ task[a].status = "AWAITING_APPROVAL" /\ task'[a].status = "PENDING"
  /\ runs'[a] = runs[a] /\ wakes'[a] = wakes[a] + 1
  /\ \E g \in AllGates : approval[a][g] = "APPROVED"

Rejected(a) ==
  /\ Turns(a, "AWAITING_APPROVAL", "FAILED") /\ task'[a].failure = "policy"
  /\ <<a, "Failed">> \in events'
  /\ \E r \in Reconcilers : pc[r] = "rejects"

Moved(a) ==
  \/ Created(a) \/ Begun(a) \/ Ran(a) \/ Stops(a)
  \/ Waits(a) \/ Wakes(a) \/ Rejected(a)

OneMoves ==
  \/ \A b \in Attempts : Lasting(b)
  \/ \E a \in Attempts : Moved(a) /\ \A b \in Attempts \ {a} : Lasting(b)

\* Only the record of one attempt is written.
LEMMA OneWritten ==
  ASSUME TypeInv, NEW a \in Attempts, NEW rec, task' = [task EXCEPT ![a] = rec],
         UNCHANGED <<runs, wakes>>
  PROVE  /\ task'[a] = rec /\ \A b \in Attempts \ {a} : Lasting(b)
         /\ runs'[a] = runs[a] /\ wakes'[a] = wakes[a]
BY DEF TypeInv, StoreType, Lasting

\* A write that leaves status and failure alone is no move.
LEMMA NoMove ==
  ASSUME TypeInv, NEW a \in Attempts, NEW rec,
         rec.status = task[a].status, rec.failure = task[a].failure,
         task' = [task EXCEPT ![a] = rec], UNCHANGED <<runs, wakes>>
  PROVE  OneMoves
BY OneWritten DEF OneMoves, Lasting

LEMMA RestMoves ==
  ASSUME UNCHANGED <<task, runs, wakes>> PROVE OneMoves
BY DEF OneMoves, Lasting

\* A reconcile() that is left, by an error or a crash, writes nothing.
LEMMA LeaveMoves ==
  ASSUME NEW r, LeaveRecoverable(r) \/ LeaveValueError(r), UNCHANGED <<runs, wakes>>
  PROVE  OneMoves
BY RestMoves DEF LeaveRecoverable, LeaveValueError, store

LEMMA UnmovedMoves ==
  ASSUME TypeInv, NEW r \in Reconcilers,
         \/ BeginPass(r) \/ NextPhase(r) \/ WaveCreated(r) \/ Attach(r)
         \/ EmitQueued(r) \/ EmitTerminal(r) \/ Take(r) \/ Ending(r) \/ Crash(r)
  PROVE  OneMoves
<1>1. UNCHANGED <<task, runs, wakes>>
  BY DEF BeginPass, NextPhase, WaveCreated, Attach, EmitQueued, EmitTerminal, Take, Ending,
         EndPass, ReadOutcome, CommitOutcome, Settle, Crash, LeaveValueError,
         LeaveRecoverable, store, history
<1> QED
  BY <1>1, RestMoves

LEMMA BindMoves ==
  ASSUME TypeInv, NEW r \in Reconcilers, RecoverRequest(r) \/ RequestApproval(r)
  PROVE  OneMoves
<1>1. UNCHANGED <<runs, wakes>>
  BY DEF RecoverRequest, RequestApproval, history
<1>2. CASE LeaveRecoverable(r) \/ LeaveValueError(r)
  BY <1>1, <1>2, LeaveMoves
<1>3. CASE ~ (LeaveRecoverable(r) \/ LeaveValueError(r))
  <2>1. PICK p \in todo[r] : task' = [task EXCEPT ![p[1]].approvalId = p[2]]
    BY <1>3 DEF RecoverRequest, RequestApproval, Request, BindOutcome
  <2>2. p[1] \in Attempts
    BY DEF TypeInv, PrivateInv, PrivateType
  <2>3. task[p[1]] \in TaskRecord
    BY <2>2 DEF TypeInv, StoreType
  <2> DEFINE rec == [task[p[1]] EXCEPT !.approvalId = p[2]]
  <2>4. rec.status = task[p[1]].status /\ rec.failure = task[p[1]].failure
    BY <2>3 DEF TaskRecord
  <2>5. task' = [task EXCEPT ![p[1]] = rec]
    BY <2>1
  <2> HIDE DEF rec
  <2> QED
    BY <1>1, <2>2, <2>4, <2>5, NoMove
<1> QED
  BY <1>2, <1>3

LEMMA WakeMoves ==
  ASSUME TypeInv, NEW a \in Attempts, NEW g \in AllGates, approval[a][g] = "APPROVED",
         WakeTask(a, g), UNCHANGED runs
  PROVE  OneMoves
<1>1. task[a] \in TaskRecord /\ task \in [Attempts -> TaskRecord] /\ wakes \in [Attempts -> Nat]
  BY DEF TypeInv, StoreType, RestType
<1>2. CASE ~ WakeApplies(task[a], g)
  BY <1>2, RestMoves DEF WakeTask
<1>3. CASE WakeApplies(task[a], g)
  <2>1. /\ task[a].status \in {"AWAITING_APPROVAL", "PENDING"}
        /\ task' = [task EXCEPT ![a] = Woken(task[a])]
        /\ wakes' = IF task[a].status = "AWAITING_APPROVAL"
                    THEN [wakes EXCEPT ![a] = @ + 1] ELSE wakes
    BY <1>3 DEF WakeTask, WakeApplies
  <2>2. Woken(task[a]).status = "PENDING" /\ Woken(task[a]).failure = task[a].failure
    BY <1>1 DEF Woken, TaskRecord
  <2>3. \A b \in Attempts \ {a} : Lasting(b)
    BY <1>1, <2>1 DEF Lasting
  <2>4. Lasting(a) \/ Wakes(a)
    BY <1>1, <2>1, <2>2 DEF Lasting, Wakes
  <2> QED
    BY <2>3, <2>4 DEF OneMoves, Moved
<1> QED
  BY <1>2, <1>3

LEMMA WakeupMoves ==
  ASSUME Sound, NEW r \in Reconcilers, RecoverWakeup(r) PROVE OneMoves
<1>1. PICK p \in todo[r] : WakeTask(p[1], p[2])
  BY DEF RecoverWakeup
<1>2. p[1] \in Attempts /\ UNCHANGED runs /\ pc[r] = "wakeups" /\ TodoOK(r)
  BY DEF RecoverWakeup, Sound, TypeInv, PrivateInv, PrivateType, RecordsInv, PlaceOK
<1>3. p[2] \in AllGates /\ approval[p[1]][p[2]] = "APPROVED"
  BY <1>2 DEF TodoOK
<1> QED
  BY <1>1, <1>2, <1>3, WakeMoves DEF Sound

LEMMA RejectMoves ==
  ASSUME Sound, NEW r \in Reconcilers, FailRejected(r) PROVE OneMoves
<1>1. UNCHANGED <<runs, wakes>> /\ pc[r] = "rejects"
  BY DEF FailRejected, history
<1>2. CASE LeaveRecoverable(r)
  BY <1>1, <1>2, LeaveMoves
<1>3. CASE ~ LeaveRecoverable(r)
  <2>1. PICK p \in todo[r] :
          /\ task[p[1]].status = "AWAITING_APPROVAL"
          /\ task' = [task EXCEPT ![p[1]] = Finished(@, "policy")]
          /\ <<p[1], "Failed">> \in events'
    BY <1>3 DEF FailRejected, UpdateAccepted
  <2>2. p[1] \in Attempts
    BY DEF Sound, TypeInv, PrivateInv, PrivateType
  <2>3. task[p[1]] \in TaskRecord
    BY <2>2 DEF Sound, TypeInv, StoreType
  <2>4. Finished(task[p[1]], "policy").status = "FAILED" /\ Finished(task[p[1]], "policy").failure = "policy"
    BY <2>3 DEF Finished, StatusOf, FailureOf, TaskRecord
  <2>5. Rejected(p[1]) /\ \A b \in Attempts \ {p[1]} : Lasting(b)
    BY <1>1, <2>1, <2>2, <2>4, OneWritten DEF Rejected, Turns, Sound
  <2> QED
    BY <2>2, <2>5 DEF OneMoves, Moved
<1> QED
  BY <1>2, <1>3

\* What is durable of the report becomes the outcome.
LEMMA EndMoves ==
  ASSUME Sound, NEW r \in Reconcilers, RepairMarker(r) \/ CommitTerminal(r) PROVE OneMoves
<1>1. UNCHANGED <<runs, wakes>>
  BY DEF RepairMarker, CommitTerminal, history
<1>2. CASE LeaveRecoverable(r)
  BY <1>1, <1>2, LeaveMoves
<1>3. CASE ~ LeaveRecoverable(r)
  <2>1. PICK a \in Attempts, o \in Outcomes :
          /\ task[a].status = "RUNNING" /\ task[a].evidence = o
          /\ task' = [task EXCEPT ![a] = Finished(@, o)]
          /\ \/ <<a, TerminalEvent(o)>> \in events' /\ pc[r] = "terminal"
             \/ RepairMarker(r)
    <3>1. CASE RepairMarker(r)
      <4>1. PICK a \in Attempts :
              /\ task[a].status = "RUNNING" /\ snap[r][a].evidence # "none"
              /\ task' = [task EXCEPT ![a] = Finished(@, snap[r][a].evidence)]
        BY <1>3, <3>1 DEF RepairMarker, UpdateAccepted
      <4>2. snap[r][a] \in TaskRecord /\ SnapOK(r)
        BY DEF Sound, RecordsInv, PlaceOK, TypeInv, PrivateInv, PrivateType
      <4>3. snap[r][a].evidence \in Outcomes /\ task[a].evidence = snap[r][a].evidence
        BY <4>1, <4>2 DEF TaskRecord, SnapOK
      <4> QED
        BY <3>1, <4>1, <4>3
    <3>2. CASE CommitTerminal(r)
      <4>1. /\ task[cur[r]].status = "RUNNING" /\ pc[r] = "terminal"
            /\ task' = [task EXCEPT ![cur[r]] = Finished(@, held[r])]
            /\ <<cur[r], TerminalEvent(held[r])>> \in events'
        BY <1>3, <3>2 DEF CommitTerminal, UpdateAccepted
      <4>2. cur[r] \in Attempts /\ task[cur[r]].evidence = held[r] /\ held[r] \in Outcomes
        BY <4>1 DEF Sound, RecordsInv, PlaceOK, HandOK, TypeInv, PrivateInv, HeldOK, CurOK,
                    Engaged, Holding
      <4> QED
        BY <4>1, <4>2
    <3> QED
      BY <3>1, <3>2
  <2>2. task[a] \in TaskRecord /\ AttemptOK(a) /\ runs[a] \in Nat /\ wakes[a] \in Nat
    BY DEF Sound, TypeInv, StoreType, RestType, RecordsInv
  <2>3. runs[a] # wakes[a]
    BY <2>1, <2>2 DEF AttemptOK, RecordShape, Outcomes
  <2>4. Finished(task[a], o).status = StatusOf(o) /\ Finished(task[a], o).failure = FailureOf(o)
    BY <2>2 DEF Finished, TaskRecord
  <2>5. /\ task'[a] = Finished(task[a], o) /\ \A b \in Attempts \ {a} : Lasting(b)
        /\ runs'[a] = runs[a] /\ wakes'[a] = wakes[a]
    BY <1>1, <2>1, OneWritten DEF Sound
  <2>6. Stops(a)
    BY <2>1, <2>3, <2>4, <2>5 DEF Stops, Turns
  <2> QED
    BY <2>5, <2>6 DEF OneMoves, Moved
<1> QED
  BY <1>2, <1>3

LEMMA CreateMoves ==
  ASSUME Sound, NEW r \in Reconcilers, CreateAttempt(r) PROVE OneMoves
<1>1. PICK a \in Attempts :
        /\ <<a, 0>> \in todo[r] /\ pc[r] = "create"
        /\ task' = [task EXCEPT ![a] = IF @.status = "NONE" THEN NewRecord ELSE @]
  BY DEF CreateAttempt
<1>2. UNCHANGED <<runs, wakes>> /\ TodoOK(r)
  BY DEF CreateAttempt, history, Sound, RecordsInv, PlaceOK
<1>3. CASE task[a].status = "NONE"
  <2>1. task' = [task EXCEPT ![a] = NewRecord] /\ NewRecord.status = "PENDING"
    BY <1>1, <1>3 DEF NewRecord, NoRecord
  <2>2. DependenciesSucceeded(task, a[1]) /\ Follows(a)
    BY <1>1, <1>2 DEF TodoOK
  <2>3. Created(a) /\ \A b \in Attempts \ {a} : Lasting(b)
    BY <1>1, <1>2, <1>3, <2>1, <2>2, OneWritten DEF Created, Turns, Sound
  <2> QED
    BY <2>3 DEF OneMoves, Moved
<1>4. CASE task[a].status # "NONE"
  <2>1. task' = task
    BY <1>1, <1>4 DEF Sound, TypeInv, StoreType
  <2> QED
    BY <1>2, <2>1, RestMoves
<1> QED
  BY <1>3, <1>4

LEMMA StartCommitMoves ==
  ASSUME TypeInv, NEW a \in Attempts, NEW d \in BOOLEAN, task[a].status = "PENDING",
         task' = [task EXCEPT ![a] = Started(@, d)], <<a, "Started">> \in events',
         UNCHANGED <<runs, wakes>>
  PROVE  OneMoves
<1>1. task[a] \in TaskRecord
  BY DEF TypeInv, StoreType
<1>2. Started(task[a], d).status = "RUNNING"
  BY <1>1 DEF Started, TaskRecord
<1>3. task' = [task EXCEPT ![a] = Started(task[a], d)]
  OBVIOUS
<1>4. Begun(a) /\ \A b \in Attempts \ {a} : Lasting(b)
  BY <1>2, <1>3, OneWritten DEF Begun, Turns
<1> QED
  BY <1>4 DEF OneMoves, Moved

LEMMA DiagnosedMoves ==
  ASSUME TypeInv, NEW a \in Attempts, task' = [task EXCEPT ![a].diagnosed = TRUE],
         UNCHANGED <<runs, wakes>>
  PROVE  OneMoves
<1>1. task[a] \in TaskRecord
  BY DEF TypeInv, StoreType
<1> DEFINE rec == [task[a] EXCEPT !.diagnosed = TRUE]
<1>2. rec.status = task[a].status /\ rec.failure = task[a].failure
  BY <1>1 DEF TaskRecord
<1>3. task' = [task EXCEPT ![a] = rec]
  OBVIOUS
<1> HIDE DEF rec
<1> QED
  BY <1>2, <1>3, NoMove

LEMMA StartMoves ==
  ASSUME Sound, NEW r \in Reconcilers, Resume(r) \/ Start(r) \/ Recover(r) PROVE OneMoves
<1>1. UNCHANGED <<runs, wakes>> /\ cur[r] \in Attempts
  BY CurInHand DEF Resume, Start, Recover, history, Engaged, Sound
<1>2. CASE UNCHANGED task
  BY <1>1, <1>2, RestMoves
<1>3. CASE ~ UNCHANGED task
  <2>1. CASE Resume(r)
    <3>1. task' = [task EXCEPT ![cur[r]].diagnosed = TRUE]
      BY <1>3, <2>1 DEF Resume
    <3> QED
      BY <1>1, <3>1, DiagnosedMoves DEF Sound
  <2>2. CASE Start(r)
    <3>1. /\ pc[r] = "start" /\ StartAccepted(task[cur[r]], snap[r][cur[r]])
          /\ task' = [task EXCEPT ![cur[r]] = Started(@, FALSE)]
          /\ <<cur[r], "Started">> \in events'
      BY <1>3, <2>2 DEF Start
    <3>2. AttemptOK(cur[r]) /\ PlaceOK(r) /\ task[cur[r]] \in TaskRecord
      BY <1>1 DEF Sound, RecordsInv, TypeInv, StoreType
    <3>3. task[cur[r]].status = "PENDING"
      BY <3>1, <3>2 DEF StartAccepted, UpdateAccepted, AttemptOK, RecordShape, PlaceOK, HandOK,
                        Engaged, TaskRecord, Statuses, Terminal
    <3> QED
      BY <1>1, <3>1, <3>3, StartCommitMoves DEF Sound
  <2>3. CASE Recover(r) /\ task[cur[r]].status = "PENDING"
    <3>1. /\ task' = [task EXCEPT ![cur[r]] = Started(@, TRUE)]
          /\ <<cur[r], "Started">> \in events'
      BY <2>3 DEF Recover
    <3> QED
      BY <1>1, <2>3, <3>1, StartCommitMoves DEF Sound
  <2>4. CASE Recover(r) /\ task[cur[r]].status # "PENDING"
    <3>1. task' = [task EXCEPT ![cur[r]].diagnosed = TRUE]
      BY <1>3, <2>4 DEF Recover, LeaveRecoverable, store
    <3> QED
      BY <1>1, <3>1, DiagnosedMoves DEF Sound
  <2> QED
    BY <2>1, <2>2, <2>3, <2>4
<1> QED
  BY <1>2, <1>3

LEMMA ClaimMoves ==
  ASSUME TypeInv, NEW r \in Reconcilers, Claim(r) PROVE OneMoves
<1>1. UNCHANGED <<runs, wakes>> /\ cur[r] \in Attempts
  BY CurInHand DEF Claim, history, Engaged
<1>2. CASE UNCHANGED task
  BY <1>1, <1>2, RestMoves
<1>3. CASE ~ UNCHANGED task
  <2> DEFINE rec == [task[cur[r]] EXCEPT !.dispatch = "CLAIMED", !.owner = r]
  <2>1. task' = [task EXCEPT ![cur[r]].dispatch = "CLAIMED", ![cur[r]].owner = r]
    BY <1>3 DEF Claim
  <2>2. task[cur[r]] \in TaskRecord /\ task \in [Attempts -> TaskRecord]
    BY <1>1 DEF TypeInv, StoreType
  <2>3. rec.status = task[cur[r]].status /\ rec.failure = task[cur[r]].failure
    BY <2>2 DEF TaskRecord
  <2>4. task' = [task EXCEPT ![cur[r]] = rec]
    BY <1>1, <2>1, <2>2
  <2> HIDE DEF rec
  <2> QED
    BY <1>1, <2>3, <2>4, NoMove
<1> QED
  BY <1>2, <1>3

LEMMA EvidenceMoves ==
  ASSUME TypeInv, NEW r \in Reconcilers, PersistEvidence(r) \/ RetryEvidence(r) PROVE OneMoves
<1>1. UNCHANGED <<runs, wakes>> /\ cur[r] \in Attempts
  BY CurInHand DEF PersistEvidence, RetryEvidence, history, Engaged, Holding
<1>2. CASE UNCHANGED task
  BY <1>1, <1>2, RestMoves
<1>3. task[cur[r]] \in TaskRecord /\ task \in [Attempts -> TaskRecord]
  BY <1>1 DEF TypeInv, StoreType
<1>4. CASE PersistEvidence(r) /\ ~ UNCHANGED task
  <2> DEFINE rec == [task[cur[r]] EXCEPT !.evidence = held[r]]
  <2>1. task' = [task EXCEPT ![cur[r]].evidence = held[r]]
    BY <1>4 DEF PersistEvidence, LeaveRecoverable, store
  <2>2. rec.status = task[cur[r]].status /\ rec.failure = task[cur[r]].failure
    BY <1>3 DEF TaskRecord
  <2>3. task' = [task EXCEPT ![cur[r]] = rec]
    BY <2>1
  <2> HIDE DEF rec
  <2> QED
    BY <1>1, <2>2, <2>3, NoMove
<1>5. CASE RetryEvidence(r) /\ ~ UNCHANGED task
  <2> DEFINE rec == [task[cur[r]] EXCEPT !.evidence = held[r], !.diagnosed = TRUE]
  <2>1. task' = [task EXCEPT ![cur[r]].evidence = held[r], ![cur[r]].diagnosed = TRUE]
    BY <1>5 DEF RetryEvidence, LeaveRecoverable, store
  <2>2. rec.status = task[cur[r]].status /\ rec.failure = task[cur[r]].failure
    BY <1>3 DEF TaskRecord
  <2>3. task' = [task EXCEPT ![cur[r]] = rec]
    BY <1>1, <1>3, <2>1
  <2> HIDE DEF rec
  <2> QED
    BY <1>1, <2>2, <2>3, NoMove
<1> QED
  BY <1>2, <1>4, <1>5

\* The one run of a dispatch.
LEMMA ExecuteMoves ==
  ASSUME Sound, NEW r \in Reconcilers, Execute(r)
  PROVE  Ran(cur[r]) /\ cur[r] \in Attempts /\ \A b \in Attempts \ {cur[r]} : Lasting(b)
<1>1. /\ UNCHANGED <<task, wakes>> /\ pc[r] = "execute"
      /\ runs' = [runs EXCEPT ![cur[r]] = @ + 1]
  BY DEF Execute, store
<1>2. cur[r] \in Attempts /\ PlaceOK(r) /\ runs \in [Attempts -> Nat]
  BY <1>1, CurInHand DEF Sound, RecordsInv, TypeInv, RestType, Engaged, Holding
<1>3. task[cur[r]].status = "RUNNING" /\ runs[cur[r]] = wakes[cur[r]]
  BY <1>1, <1>2 DEF PlaceOK, HandOK
<1> QED
  BY <1>1, <1>2, <1>3 DEF Ran, Lasting

LEMMA WaitMoves ==
  ASSUME Sound, NEW r \in Reconcilers, CommitWait(r) PROVE OneMoves
<1>0. UNCHANGED <<outside, bounds, history>> /\ pc[r] = "wait"
  BY DEF CommitWait
<1>1. UNCHANGED <<runs, wakes>>
  BY <1>0 DEF history
<1>2. CASE LeaveRecoverable(r)
  BY <1>1, <1>2, LeaveMoves
<1>3. CASE ~ LeaveRecoverable(r)
  <2> DEFINE gate == CHOOSE g \in AllGates : <<cur[r], g>> \in todo[r]
  <2>1. /\ task[cur[r]].status = "RUNNING"
        /\ task' = [task EXCEPT ![cur[r]].status = "AWAITING_APPROVAL", ![cur[r]].intent = gate,
                                ![cur[r]].expected = snap[r][cur[r]].approvalId]
    BY <1>3 DEF CommitWait, UpdateAccepted
  <2> HIDE DEF gate
  <2> DEFINE rec == [task[cur[r]] EXCEPT !.status = "AWAITING_APPROVAL", !.intent = gate,
                                         !.expected = snap[r][cur[r]].approvalId]
  <2>2. /\ cur[r] \in Attempts /\ task[cur[r]] \in TaskRecord /\ task \in [Attempts -> TaskRecord]
        /\ PlaceOK(r) /\ runs[cur[r]] \in Nat /\ wakes[cur[r]] \in Nat
    BY <1>0, CurInHand DEF Sound, RecordsInv, TypeInv, StoreType, RestType, Engaged, Holding
  <2>3. runs[cur[r]] # wakes[cur[r]]
    BY <1>0, <2>2 DEF PlaceOK, HandOK, Holding
  <2>4. rec.status = "AWAITING_APPROVAL"
    BY <2>2 DEF TaskRecord
  <2>5. task' = [task EXCEPT ![cur[r]] = rec]
    BY <2>1, <2>2
  <2> HIDE DEF rec
  <2>6. Waits(cur[r]) /\ \A b \in Attempts \ {cur[r]} : Lasting(b)
    BY <1>0, <1>1, <2>1, <2>2, <2>3, <2>4, <2>5, OneWritten DEF Waits, Turns, Sound
  <2> QED
    BY <2>2, <2>6 DEF OneMoves, Moved
<1> QED
  BY <1>2, <1>3

LEMMA EveryStepMoves == Sound /\ [Next]_vars => OneMoves
<1> SUFFICES ASSUME Sound, [Next]_vars PROVE OneMoves
  OBVIOUS
<1>1. ASSUME NEW r \in Reconcilers, Step(r) \/ Crash(r) PROVE OneMoves
  <2>1. CASE Execute(r)
    BY <2>1, ExecuteMoves DEF OneMoves, Moved
  <2>2. CASE ~ Execute(r)
    BY <1>1, <2>2, UnmovedMoves, BindMoves, WakeupMoves, RejectMoves, EndMoves, CreateMoves,
       StartMoves, ClaimMoves, EvidenceMoves, WaitMoves
    DEF Step, Recovery, Listing, Dispatch, Handling, Sound
  <2> QED
    BY <2>1, <2>2
<1>2. CASE \E a \in Attempts, g \in AllGates : DecideWake(a, g)
  BY <1>2, WakeMoves DEF DecideWake, Sound, RecordsInv, WakesOK
<1>3. CASE Operator /\ ~ \E a \in Attempts, g \in AllGates : DecideWake(a, g)
  <2>1. UNCHANGED <<task, runs, wakes>>
    BY <1>3 DEF Operator, Decide, RepeatDecision, DecideCrash, store, history
  <2> QED
    BY <2>1, RestMoves
<1>4. CASE TimePasses \/ IdlePoll \/ UNCHANGED vars
  <2>1. UNCHANGED <<task, runs, wakes>>
    BY <1>4 DEF TimePasses, IdlePoll, vars, store, history
  <2> QED
    BY <2>1, RestMoves
<1> QED
  BY <1>1, <1>2, <1>3, <1>4 DEF Next

\* No handler runs again once one of its attempt's approvals was rejected: what
\* a dispatch finds RUNNING has no rejected approval, whichever older approvals
\* decide() or a recovery repeats.
THEOREM RejectedStaysRejected == Spec => RejectionIsFinal
<1>1. ASSUME Sound, OneMoves, NEW a \in Attempts, NEW g \in AllGates, approval[a][g] = "REJECTED"
      PROVE  runs'[a] = runs[a]
  <2>1. task[a].status \in {"AWAITING_APPROVAL", "FAILED"}
    BY <1>1 DEF Sound, RecordsInv, AttemptOK, ApprovalsFit
  <2> QED
    BY <1>1, <2>1 DEF OneMoves, Moved, Lasting, Created, Turns, Ran, Stops, Waits, Wakes, Rejected, Begun
<1>2. Sound /\ [Next]_vars =>
        [\A a \in Attempts :
           (\E g \in AllGates : approval[a][g] = "REJECTED") => runs'[a] = runs[a]]_vars
  BY <1>1, EveryStepMoves
<1> QED
  BY <1>2, AlwaysSound, PTL DEF Spec, RejectionIsFinal

-----------------------------------------------------------------------------
(* The attempts implement TaskAttempts.                                    *)

\* The mapping, one status at a time.
LEMMA StatesMapped ==
  ASSUME NEW a \in Attempts
  PROVE  /\ task[a].status = "NONE" => AttemptState(a) = "absent"
         /\ task[a].status = "PENDING" => AttemptState(a) = "queued"
         /\ task[a].status = "RUNNING" /\ runs[a] = wakes[a] => AttemptState(a) = "queued"
         /\ task[a].status = "RUNNING" /\ runs[a] # wakes[a] => AttemptState(a) = "ran"
         /\ task[a].status = "AWAITING_APPROVAL" => AttemptState(a) = "waiting"
         /\ task[a].status \in Terminal => AttemptState(a) = "done"
         /\ task[a].status = "SUCCEEDED" => AttemptOutcome(a) = "success"
         /\ task[a].status = "FAILED" => AttemptOutcome(a) = task[a].failure
         /\ task[a].status \notin Terminal => AttemptOutcome(a) = "none"
BY DEF AttemptState, AttemptOutcome, Terminal

LEMMA StatesMappedNext ==
  ASSUME NEW a \in Attempts
  PROVE  /\ task'[a].status = "NONE" => AttemptState(a)' = "absent"
         /\ task'[a].status = "PENDING" => AttemptState(a)' = "queued"
         /\ task'[a].status = "RUNNING" /\ runs'[a] = wakes'[a] => AttemptState(a)' = "queued"
         /\ task'[a].status = "RUNNING" /\ runs'[a] # wakes'[a] => AttemptState(a)' = "ran"
         /\ task'[a].status = "AWAITING_APPROVAL" => AttemptState(a)' = "waiting"
         /\ task'[a].status \in Terminal => AttemptState(a)' = "done"
         /\ task'[a].status = "SUCCEEDED" => AttemptOutcome(a)' = "success"
         /\ task'[a].status = "FAILED" => AttemptOutcome(a)' = task'[a].failure
         /\ task'[a].status \notin Terminal => AttemptOutcome(a)' = "none"
BY DEF AttemptState, AttemptOutcome, Terminal

LEMMA LastingMapped ==
  ASSUME NEW a \in Attempts, Lasting(a)
  PROVE  AttemptState(a)' = AttemptState(a) /\ AttemptOutcome(a)' = AttemptOutcome(a)
BY DEF Lasting, AttemptState, AttemptOutcome

\* The variables of TaskAttempts after a step that moves attempt a.
LEMMA OthersMapped ==
  ASSUME TypeInv, TypeInv', NEW a \in Attempts, \A b \in Attempts \ {a} : Lasting(b)
  PROVE  /\ [b \in Attempts |-> AttemptState(b)]' =
              [[b \in Attempts |-> AttemptState(b)] EXCEPT ![a] = AttemptState(a)']
         /\ [b \in Attempts |-> AttemptOutcome(b)]' =
              [[b \in Attempts |-> AttemptOutcome(b)] EXCEPT ![a] = AttemptOutcome(a)']
         /\ runs' = [runs EXCEPT ![a] = runs'[a]]
<1>1. \A b \in Attempts \ {a} :
        AttemptState(b)' = AttemptState(b) /\ AttemptOutcome(b)' = AttemptOutcome(b)
  BY LastingMapped
<1>2. runs' = [runs EXCEPT ![a] = runs'[a]]
  BY DEF TypeInv, RestType, Lasting
<1> QED
  BY <1>1, <1>2

LEMMA SucceededMapped ==
  ASSUME TypeInv, NEW t \in Tasks, DependenciesSucceeded(task, t)
  PROVE  \A d \in Deps[t] : Abstract!Succeeded(d)
<1>1. \A d \in Deps[t], n \in 1 .. MaxAttempts : <<d, n>> \in Attempts
  BY TasksAssumption DEF Attempts
<1> QED
  BY <1>1, StatesMapped DEF DependenciesSucceeded, Abstract!Succeeded, Terminal

LEMMA MovedImplements ==
  ASSUME Sound, Sound', NEW a \in Attempts, Moved(a), \A b \in Attempts \ {a} : Lasting(b)
  PROVE  Abstract!Next \/ UNCHANGED Abstract!avars
<1> DEFINE states   == [b \in Attempts |-> AttemptState(b)]
           outcomes == [b \in Attempts |-> AttemptOutcome(b)]
<1>1. /\ states' = [states EXCEPT ![a] = AttemptState(a)']
      /\ outcomes' = [outcomes EXCEPT ![a] = AttemptOutcome(a)']
      /\ runs' = [runs EXCEPT ![a] = runs'[a]]
      /\ states[a] = AttemptState(a) /\ outcomes[a] = AttemptOutcome(a)
  BY OthersMapped DEF Sound
<1>2. \E b \in Abstract!Attempts : b = a
  BY DEF Attempts, Abstract!Attempts
<1>3. runs' = runs \/ runs'[a] # runs[a]
  BY <1>1 DEF Sound, TypeInv, RestType
<1>4. outcomes' = outcomes \/ AttemptOutcome(a)' # AttemptOutcome(a)
  BY <1>1
<1>5. CASE Created(a)
  <2>1. AttemptState(a) = "absent" /\ AttemptState(a)' = "queued" /\ runs' = runs
        /\ outcomes' = outcomes
    BY <1>3, <1>4, <1>5, StatesMapped, StatesMappedNext DEF Created, Turns, Terminal
  <2>2. \A d \in Deps[a[1]] : Abstract!Succeeded(d)
    BY <1>5, SucceededMapped DEF Created, Sound, Attempts
  <2>3. a[2] # 1 => /\ states[<<a[1], a[2] - 1>>] = "done"
                    /\ outcomes[<<a[1], a[2] - 1>>] \in {"recoverable", "deferred"}
    <3>1. a[2] # 1 => <<a[1], a[2] - 1>> \in Attempts
      BY TasksAssumption DEF Attempts
    <3> QED
      BY <1>5, <3>1, StatesMapped DEF Created, Turns, Follows, Terminal
  <2>4. Abstract!Queue(a)
    BY <1>1, <2>1, <2>2, <2>3 DEF Abstract!Queue
  <2> QED
    BY <1>2, <2>4 DEF Abstract!Next
<1>6. CASE Begun(a)
  <2>1. runs[a] = wakes[a]
    BY <1>6 DEF Begun, Turns, Sound, RecordsInv, AttemptOK, RecordShape
  <2>2. AttemptState(a)' = AttemptState(a) /\ AttemptOutcome(a)' = AttemptOutcome(a) /\ runs' = runs
    BY <1>3, <1>6, <2>1, StatesMapped, StatesMappedNext DEF Begun, Turns, Terminal
  <2> QED
    BY <1>1, <2>2 DEF Abstract!avars
<1>7. CASE Ran(a)
  <2>1. /\ AttemptState(a) = "queued" /\ AttemptState(a)' = "ran" /\ outcomes' = outcomes
        /\ runs' = [runs EXCEPT ![a] = @ + 1]
    <3>1. runs'[a] # wakes'[a]
      BY <1>7 DEF Ran, Sound, TypeInv, RestType
    <3> QED
      BY <1>1, <1>4, <1>7, <3>1, StatesMapped, StatesMappedNext DEF Ran, Terminal
  <2>2. \A d \in Deps[a[1]] : Abstract!Succeeded(d)
    BY <1>7, SucceededMapped DEF Ran, Sound, RecordsInv, AttemptOK, Unblocked, Attempts
  <2>3. Abstract!Run(a)
    BY <1>1, <2>1, <2>2 DEF Abstract!Run
  <2> QED
    BY <1>2, <2>3 DEF Abstract!Next
<1>8. CASE Stops(a)
  <2>1. PICK o \in Outcomes : Turns(a, "RUNNING", StatusOf(o)) /\ task'[a].failure = FailureOf(o)
    BY <1>8 DEF Stops
  <2>2. StatusOf(o) \in Terminal
    BY DEF StatusOf, Terminal
  <2>3. AttemptState(a) = "ran" /\ AttemptState(a)' = "done" /\ runs' = runs
    BY <1>3, <1>8, <2>1, <2>2, StatesMapped, StatesMappedNext DEF Stops, Turns
  <2>4. AttemptOutcome(a)' = o
    BY <2>1, StatesMappedNext DEF Turns, StatusOf, FailureOf
  <2>5. Abstract!Finish(a)
    <3>1. o \in Abstract!Outcomes
      BY DEF Outcomes, Abstract!Outcomes
    <3> QED
      BY <1>1, <2>3, <2>4, <3>1 DEF Abstract!Finish
  <2> QED
    BY <1>2, <2>5 DEF Abstract!Next
<1>9. CASE Waits(a)
  <2>1. AttemptState(a) = "ran" /\ AttemptState(a)' = "waiting" /\ runs' = runs /\ outcomes' = outcomes
    BY <1>3, <1>4, <1>9, StatesMapped, StatesMappedNext DEF Waits, Turns, Terminal
  <2>2. Abstract!Wait(a)
    BY <1>1, <2>1 DEF Abstract!Wait
  <2> QED
    BY <1>2, <2>2 DEF Abstract!Next
<1>10. CASE Wakes(a)
  <2>1. AttemptState(a) = "waiting" /\ AttemptState(a)' = "queued" /\ runs' = runs /\ outcomes' = outcomes
    BY <1>3, <1>4, <1>10, StatesMapped, StatesMappedNext DEF Wakes, Terminal
  <2>2. Abstract!Wake(a)
    BY <1>1, <2>1 DEF Abstract!Wake
  <2> QED
    BY <1>2, <2>2 DEF Abstract!Next
<1>11. CASE Rejected(a)
  <2>1. AttemptState(a) = "waiting" /\ AttemptState(a)' = "done" /\ AttemptOutcome(a)' = "policy"
        /\ runs' = runs
    BY <1>3, <1>11, StatesMapped, StatesMappedNext DEF Rejected, Turns, Terminal
  <2>2. Abstract!Reject(a)
    BY <1>1, <2>1 DEF Abstract!Reject
  <2> QED
    BY <1>2, <2>2 DEF Abstract!Next
<1> QED
  BY <1>5, <1>6, <1>7, <1>8, <1>9, <1>10, <1>11 DEF Moved

LEMMA StepImplements ==
  Sound /\ Sound' /\ [Next]_vars => [Abstract!Next]_Abstract!avars
<1> SUFFICES ASSUME Sound, Sound', OneMoves
             PROVE  Abstract!Next \/ UNCHANGED Abstract!avars
  BY EveryStepMoves
<1>1. CASE \A b \in Attempts : Lasting(b)
  <2>1. \A b \in Attempts : AttemptState(b)' = AttemptState(b) /\ AttemptOutcome(b)' = AttemptOutcome(b)
    BY <1>1, LastingMapped
  <2>2. runs' = runs
    BY <1>1 DEF Lasting, Sound, TypeInv, RestType
  <2> QED
    BY <2>1, <2>2 DEF Abstract!avars
<1>2. CASE \E a \in Attempts : Moved(a) /\ \A b \in Attempts \ {a} : Lasting(b)
  BY <1>2, MovedImplements
<1> QED
  BY <1>1, <1>2 DEF OneMoves

\* The reconcilers, with their stale snapshots, crashes and faults, their
\* repairs and the operator's decisions, do to the attempts of a workflow what
\* TaskAttempts allows and nothing else.
THEOREM Implementation == Spec => ImplementsTaskAttempts
<1>1. Init => Abstract!Init
  <2> SUFFICES ASSUME Init PROVE Abstract!Init
    OBVIOUS
  <2>1. \A a \in Attempts : task[a].status = "NONE"
    BY DEF Init, NoSnap, NoRecord
  <2>2. \A a \in Attempts : AttemptState(a) = "absent" /\ AttemptOutcome(a) = "none"
    BY <2>1, StatesMapped DEF Terminal
  <2> QED
    BY <2>2 DEF Init, Abstract!Init, Attempts, Abstract!Attempts
<1> QED
  BY <1>1, AlwaysSound, StepImplements, PTL DEF Spec, Abstract!Spec, ImplementsTaskAttempts

-----------------------------------------------------------------------------
(* Where a reconciler comes from, and what the store never gives up.       *)

\* The parts of a pass after the ready wave is created, and of the run's end.
Late == Holding \cup {"dispatch", "start", "resume", "recover", "claim", "request",
                      "outcome", "commit"}

Came(r) ==
  /\ pc'[r] = "wait" => Execute(r) \/ (pc[r] = "wait" /\ cur'[r] = cur[r])
  /\ pc'[r] = "commit" => ReadOutcome(r) \/ (pc[r] = "commit" /\ held'[r] = held[r])
  /\ pc'[r] = "repair" =>
       \/ NextPhase(r)
       \/ /\ pc[r] = "repair" /\ todo'[r] = todo[r]
          /\ snap'[r] = snap[r] \/ RepairMarker(r)
  /\ pc'[r] = "create" => NextPhase(r) \/ (pc[r] = "create" /\ todo'[r] = todo[r])
  /\ pc'[r] \in Late => WaveCreated(r) \/ pc[r] \in Late
  /\ wf # "RUNNING" /\ pc[r] \in {"idle", "settle"} => pc'[r] \in {"idle", "settle"}

StoreKept ==
  /\ events \subseteq events' /\ members \subseteq members'
  /\ wf' = wf \/ \E r \in Reconcilers : CommitOutcome(r)
  /\ \A a \in Attempts, g \in AllGates :
       approval[a][g] = "APPROVED" => approval'[a][g] = "APPROVED"

LEMMA StillCame ==
  ASSUME NEW r \in Reconcilers, Still(r) PROVE Came(r)
BY DEF Still, Came

LEMMA ForgetCame ==
  ASSUME TypeInv, NEW r \in Reconcilers, Forget(r) PROVE Came(r)
<1>1. pc'[r] = "idle"
  BY DEF Forget, Goto, TypeInv, PrivateInv, PrivateType
<1> QED
  BY <1>1 DEF Came, Late, Holding

LEMMA LeaveCame ==
  ASSUME TypeInv, NEW r \in Reconcilers, LeaveRecoverable(r) \/ LeaveValueError(r)
  PROVE  Came(r)
BY ForgetCame DEF LeaveRecoverable, LeaveValueError

LEMMA SkipCame ==
  ASSUME TypeInv, NEW r \in Reconcilers, Skip(r), pc[r] \in Late PROVE Came(r)
<1>1. pc'[r] = "dispatch"
  BY DEF Skip, Goto, TypeInv, PrivateInv, PrivateType
<1> QED
  BY <1>1 DEF Came, Late, Holding

\* One goes on in the late parts, but not to the two that have a way in of their own.
LEMMA LateCame ==
  ASSUME NEW r \in Reconcilers, pc[r] \in Late,
         NEW phase \in Phases \ {"wait", "commit", "repair", "create"}, pc'[r] = phase
  PROVE  Came(r)
BY DEF Came, Late, Holding

LEMMA BeginCame ==
  ASSUME TypeInv, NEW r \in Reconcilers, BeginPass(r) PROVE Came(r)
<1>1. CASE LeaveValueError(r)
  BY <1>1, LeaveCame
<1>2. CASE ~ LeaveValueError(r)
  <2>1. pc'[r] = IF wf = "RUNNING" THEN "requests" ELSE "settle"
    BY <1>2 DEF BeginPass, Enter, Goto, TypeInv, PrivateInv, PrivateType
  <2> QED
    BY <2>1 DEF Came, Late, Holding
<1> QED
  BY <1>1, <1>2

LEMMA RecoveryCame ==
  ASSUME TypeInv, NEW r \in Reconcilers, Recovery(r) PROVE Came(r)
<1>1. CASE LeaveRecoverable(r) \/ LeaveValueError(r)
  BY <1>1, LeaveCame
<1>2. CASE ~ (LeaveRecoverable(r) \/ LeaveValueError(r))
  <2>1. pc[r] \in {"requests", "wakeups", "rejects"} /\ pc'[r] = pc[r]
    BY <1>2 DEF Recovery, RecoverRequest, RecoverWakeup, FailRejected, Request
  <2> QED
    BY <2>1 DEF Came, Late, Holding
<1> QED
  BY <1>1, <1>2

LEMMA ListingCame ==
  ASSUME TypeInv, NEW r \in Reconcilers, Listing(r) PROVE Came(r)
<1>1. CASE NextPhase(r)
  <2>1. pc'[r] = Following[pc[r]] /\ pc[r] \in DOMAIN Following
    BY <1>1 DEF NextPhase, Enter, Goto, TypeInv, PrivateInv, PrivateType
  <2> QED
    BY <1>1, <2>1 DEF Came, Following, Late, Holding
<1>2. CASE WaveCreated(r)
  <2>1. pc'[r] = "dispatch" /\ pc[r] = "create"
    BY <1>2 DEF WaveCreated, Goto, TypeInv, PrivateInv, PrivateType
  <2> QED
    BY <1>2, <2>1 DEF Came
<1>3. CASE LeaveRecoverable(r)
  BY <1>3, LeaveCame
<1>4. CASE \/ (Attach(r) \/ RepairMarker(r)) /\ ~ LeaveRecoverable(r)
           \/ EmitQueued(r) \/ EmitTerminal(r) \/ CreateAttempt(r)
  <2>1. /\ pc[r] \in {"repair", "create"} /\ pc'[r] = pc[r] /\ todo'[r] = todo[r]
        /\ snap'[r] = snap[r] \/ RepairMarker(r) \/ pc[r] = "create"
    BY <1>4 DEF Attach, EmitQueued, EmitTerminal, CreateAttempt, RepairMarker, private
  <2> QED
    BY <2>1 DEF Came, Late, Holding
<1> QED
  BY <1>1, <1>2, <1>3, <1>4 DEF Listing

LEMMA DispatchCame ==
  ASSUME TypeInv, NEW r \in Reconcilers, Dispatch(r) PROVE Came(r)
<1>1. pc[r] \in Late
  BY DEF Dispatch, Take, Resume, Start, Recover, Claim, Late, Holding
<1>2. CASE Skip(r) \/ LeaveRecoverable(r)
  BY <1>1, <1>2, SkipCame, LeaveCame
<1>3. CASE ~ (Skip(r) \/ LeaveRecoverable(r))
  <2>1. pc'[r] \in {"start", "claim", "resume", "recover", "execute"}
    BY <1>3 DEF Dispatch, Take, Resume, Start, Recover, Claim, Goto, TypeInv, PrivateInv, PrivateType
  <2> QED
    BY <1>1, <2>1, LateCame DEF Phases
<1> QED
  BY <1>2, <1>3

LEMMA HandlingCame ==
  ASSUME TypeInv, NEW r \in Reconcilers, Handling(r) PROVE Came(r)
<1>1. pc[r] \in Late
  BY DEF Handling, Execute, PersistEvidence, RetryEvidence, CommitTerminal, CommitWait,
         RequestApproval, Late, Holding
<1>2. CASE Skip(r) \/ LeaveRecoverable(r) \/ LeaveValueError(r)
  BY <1>1, <1>2, SkipCame, LeaveCame
<1>3. CASE Execute(r)
  <2>1. pc'[r] \in {"evidence", "wait"}
    BY <1>3 DEF Execute, Goto, TypeInv, PrivateInv, PrivateType
  <2> QED
    BY <1>1, <1>3, <2>1 DEF Came, Late, Holding
<1>4. CASE ~ (Skip(r) \/ LeaveRecoverable(r) \/ LeaveValueError(r)) /\ ~ Execute(r)
  <2>1. pc'[r] \in {"terminal", "reevidence", "request"}
    BY <1>4 DEF Handling, PersistEvidence, RetryEvidence, CommitTerminal, CommitWait,
                RequestApproval, Request, Goto, TypeInv, PrivateInv, PrivateType
  <2> QED
    BY <1>1, <2>1, LateCame DEF Phases
<1> QED
  BY <1>2, <1>3, <1>4

LEMMA EndingCame ==
  ASSUME TypeInv, NEW r \in Reconcilers, Ending(r) PROVE Came(r)
<1>1. CASE EndPass(r)
  <2>1. pc[r] = "dispatch" /\ pc'[r] \in {"outcome", "idle"}
    BY <1>1 DEF EndPass, Goto, TypeInv, PrivateInv, PrivateType
  <2> QED
    BY <2>1, LateCame DEF Phases, Late
<1>2. CASE ReadOutcome(r)
  <2>1. pc[r] = "outcome" /\ pc'[r] \in {"commit", "settle"}
    BY <1>2 DEF ReadOutcome, Goto, TypeInv, PrivateInv, PrivateType
  <2> QED
    BY <1>2, <2>1 DEF Came, Late, Holding
<1>3. CASE CommitOutcome(r)
  <2>1. pc'[r] = "settle"
    BY <1>3 DEF CommitOutcome, Goto, TypeInv, PrivateInv, PrivateType
  <2> QED
    BY <2>1 DEF Came, Late, Holding
<1>4. CASE Settle(r)
  BY <1>4, ForgetCame DEF Settle
<1> QED
  BY <1>1, <1>2, <1>3, <1>4 DEF Ending

LEMMA OthersStill ==
  ASSUME TypeInv, NEW q \in Reconcilers, Step(q) \/ Crash(q), NEW r \in Reconcilers \ {q}
  PROVE  Still(r)
<1>1. CASE Forget(q)
  BY <1>1 DEF Forget, Goto, TypeInv, PrivateInv, PrivateType, Still
<1>2. CASE Skip(q)
  BY <1>2 DEF Skip, Goto, TypeInv, PrivateInv, PrivateType, Still
<1>3. CASE (BeginPass(q) \/ Recovery(q)) /\ ~ Forget(q)
  BY <1>3 DEF BeginPass, Enter, Recovery, RecoverRequest, RecoverWakeup, FailRejected, Request,
              LeaveValueError, LeaveRecoverable, Goto, TypeInv, PrivateInv, PrivateType, Still
<1>4. CASE Listing(q) /\ ~ Forget(q)
  BY <1>4 DEF Listing, NextPhase, WaveCreated, Enter, Attach, EmitQueued, EmitTerminal,
              CreateAttempt, RepairMarker, private, LeaveRecoverable, Goto, TypeInv, PrivateInv,
              PrivateType, Still
<1>5. CASE Dispatch(q) /\ ~ Forget(q) /\ ~ Skip(q)
  BY <1>5 DEF Dispatch, Take, Resume, Start, Recover, Claim, LeaveRecoverable, Goto, TypeInv,
              PrivateInv, PrivateType, Still
<1>6. CASE Handling(q) /\ ~ Forget(q) /\ ~ Skip(q)
  BY <1>6 DEF Handling, Execute, PersistEvidence, RetryEvidence, CommitTerminal, CommitWait,
              RequestApproval, Request, LeaveRecoverable, LeaveValueError, Goto, TypeInv,
              PrivateInv, PrivateType, Still
<1>7. CASE Ending(q) /\ ~ Forget(q)
  BY <1>7 DEF Ending, EndPass, ReadOutcome, CommitOutcome, Settle, Goto, TypeInv, PrivateInv,
              PrivateType, Still
<1>8. CASE Crash(q)
  BY <1>1, <1>8 DEF Crash
<1> QED
  BY <1>1, <1>2, <1>3, <1>4, <1>5, <1>6, <1>7, <1>8 DEF Step

LEMMA EveryoneCame == TypeInv /\ [Next]_vars => \A r \in Reconcilers : Came(r)
<1> SUFFICES ASSUME TypeInv, [Next]_vars, NEW r \in Reconcilers PROVE Came(r)
  OBVIOUS
<1>1. CASE Step(r) \/ Crash(r)
  <2>1. CASE Crash(r)
    BY <2>1, ForgetCame DEF Crash
  <2> QED
    BY <1>1, <2>1, BeginCame, RecoveryCame, ListingCame, DispatchCame, HandlingCame, EndingCame
    DEF Step
<1>2. CASE \E q \in Reconcilers \ {r} : Step(q) \/ Crash(q)
  BY <1>2, OthersStill, StillCame
<1>3. CASE Operator \/ TimePasses \/ IdlePoll \/ UNCHANGED vars
  <2>1. Still(r)
    BY <1>3 DEF Operator, Decide, RepeatDecision, DecideWake, DecideCrash, TimePasses, IdlePoll,
                vars, private, Still
  <2> QED
    BY <2>1, StillCame
<1> QED
  BY <1>1, <1>2, <1>3 DEF Next

LEMMA OwnStoreKept ==
  ASSUME TypeInv, NEW r \in Reconcilers, Step(r) \/ Crash(r) PROVE StoreKept
<1>1. CASE UNCHANGED <<task, approval, events, members, wf>>
  BY <1>1 DEF StoreKept
<1>2. CASE BeginPass(r) \/ Ending(r) \/ Crash(r)
  BY <1>2 DEF BeginPass, Ending, EndPass, ReadOutcome, CommitOutcome, Settle, Crash,
              LeaveValueError, store, StoreKept
<1>3. CASE RecoverRequest(r) \/ RequestApproval(r)
  <2>1. CASE LeaveRecoverable(r) \/ LeaveValueError(r)
    BY <1>1, <2>1 DEF LeaveRecoverable, LeaveValueError, store
  <2>2. CASE ~ (LeaveRecoverable(r) \/ LeaveValueError(r))
    <3>1. PICK p \in todo[r] :
            /\ approval' = [approval EXCEPT ![p[1]][p[2]] = IF @ = "NONE" THEN "PENDING" ELSE @]
            /\ UNCHANGED <<events, members, wf>>
      BY <1>3, <2>2 DEF RecoverRequest, RequestApproval, Request
    <3> QED
      BY <3>1 DEF StoreKept, TypeInv, StoreType
  <2> QED
    BY <2>1, <2>2
<1>4. CASE \/ RecoverWakeup(r) \/ FailRejected(r) \/ Listing(r) \/ Dispatch(r)
           \/ Handling(r) /\ ~ RequestApproval(r)
  <2>1. events \subseteq events'
    BY <1>4 DEF RecoverWakeup, FailRejected, Listing, NextPhase, WaveCreated, Attach, EmitQueued,
                EmitTerminal, CreateAttempt, RepairMarker, Dispatch, Take, Resume, Start, Recover,
                Claim, Handling, Execute, PersistEvidence, RetryEvidence, CommitTerminal,
                CommitWait, LeaveRecoverable, store
  <2>2. members \subseteq members' /\ UNCHANGED <<approval, wf>>
    BY <1>4 DEF RecoverWakeup, FailRejected, Listing, NextPhase, WaveCreated, Attach, EmitQueued,
                EmitTerminal, CreateAttempt, RepairMarker, Dispatch, Take, Resume, Start, Recover,
                Claim, Handling, Execute, PersistEvidence, RetryEvidence, CommitTerminal,
                CommitWait, LeaveRecoverable, store
  <2> QED
    BY <2>1, <2>2 DEF StoreKept
<1> QED
  BY <1>2, <1>3, <1>4 DEF Step, Recovery, Handling

LEMMA EveryStepKeeps == TypeInv /\ [Next]_vars => StoreKept
<1> SUFFICES ASSUME TypeInv, [Next]_vars PROVE StoreKept
  OBVIOUS
<1>1. CASE \E r \in Reconcilers : Step(r) \/ Crash(r)
  BY <1>1, OwnStoreKept
<1>2. CASE Operator
  <2>1. UNCHANGED <<events, members, wf>>
    BY <1>2 DEF Operator, Decide, RepeatDecision, DecideWake, DecideCrash, store
  <2>2. \/ UNCHANGED approval
        \/ \E a \in Attempts, g \in AllGates, d \in {"APPROVED", "REJECTED"} : Decide(a, g, d)
    BY <1>2 DEF Operator, RepeatDecision, DecideWake, DecideCrash, store
  <2>3. \A a \in Attempts, g \in AllGates :
          approval[a][g] = "APPROVED" => approval'[a][g] = "APPROVED"
    <3>1. CASE UNCHANGED approval
      BY <3>1
    <3>2. ASSUME NEW a \in Attempts, NEW g \in AllGates, NEW d \in {"APPROVED", "REJECTED"},
                 Decide(a, g, d)
          PROVE  \A b \in Attempts, h \in AllGates :
                   approval[b][h] = "APPROVED" => approval'[b][h] = "APPROVED"
      BY <3>2 DEF Decide, TypeInv, StoreType
    <3> QED
      BY <2>2, <3>1, <3>2
  <2> QED
    BY <2>1, <2>3 DEF StoreKept
<1>3. CASE TimePasses \/ IdlePoll \/ UNCHANGED vars
  BY <1>3 DEF TimePasses, IdlePoll, vars, store, StoreKept
<1> QED
  BY <1>1, <1>2, <1>3 DEF Next

LEMMA FiniteGates == IsFiniteSet(AllGates)
<1> DEFINE own == {1 .. Gates[t] : t \in Tasks}
           f == [t \in Tasks |-> 1 .. Gates[t]]
<1>1. \A T \in own : IsFiniteSet(T)
  BY FS_Interval, TasksAssumption
<1>2. f \in Surjection(Tasks, own)
  BY DEF Surjection
<1>3. IsFiniteSet(own)
  BY <1>2, FS_Surjection, TasksAssumption
<1> QED
  BY <1>1, <1>3, FS_UNION DEF AllGates

-----------------------------------------------------------------------------
(* One approval, one run: tasks with at most one gate.                     *)

\* A wait ended once, by the approval that is there; whoever is about to wait
\* has found none.
OneWake(a) ==
  \/ wakes[a] = 0
  \/ /\ wakes[a] = 1 /\ task[a].status # "AWAITING_APPROVAL"
     /\ \E g \in AllGates : approval[a][g] = "APPROVED"

OneWakeInv ==
  /\ \A a \in Attempts : OneWake(a)
  /\ \A r \in Reconcilers : pc[r] = "wait" => wakes[cur[r]] = 0

LEMMA OneWakeStep ==
  ASSUME \A t \in Tasks : Gates[t] <= 1, Sound, OneWakeInv, [Next]_vars
  PROVE  OneWakeInv'
<1>1. OneMoves /\ (\A r \in Reconcilers : Came(r)) /\ StoreKept
  BY EveryStepMoves, EveryoneCame, EveryStepKeeps DEF Sound
<1>2. ASSUME NEW a \in Attempts PROVE OneWake(a)'
  <2>1. OneWake(a) /\ wakes[a] \in Nat
    BY DEF OneWakeInv, Sound, TypeInv, RestType
  <2>2. (\E g \in AllGates : approval[a][g] = "APPROVED") =>
           \E g \in AllGates : approval'[a][g] = "APPROVED"
    BY <1>1 DEF StoreKept
  <2>3. CASE Lasting(a)
    BY <2>1, <2>2, <2>3 DEF Lasting, OneWake
  <2>4. CASE Waits(a)
    BY <2>1, <2>4 DEF Waits, Turns, OneWake, OneWakeInv
  <2>5. CASE Wakes(a)
    BY <2>1, <2>2, <2>5 DEF Wakes, OneWake
  <2>6. CASE Created(a) \/ Begun(a) \/ Ran(a) \/ Stops(a) \/ Rejected(a)
    <3>1. wakes'[a] = wakes[a] /\ task'[a].status # "AWAITING_APPROVAL"
      BY <2>6 DEF Created, Turns, Begun, Ran, Stops, Rejected, StatusOf
    <3> QED
      BY <2>1, <2>2, <3>1 DEF OneWake
  <2> QED
    BY <1>1, <2>3, <2>4, <2>5, <2>6 DEF OneMoves, Moved
<1>3. ASSUME NEW r \in Reconcilers, pc'[r] = "wait" PROVE (wakes[cur[r]] = 0)'
  <2>1. CASE Execute(r)
    <3>1. UNCHANGED <<cur, wakes>> /\ pc[r] = "execute"
      BY <2>1 DEF Execute
    <3>2. cur[r] \in Attempts
      BY <3>1, CurInHand DEF Sound, Engaged, Holding
    <3>3. PICK g \in 1 .. Gates[cur[r][1]] : approval[cur[r]][g] # "APPROVED"
      BY <1>3, <2>1 DEF Execute, Goto, Sound, TypeInv, PrivateInv, PrivateType
    <3>4. \A h \in AllGates : h = g
      BY <3>2, <3>3, TasksAssumption DEF AllGates, Attempts
    <3>5. OneWake(cur[r])
      BY <3>2 DEF OneWakeInv
    <3>6. wakes[cur[r]] = 0
      BY <3>3, <3>4, <3>5 DEF OneWake
    <3> QED
      BY <3>1, <3>6
  <2>2. CASE pc[r] = "wait" /\ cur'[r] = cur[r]
    <3>1. /\ cur[r] \in Attempts /\ task[cur[r]].status = "RUNNING" /\ wakes[cur[r]] = 0
      BY <2>2, CurInHand DEF Sound, RecordsInv, PlaceOK, HandOK, Engaged, Holding, OneWakeInv
    <3>2. wakes'[cur[r]] = wakes[cur[r]]
      BY <1>1, <3>1 DEF OneMoves, Moved, Lasting, Created, Turns, Begun, Ran, Stops, Waits, Wakes, Rejected
    <3> QED
      BY <2>2, <3>1, <3>2
  <2> QED
    BY <1>1, <1>3, <2>1, <2>2 DEF Came
<1> QED
  BY <1>2, <1>3 DEF OneWakeInv

LEMMA ApprovedCount ==
  ASSUME NEW a \in Attempts, NEW g \in AllGates, approval[a][g] = "APPROVED"
  PROVE  Cardinality({h \in AllGates : approval[a][h] = "APPROVED"}) >= 1
<1> DEFINE S == {h \in AllGates : approval[a][h] = "APPROVED"}
<1>1. IsFiniteSet(S)
  <2>1. IsFiniteSet(AllGates)
    BY FiniteGates
  <2> QED
    BY <2>1, FS_Subset
<1>2. {g} \subseteq S
  OBVIOUS
<1>3. Cardinality({g}) = 1
  BY FS_Singleton
<1> QED
  BY <1>1, <1>2, <1>3, FS_Subset, FS_CardinalityType

\* "After an approval, the task returns to PENDING and is dispatched once": with
\* one gate at most per task, decide() and the recovery of its wake-up, however
\* often they are repeated, give an approved attempt one more run.  (With two
\* gates a late wake-up breaks it.)
THEOREM OneGateOneRun ==
  ASSUME \A t \in Tasks : Gates[t] <= 1
  PROVE  Spec => []OneRunPerApproval
<1>1. Init => OneWakeInv
  BY DEF Init, OneWakeInv, OneWake
<1>2. Sound /\ OneWakeInv => OneRunPerApproval
  <2> SUFFICES ASSUME Sound, OneWakeInv, NEW a \in Attempts
               PROVE  runs[a] <= 1 + Cardinality({g \in AllGates : approval[a][g] = "APPROVED"})
    BY DEF OneRunPerApproval
  <2> DEFINE n == Cardinality({g \in AllGates : approval[a][g] = "APPROVED"})
  <2>1. runs[a] \in Nat /\ wakes[a] \in Nat /\ runs[a] <= wakes[a] + 1
    BY DEF Sound, TypeInv, RestType, DispatchInv, RunsCounted
  <2>2. OneWake(a)
    BY DEF OneWakeInv
  <2>3. n \in Nat
    <3>1. IsFiniteSet({g \in AllGates : approval[a][g] = "APPROVED"})
      BY FiniteGates, FS_Subset
    <3> QED
      BY <3>1, FS_CardinalityType
  <2>4. wakes[a] <= n
    BY <2>1, <2>2, <2>3, ApprovedCount DEF OneWake
  <2> HIDE DEF n
  <2>5. runs[a] <= 1 + n
    BY <2>1, <2>3, <2>4
  <2> QED
    BY <2>5 DEF n
<1> QED
  BY <1>1, <1>2, AlwaysSound, OneWakeStep, PTL DEF Spec

-----------------------------------------------------------------------------
(* The end of the workflow, as its only reconciler brings it about.        *)

AtRest == \A a \in Attempts : task[a].status \in Terminal \cup {"NONE"}

\* Between the listing that the conclusion is drawn from and its commit nothing
\* can be created, and nothing is in flight that could move.
OutcomeInv ==
  /\ wf # "RUNNING" => AtRest /\ \A r \in Reconcilers : pc[r] \in {"idle", "settle"}
  /\ wf = "SUCCEEDED" => AllSucceeded(task)
  /\ \A r \in Reconcilers :
       pc[r] = "commit" => AtRest /\ (held[r] = "SUCCEEDED" => AllSucceeded(task))

LEMMA RestStays ==
  ASSUME Sound, OneMoves, AtRest, \A r \in Reconcilers : pc[r] # "create"
  PROVE  /\ \A a \in Attempts : task'[a].status = task[a].status /\ task'[a].failure = task[a].failure
         /\ AtRest' /\ (AllSucceeded(task) => AllSucceeded(task)')
<1>1. \A a \in Attempts : task'[a].status = task[a].status /\ task'[a].failure = task[a].failure
  <2>1. \A a \in Attempts : ~ Moved(a)
    BY DEF AtRest, Moved, Created, Begun, Turns, Ran, Stops, Waits, Wakes, Rejected, Terminal
  <2> QED
    BY <2>1 DEF OneMoves, Lasting
<1>2. AllSucceeded(task) => AllSucceeded(task)'
  BY <1>1 DEF AllSucceeded, Attempts
<1> QED
  BY <1>1, <1>2 DEF AtRest

LEMMA OutcomeStep ==
  ASSUME NEW c, Reconcilers = {c}, Sound, OutcomeInv, [Next]_vars
  PROVE  OutcomeInv'
<1>1. OneMoves /\ Came(c) /\ StoreKept
  BY EveryStepMoves, EveryoneCame, EveryStepKeeps DEF Sound
<1>2. CASE CommitOutcome(c)
  <2>1. /\ UNCHANGED task /\ pc[c] = "commit" /\ pc'[c] = "settle"
        /\ wf' \in {wf, held[c]}
    BY <1>2 DEF CommitOutcome, Goto, Sound, TypeInv, PrivateInv, PrivateType
  <2>2. wf = "RUNNING"
    BY <2>1 DEF OutcomeInv
  <2>3. wf' = held[c] /\ AtRest /\ (held[c] = "SUCCEEDED" => AllSucceeded(task))
    BY <1>2, <2>1, <2>2 DEF CommitOutcome, OutcomeInv
  <2>4. AtRest' /\ (held[c] = "SUCCEEDED" => AllSucceeded(task)')
    BY <2>1, <2>3 DEF AtRest, AllSucceeded
  <2> QED
    BY <2>1, <2>3, <2>4 DEF OutcomeInv
<1>3. CASE ReadOutcome(c)
  <2>1. /\ UNCHANGED <<task, wf>> /\ pc[c] = "outcome"
        /\ pc'[c] = "commit" =>
             ~ InFlight(task) /\ (held'[c] = "SUCCEEDED" => AllSucceeded(task))
    BY <1>3 DEF ReadOutcome, Goto, store, Sound, TypeInv, PrivateInv, PrivateType
  <2>2. ~ InFlight(task) => AtRest
    BY DEF InFlight, AtRest, Sound, TypeInv, StoreType, TaskRecord, Statuses, Terminal
  <2>3. wf = "RUNNING"
    BY <2>1 DEF OutcomeInv
  <2>4. AllSucceeded(task)' = AllSucceeded(task) /\ AtRest' = AtRest
    BY <2>1 DEF AllSucceeded, AtRest
  <2> QED
    BY <2>1, <2>2, <2>3, <2>4 DEF OutcomeInv
<1>4. CASE ~ CommitOutcome(c) /\ ~ ReadOutcome(c)
  <2>1. wf' = wf
    BY <1>1, <1>4 DEF StoreKept
  <2>2. pc'[c] = "commit" => pc[c] = "commit" /\ held'[c] = held[c]
    BY <1>1, <1>4 DEF Came
  <2>3. wf # "RUNNING" => pc'[c] \in {"idle", "settle"}
    BY <1>1 DEF Came, OutcomeInv
  <2>4. wf # "RUNNING" \/ pc[c] = "commit" => AtRest' /\ (AllSucceeded(task) => AllSucceeded(task)')
    <3>1. wf # "RUNNING" \/ pc[c] = "commit" => AtRest /\ pc[c] # "create"
      BY DEF OutcomeInv
    <3> QED
      BY <1>1, <3>1, RestStays
  <2> QED
    BY <2>1, <2>2, <2>3, <2>4 DEF OutcomeInv
<1> QED
  BY <1>2, <1>3, <1>4

LEMMA AlwaysOutcome ==
  ASSUME NEW c, Reconcilers = {c} PROVE Spec => [](Sound /\ OutcomeInv)
<1>1. Init => OutcomeInv
  BY DEF Init, OutcomeInv
<1> QED
  BY <1>1, AlwaysSound, OutcomeStep, PTL DEF Spec

\* The conclusion that the runner draws from a listing of the attempts still
\* holds when it is committed and ever after: a terminal WorkflowExecution has
\* nothing in flight, a successful one a successful attempt of every task.
\* For one reconciler, the consumer of a deployment, beside any operators.
THEOREM OutcomeSound ==
  ASSUME NEW c, Reconcilers = {c} PROVE Spec => []WorkflowOutcomeSound
<1>1. OutcomeInv => WorkflowOutcomeSound
  BY DEF OutcomeInv, WorkflowOutcomeSound, AtRest, AllSucceeded
<1> QED
  BY <1>1, AlwaysOutcome, PTL

-----------------------------------------------------------------------------
(* The audit trail of a workflow that has ended.                           *)

Recorded(a) == a \in members /\ <<a, "Queued">> \in events

EndRecorded(a) ==
  task[a].status \in Terminal =>
    <<a, TerminalEvent(IF task[a].status = "SUCCEEDED" THEN "success" ELSE task[a].failure)>>
      \in events

Audited(a) == task[a].status # "NONE" => Recorded(a) /\ EndRecorded(a)

BegunRecorded(a) ==
  task[a].status = "RUNNING" \/ runs[a] > 0 => <<a, "Started">> \in events

\* The repair of a pass sees every attempt there is; when it is done only the
\* attempts of the new wave lack anything, and nothing lacks anything later.
AuditInv ==
  /\ \A a \in Attempts : BegunRecorded(a)
  /\ \A r \in Reconcilers :
       /\ pc[r] = "repair" =>
            \A a \in Attempts : task[a].status # "NONE" =>
              /\ <<a, 0>> \in todo[r]
              /\ task[a].status \in Terminal => snap[r][a].status \in Terminal
       /\ pc[r] = "create" =>
            \A a \in Attempts : task[a].status # "NONE" =>
              EndRecorded(a) /\ (Recorded(a) \/ <<a, 0>> \in todo[r])
       /\ pc[r] \in Late => \A a \in Attempts : Audited(a)
  /\ wf # "RUNNING" => \A a \in Attempts : Audited(a)

LEMMA BegunStays ==
  ASSUME Sound, OneMoves, StoreKept, NEW a \in Attempts, BegunRecorded(a)
  PROVE  BegunRecorded(a)'
<1>1. <<a, "Started">> \in events => <<a, "Started">> \in events'
  BY DEF StoreKept
<1>2. Begun(a) => <<a, "Started">> \in events'
  BY DEF Begun
<1>3. ~ Begun(a) /\ task'[a].status = "RUNNING" => task[a].status = "RUNNING"
  BY DEF OneMoves, Moved, Lasting, Created, Turns, Ran, Stops, Waits, Wakes, Rejected, StatusOf
<1>4. ~ Begun(a) /\ task[a].status # "RUNNING" => runs'[a] = runs[a]
  BY DEF OneMoves, Moved, Lasting, Created, Turns, Ran, Stops, Waits, Wakes, Rejected, StatusOf
<1> QED
  BY <1>1, <1>2, <1>3, <1>4 DEF BegunRecorded

\* What is on record of an attempt that does not end stays there.
LEMMA AuditStays ==
  ASSUME StoreKept, NEW a \in Attempts
  PROVE  /\ Recorded(a) => Recorded(a)'
         /\ EndRecorded(a) /\ Lasting(a) => EndRecorded(a)'
         /\ task'[a].status \notin Terminal => EndRecorded(a)'
BY DEF StoreKept, Recorded, EndRecorded, Lasting

\* The steps by which an attempt comes to its end.
LEMMA EndStays ==
  ASSUME OneMoves, StoreKept, NEW a \in Attempts, EndRecorded(a),
         \A r \in Reconcilers : ~ RepairMarker(r)
  PROVE  EndRecorded(a)'
<1>1. CASE Lasting(a) \/ task'[a].status \notin Terminal
  BY <1>1, AuditStays
<1>2. CASE Stops(a)
  <2>1. PICK o \in Outcomes :
          /\ Turns(a, "RUNNING", StatusOf(o)) /\ task'[a].failure = FailureOf(o)
          /\ <<a, TerminalEvent(o)>> \in events'
    BY <1>2 DEF Stops
  <2> QED
    BY <2>1 DEF Turns, EndRecorded, TerminalEvent, StatusOf, FailureOf, Outcomes
<1>3. CASE Rejected(a)
  BY <1>3 DEF Rejected, Turns, EndRecorded, TerminalEvent
<1>4. CASE ~ Lasting(a) /\ ~ Stops(a) /\ ~ Rejected(a) /\ task'[a].status \in Terminal
  BY <1>4 DEF OneMoves, Moved, Created, Begun, Turns, Ran, Waits, Wakes, Terminal
<1> QED
  BY <1>1, <1>2, <1>3, <1>4

\* Nothing is created in the repair, and what ends there ends in the snapshot too.
LEMMA RepairStep ==
  ASSUME NEW c, Reconcilers = {c}, Sound, AuditInv, OneMoves, Came(c), pc'[c] = "repair",
         NEW a \in Attempts, task'[a].status # "NONE"
  PROVE  /\ <<a, 0>> \in todo'[c]
         /\ task'[a].status \in Terminal => snap'[c][a].status \in Terminal
<1>1. CASE NextPhase(c)
  <2>1. /\ UNCHANGED task /\ pc[c] = "rejects" /\ todo'[c] = Listed("repair")
        /\ snap'[c] = task
    BY <1>1 DEF NextPhase, Enter, Goto, Following, store, Sound, TypeInv, PrivateInv, PrivateType
  <2> QED
    BY <2>1 DEF Listed
<1>2. CASE RepairMarker(c) /\ ~ LeaveRecoverable(c)
  <2>1. PICK b \in Attempts :
          /\ task[b].status = "RUNNING" /\ snap[c][b].evidence # "none"
          /\ task' = [task EXCEPT ![b] = Finished(@, snap[c][b].evidence)]
          /\ snap' = [snap EXCEPT ![c][b] = Finished(@, snap[c][b].evidence)]
          /\ UNCHANGED todo /\ pc[c] = "repair"
    BY <1>2 DEF RepairMarker, UpdateAccepted
  <2>2. /\ task \in [Attempts -> TaskRecord] /\ snap[c] \in [Attempts -> TaskRecord]
        /\ snap \in [Reconcilers -> [Attempts -> TaskRecord]]
    BY DEF Sound, TypeInv, StoreType, PrivateInv, PrivateType
  <2>3. Finished(snap[c][b], snap[c][b].evidence).status \in Terminal
    BY <2>2 DEF Finished, StatusOf, Terminal, TaskRecord
  <2>4. snap'[c][b].status \in Terminal /\ \A d \in Attempts \ {b} : snap'[c][d] = snap[c][d]
    BY <2>1, <2>2, <2>3
  <2>5. \A d \in Attempts \ {b} : task'[d] = task[d]
    BY <2>1, <2>2
  <2> QED
    BY <2>1, <2>4, <2>5 DEF AuditInv
<1>3. CASE ~ NextPhase(c) /\ ~ RepairMarker(c)
  <2>1. pc[c] = "repair" /\ todo'[c] = todo[c] /\ snap'[c] = snap[c]
    BY <1>3 DEF Came
  <2>2. task[a].status # "NONE" /\ (task'[a].status \in Terminal => task[a].status \in Terminal)
    BY <1>3, <2>1 DEF OneMoves, Moved, Lasting, Created, Begun, Turns, Ran, Stops, Waits, Wakes,
                      Rejected, Terminal
  <2> QED
    BY <2>1, <2>2 DEF AuditInv
<1>4. CASE LeaveRecoverable(c)
  <2>1. pc'[c] = "idle"
    BY <1>4 DEF LeaveRecoverable, Forget, Goto, Sound, TypeInv, PrivateInv, PrivateType
  <2> QED
    BY <2>1
<1> QED
  BY <1>1, <1>2, <1>3, <1>4

\* The repair is left with everything on record.
LEMMA RepairDone ==
  ASSUME NEW c, Reconcilers = {c}, Sound, AuditInv, NextPhase(c), pc'[c] = "create",
         NEW a \in Attempts, task[a].status # "NONE"
  PROVE  Recorded(a) /\ EndRecorded(a)
<1>1. pc[c] = "repair" /\ \A p \in todo[c] : ~ Unfinished(c, p[1])
  BY DEF NextPhase, Enter, Goto, Following, Sound, TypeInv, PrivateInv, PrivateType
<1>2. /\ <<a, 0>> \in todo[c]
      /\ task[a].status \in Terminal => snap[c][a].status \in Terminal
  BY <1>1 DEF AuditInv
<1>3. ~ Unfinished(c, a)
  BY <1>1, <1>2
<1>4. snap[c][a].status \in Terminal =>
        task[a].status = snap[c][a].status /\ task[a].failure = snap[c][a].failure
  BY DEF Sound, RecordsInv, PlaceOK, SnapOK
<1>5. Recorded(a)
  BY <1>3 DEF Unfinished, Queued, Recorded
<1>6. EndRecorded(a)
  BY <1>1, <1>2, <1>3, <1>4 DEF Unfinished, EndRecorded
<1> QED
  BY <1>5, <1>6

LEMMA CreateStep ==
  ASSUME NEW c, Reconcilers = {c}, Sound, AuditInv, OneMoves, StoreKept, Came(c),
         pc'[c] = "create", NEW a \in Attempts, task'[a].status # "NONE"
  PROVE  EndRecorded(a)' /\ (Recorded(a)' \/ <<a, 0>> \in todo'[c])
<1>1. CASE NextPhase(c)
  <2>1. task' = task
    BY <1>1 DEF NextPhase, store
  <2>2. Recorded(a) /\ EndRecorded(a)
    BY <1>1, <2>1, RepairDone
  <2> QED
    BY <2>1, <2>2 DEF StoreKept, Recorded, EndRecorded
<1>2. CASE ~ NextPhase(c)
  <2>1. pc[c] = "create" /\ todo'[c] = todo[c] /\ ~ RepairMarker(c)
    BY <1>2 DEF Came, RepairMarker
  <2>2. CASE task[a].status # "NONE"
    <3>1. EndRecorded(a) /\ (Recorded(a) \/ <<a, 0>> \in todo[c])
      BY <2>1, <2>2 DEF AuditInv
    <3> QED
      BY <2>1, <3>1, EndStays, AuditStays
  <2>3. CASE task[a].status = "NONE"
    <3>1. Created(a)
      BY <2>3 DEF OneMoves, Moved, Lasting, Begun, Turns, Ran, Stops, Waits, Wakes, Rejected
    <3>2. <<a, 0>> \in todo[c] /\ task'[a].status = "PENDING"
      BY <3>1 DEF Created, Turns
    <3> QED
      BY <2>1, <3>2 DEF EndRecorded, Terminal
  <2> QED
    BY <2>2, <2>3
<1> QED
  BY <1>1, <1>2

LEMMA LateStep ==
  ASSUME NEW c, Reconcilers = {c}, Sound, AuditInv, OneMoves, StoreKept, Came(c),
         pc'[c] \in Late, NEW a \in Attempts
  PROVE  Audited(a)'
<1>1. CASE WaveCreated(c)
  <2>1. task' = task /\ pc[c] = "create" /\ \A p \in todo[c] : ~ Unfinished(c, p[1])
    BY <1>1 DEF WaveCreated, store
  <2>2. <<a, 0>> \in todo[c] => Recorded(a)
    BY <2>1 DEF Unfinished, Queued, Recorded
  <2>3. task[a].status # "NONE" => Recorded(a) /\ EndRecorded(a)
    BY <2>1, <2>2 DEF AuditInv
  <2> QED
    BY <2>1, <2>3 DEF Audited, StoreKept, Recorded, EndRecorded
<1>2. CASE pc[c] \in Late
  <2>1. Audited(a) /\ pc[c] # "create" /\ ~ RepairMarker(c)
    BY <1>2 DEF AuditInv, Late, Holding, RepairMarker
  <2>2. task'[a].status # "NONE" => task[a].status # "NONE"
    BY <2>1 DEF OneMoves, Moved, Lasting, Created, Begun, Turns, Ran, Stops, Waits, Wakes, Rejected
  <2> QED
    BY <2>1, <2>2, EndStays, AuditStays DEF Audited
<1> QED
  BY <1>1, <1>2 DEF Came

LEMMA AuditStep ==
  ASSUME NEW c, Reconcilers = {c}, Sound, OutcomeInv, AuditInv, [Next]_vars
  PROVE  AuditInv'
<1>1. OneMoves /\ Came(c) /\ StoreKept
  BY EveryStepMoves, EveryoneCame, EveryStepKeeps DEF Sound
<1>2. (\A a \in Attempts : BegunRecorded(a))'
  BY <1>1, BegunStays DEF AuditInv
<1>3. ASSUME wf' # "RUNNING", NEW a \in Attempts PROVE Audited(a)'
  <2>1. CASE wf = "RUNNING"
    <3>1. CommitOutcome(c)
      BY <1>1, <1>3, <2>1 DEF StoreKept
    <3>2. UNCHANGED <<task, events, members>> /\ pc[c] = "commit"
      BY <3>1 DEF CommitOutcome
    <3>3. Audited(a)
      BY <3>2 DEF AuditInv, Late
    <3> QED
      BY <3>2, <3>3 DEF Audited, Recorded, EndRecorded
  <2>2. CASE wf # "RUNNING"
    <3>1. AtRest /\ pc[c] \in {"idle", "settle"} /\ Audited(a)
      BY <2>2 DEF OutcomeInv, AuditInv
    <3>2. task'[a].status = task[a].status /\ task'[a].failure = task[a].failure
      BY <1>1, <3>1, RestStays
    <3> QED
      BY <1>1, <3>1, <3>2 DEF Audited, Recorded, EndRecorded, StoreKept
  <2> QED
    BY <2>1, <2>2
<1>4. pc'[c] = "repair" =>
        \A a \in Attempts : task'[a].status # "NONE" =>
          /\ <<a, 0>> \in todo'[c]
          /\ task'[a].status \in Terminal => snap'[c][a].status \in Terminal
  BY <1>1, RepairStep
<1>5. pc'[c] = "create" =>
        \A a \in Attempts : task'[a].status # "NONE" =>
          EndRecorded(a)' /\ (Recorded(a)' \/ <<a, 0>> \in todo'[c])
  BY <1>1, CreateStep
<1>6. pc'[c] \in Late => \A a \in Attempts : Audited(a)'
  BY <1>1, LateStep
<1> QED
  BY <1>2, <1>3, <1>4, <1>5, <1>6 DEF AuditInv

\* When the WorkflowExecution is terminal its trail has all of it, whatever
\* crashes and faults came between an attempt's checkpoints: every attempt is
\* listed, was queued, was started if it ran, and ended as its record says.  For
\* one reconciler, whose last _repair_attempt_evidence closes every gap.
THEOREM TrailComplete ==
  ASSUME NEW c, Reconcilers = {c} PROVE Spec => []AuditComplete
<1>1. Init => OutcomeInv /\ AuditInv
  BY DEF Init, OutcomeInv, AuditInv, BegunRecorded, NoSnap, NoRecord, Late, Holding
<1>2. Sound /\ OutcomeInv /\ AuditInv => AuditComplete
  BY DEF AuditInv, AuditComplete, Audited, Recorded, EndRecorded, BegunRecorded, OutcomeInv, AtRest
<1> QED
  BY <1>1, <1>2, AlwaysSound, OutcomeStep, AuditStep, PTL DEF Spec

-----------------------------------------------------------------------------
(* That the rounds of a run are enough.  For the consumer alone, without    *)
(* gates or deferred failures.  A round that is begun and then lost brings   *)
(* about something, an attempt that ends or a fault that is spent, unless    *)
(* nothing is left to do or a handler's fate is unknown (Worth); so that at  *)
(* the end of the last one nothing is left, or every attempt has been made. *)

\* The deployment: its consumer alone, no gates, no failure that is deferred.
Deployment(c) ==
  /\ Reconcilers = {c} /\ Consumers = {c}
  /\ \A t \in Tasks : Gates[t] = 0
  /\ "deferred" \notin Results

LEMMA NoGate == ASSUME \A t \in Tasks : Gates[t] = 0 PROVE AllGates = {}
BY DEF AllGates

\* Nothing is deferred.
PlainRecord(rec) == rec.failure # "deferred" /\ rec.evidence # "deferred"

Plain ==
  /\ \A a \in Attempts : PlainRecord(task[a])
  /\ \A r \in Reconcilers : held[r] # "deferred"

LEMMA PlainKept ==
  ASSUME TypeInv, Plain,
         \/ UNCHANGED task
         \/ \E a \in Attempts, rec \in TaskRecord :
              PlainRecord(rec) /\ task' = [task EXCEPT ![a] = rec],
         \/ UNCHANGED held
         \/ \E r \in Reconcilers, h \in Holdings \ {"deferred"} : held' = [held EXCEPT ![r] = h]
  PROVE  Plain'
<1>1. \A a \in Attempts : PlainRecord(task[a])'
  BY DEF Plain, PlainRecord, TypeInv, StoreType
<1>2. \A r \in Reconcilers : held'[r] # "deferred"
  BY DEF Plain, TypeInv, PrivateInv, PrivateType
<1> QED
  BY <1>1, <1>2 DEF Plain

\* The records that a step writes are of their type and not deferred.
LEMMA PlainWritten ==
  ASSUME TypeInv, Plain, NEW a \in Attempts
  PROVE  LET rec == task[a]
         IN  /\ Woken(rec) \in TaskRecord /\ PlainRecord(Woken(rec))
             /\ \A d \in BOOLEAN : Started(rec, d) \in TaskRecord /\ PlainRecord(Started(rec, d))
             /\ \A o \in Outcomes \ {"deferred"} :
                  /\ Finished(rec, o) \in TaskRecord /\ PlainRecord(Finished(rec, o))
                  /\ \A d \in BOOLEAN :
                       LET out == [rec EXCEPT !.evidence = o, !.diagnosed = d]
                       IN  out \in TaskRecord /\ PlainRecord(out)
<1>1. task[a] \in TaskRecord /\ PlainRecord(task[a])
  BY DEF Plain, TypeInv, StoreType
<1>2. Woken(task[a]) \in TaskRecord /\ PlainRecord(Woken(task[a]))
  BY <1>1, WokenType DEF PlainRecord, Woken, TaskRecord
<1>3. ASSUME NEW d \in BOOLEAN
      PROVE  Started(task[a], d) \in TaskRecord /\ PlainRecord(Started(task[a], d))
  <2>1. Started(task[a], d).failure = task[a].failure /\ Started(task[a], d).evidence = task[a].evidence
    BY <1>1 DEF Started, TaskRecord
  <2> QED
    BY <1>1, <2>1, StartedType DEF PlainRecord
<1>4. ASSUME NEW o \in Outcomes \ {"deferred"}
      PROVE  Finished(task[a], o) \in TaskRecord /\ PlainRecord(Finished(task[a], o))
  BY <1>1, FinishedType DEF PlainRecord, Finished, FailureOf, TaskRecord
<1>5. ASSUME NEW o \in Outcomes \ {"deferred"}, NEW d \in BOOLEAN
      PROVE  LET out == [task[a] EXCEPT !.evidence = o, !.diagnosed = d]
             IN  out \in TaskRecord /\ PlainRecord(out)
  BY <1>1 DEF PlainRecord, TaskRecord
<1> QED
  BY <1>2, <1>3, <1>4, <1>5

LEMMA PlainLeaves ==
  ASSUME TypeInv, Plain, NEW r \in Reconcilers, UNCHANGED task,
         Forget(r) \/ Skip(r) \/ UNCHANGED held
  PROVE  Plain'
BY PlainKept DEF Forget, Skip, Holdings

LEMMA PlainRests ==
  ASSUME TypeInv, Plain, NEW r \in Reconcilers,
         \/ BeginPass(r) \/ NextPhase(r) \/ WaveCreated(r) \/ Attach(r)
         \/ EmitQueued(r) \/ EmitTerminal(r) \/ Take(r) \/ EndPass(r) \/ Settle(r) \/ Crash(r)
  PROVE  Plain'
<1>1. UNCHANGED task /\ (Forget(r) \/ UNCHANGED held)
  BY DEF BeginPass, NextPhase, WaveCreated, Attach, EmitQueued, EmitTerminal, Take, EndPass,
         Settle, Crash, LeaveValueError, LeaveRecoverable, store, private
<1> QED
  BY <1>1, PlainLeaves

LEMMA PlainEnding ==
  ASSUME TypeInv, Plain, NEW r \in Reconcilers, ReadOutcome(r) \/ CommitOutcome(r)
  PROVE  Plain'
<1>1. UNCHANGED task
  BY DEF ReadOutcome, CommitOutcome, store
<1>2. \/ UNCHANGED held
      \/ \E h \in {"SUCCEEDED", "FAILED", "none"} : held' = [held EXCEPT ![r] = h]
  BY DEF ReadOutcome, CommitOutcome
<1> QED
  BY <1>1, <1>2, PlainKept DEF Holdings

LEMMA PlainWake ==
  ASSUME TypeInv, Plain, NEW a \in Attempts, NEW g, WakeTask(a, g), UNCHANGED held
  PROVE  Plain'
<1>1. \/ UNCHANGED task
      \/ task' = [task EXCEPT ![a] = Woken(task[a])]
  BY DEF WakeTask
<1> QED
  BY <1>1, PlainKept, PlainWritten

LEMMA PlainRecovery ==
  ASSUME TypeInv, Plain, AllGates = {}, NEW r \in Reconcilers, RecordsInv, Recovery(r)
  PROVE  Plain'
<1>1. CASE RecoverRequest(r) \/ RecoverWakeup(r)
  BY <1>1 DEF RecordsInv, PlaceOK, TodoOK, RecoverRequest, RecoverWakeup
<1>2. CASE FailRejected(r)
  BY <1>2 DEF RecordsInv, PlaceOK, TodoOK, FailRejected
<1> QED
  BY <1>1, <1>2 DEF Recovery

LEMMA PlainRepair ==
  ASSUME TypeInv, Plain, RecordsInv, NEW r \in Reconcilers, RepairMarker(r) PROVE Plain'
<1>1. CASE LeaveRecoverable(r)
  BY <1>1, PlainLeaves DEF LeaveRecoverable, store
<1>2. CASE ~ LeaveRecoverable(r)
  <2>1. PICK a \in Attempts :
          /\ snap[r][a].evidence # "none"
          /\ task' = [task EXCEPT ![a] = Finished(task[a], snap[r][a].evidence)]
          /\ UNCHANGED held
    BY <1>2 DEF RepairMarker
  <2>2. snap[r][a].evidence \in Outcomes \ {"deferred"}
    BY <2>1 DEF RecordsInv, PlaceOK, SnapOK, Plain, PlainRecord, TypeInv, StoreType, TaskRecord
  <2> QED
    BY <2>1, <2>2, PlainKept, PlainWritten
<1> QED
  BY <1>1, <1>2

LEMMA PlainCreate ==
  ASSUME TypeInv, Plain, NEW r \in Reconcilers, CreateAttempt(r) PROVE Plain'
<1>1. PICK a \in Attempts :
        task' = [task EXCEPT ![a] = IF task[a].status = "NONE" THEN NewRecord ELSE task[a]]
  BY DEF CreateAttempt
<1>2. UNCHANGED held
  BY DEF CreateAttempt
<1>3. NewRecord \in TaskRecord /\ PlainRecord(NewRecord)
  BY NewRecordType DEF NewRecord, NoRecord, PlainRecord
<1>4. task[a] \in TaskRecord /\ PlainRecord(task[a])
  BY DEF Plain, TypeInv, StoreType
<1> QED
  BY <1>1, <1>2, <1>3, <1>4, PlainKept

LEMMA PlainDispatch ==
  ASSUME TypeInv, Plain, NEW r \in Reconcilers, Resume(r) \/ Start(r) \/ Recover(r) \/ Claim(r)
  PROVE  Plain'
<1> DEFINE a == cur[r]
<1>1. a \in Attempts
  BY CurInHand, TypeInv DEF TypeInv, PrivateInv, CurOK, Engaged, Resume, Start, Recover, Claim
<1>2. \/ UNCHANGED task
      \/ task' = [task EXCEPT ![a].diagnosed = TRUE]
      \/ \E d \in BOOLEAN : task' = [task EXCEPT ![a] = Started(task[a], d)]
      \/ task' = [task EXCEPT ![a].dispatch = "CLAIMED", ![a].owner = r]
  BY DEF Resume, Start, Recover, Claim, LeaveRecoverable, store
<1>3. \/ UNCHANGED held
      \/ \E h \in {"none", "pre_commit", "post_commit"} : held' = [held EXCEPT ![r] = h]
  BY DEF Resume, Start, Recover, Claim, Skip, LeaveRecoverable, Forget
<1>4. task[a] \in TaskRecord /\ PlainRecord(task[a])
  BY <1>1 DEF Plain, TypeInv, StoreType
<1>5. \A rec \in TaskRecord :
        PlainRecord(rec) /\ task' = [task EXCEPT ![a] = rec] => Plain'
  BY <1>1, <1>3, PlainKept DEF Holdings
<1>6. CASE UNCHANGED task
  BY <1>3, <1>6, PlainKept DEF Holdings
<1>7. CASE task' = [task EXCEPT ![a].diagnosed = TRUE]
  <2>1. [task[a] EXCEPT !.diagnosed = TRUE] \in TaskRecord
        /\ PlainRecord([task[a] EXCEPT !.diagnosed = TRUE])
    BY <1>4 DEF TaskRecord, PlainRecord
  <2> QED
    BY <1>5, <1>7, <2>1
<1>8. CASE \E d \in BOOLEAN : task' = [task EXCEPT ![a] = Started(task[a], d)]
  BY <1>1, <1>5, <1>8, PlainWritten
<1>9. CASE task' = [task EXCEPT ![a].dispatch = "CLAIMED", ![a].owner = r]
  <2>1. [task[a] EXCEPT !.dispatch = "CLAIMED", !.owner = r] \in TaskRecord
        /\ PlainRecord([task[a] EXCEPT !.dispatch = "CLAIMED", !.owner = r])
    BY <1>4 DEF TaskRecord, PlainRecord
  <2> QED
    BY <1>5, <1>9, <2>1
<1> QED
  BY <1>2, <1>6, <1>7, <1>8, <1>9

LEMMA PlainHandling ==
  ASSUME TypeInv, Plain, RecordsInv, "deferred" \notin Results, AllGates = {},
         NEW r \in Reconcilers, Handling(r)
  PROVE  Plain'
<1> DEFINE a == cur[r]
<1>1. pc[r] \notin {"wait", "request"}
  BY DEF RecordsInv, PlaceOK, TodoOK
<1>2. CASE Execute(r)
  <2>1. UNCHANGED task
    BY <1>2 DEF Execute, store
  <2>2. \/ UNCHANGED held
        \/ \E h \in Results \cup {"policy"} : held' = [held EXCEPT ![r] = h]
    BY <1>2 DEF Execute
  <2>3. Results \cup {"policy"} \subseteq Holdings \ {"deferred"}
    BY SchedulerAssumption DEF Holdings, Outcomes
  <2> QED
    BY <2>1, <2>2, <2>3, PlainKept
<1>3. CASE UNCHANGED task /\ (Forget(r) \/ UNCHANGED held)
  BY <1>3, PlainLeaves
<1>4. CASE /\ PersistEvidence(r) \/ RetryEvidence(r) \/ CommitTerminal(r)
           /\ ~ (UNCHANGED task /\ (Forget(r) \/ UNCHANGED held))
  <2>1. /\ a \in Attempts /\ held[r] \in Outcomes \ {"deferred"}
    BY <1>4 DEF TypeInv, PrivateInv, CurOK, HeldOK, Engaged, Holding, Plain, PersistEvidence,
                RetryEvidence, CommitTerminal
  <2>2. task[a] \in TaskRecord /\ PlainRecord(task[a])
    BY <2>1 DEF Plain, TypeInv, StoreType
  <2>3. CASE CommitTerminal(r)
    <3>1. task' = [task EXCEPT ![a] = Finished(task[a], held[r])] /\ Skip(r)
      BY <1>4, <2>3 DEF CommitTerminal, LeaveRecoverable, store
    <3> QED
      BY <2>1, <3>1, PlainKept, PlainWritten DEF Skip, Holdings
  <2>4. CASE PersistEvidence(r) \/ RetryEvidence(r)
    <3>1. /\ UNCHANGED held
          /\ \/ task' = [task EXCEPT ![a].evidence = held[r]]
             \/ task' = [task EXCEPT ![a].evidence = held[r], ![a].diagnosed = TRUE]
      BY <1>4, <2>4 DEF PersistEvidence, RetryEvidence, LeaveRecoverable, store
    <3>2. PICK d \in BOOLEAN :
            task' = [task EXCEPT ![a] = [task[a] EXCEPT !.evidence = held[r], !.diagnosed = d]]
      <4>1. task[a].diagnosed \in BOOLEAN
            /\ [task[a] EXCEPT !.evidence = held[r]] =
                 [task[a] EXCEPT !.evidence = held[r], !.diagnosed = task[a].diagnosed]
        BY <2>2 DEF TaskRecord
      <4>2. task \in [Attempts -> TaskRecord]
        BY DEF TypeInv, StoreType
      <4>3. [task EXCEPT ![a].evidence = held[r]] =
              [task EXCEPT ![a] = [task[a] EXCEPT !.evidence = held[r]]]
        OBVIOUS
      <4>4. [task EXCEPT ![a].evidence = held[r], ![a].diagnosed = TRUE] =
              [task EXCEPT ![a] = [task[a] EXCEPT !.evidence = held[r], !.diagnosed = TRUE]]
        BY <2>1, <4>2
      <4> QED
        BY <3>1, <4>1, <4>3, <4>4
    <3> QED
      BY <2>1, <3>1, <3>2, PlainKept, PlainWritten
  <2> QED
    BY <1>4, <2>3, <2>4
<1>5. CASE CommitWait(r) \/ RequestApproval(r)
  BY <1>1, <1>5 DEF CommitWait, RequestApproval
<1> QED
  BY <1>2, <1>3, <1>4, <1>5 DEF Handling

LEMMA PlainStep ==
  ASSUME NEW c, Deployment(c), Sound, Plain, [Next]_vars PROVE Plain'
<1>0. AllGates = {} /\ "deferred" \notin Results /\ TypeInv /\ RecordsInv
  BY NoGate DEF Deployment, Sound
<1>1. CASE \E r \in Reconcilers : Step(r) \/ Crash(r)
  BY <1>0, <1>1, PlainRests, PlainEnding, PlainRecovery, PlainRepair, PlainCreate, PlainDispatch,
     PlainHandling
  DEF Step, Listing, Dispatch, Ending
<1>2. CASE Operator
  BY <1>0, <1>2 DEF Operator
<1>3. CASE TimePasses \/ IdlePoll \/ UNCHANGED vars
  <2>1. UNCHANGED <<task, held>>
    BY <1>3 DEF TimePasses, IdlePoll, vars, store, private
  <2> QED
    BY <1>0, <2>1, PlainKept
<1> QED
  BY <1>1, <1>2, <1>3 DEF Next

\* An attempt is only followed by another when it has failed.
InOrder ==
  \A t \in Tasks, n, m \in 1 .. MaxAttempts :
    n < m /\ task[<<t, m>>].status # "NONE" => task[<<t, n>>].status = "FAILED"

NoneWaits == \A a \in Attempts : task[a].status # "AWAITING_APPROVAL"

LEMMA OrderStep ==
  ASSUME TypeInv, OneMoves, InOrder PROVE InOrder'
<1> SUFFICES ASSUME NEW t \in Tasks, NEW n \in 1 .. MaxAttempts, NEW m \in 1 .. MaxAttempts,
                    n < m, task'[<<t, m>>].status # "NONE"
             PROVE  task'[<<t, n>>].status = "FAILED"
  BY DEF InOrder
<1>1. <<t, n>> \in Attempts /\ <<t, m>> \in Attempts
  BY DEF Attempts
<1>2. task[<<t, n>>].status = "FAILED" => task'[<<t, n>>].status = "FAILED"
  BY <1>1 DEF OneMoves, Moved, Lasting, Created, Begun, Turns, Ran, Stops, Waits, Wakes, Rejected
<1>3. CASE task[<<t, m>>].status # "NONE"
  BY <1>2, <1>3 DEF InOrder
<1>4. CASE task[<<t, m>>].status = "NONE"
  <2>1. Created(<<t, m>>)
    BY <1>1, <1>4 DEF OneMoves, Moved, Lasting, Begun, Turns, Ran, Stops, Waits, Wakes, Rejected
  <2>2. m > 1 /\ task[<<t, m - 1>>].status = "FAILED"
    BY <1>4, <2>1 DEF Created, Follows
  <2>3. n = m - 1 \/ n < m - 1
    OBVIOUS
  <2>4. m - 1 \in 1 .. MaxAttempts
    BY <2>2, TasksAssumption
  <2>5. task[<<t, n>>].status = "FAILED"
    BY <2>2, <2>3, <2>4 DEF InOrder
  <2> QED
    BY <1>2, <2>5
<1> QED
  BY <1>3, <1>4

LEMMA WaitsStep ==
  ASSUME NEW c, Deployment(c), TypeInv, OneMoves, NoneWaits PROVE NoneWaits'
<1>1. AllGates = {}
  BY NoGate DEF Deployment
<1>2. \A a \in Attempts : ~ Waits(a)
  BY <1>1 DEF Waits, TypeInv, PrivateInv, WaitOK
<1> QED
  BY <1>2 DEF NoneWaits, OneMoves, Moved, Lasting, Created, Begun, Turns, Ran, Stops, Wakes,
              Rejected, StatusOf

\* A fault is counted, up to the bound.
LEMMA FaultsStep ==
  ASSUME TypeInv, faults <= MaxFaults, [Next]_vars
  PROVE  faults' \in {faults, faults + 1} /\ faults' <= MaxFaults
<1>0. faults \in Nat /\ MaxFaults \in Nat
  BY SchedulerAssumption DEF TypeInv, RestType
<1>1. ASSUME NEW r \in Reconcilers, Step(r) \/ Crash(r) PROVE UNCHANGED faults \/ Fault
  <2>1. CASE BeginPass(r) \/ Recovery(r) \/ Listing(r) \/ Ending(r) \/ Crash(r) \/ Take(r)
    BY <2>1 DEF BeginPass, Recovery, RecoverRequest, RecoverWakeup, FailRejected, Listing,
                NextPhase, WaveCreated, Attach, EmitQueued, RepairMarker, EmitTerminal,
                CreateAttempt, Ending, EndPass, ReadOutcome, CommitOutcome, Settle, Crash, Take, bounds
  <2>2. CASE Dispatch(r) \/ Handling(r)
    BY <2>1, <2>2 DEF Dispatch, Resume, Start, Recover, Claim, Handling, Execute, PersistEvidence,
                RetryEvidence, CommitTerminal, CommitWait, RequestApproval, NoFault, bounds
  <2> QED
    BY <1>1, <2>1, <2>2 DEF Step
<1>2. CASE Operator \/ TimePasses \/ IdlePoll \/ UNCHANGED vars
  BY <1>0, <1>2 DEF Operator, Decide, RepeatDecision, DecideWake, DecideCrash, TimePasses, IdlePoll, vars,
              bounds
<1> QED
  BY <1>0, <1>1, <1>2 DEF Next, Fault

\* What the passes of a run have brought about: an attempt that is over, or a
\* fault that cost one.
DoneAttempts == {a \in Attempts : task[a].status \in Terminal}
Effort == Cardinality(DoneAttempts) + faults

Settled == AtRest /\ ReadyWave(task, due) = {}

LEMMA AttemptsCounted ==
  /\ IsFiniteSet(Attempts) /\ Cardinality(Attempts) = MaxAttempts * Cardinality(Tasks)
  /\ Cardinality(Attempts) \in Nat
<1>1. IsFiniteSet(1 .. MaxAttempts) /\ Cardinality(1 .. MaxAttempts) = MaxAttempts
  BY FS_Interval, TasksAssumption
<1>2. Cardinality(Tasks) \in Nat
  BY FS_CardinalityType, TasksAssumption
<1>3. /\ IsFiniteSet(Attempts)
      /\ Cardinality(Attempts) = Cardinality(Tasks) * Cardinality(1 .. MaxAttempts)
  BY <1>1, FS_Product, TasksAssumption DEF Attempts
<1> QED
  BY <1>1, <1>2, <1>3, FS_CardinalityType, TasksAssumption

LEMMA DoneCounted ==
  /\ IsFiniteSet(DoneAttempts) /\ Cardinality(DoneAttempts) \in Nat
  /\ Cardinality(DoneAttempts) <= Cardinality(Attempts)
  /\ Cardinality(DoneAttempts) = Cardinality(Attempts) => DoneAttempts = Attempts
<1>1. DoneAttempts \subseteq Attempts
  BY DEF DoneAttempts
<1> QED
  BY <1>1, FS_Subset, FS_CardinalityType, AttemptsCounted

LEMMA DoneStays ==
  ASSUME OneMoves
  PROVE  /\ DoneAttempts \subseteq DoneAttempts'
         /\ IsFiniteSet(DoneAttempts') /\ Cardinality(DoneAttempts') \in Nat
         /\ Cardinality(DoneAttempts') >= Cardinality(DoneAttempts)
         /\ DoneAttempts' # DoneAttempts => Cardinality(DoneAttempts') > Cardinality(DoneAttempts)
<1>1. DoneAttempts \subseteq DoneAttempts'
  BY DEF DoneAttempts, Terminal, OneMoves, Moved, Lasting, Created, Begun, Turns, Ran, Stops, Waits, Wakes, Rejected
<1>2. DoneAttempts' \subseteq Attempts
  BY DEF DoneAttempts
<1>3. IsFiniteSet(DoneAttempts') /\ Cardinality(DoneAttempts') \in Nat
  BY <1>2, FS_Subset, FS_CardinalityType, AttemptsCounted
<1>4. Cardinality(DoneAttempts) \in Nat
  BY DoneCounted
<1> QED
  BY <1>1, <1>3, <1>4, FS_Subset

\* Effort grows with every fault and every attempt that ends.
LEMMA EffortGrows ==
  ASSUME TypeInv, OneMoves, faults' \in {faults, faults + 1}
  PROVE  /\ Effort \in Nat /\ Effort' \in Nat /\ Effort' >= Effort
         /\ faults' = faults + 1 \/ DoneAttempts' # DoneAttempts => Effort' >= Effort + 1
<1>1. faults \in Nat
  BY DEF TypeInv, RestType
<1> QED
  BY <1>1, DoneCounted, DoneStays DEF Effort

\* Whatever is settled stays so: there is no attempt to create and none to run.
LEMMA SettledStays ==
  ASSUME TypeInv, Plain, InOrder, OneMoves, Settled PROVE Settled'
<1>1. ASSUME NEW a \in Attempts PROVE ~ Created(a)
  <2> SUFFICES ASSUME Created(a) PROVE FALSE
    OBVIOUS
  <2>1. PICK t \in Tasks, n \in 1 .. MaxAttempts : a = <<t, n>>
    BY DEF Attempts
  <2>2. task[a].status = "NONE" /\ DependenciesSucceeded(task, a[1]) /\ Follows(a)
    BY DEF Created, Turns
  <2>3. CASE n = 1
    <3>1. a \in ReadyWave(task, due)
      BY <2>1, <2>2, <2>3 DEF ReadyWave
    <3> QED
      BY <3>1 DEF Settled
  <2>4. CASE n # 1
    <3>1. /\ n > 1 /\ n - 1 \in 1 .. MaxAttempts /\ <<t, n - 1>> \in Attempts
          /\ task[<<t, n - 1>>].status = "FAILED"
          /\ task[<<t, n - 1>>].failure \in {"recoverable", "deferred"}
      BY <2>1, <2>2, <2>4, TasksAssumption DEF Follows, Attempts
    <3>2. task[<<t, n - 1>>].failure = "recoverable"
      BY <3>1 DEF Plain, PlainRecord
    <3>3. \A m \in 1 .. MaxAttempts : m > n - 1 => task[<<t, m>>].status = "NONE"
      <4> SUFFICES ASSUME NEW m \in 1 .. MaxAttempts, m > n - 1, task[<<t, m>>].status # "NONE"
                   PROVE  FALSE
        OBVIOUS
      <4>1. m = n \/ n < m
        OBVIOUS
      <4> QED
        BY <2>1, <2>2, <4>1 DEF InOrder
    <3>4. IsLatest(task, <<t, n - 1>>)
      BY <3>1, <3>3 DEF IsLatest
    <3>5. RetryIsReady(task[<<t, n - 1>>], <<t, n - 1>>, due)
      BY <3>1, <3>2 DEF RetryIsReady
    <3>6. a \in ReadyWave(task, due)
      BY <2>1, <2>2, <3>1, <3>4, <3>5 DEF ReadyWave
    <3> QED
      BY <3>6 DEF Settled
  <2> QED
    BY <2>3, <2>4
<1>2. \A a \in Attempts : Lasting(a)
  BY <1>1 DEF Settled, AtRest, OneMoves, Moved, Begun, Turns, Ran, Stops, Waits, Wakes, Rejected, Terminal
<1>3. AtRest'
  BY <1>2 DEF Settled, AtRest, Lasting
<1>4. ReadyWave(task, due)' = {}
  <2> SUFFICES ASSUME NEW a \in Attempts, a \in ReadyWave(task, due)' PROVE FALSE
    BY DEF ReadyWave
  <2>1. PICK t \in Tasks, n \in 1 .. MaxAttempts : a = <<t, n>>
    BY DEF Attempts
  <2>2. DependenciesSucceeded(task, t)
    <3>1. DependenciesSucceeded(task', t)
      BY <2>1 DEF ReadyWave, DependenciesSucceeded
    <3>2. ASSUME NEW d \in Deps[t], NEW m \in 1 .. MaxAttempts
          PROVE  task'[<<d, m>>].status = task[<<d, m>>].status
      <4>1. <<d, m>> \in Attempts
        BY TasksAssumption DEF Attempts
      <4> QED
        BY <1>2, <4>1 DEF Lasting
    <3> QED
      BY <3>1, <3>2 DEF DependenciesSucceeded
  <2>3. /\ task[a].status = "NONE"
        /\ \/ n = 1
           \/ /\ n > 1 /\ IsLatest(task', <<t, n - 1>>)
              /\ RetryIsReady(task'[<<t, n - 1>>], <<t, n - 1>>, due')
    BY <1>2, <1>3, <2>1 DEF ReadyWave, AtRest, Lasting, Terminal
  <2>4. CASE n = 1
    <3>1. a \in ReadyWave(task, due)
      BY <2>1, <2>2, <2>3, <2>4 DEF ReadyWave
    <3> QED
      BY <3>1 DEF Settled
  <2>5. CASE n # 1
    <3>1. n - 1 \in 1 .. MaxAttempts /\ <<t, n - 1>> \in Attempts
      BY <2>5, TasksAssumption DEF Attempts
    <3>2. /\ task[<<t, n - 1>>].status = task'[<<t, n - 1>>].status
          /\ task[<<t, n - 1>>].failure = task'[<<t, n - 1>>].failure
      BY <1>2, <3>1 DEF Lasting
    <3>3. IsLatest(task, <<t, n - 1>>)
      BY <1>2, <2>3, <2>5, <3>1 DEF IsLatest, Lasting, Attempts
    <3>4. task[<<t, n - 1>>].status = "FAILED" /\ task[<<t, n - 1>>].failure = "recoverable"
      BY <2>3, <2>5, <3>1, <3>2 DEF RetryIsReady, Plain, PlainRecord
    <3>5. RetryIsReady(task[<<t, n - 1>>], <<t, n - 1>>, due)
      BY <3>4 DEF RetryIsReady
    <3>6. a \in ReadyWave(task, due)
      BY <2>1, <2>2, <2>3, <2>5, <3>3, <3>5 DEF ReadyWave
    <3> QED
      BY <3>6 DEF Settled
  <2> QED
    BY <2>4, <2>5
<1> QED
  BY <1>3, <1>4 DEF Settled

\* A record that a step leaves as it is, as far as dispatch goes.
SameDispatch(a) ==
  /\ task'[a].status = task[a].status /\ task'[a].dispatch = task[a].dispatch
  /\ task'[a].evidence = task[a].evidence

\* A step that writes no record and takes up no dispatch leaves it abandoned.
LEMMA AbandonedRests ==
  ASSUME NEW c, Reconcilers = {c}, NEW a \in Attempts, Abandoned(a), SameDispatch(a),
         pc'[c] \in Holding => cur'[c] # a \/ (pc[c] \in Holding /\ cur'[c] = cur[c])
  PROVE  Abandoned(a)'
BY DEF Abandoned, SameDispatch

\* Nobody writes to an attempt whose dispatcher is gone.
LEMMA AbandonedSame ==
  ASSUME NEW c, Reconcilers = {c}, Sound, [Next]_vars, NEW a \in Attempts, Abandoned(a)
  PROVE  SameDispatch(a)
<1>0. /\ c \in Reconcilers /\ task \in [Attempts -> TaskRecord]
      /\ task[a].status = "RUNNING" /\ task[a].dispatch = "CLAIMED"
      /\ task[a].evidence = "none" /\ ~ (pc[c] \in Holding /\ cur[c] = a)
  BY DEF Abandoned, Sound, TypeInv, StoreType
<1>1. CASE UNCHANGED task
  BY <1>1 DEF SameDispatch
<1>2. ASSUME NEW b, NEW rec, b # a, task' = [task EXCEPT ![b] = rec] PROVE SameDispatch(a)
  BY <1>0, <1>2 DEF SameDispatch
<1>3. CASE \/ BeginPass(c) \/ NextPhase(c) \/ WaveCreated(c) \/ Attach(c) \/ EmitQueued(c)
           \/ EmitTerminal(c) \/ Take(c) \/ Execute(c) \/ Ending(c) \/ Crash(c)
           \/ TimePasses \/ IdlePoll \/ UNCHANGED vars
  <2>1. UNCHANGED task
    BY <1>3 DEF BeginPass, NextPhase, WaveCreated, Attach, EmitQueued, EmitTerminal, Take, Execute,
                Ending, EndPass, ReadOutcome, CommitOutcome, Settle, Crash, TimePasses, IdlePoll,
                LeaveValueError, LeaveRecoverable, store, vars, private
  <2> QED
    BY <1>1, <2>1
<1>4. CASE RecoverRequest(c) \/ RequestApproval(c)
  <2>1. \/ UNCHANGED task
        \/ \E p \in todo[c] : /\ task[p[1]].status = "AWAITING_APPROVAL"
                              /\ task' = [task EXCEPT ![p[1]].approvalId = p[2]]
    BY <1>4 DEF RecoverRequest, RequestApproval, Request, BindOutcome, LeaveValueError,
                LeaveRecoverable, store
  <2> QED
    BY <1>0, <1>1, <1>2, <2>1
<1>5. CASE RecoverWakeup(c) \/ \E b \in Attempts, g \in AllGates : DecideWake(b, g)
  <2>1. PICK b, g : WakeTask(b, g)
    BY <1>5 DEF RecoverWakeup, DecideWake
  <2>2. \/ UNCHANGED task
        \/ /\ task[b].status \in {"AWAITING_APPROVAL", "PENDING"}
           /\ task' = [task EXCEPT ![b] = Woken(task[b])]
    BY <2>1 DEF WakeTask, WakeApplies
  <2> QED
    BY <1>0, <1>1, <1>2, <2>2
<1>6. CASE FailRejected(c) \/ RepairMarker(c) \/ CreateAttempt(c)
  <2>1. \/ UNCHANGED task
        \/ \E p : /\ task[p].status = "AWAITING_APPROVAL"
                  /\ task' = [task EXCEPT ![p] = Finished(task[p], "policy")]
        \/ \E b \in Attempts :
             /\ snap[c][b].evidence # "none"
             /\ task' = [task EXCEPT ![b] = Finished(task[b], snap[c][b].evidence)]
        \/ \E b \in Attempts :
             task' = [task EXCEPT ![b] = IF task[b].status = "NONE" THEN NewRecord ELSE task[b]]
    BY <1>6 DEF FailRejected, RepairMarker, CreateAttempt, UpdateAccepted, LeaveRecoverable, store
  <2>2. snap[c][a].evidence = "none"
    BY <1>0 DEF Sound, RecordsInv, PlaceOK, SnapOK
  <2>3. CASE \E b \in Attempts :
               task' = [task EXCEPT ![b] = IF task[b].status = "NONE" THEN NewRecord ELSE task[b]]
    BY <1>0, <2>3 DEF SameDispatch
  <2> QED
    BY <1>0, <1>1, <1>2, <2>1, <2>2, <2>3
<1>7. CASE Resume(c) \/ Start(c) \/ Recover(c) \/ Claim(c)
  <2>1. \/ UNCHANGED task
        \/ task' = [task EXCEPT ![cur[c]].diagnosed = TRUE]
        \/ /\ task[cur[c]].dispatch = "none" \/ task[cur[c]].status = "PENDING"
           /\ \E d \in BOOLEAN : task' = [task EXCEPT ![cur[c]] = Started(task[cur[c]], d)]
        \/ /\ task[cur[c]].dispatch = "PENDING"
           /\ task' = [task EXCEPT ![cur[c]].dispatch = "CLAIMED", ![cur[c]].owner = c]
    BY <1>7 DEF Resume, Start, StartAccepted, Recover, Claim, ClaimAccepted, LeaveRecoverable, store
  <2>2. CASE task' = [task EXCEPT ![cur[c]].diagnosed = TRUE]
    BY <1>0, <2>2 DEF SameDispatch, TaskRecord
  <2>3. CASE /\ task[cur[c]].dispatch = "PENDING"
             /\ task' = [task EXCEPT ![cur[c]].dispatch = "CLAIMED", ![cur[c]].owner = c]
    BY <1>0, <2>3 DEF SameDispatch
  <2> QED
    BY <1>0, <1>1, <1>2, <2>1, <2>2, <2>3
<1>8. CASE PersistEvidence(c) \/ RetryEvidence(c) \/ CommitTerminal(c) \/ CommitWait(c)
  <2>1. cur[c] # a
    BY <1>0, <1>8 DEF PersistEvidence, RetryEvidence, CommitTerminal, CommitWait, Holding
  <2>2. \A b \in Attempts : b # cur[c] => task'[b] = task[b]
    BY <1>0, <1>8 DEF PersistEvidence, RetryEvidence, CommitTerminal, CommitWait,
                      LeaveRecoverable, store
  <2> QED
    BY <2>1, <2>2 DEF SameDispatch
<1>9. CASE Operator
  BY <1>1, <1>5, <1>9 DEF Operator, Decide, RepeatDecision, DecideCrash, store
<1> QED
  BY <1>3, <1>4, <1>5, <1>6, <1>7, <1>8, <1>9
  DEF Next, Step, Recovery, Listing, Dispatch, Handling

\* A reconciler comes to hold an attempt by a claim only.
LEMMA HoldingCame ==
  ASSUME TypeInv, NEW r \in Reconcilers, Step(r) \/ Crash(r), pc'[r] \in Holding
  PROVE  \/ Claim(r) /\ ClaimAccepted(task[cur[r]]) /\ cur'[r] = cur[r]
         \/ pc[r] \in Holding /\ cur'[r] = cur[r]
<1>1. ~ Forget(r) /\ ~ Skip(r)
  BY DEF Forget, Skip, Goto, Holding, TypeInv, PrivateInv, PrivateType
<1>2. ~ (BeginPass(r) \/ Recovery(r) \/ Listing(r))
  <2>1. CASE BeginPass(r)
    BY <1>1, <2>1 DEF BeginPass, Enter, LeaveValueError, Goto, Holding, TypeInv, PrivateInv, PrivateType
  <2>2. CASE Recovery(r)
    BY <1>1, <2>2 DEF Recovery, RecoverRequest, RecoverWakeup, FailRejected, Request,
                      LeaveRecoverable, LeaveValueError, Holding
  <2>3. CASE Listing(r)
    BY <1>1, <2>3 DEF Listing, NextPhase, Enter, Following, WaveCreated, Attach, EmitQueued,
                      RepairMarker, EmitTerminal, CreateAttempt, LeaveRecoverable, private, Goto,
                      Holding, TypeInv, PrivateInv, PrivateType
  <2> QED
    BY <2>1, <2>2, <2>3
<1>3. ~ (Ending(r) \/ Crash(r))
  BY <1>1 DEF Ending, EndPass, ReadOutcome, CommitOutcome, Settle, Crash, Goto, Holding, TypeInv,
              PrivateInv, PrivateType
<1>4. CASE Dispatch(r)
  BY <1>1, <1>4 DEF Dispatch, Take, Resume, Start, Recover, Claim, LeaveRecoverable, Goto, Holding,
                    TypeInv, PrivateInv, PrivateType
<1>5. CASE Handling(r)
  BY <1>1, <1>5 DEF Handling, Execute, PersistEvidence, RetryEvidence, CommitTerminal, CommitWait,
                    RequestApproval, Request, LeaveRecoverable, LeaveValueError, Goto, Holding,
                    TypeInv, PrivateInv, PrivateType
<1> QED
  BY <1>2, <1>3, <1>4, <1>5 DEF Step

LEMMA AbandonedStays ==
  ASSUME NEW c, Reconcilers = {c}, Sound, [Next]_vars, NEW a \in Attempts, Abandoned(a)
  PROVE  Abandoned(a)'
<1>1. SameDispatch(a)
  BY AbandonedSame
<1>2. CASE Step(c) \/ Crash(c)
  BY <1>1, <1>2, HoldingCame, AbandonedRests DEF Sound, ClaimAccepted, Abandoned
<1>3. CASE Operator \/ TimePasses \/ IdlePoll \/ UNCHANGED vars
  <2>1. UNCHANGED <<pc, cur>>
    BY <1>3 DEF Operator, Decide, RepeatDecision, DecideWake, DecideCrash, TimePasses, IdlePoll,
                vars, private
  <2> QED
    BY <1>1, <2>1, AbandonedRests
<1> QED
  BY <1>2, <1>3 DEF Next

\* What a pass has read of the records still holds in the parts that list them,
\* for the only reconciler.
Fresh(r) == pc[r] \in {"repair", "create"} => snap[r] = task

LEMMA ListingOnly ==
  ASSUME NEW r, Step(r), pc[r] \in {"repair", "create"} PROVE Listing(r)
BY DEF Step, BeginPass, Recovery, RecoverRequest, RecoverWakeup, FailRejected, Dispatch, Take,
       Resume, Start, Recover, Claim, Handling, Execute, PersistEvidence, RetryEvidence,
       CommitTerminal, CommitWait, RequestApproval, Ending, EndPass, ReadOutcome, CommitOutcome, Settle

LEMMA FreshStep ==
  ASSUME NEW c, Deployment(c), Sound, Fresh(c), [Next]_vars PROVE Fresh(c)'
<1>0. /\ AllGates = {} /\ Reconcilers = {c} /\ c \in Reconcilers /\ TypeInv
      /\ task \in [Attempts -> TaskRecord] /\ snap \in [Reconcilers -> [Attempts -> TaskRecord]]
      /\ pc \in [Reconcilers -> Phases]
  BY NoGate DEF Deployment, Sound, TypeInv, StoreType, PrivateInv, PrivateType
<1> SUFFICES ASSUME pc'[c] \in {"repair", "create"} PROVE snap'[c] = task'
  BY DEF Fresh
<1>1. CASE NextPhase(c)
  BY <1>0, <1>1 DEF NextPhase, Enter, store
<1>2. CASE ~ NextPhase(c)
  <2>1. pc[c] \in {"repair", "create"} /\ snap[c] = task
    BY <1>0, <1>2, EveryoneCame DEF Came, Fresh
  <2>2. ~ Forget(c)
    BY <1>0 DEF Forget, Goto
  <2>3. CASE Attach(c) \/ EmitQueued(c) \/ EmitTerminal(c) \/ WaveCreated(c)
    BY <2>1, <2>2, <2>3 DEF Attach, EmitQueued, EmitTerminal, WaveCreated, LeaveRecoverable, private, store
  <2>4. CASE RepairMarker(c)
    <3>1. PICK a \in Attempts :
            /\ task' = [task EXCEPT ![a] = Finished(task[a], snap[c][a].evidence)]
            /\ snap' = [snap EXCEPT ![c][a] = Finished(snap[c][a], snap[c][a].evidence)]
      BY <2>2, <2>4 DEF RepairMarker, LeaveRecoverable
    <3> QED
      BY <1>0, <2>1, <3>1
  <2>5. CASE CreateAttempt(c)
    <3>1. PICK a \in Attempts :
            /\ task' = [task EXCEPT ![a] = IF task[a].status = "NONE" THEN NewRecord ELSE task[a]]
            /\ snap' = [snap EXCEPT ![c][a] = task'[a]]
      BY <2>5 DEF CreateAttempt
    <3> QED
      BY <1>0, <2>1, <3>1
  <2>6. CASE Step(c)
    BY <1>2, <2>1, <2>3, <2>4, <2>5, <2>6, ListingOnly DEF Listing
  <2>7. CASE Crash(c)
    BY <2>2, <2>7 DEF Crash
  <2>8. CASE Operator
    BY <1>0, <2>8 DEF Operator
  <2>9. CASE TimePasses \/ IdlePoll \/ UNCHANGED vars
    BY <2>1, <2>9 DEF TimePasses, IdlePoll, vars, store, private
  <2> QED
    BY <1>0, <2>6, <2>7, <2>8, <2>9 DEF Next
<1> QED
  BY <1>1, <1>2

\* An attempt that the next dispatch takes up.
Live(a) ==
  \/ task[a].status = "PENDING"
  \/ task[a].status = "RUNNING" /\ task[a].dispatch = "PENDING"

\* A pass that has brought nothing about yet is on its way to it.
Pursued(r) ==
  \/ pc[r] \in {"requests", "wakeups", "rejects", "repair", "execute", "evidence", "terminal", "settle"}
  \/ /\ pc[r] = "create" /\ todo[r] # {}
     /\ \A p \in todo[r] : p[1] \in Attempts /\ (task[p[1]].status = "NONE" \/ Live(p[1]))
  \/ /\ pc[r] = "dispatch" /\ sched[r] # {}
     /\ \A a \in sched[r] : Live(a) /\ snap[r][a] = task[a]
  \/ /\ pc[r] = "start" /\ task[cur[r]].status = "PENDING"
     /\ snap[r][cur[r]].status = "PENDING"
  \/ /\ pc[r] \in {"resume", "claim"}
     /\ task[cur[r]].status = "RUNNING" /\ task[cur[r]].dispatch = "PENDING"

Lost == \E a \in Attempts : Abandoned(a)

\* What the passes of a run have brought about, one for each, unless there is
\* nothing left to bring about or a handler's fate is unknown.
Worth(r) ==
  \/ Settled \/ Lost
  \/ Effort >= round[r]
  \/ Effort + 1 >= round[r] /\ Pursued(r)

\* The wave is empty once the repair is through and nothing is left.
LEMMA EmptyWave ==
  ASSUME NEW c, Deployment(c), Sound, NoneWaits, InOrder, Fresh(c), AuditInv,
         pc[c] = "repair", \A p \in todo[c] : ~ Unfinished(c, p[1]), ReadyWave(task, due) = {}
  PROVE  Settled \/ Lost
<1> SUFFICES ASSUME NEW a \in Attempts, task[a].status \notin Terminal \cup {"NONE"}
             PROVE  Abandoned(a)
  BY DEF Settled, AtRest, Lost
<1>0. Reconcilers = {c} /\ snap[c] = task
  BY DEF Deployment, Fresh
<1>1. task[a] \in TaskRecord /\ task[a].status \in {"PENDING", "RUNNING"}
  BY DEF Sound, TypeInv, StoreType, TaskRecord, Statuses, Terminal, NoneWaits
<1>2. RecordShape(a) /\ DependenciesSucceeded(task, a[1])
  BY <1>1 DEF Sound, RecordsInv, AttemptOK, Unblocked
<1>3. IsLatest(task, a)
  <2>1. PICK t \in Tasks, n \in 1 .. MaxAttempts : a = <<t, n>>
    BY DEF Attempts
  <2> QED
    BY <1>1, <2>1 DEF IsLatest, InOrder
<1>4. task[a].status = "RUNNING" /\ task[a].dispatch # "PENDING"
  <2>1. a \notin ReadyWave(task, due)
    OBVIOUS
  <2> QED
    BY <1>1, <1>2, <1>3, <2>1 DEF ReadyWave
<1>5. task[a].dispatch = "CLAIMED"
  BY <1>1, <1>2, <1>4 DEF RecordShape, TaskRecord
<1>6. task[a].evidence = "none"
  <2>1. <<a, 0>> \in todo[c]
    BY <1>0, <1>1 DEF AuditInv
  <2>2. ~ Unfinished(c, a)
    BY <2>1
  <2> QED
    BY <1>0, <1>4, <2>2 DEF Unfinished
<1>7. pc[c] \notin Holding
  BY DEF Holding
<1> QED
  BY <1>0, <1>4, <1>5, <1>6, <1>7 DEF Abandoned

\* All that the rounds of a run rest on.
RoundsInv ==
  /\ Plain /\ NoneWaits /\ InOrder /\ faults <= MaxFaults
  /\ \A r \in Reconcilers :
       /\ Fresh(r) /\ Worth(r)
       /\ pc[r] \in {"outcome", "commit"} => round[r] = Rounds
  /\ wf = "FAILED" => Settled \/ Effort >= Rounds

\* Everything but the passes, for one step.
Base == Sound /\ OutcomeInv /\ AuditInv

\* How a step that the pass of c makes, once more, is worth it.
Pays(c) ==
  \/ Settled' \/ Lost'
  \/ round'[c] = 0
  \/ faults' = faults + 1 \/ DoneAttempts' # DoneAttempts
  \/ Pursued(c)'

LEMMA ForgetPays ==
  ASSUME NEW c \in Consumers, TypeInv, Forget(c) PROVE Pays(c)
BY SchedulerAssumption DEF Forget, Pays, TypeInv, PrivateInv, PrivateType

LEMMA LeavePays ==
  ASSUME NEW c \in Consumers, TypeInv, LeaveRecoverable(c) \/ LeaveValueError(c) PROVE Pays(c)
BY ForgetPays DEF LeaveRecoverable, LeaveValueError

LEMMA EndingPays ==
  ASSUME NEW a \in Attempts, task[a].status \notin Terminal, task'[a].status \in Terminal, NEW c
  PROVE  Pays(c)
BY DEF Pays, DoneAttempts

LEMMA RecoveryPays ==
  ASSUME NEW c \in Consumers, TypeInv, Recovery(c) PROVE Pays(c)
<1>1. CASE LeaveRecoverable(c) \/ LeaveValueError(c)
  BY <1>1, LeavePays
<1>2. CASE ~ (LeaveRecoverable(c) \/ LeaveValueError(c))
  <2>1. pc'[c] = pc[c] /\ pc[c] \in {"requests", "wakeups", "rejects"}
    BY <1>2 DEF Recovery, RecoverRequest, RecoverWakeup, FailRejected, Request
  <2> QED
    BY <2>1 DEF Pays, Pursued
<1> QED
  BY <1>1, <1>2

LEMMA NextPhasePays ==
  ASSUME NEW c, Deployment(c), Base, NoneWaits, InOrder, Fresh(c), NextPhase(c) PROVE Pays(c)
<1>0. /\ c \in Reconcilers /\ c \in Consumers
      /\ pc \in [Reconcilers -> Phases] /\ todo \in [Reconcilers -> SUBSET (Attempts \X Binding)]
      /\ task \in [Attempts -> TaskRecord]
  BY DEF Deployment, Base, Sound, TypeInv, StoreType, PrivateInv, PrivateType
<1>1. /\ pc'[c] = Following[pc[c]] /\ pc[c] \in DOMAIN Following
      /\ UNCHANGED <<task, due>> /\ todo'[c] = Listed(Following[pc[c]])
  BY <1>0 DEF NextPhase, Enter, Goto, store, outside
<1>2. CASE pc[c] # "repair"
  <2>1. pc'[c] \in {"wakeups", "rejects", "repair"}
    BY <1>1, <1>2 DEF Following
  <2> QED
    BY <2>1 DEF Pays, Pursued
<1>3. CASE pc[c] = "repair"
  <2>1. /\ pc'[c] = "create" /\ todo'[c] = {<<a, 0>> : a \in ReadyWave(task, due)}
        /\ \A p \in todo[c] : ~ Unfinished(c, p[1])
    BY <1>1, <1>3 DEF Following, Listed, NextPhase
  <2>2. CASE ReadyWave(task, due) = {}
    <3>1. Settled \/ Lost
      BY <1>3, <2>1, <2>2, EmptyWave DEF Base
    <3>2. Settled => Settled'
      BY <1>1 DEF Settled, AtRest, ReadyWave, DependenciesSucceeded, IsLatest, RetryIsReady
    <3>3. Lost => Lost'
      <4>1. pc'[c] \notin Holding
        BY <2>1 DEF Holding
      <4> QED
        BY <1>1, <4>1 DEF Lost, Abandoned, Deployment
    <3> QED
      BY <3>1, <3>2, <3>3 DEF Pays
  <2>3. CASE ReadyWave(task, due) # {}
    <3>1. todo'[c] # {}
      BY <2>1, <2>3
    <3>2. ASSUME NEW p \in todo'[c]
          PROVE  p[1] \in Attempts /\ (task'[p[1]].status = "NONE" \/ Live(p[1])')
      <4>1. p[1] \in ReadyWave(task, due)
        BY <2>1, <3>2
      <4>2. p[1] \in Attempts /\ (task[p[1]].status = "NONE" \/ Live(p[1]))
        BY <4>1 DEF ReadyWave, Live
      <4> QED
        BY <1>1, <4>2 DEF Live
    <3> QED
      BY <2>1, <3>1, <3>2 DEF Pays, Pursued
  <2> QED
    BY <2>2, <2>3
<1> QED
  BY <1>2, <1>3

LEMMA ListingPays ==
  ASSUME NEW c, Deployment(c), Base, NoneWaits, InOrder, Fresh(c), Pursued(c), Listing(c)
  PROVE  Pays(c)
<1>0. /\ c \in Reconcilers /\ c \in Consumers /\ TypeInv
      /\ pc \in [Reconcilers -> Phases] /\ todo \in [Reconcilers -> SUBSET (Attempts \X Binding)]
      /\ task \in [Attempts -> TaskRecord] /\ sched \in [Reconcilers -> SUBSET Attempts]
      /\ snap \in [Reconcilers -> [Attempts -> TaskRecord]]
  BY DEF Deployment, Base, Sound, TypeInv, StoreType, PrivateInv, PrivateType
<1>1. CASE LeaveRecoverable(c)
  BY <1>0, <1>1, LeavePays
<1>2. CASE NextPhase(c)
  BY <1>2, NextPhasePays
<1>3. CASE WaveCreated(c)
  <2>1. /\ pc[c] = "create" /\ pc'[c] = "dispatch" /\ UNCHANGED <<task, snap>>
        /\ sched'[c] = {p[1] : p \in todo[c]}
        /\ \A p \in todo[c] : snap[c][p[1]].status # "NONE"
    BY <1>0, <1>3 DEF WaveCreated, Goto, store, Unfinished
  <2>2. /\ snap[c] = task /\ todo[c] # {}
        /\ \A p \in todo[c] : p[1] \in Attempts /\ (task[p[1]].status = "NONE" \/ Live(p[1]))
    BY <2>1 DEF Fresh, Pursued
  <2>3. \A a \in sched'[c] : Live(a) /\ snap[c][a] = task[a]
    BY <2>1, <2>2
  <2>4. sched'[c] # {}
    BY <2>1, <2>2
  <2>5. Pursued(c)'
    BY <2>1, <2>3, <2>4 DEF Pursued, Live
  <2> QED
    BY <2>5 DEF Pays
<1>4. CASE (Attach(c) /\ ~ LeaveRecoverable(c)) \/ EmitQueued(c) \/ EmitTerminal(c)
  <2>1. UNCHANGED <<private, task>> /\ pc[c] \in {"repair", "create"}
    BY <1>4 DEF Attach, EmitQueued, EmitTerminal
  <2>2. Pursued(c)'
    BY <2>1 DEF private, Pursued, Live
  <2> QED
    BY <2>2 DEF Pays
<1>5. CASE RepairMarker(c) /\ ~ LeaveRecoverable(c)
  <2>1. PICK a \in Attempts :
          /\ task[a].status = "RUNNING" /\ snap[c][a].evidence # "none"
          /\ task' = [task EXCEPT ![a] = Finished(task[a], snap[c][a].evidence)]
    BY <1>5 DEF RepairMarker, UpdateAccepted
  <2>2. task'[a].status \in Terminal
    BY <1>0, <2>1 DEF Finished, StatusOf, Terminal, TaskRecord
  <2> QED
    BY <2>1, <2>2, EndingPays DEF Terminal
<1>6. CASE CreateAttempt(c)
  <2>1. PICK a \in Attempts :
          task' = [task EXCEPT ![a] = IF task[a].status = "NONE" THEN NewRecord ELSE task[a]]
    BY <1>6 DEF CreateAttempt
  <2>2. pc[c] = "create" /\ UNCHANGED <<pc, todo>>
    BY <1>6 DEF CreateAttempt
  <2>3. NewRecord.status = "PENDING"
    BY DEF NewRecord, NoRecord
  <2>4. \A b \in Attempts : task[b].status = "NONE" \/ Live(b) => task'[b].status = "NONE" \/ Live(b)'
    BY <1>0, <2>1, <2>3 DEF Live
  <2>5. /\ todo[c] # {}
        /\ \A p \in todo[c] : p[1] \in Attempts /\ (task[p[1]].status = "NONE" \/ Live(p[1]))
    BY <2>2 DEF Pursued
  <2>6. Pursued(c)'
    BY <2>2, <2>4, <2>5 DEF Pursued
  <2> QED
    BY <2>6 DEF Pays
<1> QED
  BY <1>1, <1>2, <1>3, <1>4, <1>5, <1>6 DEF Listing

\* The pass goes on, or loses the attempt in hand to a fault.
LEMMA DispatchPays ==
  ASSUME NEW c, Deployment(c), Base, Pursued(c), Dispatch(c)
  PROVE  Pays(c)
<1>0. /\ c \in Reconcilers /\ c \in Consumers /\ TypeInv
      /\ pc \in [Reconcilers -> Phases] /\ cur \in [Reconcilers -> Attempts \cup {None}]
      /\ task \in [Attempts -> TaskRecord] /\ sched \in [Reconcilers -> SUBSET Attempts]
      /\ snap \in [Reconcilers -> [Attempts -> TaskRecord]]
  BY DEF Deployment, Base, Sound, TypeInv, StoreType, PrivateInv, PrivateType
<1>1. CASE Take(c)
  <2>1. PICK a \in sched[c] :
          /\ cur'[c] = a
          /\ pc'[c] = IF snap[c][a].status # "RUNNING" \/ snap[c][a].dispatch # "PENDING"
                      THEN "start"
                      ELSE IF snap[c][a].diagnosed THEN "claim" ELSE "resume"
    BY <1>0, <1>1 DEF Take, Goto
  <2>2. pc[c] = "dispatch" /\ UNCHANGED <<task, snap>>
    BY <1>1 DEF Take, store
  <2>3. Live(a) /\ snap[c][a] = task[a]
    BY <2>2 DEF Pursued
  <2>4. Pursued(c)'
    BY <2>1, <2>2, <2>3 DEF Pursued, Live
  <2> QED
    BY <2>4 DEF Pays
<1>2. CASE Fault
  BY <1>2 DEF Fault, Pays
<1>3. CASE ~ Fault /\ (Resume(c) \/ Start(c) \/ Recover(c) \/ Claim(c))
  <2>1. cur[c] \in Attempts /\ RecordShape(cur[c])
    BY <1>0, <1>3 DEF Base, Sound, TypeInv, PrivateInv, CurOK, Engaged, Resume, Start, Recover, Claim,
                RecordsInv, AttemptOK
  <2>2. CASE Resume(c)
    <3>1. pc[c] = "resume" /\ task[cur[c]].status = "RUNNING" /\ task[cur[c]].dispatch = "PENDING"
      BY <2>2 DEF Resume, Pursued
    <3>2. /\ task' = [task EXCEPT ![cur[c]].diagnosed = TRUE] /\ pc'[c] = "claim" /\ UNCHANGED cur
      BY <1>0, <1>3, <2>2, <3>1 DEF Resume, UpdateAccepted, Terminal, Goto
    <3>3. Pursued(c)'
      BY <1>0, <2>1, <3>1, <3>2 DEF Pursued, TaskRecord
    <3> QED
      BY <3>3 DEF Pays
  <2>3. CASE Start(c)
    <3>1. pc[c] = "start" /\ task[cur[c]].status = "PENDING" /\ snap[c][cur[c]].status = "PENDING"
      BY <2>3 DEF Start, Pursued
    <3>2. StartAccepted(task[cur[c]], snap[c][cur[c]])
      BY <2>1, <3>1 DEF RecordShape, StartAccepted, UpdateAccepted, Terminal
    <3>3. /\ task' = [task EXCEPT ![cur[c]] = Started(task[cur[c]], FALSE)]
          /\ pc'[c] = "claim" /\ UNCHANGED cur
      BY <1>0, <1>3, <2>3, <3>2 DEF Start, Goto
    <3>4. task'[cur[c]].status = "RUNNING" /\ task'[cur[c]].dispatch = "PENDING"
      BY <1>0, <2>1, <3>3 DEF Started, TaskRecord
    <3>5. Pursued(c)'
      BY <3>3, <3>4 DEF Pursued
    <3> QED
      BY <3>5 DEF Pays
  <2>4. CASE Recover(c)
    BY <2>4 DEF Recover, Pursued
  <2>5. CASE Claim(c)
    <3>1. pc[c] = "claim" /\ ClaimAccepted(task[cur[c]])
      BY <2>5 DEF Claim, Pursued, ClaimAccepted
    <3>2. pc'[c] = "execute"
      BY <1>0, <1>3, <2>5, <3>1 DEF Claim, Goto
    <3> QED
      BY <3>2 DEF Pursued, Pays
  <2> QED
    BY <1>3, <2>2, <2>3, <2>4, <2>5
<1> QED
  BY <1>1, <1>2, <1>3 DEF Dispatch

LEMMA HandlingPays ==
  ASSUME NEW c, Deployment(c), Base, Pursued(c), Handling(c)
  PROVE  Pays(c)
<1>0. /\ c \in Reconcilers /\ c \in Consumers /\ TypeInv /\ AllGates = {}
      /\ pc \in [Reconcilers -> Phases] /\ task \in [Attempts -> TaskRecord]
  BY NoGate DEF Deployment, Base, Sound, TypeInv, StoreType, PrivateInv, PrivateType
<1>1. CASE LeaveRecoverable(c) \/ Fault
  BY <1>0, <1>1, LeavePays DEF Fault, Pays
<1>2. CASE Execute(c)
  <2>1. cur[c] \in Attempts
    BY <1>0, <1>2 DEF Execute, Base, Sound, TypeInv, PrivateInv, CurOK, Engaged, Holding
  <2>2. 1 .. Gates[cur[c][1]] = {}
    BY <1>0, <2>1, TasksAssumption DEF AllGates, Attempts
  <2>3. pc'[c] = "evidence"
    BY <1>0, <1>2, <2>2 DEF Execute, Goto
  <2> QED
    BY <2>3 DEF Pursued, Pays
<1>3. CASE PersistEvidence(c) /\ ~ LeaveRecoverable(c) /\ ~ Fault
  <2>1. pc'[c] = "terminal"
    BY <1>0, <1>3 DEF PersistEvidence, Goto
  <2> QED
    BY <2>1 DEF Pursued, Pays
<1>4. CASE CommitTerminal(c) /\ ~ LeaveRecoverable(c)
  <2>1. /\ pc[c] = "terminal" /\ UpdateAccepted(task[cur[c]], "RUNNING")
        /\ task' = [task EXCEPT ![cur[c]] = Finished(task[cur[c]], held[c])]
    BY <1>4 DEF CommitTerminal
  <2>2. cur[c] \in Attempts /\ held[c] \in Outcomes
    BY <1>0, <2>1 DEF Base, Sound, TypeInv, PrivateInv, CurOK, HeldOK, Engaged, Holding
  <2>3. task'[cur[c]].status \in Terminal /\ task[cur[c]].status \notin Terminal
    BY <1>0, <2>1, <2>2 DEF Finished, StatusOf, Terminal, TaskRecord, UpdateAccepted
  <2> QED
    BY <2>2, <2>3, EndingPays
<1>5. CASE RetryEvidence(c) \/ CommitWait(c) \/ RequestApproval(c)
  BY <1>5 DEF RetryEvidence, CommitWait, RequestApproval, Pursued
<1> QED
  BY <1>1, <1>2, <1>3, <1>4, <1>5 DEF Handling

\* Only in the parts named the pass of c has something before it.
LEMMA StepPays ==
  ASSUME NEW c, Deployment(c), Base, NoneWaits, InOrder, Fresh(c), Pursued(c), [Next]_vars,
         ~ UNCHANGED vars
  PROVE  Pays(c)
<1>0. c \in Reconcilers /\ c \in Consumers /\ Reconcilers = {c} /\ AllGates = {} /\ TypeInv
  BY NoGate DEF Deployment, Base, Sound
<1>1. CASE Listing(c) \/ Dispatch(c) \/ Handling(c) \/ Recovery(c)
  BY <1>0, <1>1, ListingPays, DispatchPays, HandlingPays, RecoveryPays
<1>2. CASE BeginPass(c) \/ EndPass(c) \/ ReadOutcome(c) \/ CommitOutcome(c)
  BY <1>2 DEF BeginPass, EndPass, ReadOutcome, CommitOutcome, Pursued
<1>3. CASE Settle(c) \/ Crash(c)
  BY <1>0, <1>3, ForgetPays DEF Settle, Crash
<1>4. CASE Operator
  BY <1>0, <1>4 DEF Operator
<1>5. CASE TimePasses \/ IdlePoll
  <2>1. UNCHANGED <<pc, task, todo, sched, snap, cur>>
    BY <1>5 DEF TimePasses, IdlePoll, vars, store, private
  <2>2. Pursued(c)'
    BY <2>1 DEF Pursued, Live
  <2> QED
    BY <2>2 DEF Pays
<1> QED
  BY <1>0, <1>1, <1>2, <1>3, <1>4, <1>5 DEF Next, Step, Ending

\* The rounds begun change where a pass begins, or all is forgotten.
LEMMA RoundsBegun ==
  ASSUME NEW c, Deployment(c), TypeInv, [Next]_vars
  PROVE  \/ round'[c] = 0
         \/ round'[c] = round[c]
         \/ BeginPass(c) /\ pc'[c] = "requests" /\ round'[c] = round[c] + 1
<1>0. c \in Reconcilers /\ c \in Consumers /\ Reconcilers = {c}
      /\ round \in [Reconcilers -> Nat] /\ pc \in [Reconcilers -> Phases]
  BY DEF Deployment, TypeInv, PrivateInv, PrivateType
<1>1. CASE Forget(c)
  BY <1>0, <1>1 DEF Forget
<1>2. CASE BeginPass(c) /\ ~ Forget(c)
  BY <1>0, <1>2 DEF BeginPass, Enter, Goto, LeaveValueError
<1>3. CASE \/ (Recovery(c) \/ Listing(c) \/ Dispatch(c) \/ Handling(c) \/ Ending(c) \/ Crash(c)) /\ ~ Forget(c)
           \/ Operator \/ TimePasses \/ IdlePoll \/ UNCHANGED vars
  <2>1. UNCHANGED round
    BY <1>3 DEF Recovery, RecoverRequest, RecoverWakeup, FailRejected, Request, Listing, NextPhase,
                WaveCreated, Attach, EmitQueued, RepairMarker, EmitTerminal, CreateAttempt,
                Dispatch, Take, Resume, Start, Recover, Claim, Skip, Handling, Execute,
                PersistEvidence, RetryEvidence, CommitTerminal, CommitWait, RequestApproval,
                Ending, EndPass, ReadOutcome, CommitOutcome, Settle, Crash, LeaveRecoverable,
                LeaveValueError, Operator, Decide, RepeatDecision, DecideWake, DecideCrash,
                TimePasses, IdlePoll, vars, private
  <2> QED
    BY <2>1
<1> QED
  BY <1>0, <1>1, <1>2, <1>3 DEF Next, Step

\* The run's conclusion comes after the last of its rounds.
LEMMA LastCame ==
  ASSUME NEW c, Deployment(c), TypeInv, [Next]_vars, pc'[c] \in {"outcome", "commit"}
  PROVE  \/ EndPass(c) /\ LastRound(c) /\ round' = round
         \/ pc[c] \in {"outcome", "commit"} /\ round'[c] = round[c]
<1>0. c \in Reconcilers /\ c \in Consumers /\ Reconcilers = {c} /\ TypeInv
      /\ pc \in [Reconcilers -> Phases] /\ AllGates = {}
  BY NoGate DEF Deployment, TypeInv, PrivateInv, PrivateType
<1>1. ~ Forget(c)
  BY <1>0 DEF Forget, Goto
<1>2. CASE Recovery(c) \/ Listing(c)
  <2>1. ~ LeaveRecoverable(c) /\ ~ LeaveValueError(c)
    BY <1>1 DEF LeaveRecoverable, LeaveValueError
  <2>2. CASE Recovery(c)
    <3>1. pc'[c] = pc[c] /\ pc[c] \in {"requests", "wakeups", "rejects"}
      BY <2>1, <2>2 DEF Recovery, RecoverRequest, RecoverWakeup, FailRejected, Request
    <3> QED
      BY <3>1
  <2>3. CASE NextPhase(c) \/ WaveCreated(c)
    <3>1. pc'[c] \in {"wakeups", "rejects", "repair", "create", "dispatch"}
      BY <1>0, <2>3 DEF NextPhase, WaveCreated, Following, Enter, Goto
    <3> QED
      BY <3>1
  <2>4. CASE \/ Attach(c) \/ EmitQueued(c) \/ RepairMarker(c)
             \/ EmitTerminal(c) \/ CreateAttempt(c)
    <3>1. pc'[c] = pc[c] /\ pc[c] \in {"repair", "create"}
      BY <2>1, <2>4 DEF Attach, EmitQueued, RepairMarker, EmitTerminal, CreateAttempt, private
    <3> QED
      BY <3>1
  <2> QED
    BY <1>2, <2>2, <2>3, <2>4 DEF Listing
<1>3. CASE Dispatch(c) \/ Handling(c)
  <2>1. pc'[c] \in {"dispatch", "start", "claim", "resume", "recover", "execute", "evidence",
                    "reevidence", "terminal", "wait", "request"}
    BY <1>0, <1>1, <1>3 DEF Dispatch, Take, Resume, Start, Recover, Claim, Skip, Handling,
          Execute, PersistEvidence, RetryEvidence, CommitTerminal, CommitWait, RequestApproval,
          Request, Goto, LeaveRecoverable, LeaveValueError, private
  <2> QED
    BY <2>1
<1>4. CASE BeginPass(c)
  BY <1>0, <1>1, <1>4 DEF BeginPass, Enter, Goto, LeaveValueError
<1>5. CASE Ending(c)
  BY <1>0, <1>1, <1>5 DEF Ending, EndPass, ReadOutcome, CommitOutcome, Settle, Goto
<1>6. CASE Crash(c)
  BY <1>1, <1>6 DEF Crash
<1>7. CASE Operator
  BY <1>0, <1>7 DEF Operator
<1>8. CASE TimePasses \/ IdlePoll \/ UNCHANGED vars
  BY <1>8 DEF TimePasses, IdlePoll, vars, private
<1> QED
  BY <1>0, <1>2, <1>3, <1>4, <1>5, <1>6, <1>7, <1>8 DEF Next, Step

\* Every round is worth it.
LEMMA WorthStep ==
  ASSUME NEW c, Deployment(c), Base, Plain, NoneWaits, InOrder, faults <= MaxFaults, Fresh(c),
         Worth(c), [Next]_vars
  PROVE  Worth(c)'
<1>0. c \in Reconcilers /\ Reconcilers = {c} /\ round \in [Reconcilers -> Nat] /\ TypeInv /\ Sound
  BY DEF Deployment, Base, Sound, TypeInv, PrivateInv, PrivateType
<1>1. OneMoves /\ faults' \in {faults, faults + 1}
  BY <1>0, EveryStepMoves, FaultsStep DEF Base
<1>2. /\ Effort \in Nat /\ Effort' \in Nat /\ Effort' >= Effort
      /\ faults' = faults + 1 \/ DoneAttempts' # DoneAttempts => Effort' >= Effort + 1
  BY <1>0, <1>1, EffortGrows
<1>3. CASE UNCHANGED vars
  BY <1>3 DEF vars, store, private, outside, bounds, history, Worth, Pursued, Live, Effort,
              DoneAttempts, Lost, Abandoned, Settled, AtRest
<1>4. CASE Settled
  BY <1>0, <1>1, <1>4, SettledStays DEF Worth
<1>5. CASE Lost
  BY <1>0, <1>5, AbandonedStays DEF Worth, Lost
<1>6. CASE round'[c] = 0
  BY <1>2, <1>6 DEF Worth
<1>7. CASE Effort >= round[c] /\ round'[c] # 0
  <2>1. CASE round'[c] = round[c]
    BY <1>0, <1>2, <1>7, <2>1 DEF Worth
  <2>2. CASE pc'[c] = "requests" /\ round'[c] = round[c] + 1
    <3>1. Pursued(c)'
      BY <2>2 DEF Pursued
    <3> QED
      BY <1>0, <1>2, <1>7, <2>2, <3>1 DEF Worth
  <2> QED
    BY <1>0, <1>7, <2>1, <2>2, RoundsBegun
<1>8. CASE Effort + 1 >= round[c] /\ Pursued(c) /\ round'[c] # 0 /\ ~ UNCHANGED vars
  <2>1. Pays(c)
    BY <1>8, StepPays
  <2>2. round'[c] = round[c]
    <3>1. ~ BeginPass(c)
      BY <1>8 DEF BeginPass, Pursued
    <3> QED
      BY <1>0, <1>8, <3>1, RoundsBegun
  <2> QED
    BY <1>0, <1>2, <1>8, <2>1, <2>2 DEF Pays, Worth
<1> QED
  BY <1>3, <1>4, <1>5, <1>6, <1>7, <1>8 DEF Worth

LEMMA RoundsStep ==
  ASSUME NEW c, Deployment(c), Base, RoundsInv, [Next]_vars
  PROVE  RoundsInv'
<1>0. /\ c \in Reconcilers /\ Reconcilers = {c} /\ round \in [Reconcilers -> Nat]
      /\ TypeInv /\ Sound /\ OutcomeInv
  BY DEF Deployment, Base, Sound, TypeInv, PrivateInv, PrivateType
<1>1. /\ Plain /\ NoneWaits /\ InOrder /\ faults <= MaxFaults /\ Fresh(c) /\ Worth(c)
      /\ pc[c] \in {"outcome", "commit"} => round[c] = Rounds
  BY <1>0 DEF RoundsInv
<1>2. OneMoves /\ StoreKept /\ faults' \in {faults, faults + 1} /\ faults' <= MaxFaults
  BY <1>0, <1>1, EveryStepMoves, EveryStepKeeps, FaultsStep
<1>3. Plain' /\ NoneWaits' /\ InOrder' /\ Fresh(c)' /\ Worth(c)'
  BY <1>0, <1>1, <1>2, PlainStep, WaitsStep, OrderStep, FreshStep, WorthStep
<1>4. pc'[c] \in {"outcome", "commit"} => round'[c] = Rounds
  BY <1>0, <1>1, LastCame DEF LastRound
<1>5. Effort \in Nat /\ Effort' \in Nat /\ Effort' >= Effort
  BY <1>0, <1>2, EffortGrows
<1>6. Settled => Settled'
  BY <1>0, <1>1, <1>2, SettledStays
<1>7. ASSUME wf' = "FAILED" PROVE Settled' \/ Effort' >= Rounds
  <2>1. CASE wf = "FAILED"
    BY <1>5, <1>6, <2>1, SchedulerAssumption DEF RoundsInv
  <2>2. CASE wf # "FAILED"
    <3>1. pc[c] = "commit"
      BY <1>0, <1>2, <1>7, <2>2 DEF StoreKept, CommitOutcome
    <3>2. AtRest /\ round[c] = Rounds /\ ~ Pursued(c)
      BY <1>0, <1>1, <3>1 DEF OutcomeInv, Pursued
    <3>3. ~ Lost
      BY <3>2 DEF AtRest, Lost, Abandoned, Terminal
    <3>4. Settled \/ Effort >= Rounds
      BY <1>1, <3>2, <3>3 DEF Worth
    <3> QED
      BY <1>5, <1>6, <3>4, SchedulerAssumption
  <2> QED
    BY <2>1, <2>2
<1> QED
  BY <1>0, <1>2, <1>3, <1>4, <1>7 DEF RoundsInv

\* At the start no round is begun.
LEMMA RoundsInit ==
  ASSUME NEW c, Deployment(c), Init PROVE RoundsInv
<1>0. c \in Reconcilers /\ Reconcilers = {c}
  BY DEF Deployment
<1>1. \A a \in Attempts : task[a] = NoRecord
  BY DEF Init, NoSnap
<1>2. Plain /\ NoneWaits /\ InOrder
  <2>1. \A a \in Attempts : task[a].status = "NONE" /\ PlainRecord(task[a])
    BY <1>1 DEF NoRecord, PlainRecord
  <2>2. \A t \in Tasks, m \in 1 .. MaxAttempts : task[<<t, m>>].status = "NONE"
    BY <2>1 DEF Attempts
  <2>3. \A r \in Reconcilers : held[r] = "none"
    BY DEF Init
  <2> QED
    BY <2>1, <2>2, <2>3 DEF Plain, NoneWaits, InOrder
<1>3. faults <= MaxFaults /\ Effort \in Nat
  BY SchedulerAssumption, DoneCounted DEF Init, Effort
<1>4. Fresh(c) /\ Worth(c) /\ pc[c] \notin {"outcome", "commit"} /\ wf # "FAILED"
  BY <1>0, <1>3 DEF Init, Fresh, Worth
<1> QED
  BY <1>0, <1>2, <1>3, <1>4 DEF RoundsInv

\* Enough rounds leave no attempt that a failure calls for.
LEMMA RoundsEnough ==
  ASSUME Base, RoundsInv, Rounds >= MaxAttempts * Cardinality(Tasks) + MaxFaults
  PROVE  RetriesExhausted
<1> SUFFICES ASSUME wf = "FAILED", NEW a \in Attempts, IsLatest(task, a), a[2] < MaxAttempts,
                    task[a].status = "FAILED", task[a].failure \in {"recoverable", "deferred"}
             PROVE  FALSE
  BY DEF RetriesExhausted
<1>1. PICK t \in Tasks, n \in 1 .. MaxAttempts : a = <<t, n>>
  BY DEF Attempts
<1>2. n + 1 \in 1 .. MaxAttempts /\ <<t, n + 1>> \in Attempts
  BY <1>1, TasksAssumption DEF Attempts
<1>3. task[<<t, n + 1>>].status = "NONE"
  BY <1>1, <1>2 DEF IsLatest
<1>4. CASE Settled
  <2>1. DependenciesSucceeded(task, t)
    BY <1>1 DEF Base, Sound, RecordsInv, AttemptOK, Unblocked
  <2>2. task[a].failure = "recoverable"
    BY DEF RoundsInv, Plain, PlainRecord
  <2>3. RetryIsReady(task[a], a, due)
    BY <2>2 DEF RetryIsReady
  <2>4. /\ <<t, n + 1>>[1] = t /\ <<t, n + 1>>[2] = n + 1 /\ n + 1 > 1 /\ (n + 1) - 1 = n
    BY <1>1
  <2>5. <<t, n + 1>> \in ReadyWave(task, due)
    BY <1>1, <1>2, <1>3, <2>1, <2>3, <2>4 DEF ReadyWave
  <2> QED
    BY <1>4, <2>5 DEF Settled
<1>5. CASE Effort >= Rounds
  <2>1. /\ faults \in Nat /\ faults <= MaxFaults /\ MaxFaults \in Nat
    BY SchedulerAssumption DEF RoundsInv, Base, Sound, TypeInv, RestType
  <2>2. Cardinality(DoneAttempts) >= Cardinality(Attempts)
    BY <1>5, <2>1, AttemptsCounted, DoneCounted, SchedulerAssumption DEF Effort
  <2>3. <<t, n + 1>> \in DoneAttempts
    BY <1>2, <2>2, DoneCounted, AttemptsCounted
  <2> QED
    BY <1>3, <2>3 DEF DoneAttempts, Terminal
<1> QED
  BY <1>4, <1>5 DEF RoundsInv

\* A workflow fails only with every attempt made that a recoverable failure
\* calls for: the range(len(plan.nodes) * 2 + 1) calls of reconcile() that
\* WorkflowRunner makes are enough for two attempts of each task with one fault
\* on the way, however often the run is cut short by crashes and begun again.
\* In general it takes one round for every attempt and one for every fault.  For
\* the consumer alone, since a second reconciler can make the waves this one
\* has counted, and a late approval or a delayed retry can come after the last
\* round.
THEOREM RetriesUsed ==
  ASSUME NEW c, Deployment(c), Rounds >= MaxAttempts * Cardinality(Tasks) + MaxFaults
  PROVE  Spec => []RetriesExhausted
<1>0. c \in Reconcilers /\ Reconcilers = {c}
  BY DEF Deployment
<1>1. Init => OutcomeInv /\ AuditInv /\ RoundsInv
  BY RoundsInit DEF Init, OutcomeInv, AuditInv, BegunRecorded, NoSnap, NoRecord, Late, Holding
<1>2. Sound /\ OutcomeInv /\ AuditInv /\ RoundsInv => RetriesExhausted
  BY RoundsEnough DEF Base
<1>3. Sound /\ OutcomeInv /\ AuditInv /\ RoundsInv /\ [Next]_vars
        => (OutcomeInv /\ AuditInv /\ RoundsInv)'
  BY <1>0, OutcomeStep, AuditStep, RoundsStep DEF Base
<1> QED
  BY <1>1, <1>2, <1>3, AlwaysSound, PTL DEF Spec
=============================================================================
