---------------------------- MODULE TaskAttempts ----------------------------
(***************************************************************************)
(* What the workflow runtime promises about the attempts of a workflow's   *)
(* tasks, with no store, no reconciler and no failure of either in sight.  *)
(*                                                                         *)
(* The body of an attempt (its Task handler) runs once when the attempt is *)
(* first dispatched and once more for every approval that wakes it; what a *)
(* run reports is final; a task gets its next attempt only from a          *)
(* recoverable failure of the one before; no body runs before every        *)
(* dependency of its task has succeeded.  A run whose report is lost (its  *)
(* process died) is never repeated: the attempt stays "ran".               *)
(***************************************************************************)
EXTENDS Naturals

CONSTANTS Tasks, Deps, MaxAttempts

VARIABLES
  state,      \* [Attempts -> States]
  outcome,    \* [Attempts -> Outcomes \cup {"none"}], the report of the run
  bodies      \* [Attempts -> Nat], how often the body was run

Attempts == Tasks \X (1 .. MaxAttempts)

States == {"absent", "queued", "ran", "waiting", "done"}

Outcomes == {"success", "recoverable", "deferred", "permanent", "policy"}

avars == <<state, outcome, bodies>>

Init ==
  /\ state = [a \in Attempts |-> "absent"]
  /\ outcome = [a \in Attempts |-> "none"]
  /\ bodies = [a \in Attempts |-> 0]

Succeeded(t) == \E n \in 1 .. MaxAttempts :
                  /\ state[<<t, n>>] = "done"
                  /\ outcome[<<t, n>>] = "success"

\* An attempt is queued when it is the first of its task and the task is
\* unblocked, or when the attempt before it failed recoverably.
Queue(a) ==
  /\ state[a] = "absent"
  /\ IF a[2] = 1
     THEN \A d \in Deps[a[1]] : Succeeded(d)
     ELSE /\ state[<<a[1], a[2] - 1>>] = "done"
          /\ outcome[<<a[1], a[2] - 1>>] \in {"recoverable", "deferred"}
  /\ state' = [state EXCEPT ![a] = "queued"]
  /\ UNCHANGED <<outcome, bodies>>

\* The body runs.  Nothing is reported yet.
Run(a) ==
  /\ state[a] = "queued"
  /\ \A d \in Deps[a[1]] : Succeeded(d)
  /\ state' = [state EXCEPT ![a] = "ran"]
  /\ bodies' = [bodies EXCEPT ![a] = @ + 1]
  /\ UNCHANGED outcome

\* The run's report becomes the attempt's outcome, for good.
Finish(a) ==
  /\ state[a] = "ran"
  /\ state' = [state EXCEPT ![a] = "done"]
  /\ \E o \in Outcomes : outcome' = [outcome EXCEPT ![a] = o]
  /\ UNCHANGED bodies

\* The run asked for an approval.
Wait(a) ==
  /\ state[a] = "ran"
  /\ state' = [state EXCEPT ![a] = "waiting"]
  /\ UNCHANGED <<outcome, bodies>>

\* An approval lets the body run once more.
Wake(a) ==
  /\ state[a] = "waiting"
  /\ state' = [state EXCEPT ![a] = "queued"]
  /\ UNCHANGED <<outcome, bodies>>

\* A rejection ends the attempt without running the body.
Reject(a) ==
  /\ state[a] = "waiting"
  /\ state' = [state EXCEPT ![a] = "done"]
  /\ outcome' = [outcome EXCEPT ![a] = "policy"]
  /\ UNCHANGED bodies

Next ==
  \E a \in Attempts :
    Queue(a) \/ Run(a) \/ Finish(a) \/ Wait(a) \/ Wake(a) \/ Reject(a)

Spec == Init /\ [][Next]_avars
=============================================================================
