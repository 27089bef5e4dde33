----------------------------- MODULE MCDeliveries -----------------------------
(***************************************************************************)
(* The intake of Events and the approvals of the scheduler: what has to    *)
(* come to something in the end.  One step of the intake stands for all of *)
(* the scheduler's, so that the two are checked side by side: in each      *)
(* behaviour one of them moves, its scene, and the other stays as it was.  *)
(***************************************************************************)
EXTENDS MCScheduler, EventIntake

CONSTANT Scenes  \* the parts that are checked

VARIABLE scene

\* Whom an Event meets: the consumers, or one of them and the operators.
MCCrews == {Pollers, {CHOOSE p \in Pollers : TRUE} \cup Operators}

deliveriesVars == <<vars, intakeVars, scene>>

\* The part that does not move starts in one state only.
DeliveriesInit ==
  /\ scene \in Scenes /\ Init /\ IntakeInit
  /\ scene # "intake" => \A w \in Runners : phase[w] = "idle" <=> w \in Pollers

SchedulerMoves == scene = "scheduler" /\ Next /\ UNCHANGED <<intakeVars, scene>>
IntakeMoves == scene = "intake" /\ IntakeNext /\ UNCHANGED <<vars, scene>>

DeliveriesNext == SchedulerMoves \/ IntakeMoves

\* WorkflowScheduler!FairSpec in its scene; the fairness of the intake asks for
\* nothing there, where it has no Event.
DeliveriesSpec ==
  /\ DeliveriesInit /\ [][DeliveriesNext]_deliveriesVars
  /\ \A r \in Consumers : WF_vars(scene = "scheduler" /\ Step(r))
  /\ WF_vars(scene = "scheduler" /\ TimePasses)
  /\ IntakeFairness
=============================================================================
