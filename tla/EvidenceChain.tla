----------------------------- MODULE EvidenceChain -----------------------------
(***************************************************************************)
(* The evidence the Tasks of a workflow hand on, from the analysis of the  *)
(* issue to its acceptance: the handlers of analyze_issue.py,              *)
(* build_implementation_plan.py, generate_patch.py, run_validation.py and  *)
(* evaluate_acceptance.py in src/aep, with the schema, build and test      *)
(* evaluations of schema_evaluation.py and build_test_evaluation.py.       *)
(*                                                                         *)
(* Each Task waits for the success of the one before it, and checks the    *)
(* records of that attempt before it works.  What an attempt creates has   *)
(* ids of its own; a record is created first and attached to the attempt   *)
(* in a later checkpoint, and an attempt that fails in between leaves it   *)
(* behind.  How the patch itself comes about is PatchApplication, and the  *)
(* call of the Docker Tool DockerValidation.                               *)
(***************************************************************************)
EXTENDS Naturals, Sequences, FiniteSets

CONSTANTS
  MaxTurns,       \* attempts of a Task
  MaxRetries,     \* bound on attempts that are retried, of all Tasks
  MaxLosses,      \* bound on artifacts that lose their content
  Normalizations  \* whether an analysis may repeat predicates an evaluator owns

\* A Task has one attempt at least.
ASSUME EvidenceAssumption ==
  /\ MaxTurns \in Nat \ {0} /\ MaxRetries \in Nat /\ MaxLosses \in Nat
  /\ Normalizations \subseteq BOOLEAN

Analyze == 1
PlanTask == 2
Patch == 3
Validate == 4
Accept == 5
Asking == {Analyze, PlanTask, Patch}  \* those that ask an Agent
Turns == 1..MaxTurns
TaskExecutions == (Analyze..Accept) \X Turns

\* The Evaluations each Task declares, in the order of their results.
Declared == << <<"schema">>, <<"schema">>, <<"reconciliation", "patch">>,
               <<"build", "test">>, <<"acceptance">> >>
Kinds == {"schema", "reconciliation", "patch", "build", "test", "acceptance"}
KindsOf(t) == {Declared[t][j] : j \in DOMAIN Declared[t]}

VARIABLES
  turn,        \* [Tasks -> attempt that runs or ran last, or 0]
  report,      \* [TaskExecutions -> status]
  judged,      \* the EvaluationResults
  attached,    \* [TaskExecutions -> what is attached: Kinds and "artifact"]
  published,   \* [TaskExecutions -> Kinds its artifact refers to, or {} without one]
  unreadable,  \* executions whose artifact has lost its content
  normalized,  \* whether the analysis was normalized
  spot,        \* place in the handler
  returning,   \* what the handler returns when its records are made
  call         \* [Turns -> ToolInvocation of the validation]

records == <<judged, attached, published, unreadable, normalized>>
flow == <<turn, report, spot, returning>>
evidenceVars == <<turn, report, judged, attached, published, unreadable, normalized,
                  spot, returning, call>>

\* An EvaluationResult: of whom, its Evaluation, and what it is about.
Judgement(i, k, outcome, target) ==
  [of |-> i, kind |-> k, outcome |-> outcome, target |-> target]

\* The result of a validation: its class and the commands that passed.
NotRun == [class |-> "none", passed |-> 0]

EvidenceInit ==
  /\ turn = [t \in Analyze..Accept |-> IF t = Analyze THEN 1 ELSE 0]
  /\ report = [i \in TaskExecutions |-> IF i = <<Analyze, 1>> THEN "RUNNING" ELSE "none"]
  /\ judged = {}
  /\ attached = [i \in TaskExecutions |-> {}] /\ published = [i \in TaskExecutions |-> {}]
  /\ unreadable = {} /\ normalized = FALSE
  /\ spot = "inputs" /\ returning = "none"
  /\ call = [n \in Turns |-> NotRun]

\* The Task that runs, and its attempt; its predecessor has succeeded.
Current == CHOOSE t \in Analyze..Accept : turn[t] > 0 /\ (t = Accept \/ turn[t + 1] = 0)
Latest(t) == <<t, turn[t]>>
Here == Latest(Current)
Go(s) == spot' = s
Retried == {i \in TaskExecutions : report[i] = "RECOVERABLE"}

-----------------------------------------------------------------------------
(* Return, and what the scheduler makes of it.                             *)

\* A recoverable failure and an error that leaves the handler are retried.
Conclude(r) ==
  LET t == Current
      retried == r = "RECOVERABLE" /\ turn[t] < MaxTurns /\ Cardinality(Retried) < MaxRetries
      next == r = "SUCCEEDED" /\ t < Accept
      successor == IF retried THEN <<t, turn[t] + 1>> ELSE <<t + 1, 1>>
  IN /\ report' = [i \in TaskExecutions |->
                     IF i = Here THEN r
                     ELSE IF (retried \/ next) /\ i = successor THEN "RUNNING" ELSE report[i]]
     /\ turn' = IF retried \/ next THEN [turn EXCEPT ![successor[1]] = successor[2]] ELSE turn
     /\ Go(IF retried \/ next THEN "inputs" ELSE "over")
     /\ returning' = "none"

\* A store that fails, anywhere: some handlers turn the error into a
\* configuration failure, and others let it escape.
RecordsFail ==
  /\ spot # "over"
  /\ \E r \in {"CONFIGURATION", "RECOVERABLE"} : Conclude(r)
  /\ UNCHANGED <<records, call>>

\* Content that is deleted or damaged does not have its address any more.
LoseContent(i) ==
  /\ spot # "over" /\ published[i] # {}
  /\ unreadable' = unreadable \cup {i} /\ Cardinality(unreadable') <= MaxLosses
  /\ UNCHANGED <<flow, judged, attached, published, normalized, call>>

-----------------------------------------------------------------------------
(* The evidence of a predecessor.                                          *)

\* What an Evaluation has to be about.
TargetOf(k) ==
  CASE k \in {"schema", "reconciliation"} -> "AgentInvocation"
    [] k = "patch" -> "GeneratedArtifact"
    [] k \in {"build", "test"} -> "ToolInvocation"
    [] OTHER -> "TaskExecution"

Passes(i, k) == Judgement(i, k, "PASS", TargetOf(k)) \in judged

\* One artifact, attached, that names the evaluations of its Task.
Handed(i) == published[i] = KindsOf(i[1]) /\ "artifact" \in attached[i]

\* _context_arguments, _implementation_plan and _generated_patch: the evaluations
\* of the artifact are attached, and passed.
Usable(i) ==
  Handed(i) /\ published[i] \subseteq attached[i] /\ \A k \in published[i] : Passes(i, k)

\* The plan is read by the patch, and the analysis by the context of the plan.
Readable(t) == t \in {Analyze, PlanTask} => Latest(t) \notin unreadable

Before == {Current - 1} \cap (Analyze..Accept)

ReadInputs ==
  /\ spot = "inputs" /\ Current # Accept
  /\ \/ /\ \A t \in Before : Usable(Latest(t)) /\ Readable(t)
        /\ Go("work") /\ UNCHANGED <<turn, report, returning>>
     \/ \E t \in Before : ~ Usable(Latest(t)) /\ Conclude("CONFIGURATION")
     \/ /\ \E t \in Before : ~ Readable(t)
        /\ \E r \in {"CONFIGURATION", "RECOVERABLE"} : Conclude(r)
  /\ UNCHANGED <<records, call>>

-----------------------------------------------------------------------------
(* The work of a handler: an Agent, or the validation.                     *)

\* The answer is taken.  The plan is made of what its evidence authorizes; in
\* an analysis, predicates that belong to an evaluator are removed.
AnswerAccepted ==
  /\ spot = "work" /\ Current \in Asking
  /\ Go("record") /\ returning' = "SUCCEEDED" /\ UNCHANGED <<turn, report>>
  /\ normalized' \in IF Current = Analyze THEN Normalizations ELSE {FALSE}
  /\ UNCHANGED <<judged, attached, published, unreadable, call>>

\* An answer that is not taken: an EvaluationResult will tell of it.
Rejected ==
  /\ spot = "work" /\ Go("record") /\ returning' = "EVALUATION" /\ normalized' = FALSE
  /\ UNCHANGED <<turn, report, judged, attached, published, unreadable, call>>

\* It violates its schema, or its changes are not those of the plan.
AnswerRejected == Current \in {Analyze, Patch} /\ Rejected

\* The plan does not account for every criterion of the analysis.
PlanRejected == Current = PlanTask /\ Rejected

\* The budget, the Agent, or the resources it needs.
NoAnswer ==
  /\ spot = "work" /\ Current \in Asking
  /\ \E r \in {"RECOVERABLE", "POLICY", "CONFIGURATION"} : Conclude(r)
  /\ UNCHANGED <<records, call>>

\* The validation does not have one build and one test command, an image and a
\* workspace.
Unconfigured ==
  spot = "work" /\ Current = Validate /\ Conclude("CONFIGURATION") /\ UNCHANGED <<records, call>>

\* Failures that say nothing of the patch are returned without evaluations.
Unproven == {"STARTUP", "UNREADY", "INCOMPLETE"}

ClassOf(result) ==
  CASE result.class = "SUCCEEDED" -> "SUCCEEDED"
    [] result.class = "NONZERO" -> "EVALUATION"
    [] result.class \in {"TIMED_OUT", "STARTUP", "INCOMPLETE"} -> "RECOVERABLE"
    [] result.class = "UNREADY" -> "CONFIGURATION"
    [] result.class = "DENIED" -> "POLICY"
    [] OTHER -> "PERMANENT"

\* The results DockerValidation may come to: both commands passed, or one did
\* not; a cleanup that fails after either takes the place of the class.
Results ==
  [class : {"SUCCEEDED"}, passed : {2}] \cup [class : {"NONZERO", "TIMED_OUT"}, passed : {0, 1}]
  \cup [class : {"ADAPTER"}, passed : 0..2] \cup [class : Unproven \cup {"DENIED"}, passed : {0}]

RunValidation ==
  /\ spot = "work" /\ Current = Validate
  /\ \E result \in Results :
       /\ call' = [call EXCEPT ![turn[Validate]] = result]
       /\ IF result.class \in Unproven
            THEN Conclude(ClassOf(result))
            ELSE Go("record") /\ returning' = ClassOf(result) /\ UNCHANGED <<turn, report>>
  /\ UNCHANGED records

-----------------------------------------------------------------------------
(* Recording: the evaluations, then the artifact.                          *)

Recorded(i) == {r.kind : r \in {x \in judged : x.of = i}}
NextKind == Declared[Current][CHOOSE j \in DOMAIN Declared[Current] :
                                Declared[Current][j] \notin Recorded(Here)
                                /\ \A l \in 1..(j - 1) : Declared[Current][l] \in Recorded(Here)]

\* The build is the first command of the validation, and the test the second.
CommandPassed(k) == call[turn[Validate]].passed >= (IF k = "build" THEN 1 ELSE 2)

\* An accepted answer may still violate its schema, or a patch its plan; a plan
\* that is rejected may have the form of one.
AnswerOutcomes ==
  IF returning = "SUCCEEDED" \/ Current = PlanTask THEN {"PASS", "FAIL"} ELSE {"FAIL"}

Outcomes(k) ==
  IF Current = Validate THEN {IF CommandPassed(k) THEN "PASS" ELSE "FAIL"} ELSE AnswerOutcomes

\* The schema evaluation of a normalized analysis names the artifact.
TargetNow(k) == IF normalized /\ Current = Analyze THEN "GeneratedArtifact" ELSE TargetOf(k)

\* A result that fails decides what an Agent's Task returns.
RecordEvaluation ==
  /\ spot = "record"
  /\ \E outcome \in Outcomes(NextKind) :
       /\ judged' = judged \cup {Judgement(Here, NextKind, outcome, TargetNow(NextKind))}
       /\ returning' = IF outcome = "FAIL" /\ Current # Validate THEN "EVALUATION" ELSE returning
  /\ Go(IF Current = Validate /\ NextKind = "build" THEN "record" ELSE "link")
  /\ UNCHANGED <<turn, report, attached, published, unreadable, normalized, call>>

\* A rejected answer ends the attempt here; a rejected patch is published, and
\* so is the report of a validation that failed.
LinkEvaluations ==
  LET complete == KindsOf(Current) \subseteq Recorded(Here)
      publishes == complete /\ (returning = "SUCCEEDED" \/ Current \in {Patch, Validate})
  IN /\ spot = "link"
     /\ attached' = [attached EXCEPT ![Here] = @ \cup Recorded(Here)]
     /\ IF Current = Accept \/ (~ publishes /\ returning # "SUCCEEDED")
          THEN Conclude(returning)
          ELSE Go(IF publishes THEN "publish" ELSE "record")
            /\ UNCHANGED <<turn, report, returning>>
     /\ UNCHANGED <<judged, published, unreadable, normalized, call>>

\* Mutant: the metadata name the results of every Task so far.
Bug_References == {r.kind : r \in judged}

\* The evaluations an artifact's metadata name.
References == KindsOf(Current)

PublishArtifact ==
  /\ spot = "publish"
  /\ published' = [published EXCEPT ![Here] = References]
  /\ Go("linkArtifact")
  /\ UNCHANGED <<turn, report, returning, judged, attached, unreadable, normalized, call>>

LinkArtifact ==
  /\ spot = "linkArtifact"
  /\ attached' = [attached EXCEPT ![Here] = @ \cup {"artifact"}]
  /\ Conclude(returning)
  /\ UNCHANGED <<judged, published, unreadable, normalized, call>>

-----------------------------------------------------------------------------
(* Acceptance.                                                             *)

\* Mutant: the results of every attempt of the Task.
Bug_Stored(t) == {r \in judged : r.of[1] = t}

\* list_by_task_execution: the results an execution has in the store.
Stored(t) == {r \in judged : r.of = Latest(t)}

\* One artifact, whose content is there, and stored, attached and referenced
\* evaluations that are the same.
Agree(t) ==
  LET i == Latest(t)
  IN /\ published[i] # {} /\ i \notin unreadable
     /\ attached[i] = published[i] \cup {"artifact"}
     /\ Cardinality(Stored(t)) = Cardinality(published[i])

\* Each declared Evaluation has passed, about the invocation or artifact it
\* should be about, which has succeeded.
Proven(t) ==
  /\ published[Latest(t)] = KindsOf(t) /\ \A k \in KindsOf(t) : Passes(Latest(t), k)
  /\ t = Validate => call[turn[t]].class = "SUCCEEDED"

Clean(t) == Agree(t) /\ Proven(t)

Aggregate ==
  LET issues == {t \in Analyze..Validate : ~ Clean(t)}
      outcome == IF issues = {} THEN "PASS" ELSE "FAIL"
  IN /\ spot = "inputs" /\ Current = Accept
     /\ judged' = judged \cup {Judgement(Here, "acceptance", outcome, TargetOf("acceptance"))}
     /\ returning' = IF outcome = "PASS" THEN "SUCCEEDED" ELSE "EVALUATION"
     /\ Go("link")
     /\ UNCHANGED <<turn, report, attached, published, unreadable, normalized, call>>

\* The process of the handler ends: nothing takes the attempt up again.
StopHandler ==
  /\ spot # "over" /\ Go("over")
  /\ UNCHANGED <<turn, report, returning, records, call>>

-----------------------------------------------------------------------------

EvidenceNext ==
  \/ ReadInputs \/ AnswerAccepted \/ AnswerRejected \/ PlanRejected \/ NoAnswer
  \/ Unconfigured \/ RunValidation
  \/ RecordEvaluation \/ LinkEvaluations \/ PublishArtifact \/ LinkArtifact \/ Aggregate
  \/ RecordsFail \/ StopHandler
  \/ \E i \in TaskExecutions : LoseContent(i)

EvidenceSpec == EvidenceInit /\ [][EvidenceNext]_evidenceVars

-----------------------------------------------------------------------------
(* Properties.                                                             *)

EvidenceTypeOK ==
  /\ turn \in [Analyze..Accept -> 0..MaxTurns]
  /\ \A r \in judged : r.of \in TaskExecutions /\ r.kind \in KindsOf(r.of[1])
  /\ \A i \in TaskExecutions : /\ published[i] \subseteq KindsOf(i[1])
                               /\ attached[i] \subseteq KindsOf(i[1]) \cup {"artifact"}
  /\ unreadable \subseteq TaskExecutions /\ normalized \in BOOLEAN
  /\ call \in [Turns -> Results \cup {NotRun}]

\* Acceptance passes exactly the chains that are what they should be: one
\* success of each Task, with its own evidence, and a validation whose commands
\* all passed; it refuses a chain of successes only when content is lost.  What
\* failed attempts left behind never counts (EvaluateAcceptance._aggregate).
AcceptanceIsExact ==
  \A r \in judged : r.kind = "acceptance" =>
    /\ r.outcome = "PASS" =>
         /\ \A t \in Analyze..Validate : report[Latest(t)] = "SUCCEEDED" /\ Usable(Latest(t))
         /\ call[turn[Validate]] = [class |-> "SUCCEEDED", passed |-> 2]
    /\ r.outcome = "FAIL" => unreadable # {}

\* What a successful Task hands on is what the next one takes.  AEP-068 says it
\* of an analysis from which redundant predicates were removed: it "reaches
\* BuildImplementationPlan" (docs/tasks, _is_correlated_pass).
SuccessIsUsable ==
  \A i \in TaskExecutions : report[i] = "SUCCEEDED" /\ i[1] < Accept => Usable(i)
=============================================================================
