------------------------ MODULE PullRequestPublication ------------------------
(***************************************************************************)
(* The create-pull-request Task: the handler in                            *)
(* src/aep/create_pull_request.py, the Git invocations of git_tool.py, the *)
(* GitHub invocation of github_tool.py and the App client of               *)
(* github_app_provider.py, from the first policy decision to the           *)
(* description artifact.                                                   *)
(*                                                                         *)
(* Attempts of one TaskExecution share the working tree, the branch and    *)
(* GitHub; each has its own decisions, approvals and invocation records.   *)
(* A publisher is one call of execute().  Usually one runs per dispatch;   *)
(* a second one on the same attempt is what the wake-up race of            *)
(* WorkflowScheduler leaves behind.                                        *)
(***************************************************************************)
EXTENDS Naturals

CONSTANTS
  Publishers,       \* concurrent calls of execute()
  MaxTries,         \* attempts of the Task
  Nobody,           \* the owner token of a call that is over
  Policies,         \* the decisions the policies may come to
  MaxMishaps,       \* bound on failing, timed out or ambiguous effects
  MaxDeaths,        \* bound on calls that die
  MaxDoubles        \* bound on double dispatches of one wake-up

ASSUME PublicationAssumption == Nobody \notin Publishers /\ MaxTries \in Nat \ {0}

Tries == 1..MaxTries
Gates == {"publication", "git.push", "github.create_pr"}
Effects == {"commit", "push", "create"}

VARIABLES
  \* The runtime store.
  attempt,      \* [Tries -> status of the TaskExecution, or the gate whose
                \* approval it awaits]
  due,          \* [Tries -> dispatches the scheduler still makes]
  verdict,      \* [Gates -> decision], what the pinned policies say
  approval,     \* [Tries -> [Gates -> status]]
  invocation,   \* [Tries \X Effects -> ToolInvocation]
  evidence,     \* what the acceptance Task and the configuration hold:
                \* "accepted", "refused" or "unconfigured"
  described,    \* attempts whose description artifact is published
  \* The world.
  tree,         \* the working tree: "dirty", "staged" or "committed"
  remote,       \* whether the pushed branch is the accepted commit
  opened,       \* pull requests ever created for the branch
  open,         \* whether one of them is still open
  disabled,     \* the operator's emergency marker
  \* Private to a publisher.
  stage, try, outcome,
  mishaps, deaths, doubles

world == <<tree, remote, opened, open, disabled>>
store == <<attempt, due, verdict, approval, invocation, evidence, described>>
caller == <<stage, try, outcome>>
bounds == <<mishaps, deaths, doubles>>
publicationVars ==
  <<attempt, due, verdict, approval, invocation, evidence, described,
    tree, remote, opened, open, disabled, stage, try, outcome,
    mishaps, deaths, doubles>>

Stages == {"idle", "permit", "mayPush", "commit", "committing", "staged",
           "committed", "push", "pushing", "pushed", "mayCreate", "match",
           "reserve", "verify", "lookup", "post", "settle", "created", "describe", "report"}

\* A ToolInvocation: "none" until it is created.  Its failure is the class
\* that _tool_failure gives the Task.
NoInvocation == [status |-> "none", owner |-> Nobody, failure |-> "none"]
Terminal == {"SUCCEEDED", "FAILED"}

PublicationInit ==
  /\ attempt = [a \in Tries |-> IF a = 1 THEN "RUNNING" ELSE "absent"]
  /\ due = [a \in Tries |-> IF a = 1 THEN 1 ELSE 0]
  /\ verdict \in Policies
  /\ approval = [a \in Tries |-> [g \in Gates |-> "none"]]
  /\ invocation = [i \in Tries \X Effects |-> NoInvocation]
  /\ evidence \in {"accepted", "refused", "unconfigured"}
  /\ described = {}
  /\ tree = "dirty" /\ remote = FALSE /\ opened = 0 /\ open = FALSE
  /\ disabled = FALSE
  /\ stage = [p \in Publishers |-> "idle"]
  /\ try = [p \in Publishers |-> 1]
  /\ outcome = [p \in Publishers |-> "none"]
  /\ mishaps = 0 /\ deaths = 0 /\ doubles = 0

-----------------------------------------------------------------------------
(* The scheduler and the people around the handler.                        *)

Move(p, s) == stage' = [stage EXCEPT ![p] = s]

\* The scheduler invokes the handler of an attempt it has claimed.
Dispatch(p, a) ==
  /\ stage[p] = "idle" /\ attempt[a] = "RUNNING" /\ due[a] > 0
  /\ due' = [due EXCEPT ![a] = @ - 1]
  /\ try' = [try EXCEPT ![p] = a]
  /\ Move(p, "permit")
  /\ UNCHANGED <<attempt, verdict, approval, invocation, evidence, described, world, outcome,
                 bounds>>

\* Two processes carried out one wake-up.
DoubleDispatch(a) ==
  /\ attempt[a] = "RUNNING" /\ doubles < MaxDoubles
  /\ due' = [due EXCEPT ![a] = @ + 1]
  /\ doubles' = doubles + 1
  /\ UNCHANGED <<attempt, verdict, approval, invocation, evidence, described, world, caller,
                 mishaps, deaths>>

\* The handler returns: a status, or the gate that awaits an approval.
Return(p, result) ==
  /\ outcome' = [outcome EXCEPT ![p] = result] /\ Move(p, "report")
  /\ UNCHANGED <<store, world, try, bounds>>

\* The scheduler records the result, which counts while the attempt is RUNNING:
\* a recoverable failure creates the next attempt, if there is one, and a gate
\* its approval request.
Report(p) ==
  LET a == try[p]
      counts == attempt[a] = "RUNNING"
      retried == counts /\ outcome[p] = "RECOVERABLE" /\ a < MaxTries
      asks == counts /\ outcome[p] \in Gates
  IN /\ stage[p] = "report"
     /\ attempt' = [b \in Tries |->
                      IF b = a /\ counts THEN outcome[p]
                      ELSE IF b = a + 1 /\ retried THEN "RUNNING" ELSE attempt[b]]
     /\ due' = IF retried THEN [due EXCEPT ![a + 1] = 1] ELSE due
     /\ approval' = IF asks /\ approval[a][outcome[p]] = "none"
                      THEN [approval EXCEPT ![a][outcome[p]] = "PENDING"] ELSE approval
     /\ Move(p, "idle")
     /\ outcome' = [outcome EXCEPT ![p] = "none"]
     /\ try' = [try EXCEPT ![p] = 1]
     /\ UNCHANGED <<verdict, invocation, evidence, described, world, bounds>>

\* A reviewer decides on what the attempt awaits.
Review(a) ==
  /\ attempt[a] \in Gates /\ approval[a][attempt[a]] = "PENDING"
  /\ \E d \in {"APPROVED", "REJECTED"} :
       approval' = [approval EXCEPT ![a][attempt[a]] = d]
  /\ UNCHANGED <<attempt, due, verdict, invocation, evidence, described, world, caller, bounds>>

\* The scheduler takes note: an approval makes the attempt due once more, even
\* one that was given before the attempt asked again.
Wake(a) ==
  /\ attempt[a] \in Gates
  /\ \/ /\ approval[a][attempt[a]] = "APPROVED"
        /\ attempt' = [attempt EXCEPT ![a] = "RUNNING"] /\ due' = [due EXCEPT ![a] = 1]
     \/ /\ approval[a][attempt[a]] = "REJECTED"
        /\ attempt' = [attempt EXCEPT ![a] = "FAILED"] /\ due' = [due EXCEPT ![a] = 0]
  /\ UNCHANGED <<verdict, approval, invocation, evidence, described, world, caller, bounds>>

\* The operator writes or removes the emergency marker.
ToggleMarker ==
  /\ mishaps < MaxMishaps /\ mishaps' = mishaps + 1
  /\ disabled' = ~ disabled
  /\ UNCHANGED <<store, tree, remote, opened, open, caller, deaths, doubles>>

\* Somebody merges or closes the pull request, but not in the moment between
\* a publisher's look for an existing one and its request for a new one.
ClosePull ==
  /\ open /\ \A p \in Publishers : stage[p] # "post"
  /\ open' = FALSE
  /\ UNCHANGED <<store, tree, remote, opened, disabled, caller, bounds>>

\* A call dies: its owner token is nobody's from now on.
Die(p) ==
  /\ stage[p] # "idle" /\ deaths < MaxDeaths /\ deaths' = deaths + 1
  /\ invocation' = [i \in DOMAIN invocation |->
                      IF invocation[i].owner = p
                        THEN [invocation[i] EXCEPT !.owner = Nobody] ELSE invocation[i]]
  /\ stage' = [stage EXCEPT ![p] = "idle"]
  /\ outcome' = [outcome EXCEPT ![p] = "none"]
  /\ try' = [try EXCEPT ![p] = 1]
  /\ UNCHANGED <<attempt, due, verdict, approval, evidence, described, world, mishaps, doubles>>

-----------------------------------------------------------------------------
(* Policy gates.                                                           *)

Attached(p) == attempt[try[p]] = "RUNNING"

PolicyAllows(a, g) ==
  \/ verdict[g] = "ALLOW"
  \/ verdict[g] = "REQUIRE_APPROVAL" /\ approval[a][g] = "APPROVED"

\* A rejected approval blocks the gate, and a pending one is asked for again.
Verdict(a, g) ==
  IF PolicyAllows(a, g) THEN "go"
  ELSE IF verdict[g] = "REQUIRE_APPROVAL" /\ approval[a][g] # "REJECTED" THEN "ask"
  ELSE "block"

\* The decision is persisted and attached; then it allows, blocks, or asks.
Decide(p, g, next) ==
  LET answer == IF Attached(p) THEN Verdict(try[p], g) ELSE "block"
  IN \/ /\ answer = "go"
        /\ Move(p, next) /\ UNCHANGED <<store, world, try, outcome, bounds>>
     \/ answer = "ask" /\ Return(p, g)
     \/ answer = "block" /\ Return(p, "FAILED")

\* _validate_inputs and _configuration: a RUNNING attempt, explicit Tools and
\* Policies, and a working branch of its own.
Configured(p) == Attached(p) /\ evidence # "unconfigured"

Bug_Accepted == evidence # "unconfigured"

\* _accepted_evidence: the one dependency is a successful EvaluateAcceptance
\* whose result passed, with every artifact and evaluation it names.
Accepted == evidence = "accepted"

GatePublication(p) ==
  /\ stage[p] = "permit"
  /\ IF disabled \/ ~ Configured(p) \/ ~ Accepted
       THEN Return(p, "FAILED")
       ELSE Decide(p, "publication", "mayPush")

GatePush(p) == stage[p] = "mayPush" /\ Decide(p, "git.push", "commit")

GateCreate(p) == stage[p] = "mayCreate" /\ Decide(p, "github.create_pr", "match")

-----------------------------------------------------------------------------
(* An invocation record: the claim before the effect, the result after it. *)

Invocation(p, e) == invocation[<<try[p], e>>]
Failures == {"policy", "recoverable", "permanent"}

\* The record before the effect, and after it.
Reserved(p) == [status |-> "PENDING", owner |-> p, failure |-> "none"]

Ended(o) ==
  IF o = "SUCCEEDED"
    THEN [status |-> "SUCCEEDED", owner |-> Nobody, failure |-> "none"]
    ELSE [status |-> "FAILED", owner |-> Nobody, failure |-> o]

InFlight(p, e) == Invocation(p, e).status = "PENDING" /\ Invocation(p, e).owner = p

\* create() by a deterministic key: the first caller owns the invocation, a
\* later one reads its result or waits a second for it and gives up.
Open(p, e, run, done) ==
  \/ /\ Invocation(p, e).status = "none"
     /\ invocation' = [invocation EXCEPT ![<<try[p], e>>] = Reserved(p)]
     /\ Move(p, run)
     /\ UNCHANGED <<attempt, due, verdict, approval, evidence, described, world, try, outcome,
                    bounds>>
  \/ /\ Invocation(p, e).status \in Terminal
     /\ Move(p, done) /\ UNCHANGED <<store, world, try, outcome, bounds>>
  \/ /\ Invocation(p, e).status = "PENDING" /\ Invocation(p, e).owner # p
     /\ Return(p, "RECOVERABLE")

\* The effect is over, with a result that the record does not hold yet.
Result(p, o) ==
  /\ outcome' = [outcome EXCEPT ![p] = o] /\ Move(p, "settle")
  /\ UNCHANGED <<store, try, deaths, doubles>>

Mishap == mishaps < MaxMishaps /\ mishaps' = mishaps + 1

\* update_status from PENDING.
Settle(p, e, done) ==
  /\ stage[p] = "settle" /\ InFlight(p, e)
  /\ invocation' = [invocation EXCEPT ![<<try[p], e>>] = Ended(outcome[p])]
  /\ outcome' = [outcome EXCEPT ![p] = "none"]
  /\ Move(p, done)
  /\ UNCHANGED <<attempt, due, verdict, approval, evidence, described, world, try, bounds>>

\* The result is attached and read: only a success goes on.
Continue(p, e, next) ==
  IF Attached(p) /\ Invocation(p, e).status = "SUCCEEDED"
    THEN Move(p, next) /\ UNCHANGED <<store, world, try, outcome, bounds>>
    ELSE Return(p, IF Attached(p) /\ Invocation(p, e).failure = "recoverable"
                     THEN "RECOVERABLE" ELSE "FAILED")

-----------------------------------------------------------------------------
(* Git.                                                                    *)

OpenCommit(p) == stage[p] = "commit" /\ Open(p, "commit", "committing", "committed")

\* commit_changes compares the tree with the accepted patch before it stages;
\* a tree that is committed already must be the accepted commit.  What an
\* interrupted call has staged may be listed in another order.
StageChanges(p) ==
  /\ stage[p] = "committing"
  /\ \/ /\ tree = "dirty" /\ tree' = "staged" /\ Move(p, "staged")
        /\ UNCHANGED <<store, remote, opened, open, disabled, try, outcome, bounds>>
     \/ /\ tree = "staged" /\ Move(p, "staged")
        /\ UNCHANGED <<store, world, try, outcome, bounds>>
     \/ tree = "staged" /\ Result(p, "permanent") /\ UNCHANGED world /\ UNCHANGED mishaps
     \/ tree = "committed" /\ Result(p, "SUCCEEDED") /\ UNCHANGED world /\ UNCHANGED mishaps
     \/ Mishap /\ Result(p, "permanent") /\ UNCHANGED world

\* A commit that times out may have been made, or not.
CommitChanges(p) ==
  /\ stage[p] = "staged"
  /\ UNCHANGED <<remote, opened, open, disabled>>
  /\ \/ tree = "staged" /\ tree' = "committed" /\ Result(p, "SUCCEEDED") /\ UNCHANGED mishaps
     \/ tree = "committed" /\ UNCHANGED tree /\ Result(p, "permanent") /\ UNCHANGED mishaps
     \/ Mishap /\ Result(p, "permanent") /\ tree' \in {tree, "committed"}

AfterCommit(p) == stage[p] = "committed" /\ Continue(p, "commit", "push")

OpenPush(p) ==
  /\ stage[p] = "push"
  /\ IF disabled THEN Return(p, "FAILED") ELSE Open(p, "push", "pushing", "pushed")

\* Credentials that fail or come too late leave the remote alone, and the Task
\* may try again.  From the push on, its state is unknown until it succeeds.
Push(p) ==
  /\ stage[p] = "pushing"
  /\ UNCHANGED <<tree, opened, open, disabled>>
  /\ \/ remote' = TRUE /\ Result(p, "SUCCEEDED") /\ UNCHANGED mishaps
     \/ Mishap /\ UNCHANGED remote /\ Result(p, "recoverable")
     \/ Mishap /\ remote' \in {remote, TRUE} /\ Result(p, "permanent")

Pushed(p) == stage[p] = "pushed" /\ Continue(p, "push", "mayCreate")

-----------------------------------------------------------------------------
(* GitHub.                                                                 *)

Creations == {b \in Tries : invocation[<<b, "create">>].status # "none"}
With(statuses) == {b \in Creations : invocation[<<b, "create">>].status \in statuses}

\* The publication of this workflow that counts: a success before a pending
\* one before any other.
Matching ==
  IF With({"SUCCEEDED"}) # {} THEN With({"SUCCEEDED"})
  ELSE IF With({"PENDING"}) # {} THEN With({"PENDING"}) ELSE Creations

\* PersistedPublicationPolicyVerifier: the evidence of this attempt is read
\* again, from the store, before the first request to GitHub.
EvidenceVerified == evidence = "accepted"

CommitVerified(a) == invocation[<<a, "commit">>].status = "SUCCEEDED"

PushVerified(a) ==
  invocation[<<a, "push">>].status = "SUCCEEDED" /\ PolicyAllows(a, "git.push")

Verified(a) ==
  EvidenceVerified /\ CommitVerified(a) /\ PushVerified(a) /\ PolicyAllows(a, "publication")

\* A call of this attempt's own is not in flight: its record would be in the way.
Idle(a) == invocation[<<a, "create">>].status # "PENDING"

Bug_Adopted(a, b) == [invocation[<<b, "create">>] EXCEPT !.status = "SUCCEEDED"]

\* An earlier attempt has published: its result becomes this attempt's own.
Adopted(a, b) == invocation[<<b, "create">>]

Reconciled(a, b) ==
  /\ invocation[<<b, "create">>].status \in Terminal /\ Verified(a)
  /\ Idle(a)
  /\ invocation' = IF invocation[<<a, "create">>].status = "none"
                     THEN [invocation EXCEPT ![<<a, "create">>] = Adopted(a, b)]
                     ELSE invocation

MatchCreation(p) ==
  LET a == try[p] IN
  /\ stage[p] = "match"
  /\ \/ disabled /\ Return(p, "FAILED")
     \/ /\ ~ disabled /\ Matching = {}
        /\ Move(p, "reserve") /\ UNCHANGED <<store, world, try, outcome, bounds>>
     \/ /\ ~ disabled
        /\ \E b \in Matching :
             \/ /\ invocation[<<b, "create">>].status = "PENDING"
                /\ Return(p, "RECOVERABLE")
             \/ /\ b = a /\ invocation[<<b, "create">>].status \in Terminal
                /\ Move(p, "created") /\ UNCHANGED <<store, world, try, outcome, bounds>>
             \/ /\ b # a /\ Reconciled(a, b)
                /\ Move(p, "created")
                /\ UNCHANGED <<attempt, due, verdict, approval, evidence, described, world, try,
                               outcome, bounds>>
             \/ /\ b # a /\ invocation[<<b, "create">>].status \in Terminal
                /\ ~ (Verified(a) /\ Idle(a))
                /\ Return(p, "FAILED")

OpenCreate(p) == stage[p] = "reserve" /\ Open(p, "create", "verify", "created")

VerifyEvidence(p) ==
  /\ stage[p] = "verify"
  /\ IF Verified(try[p])
       THEN Move(p, "lookup") /\ UNCHANGED <<store, world, try, outcome, bounds>>
       ELSE Result(p, "policy") /\ UNCHANGED world /\ UNCHANGED mishaps

Bug_Existing == open

\* _create_or_reconcile: any pull request of this head and base, open or not,
\* is the one to return.
Existing == opened > 0

LookUp(p) ==
  /\ stage[p] = "lookup"
  /\ \/ Existing /\ Result(p, "SUCCEEDED") /\ UNCHANGED world /\ UNCHANGED mishaps
     \/ /\ ~ Existing
        /\ Move(p, "post") /\ UNCHANGED <<store, world, try, outcome, bounds>>
     \/ Mishap /\ Result(p, "permanent") /\ UNCHANGED world

\* GitHub refuses a second open pull request of one head and base.  A request
\* without an answer may have been carried out, and is never repeated.
PostPull(p) ==
  /\ stage[p] = "post"
  /\ UNCHANGED <<tree, remote, disabled>>
  /\ \/ /\ ~ open /\ opened' = opened + 1 /\ open' = TRUE
        /\ Result(p, "SUCCEEDED") /\ UNCHANGED mishaps
     \/ open /\ UNCHANGED <<opened, open>> /\ Result(p, "permanent") /\ UNCHANGED mishaps
     \/ /\ Mishap /\ Result(p, "permanent")
        /\ \/ UNCHANGED <<opened, open>>
           \/ ~ open /\ opened' = opened + 1 /\ open' = TRUE

Created(p) == stage[p] = "created" /\ Continue(p, "create", "describe")

\* The description artifact, which a failing artifact store leaves to a retry.
Describe(p) ==
  /\ stage[p] = "describe"
  /\ \/ /\ described' = described \cup {try[p]}
        /\ Move(p, "report")
        /\ outcome' = [outcome EXCEPT ![p] = IF Attached(p) THEN "SUCCEEDED" ELSE "FAILED"]
        /\ UNCHANGED <<attempt, due, verdict, approval, invocation, evidence, world, try, bounds>>
     \/ /\ Mishap /\ try[p] \notin described
        /\ outcome' = [outcome EXCEPT ![p] = "RECOVERABLE"] /\ Move(p, "report")
        /\ UNCHANGED <<store, world, try, deaths, doubles>>

-----------------------------------------------------------------------------

Publisher(p) ==
  \/ GatePublication(p) \/ GatePush(p) \/ GateCreate(p)
  \/ OpenCommit(p) \/ StageChanges(p) \/ CommitChanges(p) \/ AfterCommit(p)
  \/ OpenPush(p) \/ Push(p) \/ Pushed(p)
  \/ MatchCreation(p) \/ OpenCreate(p) \/ VerifyEvidence(p) \/ LookUp(p)
  \/ PostPull(p) \/ Created(p) \/ Describe(p) \/ Report(p)
  \/ Settle(p, "commit", "committed") \/ Settle(p, "push", "pushed")
  \/ Settle(p, "create", "created")

PublicationNext ==
  \/ \E p \in Publishers : Publisher(p) \/ Die(p) \/ \E a \in Tries : Dispatch(p, a)
  \/ \E a \in Tries : DoubleDispatch(a) \/ Review(a) \/ Wake(a)
  \/ ToggleMarker \/ ClosePull

PublicationSpec == PublicationInit /\ [][PublicationNext]_publicationVars

-----------------------------------------------------------------------------
(* What the Task promises.                                                 *)

PublicationTypeOK ==
  /\ attempt \in [Tries -> Gates \cup {"absent", "RUNNING", "RECOVERABLE", "SUCCEEDED", "FAILED"}]
  /\ due \in [Tries -> Nat]
  /\ approval \in [Tries -> [Gates -> {"none", "PENDING", "APPROVED", "REJECTED"}]]
  /\ invocation \in [Tries \X Effects ->
       [status : {"none", "PENDING"} \cup Terminal,
        owner : Publishers \cup {Nobody}, failure : Failures \cup {"none"}]]
  /\ described \subseteq Tries
  /\ tree \in {"dirty", "staged", "committed"} /\ remote \in BOOLEAN
  /\ opened \in Nat /\ open \in BOOLEAN /\ disabled \in BOOLEAN
  /\ stage \in [Publishers -> Stages] /\ try \in [Publishers -> Tries]
  /\ outcome \in [Publishers ->
       Failures \cup Gates \cup {"none", "SUCCEEDED", "RECOVERABLE", "FAILED"}]

\* "The provider operation will not be repeated": one workflow opens at most
\* one pull request, through retries, deaths, double dispatches, ambiguous
\* answers and a pull request that is merged before the retry.
OnePullRequest == opened <= 1

\* The Task succeeds only if its pull request exists, on a branch that carries
\* the accepted commit, and its description is published; in particular a
\* retry never turns an earlier, unknown publication into a success.
SuccessIsPublished ==
  \A a \in Tries : attempt[a] = "SUCCEEDED" => opened > 0 /\ remote /\ a \in described

\* What is public was accepted and allowed: some attempt had every one of its
\* gates allowed or approved before it pushed, and before it asked GitHub.
PublishedIsAuthorized ==
  /\ remote => /\ tree = "committed" /\ evidence = "accepted"
               /\ \E a \in Tries : PolicyAllows(a, "publication") /\ PolicyAllows(a, "git.push")
  /\ opened > 0 => remote /\ \E a \in Tries : \A g \in Gates : PolicyAllows(a, g)

-----------------------------------------------------------------------------
(* What all of it amounts to.                                              *)

\* An attempt that runs or waits for a reviewer is open.
Standing(a) == IF attempt[a] \in Gates \cup {"RUNNING"} THEN "open" ELSE attempt[a]

Published == IF remote THEN "pushed" ELSE IF tree = "committed" THEN "committed" ELSE "nothing"

Release == INSTANCE GatedRelease WITH
  Early <- {"publication", "git.push"},
  accepted <- Accepted,
  passed <- [a \in Tries |-> {g \in Gates : PolicyAllows(a, g)}],
  public <- Published,
  pulls <- opened,
  result <- [a \in Tries |-> Standing(a)]

\* Seen from outside, the calls of execute(), however many overlap, die or are
\* repeated, commit, push and open one pull request in this order and for good,
\* each for an attempt that was let through, and describe it before an attempt
\* succeeds.
ImplementsGatedRelease == Release!Spec
=============================================================================
