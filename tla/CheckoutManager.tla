--------------------------- MODULE CheckoutManager ---------------------------
(***************************************************************************)
(* Execution checkouts, src/aep/execution_checkout.py: the registry of     *)
(* claims (SqliteCheckoutRegistry), and the processes that provision a     *)
(* worktree for an execution, or clean it up, from one repository cache.   *)
(*                                                                         *)
(* A registry call is one SQLite transaction, so one step.  A mutation of  *)
(* the disk is two: both claims are renewed when it begins, and a          *)
(* heartbeat keeps them alive until it ends.  Between two mutations        *)
(* nothing renews them, and they may lapse.  Time is only what expires: a  *)
(* claim is live or it is not.  An owner token and its fence are fresh for *)
(* every call, so they stand here for the worker that makes the call, and  *)
(* for Gone once that call is over.                                        *)
(***************************************************************************)
EXTENDS Naturals

CONSTANTS
  Executions, Workers,
  Nobody, Gone,    \* no owner; the owner of a claim whose call is over
  Ending,          \* executions that may end, and be cleaned up
  MaxTroubles      \* bound on crashes, failing commands and lapsed claims

GitMutations == {"clone", "fetch", "forceRemove", "remove", "deleteBranch", "add"}

ASSUME CheckoutAssumption ==
  /\ Nobody \notin Workers \cup GitMutations /\ Gone \notin Workers /\ Nobody # Gone
  /\ MaxTroubles \in Nat

VARIABLES
  \* The registry.
  record,      \* [Executions -> Records], a row of execution_checkouts
  cacheClaim,  \* the row of repository_cache_claims
  \* The disk.
  cache,       \* the bare repository: "none", "broken" or "good"
  workspace,   \* [Executions -> Workspaces]
  branch,      \* executions whose branch exists in the cache
  linked,      \* executions whose worktree the cache has on its list
  \* The callers.
  terminal,    \* executions that have ended, with durable evidence
  givenUp,     \* executions whose row was retired by a configuration failure
  \* Private to a worker.
  at, job, mode, doing,
  troubles     \* how many there were

registry == <<record, cacheClaim>>
onDisk == <<cache, workspace, branch, linked>>
callers == <<terminal, givenUp>>
private == <<at, job, mode, doing>>
checkoutVars == <<record, cacheClaim, cache, workspace, branch, linked, terminal, givenUp,
          at, job, mode, doing, troubles>>

States == {"absent", "PROVISIONING", "READY", "FAILED", "CLEANUP_FAILED", "CLEANED"}
Owners == Workers \cup {Nobody, Gone}
Records == [state : States, owner : Owners, live : BOOLEAN]

\* "foreign" is a directory that does not identify itself as the worktree of
\* the branch; "partial" does, but is not at the revision or not clean;
\* "dirty" holds work of the execution's handlers.
Workspaces == {"none", "foreign", "partial", "clean", "dirty"}

Phases == {"idle", "unclaimed", "claimed", "source", "cloned", "fetched", "removed",
           "unbranched", "cleaning", "inspect", "prune", "publish", "renewed",
           "failing", "release"}

CheckoutTypeOK ==
  /\ record \in [Executions -> Records]
  /\ cacheClaim \in [owner : Owners, live : BOOLEAN]
  /\ cache \in {"none", "broken", "good"}
  /\ workspace \in [Executions -> Workspaces]
  /\ branch \subseteq Executions /\ linked \subseteq Executions
  /\ terminal \subseteq Executions /\ givenUp \subseteq Executions
  /\ at \in [Workers -> Phases]
  /\ job \in [Workers -> Executions \cup {Nobody}]
  /\ mode \in [Workers -> {"provision", "cleanup"}]
  /\ doing \in [Workers -> GitMutations \cup {Nobody}]
  /\ troubles \in 0..MaxTroubles

Absent == [state |-> "absent", owner |-> Nobody, live |-> FALSE]
NoClaim == [owner |-> Nobody, live |-> FALSE]

CheckoutInit ==
  /\ record = [e \in Executions |-> Absent] /\ cacheClaim = NoClaim
  /\ cache = "none"
  /\ workspace = [e \in Executions |-> "none"] /\ branch = {} /\ linked = {}
  /\ terminal = {} /\ givenUp = {}
  /\ at = [w \in Workers |-> "idle"] /\ job = [w \in Workers |-> Nobody]
  /\ mode = [w \in Workers |-> "provision"]
  /\ doing = [w \in Workers |-> Nobody]
  /\ troubles = 0

-----------------------------------------------------------------------------
(* The registry.                                                           *)

Owns(w) ==
  /\ record[job[w]].state = "PROVISIONING"
  /\ record[job[w]].owner = w
  /\ record[job[w]].live

OwnsCache(w) == cacheClaim.owner = w /\ cacheClaim.live /\ Owns(w)

\* Bug: a claim that was left behind is never taken over.
Bug_Claimable(r) == r.state \in {"absent", "FAILED", "CLEANUP_FAILED", "CLEANED"}

\* What claim() replaces: anything but a checkout that is ready, or in hand.
Claimable(r) == r.state # "READY" /\ ~ (r.state = "PROVISIONING" /\ r.live)

\* Bug: the claim of another worker on the cache is not respected.
Bug_CacheClaimable == TRUE

CacheClaimable == cacheClaim.owner = Nobody \/ ~ cacheClaim.live

Held(w) == [state |-> "PROVISIONING", owner |-> w, live |-> TRUE]
Settled(state) == [state |-> state, owner |-> Nobody, live |-> FALSE]

\* update(), of which a worker that lost its claim has no effect.
RecordIfOwner(w, state) ==
  record' = IF Owns(w) THEN [record EXCEPT ![job[w]] = Settled(state)] ELSE record

-----------------------------------------------------------------------------
Trouble == troubles < MaxTroubles /\ troubles' = troubles + 1

GoTo(w, next) == at' = [at EXCEPT ![w] = next]

\* A CheckoutProvisionError inside the try block of a call.
Fail(w) ==
  /\ GoTo(w, "failing")
  /\ UNCHANGED <<registry, onDisk, callers, job, mode, doing>>

\* The call is over: what it leaves in the registry has no owner any more.
Forget(w) ==
  /\ at' = [at EXCEPT ![w] = "idle"] /\ job' = [job EXCEPT ![w] = Nobody]
  /\ mode' = [mode EXCEPT ![w] = "provision"]
  /\ doing' = [doing EXCEPT ![w] = Nobody]

Disown(r, w) == IF r.owner = w THEN [r EXCEPT !.owner = Gone] ELSE r

Steps(w, now, next) ==
  at[w] = now /\ GoTo(w, next) /\ UNCHANGED <<registry, onDisk, callers, job, mode, doing>>

\* The consumer takes a row whose execution it has read as not terminal, and
\* provision() looks the record up: a checkout that is ready is used.
Request(w, e) ==
  /\ at[w] = "idle" /\ e \notin terminal /\ e \notin givenUp
  /\ record[e].state # "READY" /\ GoTo(w, "unclaimed") /\ job' = [job EXCEPT ![w] = e]
  /\ UNCHANGED <<registry, onDisk, callers, mode, doing, troubles>>

\* claim(): taken, or left to what is ready or in hand.
Claim(w) ==
  /\ at[w] = "unclaimed"
  /\ \/ /\ Claimable(record[job[w]])
        /\ record' = [record EXCEPT ![job[w]] = Held(w)]
        /\ GoTo(w, "claimed") /\ UNCHANGED <<job, mode, doing>>
     \/ ~ Claimable(record[job[w]]) /\ Forget(w) /\ UNCHANGED record
  /\ UNCHANGED <<cacheClaim, onDisk, callers, troubles>>

\* claim_cache(), of both operations.
ClaimCache(w) ==
  /\ at[w] \in {"claimed", "cleaning"}
  /\ \/ /\ Owns(w) /\ CacheClaimable
        /\ cacheClaim' = [owner |-> w, live |-> TRUE]
        /\ GoTo(w, IF mode[w] = "provision" THEN "source" ELSE "inspect")
        /\ UNCHANGED <<record, onDisk, callers, job, mode, doing>>
     \/ ~ (Owns(w) /\ CacheClaimable) /\ Fail(w)
  /\ UNCHANGED troubles

-----------------------------------------------------------------------------
(* Mutations of the disk, under the heartbeat.                             *)

\* _lease_heartbeat renews both claims before the mutation begins.
BeginMutation(w, m) ==
  \/ /\ OwnsCache(w)
     /\ doing' = [doing EXCEPT ![w] = m]
     /\ UNCHANGED <<registry, onDisk, callers, at, job, mode>>
  \/ ~ OwnsCache(w) /\ Fail(w)

\* What a mutation is for.
Effect(w, m) ==
  LET e == job[w] IN
  /\ cache' = IF m = "clone" THEN "good" ELSE cache
  /\ workspace' = IF m \in {"remove", "forceRemove"} THEN [workspace EXCEPT ![e] = "none"]
                  ELSE IF m = "add" THEN [workspace EXCEPT ![e] = "clean"] ELSE workspace
  /\ linked' = IF m \in {"remove", "forceRemove"} THEN linked \ {e}
               ELSE IF m = "add" THEN linked \cup {e} ELSE linked
  /\ branch' = IF m = "deleteBranch" THEN branch \ {e}
               ELSE IF m = "add" THEN branch \cup {e} ELSE branch

\* git refuses to delete a branch that a worktree on its list has checked out.
Refused(w, m) == m = "deleteBranch" /\ job[w] \in linked

\* What git may leave of a mutation that fails or is cut short.
Interrupted(w, m) ==
  LET e == job[w] IN
  CASE m = "clone" ->
         cache' \in {"none", "broken", "good"} /\ UNCHANGED <<workspace, branch, linked>>
    [] m \in {"remove", "forceRemove"} ->
         /\ \/ workspace' \in {workspace, [workspace EXCEPT ![e] = "partial"]} /\ UNCHANGED linked
            \/ workspace' = [workspace EXCEPT ![e] = "none"] /\ linked' \in {linked, linked \ {e}}
         /\ UNCHANGED <<cache, branch>>
    [] m = "add" ->
         /\ branch' \in {branch, branch \cup {e}}
         /\ \/ UNCHANGED <<workspace, linked>>
            \/ /\ \E made \in {"foreign", "partial", "clean"} :
                    workspace' = [workspace EXCEPT ![e] = made]
               /\ e \in branch' /\ linked' = linked \cup {e}
         /\ UNCHANGED cache
    [] OTHER -> (~ Refused(w, m) /\ Effect(w, m)) \/ UNCHANGED onDisk

After(w, m) ==
  CASE m = "clone" -> "cloned" [] m = "fetch" -> "fetched"
    [] m = "forceRemove" -> "removed" [] m = "remove" -> "prune"
    [] m = "add" -> "publish"
    [] m = "deleteBranch" -> IF mode[w] = "cleanup" THEN "publish" ELSE "unbranched"

EndMutation(w) ==
  /\ doing[w] # Nobody /\ ~ Refused(w, doing[w])
  /\ Effect(w, doing[w])
  /\ doing' = [doing EXCEPT ![w] = Nobody]
  /\ GoTo(w, After(w, doing[w]))
  /\ UNCHANGED <<registry, callers, job, mode, troubles>>

MutationFails(w) ==
  /\ doing[w] # Nobody
  /\ \/ Refused(w, doing[w]) /\ UNCHANGED <<onDisk, troubles>>
     \/ /\ ~ Refused(w, doing[w]) /\ Trouble
        /\ Interrupted(w, doing[w])
  /\ doing' = [doing EXCEPT ![w] = Nobody]
  /\ GoTo(w, "failing")
  /\ UNCHANGED <<registry, callers, job, mode>>

-----------------------------------------------------------------------------
(* provision().                                                            *)

\* Credentials, then materialize(): the cache is cloned when it is not there
\* and refused when it is no bare repository with the right origin.
Source(w) ==
  /\ at[w] = "source" /\ doing[w] = Nobody
  /\ CASE cache = "none" -> BeginMutation(w, "clone")
       [] cache = "broken" -> Fail(w)
       [] cache = "good" -> BeginMutation(w, "fetch")
  /\ UNCHANGED troubles

SourceFails(w) ==
  /\ at[w] = "source" /\ doing[w] = Nobody
  /\ Trouble
  /\ Fail(w)

Fetch(w) ==
  /\ at[w] = "cloned" /\ doing[w] = Nobody
  /\ BeginMutation(w, "fetch") /\ UNCHANGED troubles

\* The branch as fetched is no longer at the recorded revision: a
\* configuration failure, for which the consumer retires the row.
Drift(w) ==
  /\ at[w] = "fetched" /\ doing[w] = Nobody
  /\ GoTo(w, "failing") /\ givenUp' = givenUp \cup {job[w]}
  /\ UNCHANGED <<registry, onDisk, terminal, job, mode, doing, troubles>>

BranchThenWorktree(w) == BeginMutation(w, IF job[w] \in branch THEN "deleteBranch" ELSE "add")

\* _recover_or_create: a verified partial worktree is replaced, a complete one
\* is used, a directory that is neither is left alone.
Recover(w) ==
  /\ at[w] = "fetched" /\ doing[w] = Nobody
  /\ LET found == workspace[job[w]] IN
     CASE found = "none" -> BranchThenWorktree(w)
       [] found = "foreign" -> Fail(w)
       [] found = "clean" -> Steps(w, "fetched", "publish")
       [] found \in {"partial", "dirty"} -> BeginMutation(w, "forceRemove")
  /\ UNCHANGED troubles

Create(w) ==
  /\ at[w] \in {"removed", "unbranched"} /\ doing[w] = Nobody
  /\ BranchThenWorktree(w) /\ UNCHANGED troubles

\* The claims are renewed once more, then the record is written.
Renew(w) ==
  /\ at[w] = "publish"
  /\ IF OwnsCache(w) THEN Steps(w, "publish", "renewed") ELSE Fail(w)
  /\ UNCHANGED troubles

Publish(w) ==
  /\ at[w] = "renewed"
  /\ \/ /\ Owns(w)
        /\ RecordIfOwner(w, IF mode[w] = "provision" THEN "READY" ELSE "CLEANED")
        /\ GoTo(w, "release")
        /\ UNCHANGED <<cacheClaim, onDisk, callers, job, mode, doing>>
     \/ ~ Owns(w) /\ Fail(w)
  /\ UNCHANGED troubles

\* _try_record_terminal, whose own failure is ignored.
RecordFailure(w) ==
  /\ at[w] = "failing"
  /\ RecordIfOwner(w, IF mode[w] = "provision" THEN "FAILED" ELSE "CLEANUP_FAILED")
  /\ GoTo(w, "release")
  /\ UNCHANGED <<cacheClaim, onDisk, callers, job, mode, doing, troubles>>

\* The finally clause.
Release(w) ==
  /\ at[w] = "release"
  /\ cacheClaim' = IF cacheClaim.owner = w THEN NoClaim ELSE cacheClaim
  /\ record' = [record EXCEPT ![job[w]] = Disown(@, w)]
  /\ Forget(w)
  /\ UNCHANGED <<onDisk, callers, troubles>>

-----------------------------------------------------------------------------
(* cleanup(), called by an operator's process, which repeats a failed one a *)
(* bounded number of times.                                                *)

\* What begin_cleanup() replaces.
Cleanable(r) == r.state \in {"READY", "CLEANUP_FAILED"}

BeginCleanup(w, e) ==
  /\ at[w] = "idle" /\ e \in terminal /\ Cleanable(record[e])
  /\ IF record[e].state = "CLEANUP_FAILED" THEN Trouble ELSE UNCHANGED troubles
  /\ record' = [record EXCEPT ![e] = Held(w)]
  /\ GoTo(w, "cleaning") /\ job' = [job EXCEPT ![w] = e] /\ mode' = [mode EXCEPT ![w] = "cleanup"]
  /\ UNCHANGED <<cacheClaim, onDisk, callers, doing>>

\* Only a worktree without changes is removed, and then its branch.
BranchThenRecord(w, now) ==
  IF job[w] \in branch THEN BeginMutation(w, "deleteBranch") ELSE Steps(w, now, "publish")

Inspect(w) ==
  /\ at[w] = "inspect" /\ doing[w] = Nobody
  /\ LET found == workspace[job[w]] IN
     CASE found = "none" -> BranchThenRecord(w, "inspect")
       [] found = "clean" -> BeginMutation(w, "remove")
       [] found \in {"foreign", "partial", "dirty"} -> Fail(w)
  /\ UNCHANGED troubles

Prune(w) ==
  /\ at[w] = "prune" /\ doing[w] = Nobody
  /\ BranchThenRecord(w, "prune") /\ UNCHANGED troubles

-----------------------------------------------------------------------------
(* Around them.                                                            *)

\* The execution ends; its handlers may have changed the files.
Terminate(e) ==
  /\ record[e].state = "READY" /\ e \in Ending \ terminal
  /\ terminal' = terminal \cup {e}
  /\ workspace' \in {workspace, [workspace EXCEPT ![e] = "dirty"]}
  /\ UNCHANGED <<registry, cache, branch, linked, givenUp, private, troubles>>

\* Bug: nothing renews the claims while a mutation goes on.
Bug_Unattended(w) == at[w] # "idle"

\* A live worker's claims can lapse only where no heartbeat renews them.
Unattended(w) == at[w] # "idle" /\ doing[w] = Nobody

Expired(r, owner) == IF r.owner = owner THEN [r EXCEPT !.live = FALSE] ELSE r

\* It was slow: one of its claims has expired, or both.
Lapse(w) ==
  /\ Unattended(w) /\ Trouble
  /\ record' \in {record, [record EXCEPT ![job[w]] = Expired(@, w)]}
  /\ cacheClaim' \in {cacheClaim, Expired(cacheClaim, w)}
  /\ UNCHANGED <<onDisk, callers, private>>

\* What a call that is over has left.
Expire(e) ==
  /\ record[e].owner = Gone /\ record[e].live
  /\ record' = [record EXCEPT ![e] = Expired(@, Gone)]
  /\ UNCHANGED <<cacheClaim, onDisk, callers, private, troubles>>

ExpireCache ==
  /\ cacheClaim.owner = Gone /\ cacheClaim.live
  /\ cacheClaim' = Expired(cacheClaim, Gone)
  /\ UNCHANGED <<record, onDisk, callers, private, troubles>>

\* The process of a worker ends, in a mutation as well.
EndWorker(w) ==
  /\ at[w] # "idle" /\ Trouble
  /\ IF doing[w] = Nobody THEN UNCHANGED onDisk ELSE Interrupted(w, doing[w])
  /\ record' = [record EXCEPT ![job[w]] = Disown(@, w)]
  /\ cacheClaim' = Disown(cacheClaim, w)
  /\ Forget(w)
  /\ UNCHANGED callers

Provision(w) ==
  Claim(w) \/ Source(w) \/ Fetch(w) \/ Drift(w) \/ Recover(w) \/ Create(w)

CleanUp(w) == Inspect(w) \/ Prune(w)

WorkerStep(w) ==
  Provision(w) \/ CleanUp(w) \/ ClaimCache(w) \/ EndMutation(w) \/ MutationFails(w)
  \/ Renew(w) \/ Publish(w) \/ RecordFailure(w) \/ Release(w)

CheckoutNext ==
  \/ \E w \in Workers : WorkerStep(w) \/ SourceFails(w) \/ Lapse(w) \/ EndWorker(w)
  \/ \E w \in Workers, e \in Executions : Request(w, e) \/ BeginCleanup(w, e)
  \/ \E e \in Executions : Terminate(e) \/ Expire(e)
  \/ ExpireCache

CheckoutSpec == CheckoutInit /\ [][CheckoutNext]_checkoutVars

\* A call goes on; the consumer polls, and comes to every row of its list
\* again and again; what a dead worker has claimed expires.
CheckoutFairness ==
  /\ \A w \in Workers : WF_checkoutVars(WorkerStep(w))
  /\ \A w \in Workers, e \in Executions : SF_checkoutVars(Request(w, e))
  /\ \A e \in Executions : WF_checkoutVars(Expire(e))
  /\ WF_checkoutVars(ExpireCache)

FairCheckoutSpec == CheckoutSpec /\ CheckoutFairness

-----------------------------------------------------------------------------
(* Heartbeats and claims keep everybody else off the cache and off the     *)
(* worktree while a mutation goes on (_lease_heartbeat, claim_cache).      *)
OneMutator ==
  \A v, w \in Workers : doing[v] # Nobody /\ doing[w] # Nobody => v = w

(* A record that says READY has its worktree, branch and link, and nobody  *)
(* is changing them: what a worker whose claim was taken over does late    *)
(* never reaches a checkout that is in use (renew, update).                *)
ReadyIsIntact ==
  \A e \in Executions : record[e].state = "READY" =>
    /\ workspace[e] \in {"clean", "dirty"} /\ e \in branch \cap linked /\ cache = "good"
    /\ \A w \in Workers : job[w] = e => doing[w] = Nobody

\* What no retry repairs: a directory, a branch or a cache that an interrupted
\* git command left and that the checks of the code refuse.
BeyondRetry(e) ==
  \/ cache = "broken" \/ workspace[e] = "foreign"
  \/ e \in linked /\ workspace[e] = "none"

(* All checkouts get ready, or their rows are retired: what crashes,       *)
(* lapses and failures leave claimed is taken over by a later poll.  An    *)
(* interrupted git command can leave what no retry repairs, and its rows   *)
(* then claim the cache again and again (claim's takeover, the finally     *)
(* clauses).                                                               *)
EventuallyReady ==
  <>(\A e \in Executions : \/ record[e].state = "READY" \/ e \in givenUp \cup terminal
                            \/ \E x \in Executions : BeyondRetry(x))
=============================================================================
