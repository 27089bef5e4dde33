------------------------ MODULE CheckoutManagerProofs ------------------------
(***************************************************************************)
(* What the claims of CheckoutManager guarantee for any number of workers  *)
(* and executions: one mutator of the disk at a time, and no checkout that *)
(* is READY without its worktree, or under somebody's hands.               *)
(*                                                                         *)
(* Every step is a step of one worker, and changes the disk only in the    *)
(* middle of a mutation, which is under both claims.  So a step leaves the *)
(* part of the invariant that is about the other workers alone (Local),    *)
(* and what remains is the part of the worker that takes it.               *)
(*                                                                         *)
(* Then checkouts beside the durable store, as MCRetries puts them         *)
(* together.                                                               *)
(***************************************************************************)
EXTENDS MCRetries, DurableCheckpointProofs, TLAPS

Mutating == {"source", "cloned", "fetched", "removed", "unbranched", "inspect", "prune"}

\* A mutation goes on under both claims of its worker.
Holds(w) == doing[w] # Nobody => OwnsCache(w) /\ at[w] \in Mutating

\* Only a cleanup inspects a worktree, and removes it without force.
Moded(w) == at[w] \in {"inspect", "prune"} \/ doing[w] = "remove" => mode[w] = "cleanup"

\* A cache is cloned where there is none, and used once it is there.
Cached(w) ==
  /\ doing[w] = "clone" => cache = "none"
  /\ mode[w] = "provision"
     /\ \/ at[w] \in {"cloned", "fetched", "removed", "unbranched", "publish", "renewed"}
        \/ doing[w] \notin {Nobody, "clone"}
     => cache = "good"

\* What a mutation finds: a worktree to remove, or none beside the branch.
Aimed(w) ==
  /\ doing[w] \in {"remove", "forceRemove"} => workspace[job[w]] \in {"partial", "clean", "dirty"}
  /\ doing[w] = "deleteBranch" => workspace[job[w]] = "none"

\* What the owner of a record has left of its worktree so far.
Emptied(w) ==
  Owns(w) /\ at[w] \in {"removed", "unbranched", "prune"} => workspace[job[w]] = "none"

Complete(e) == workspace[e] \in {"clean", "dirty"} /\ e \in branch /\ e \in linked

Completed(w) ==
  Owns(w) /\ mode[w] = "provision" /\ at[w] \in {"publish", "renewed"} => Complete(job[w])

WorkerInv(w) ==
  /\ at[w] # "idle" => job[w] \in Executions
  /\ Holds(w) /\ Moded(w) /\ Cached(w) /\ Aimed(w) /\ Emptied(w) /\ Completed(w)

\* A worktree that identifies itself has its branch, and is on the list.
Identified(e) ==
  workspace[e] \in {"partial", "clean", "dirty"} => e \in branch /\ e \in linked

Intact(e) == Complete(e) /\ cache = "good"

Inv ==
  /\ CheckoutTypeOK
  /\ \A w \in Workers : WorkerInv(w)
  /\ \A e \in Executions : Identified(e)
  /\ \A e \in Executions : record[e].state = "READY" => Intact(e)

-----------------------------------------------------------------------------
LEMMA Exclusive ==
  ASSUME Inv, NEW v \in Workers, NEW w \in Workers, doing[v] # Nobody, doing[w] # Nobody
  PROVE  v = w
BY DEF Inv, WorkerInv, Holds, OwnsCache

LEMMA InvGivesOneMutator == Inv => OneMutator
BY Exclusive DEF OneMutator

LEMMA InvGivesReadyIsIntact == Inv => ReadyIsIntact
<1> SUFFICES ASSUME Inv, NEW e \in Executions, record[e].state = "READY"
             PROVE  /\ workspace[e] \in {"clean", "dirty"}
                    /\ e \in branch \cap linked /\ cache = "good"
                    /\ \A w \in Workers : job[w] = e => doing[w] = Nobody
  BY DEF ReadyIsIntact
<1>1. Intact(e)
  BY DEF Inv
<1>2. \A w \in Workers : job[w] = e => doing[w] = Nobody
  BY DEF Inv, WorkerInv, Holds, OwnsCache, Owns
<1> QED BY <1>1, <1>2 DEF Intact, Complete

LEMMA CheckoutInitInv == CheckoutInit => Inv
<1> SUFFICES ASSUME CheckoutInit PROVE Inv
  OBVIOUS
<1> USE DEF CheckoutInit
<1>1. CheckoutTypeOK
  <2>1. record \in [Executions -> Records]
    BY DEF Absent, Records, States, Owners
  <2>2. cacheClaim \in [owner : Owners, live : BOOLEAN]
    BY DEF NoClaim, Owners
  <2> QED BY <2>1, <2>2, CheckoutAssumption DEF CheckoutTypeOK, Workspaces, Phases
<1>2. \A w \in Workers : WorkerInv(w)
  BY CheckoutAssumption
  DEF WorkerInv, Holds, Moded, Cached, Aimed, Emptied, Completed, GitMutations
<1>3. \A e \in Executions : Identified(e) /\ record[e].state # "READY"
  BY DEF Identified, Absent
<1> QED BY <1>1, <1>2, <1>3 DEF Inv

-----------------------------------------------------------------------------
(* A step of one worker, w, as the others see it.                          *)

\* The disk stays, or w is in a mutation of the worktree of its execution.
OwnDisk(w) ==
  \/ UNCHANGED onDisk
  \/ /\ doing[w] # Nobody
     /\ cache' = cache \/ doing[w] = "clone"
     /\ \A e \in Executions \ {job[w]} :
          workspace'[e] = workspace[e] /\ (e \in branch' <=> e \in branch)
                                       /\ (e \in linked' <=> e \in linked)
     /\ \A e \in {job[w]} : Identified(e)'

\* No other gains a record, or loses what its mutation needs.
Respects(w) ==
  \A v \in Workers \ {w} :
    /\ at'[v] = at[v] /\ job'[v] = job[v] /\ mode'[v] = mode[v] /\ doing'[v] = doing[v]
    /\ at[v] # "idle" /\ Owns(v)' => Owns(v)
    /\ doing[v] # Nobody => OwnsCache(v)'

Local(w) ==
  /\ OwnDisk(w) /\ Respects(w)
  /\ \A e \in Executions : record'[e].state = "READY" => record[e].state = "READY" \/ Intact(e)'

LEMMA LocalKeepsOthers ==
  ASSUME Inv, NEW w \in Workers, Local(w), NEW v \in Workers \ {w}
  PROVE  WorkerInv(v)'
<1>1. WorkerInv(v)
  BY DEF Inv
<1>2. /\ at'[v] = at[v] /\ job'[v] = job[v] /\ mode'[v] = mode[v] /\ doing'[v] = doing[v]
      /\ at[v] # "idle" /\ Owns(v)' => Owns(v)
      /\ doing[v] # Nobody => OwnsCache(v)'
  BY DEF Local, Respects
<1>3. CASE UNCHANGED onDisk
  BY <1>1, <1>2, <1>3
  DEF onDisk, WorkerInv, Holds, Moded, Cached, Aimed, Emptied, Completed, Complete
<1>4. CASE ~ UNCHANGED onDisk
  <2>1. /\ doing[w] # Nobody
        /\ cache' = cache \/ doing[w] = "clone"
        /\ \A e \in Executions \ {job[w]} :
             workspace'[e] = workspace[e] /\ (e \in branch' <=> e \in branch)
                                          /\ (e \in linked' <=> e \in linked)
    BY <1>4 DEF Local, OwnDisk
  <2>2. doing[v] = Nobody
    BY <2>1, Exclusive
  <2>3. WorkerInv(w) /\ Owns(w)
    BY <2>1 DEF Inv, WorkerInv, Holds, OwnsCache
  <2>4. Owns(v) => job[v] # job[w]
    BY <2>3 DEF Owns
  <2>5. cache = "good" => cache' = "good"
    BY <2>1, <2>3 DEF WorkerInv, Cached
  <2>6. doing'[v] # "clone" /\ doing'[v] \notin {"remove", "forceRemove", "deleteBranch", "add", "fetch"}
    BY <1>2, <2>2, CheckoutAssumption DEF GitMutations
  <2> QED
    BY <1>1, <1>2, <2>1, <2>2, <2>4, <2>5, <2>6
    DEF WorkerInv, Holds, Moded, Cached, Aimed, Emptied, Completed, Complete
<1> QED BY <1>3, <1>4

LEMMA LocalKeeps ==
  ASSUME Inv, NEW w \in Workers, Local(w), CheckoutTypeOK', WorkerInv(w)'
  PROVE  Inv'
<1>1. \A v \in Workers : WorkerInv(v)'
  BY LocalKeepsOthers
<1>2. CASE UNCHANGED onDisk
  BY <1>1, <1>2 DEF Inv, Local, Identified, Intact, Complete, onDisk
<1>3. CASE ~ UNCHANGED onDisk
  <2>1. /\ doing[w] # Nobody
        /\ cache' = cache \/ doing[w] = "clone"
        /\ \A e \in Executions \ {job[w]} :
             workspace'[e] = workspace[e] /\ (e \in branch' <=> e \in branch)
                                          /\ (e \in linked' <=> e \in linked)
        /\ \A e \in {job[w]} : Identified(e)'
    BY <1>3 DEF Local, OwnDisk
  <2>2. \A e \in Executions \ {job[w]} : workspace'[e] = workspace[e] =>
          /\ Identified(e) /\ (e \in branch' <=> e \in branch) /\ (e \in linked' <=> e \in linked)
             => Identified(e)'
    BY DEF Identified
  <2>3. WorkerInv(w) /\ Owns(w)
    BY <2>1 DEF Inv, WorkerInv, Holds, OwnsCache
  <2>4. cache = "good" => cache' = "good"
    BY <2>1, <2>3 DEF WorkerInv, Cached
  <2>5. \A e \in Executions : Identified(e)'
    <3> TAKE e \in Executions
    <3>1. CASE e = job[w]
      BY <2>1, <3>1
    <3>2. CASE e # job[w]
      BY <2>1, <2>2, <3>2 DEF Inv
    <3> QED BY <3>1, <3>2
  <2>6. ASSUME NEW e \in Executions, record'[e].state = "READY" PROVE Intact(e)'
    <3>1. CASE record[e].state # "READY"
      BY <2>6, <3>1 DEF Local
    <3>2. CASE record[e].state = "READY"
      <4>1. e # job[w]
        BY <2>3, <3>2 DEF Owns
      <4>2. Intact(e)
        BY <3>2 DEF Inv
      <4> QED BY <2>1, <2>4, <4>1, <4>2 DEF Intact, Complete
    <3> QED BY <3>1, <3>2
  <2> QED BY <1>1, <2>5, <2>6 DEF Inv
<1> QED BY <1>2, <1>3

-----------------------------------------------------------------------------
(* Steps of a worker that change neither the disk nor the registry.        *)

Steady == UNCHANGED <<record, cacheClaim, cache, workspace, branch, linked>>

Alone(w) ==
  \A v \in Workers \ {w} :
    at'[v] = at[v] /\ job'[v] = job[v] /\ mode'[v] = mode[v] /\ doing'[v] = doing[v]

LEMMA SteadyIsLocal ==
  ASSUME Inv, NEW w \in Workers, Steady, Alone(w)
  PROVE  Local(w)
<1>1. UNCHANGED onDisk
  BY DEF Steady, onDisk
<1>2. \A v \in Workers \ {w} : (Owns(v)' => Owns(v)) /\ (doing[v] # Nobody => OwnsCache(v)')
  BY DEF Steady, Alone, Owns, OwnsCache, Inv, WorkerInv, Holds
<1> QED BY <1>1, <1>2 DEF Local, OwnDisk, Respects, Alone, Steady

LEMMA RequestKeeps ==
  ASSUME Inv, NEW w \in Workers, NEW e \in Executions, Request(w, e)
  PROVE  Inv'
<1> USE DEF Request, GoTo, registry, onDisk, callers
<1>1. Steady /\ Alone(w)
  BY DEF Steady, Alone, Inv, CheckoutTypeOK
<1>2. CheckoutTypeOK'
  BY DEF Inv, CheckoutTypeOK, Phases
<1>3. at'[w] = "unclaimed" /\ job'[w] = e /\ doing'[w] = doing[w]
  BY DEF Inv, CheckoutTypeOK
<1>4. doing[w] = Nobody
  BY DEF Inv, WorkerInv, Holds, Mutating
<1>5. WorkerInv(w)'
  BY <1>3, <1>4, CheckoutAssumption
  DEF WorkerInv, Holds, Moded, Cached, Aimed, Emptied, Completed, GitMutations
<1> QED BY <1>1, <1>2, <1>5, SteadyIsLocal, LocalKeeps

\* A worker that stays with its execution goes to another phase.
Moves(w, next) ==
  /\ GoTo(w, next) /\ Steady /\ UNCHANGED <<job, mode, doing>>
  /\ terminal' \subseteq Executions /\ givenUp' \subseteq Executions /\ troubles' \in 0..MaxTroubles

LEMMA MovesKeeps ==
  ASSUME Inv, NEW w \in Workers, NEW next \in Phases \ {"idle"}, Moves(w, next),
         at[w] # "idle", doing[w] = Nobody,
         next \in {"inspect", "prune"} => mode[w] = "cleanup",
         next \in {"cloned", "fetched", "removed", "unbranched", "publish", "renewed"}
           => mode[w] = "cleanup" \/ cache = "good",
         next \in {"removed", "unbranched", "prune"} => workspace[job[w]] = "none",
         next \in {"publish", "renewed"} => mode[w] = "cleanup" \/ (Owns(w) => Complete(job[w]))
  PROVE  Inv'
<1> USE DEF Moves, GoTo
<1>1. Alone(w)
  BY DEF Alone, Inv, CheckoutTypeOK
<1>2. CheckoutTypeOK'
  BY DEF Inv, CheckoutTypeOK, Steady
<1>3. /\ at'[w] = next /\ job'[w] = job[w] /\ mode'[w] = mode[w] /\ doing'[w] = Nobody
      /\ Owns(w)' = Owns(w)
  BY DEF Inv, CheckoutTypeOK, Owns, Steady
<1>4. Holds(w)' /\ Aimed(w)' /\ Moded(w)'
  BY <1>3, CheckoutAssumption DEF Holds, Aimed, Moded, GitMutations
<1>5. Cached(w)'
  BY <1>3, CheckoutAssumption DEF Cached, GitMutations, Steady
<1>6. Emptied(w)' /\ Completed(w)'
  BY <1>3 DEF Emptied, Completed, Complete, Steady
<1>7. WorkerInv(w)'
  BY <1>3, <1>4, <1>5, <1>6 DEF WorkerInv, Inv
<1> QED BY <1>1, <1>2, <1>7, SteadyIsLocal, LocalKeeps

LEMMA FailsKeeps ==
  ASSUME Inv, NEW w \in Workers, GoTo(w, "failing"), at[w] # "idle", doing[w] = Nobody,
         UNCHANGED <<registry, onDisk, job, mode, doing>>,
         terminal' \subseteq Executions, givenUp' \subseteq Executions, troubles' \in 0..MaxTroubles
  PROVE  Inv'
<1>1. Moves(w, "failing") /\ "failing" \in Phases \ {"idle"}
  BY DEF Moves, Steady, registry, onDisk, Phases
<1> QED BY <1>1, MovesKeeps

LEMMA FailKeeps ==
  ASSUME Inv, NEW w \in Workers, Fail(w), at[w] # "idle", doing[w] = Nobody,
         troubles' \in 0..MaxTroubles
  PROVE  Inv'
BY FailsKeeps DEF Fail, callers, Inv, CheckoutTypeOK

LEMMA TroubleCounts == Inv /\ Trouble => troubles' \in 0..MaxTroubles
BY CheckoutAssumption DEF Inv, CheckoutTypeOK, Trouble

LEMMA SourceFailsKeeps ==
  ASSUME Inv, NEW w \in Workers, SourceFails(w) PROVE Inv'
BY TroubleCounts, FailKeeps DEF SourceFails

LEMMA DriftKeeps ==
  ASSUME Inv, NEW w \in Workers, Drift(w) PROVE Inv'
<1>1. job[w] \in Executions
  BY DEF Drift, Inv, WorkerInv
<1> QED BY <1>1, FailsKeeps DEF Drift, Inv, CheckoutTypeOK

-----------------------------------------------------------------------------
(* A mutation begins.                                                      *)

LEMMA BeginKeeps ==
  ASSUME Inv, NEW w \in Workers, NEW m \in GitMutations, BeginMutation(w, m),
         at[w] \in Mutating, doing[w] = Nobody, troubles' = troubles,
         m = "clone" => cache = "none",
         m # "clone" => mode[w] = "cleanup" \/ cache = "good",
         m = "remove" => mode[w] = "cleanup",
         m \in {"remove", "forceRemove"} => workspace[job[w]] \in {"partial", "clean", "dirty"},
         m = "deleteBranch" /\ Owns(w) => workspace[job[w]] = "none"
  PROVE  Inv'
<1>1. CASE OwnsCache(w) /\ doing' = [doing EXCEPT ![w] = m]
                        /\ UNCHANGED <<registry, onDisk, callers, at, job, mode>>
  <2> USE <1>1 DEF registry, onDisk, callers
  <2>1. Steady /\ Alone(w)
    BY DEF Steady, Alone, Inv, CheckoutTypeOK
  <2>2. CheckoutTypeOK'
    BY DEF Inv, CheckoutTypeOK
  <2>3. doing'[w] = m /\ m # Nobody /\ OwnsCache(w)' /\ Owns(w)
    BY CheckoutAssumption DEF OwnsCache, Owns, Inv, CheckoutTypeOK
  <2>4. WorkerInv(w)
    BY DEF Inv
  <2>5. Holds(w)' /\ Moded(w)' /\ Aimed(w)'
    BY <2>3, <2>4 DEF Holds, Moded, Aimed, WorkerInv
  <2>6. Cached(w)'
    BY <2>3, <2>4 DEF Cached, WorkerInv
  <2>7. Emptied(w)' /\ Completed(w)'
    BY <2>4 DEF Emptied, Completed, Complete, Owns, WorkerInv
  <2>8. WorkerInv(w)'
    BY <2>4, <2>5, <2>6, <2>7 DEF WorkerInv
  <2> QED BY <2>1, <2>2, <2>8, SteadyIsLocal, LocalKeeps
<1>2. CASE Fail(w)
  <2>1. troubles' \in 0..MaxTroubles
    BY DEF Inv, CheckoutTypeOK
  <2> QED BY <1>2, <2>1, FailKeeps DEF Mutating
<1> QED BY <1>1, <1>2 DEF BeginMutation

LEMMA StepsKeeps ==
  ASSUME Inv, NEW w \in Workers, NEW now \in Phases \ {"idle"},
         NEW next \in {"publish", "renewed"}, Steps(w, now, next), troubles' = troubles,
         doing[w] = Nobody, mode[w] = "cleanup" \/ cache = "good",
         mode[w] = "cleanup" \/ (Owns(w) => Complete(job[w]))
  PROVE  Inv'
<1>1. Moves(w, next) /\ next \in Phases \ {"idle"}
  BY DEF Steps, Moves, Steady, registry, onDisk, callers, Inv, CheckoutTypeOK, Phases
<1>2. at[w] # "idle"
  BY DEF Steps
<1> QED BY <1>1, <1>2, MovesKeeps

LEMMA SourceKeeps ==
  ASSUME Inv, NEW w \in Workers, Source(w) PROVE Inv'
<1>1. at[w] = "source" /\ doing[w] = Nobody /\ troubles' = troubles
  BY DEF Source
<1>2. at[w] \in Mutating /\ troubles' \in 0..MaxTroubles
  BY <1>1 DEF Mutating, Inv, CheckoutTypeOK
<1>3. \/ cache = "none" /\ BeginMutation(w, "clone")
      \/ Fail(w)
      \/ cache = "good" /\ BeginMutation(w, "fetch")
  BY DEF Source, Inv, CheckoutTypeOK
<1>4. "clone" \in GitMutations /\ "fetch" \in GitMutations
  BY DEF GitMutations
<1> QED BY <1>1, <1>2, <1>3, <1>4, BeginKeeps, FailKeeps

LEMMA FetchKeeps ==
  ASSUME Inv, NEW w \in Workers, Fetch(w) PROVE Inv'
<1>1. at[w] = "cloned" /\ doing[w] = Nobody /\ troubles' = troubles
  BY DEF Fetch
<1>2. at[w] \in Mutating
  BY <1>1 DEF Mutating
<1>3. mode[w] = "cleanup" \/ cache = "good"
  BY <1>1 DEF Inv, WorkerInv, Cached, CheckoutTypeOK
<1>4. "fetch" \in GitMutations
  BY DEF GitMutations
<1> QED BY <1>1, <1>2, <1>3, <1>4, BeginKeeps DEF Fetch

LEMMA BranchThenWorktreeKeeps ==
  ASSUME Inv, NEW w \in Workers, BranchThenWorktree(w), troubles' = troubles,
         at[w] \in Mutating, doing[w] = Nobody, mode[w] = "cleanup" \/ cache = "good",
         Owns(w) => workspace[job[w]] = "none"
  PROVE  Inv'
<1>1. \/ BeginMutation(w, "deleteBranch")
      \/ BeginMutation(w, "add")
  BY DEF BranchThenWorktree
<1>2. "deleteBranch" \in GitMutations /\ "add" \in GitMutations
  BY DEF GitMutations
<1> QED BY <1>1, <1>2, BeginKeeps

LEMMA RecoverKeeps ==
  ASSUME Inv, NEW w \in Workers, Recover(w) PROVE Inv'
<1>1. at[w] = "fetched" /\ doing[w] = Nobody /\ troubles' = troubles
  BY DEF Recover
<1>2. at[w] \in Mutating /\ at[w] # "idle" /\ "fetched" \in Phases \ {"idle"}
      /\ troubles' \in 0..MaxTroubles
  BY <1>1 DEF Mutating, Inv, CheckoutTypeOK, Phases
<1>3. mode[w] = "cleanup" \/ cache = "good"
  BY <1>1 DEF Inv, WorkerInv, Cached, CheckoutTypeOK
<1>4. job[w] \in Executions /\ workspace[job[w]] \in Workspaces
  BY <1>1 DEF Inv, WorkerInv, CheckoutTypeOK
<1>5. CASE workspace[job[w]] = "none"
  <2>1. BranchThenWorktree(w)
    BY <1>5 DEF Recover
  <2> QED BY <1>1, <1>2, <1>3, <1>5, <2>1, BranchThenWorktreeKeeps
<1>6. CASE workspace[job[w]] = "foreign"
  BY <1>1, <1>2, <1>6, FailKeeps DEF Recover
<1>7. CASE workspace[job[w]] = "clean"
  <2>1. Complete(job[w])
    BY <1>4, <1>7 DEF Inv, Identified, Complete
  <2>2. Steps(w, "fetched", "publish")
    BY <1>7 DEF Recover
  <2> QED BY <1>1, <1>2, <1>3, <2>1, <2>2, StepsKeeps
<1>8. CASE workspace[job[w]] \in {"partial", "dirty"}
  <2>1. BeginMutation(w, "forceRemove") /\ "forceRemove" \in GitMutations
    BY <1>8 DEF Recover, GitMutations
  <2> QED BY <1>1, <1>2, <1>3, <1>8, <2>1, BeginKeeps
<1> QED BY <1>4, <1>5, <1>6, <1>7, <1>8 DEF Workspaces

LEMMA CreateKeeps ==
  ASSUME Inv, NEW w \in Workers, Create(w) PROVE Inv'
<1>1. /\ at[w] \in {"removed", "unbranched"} /\ doing[w] = Nobody /\ troubles' = troubles
      /\ BranchThenWorktree(w)
  BY DEF Create
<1>2. at[w] \in Mutating
  BY <1>1 DEF Mutating
<1>3. mode[w] = "cleanup" \/ cache = "good"
  BY <1>1 DEF Inv, WorkerInv, Cached, CheckoutTypeOK
<1>4. Owns(w) => workspace[job[w]] = "none"
  BY <1>1 DEF Inv, WorkerInv, Emptied
<1> QED BY <1>1, <1>2, <1>3, <1>4, BranchThenWorktreeKeeps

LEMMA BranchThenRecordKeeps ==
  ASSUME Inv, NEW w \in Workers, NEW now \in Phases \ {"idle"}, BranchThenRecord(w, now),
         troubles' = troubles, at[w] \in {"inspect", "prune"}, doing[w] = Nobody,
         Owns(w) => workspace[job[w]] = "none"
  PROVE  Inv'
<1>1. mode[w] = "cleanup" /\ at[w] \in Mutating
  BY DEF Inv, WorkerInv, Moded, Mutating
<1>2. BeginMutation(w, "deleteBranch") \/ Steps(w, now, "publish")
  BY DEF BranchThenRecord
<1>3. "deleteBranch" \in GitMutations
  BY DEF GitMutations
<1> QED BY <1>1, <1>2, <1>3, BeginKeeps, StepsKeeps

LEMMA InspectKeeps ==
  ASSUME Inv, NEW w \in Workers, Inspect(w) PROVE Inv'
<1>1. at[w] = "inspect" /\ doing[w] = Nobody /\ troubles' = troubles
  BY DEF Inspect
<1>2. /\ at[w] \in Mutating /\ "inspect" \in Phases \ {"idle"} /\ mode[w] = "cleanup"
      /\ troubles' \in 0..MaxTroubles
  BY <1>1 DEF Mutating, Phases, Inv, WorkerInv, Moded, CheckoutTypeOK
<1>3. job[w] \in Executions /\ workspace[job[w]] \in Workspaces
  BY <1>1 DEF Inv, WorkerInv, CheckoutTypeOK
<1>4. CASE workspace[job[w]] = "none"
  <2>1. BranchThenRecord(w, "inspect")
    BY <1>4 DEF Inspect
  <2> QED BY <1>1, <1>2, <1>4, <2>1, BranchThenRecordKeeps
<1>5. CASE workspace[job[w]] = "clean"
  <2>1. BeginMutation(w, "remove") /\ "remove" \in GitMutations
    BY <1>5 DEF Inspect, GitMutations
  <2> QED BY <1>1, <1>2, <1>5, <2>1, BeginKeeps
<1>6. CASE workspace[job[w]] \in {"foreign", "partial", "dirty"}
  BY <1>1, <1>2, <1>6, FailKeeps DEF Inspect
<1> QED BY <1>3, <1>4, <1>5, <1>6 DEF Workspaces

LEMMA PruneKeeps ==
  ASSUME Inv, NEW w \in Workers, Prune(w) PROVE Inv'
<1>1. /\ at[w] = "prune" /\ doing[w] = Nobody /\ troubles' = troubles
      /\ BranchThenRecord(w, "prune") /\ "prune" \in Phases \ {"idle"}
  BY DEF Prune, Phases
<1>2. Owns(w) => workspace[job[w]] = "none"
  BY <1>1 DEF Inv, WorkerInv, Emptied
<1> QED BY <1>1, <1>2, BranchThenRecordKeeps

LEMMA RenewKeeps ==
  ASSUME Inv, NEW w \in Workers, Renew(w) PROVE Inv'
<1>1. at[w] = "publish" /\ troubles' = troubles /\ "publish" \in Phases \ {"idle"}
  BY DEF Renew, Phases
<1>2. doing[w] = Nobody
  BY <1>1 DEF Inv, WorkerInv, Holds, Mutating
<1>3. mode[w] = "cleanup" \/ (cache = "good" /\ (Owns(w) => Complete(job[w])))
  BY <1>1 DEF Inv, WorkerInv, Cached, Completed, CheckoutTypeOK
<1>4. troubles' \in 0..MaxTroubles
  BY <1>1 DEF Inv, CheckoutTypeOK
<1>5. Steps(w, "publish", "renewed") \/ Fail(w)
  BY DEF Renew
<1> QED BY <1>1, <1>2, <1>3, <1>4, <1>5, StepsKeeps, FailKeeps

-----------------------------------------------------------------------------
(* Steps that write the registry: a claim is only taken from nobody who     *)
(* works under it.                                                          *)

InHand(r, w) == r.state = "PROVISIONING" /\ r.owner \in Workers \ {w} /\ r.live

Registers(w) ==
  /\ \A e \in Executions :
       \/ record'[e] = record[e]
       \/ record'[e].owner \notin Workers \ {w} /\ ~ InHand(record[e], w)
  /\ \/ cacheClaim' = cacheClaim
     \/ cacheClaim.owner \notin Workers \ {w} \/ ~ cacheClaim.live
  /\ \A e \in Executions : record'[e].state = "READY" => record[e].state = "READY" \/ Intact(e)'

LEMMA OwnStepIsLocal ==
  ASSUME Inv, NEW w \in Workers, OwnDisk(w), Alone(w), Registers(w)
  PROVE  Local(w)
<1>1. ASSUME NEW v \in Workers \ {w}
      PROVE  /\ at[v] # "idle" /\ Owns(v)' => Owns(v)
             /\ doing[v] # Nobody => OwnsCache(v)'
  <2>1. at[v] # "idle" => job[v] \in Executions
    BY DEF Inv, WorkerInv
  <2>2. job'[v] = job[v]
    BY DEF Alone
  <2>3. doing[v] # Nobody => OwnsCache(v) /\ at[v] # "idle"
    BY DEF Inv, WorkerInv, Holds, Mutating
  <2>4. at[v] # "idle" /\ Owns(v)' => Owns(v)
    BY <2>1, <2>2 DEF Registers, Owns
  <2>5. at[v] # "idle" /\ Owns(v) => record'[job[v]] = record[job[v]]
    BY <2>1 DEF Registers, Owns, InHand
  <2>6. OwnsCache(v) => cacheClaim' = cacheClaim
    BY DEF Registers, OwnsCache
  <2> QED BY <2>2, <2>3, <2>4, <2>5, <2>6 DEF OwnsCache, Owns
<1> QED BY <1>1 DEF Local, Respects, Alone, Registers

LEMMA RegistersIsLocal ==
  ASSUME Inv, NEW w \in Workers, UNCHANGED onDisk, Alone(w), Registers(w)
  PROVE  Local(w)
BY OwnStepIsLocal DEF OwnDisk

LEMMA RecordKinds ==
  /\ \A w \in Workers : Held(w) \in Records
  /\ \A s \in States : Settled(s) \in Records
  /\ \A r \in Records, w \in Workers :
       /\ Disown(r, w) \in Records /\ Disown(r, w).state = r.state
       /\ Disown(r, w) = r \/ (r.owner = w /\ Disown(r, w).owner = Gone)
  /\ \A r \in Records, o \in Owners :
       /\ Expired(r, o) \in Records /\ Expired(r, o).state = r.state
       /\ Expired(r, o) = r
          \/ (r.owner = o /\ Expired(r, o).owner = o /\ Expired(r, o).live = FALSE)
<1>1. \A w \in Workers : Held(w) \in Records
  BY DEF Held, Records, States, Owners
<1>2. \A s \in States : Settled(s) \in Records
  BY DEF Settled, Records, Owners
<1>3. ASSUME NEW r \in Records
      PROVE  LET d == [r EXCEPT !.owner = Gone] IN
             d \in Records /\ d.state = r.state /\ d.owner = Gone
  BY DEF Records, Owners
<1>4. ASSUME NEW r \in Records
      PROVE  LET x == [r EXCEPT !.live = FALSE] IN
             x \in Records /\ x.state = r.state /\ x.owner = r.owner /\ x.live = FALSE
  BY DEF Records
<1>5. \A r \in Records, w \in Workers :
       /\ Disown(r, w) \in Records /\ Disown(r, w).state = r.state
       /\ Disown(r, w) = r \/ (r.owner = w /\ Disown(r, w).owner = Gone)
  BY <1>3 DEF Disown
<1>6. \A r \in Records, o \in Owners :
       /\ Expired(r, o) \in Records /\ Expired(r, o).state = r.state
       /\ Expired(r, o) = r
          \/ (r.owner = o /\ Expired(r, o).owner = o /\ Expired(r, o).live = FALSE)
  BY <1>4 DEF Expired
<1> QED BY <1>1, <1>2, <1>5, <1>6

LEMMA CacheKinds ==
  /\ NoClaim \in [owner : Owners, live : BOOLEAN]
  /\ \A w \in Workers : [owner |-> w, live |-> TRUE] \in [owner : Owners, live : BOOLEAN]
  /\ \A r \in [owner : Owners, live : BOOLEAN], w \in Workers :
       /\ Disown(r, w) \in [owner : Owners, live : BOOLEAN]
       /\ Disown(r, w) = r \/ r.owner = w
  /\ \A r \in [owner : Owners, live : BOOLEAN], o \in Owners :
       /\ Expired(r, o) \in [owner : Owners, live : BOOLEAN]
       /\ Expired(r, o) = r \/ r.owner = o
BY DEF NoClaim, Disown, Expired, Owners

\* The part of a worker that is between two mutations, by its phase.
LEMMA WaitingWorker ==
  ASSUME NEW w \in Workers, doing'[w] = Nobody,
         at'[w] # "idle" => job'[w] \in Executions,
         at'[w] \in {"inspect", "prune"} => mode'[w] = "cleanup",
         at'[w] \notin {"cloned", "fetched", "removed", "unbranched", "publish", "renewed", "prune"}
  PROVE  WorkerInv(w)'
BY CheckoutAssumption
DEF WorkerInv, Holds, Moded, Cached, Aimed, Emptied, Completed, GitMutations

LEMMA ForgetKeeps ==
  ASSUME Inv, NEW w \in Workers, Forget(w)
  PROVE  /\ at' \in [Workers -> Phases] /\ job' \in [Workers -> Executions \cup {Nobody}]
         /\ mode' \in [Workers -> {"provision", "cleanup"}]
         /\ doing' \in [Workers -> GitMutations \cup {Nobody}]
         /\ Alone(w) /\ WorkerInv(w)'
<1> USE DEF Forget, Inv, CheckoutTypeOK
<1>1. /\ at' \in [Workers -> Phases] /\ job' \in [Workers -> Executions \cup {Nobody}]
      /\ mode' \in [Workers -> {"provision", "cleanup"}]
      /\ doing' \in [Workers -> GitMutations \cup {Nobody}]
  BY DEF Phases
<1>2. Alone(w)
  BY DEF Alone
<1>3. at'[w] = "idle" /\ doing'[w] = Nobody
  OBVIOUS
<1> QED BY <1>1, <1>2, <1>3, WaitingWorker

LEMMA ClaimKeeps ==
  ASSUME Inv, NEW w \in Workers, Claim(w) PROVE Inv'
<1>1. /\ at[w] = "unclaimed" /\ doing[w] = Nobody /\ job[w] \in Executions
      /\ UNCHANGED <<cacheClaim, onDisk, callers, troubles>>
  BY DEF Claim, Inv, WorkerInv, Holds, Mutating
<1>2. CASE /\ Claimable(record[job[w]])
           /\ record' = [record EXCEPT ![job[w]] = Held(w)]
           /\ GoTo(w, "claimed") /\ UNCHANGED <<job, mode, doing>>
  <2>1. CheckoutTypeOK'
    <3>1. record' \in [Executions -> Records]
      BY <1>2, RecordKinds DEF Inv, CheckoutTypeOK
    <3> QED BY <1>1, <1>2, <3>1 DEF Inv, CheckoutTypeOK, GoTo, onDisk, callers, Phases
  <2>2. Alone(w)
    BY <1>2 DEF Alone, GoTo, Inv, CheckoutTypeOK
  <2>3. at'[w] = "claimed" /\ doing'[w] = Nobody /\ job'[w] \in Executions
    BY <1>1, <1>2 DEF GoTo, Inv, CheckoutTypeOK
  <2>4. Registers(w)
    BY <1>1, <1>2 DEF Registers, InHand, Held, Claimable, Inv, CheckoutTypeOK
  <2> QED BY <1>1, <2>1, <2>2, <2>3, <2>4, WaitingWorker, RegistersIsLocal, LocalKeeps
<1>3. CASE Forget(w) /\ UNCHANGED record
  <2>1. CheckoutTypeOK'
    BY <1>1, <1>3, ForgetKeeps DEF Inv, CheckoutTypeOK, onDisk, callers
  <2>2. Registers(w)
    BY <1>1, <1>3 DEF Registers
  <2> QED BY <1>1, <1>3, <2>1, <2>2, ForgetKeeps, RegistersIsLocal, LocalKeeps
<1> QED BY <1>2, <1>3 DEF Claim

LEMMA ClaimCacheKeeps ==
  ASSUME Inv, NEW w \in Workers, ClaimCache(w) PROVE Inv'
<1>1. /\ at[w] \in {"claimed", "cleaning"} /\ doing[w] = Nobody /\ job[w] \in Executions
      /\ troubles' = troubles
  BY DEF ClaimCache, Inv, WorkerInv, Holds, Mutating
<1>2. CASE /\ Owns(w) /\ CacheClaimable
           /\ cacheClaim' = [owner |-> w, live |-> TRUE]
           /\ GoTo(w, IF mode[w] = "provision" THEN "source" ELSE "inspect")
           /\ UNCHANGED <<record, onDisk, callers, job, mode, doing>>
  <2>1. CheckoutTypeOK'
    BY <1>1, <1>2, CacheKinds DEF Inv, CheckoutTypeOK, GoTo, onDisk, callers, Phases
  <2>2. Alone(w)
    BY <1>2 DEF Alone, GoTo, Inv, CheckoutTypeOK
  <2>3. /\ at'[w] = IF mode[w] = "provision" THEN "source" ELSE "inspect"
        /\ doing'[w] = Nobody /\ job'[w] \in Executions /\ mode'[w] = mode[w]
        /\ mode[w] \in {"provision", "cleanup"}
    BY <1>1, <1>2 DEF GoTo, Inv, CheckoutTypeOK
  <2>4. Registers(w)
    BY <1>2, CheckoutAssumption DEF Registers, CacheClaimable
  <2> QED BY <1>2, <2>1, <2>2, <2>3, <2>4, WaitingWorker, RegistersIsLocal, LocalKeeps
<1>3. CASE Fail(w)
  BY <1>1, <1>3, FailKeeps DEF Inv, CheckoutTypeOK
<1> QED BY <1>2, <1>3 DEF ClaimCache

\* What a call writes as it ends.
LEMMA SettlesKeeps ==
  ASSUME Inv, NEW w \in Workers, NEW state \in States, RecordIfOwner(w, state),
         GoTo(w, "release"), at[w] # "idle", doing[w] = Nobody,
         UNCHANGED <<cacheClaim, onDisk, callers, job, mode, doing, troubles>>,
         state = "READY" /\ Owns(w) => Intact(job[w])
  PROVE  Inv'
<1>1. job[w] \in Executions
  BY DEF Inv, WorkerInv
<1>2. /\ record' \in [Executions -> Records]
      /\ \A e \in Executions \ {job[w]} : record'[e] = record[e]
      /\ \/ record'[job[w]] = record[job[w]]
         \/ Owns(w) /\ record'[job[w]] = Settled(state)
  BY <1>1, RecordKinds DEF RecordIfOwner, Inv, CheckoutTypeOK
<1>3. CheckoutTypeOK'
  BY <1>2 DEF Inv, CheckoutTypeOK, GoTo, onDisk, callers, Phases
<1>4. Alone(w) /\ at'[w] = "release" /\ doing'[w] = Nobody /\ job'[w] \in Executions
  BY <1>1 DEF Alone, GoTo, Inv, CheckoutTypeOK
<1>5. \A e \in Executions : Intact(e)' = Intact(e)
  BY DEF Intact, Complete, onDisk
<1>6. Registers(w)
  BY <1>1, <1>2, <1>5, CheckoutAssumption DEF Registers, InHand, Settled, Owns
<1> QED BY <1>3, <1>4, <1>6, WaitingWorker, RegistersIsLocal, LocalKeeps

LEMMA PublishKeeps ==
  ASSUME Inv, NEW w \in Workers, Publish(w) PROVE Inv'
<1>1. at[w] = "renewed" /\ doing[w] = Nobody /\ troubles' = troubles
  BY DEF Publish, Inv, WorkerInv, Holds, Mutating
<1>2. CASE Fail(w)
  BY <1>1, <1>2, FailKeeps DEF Inv, CheckoutTypeOK
<1>3. CASE ~ Fail(w)
  <2>1. /\ RecordIfOwner(w, IF mode[w] = "provision" THEN "READY" ELSE "CLEANED")
        /\ GoTo(w, "release")
        /\ UNCHANGED <<cacheClaim, onDisk, callers, job, mode, doing, troubles>>
    BY <1>3 DEF Publish
  <2>2. mode[w] = "provision" /\ Owns(w) => Intact(job[w])
    BY <1>1 DEF Inv, WorkerInv, Cached, Completed, Intact
  <2>3. "READY" \in States /\ "CLEANED" \in States
    BY DEF States
  <2>4. CASE mode[w] = "provision"
    BY <1>1, <2>1, <2>2, <2>3, <2>4, SettlesKeeps
  <2>5. CASE mode[w] # "provision"
    BY <1>1, <2>1, <2>3, <2>5, SettlesKeeps
  <2> QED BY <2>4, <2>5
<1> QED BY <1>2, <1>3

LEMMA RecordFailureKeeps ==
  ASSUME Inv, NEW w \in Workers, RecordFailure(w) PROVE Inv'
<1>1. at[w] = "failing" /\ doing[w] = Nobody
  BY DEF RecordFailure, Inv, WorkerInv, Holds, Mutating
<1>2. /\ GoTo(w, "release")
      /\ UNCHANGED <<cacheClaim, onDisk, callers, job, mode, doing, troubles>>
  BY DEF RecordFailure
<1>3. RecordIfOwner(w, "FAILED") \/ RecordIfOwner(w, "CLEANUP_FAILED")
  BY DEF RecordFailure
<1>4. "FAILED" \in States /\ "CLEANUP_FAILED" \in States
  BY DEF States
<1> QED BY <1>1, <1>2, <1>3, <1>4, SettlesKeeps

\* A call is over, and what it had claimed is Gone's.
LEMMA LeavesRegistry ==
  ASSUME Inv, NEW w \in Workers, at[w] # "idle",
         record' = [record EXCEPT ![job[w]] = Disown(@, w)],
         cacheClaim' = Disown(cacheClaim, w) \/ (cacheClaim' = NoClaim /\ cacheClaim.owner = w)
                                             \/ cacheClaim' = cacheClaim
  PROVE  /\ record' \in [Executions -> Records]
         /\ cacheClaim' \in [owner : Owners, live : BOOLEAN]
         /\ Registers(w)
<1>1. job[w] \in Executions /\ record \in [Executions -> Records]
      /\ cacheClaim \in [owner : Owners, live : BOOLEAN]
  BY DEF Inv, WorkerInv, CheckoutTypeOK
<1>2. /\ record' \in [Executions -> Records]
      /\ \A e \in Executions \ {job[w]} : record'[e] = record[e]
      /\ record'[job[w]] = Disown(record[job[w]], w)
  BY <1>1, RecordKinds
<1>3. /\ \/ record'[job[w]] = record[job[w]]
         \/ record[job[w]].owner = w /\ record'[job[w]].owner = Gone
      /\ record'[job[w]].state = record[job[w]].state
  BY <1>1, <1>2, RecordKinds
<1>4. /\ cacheClaim' \in [owner : Owners, live : BOOLEAN]
      /\ cacheClaim' = cacheClaim \/ cacheClaim.owner = w
  BY <1>1, CacheKinds
<1> QED BY <1>1, <1>2, <1>3, <1>4, CheckoutAssumption DEF Registers, InHand

LEMMA ReleaseKeeps ==
  ASSUME Inv, NEW w \in Workers, Release(w) PROVE Inv'
<1>1. /\ at[w] # "idle" /\ Forget(w) /\ UNCHANGED <<onDisk, callers, troubles>>
      /\ record' = [record EXCEPT ![job[w]] = Disown(@, w)]
      /\ (cacheClaim' = NoClaim /\ cacheClaim.owner = w) \/ cacheClaim' = cacheClaim
  BY DEF Release
<1>2. CheckoutTypeOK'
  BY <1>1, LeavesRegistry, ForgetKeeps DEF Inv, CheckoutTypeOK, onDisk, callers
<1> QED BY <1>1, <1>2, LeavesRegistry, ForgetKeeps, RegistersIsLocal, LocalKeeps

LEMMA BeginCleanupKeeps ==
  ASSUME Inv, NEW w \in Workers, NEW e \in Executions, BeginCleanup(w, e) PROVE Inv'
<1>1. /\ at[w] = "idle" /\ doing[w] = Nobody /\ UNCHANGED <<cacheClaim, onDisk, callers, doing>>
      /\ troubles' \in 0..MaxTroubles
  BY TroubleCounts DEF BeginCleanup, Inv, WorkerInv, Holds, Mutating, CheckoutTypeOK
<1>2. CheckoutTypeOK'
  <2>1. record' \in [Executions -> Records]
    BY RecordKinds DEF BeginCleanup, Inv, CheckoutTypeOK
  <2> QED BY <1>1, <2>1 DEF BeginCleanup, Inv, CheckoutTypeOK, GoTo, onDisk, callers, Phases
<1>3. Alone(w) /\ at'[w] = "cleaning" /\ doing'[w] = Nobody /\ job'[w] \in Executions
  BY <1>1 DEF BeginCleanup, Alone, GoTo, Inv, CheckoutTypeOK
<1>4. Registers(w)
  BY <1>1 DEF BeginCleanup, Cleanable, Registers, InHand, Held, Inv, CheckoutTypeOK
<1> QED BY <1>1, <1>2, <1>3, <1>4, WaitingWorker, RegistersIsLocal, LocalKeeps

LEMMA LapseKeeps ==
  ASSUME Inv, NEW w \in Workers, Lapse(w) PROVE Inv'
<1>1. /\ at[w] # "idle" /\ doing[w] = Nobody /\ troubles' \in 0..MaxTroubles
      /\ UNCHANGED <<onDisk, callers, at, job, mode, doing>> /\ job[w] \in Executions
  BY TroubleCounts DEF Lapse, Unattended, private, Inv, WorkerInv
<1>2. w \in Owners /\ record[job[w]] \in Records /\ record \in [Executions -> Records]
  BY <1>1 DEF Owners, Inv, CheckoutTypeOK
<1>3. /\ record' \in [Executions -> Records]
      /\ \A e \in Executions \ {job[w]} : record'[e] = record[e]
      /\ \/ record'[job[w]] = record[job[w]]
         \/ record'[job[w]] = Expired(record[job[w]], w)
  <2>1. Expired(record[job[w]], w) \in Records
    BY <1>2, RecordKinds
  <2> QED BY <1>1, <1>2, <2>1 DEF Lapse
<1>4. /\ \/ record'[job[w]] = record[job[w]]
         \/ record[job[w]].owner = w /\ record'[job[w]].owner = w /\ ~ record'[job[w]].live
      /\ record'[job[w]].state = record[job[w]].state
  BY <1>2, <1>3, RecordKinds
<1>5. /\ cacheClaim' \in [owner : Owners, live : BOOLEAN]
      /\ cacheClaim' = cacheClaim \/ cacheClaim.owner = w
  BY <1>2, CacheKinds DEF Lapse, Inv, CheckoutTypeOK
<1>6. CheckoutTypeOK'
  BY <1>1, <1>3, <1>5 DEF Inv, CheckoutTypeOK, onDisk, callers
<1>7. Alone(w) /\ Registers(w)
  BY <1>1, <1>3, <1>4, <1>5 DEF Alone, Registers, InHand
<1>8. Owns(w)' => Owns(w)
  BY <1>1, <1>4 DEF Owns
<1>9. WorkerInv(w)'
  BY <1>1, <1>8, CheckoutAssumption
  DEF Inv, WorkerInv, Holds, Moded, Cached, Aimed, Emptied, Completed, Complete, GitMutations, onDisk
<1> QED BY <1>1, <1>6, <1>7, <1>9, RegistersIsLocal, LocalKeeps

-----------------------------------------------------------------------------
(* A mutation ends, fails or is cut short.                                 *)

DiskTypeOK ==
  /\ cache \in {"none", "broken", "good"}
  /\ workspace \in [Executions -> Workspaces]
  /\ branch \subseteq Executions /\ linked \subseteq Executions

\* Every mutation of w is one of its own execution, that exists.
LEMMA MutatorFacts ==
  ASSUME Inv, NEW w \in Workers, doing[w] # Nobody
  PROVE  /\ doing[w] \in GitMutations /\ job[w] \in Executions /\ at[w] # "idle"
         /\ OwnsCache(w) /\ Owns(w) /\ DiskTypeOK /\ WorkerInv(w)
         /\ \A e \in Executions : Identified(e)
BY DEF Inv, CheckoutTypeOK, DiskTypeOK, WorkerInv, Holds, Mutating, OwnsCache

LEMMA EffectIsOwn ==
  ASSUME Inv, NEW w \in Workers, doing[w] # Nobody, Effect(w, doing[w])
  PROVE  OwnDisk(w) /\ DiskTypeOK'
<1>1. /\ doing[w] \in GitMutations /\ job[w] \in Executions /\ DiskTypeOK
      /\ Identified(job[w]) /\ Aimed(w)
  BY MutatorFacts DEF WorkerInv
<1>2. DiskTypeOK'
  BY <1>1 DEF DiskTypeOK, Effect, Workspaces
<1>3. /\ cache' = cache \/ doing[w] = "clone"
      /\ \A e \in Executions \ {job[w]} :
           workspace'[e] = workspace[e] /\ (e \in branch' <=> e \in branch)
                                        /\ (e \in linked' <=> e \in linked)
  BY <1>1 DEF DiskTypeOK, Effect
<1>4. \A e \in {job[w]} : Identified(e)'
  <2>1. CASE doing[w] \in {"remove", "forceRemove", "add"}
    BY <1>1, <2>1 DEF DiskTypeOK, Effect, Identified
  <2>2. CASE doing[w] \in {"clone", "fetch"}
    BY <1>1, <2>2 DEF DiskTypeOK, Effect, Identified
  <2>3. CASE doing[w] = "deleteBranch"
    BY <1>1, <2>3 DEF DiskTypeOK, Effect, Identified, Aimed
  <2> QED BY <1>1, <2>1, <2>2, <2>3 DEF GitMutations
<1> QED BY <1>2, <1>3, <1>4 DEF OwnDisk

LEMMA InterruptedIsOwn ==
  ASSUME Inv, NEW w \in Workers, doing[w] # Nobody, Interrupted(w, doing[w])
  PROVE  OwnDisk(w) /\ DiskTypeOK'
<1>1. /\ doing[w] \in GitMutations /\ job[w] \in Executions /\ DiskTypeOK
      /\ Identified(job[w]) /\ Aimed(w)
  BY MutatorFacts DEF WorkerInv
<1>2. CASE doing[w] = "clone"
  BY <1>1, <1>2 DEF Interrupted, OwnDisk, DiskTypeOK, Identified
<1>3. CASE doing[w] \in {"remove", "forceRemove"}
  <2>1. job[w] \in branch /\ job[w] \in linked /\ UNCHANGED <<cache, branch>>
    BY <1>1, <1>3 DEF Aimed, Identified, Interrupted
  <2>2. /\ linked' \in {linked, linked \ {job[w]}}
        /\ \/ workspace' = workspace /\ linked' = linked
           \/ workspace' = [workspace EXCEPT ![job[w]] = "partial"] /\ linked' = linked
           \/ workspace' = [workspace EXCEPT ![job[w]] = "none"]
    BY <1>3 DEF Interrupted
  <2> QED BY <1>1, <1>3, <2>1, <2>2 DEF OwnDisk, DiskTypeOK, Identified, Workspaces
<1>4. CASE doing[w] = "add"
  <2>1. UNCHANGED cache /\ branch' \in {branch, branch \cup {job[w]}}
    BY <1>4 DEF Interrupted
  <2>2. CASE UNCHANGED <<workspace, linked>>
    BY <1>1, <1>4, <2>1, <2>2 DEF OwnDisk, DiskTypeOK, Identified
  <2>3. CASE /\ \E left \in {"foreign", "partial", "clean"} :
                  workspace' = [workspace EXCEPT ![job[w]] = left]
             /\ job[w] \in branch' /\ linked' = linked \cup {job[w]}
    BY <1>1, <1>4, <2>1, <2>3 DEF OwnDisk, DiskTypeOK, Identified, Workspaces
  <2> QED BY <1>4, <2>2, <2>3 DEF Interrupted
<1>5. CASE doing[w] \in {"fetch", "deleteBranch"}
  <2>1. Effect(w, doing[w]) \/ UNCHANGED onDisk
    BY <1>5 DEF Interrupted
  <2>2. UNCHANGED onDisk => OwnDisk(w) /\ DiskTypeOK'
    BY <1>1 DEF OwnDisk, DiskTypeOK, onDisk
  <2> QED BY <2>1, <2>2, EffectIsOwn
<1> QED BY <1>1, <1>2, <1>3, <1>4, <1>5 DEF GitMutations

LEMMA EndMutationKeeps ==
  ASSUME Inv, NEW w \in Workers, EndMutation(w) PROVE Inv'
<1>1. /\ doing[w] # Nobody /\ Effect(w, doing[w])
      /\ doing' = [doing EXCEPT ![w] = Nobody] /\ GoTo(w, After(w, doing[w]))
      /\ UNCHANGED <<registry, callers, job, mode, troubles>>
  BY DEF EndMutation
<1>2. /\ doing[w] \in GitMutations /\ job[w] \in Executions /\ Owns(w) /\ WorkerInv(w)
      /\ DiskTypeOK
  BY <1>1, MutatorFacts
<1>3. OwnDisk(w) /\ DiskTypeOK'
  BY <1>1, EffectIsOwn
<1>4. After(w, doing[w]) \in Phases
  BY <1>2 DEF After, GitMutations, Phases
<1>5. CheckoutTypeOK'
  BY <1>1, <1>3, <1>4 DEF Inv, CheckoutTypeOK, DiskTypeOK, GoTo, registry, callers
<1>6. Alone(w) /\ Registers(w)
  BY <1>1 DEF Alone, Registers, Inv, CheckoutTypeOK, GoTo, registry
<1>7. /\ at'[w] = After(w, doing[w]) /\ doing'[w] = Nobody
      /\ job'[w] = job[w] /\ mode'[w] = mode[w]
  BY <1>1 DEF Inv, CheckoutTypeOK, GoTo
<1>8. /\ workspace'[job[w]] = IF doing[w] \in {"remove", "forceRemove"} THEN "none"
                              ELSE IF doing[w] = "add" THEN "clean" ELSE workspace[job[w]]
      /\ doing[w] = "add" => job[w] \in branch' /\ job[w] \in linked'
      /\ cache' = IF doing[w] = "clone" THEN "good" ELSE cache
  BY <1>1, <1>2 DEF Effect, DiskTypeOK
<1>9. /\ doing[w] = "remove" => mode[w] = "cleanup"
      /\ doing[w] # "clone" /\ mode[w] = "provision" => cache = "good"
      /\ doing[w] = "deleteBranch" => workspace[job[w]] = "none"
      /\ mode[w] \in {"provision", "cleanup"}
  BY <1>1, <1>2 DEF WorkerInv, Moded, Cached, Aimed, Inv, CheckoutTypeOK
<1>10. /\ at'[w] \in {"cloned", "fetched", "removed", "prune", "publish", "unbranched"}
       /\ at'[w] = "prune" => doing[w] = "remove"
       /\ at'[w] \in {"removed", "prune", "unbranched"}
            => doing[w] \in {"remove", "forceRemove", "deleteBranch"}
       /\ at'[w] = "publish" => doing[w] = "add" \/ mode[w] = "cleanup"
  BY <1>2, <1>7 DEF After, GitMutations
<1>11. Holds(w)' /\ Moded(w)' /\ Aimed(w)'
  BY <1>7, <1>9, <1>10, CheckoutAssumption DEF Holds, Moded, Aimed, GitMutations
<1>12. Cached(w)' /\ Emptied(w)' /\ Completed(w)'
  <2>1. Cached(w)'
    BY <1>7, <1>8, <1>9, CheckoutAssumption DEF Cached, GitMutations
  <2>2. Emptied(w)'
    BY <1>7, <1>8, <1>9, <1>10 DEF Emptied
  <2>3. Completed(w)'
    BY <1>7, <1>8, <1>10 DEF Completed, Complete
  <2> QED BY <2>1, <2>2, <2>3
<1>13. WorkerInv(w)'
  BY <1>2, <1>7, <1>11, <1>12 DEF WorkerInv
<1> QED BY <1>3, <1>5, <1>6, <1>13, OwnStepIsLocal, LocalKeeps

LEMMA MutationFailsKeeps ==
  ASSUME Inv, NEW w \in Workers, MutationFails(w) PROVE Inv'
<1>1. /\ doing[w] # Nobody
      /\ doing' = [doing EXCEPT ![w] = Nobody] /\ GoTo(w, "failing")
      /\ UNCHANGED <<registry, callers, job, mode>>
      /\ UNCHANGED onDisk \/ Interrupted(w, doing[w])
  BY DEF MutationFails
<1>2. troubles' \in 0..MaxTroubles
  BY TroubleCounts DEF MutationFails, Inv, CheckoutTypeOK
<1>3. OwnDisk(w) /\ DiskTypeOK'
  BY <1>1, InterruptedIsOwn, MutatorFacts DEF OwnDisk, DiskTypeOK, onDisk
<1>4. CheckoutTypeOK'
  BY <1>1, <1>2, <1>3 DEF Inv, CheckoutTypeOK, DiskTypeOK, GoTo, registry, callers, Phases
<1>5. Alone(w) /\ Registers(w)
  BY <1>1 DEF Alone, Registers, Inv, CheckoutTypeOK, GoTo, registry
<1>6. at'[w] = "failing" /\ doing'[w] = Nobody /\ job'[w] \in Executions
  BY <1>1, MutatorFacts DEF Inv, CheckoutTypeOK, GoTo
<1> QED BY <1>3, <1>4, <1>5, <1>6, WaitingWorker, OwnStepIsLocal, LocalKeeps

LEMMA EndWorkerKeeps ==
  ASSUME Inv, NEW w \in Workers, EndWorker(w) PROVE Inv'
<1>1. /\ at[w] # "idle" /\ Forget(w) /\ UNCHANGED callers
      /\ record' = [record EXCEPT ![job[w]] = Disown(@, w)]
      /\ cacheClaim' = Disown(cacheClaim, w)
      /\ UNCHANGED onDisk \/ (doing[w] # Nobody /\ Interrupted(w, doing[w]))
  BY DEF EndWorker
<1>2. troubles' \in 0..MaxTroubles
  BY TroubleCounts DEF EndWorker
<1>3. OwnDisk(w) /\ DiskTypeOK'
  BY <1>1, InterruptedIsOwn DEF OwnDisk, DiskTypeOK, onDisk, Inv, CheckoutTypeOK
<1>4. CheckoutTypeOK'
  BY <1>1, <1>2, <1>3, LeavesRegistry, ForgetKeeps DEF Inv, CheckoutTypeOK, DiskTypeOK, callers
<1> QED BY <1>1, <1>3, <1>4, LeavesRegistry, ForgetKeeps, OwnStepIsLocal, LocalKeeps

-----------------------------------------------------------------------------
(* Steps of nobody.                                                        *)

LEMMA TerminateKeeps ==
  ASSUME Inv, NEW e \in Executions, Terminate(e), e \in Ending PROVE Inv'
<1>1. /\ record[e].state = "READY" /\ workspace[e] \in {"clean", "dirty"}
      /\ UNCHANGED <<record, cacheClaim, cache, branch, linked, at, job, mode, doing, troubles,
                     givenUp>>
      /\ workspace' \in {workspace, [workspace EXCEPT ![e] = "dirty"]}
  BY DEF Terminate, Inv, Intact, Complete, registry, private
<1>2. /\ workspace' \in [Executions -> Workspaces] /\ workspace'[e] \in {"clean", "dirty"}
      /\ \A x \in Executions \ {e} : workspace'[x] = workspace[x]
  BY <1>1 DEF Inv, CheckoutTypeOK, Workspaces
<1>3. CheckoutTypeOK'
  BY <1>1, <1>2 DEF Terminate, Inv, CheckoutTypeOK
<1>4. ASSUME NEW w \in Workers PROVE WorkerInv(w)'
  <2>1. Owns(w) => job[w] # e
    BY <1>1 DEF Owns
  <2>2. WorkerInv(w)
    BY DEF Inv
  <2>3. at[w] # "idle" => job[w] \in Executions
    BY <2>2 DEF WorkerInv
  <2>4. at[w] # "idle" /\ Owns(w) => workspace'[job[w]] = workspace[job[w]]
    BY <1>2, <2>1, <2>3
  <2>5. doing[w] # Nobody => at[w] # "idle" /\ Owns(w)
    BY <2>2 DEF WorkerInv, Holds, OwnsCache, Mutating
  <2>6. Holds(w)' /\ Moded(w)' /\ Cached(w)'
    BY <1>1, <2>2 DEF WorkerInv, Holds, Moded, Cached, OwnsCache, Owns
  <2>7. Aimed(w)'
    BY <1>1, <2>2, <2>4, <2>5, CheckoutAssumption DEF WorkerInv, Aimed, GitMutations
  <2>8. Owns(w)' = Owns(w)
    BY <1>1 DEF Owns
  <2>9. Emptied(w)' /\ Completed(w)'
    BY <1>1, <2>2, <2>4, <2>8 DEF WorkerInv, Emptied, Completed, Complete
  <2> QED BY <1>1, <2>3, <2>6, <2>7, <2>9 DEF WorkerInv
<1>5. \A x \in Executions : Identified(x)' /\ (record'[x].state = "READY" => Intact(x)')
  <2>1. Intact(e)
    BY <1>1 DEF Inv
  <2> QED BY <1>1, <1>2, <2>1 DEF Inv, Identified, Intact, Complete
<1> QED BY <1>3, <1>4, <1>5 DEF Inv

LEMMA ExpireKeeps ==
  ASSUME Inv, NEW e \in Executions, Expire(e) PROVE Inv'
<1>1. /\ UNCHANGED <<cacheClaim, cache, workspace, branch, linked, terminal, givenUp,
                     at, job, mode, doing, troubles>>
      /\ record[e].owner = Gone /\ record' = [record EXCEPT ![e] = Expired(@, Gone)]
  BY DEF Expire, onDisk, callers, private
<1>2. /\ record' \in [Executions -> Records]
      /\ \A x \in Executions \ {e} : record'[x] = record[x]
      /\ record'[e].state = record[e].state /\ record'[e].owner = Gone
  BY <1>1, RecordKinds DEF Inv, CheckoutTypeOK, Owners
<1>3. ASSUME NEW w \in Workers PROVE WorkerInv(w)'
  <2>1. WorkerInv(w) /\ (doing[w] # Nobody => at[w] # "idle")
    BY DEF Inv, WorkerInv, Holds, Mutating
  <2>2. at[w] # "idle" => Owns(w)' = Owns(w)
    BY <1>1, <1>2, <2>1, CheckoutAssumption DEF Owns, WorkerInv
  <2>3. at'[w] # "idle" => job'[w] \in Executions
    BY <1>1, <2>1 DEF WorkerInv
  <2>4. Holds(w)'
    BY <1>1, <2>1, <2>2 DEF WorkerInv, Holds, OwnsCache
  <2>5. Moded(w)' /\ Cached(w)' /\ Aimed(w)'
    BY <1>1, <2>1 DEF WorkerInv, Moded, Cached, Aimed
  <2>6. Emptied(w)' /\ Completed(w)'
    BY <1>1, <2>1, <2>2 DEF WorkerInv, Emptied, Completed, Complete
  <2> QED BY <2>3, <2>4, <2>5, <2>6 DEF WorkerInv
<1>4. \A x \in Executions : Identified(x)' /\ (record'[x].state = "READY" => Intact(x)')
  BY <1>1, <1>2 DEF Inv, Identified, Intact, Complete
<1>5. CheckoutTypeOK'
  BY <1>1, <1>2 DEF Inv, CheckoutTypeOK
<1> QED BY <1>3, <1>4, <1>5 DEF Inv

LEMMA ExpireCacheKeeps ==
  ASSUME Inv, ExpireCache PROVE Inv'
<1>1. /\ UNCHANGED <<record, cache, workspace, branch, linked, terminal, givenUp,
                     at, job, mode, doing, troubles>>
      /\ cacheClaim.owner = Gone /\ cacheClaim' \in [owner : Owners, live : BOOLEAN]
  BY CacheKinds DEF ExpireCache, onDisk, callers, private, Inv, CheckoutTypeOK, Owners
<1>2. \A w \in Workers : doing[w] = Nobody
  BY <1>1, CheckoutAssumption DEF Inv, WorkerInv, Holds, OwnsCache
<1>3. \A w \in Workers : WorkerInv(w)'
  BY <1>1, <1>2
  DEF Inv, WorkerInv, Holds, Moded, Cached, Aimed, Emptied, Completed, Complete, Owns
<1>4. CheckoutTypeOK'
  BY <1>1 DEF Inv, CheckoutTypeOK
<1> QED BY <1>1, <1>3, <1>4 DEF Inv, Identified, Intact, Complete

-----------------------------------------------------------------------------

LEMMA CheckoutStep == Inv /\ [CheckoutNext]_checkoutVars => Inv'
<1> SUFFICES ASSUME Inv, [CheckoutNext]_checkoutVars PROVE Inv'
  OBVIOUS
<1>1. ASSUME NEW w \in Workers, WorkerStep(w) PROVE Inv'
  <2>1. CASE Provision(w)
    BY <2>1, ClaimKeeps, SourceKeeps, FetchKeeps, DriftKeeps, RecoverKeeps, CreateKeeps
    DEF Provision
  <2>2. CASE CleanUp(w)
    BY <2>2, InspectKeeps, PruneKeeps DEF CleanUp
  <2>3. CASE ClaimCache(w) \/ EndMutation(w) \/ MutationFails(w)
    BY <2>3, ClaimCacheKeeps, EndMutationKeeps, MutationFailsKeeps
  <2>4. CASE Renew(w) \/ Publish(w) \/ RecordFailure(w) \/ Release(w)
    BY <2>4, RenewKeeps, PublishKeeps, RecordFailureKeeps, ReleaseKeeps
  <2> QED BY <1>1, <2>1, <2>2, <2>3, <2>4 DEF WorkerStep
<1>2. ASSUME NEW w \in Workers, SourceFails(w) \/ Lapse(w) \/ EndWorker(w) PROVE Inv'
  BY <1>2, SourceFailsKeeps, LapseKeeps, EndWorkerKeeps
<1>3. ASSUME NEW w \in Workers, NEW e \in Executions, Request(w, e) \/ BeginCleanup(w, e)
      PROVE  Inv'
  BY <1>3, RequestKeeps, BeginCleanupKeeps
<1>4. ASSUME NEW e \in Executions, Terminate(e) \/ Expire(e) PROVE Inv'
  BY <1>4, TerminateKeeps, ExpireKeeps DEF Terminate
<1>5. CASE ExpireCache
  BY <1>5, ExpireCacheKeeps
<1>6. CASE UNCHANGED checkoutVars
  <2>1. \A w \in Workers : WorkerInv(w)'
    BY <1>6
    DEF checkoutVars, Inv, WorkerInv, Holds, Moded, Cached, Aimed, Emptied, Completed, Complete,
        Owns, OwnsCache
  <2> QED BY <1>6, <2>1 DEF checkoutVars, Inv, CheckoutTypeOK, Identified, Intact, Complete
<1> QED BY <1>1, <1>2, <1>3, <1>4, <1>5, <1>6 DEF CheckoutNext

LEMMA CheckoutAlways == CheckoutSpec => []Inv
BY CheckoutInitInv, CheckoutStep, PTL DEF CheckoutSpec

(* However many processes provision and clean up, crash or lose their       *)
(* claims, no two of them change the repository cache and its worktrees at  *)
(* the same time (claim_cache, _lease_heartbeat).                           *)
THEOREM MutationsExclude == CheckoutSpec => []OneMutator
BY CheckoutAlways, InvGivesOneMutator, PTL

(* A checkout that says READY is complete, and nobody changes it, whatever  *)
(* interrupted calls have left and late workers still try (renew, update,   *)
(* _recover_or_create).                                                     *)
THEOREM ReadyMeansIntact == CheckoutSpec => []ReadyIsIntact
BY CheckoutAlways, InvGivesReadyIsIntact, PTL

(* The records of the registry, the claims and the disk keep to their types. *)
THEOREM CheckoutTypes == CheckoutSpec => []CheckoutTypeOK
BY CheckoutAlways, PTL DEF Inv

-----------------------------------------------------------------------------
(* Checkouts and store, side by side.                                      *)

\* In MCRetries the checkouts and the calls of the durable store behave as in
\* their own specifications: they have files of their own.
THEOREM RetriesAreParts == RetriesSpec => Spec /\ CheckoutSpec
<1>1. RetriesInit => Init /\ CheckoutInit
  BY DEF RetriesInit
<1>2. [RetriesNext]_retriesVars => [Next]_vars /\ [CheckoutNext]_checkoutVars
  BY DEF RetriesNext, CheckpointMoves, CheckoutMoves, retriesVars
<1> QED
  BY <1>1, <1>2, PTL DEF RetriesSpec, Spec, CheckoutSpec

\* What provisioning and the store promise holds of both at once: one mutator
\* of a clone, checkouts that are whole when they say READY, acknowledged
\* mutations that survive, reads of what is committed, and no lost update.
THEOREM RetriesKeepPromises ==
  RetriesSpec =>
    /\ []CheckoutTypeOK /\ []OneMutator /\ []ReadyIsIntact
    /\ []TypeOK /\ []AcknowledgedSurvives /\ []ReadsAreCommitted
    /\ []WriterKeepsItsTemporary /\ UpdatesAccumulate
BY RetriesAreParts, CheckoutTypes, MutationsExclude, ReadyMeansIntact, CheckpointTypeCorrect,
   Durability, CommittedReads, TemporaryKept, NoLostUpdate
=============================================================================
