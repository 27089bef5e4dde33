--------------------------- MODULE DurableCheckpoint ---------------------------
(***************************************************************************)
(* DurableJsonRuntimeObjectStore: the runtime store in one checkpoint file *)
(* shared by several processes.  Every call takes the writer fence (a file *)
(* lock), restores the file into memory, operates on memory, writes a new  *)
(* file beside the old one, syncs it, renames it over the old one, syncs   *)
(* the directory and releases the fence.  Any of these steps can fail with *)
(* an OSError, the process can die between them, and power can be lost.    *)
(*                                                                         *)
(* The contents of a store are the set of the mutations that took effect.  *)
(* One that contradicts them raises, or changes nothing and says so.       *)
(* Each process has one store object; its threads queue at an in-process   *)
(* lock, so a process makes one call at a time.  POSIX: the fence blocks,  *)
(* and the end of a process frees it.                                      *)
(***************************************************************************)
EXTENDS Naturals, FiniteSets

CONSTANTS
  Procs,
  Mutations,
  Key,             \* [Mutations -> anything]: mutations that exclude each other
  DirectorySyncs,  \* does the filesystem implement the sync of a directory?
  MaxFaults, MaxCrashes, MaxPowerLosses,   \* bounds on what goes wrong
  None

ASSUME ConstantsSound ==
  /\ None \notin Procs
  /\ {"open", "read", "none"} \cap Mutations = {}
  /\ DirectorySyncs \in BOOLEAN
  /\ MaxFaults \in Nat /\ MaxCrashes \in Nat /\ MaxPowerLosses \in Nat

VARIABLES
  file,     \* the checkpoint that the path names
  kept,     \* the checkpoint that the directory on disk names for sure
  loose,    \* the ones named since: a power loss may leave any of them
  lock,     \* the process that holds the writer fence
  pc,       \* [Procs -> Points], where its call is
  call,     \* [Procs -> Calls], the call
  verdict,  \* [Procs -> Verdicts], how the call will end
  mem,      \* [Procs -> SUBSET Mutations], the store object
  saved,    \* [Procs -> SUBSET Mutations], its snapshot before the operation
  temp,     \* [Procs -> {"none", "partial", "flushed"}], its temporary file
  answer,   \* [Mutations -> Verdicts], what the caller was told
  made,     \* history: [Mutations -> SUBSET Mutations], the contents it left
  seen,     \* history: what was returned by a read since the last power loss
  faults, crashes, losses

disk == <<file, kept, loose>>
history == <<answer, made, seen>>
bounds == <<faults, crashes, losses>>
vars == <<file, kept, loose, lock, pc, call, verdict, mem, saved, temp,
          answer, made, seen, faults, crashes, losses>>

Points == {"down", "idle", "fence", "fenced", "cleaned", "restored",
           "operated", "written", "flushed", "replaced", "release"}

Calls == Mutations \cup {"open", "read", "none"}

\* "failed": an error before the rename; "sync": the directory sync failed;
\* "fence": the release failed; "lost": the process ended during the call.
Verdicts == {"none", "ok", "refused", "failed", "sync", "fence", "lost"}

Contents == SUBSET Mutations

\* A checkpoint file: missing, whole, or with blocks that were never written.
Checkpoints == [is : {"missing", "whole", "torn"}, holds : Contents]

NoFile == [is |-> "missing", holds |-> {}]
Torn == [is |-> "torn", holds |-> {}]
Whole(c) == [is |-> "whole", holds |-> c]

Contradicts(m, c) == \E n \in c : n # m /\ Key[n] = Key[m]

Init ==
  /\ file = NoFile /\ kept = NoFile /\ loose = {}
  /\ lock = None
  /\ pc = [p \in Procs |-> "down"]
  /\ call = [p \in Procs |-> "none"]
  /\ verdict = [p \in Procs |-> "none"]
  /\ mem = [p \in Procs |-> {}]
  /\ saved = [p \in Procs |-> {}]
  /\ temp = [p \in Procs |-> "none"]
  /\ answer = [m \in Mutations |-> "none"]
  /\ made = [m \in Mutations |-> {}]
  /\ seen = {}
  /\ faults = 0 /\ crashes = 0 /\ losses = 0

-----------------------------------------------------------------------------
\* A step fails by itself when `cause' holds, and else by an OSError.
FailsFor(cause) ==
  /\ IF cause THEN faults' = faults ELSE faults < MaxFaults /\ faults' = faults + 1
  /\ UNCHANGED <<crashes, losses>>

Works == UNCHANGED bounds

Goto(p, point) == pc' = [pc EXCEPT ![p] = point]

EndWith(p, v) ==
  /\ verdict' = [verdict EXCEPT ![p] = v]
  /\ Goto(p, "release")

\* A call of an open store, or the constructor of a new process.
Begin(p) ==
  /\ \/ pc[p] = "down" /\ call' = [call EXCEPT ![p] = "open"]
     \/ /\ pc[p] = "idle"
        /\ \E c \in {"read"} \cup {m \in Mutations : answer[m] = "none"} :
             /\ c = "read" \/ \A q \in Procs : call[q] # c
             /\ call' = [call EXCEPT ![p] = c]
  /\ Goto(p, "fence")
  /\ UNCHANGED <<disk, lock, verdict, mem, saved, temp, history, bounds>>

\* What the caller is told, and where it leaves the process.
Answer(p, v) ==
  /\ answer' = [m \in Mutations |-> IF m = call[p] THEN v ELSE answer[m]]
  /\ call' = [call EXCEPT ![p] = "none"]
  /\ verdict' = [verdict EXCEPT ![p] = "none"]
  /\ Goto(p, IF call[p] = "open" /\ v # "ok" THEN "down" ELSE "idle")

\* Bug: the constructor does not take the fence.
Bug_AcquireFence(p) ==
  /\ pc[p] = "fence" /\ Works
  /\ call[p] # "open" => lock = None
  /\ lock' = IF call[p] = "open" THEN lock ELSE p
  /\ Goto(p, "fenced")
  /\ UNCHANGED <<disk, call, verdict, answer, mem, saved, temp, made, seen>>

AcquireFence(p) ==
  /\ pc[p] = "fence"
  /\ \/ /\ Works
        /\ lock = None
        /\ lock' = p
        /\ Goto(p, "fenced")
        /\ UNCHANGED <<call, verdict, answer>>
     \/ /\ FailsFor(FALSE)
        /\ Answer(p, "failed")
        /\ UNCHANGED lock
  /\ UNCHANGED <<disk, mem, saved, temp, made, seen>>

\* The constructor removes every temporary file beside the checkpoint.
Cleanup(p) ==
  /\ pc[p] = "fenced" /\ call[p] = "open"
  /\ \/ /\ Works
        /\ temp' = [q \in Procs |-> "none"]
        /\ Goto(p, "cleaned")
        /\ UNCHANGED verdict
     \/ /\ FailsFor(FALSE)
        /\ \E gone \in SUBSET Procs :
             temp' = [q \in Procs |-> IF q \in gone THEN "none" ELSE temp[q]]
        /\ EndWith(p, "failed")
  /\ UNCHANGED <<disk, lock, call, mem, saved, history>>

\* Bug: memory is not refreshed.
Bug_Loaded(p) == mem[p]

\* Memory becomes what the file holds; without a file it stays what it was.
Loaded(p) == IF file = NoFile THEN mem[p] ELSE file.holds

Restore(p) ==
  /\ \/ pc[p] = "cleaned"
     \/ pc[p] = "fenced" /\ call[p] # "open"
  /\ \/ /\ Works
        /\ file # Torn
        /\ mem' = [mem EXCEPT ![p] = Loaded(p)]
        /\ saved' = [saved EXCEPT ![p] = Loaded(p)]
        /\ IF call[p] \in Mutations
           THEN /\ Goto(p, "restored")
                /\ UNCHANGED <<verdict, seen>>
           ELSE /\ EndWith(p, "ok")
                /\ seen' = IF call[p] = "read" THEN seen \cup Loaded(p) ELSE seen
     \/ /\ FailsFor(file = Torn)
        /\ EndWith(p, "failed")
        /\ UNCHANGED <<mem, saved, seen>>
  /\ UNCHANGED <<disk, lock, call, temp, answer, made>>

\* The operation on memory.  One that contradicts the contents raises, or
\* returns what it found (claim), and the checkpoint is written all the same.
Operate(p) ==
  LET m == call[p] IN
  /\ pc[p] = "restored"
  /\ \/ /\ ~ Contradicts(m, mem[p])
        /\ mem' = [mem EXCEPT ![p] = @ \cup {m}]
        /\ Goto(p, "operated")
        /\ UNCHANGED verdict
     \/ /\ Contradicts(m, mem[p])
        /\ \/ EndWith(p, "refused")
           \/ Goto(p, "operated") /\ UNCHANGED verdict
        /\ UNCHANGED mem
  /\ made' = [made EXCEPT ![m] = mem'[p]]
  /\ Works
  /\ UNCHANGED <<disk, lock, call, saved, temp, answer, seen>>

\* Bug: memory keeps what could not be written.
Bug_RollBack(p) ==
  /\ temp' = [temp EXCEPT ![p] = "none"]
  /\ EndWith(p, "failed")
  /\ UNCHANGED mem

\* An error before the rename: the temporary file goes, memory goes back.
RollBack(p) ==
  /\ mem' = [mem EXCEPT ![p] = saved[p]]
  /\ temp' = [temp EXCEPT ![p] = "none"]
  /\ EndWith(p, "failed")

WriteTemporary(p) ==
  /\ pc[p] = "operated"
  /\ \/ /\ Works
        /\ temp' = [temp EXCEPT ![p] = "partial"]
        /\ Goto(p, "written")
        /\ UNCHANGED <<mem, verdict>>
     \/ FailsFor(FALSE) /\ RollBack(p)
  /\ UNCHANGED <<disk, lock, call, saved, history>>

SyncTemporary(p) ==
  /\ pc[p] = "written"
  /\ \/ /\ Works
        /\ temp' = [temp EXCEPT ![p] = "flushed"]
        /\ Goto(p, "flushed")
        /\ UNCHANGED <<mem, verdict>>
     \/ FailsFor(FALSE) /\ RollBack(p)
  /\ UNCHANGED <<disk, lock, call, saved, history>>

\* The rename.  Every process sees it at once; what the disk would show after
\* a power loss depends on what was synced.
Replace(p) ==
  /\ pc[p] = "flushed"
  /\ \/ /\ Works
        /\ temp[p] # "none"
        /\ file' = Whole(mem[p])
        /\ loose' = loose \cup {IF temp[p] = "flushed" THEN Whole(mem[p]) ELSE Torn}
        /\ temp' = [temp EXCEPT ![p] = "none"]
        /\ Goto(p, "replaced")
        /\ UNCHANGED <<mem, verdict>>
     \/ /\ FailsFor(temp[p] = "none")
        /\ RollBack(p)
        /\ UNCHANGED <<file, loose>>
  /\ UNCHANGED <<kept, lock, call, saved, history>>

\* Bug: the directory is never synced.
Bug_SyncDirectory(p) ==
  /\ pc[p] = "replaced" /\ Works
  /\ EndWith(p, "ok")
  /\ UNCHANGED <<disk, lock, call, mem, saved, temp, history>>

\* Bug: a failed sync counts as a failure before the rename.
Bug_SyncFailed(p) ==
  /\ pc[p] = "replaced" /\ FailsFor(FALSE)
  /\ EndWith(p, "failed")
  /\ UNCHANGED <<disk, lock, call, mem, saved, temp, history>>

\* A failure is reported, but memory is not rolled back: the file is new.
SyncDirectory(p) ==
  /\ pc[p] = "replaced"
  /\ \/ /\ Works
        /\ EndWith(p, "ok")
        /\ IF DirectorySyncs THEN kept' = file /\ loose' = {}
                             ELSE UNCHANGED <<kept, loose>>
     \/ /\ FailsFor(FALSE)
        /\ EndWith(p, "sync")
        /\ UNCHANGED <<kept, loose>>
  /\ UNCHANGED <<file, lock, call, mem, saved, temp, history>>

\* What a call that raised nothing tells.
Returned(p) ==
  IF call[p] \in Mutations \ mem[p] THEN "refused" ELSE "ok"

\* Bug: after an error of the unlock the descriptor stays open.
Bug_ReleaseFence(p) ==
  /\ pc[p] = "release"
  /\ \/ Works /\ Answer(p, verdict[p]) /\ lock' = None
     \/ FailsFor(FALSE) /\ Answer(p, verdict[p]) /\ UNCHANGED lock
  /\ UNCHANGED <<disk, mem, saved, temp, made, seen>>

\* The descriptor is closed, and the fence free, whether or not the unlock
\* reports an error; the error is dropped when the call has failed already.
ReleaseFence(p) ==
  /\ pc[p] = "release"
  /\ lock' = None
  /\ \/ Works /\ Answer(p, IF verdict[p] = "ok" THEN Returned(p) ELSE verdict[p])
     \/ FailsFor(FALSE) /\ Answer(p, IF verdict[p] = "ok" THEN "fence" ELSE verdict[p])
  /\ UNCHANGED <<disk, mem, saved, temp, made, seen>>

-----------------------------------------------------------------------------
\* The processes in `dead' end: the system closes their descriptors.  Their
\* temporary files stay.
Die(dead) ==
  /\ lock' = IF lock \in dead THEN None ELSE lock
  /\ pc' = [p \in Procs |-> IF p \in dead THEN "down" ELSE pc[p]]
  /\ verdict' = [p \in Procs |-> IF p \in dead THEN "none" ELSE verdict[p]]
  /\ mem' = [p \in Procs |-> IF p \in dead THEN {} ELSE mem[p]]
  /\ saved' = [p \in Procs |-> IF p \in dead THEN {} ELSE saved[p]]
  /\ call' = [p \in Procs |-> IF p \in dead THEN "none" ELSE call[p]]
  /\ answer' = [m \in Mutations |->
                  IF \E p \in dead : call[p] = m THEN "lost" ELSE answer[m]]
  /\ UNCHANGED <<temp, made>>

Crash(p) ==
  /\ pc[p] # "down"
  /\ crashes < MaxCrashes
  /\ crashes' = crashes + 1
  /\ Die({p})
  /\ UNCHANGED <<disk, seen, faults, losses>>

PowerLoss ==
  /\ losses < MaxPowerLosses
  /\ losses' = losses + 1
  /\ Die(Procs)
  /\ \E f \in {kept} \cup loose : file' = f /\ kept' = f
  /\ loose' = {}
  /\ seen' = {}
  /\ UNCHANGED <<faults, crashes>>

Step(p) ==
  \/ AcquireFence(p) \/ Cleanup(p) \/ Restore(p) \/ Operate(p)
  \/ WriteTemporary(p) \/ SyncTemporary(p) \/ Replace(p) \/ SyncDirectory(p)
  \/ ReleaseFence(p)

Next ==
  \/ \E p \in Procs : Begin(p) \/ Step(p) \/ Crash(p)
  \/ PowerLoss

Spec == Init /\ [][Next]_vars

\* A call goes on by itself; a process that waits at the fence is not passed
\* over for ever.
FairSpec ==
  /\ Spec
  /\ \A p \in Procs : WF_vars(Step(p)) /\ SF_vars(AcquireFence(p))

-----------------------------------------------------------------------------
\* Every variable keeps to its type.
TypeOK ==
  /\ file \in Checkpoints /\ kept \in Checkpoints /\ loose \subseteq Checkpoints
  /\ lock \in Procs \cup {None}
  /\ pc \in [Procs -> Points]
  /\ call \in [Procs -> Calls]
  /\ verdict \in [Procs -> Verdicts]
  /\ mem \in [Procs -> Contents]
  /\ saved \in [Procs -> Contents]
  /\ temp \in [Procs -> {"none", "partial", "flushed"}]
  /\ answer \in [Mutations -> Verdicts]
  /\ made \in [Mutations -> Contents]
  /\ seen \in Contents
  /\ faults \in 0 .. MaxFaults
  /\ crashes \in 0 .. MaxCrashes
  /\ losses \in 0 .. MaxPowerLosses

\* The order of sync, rename and sync (_checkpoint): once a mutation is
\* acknowledged, or only the release of the fence failed after it, every
\* checkpoint that a power loss can leave is readable and holds the mutation
\* and all it was decided on, what others failed to sync included.
AcknowledgedSurvives ==
  DirectorySyncs =>
    \A m \in Mutations : answer[m] \in {"ok", "fence"} =>
      /\ answer[m] = "ok" => m \in made[m]
      /\ \A c \in {file, kept} \cup loose : c # Torn /\ made[m] \subseteq c.holds

\* The constructor of one store never removes the temporary file that a call
\* of another is about to rename (_cleanup_stale_checkpoints runs under the
\* fence).
WriterKeepsItsTemporary ==
  \A p \in Procs : pc[p] \in {"written", "flushed"} => temp[p] # "none"

\* A read returns only mutations that are in the checkpoint: never what a
\* failed call left in memory (the rollback of _mutate), not even before there
\* is a file to restore.
ReadsAreCommitted == seen \subseteq file.holds

\* No process overwrites the update of another from stale memory, and no error
\* or crash takes an update back: only a power loss does (_mutate restores
\* under the fence).
UpdatesAccumulate == [][losses' = losses => file.holds \subseteq file'.holds]_vars

\* A call is one step of an atomic store, whose answers can be relied on: an
\* error before the rename means "never", a failed sync of the directory or
\* release of the fence, or no answer, means "find out".
Store == INSTANCE AtomicStore WITH
  contents <- file.holds,
  answer <- [m \in Mutations |->
               IF answer[m] \in {"sync", "fence", "lost"} THEN "unsure" ELSE answer[m]]

ImplementsAtomicStore == Store!Spec

\* Every call returns, or its process ends: no failed step leaves the fence
\* held (_writer_fence, _release_file_lock).
CallsReturn ==
  \A p \in Procs : pc[p] \notin {"idle", "down"} ~> pc[p] \in {"idle", "down"}
=============================================================================
