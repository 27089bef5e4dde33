------------------------ MODULE DurableCheckpointProofs ------------------------
(***************************************************************************)
(* Proofs about DurableCheckpoint, for any number of processes, mutations, *)
(* faults, crashes and power losses.                                       *)
(***************************************************************************)
EXTENDS DurableCheckpoint, TLAPS

\* A process between the acquisition and the release of the fence holds it.
OneWriter == \A p \in Procs : pc[p] \notin {"down", "idle", "fence"} => lock = p

\* A mutation is called once, by one process, and answered once.
CalledOnce ==
  \A p \in Procs : call[p] \in Mutations =>
    /\ answer[call[p]] = "none"
    /\ \A q \in Procs : call[q] = call[p] => q = p

\* A call that is past the restore is a mutation.
CallIsMutation ==
  \A p \in Procs :
    pc[p] \in {"restored", "operated", "written", "flushed", "replaced"} =>
      call[p] \in Mutations

\* No checkpoint is torn; the others that power loss may leave are older.
CheckpointsSound ==
  \A c \in {file, kept} \cup loose :
    /\ c.is # "torn"
    /\ c.is = "missing" => c.holds = {}
    /\ c.holds \subseteq file.holds

TemporarySound ==
  \A p \in Procs :
    /\ pc[p] = "written" => temp[p] = "partial"
    /\ pc[p] = "flushed" => temp[p] = "flushed"

\* Before the first checkpoint, memory holds only what is about to be written.
MemoryEmptyAtFirst ==
  file.is = "missing" =>
    \A p \in Procs :
      /\ pc[p] \notin {"operated", "written", "flushed"} => mem[p] = {}
      /\ pc[p] \in {"restored", "operated", "written", "flushed"} => saved[p] = {}

\* What is about to be written: the file, and the mutation unless it is refused.
MemoryFresh ==
  \A p \in Procs :
    /\ pc[p] = "restored" => mem[p] = file.holds
    /\ pc[p] \in {"operated", "written", "flushed"} =>
         mem[p] = IF Contradicts(call[p], file.holds) THEN file.holds
                                                      ELSE file.holds \cup {call[p]}

\* p's call is past the rename and has not returned.
Written(p) ==
  /\ call[p] \in Mutations
  /\ pc[p] = "replaced" \/ (pc[p] = "release" /\ verdict[p] \in {"ok", "sync"})

\* What was written, and what the call will be told of it.
OutcomeSound ==
  \A p \in Procs :
    /\ pc[p] \in {"operated", "written", "flushed"} => made[call[p]] = mem[p]
    /\ pc[p] = "release" => verdict[p] \in {"ok", "refused", "failed", "sync"}
    /\ Written(p) =>
         /\ made[call[p]] = mem[p]
         /\ mem[p] = file.holds
         /\ call[p] \in mem[p] \/ Contradicts(call[p], mem[p])
    /\ pc[p] = "release" /\ verdict[p] = "refused" =>
         call[p] \in Mutations /\ Contradicts(call[p], file.holds)

\* A mutation in the file was answered, or its call is past the rename.
AppliedIsKnown ==
  \A m \in file.holds :
    \/ answer[m] \in {"ok", "sync", "fence", "lost"}
    \/ \E p \in Procs : call[p] = m /\ Written(p)

\* What has been synced: all of it, once the sync of the directory succeeded.
SyncedInTime ==
  DirectorySyncs =>
    /\ \A p \in Procs :
         pc[p] = "release" /\ verdict[p] = "ok" /\ call[p] \in Mutations =>
           \A c \in {file, kept} \cup loose : made[call[p]] \subseteq c.holds
    /\ \A m \in Mutations : answer[m] \in {"ok", "fence"} =>
         /\ answer[m] = "ok" => m \in made[m]
         /\ \A c \in {file, kept} \cup loose : made[m] \subseteq c.holds

IInv ==
  /\ TypeOK /\ OneWriter /\ CalledOnce /\ CallIsMutation /\ CheckpointsSound
  /\ TemporarySound /\ MemoryEmptyAtFirst /\ MemoryFresh /\ OutcomeSound
  /\ AppliedIsKnown /\ SyncedInTime /\ ReadsAreCommitted

-----------------------------------------------------------------------------
(* The steps.  Each keeps the invariant.                                      *)

LEMMA BeginKeepsIInv ==
  ASSUME IInv, NEW p \in Procs, Begin(p)
  PROVE  IInv'
<1>1. TypeOK'
  BY DEF IInv, TypeOK, Begin, Goto, disk, history, bounds, Points, Calls,
         NoFile
<1>2. OneWriter'
  BY DEF IInv, OneWriter, Begin, Goto
<1>3. CalledOnce'
  BY ConstantsSound DEF IInv, CalledOnce, TypeOK, Begin, history
<1>4. CallIsMutation'
  BY DEF IInv, CallIsMutation, TypeOK, Begin, Goto
<1>5. CheckpointsSound'
  BY DEF IInv, CheckpointsSound, Begin, disk
<1>6. TemporarySound'
  BY DEF IInv, TemporarySound, Begin, Goto
<1>7. MemoryEmptyAtFirst'
  BY DEF IInv, MemoryEmptyAtFirst, Begin, Goto, disk
<1>8. MemoryFresh'
  BY DEF IInv, MemoryFresh, TypeOK, Begin, Goto, disk
<1>9. OutcomeSound'
  BY DEF IInv, OutcomeSound, TypeOK, Written, Begin, Goto, disk, history
<1>10. AppliedIsKnown'
  BY DEF IInv, AppliedIsKnown, TypeOK, Written, Begin, Goto, disk, history
<1>11. SyncedInTime'
  BY DEF IInv, SyncedInTime, TypeOK, Begin, Goto, disk, history
<1>12. ReadsAreCommitted'
  BY DEF IInv, ReadsAreCommitted, Begin, disk, history
<1> QED  BY <1>1, <1>2, <1>3, <1>4, <1>5, <1>6, <1>7, <1>8, <1>9, <1>10, <1>11, <1>12 DEF IInv

LEMMA AcquireFenceKeepsIInv ==
  ASSUME IInv, NEW p \in Procs, AcquireFence(p)
  PROVE  IInv'
<1>1. TypeOK'
  BY ConstantsSound DEF IInv, TypeOK, AcquireFence, Works, FailsFor, Answer,
         Goto, disk, bounds, Points, Calls, Verdicts, NoFile
<1>2. OneWriter'
  BY ConstantsSound DEF IInv, OneWriter, TypeOK, AcquireFence, Answer, Goto
<1>3. CalledOnce'
  BY ConstantsSound DEF IInv, CalledOnce, TypeOK, AcquireFence, FailsFor,
         Answer
<1>4. CallIsMutation'
  BY DEF IInv, CallIsMutation, TypeOK, AcquireFence, Answer, Goto
<1>5. CheckpointsSound'
  BY DEF IInv, CheckpointsSound, AcquireFence, disk
<1>6. TemporarySound'
  BY DEF IInv, TemporarySound, TypeOK, AcquireFence, Answer, Goto
<1>7. MemoryEmptyAtFirst'
  BY DEF IInv, MemoryEmptyAtFirst, TypeOK, AcquireFence, Answer, Goto, disk
<1>8. MemoryFresh'
  BY DEF IInv, MemoryFresh, TypeOK, AcquireFence, FailsFor, Answer, Goto,
         disk
<1>9. OutcomeSound'
  BY DEF IInv, OutcomeSound, TypeOK, Written, AcquireFence, FailsFor, Answer,
         Goto, disk
<1>10. AppliedIsKnown'
  BY DEF IInv, AppliedIsKnown, TypeOK, Checkpoints, Contents, Written,
         CalledOnce, AcquireFence, FailsFor, Answer, Goto, disk
<1>11. SyncedInTime'
  BY DEF IInv, SyncedInTime, TypeOK, AcquireFence, FailsFor, Answer, Goto,
         disk
<1>12. ReadsAreCommitted'
  BY DEF IInv, ReadsAreCommitted, AcquireFence, disk
<1> QED  BY <1>1, <1>2, <1>3, <1>4, <1>5, <1>6, <1>7, <1>8, <1>9, <1>10, <1>11, <1>12 DEF IInv

LEMMA CleanupKeepsIInv ==
  ASSUME IInv, NEW p \in Procs, Cleanup(p)
  PROVE  IInv'
<1>1. TypeOK'
  BY ConstantsSound DEF IInv, TypeOK, Cleanup, Works, FailsFor, EndWith,
         Goto, disk, history, bounds, Points, Verdicts, NoFile
<1>2. OneWriter'
  BY DEF IInv, OneWriter, TypeOK, Cleanup, EndWith, Goto
<1>3. CalledOnce'
  BY DEF IInv, CalledOnce, Cleanup, history
<1>4. CallIsMutation'
  BY DEF IInv, CallIsMutation, TypeOK, Cleanup, EndWith, Goto
<1>5. CheckpointsSound'
  BY DEF IInv, CheckpointsSound, Cleanup, disk
<1>6. TemporarySound'
  BY DEF IInv, TemporarySound, TypeOK, OneWriter, Cleanup, EndWith, Goto
<1>7. MemoryEmptyAtFirst'
  BY DEF IInv, MemoryEmptyAtFirst, TypeOK, Cleanup, EndWith, Goto, disk
<1>8. MemoryFresh'
  BY DEF IInv, MemoryFresh, TypeOK, Cleanup, EndWith, Goto, disk
<1>9. OutcomeSound'
  BY DEF IInv, OutcomeSound, TypeOK, Written, Cleanup, FailsFor, EndWith,
         Goto, disk, history
<1>10. AppliedIsKnown'
  BY DEF IInv, AppliedIsKnown, TypeOK, Written, Cleanup, FailsFor, EndWith,
         Goto, disk, history
<1>11. SyncedInTime'
  BY DEF IInv, SyncedInTime, TypeOK, Cleanup, FailsFor, EndWith, Goto, disk,
         history
<1>12. ReadsAreCommitted'
  BY DEF IInv, ReadsAreCommitted, Cleanup, disk, history
<1> QED  BY <1>1, <1>2, <1>3, <1>4, <1>5, <1>6, <1>7, <1>8, <1>9, <1>10, <1>11, <1>12 DEF IInv

LEMMA RestoreKeepsIInv ==
  ASSUME IInv, NEW p \in Procs, Restore(p)
  PROVE  IInv'
<1>1. TypeOK'
  BY ConstantsSound DEF IInv, TypeOK, Restore, Works, FailsFor, EndWith,
         Goto, Loaded, disk, bounds, Points, Verdicts, Contents, Checkpoints
<1>2. OneWriter'
  BY DEF IInv, OneWriter, TypeOK, Restore, EndWith, Goto
<1>3. CalledOnce'
  BY DEF IInv, CalledOnce, Restore
<1>4. CallIsMutation'
  BY DEF IInv, CallIsMutation, TypeOK, Restore, EndWith, Goto
<1>5. CheckpointsSound'
  BY DEF IInv, CheckpointsSound, Restore, disk
<1>6. TemporarySound'
  BY DEF IInv, TemporarySound, TypeOK, Restore, EndWith, Goto
<1>7. MemoryEmptyAtFirst'
  BY DEF IInv, MemoryEmptyAtFirst, TypeOK, CheckpointsSound, Restore,
         EndWith, Goto, Loaded, disk
<1>8. MemoryFresh'
  <2>1. pc[p] \in {"cleaned", "fenced"}
    BY DEF Restore
  <2>2. Loaded(p) = file.holds
    <3>1. CASE file = NoFile
      <4>1. mem[p] = {}
        BY <2>1, <3>1 DEF IInv, MemoryEmptyAtFirst, NoFile
      <4> QED  BY <3>1, <4>1 DEF Loaded, NoFile
    <3>2. CASE file # NoFile
      BY <3>2 DEF Loaded
    <3> QED  BY <3>1, <3>2
  <2> QED
    BY <2>2 DEF IInv, MemoryFresh, TypeOK, Restore, Works, FailsFor, EndWith, Goto, disk
<1>9. OutcomeSound'
  BY DEF IInv, OutcomeSound, TypeOK, Written, Restore, EndWith, Goto, disk
<1>10. AppliedIsKnown'
  BY DEF IInv, AppliedIsKnown, TypeOK, Written, Restore, EndWith, Goto, disk
<1>11. SyncedInTime'
  BY DEF IInv, SyncedInTime, TypeOK, Restore, EndWith, Goto, disk
<1>12. ReadsAreCommitted'
  BY DEF IInv, ReadsAreCommitted, MemoryEmptyAtFirst, NoFile, Restore,
         Loaded, disk
<1> QED  BY <1>1, <1>2, <1>3, <1>4, <1>5, <1>6, <1>7, <1>8, <1>9, <1>10, <1>11, <1>12 DEF IInv

LEMMA OperateKeepsIInv ==
  ASSUME IInv, NEW p \in Procs, Operate(p)
  PROVE  IInv'
<1>1. TypeOK'
  BY DEF IInv, TypeOK, Operate, Works, EndWith, Goto, disk, bounds, Points,
         Verdicts, Contents, NoFile, CallIsMutation
<1>2. OneWriter'
  BY DEF IInv, OneWriter, TypeOK, Operate, EndWith, Goto
<1>3. CalledOnce'
  BY DEF IInv, CalledOnce, Operate
<1>4. CallIsMutation'
  BY DEF IInv, CallIsMutation, TypeOK, Operate, EndWith, Goto
<1>5. CheckpointsSound'
  BY DEF IInv, CheckpointsSound, Operate, disk
<1>6. TemporarySound'
  BY DEF IInv, TemporarySound, TypeOK, Operate, EndWith, Goto
<1>7. MemoryEmptyAtFirst'
  BY DEF IInv, MemoryEmptyAtFirst, TypeOK, Operate, EndWith, Goto, disk
<1>8. MemoryFresh'
  BY DEF IInv, MemoryFresh, TypeOK, Operate, EndWith, Goto, disk
<1>9. OutcomeSound'
  BY DEF IInv, OutcomeSound, TypeOK, Written, CallIsMutation, CalledOnce,
         MemoryFresh, Operate, EndWith, Goto, disk
<1>10. AppliedIsKnown'
  BY DEF IInv, AppliedIsKnown, TypeOK, Written, Operate, EndWith, Goto, disk
<1>11. SyncedInTime'
  BY DEF IInv, SyncedInTime, TypeOK, CalledOnce, Operate, EndWith, Goto, disk
<1>12. ReadsAreCommitted'
  BY DEF IInv, ReadsAreCommitted, Operate, disk
<1> QED  BY <1>1, <1>2, <1>3, <1>4, <1>5, <1>6, <1>7, <1>8, <1>9, <1>10, <1>11, <1>12 DEF IInv

LEMMA WriteTemporaryKeepsIInv ==
  ASSUME IInv, NEW p \in Procs, WriteTemporary(p)
  PROVE  IInv'
<1>1. TypeOK'
  BY ConstantsSound DEF IInv, TypeOK, WriteTemporary, Works, FailsFor,
         RollBack, EndWith, Goto, disk, history, bounds, Points, Verdicts,
         NoFile
<1>2. OneWriter'
  BY DEF IInv, OneWriter, TypeOK, WriteTemporary, RollBack, EndWith, Goto
<1>3. CalledOnce'
  BY DEF IInv, CalledOnce, WriteTemporary, history
<1>4. CallIsMutation'
  BY DEF IInv, CallIsMutation, TypeOK, WriteTemporary, RollBack, EndWith,
         Goto
<1>5. CheckpointsSound'
  BY DEF IInv, CheckpointsSound, WriteTemporary, disk
<1>6. TemporarySound'
  BY DEF IInv, TemporarySound, TypeOK, WriteTemporary, RollBack, EndWith,
         Goto
<1>7. MemoryEmptyAtFirst'
  BY DEF IInv, MemoryEmptyAtFirst, TypeOK, WriteTemporary, RollBack, EndWith,
         Goto, disk
<1>8. MemoryFresh'
  BY DEF IInv, MemoryFresh, TypeOK, WriteTemporary, Works, FailsFor,
         RollBack, EndWith, Goto, disk, history, bounds
<1>9. OutcomeSound'
  BY DEF IInv, OutcomeSound, TypeOK, Written, WriteTemporary, FailsFor,
         RollBack, EndWith, Goto, disk, history
<1>10. AppliedIsKnown'
  BY DEF IInv, AppliedIsKnown, TypeOK, Written, WriteTemporary, FailsFor,
         RollBack, EndWith, Goto, disk, history
<1>11. SyncedInTime'
  BY DEF IInv, SyncedInTime, TypeOK, WriteTemporary, FailsFor, RollBack,
         EndWith, Goto, disk, history
<1>12. ReadsAreCommitted'
  BY DEF IInv, ReadsAreCommitted, WriteTemporary, disk, history
<1> QED  BY <1>1, <1>2, <1>3, <1>4, <1>5, <1>6, <1>7, <1>8, <1>9, <1>10, <1>11, <1>12 DEF IInv

LEMMA SyncTemporaryKeepsIInv ==
  ASSUME IInv, NEW p \in Procs, SyncTemporary(p)
  PROVE  IInv'
<1>1. TypeOK'
  BY ConstantsSound DEF IInv, TypeOK, SyncTemporary, Works, FailsFor,
         RollBack, EndWith, Goto, disk, history, bounds, Points, Verdicts,
         NoFile
<1>2. OneWriter'
  BY DEF IInv, OneWriter, TypeOK, SyncTemporary, RollBack, EndWith, Goto
<1>3. CalledOnce'
  BY DEF IInv, CalledOnce, SyncTemporary, history
<1>4. CallIsMutation'
  BY DEF IInv, CallIsMutation, TypeOK, SyncTemporary, RollBack, EndWith, Goto
<1>5. CheckpointsSound'
  BY DEF IInv, CheckpointsSound, SyncTemporary, disk
<1>6. TemporarySound'
  BY DEF IInv, TemporarySound, TypeOK, SyncTemporary, RollBack, EndWith, Goto
<1>7. MemoryEmptyAtFirst'
  BY DEF IInv, MemoryEmptyAtFirst, TypeOK, SyncTemporary, RollBack, EndWith,
         Goto, disk
<1>8. MemoryFresh'
  BY DEF IInv, MemoryFresh, TypeOK, SyncTemporary, Works, FailsFor, RollBack,
         EndWith, Goto, disk, history, bounds
<1>9. OutcomeSound'
  BY DEF IInv, OutcomeSound, TypeOK, Written, SyncTemporary, FailsFor,
         RollBack, EndWith, Goto, disk, history
<1>10. AppliedIsKnown'
  BY DEF IInv, AppliedIsKnown, TypeOK, Written, SyncTemporary, FailsFor,
         RollBack, EndWith, Goto, disk, history
<1>11. SyncedInTime'
  BY DEF IInv, SyncedInTime, TypeOK, SyncTemporary, FailsFor, RollBack,
         EndWith, Goto, disk, history
<1>12. ReadsAreCommitted'
  BY DEF IInv, ReadsAreCommitted, SyncTemporary, disk, history
<1> QED  BY <1>1, <1>2, <1>3, <1>4, <1>5, <1>6, <1>7, <1>8, <1>9, <1>10, <1>11, <1>12 DEF IInv

LEMMA ReplaceKeepsIInv ==
  ASSUME IInv, NEW p \in Procs, Replace(p)
  PROVE  IInv'
<1>1. TypeOK'
  BY ConstantsSound DEF IInv, TypeOK, Replace, Works, FailsFor, RollBack,
         EndWith, Goto, history, bounds, Whole, Torn, Points, Verdicts,
         Contents, Checkpoints, NoFile
<1>2. OneWriter'
  BY DEF IInv, OneWriter, TypeOK, Replace, RollBack, EndWith, Goto
<1>3. CalledOnce'
  BY DEF IInv, CalledOnce, Replace, history
<1>4. CallIsMutation'
  BY DEF IInv, CallIsMutation, TypeOK, Replace, RollBack, EndWith, Goto
<1>5. CheckpointsSound'
  BY DEF IInv, CheckpointsSound, TypeOK, MemoryFresh, TemporarySound,
         Replace, Whole
<1>6. TemporarySound'
  BY DEF IInv, TemporarySound, TypeOK, Replace, RollBack, EndWith, Goto
<1>7. MemoryEmptyAtFirst'
  BY DEF IInv, MemoryEmptyAtFirst, TypeOK, Replace, RollBack, EndWith, Goto,
         Whole
<1>8. MemoryFresh'
  BY DEF IInv, MemoryFresh, TypeOK, OneWriter, Replace, RollBack, EndWith,
         Goto
<1>9. OutcomeSound'
  BY DEF IInv, OutcomeSound, TypeOK, Written, OneWriter, MemoryFresh,
         Replace, RollBack, EndWith, Goto, history, Whole
<1>10. AppliedIsKnown'
  BY DEF IInv, AppliedIsKnown, TypeOK, Contents, Written, MemoryFresh,
         OneWriter, Replace, Goto, history, Whole
<1>11. SyncedInTime'
  BY DEF IInv, SyncedInTime, TypeOK, MemoryFresh, TemporarySound, Replace,
         RollBack, EndWith, Goto, history, Whole
<1>12. ReadsAreCommitted'
  BY DEF IInv, ReadsAreCommitted, TypeOK, MemoryFresh, Replace, history,
         Whole
<1> QED  BY <1>1, <1>2, <1>3, <1>4, <1>5, <1>6, <1>7, <1>8, <1>9, <1>10, <1>11, <1>12 DEF IInv

LEMMA SyncDirectoryKeepsIInv ==
  ASSUME IInv, NEW p \in Procs, SyncDirectory(p)
  PROVE  IInv'
<1>1. TypeOK'
  BY ConstantsSound DEF IInv, TypeOK, SyncDirectory, Works, FailsFor,
         EndWith, Goto, history, bounds, Points, Verdicts, NoFile
<1>2. OneWriter'
  BY DEF IInv, OneWriter, TypeOK, SyncDirectory, EndWith, Goto
<1>3. CalledOnce'
  BY DEF IInv, CalledOnce, SyncDirectory, history
<1>4. CallIsMutation'
  BY DEF IInv, CallIsMutation, TypeOK, SyncDirectory, EndWith, Goto
<1>5. CheckpointsSound'
  BY DEF IInv, CheckpointsSound, SyncDirectory
<1>6. TemporarySound'
  BY DEF IInv, TemporarySound, TypeOK, SyncDirectory, EndWith, Goto
<1>7. MemoryEmptyAtFirst'
  BY DEF IInv, MemoryEmptyAtFirst, TypeOK, SyncDirectory, EndWith, Goto
<1>8. MemoryFresh'
  BY DEF IInv, MemoryFresh, TypeOK, SyncDirectory, EndWith, Goto
<1>9. OutcomeSound'
  BY DEF IInv, OutcomeSound, TypeOK, Written, SyncDirectory, FailsFor,
         EndWith, Goto, history
<1>10. AppliedIsKnown'
  BY DEF IInv, AppliedIsKnown, TypeOK, Written, SyncDirectory, FailsFor,
         EndWith, Goto, history
<1>11. SyncedInTime'
  BY DEF IInv, SyncedInTime, TypeOK, OutcomeSound, Written, SyncDirectory,
         FailsFor, EndWith, Goto, history
<1>12. ReadsAreCommitted'
  BY DEF IInv, ReadsAreCommitted, SyncDirectory, history
<1> QED  BY <1>1, <1>2, <1>3, <1>4, <1>5, <1>6, <1>7, <1>8, <1>9, <1>10, <1>11, <1>12 DEF IInv

LEMMA ReleaseFenceKeepsIInv ==
  ASSUME IInv, NEW p \in Procs, ReleaseFence(p)
  PROVE  IInv'
<1>1. TypeOK'
  BY ConstantsSound DEF IInv, TypeOK, ReleaseFence, Works, FailsFor, Answer,
         Returned, Goto, disk, bounds, Points, Calls, Verdicts, NoFile
<1>2. OneWriter'
  BY DEF IInv, OneWriter, TypeOK, ReleaseFence, FailsFor, Answer, Goto
<1>3. CalledOnce'
  BY ConstantsSound DEF IInv, CalledOnce, TypeOK, ReleaseFence, FailsFor,
         Answer
<1>4. CallIsMutation'
  BY DEF IInv, CallIsMutation, TypeOK, ReleaseFence, Answer, Goto
<1>5. CheckpointsSound'
  BY DEF IInv, CheckpointsSound, ReleaseFence, disk
<1>6. TemporarySound'
  BY DEF IInv, TemporarySound, TypeOK, ReleaseFence, Answer, Goto
<1>7. MemoryEmptyAtFirst'
  BY DEF IInv, MemoryEmptyAtFirst, TypeOK, ReleaseFence, Answer, Goto, disk
<1>8. MemoryFresh'
  BY DEF IInv, MemoryFresh, TypeOK, ReleaseFence, FailsFor, Answer, Goto,
         disk
<1>9. OutcomeSound'
  BY DEF IInv, OutcomeSound, TypeOK, Written, ReleaseFence, FailsFor, Answer,
         Goto, disk
<1>10. AppliedIsKnown'
  BY DEF IInv, AppliedIsKnown, TypeOK, Checkpoints, Contents, Written,
         CalledOnce, OutcomeSound, ReleaseFence, FailsFor, Answer, Returned,
         Goto, disk
<1>11. SyncedInTime'
  BY DEF IInv, SyncedInTime, TypeOK, OutcomeSound, Written, ReleaseFence,
         FailsFor, Answer, Returned, Goto, disk
<1>12. ReadsAreCommitted'
  BY DEF IInv, ReadsAreCommitted, ReleaseFence, disk
<1> QED  BY <1>1, <1>2, <1>3, <1>4, <1>5, <1>6, <1>7, <1>8, <1>9, <1>10, <1>11, <1>12 DEF IInv

LEMMA CrashKeepsIInv ==
  ASSUME IInv, NEW p \in Procs, Crash(p)
  PROVE  IInv'
<1>1. TypeOK'
  BY ConstantsSound DEF IInv, TypeOK, Crash, Die, disk, Points, Calls,
         Verdicts, Contents, NoFile
<1>2. OneWriter'
  BY DEF IInv, OneWriter, Crash, Die
<1>3. CalledOnce'
  BY ConstantsSound DEF IInv, CalledOnce, Crash, Die
<1>4. CallIsMutation'
  BY DEF IInv, CallIsMutation, Crash, Die
<1>5. CheckpointsSound'
  BY DEF IInv, CheckpointsSound, Crash, disk
<1>6. TemporarySound'
  BY DEF IInv, TemporarySound, Crash, Die
<1>7. MemoryEmptyAtFirst'
  BY DEF IInv, MemoryEmptyAtFirst, Crash, Die, disk
<1>8. MemoryFresh'
  BY DEF IInv, MemoryFresh, Crash, Die, disk
<1>9. OutcomeSound'
  BY DEF IInv, OutcomeSound, Written, Crash, Die, disk
<1>10. AppliedIsKnown'
  BY DEF IInv, AppliedIsKnown, TypeOK, Checkpoints, Contents, Written, Crash,
         Die, disk
<1>11. SyncedInTime'
  BY DEF IInv, SyncedInTime, Crash, Die, disk
<1>12. ReadsAreCommitted'
  BY DEF IInv, ReadsAreCommitted, Crash, disk
<1> QED  BY <1>1, <1>2, <1>3, <1>4, <1>5, <1>6, <1>7, <1>8, <1>9, <1>10, <1>11, <1>12 DEF IInv

\* A power loss: the processes end, and an older checkpoint may come back.
LEMMA PowerLossKeepsIInv ==
  ASSUME IInv, PowerLoss
  PROVE  IInv'
<1>1. TypeOK'
  BY ConstantsSound DEF IInv, TypeOK, PowerLoss, Die, Points, Calls, Verdicts, Contents
<1>2. /\ pc' = [p \in Procs |-> "down"]
      /\ call' = [p \in Procs |-> "none"]
      /\ mem' = [p \in Procs |-> {}]
  BY DEF IInv, TypeOK, PowerLoss, Die
<1>3. OneWriter' /\ CallIsMutation' /\ TemporarySound' /\ MemoryEmptyAtFirst' /\ MemoryFresh'
  BY <1>2 DEF OneWriter, CallIsMutation, TemporarySound, MemoryEmptyAtFirst, MemoryFresh
<1>4. CalledOnce' /\ OutcomeSound'
  BY <1>2, ConstantsSound DEF CalledOnce, OutcomeSound, Written
<1>5. /\ file' \in {kept} \cup loose
      /\ {file', kept'} \cup loose' = {file'}
  BY DEF PowerLoss
<1>6. CheckpointsSound'
  BY <1>5 DEF IInv, CheckpointsSound
<1>7. AppliedIsKnown'
  <2> SUFFICES ASSUME NEW m \in file'.holds
               PROVE  answer'[m] \in {"ok", "sync", "fence", "lost"}
    BY DEF AppliedIsKnown
  <2>1. m \in file.holds /\ m \in Mutations
    BY <1>5 DEF IInv, TypeOK, Checkpoints, Contents, CheckpointsSound
  <2>2. answer'[m] = IF \E p \in Procs : call[p] = m THEN "lost" ELSE answer[m]
    BY <2>1 DEF PowerLoss, Die
  <2> QED  BY <2>1, <2>2 DEF IInv, AppliedIsKnown
<1>8. SyncedInTime'
  <2>1. made' = made
    BY DEF PowerLoss, Die
  <2>2. \A m \in Mutations : answer'[m] \in {"ok", "fence"} => answer'[m] = answer[m]
    BY DEF PowerLoss, Die
  <2> QED  BY <1>2, <1>5, <2>1, <2>2 DEF IInv, SyncedInTime
<1>9. ReadsAreCommitted'
  BY DEF PowerLoss, ReadsAreCommitted
<1> QED  BY <1>1, <1>3, <1>4, <1>6, <1>7, <1>8, <1>9 DEF IInv

LEMMA InitIInv == Init => IInv
<1> SUFFICES ASSUME Init PROVE IInv
  OBVIOUS
<1>1. TypeOK
  BY ConstantsSound
     DEF Init, TypeOK, Points, Calls, Verdicts, Contents, Checkpoints, NoFile
<1>2. OneWriter /\ CallIsMutation /\ TemporarySound /\ MemoryEmptyAtFirst /\ MemoryFresh
  BY DEF Init, OneWriter, CallIsMutation, TemporarySound, MemoryEmptyAtFirst, MemoryFresh
<1>3. CalledOnce /\ OutcomeSound
  BY ConstantsSound DEF Init, CalledOnce, OutcomeSound, Written
<1>4. CheckpointsSound /\ AppliedIsKnown /\ ReadsAreCommitted
  BY DEF Init, CheckpointsSound, AppliedIsKnown, ReadsAreCommitted, NoFile
<1>5. SyncedInTime
  BY DEF Init, SyncedInTime
<1> QED  BY <1>1, <1>2, <1>3, <1>4, <1>5 DEF IInv

LEMMA NextKeepsIInv == IInv /\ [Next]_vars => IInv'
<1> SUFFICES ASSUME IInv, [Next]_vars PROVE IInv'
  OBVIOUS
<1>1. CASE UNCHANGED vars
  BY <1>1 DEF IInv, vars, TypeOK, OneWriter, CalledOnce, CallIsMutation, CheckpointsSound,
              TemporarySound, MemoryEmptyAtFirst, MemoryFresh, OutcomeSound, Written,
              AppliedIsKnown, SyncedInTime, ReadsAreCommitted
<1>2. CASE PowerLoss
  BY <1>2, PowerLossKeepsIInv
<1>3. ASSUME NEW p \in Procs, Begin(p) \/ Step(p) \/ Crash(p)
      PROVE  IInv'
  BY <1>3, BeginKeepsIInv, AcquireFenceKeepsIInv, CleanupKeepsIInv, RestoreKeepsIInv,
     OperateKeepsIInv, WriteTemporaryKeepsIInv, SyncTemporaryKeepsIInv, ReplaceKeepsIInv,
     SyncDirectoryKeepsIInv, ReleaseFenceKeepsIInv, CrashKeepsIInv
     DEF Step
<1> QED  BY <1>1, <1>2, <1>3 DEF Next

LEMMA Invariance == Spec => []IInv
<1> QED  BY InitIInv, NextKeepsIInv, PTL DEF Spec

-----------------------------------------------------------------------------
\* Every variable of the store keeps to its type.
THEOREM CheckpointTypeCorrect == Spec => []TypeOK
<1>1. IInv => TypeOK
  BY DEF IInv
<1> QED  BY <1>1, Invariance, PTL

\* What the store acknowledged survives every power loss, with all it was
\* decided on, however many processes write and whatever fails (_checkpoint).
THEOREM Durability == Spec => []AcknowledgedSurvives
<1>1. ASSUME IInv, DirectorySyncs, NEW m \in Mutations, answer[m] \in {"ok", "fence"}
      PROVE  /\ answer[m] = "ok" => m \in made[m]
             /\ \A c \in {file, kept} \cup loose : c.is # "torn" /\ made[m] \subseteq c.holds
  BY <1>1 DEF IInv, SyncedInTime, CheckpointsSound
<1>2. IInv => AcknowledgedSurvives
  <2>1. ASSUME IInv, NEW c \in {file, kept} \cup loose
        PROVE  c # Torn
    BY <2>1 DEF IInv, CheckpointsSound, Torn
  <2> QED  BY <1>1, <2>1 DEF AcknowledgedSurvives
<1> QED  BY <1>2, Invariance, PTL

\* A read returns committed mutations only (_mutate, _read).
THEOREM CommittedReads == Spec => []ReadsAreCommitted
<1>1. IInv => ReadsAreCommitted
  BY DEF IInv
<1> QED  BY <1>1, Invariance, PTL

\* No temporary file is removed under its writer (_cleanup_stale_checkpoints).
THEOREM TemporaryKept == Spec => []WriterKeepsItsTemporary
<1>1. IInv => WriterKeepsItsTemporary
  BY DEF IInv, TemporarySound, WriterKeepsItsTemporary
<1> QED  BY <1>1, Invariance, PTL

\* Only a power loss takes an update back: no process overwrites the update of
\* another (_mutate restores under the fence).
THEOREM NoLostUpdate == Spec => UpdatesAccumulate
<1>1. IInv /\ [Next]_vars => [losses' = losses => file.holds \subseteq file'.holds]_vars
  <2> SUFFICES ASSUME IInv, Next, losses' = losses
               PROVE  file.holds \subseteq file'.holds
    BY DEF vars
  <2>1. ASSUME NEW p \in Procs, Replace(p), Works
        PROVE  file.holds \subseteq file'.holds
    <3>1. pc[p] = "flushed" /\ (file' = file \/ file'.holds = mem[p])
      BY <2>1 DEF Replace, Whole
    <3>2. file.holds \subseteq mem[p]
      BY <3>1 DEF IInv, MemoryFresh
    <3> QED  BY <3>1, <3>2
  <2>2. ~ PowerLoss
    BY DEF PowerLoss, IInv, TypeOK
  <2>3. ASSUME NEW p \in Procs, Replace(p)
        PROVE  file.holds \subseteq file'.holds
    BY <2>3, <2>1 DEF Replace
  <2>4. ASSUME NEW p \in Procs, Begin(p) \/ Step(p) \/ Crash(p), ~ Replace(p)
        PROVE  file' = file
    BY <2>4 DEF Begin, Step, AcquireFence, Cleanup, Restore, Operate, WriteTemporary,
                SyncTemporary, SyncDirectory, ReleaseFence, Crash, disk
  <2> QED  BY <2>2, <2>3, <2>4 DEF Next
<1> QED  BY <1>1, Invariance, PTL DEF Spec, UpdatesAccumulate

-----------------------------------------------------------------------------
(* The store implements AtomicStore where the directory can be synced.      *)

\* The answer in the terms of AtomicStore.
Told == [m \in Mutations |->
           IF answer[m] \in {"sync", "fence", "lost"} THEN "unsure" ELSE answer[m]]

\* A step that changes neither the file nor an answer is a stutter.
LEMMA QuietStep ==
  ASSUME file' = file, answer' = answer
  PROVE  UNCHANGED Store!svars
<1> QED  BY DEF Store!svars

\* What an answer under the fence, or after it failed, says is so.
LEMMA ReplyStep ==
  ASSUME IInv, NEW p \in Procs, NEW m \in Mutations, call[p] = m, file' = file,
         NEW v \in {"ok", "refused", "failed", "sync", "fence", "lost"},
         answer' = [n \in Mutations |-> IF n = m THEN v ELSE answer[n]],
         v = "ok" => m \in file.holds,
         v = "refused" => m \notin file.holds /\ Contradicts(m, file.holds),
         v = "failed" => m \notin file.holds
  PROVE  Store!Next
<1> DEFINE a == IF v \in {"sync", "fence", "lost"} THEN "unsure" ELSE v
<1>1. Told[m] = "none" /\ a \in Store!Answers \ {"none"}
  BY DEF IInv, CalledOnce, Told, Store!Answers
<1>2. Told' = [Told EXCEPT ![m] = a]
  BY DEF Told
<1>3. Store!Justified(m, a)
  BY DEF Store!Justified, Store!Contradicts, Contradicts
<1> HIDE DEF a
<1>4. \E b \in Store!Answers \ {"none"} :
        Store!Justified(m, b) /\ Told' = [Told EXCEPT ![m] = b]
  BY <1>1, <1>2, <1>3
<1>5. Store!Reply(m)
  BY <1>1, <1>4 DEF Store!Reply, Told
<1> QED  BY <1>5 DEF Store!Next

\* The rename is the step in which a mutation takes effect.
LEMMA ReplaceImplements ==
  ASSUME IInv, NEW p \in Procs, Replace(p)
  PROVE  Store!Next \/ UNCHANGED Store!svars
<1>1. PICK m \in Mutations : m = call[p]
  BY DEF IInv, CallIsMutation, Replace
<1>2. answer' = answer /\ answer[m] = "none"
  BY <1>1 DEF Replace, history, IInv, CalledOnce
<1>3. file' = file \/ file'.holds = mem[p]
  BY DEF Replace, Whole
<1>4. mem[p] = IF Contradicts(m, file.holds) THEN file.holds ELSE file.holds \cup {m}
  BY <1>1 DEF Replace, IInv, MemoryFresh
<1>5. CASE file'.holds = file.holds
  BY <1>2, <1>5 DEF Store!svars
<1>6. CASE file'.holds = file.holds \cup {m} /\ ~ Contradicts(m, file.holds)
  <2>1. Store!Apply(m)
    BY <1>2, <1>6 DEF Store!Apply, Store!Contradicts, Contradicts
  <2> QED  BY <2>1 DEF Store!Next
<1> QED  BY <1>3, <1>4, <1>5, <1>6

LEMMA AcquireFenceImplements ==
  ASSUME IInv, NEW p \in Procs, AcquireFence(p)
  PROVE  Store!Next \/ UNCHANGED Store!svars
<1>1. file' = file
  BY DEF AcquireFence, disk
<1>2. CASE answer' = answer
  BY <1>1, <1>2 DEF Store!svars
<1>3. CASE answer' = [n \in Mutations |-> IF n = call[p] THEN "failed" ELSE answer[n]]
  <2>1. CASE call[p] \notin Mutations
    <3>1. answer' = answer
      BY <1>3, <2>1 DEF IInv, TypeOK
    <3> QED  BY <1>1, <3>1 DEF Store!svars
  <2>2. CASE call[p] \in Mutations
    <3>1. PICK m \in Mutations : m = call[p]
      BY <2>2
    <3>2. m \notin file.holds
      BY <3>1 DEF IInv, AppliedIsKnown, CalledOnce, Written, AcquireFence
    <3> QED  BY <1>1, <1>3, <3>1, <3>2, ReplyStep
  <2> QED  BY <2>1, <2>2
<1> QED  BY <1>2, <1>3 DEF AcquireFence, Answer

LEMMA ReleaseFenceImplements ==
  ASSUME IInv, NEW p \in Procs, ReleaseFence(p)
  PROVE  Store!Next \/ UNCHANGED Store!svars
<1>1. file' = file
  BY DEF ReleaseFence, disk
<1>2. PICK v : /\ answer' = [n \in Mutations |-> IF n = call[p] THEN v ELSE answer[n]]
               /\ \/ v = "fence"
                  \/ verdict[p] = "ok" /\ v = Returned(p)
                  \/ verdict[p] # "ok" /\ v = verdict[p]
  BY DEF ReleaseFence, Answer
<1>3. CASE call[p] \notin Mutations
  <2>1. answer' = answer
    BY <1>2, <1>3 DEF IInv, TypeOK
  <2> QED  BY <1>1, <2>1 DEF Store!svars
<1>4. CASE call[p] \in Mutations
  <2>1. PICK m \in Mutations : m = call[p]
    BY <1>4
  <2>2. v \in {"ok", "refused", "failed", "sync", "fence", "lost"}
    BY <1>2 DEF Returned, ReleaseFence, IInv, OutcomeSound
  <2>3. verdict[p] \notin {"ok", "sync"} => m \notin file.holds
    BY <2>1 DEF IInv, AppliedIsKnown, CalledOnce, Written, ReleaseFence
  <2>4. verdict[p] = "ok" =>
          /\ mem[p] = file.holds
          /\ m \in file.holds \/ Contradicts(m, file.holds)
    BY <2>1 DEF IInv, OutcomeSound, Written, ReleaseFence
  <2>5. Returned(p) = IF m \in mem[p] THEN "ok" ELSE "refused"
    BY <2>1 DEF Returned
  <2>6. v = "ok" => m \in file.holds
    <3> SUFFICES ASSUME v = "ok" PROVE m \in file.holds
      OBVIOUS
    <3>1. verdict[p] = "ok" /\ Returned(p) = "ok"
      BY <1>2
    <3> QED  BY <2>4, <2>5, <3>1
  <2>7. v = "refused" => m \notin file.holds /\ Contradicts(m, file.holds)
    <3>1. CASE verdict[p] = "ok"
      BY <1>2, <2>4, <2>5, <3>1
    <3>2. CASE verdict[p] = "refused"
      BY <2>1, <2>3, <3>2 DEF IInv, OutcomeSound, ReleaseFence
    <3> QED  BY <1>2, <3>1, <3>2
  <2>8. v = "failed" => m \notin file.holds
    BY <1>2, <2>3, <2>5
  <2> QED  BY <1>1, <1>2, <2>1, <2>2, <2>6, <2>7, <2>8, ReplyStep
<1> QED  BY <1>3, <1>4

LEMMA CrashImplements ==
  ASSUME IInv, NEW p \in Procs, Crash(p)
  PROVE  Store!Next \/ UNCHANGED Store!svars
<1>1. file' = file
  BY DEF Crash, disk
<1>2. answer' = [n \in Mutations |-> IF n = call[p] THEN "lost" ELSE answer[n]]
  BY DEF Crash, Die
<1>3. CASE call[p] \notin Mutations
  <2>1. answer' = answer
    BY <1>2, <1>3 DEF IInv, TypeOK
  <2> QED  BY <1>1, <2>1 DEF Store!svars
<1>4. CASE call[p] \in Mutations
  <2>1. PICK m \in Mutations : m = call[p]
    BY <1>4
  <2> QED  BY <1>1, <1>2, <2>1, ReplyStep
<1> QED  BY <1>3, <1>4

\* A power loss undoes nothing that was acknowledged.
LEMMA PowerLossImplements ==
  ASSUME IInv, DirectorySyncs, PowerLoss
  PROVE  Store!PowerLoss
<1>1. file' \in {kept} \cup loose
  BY DEF PowerLoss
<1>2. file'.holds \in SUBSET file.holds
  BY <1>1 DEF IInv, CheckpointsSound
<1>3. {m \in file.holds : Told[m] = "ok"} \subseteq file'.holds
  <2> SUFFICES ASSUME NEW m \in file.holds, Told[m] = "ok"
               PROVE  m \in file'.holds
    OBVIOUS
  <2>1. m \in Mutations
    BY DEF IInv, TypeOK, Checkpoints, Contents
  <2>2. answer[m] = "ok"
    BY <2>1 DEF Told
  <2>3. m \in made[m] /\ made[m] \subseteq file'.holds
    BY <1>1, <2>1, <2>2 DEF IInv, SyncedInTime
  <2> QED  BY <2>3
<1> DEFINE lost == {m \in Mutations : \E p \in Procs : call[p] = m}
<1>4. lost \in SUBSET {m \in Mutations : Told[m] = "none"}
  BY DEF IInv, CalledOnce, Told
<1>5. Told' = [m \in Mutations |-> IF m \in lost THEN "unsure" ELSE Told[m]]
  BY DEF PowerLoss, Die, Told
<1> HIDE DEF lost
<1> QED  BY <1>2, <1>3, <1>4, <1>5 DEF Store!PowerLoss, Told

LEMMA StepImplements ==
  ASSUME IInv, DirectorySyncs, [Next]_vars
  PROVE  Store!Next \/ UNCHANGED Store!svars
<1>1. CASE UNCHANGED vars
  BY <1>1, QuietStep DEF vars
<1>2. CASE PowerLoss
  BY <1>2, PowerLossImplements DEF Store!Next
<1>3. ASSUME NEW p \in Procs, Begin(p) \/ Step(p) \/ Crash(p)
      PROVE  Store!Next \/ UNCHANGED Store!svars
  <2>1. CASE AcquireFence(p) \/ Replace(p) \/ ReleaseFence(p) \/ Crash(p)
    BY <2>1, AcquireFenceImplements, ReplaceImplements, ReleaseFenceImplements,
       CrashImplements
  <2>2. CASE \/ Begin(p) \/ Cleanup(p) \/ Restore(p) \/ Operate(p)
            \/ WriteTemporary(p) \/ SyncTemporary(p) \/ SyncDirectory(p)
    <3>1. file' = file /\ answer' = answer
      BY <2>2 DEF Begin, Cleanup, Restore, Operate, WriteTemporary, SyncTemporary,
                  SyncDirectory, disk, history
    <3> QED  BY <3>1, QuietStep
  <2> QED  BY <1>3, <2>1, <2>2 DEF Step
<1> QED  BY <1>1, <1>2, <1>3 DEF Next

\* Where the directory can be synced, every call of the durable store is one
\* step of the atomic store, whatever fails in it and whoever else is calling.
THEOREM Implementation ==
  ASSUME DirectorySyncs
  PROVE  Spec => ImplementsAtomicStore
<1>1. Init => Store!Init
  BY DEF Init, Store!Init, NoFile
<1>2. IInv /\ [Next]_vars => [Store!Next]_Store!svars
  BY StepImplements
<1> QED  BY <1>1, <1>2, Invariance, PTL DEF Spec, Store!Spec, ImplementsAtomicStore

=============================================================================
