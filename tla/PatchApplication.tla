--------------------------- MODULE PatchApplication ---------------------------
(***************************************************************************)
(* The generate-patch Task: the attempts of GeneratePatchTaskHandler in    *)
(* src/aep/generate_patch.py, the filesystem invocations and compare       *)
(* operations of filesystem_tool.py, the evaluation of the patch in        *)
(* patch_evaluation.py and its publication in generated_artifact_store.py. *)
(*                                                                         *)
(* All attempts work in one workspace, which other programs (a validation  *)
(* command, a person) may edit as well.  The files of Editable are those   *)
(* the plan authorizes.  A file holds what the pinned revision holds       *)
(* (Base, absence included), what an attempt wrote or deleted (the         *)
(* attempt's number), the remains of a write that could not be undone      *)
(* (Torn), or somebody else's edit (Foreign).                              *)
(***************************************************************************)
EXTENDS Naturals, Sequences, FiniteSets

CONSTANTS
  Editable,       \* authorized files
  Required,       \* those the plan requires a change of
  Satisfied,      \* those of them that meet its criteria at the revision
  Retained,       \* those it requires to stay as they are
  MaxPatches,     \* attempts of the Task
  MaxEdits,       \* bound on edits by others
  MaxPatchFaults  \* bound on failing reads, writes and records

\* A plan lists files, and is about some of those it authorizes.
ASSUME PatchAssumption ==
  /\ IsFiniteSet(Editable) /\ Required \cup Satisfied \cup Retained \subseteq Editable
  /\ MaxPatches \in Nat \ {0} /\ MaxEdits \in Nat /\ MaxPatchFaults \in Nat

Attempts == 1..MaxPatches
Base == 0
Torn == MaxPatches + 1
Foreign == MaxPatches + 2
Contents == {Base, Torn, Foreign} \cup Attempts

VARIABLES
  file,       \* [Editable -> Contents]: the workspace
  now,        \* the attempt that runs or ran last
  result,     \* [Attempts -> "none", "SUCCEEDED", a failure class or "escaped"]
  undoing,    \* [Editable -> status of its rollback invocation]
  artifact,   \* [Attempts -> its PATCH: retention state and files of the diff]
  content,    \* attempts whose patch is in the content store
  step,       \* place in execute()
  todo,       \* files still to be read, or changes still to be undone
  seen,       \* [Editable -> Contents]: the editable targets
  changes,    \* files still to be changed, in the order of the proposal
  applied,    \* files changed
  diff,       \* [Editable -> Contents]: what git diff compared with the base
  returns,    \* what execute() returns once everything is undone
  handling,   \* whether an except clause is running
  preimage,   \* what the file held when the filesystem invocation began
  current,    \* what its comparison has read
  revived,    \* <<p, a>>: undone on record, but put back as attempt a left it
  edits, patchFaults

checkout == <<file, revived, edits>>
stored == <<result, undoing, artifact, content>>
locals == <<todo, seen, changes, applied, diff, returns, handling, preimage, current>>
progress == <<seen, changes, applied, diff, preimage, current>>
patchVars == <<file, now, result, undoing, artifact, content, step, todo, seen, changes, applied,
               diff, returns, handling, preimage, current, revived, edits, patchFaults>>

NoPatch == [state |-> "none", diff |-> [p \in Editable |-> Base]]
Untouched == [p \in Editable |-> Base]

PatchInit ==
  /\ file = Untouched /\ now = 1
  /\ result = [a \in Attempts |-> "none"]
  /\ undoing = [p \in Editable |-> "none"]
  /\ artifact = [a \in Attempts |-> NoPatch] /\ content = {}
  /\ step = "preflight" /\ todo = {} /\ seen = Untouched
  /\ changes = << >> /\ applied = << >> /\ diff = Untouched
  /\ returns = "none" /\ handling = FALSE
  /\ preimage = Base /\ current = Base
  /\ revived = {} /\ edits = 0 /\ patchFaults = 0

PatchFault == patchFaults < MaxPatchFaults /\ patchFaults' = patchFaults + 1
At(s) == step = s
Enter(s) == step' = s

-----------------------------------------------------------------------------
(* Returns, exceptions and the next attempt.                               *)

\* The result counts, and the scheduler runs another attempt after a
\* recoverable failure or an exception that left execute().
Finish(r) ==
  LET again == r \in {"RECOVERABLE", "escaped"} /\ now < MaxPatches
  IN /\ result' = [result EXCEPT ![now] = r]
     /\ Enter(IF again THEN "preflight" ELSE "over")
     /\ now' = IF again THEN now + 1 ELSE now
     /\ undoing' = [p \in Editable |-> "none"]
     /\ todo' = {} /\ seen' = Untouched /\ diff' = Untouched
     /\ changes' = << >> /\ applied' = << >>
     /\ returns' = "none" /\ handling' = FALSE
     /\ preimage' = Base /\ current' = Base

\* Mutant: the last change is not undone.
Bug_Undo(r, clause) ==
  /\ returns' = r /\ handling' = clause
  /\ todo' = {applied[i] : i \in 1..Len(applied) - 1}
  /\ Enter("undo")

\* Undo what is applied, and return r: at the call itself, or in an except
\* clause, which nothing catches an exception of.
Undo(r, clause) ==
  /\ returns' = r /\ handling' = clause
  /\ todo' = {applied[i] : i \in DOMAIN applied}
  /\ Enter("undo")

RaiseError(r) ==
  IF handling THEN Finish("escaped")
  ELSE Undo(r, TRUE) /\ UNCHANGED <<now, result, undoing, progress>>

\* A record that cannot be written or attached raises a RuntimeStoreError; a
\* rollback writes records where there is something to undo.
StoreFails ==
  /\ \/ step \in {"preflight", "read", "verify", "propose", "reconcile", "reread", "evaluate",
                  "attach"}
     \/ At("undo") /\ applied # << >>
  /\ PatchFault /\ RaiseError("CONFIGURATION")
  /\ UNCHANGED <<checkout, artifact, content>>

\* Others edit a file, or put the revision's content back.
Edit(p) ==
  /\ edits < MaxEdits /\ edits' = edits + 1 /\ step # "over"
  /\ \E c \in {Foreign, Base} : file' = [file EXCEPT ![p] = c]
  /\ UNCHANGED <<now, stored, step, locals, revived, patchFaults>>

-----------------------------------------------------------------------------
(* Before anything is written.                                             *)

AtRevision(c) == c = Base

Advance(s) ==
  Enter(s) /\ UNCHANGED <<now, stored, checkout, progress, returns, handling, patchFaults>>

Quietly == UNCHANGED <<checkout, artifact, content, patchFaults>>

\* The plan and the configuration, and a clean git diff of the revision.
Preflight ==
  /\ At("preflight")
  /\ \/ (\A p \in Editable : AtRevision(file[p])) /\ todo' = Editable /\ Advance("read")
     \/ (\E p \in Editable : ~ AtRevision(file[p])) /\ RaiseError("CONFIGURATION") /\ Quietly

\* Each editable target is read by an invocation of its own.
Read(p) ==
  /\ At("read") /\ p \in todo
  /\ todo' = todo \ {p} /\ seen' = [seen EXCEPT ![p] = file[p]]
  /\ Enter(IF todo = {p} THEN "verify" ELSE "read")
  /\ UNCHANGED <<now, stored, checkout, changes, applied, diff, returns, handling, preimage,
                 current, patchFaults>>

ReadFails(class) ==
  /\ step \in {"read", "reread"} /\ PatchFault /\ RaiseError(class)
  /\ UNCHANGED <<checkout, artifact, content>>

\* What was read is compared with the blobs of the revision.
VerifyAtRevision ==
  /\ At("verify")
  /\ IF \A p \in Editable : AtRevision(seen[p])
       THEN UNCHANGED todo /\ Advance("propose") ELSE RaiseError("CONFIGURATION") /\ Quietly

\* The evidence the plan rests on is of other contents than these, or does not
\* show what is to stay.
RefuseEvidence == At("verify") /\ RaiseError("CONFIGURATION") /\ Quietly

\* Distinct files of the plan, in any order.
Proposals == {s \in UNION {[1..n -> Editable] : n \in 0..Cardinality(Editable)} :
                \A i, j \in DOMAIN s : i # j => s[i] # s[j]}
FilesOf(s) == {s[i] : i \in DOMAIN s}

\* What the Agent proposes is a change of authorized files.
Propose ==
  /\ At("propose") /\ changes' \in Proposals /\ Enter("reconcile")
  /\ UNCHANGED <<now, stored, checkout, todo, seen, applied, diff, returns, handling, preimage,
                 current, patchFaults>>

\* The budget stops the Agent, a Tool is denied, or its invocation fails.
AgentFails ==
  /\ At("propose")
  /\ \E class \in {"RECOVERABLE", "POLICY", "EVALUATION", "CONFIGURATION", "PERMANENT"} :
       RaiseError(class)
  /\ Quietly

\* Its answer is malformed, or names a file that is not authorized.
RejectProposal ==
  /\ At("propose") /\ \E class \in {"POLICY", "CONFIGURATION"} : RaiseError(class) /\ Quietly

\* It has operations that do not apply to the text they are for.
RejectOperations == At("propose") /\ RaiseError("EVALUATION") /\ Quietly

\* A plan with evidence: a required file may stay only if the revision meets
\* its criteria, and a retained one has to.  Other plans take no exception.
PlanKept(files) ==
  \/ Required \subseteq files
  \/ Required \ files \subseteq Satisfied /\ Retained \cap files = {}

\* A candidate may fail the criteria of a file it changes, too.
Reconcile ==
  /\ At("reconcile")
  /\ \/ PlanKept(FilesOf(changes)) /\ todo' = Editable /\ Advance("reread")
     \/ RaiseError("EVALUATION") /\ Quietly
     \/ ~ PlanKept(FilesOf(changes)) /\ RaiseError("CONFIGURATION") /\ Quietly

\* The targets must still be what the Agent was shown.
Reread(p) ==
  /\ At("reread") /\ p \in todo
  /\ IF file[p] = seen[p]
       THEN todo' = todo \ {p} /\ Advance(IF todo = {p} THEN "apply" ELSE "reread")
       ELSE RaiseError("CONFIGURATION") /\ Quietly

-----------------------------------------------------------------------------
(* compare_write and compare_delete.  Their lock is one of this process:    *)
(* others edit the files between any two of these steps.                   *)

\* Mutant: the operation writes whatever it finds.
Bug_Compared(found, expected) == found \in Contents /\ expected \in Contents

\* The digest of what the file holds against the expected one.
Compared(found, expected) == found = expected

Put(p, c) == file' = [file EXCEPT ![p] = c]

\* Somebody has replaced the entry, which held c: what is written goes to a file
\* that is no longer there.
Replaced(p, c) == file[p] # c /\ UNCHANGED file

\* The next change: its record is pending, and what is there is kept for the
\* case that the record of its result fails.
Capture ==
  /\ At("apply") /\ changes # << >> /\ preimage' = file[Head(changes)] /\ Enter("compare")
  /\ UNCHANGED <<now, stored, checkout, todo, seen, changes, applied, diff, returns, handling,
                 current, patchFaults>>

\* A change that is refused or fails ends the attempt.
Refuse(class) == Undo(class, FALSE) /\ UNCHANGED <<now, stored, revived, edits, progress>>

\* A mismatch or a missing file is refused.  An error of the opening or the
\* reading already has the clause that puts the content back write what was
\* read, which is nothing.
Compare ==
  /\ At("compare")
  /\ LET p == Head(changes)
     IN \/ /\ Compared(file[p], Base) /\ current' = file[p] /\ Enter("write")
           /\ UNCHANGED <<now, stored, checkout, todo, seen, changes, applied, diff, returns,
                          handling, preimage, patchFaults>>
        \/ /\ ~ Compared(file[p], Base) /\ \E class \in {"POLICY", "PERMANENT"} : Refuse(class)
           /\ UNCHANGED <<file, patchFaults>>
        \/ PatchFault /\ \E c \in {file[p], Torn} : Put(p, c) /\ Refuse("RECOVERABLE")

\* A failing write puts what it compared back, if it can; an entry that was
\* replaced is not deleted.
Write ==
  /\ At("write")
  /\ LET p == Head(changes)
     IN \/ /\ Put(p, now) \/ Replaced(p, current)
           /\ Enter("record") /\ UNCHANGED <<now, stored, locals, revived, edits, patchFaults>>
        \/ Replaced(p, current) /\ Refuse("POLICY") /\ UNCHANGED patchFaults
        \/ PatchFault /\ \E c \in {current, Torn, file[p]} : Put(p, c) /\ Refuse("RECOVERABLE")

\* A file is put back as it was, whatever it holds now; an entry that is not the
\* one the invocation left is not deleted.
PutBack(p, was, left) == Put(p, was) \/ Replaced(p, left)

\* The result is recorded; a record that fails undoes the write and raises,
\* and a write that cannot be undone then leaves execute() at once.
RecordWrite ==
  /\ At("record")
  /\ LET p == Head(changes)
     IN \/ /\ applied' = Append(applied, p) /\ changes' = Tail(changes) /\ Enter("attach")
           /\ UNCHANGED <<now, stored, checkout, todo, seen, diff, returns, handling, preimage,
                          current, patchFaults>>
        \/ /\ PatchFault /\ PutBack(p, preimage, now) /\ RaiseError("CONFIGURATION")
           /\ UNCHANGED <<revived, edits, artifact, content>>
        \/ /\ PatchFault /\ \E c \in {file[p], Torn} : Put(p, c) /\ Finish("escaped")
           /\ UNCHANGED <<revived, edits, artifact, content>>

Attach == At("attach") /\ UNCHANGED todo /\ Advance("apply")

-----------------------------------------------------------------------------
(* Undoing.                                                                *)

\* The last applied file that is not undone yet.
LastApplied(p) ==
  /\ p \in todo
  /\ \E i \in DOMAIN applied : applied[i] = p
       /\ \A j \in DOMAIN applied : applied[j] \in todo => j <= i

Skip(p) == todo' = todo \ {p} /\ UNCHANGED <<now, result, progress, returns, handling>>

\* A rollback that raises, with its invocation on record as s.
UndoRaises(p, s) ==
  IF handling THEN Finish("escaped")
  ELSE /\ Undo("CONFIGURATION", TRUE) /\ undoing' = [undoing EXCEPT ![p] = s]
       /\ UNCHANGED <<now, result, progress>>

\* The invocation of an earlier rollback of this attempt gives its result
\* again, and one that has none keeps its caller waiting until it gives up.
UndoAgain(p) ==
  /\ undoing[p] # "none"
  /\ \/ undoing[p] = "SUCCEEDED" /\ Skip(p) /\ Enter("undo") /\ UNCHANGED undoing
     \/ undoing[p] = "FAILED" /\ RaiseError("CONFIGURATION")
     \/ undoing[p] = "PENDING" /\ Finish("escaped")
  /\ UNCHANGED <<checkout, artifact, content, patchFaults>>

\* The rollback compares with what the change wrote.  An error before that is
\* as in Compare, and a pending record may itself be stored and raise.
UndoFirst(p) ==
  /\ undoing[p] = "none"
  /\ \/ /\ Compared(file[p], now) /\ current' = file[p]
        /\ undoing' = [undoing EXCEPT ![p] = "PENDING"] /\ Enter("unwrite")
        /\ UNCHANGED <<now, result, artifact, content, checkout, todo, seen, changes, applied,
                       diff, returns, handling, preimage, patchFaults>>
     \/ ~ Compared(file[p], now) /\ UndoRaises(p, "FAILED") /\ Quietly
     \/ /\ PatchFault /\ \E c \in {file[p], Torn} : Put(p, c) /\ UndoRaises(p, "FAILED")
        /\ UNCHANGED <<revived, edits, artifact, content>>
     \/ /\ PatchFault /\ UndoRaises(p, "PENDING") /\ UNCHANGED <<checkout, artifact, content>>

\* And writes what the revision holds, or deletes.
Unwrite(p) ==
  /\ At("unwrite") /\ LastApplied(p)
  /\ \/ /\ Put(p, Base) \/ Replaced(p, current)
        /\ Enter("undone") /\ UNCHANGED <<now, stored, locals, revived, edits, patchFaults>>
     \/ /\ Replaced(p, current) /\ UndoRaises(p, "FAILED")
        /\ UNCHANGED <<revived, edits, artifact, content, patchFaults>>
     \/ /\ PatchFault /\ \E c \in {current, Torn, file[p]} : Put(p, c) /\ UndoRaises(p, "FAILED")
        /\ UNCHANGED <<revived, edits, artifact, content>>

\* Its record.  An update that fails has the attempt's content put back, and
\* raises, also when the store has kept it: another rollback then takes the
\* file for undone.
RecordUndo(p) ==
  /\ At("undone") /\ LastApplied(p)
  /\ \/ /\ undoing' = [undoing EXCEPT ![p] = "SUCCEEDED"] /\ Skip(p) /\ Enter("undo")
        /\ UNCHANGED <<checkout, artifact, content, patchFaults>>
     \/ /\ PatchFault /\ PutBack(p, now, Base) /\ UndoRaises(p, "PENDING")
        /\ UNCHANGED <<revived, edits, artifact, content>>
     \/ /\ PatchFault /\ PutBack(p, now, Base) /\ UndoRaises(p, "SUCCEEDED")
        /\ revived' = revived \cup {<<p, now>>} /\ UNCHANGED <<edits, artifact, content>>
     \/ /\ PatchFault /\ \E c \in {file[p], Torn} : Put(p, c) /\ Finish("escaped")
        /\ UNCHANGED <<revived, edits, artifact, content>>

UndoStep(p) == At("undo") /\ LastApplied(p) /\ (UndoFirst(p) \/ UndoAgain(p))

Undone == At("undo") /\ todo = {} /\ Finish(returns) /\ Quietly

-----------------------------------------------------------------------------
(* The diff, its evaluation and its publication.                           *)

Changed(d) == {p \in Editable : d[p] # Base}

\* What the reconciliation leaves of the plan: of the required files, those of
\* the proposal are to change, and the others stay.
Proposed == FilesOf(changes \o applied)
ToChange == Required \cap Proposed
ToStay == Retained \cup (Required \ Proposed)

\* An empty diff is a failure, unless nothing was to be changed.
Diff ==
  /\ At("apply") /\ changes = << >>
  /\ \/ /\ Changed(file) # {} \/ (Proposed = {} /\ ToStay = Editable)
        /\ diff' = file /\ Enter("evaluate")
        /\ UNCHANGED <<now, stored, checkout, todo, seen, changes, applied, returns, handling,
                       preimage, current, patchFaults>>
     \/ /\ Changed(file) = {} /\ ~ (Proposed = {} /\ ToStay = Editable)
        /\ Undo("EVALUATION", FALSE)
        /\ UNCHANGED <<now, stored, checkout, progress, patchFaults>>
     \/ /\ PatchFault /\ \E r \in {"RECOVERABLE", "POLICY", "PERMANENT"} : Undo(r, FALSE)
        /\ UNCHANGED <<now, stored, checkout, progress>>

\* Mutant: the files that were to stay are not compared.
Bug_Complete(d) == ToChange \subseteq Changed(d)

\* The files of the diff against the plan.
Complete(d) == ToChange \subseteq Changed(d) /\ ToStay \cap Changed(d) = {}

\* The patch is applied to another checkout, and passes only when complete; it
\* may fail for what it contains.
Verdicts(d) == {r \in {"SUCCEEDED", "EVALUATION"} : r = "SUCCEEDED" => Complete(d)}

\* Or the two lists of changed files disagree.
Evaluate ==
  /\ At("evaluate")
  /\ \/ /\ returns' \in Verdicts(diff) /\ Enter("publish")
        /\ UNCHANGED <<now, stored, checkout, todo, progress, handling, patchFaults>>
     \/ /\ Complete(diff) /\ Undo("CONFIGURATION", FALSE)
        /\ UNCHANGED <<now, stored, checkout, progress, patchFaults>>

\* publish(): the content, and then the metadata.  An error of the content
\* store is none that execute() handles.
PutContent ==
  /\ At("publish")
  /\ \/ /\ content' = content \cup {now} /\ Enter("describe")
        /\ UNCHANGED <<now, result, undoing, artifact, checkout, locals, patchFaults>>
     \/ PatchFault /\ (Finish("escaped") \/ RaiseError("CONFIGURATION"))
          /\ UNCHANGED <<checkout, artifact, content>>

\* The PATCH of a judged diff.
PatchOf(judged, d) ==
  [state |-> IF judged = "SUCCEEDED" THEN "eligible" ELSE "rejected", diff |-> d]

\* A patch that passed ends the attempt; a rejected one is kept, and undone.
CreateMetadata ==
  /\ At("describe")
  /\ \/ /\ artifact' = [artifact EXCEPT ![now] = PatchOf(returns, diff)]
        /\ \/ returns = "SUCCEEDED" /\ Finish("SUCCEEDED") /\ UNCHANGED patchFaults
           \/ /\ returns # "SUCCEEDED" /\ Undo(returns, FALSE)
              /\ UNCHANGED <<now, result, undoing, progress, patchFaults>>
           \/ PatchFault /\ RaiseError("CONFIGURATION")
     \/ PatchFault /\ RaiseError("CONFIGURATION") /\ UNCHANGED artifact
  /\ UNCHANGED <<checkout, content>>

\* The process ends, and no attempt takes over what it leaves.
Stop ==
  /\ step # "over" /\ PatchFault /\ Enter("over")
  /\ UNCHANGED <<now, stored, checkout, locals>>

-----------------------------------------------------------------------------

PatchNext ==
  \/ Preflight \/ VerifyAtRevision \/ Propose \/ AgentFails \/ RejectProposal
  \/ RefuseEvidence \/ RejectOperations \/ Reconcile \/ Capture \/ Compare \/ Write
  \/ RecordWrite \/ Attach
  \/ Undone \/ Diff \/ Evaluate \/ PutContent \/ CreateMetadata \/ StoreFails \/ Stop
  \/ \E class \in {"CONFIGURATION", "POLICY"} : ReadFails(class)
  \/ \E p \in Editable :
       Read(p) \/ Reread(p) \/ UndoStep(p) \/ Unwrite(p) \/ RecordUndo(p) \/ Edit(p)

PatchSpec == PatchInit /\ [][PatchNext]_patchVars

-----------------------------------------------------------------------------
(* Properties.                                                             *)

FailureClasses == {"RECOVERABLE", "POLICY", "EVALUATION", "CONFIGURATION", "PERMANENT"}

PatchTypeOK ==
  /\ file \in [Editable -> Contents] /\ seen \in [Editable -> Contents]
       /\ diff \in [Editable -> Contents]
  /\ result \in [Attempts -> FailureClasses \cup {"none", "SUCCEEDED", "escaped"}]
  /\ undoing \in [Editable -> {"none", "PENDING", "SUCCEEDED", "FAILED"}]
  /\ FilesOf(changes) \subseteq Editable /\ FilesOf(applied) \subseteq Editable
  /\ todo \subseteq Editable /\ now \in Attempts /\ handling \in BOOLEAN
  /\ {preimage, current} \subseteq Contents /\ revived \subseteq Editable \X Attempts

\* An attempt that returns a failure has undone every change it had written, for
\* a failure of any change, record, diff, evaluation or rollback and with others
\* editing the same files (_rollback_applied_changes) - but for a file whose undo
\* was put back because its record was kept and failed all the same.  Torn is
\* what a failed write or restore leaves of a file, and is not covered.
FailureRestoresTree ==
  \A a \in Attempts : result[a] \in FailureClasses =>
    \A p \in Editable : file[p] = a => <<p, a>> \in revived

\* A patch that may be published has its content, answers its plan - required
\* files differ from the revision unless that met the criteria already, and
\* retained ones do not - and holds nothing that an earlier attempt or a failed
\* write has left in the workspace (reconcile_dispositions, evaluate_patch).
EligiblePatchIsOwn ==
  \A a \in Attempts : artifact[a].state = "eligible" =>
    /\ a \in content
    /\ Required \ Satisfied \subseteq Changed(artifact[a].diff)
    /\ Retained \cap Changed(artifact[a].diff) = {}
    /\ \A p \in Editable : artifact[a].diff[p] \in {Base, Foreign, a}

\* The file of the filesystem invocation under way, once it has compared.
Operating(p) ==
  \/ step \in {"write", "record"} /\ p = Head(changes)
  \/ step \in {"unwrite", "undone"} /\ LastApplied(p)

\* A file that somebody else has edited is overwritten only by an invocation
\* whose comparison came before that edit, and only its own file, or by the
\* clause that puts nothing back after an error before the comparison
\* (compare_write, compare_delete, _restore_preimage).
ForeignEditsKept ==
  [][\A p \in Editable :
       file[p] = Foreign /\ file'[p] # Foreign /\ edits' = edits =>
         \/ Operating(p) /\ current # Foreign
         \/ step \in {"compare", "undo"} /\ file'[p] = Torn]_patchVars
=============================================================================
