--------------------------- MODULE TaskHandlerProofs ---------------------------
(***************************************************************************)
(* Theorems about what the handlers of a workflow's Tasks do, for any      *)
(* number of files, attempts, calls and commands: the validation in a      *)
(* container, the application of a patch, and the chain of evidence that   *)
(* leads to acceptance.  The three parts share nothing but this module.    *)
(***************************************************************************)
EXTENDS DockerValidation, PatchApplication, EvidenceChain, FiniteSetTheorems, TLAPS

(***************************************************************************)
(* Docker validation: one call owns the container, and what it settles     *)
(* is what every caller gets.                                              *)
(***************************************************************************)

\* The call that created the record, until it has settled it.
Owner(c) == callAt[c] \in {"start", "create", "probe", "run", "stop", "clean", "settle"}

\* Nobody but the owner touches the container, and there is one owner at most.
OneOwner == \A c, d \in Calls : Owner(c) /\ Owner(d) => c = d

\* Before the record exists, and before its result does.
NotYet ==
  /\ toolCall.status = "none" =>
       ~ container /\ ~ running /\ \A c \in Calls : ~ Owner(c) /\ callAt[c] # "wait"
  /\ ~ OnRecord => toolCall.result = NoResult
  /\ \A c \in Calls : callAt[c] \in {"start", "create"} => ~ container /\ ~ running

\* A result is settled after the container was removed, unless its class says
\* that it may not have been; and the owner that settled one is done.
SettledTidy ==
  /\ \A c \in Calls : callAt[c] = "settle" /\ got[c].class \in Tidy => ~ container /\ ~ running
  /\ toolCall.result.class \in Tidy => \A c \in Calls : ~ Owner(c)

DockerInv ==
  /\ DockerTypeOK /\ CallersAgree /\ DoneLeavesNothing
  /\ OneOwner /\ NotYet /\ SettledTidy

LEMMA ResultType ==
  \A class \in ResultClasses \cup {"none"} : \A n \in 0..Commands :
    /\ [class |-> class, passed |-> n] \in ToolResults
    /\ [class |-> class, passed |-> n].class = class
BY DEF ToolResults

LEMMA ResultParts ==
  \A r \in ToolResults : r.class \in ResultClasses \cup {"none"} /\ r.passed \in 0..Commands
BY DEF ToolResults

LEMMA NoResultType == NoResult \in ToolResults /\ NoResult.class \notin Tidy
BY ResultType, CommandsAssumption DEF NoResult, Tidy

\* What the steps that come to a result change.
LEMMA GotFacts ==
  ASSUME NEW c \in Calls, NEW class \in ResultClasses \cup {"none"}, NEW n \in 0..Commands,
         got \in [Calls -> ToolResults], Got(c, class, n)
  PROVE  /\ got' \in [Calls -> ToolResults]
         /\ got'[c].class = class
         /\ \A d \in Calls \ {c} : got'[d] = got[d]
BY ResultType DEF Got

LEMMA AnswerFacts ==
  ASSUME NEW c \in Calls, NEW r \in ToolResults, DockerTypeOK, Answer(c, r)
  PROVE  /\ got' \in [Calls -> ToolResults] /\ got'[c] = r
         /\ callAt'[c] = "returned"
         /\ \A d \in Calls \ {c} : got'[d] = got[d] /\ callAt'[d] = callAt[d]
BY DEF DockerTypeOK, Answer, CallGoes

LEMMA DockerStarts == DockerInit => DockerInv
<1> SUFFICES ASSUME DockerInit PROVE DockerInv
  OBVIOUS
<1>1. DockerTypeOK
  BY NoResultType DEF DockerInit, DockerTypeOK
<1>2. CallersAgree /\ OneOwner
  BY DEF DockerInit, CallersAgree, OneOwner, Owner
<1>3. NotYet
  BY DEF DockerInit, NotYet, Owner, OnRecord
<1>4. DoneLeavesNothing /\ SettledTidy
  BY NoResultType DEF DockerInit, DoneLeavesNothing, SettledTidy
<1> QED
  BY <1>1, <1>2, <1>3, <1>4 DEF DockerInv

\* The owner works on the container and comes to a place of its own; what it
\* has to show is that it settles a tidy result with nothing left.
LEMMA OwnerStep ==
  ASSUME DockerInv, NEW c \in Calls, Owner(c), UNCHANGED toolCall,
         NEW place \in {"create", "probe", "run", "stop", "clean", "settle"},
         CallGoes(c, place), place = "create" => ~ container' /\ ~ running',
         container' \in BOOLEAN, running' \in BOOLEAN,
         got' \in [Calls -> ToolResults], \A d \in Calls \ {c} : got'[d] = got[d],
         place = "settle" /\ got'[c].class \in Tidy => ~ container' /\ ~ running'
  PROVE  DockerInv'
<1>1. /\ callAt' \in [Calls -> {"idle", "wait", "start", "create", "probe", "run", "stop",
                               "clean", "settle", "returned", "dead"}]
      /\ callAt'[c] = place /\ \A d \in Calls \ {c} : callAt'[d] = callAt[d]
  BY DEF CallGoes, DockerInv, DockerTypeOK
<1>2. /\ toolCall.status # "none" /\ toolCall.result.class \notin Tidy
      /\ \A d \in Calls \ {c} : ~ Owner(d)
  BY DEF DockerInv, NotYet, SettledTidy, OneOwner
<1>3. Owner(c)' /\ \A d \in Calls \ {c} : ~ Owner(d)'
  BY <1>1, <1>2 DEF Owner
<1>4. DockerTypeOK'
  BY <1>1 DEF DockerInv, DockerTypeOK
<1>5. CallersAgree'
  BY <1>1 DEF DockerInv, CallersAgree, OnRecord
<1>6. DoneLeavesNothing' /\ OneOwner'
  BY <1>2, <1>3 DEF DoneLeavesNothing, OneOwner
<1>7. NotYet'
  BY <1>1, <1>2, <1>3 DEF DockerInv, NotYet, OnRecord, Owner
<1>8. SettledTidy'
  BY <1>1, <1>2, <1>3 DEF DockerInv, SettledTidy, Owner
<1> QED
  BY <1>4, <1>5, <1>6, <1>7, <1>8 DEF DockerInv

\* A call that gives up on the owner, or settles, writes the result of a pending
\* invocation and nobody else's.
LEMMA PersistStep ==
  ASSUME DockerInv, NEW c \in Calls, callAt[c] \in {"wait", "settle"}, NEW r \in ToolResults,
         Persist(c, r),
         r.class \in Tidy => callAt[c] = "settle" /\ ~ container /\ ~ running,
         UNCHANGED <<container, running>>
  PROVE  DockerInv'
<1> USE NoResultType
<1>1. CASE toolCall.status = "PENDING"
  <2>1. /\ toolCall'.status \in {"SUCCEEDED", "FAILED"} /\ toolCall'.result = r
        /\ toolCall' \in [status : {"none", "PENDING", "SUCCEEDED", "FAILED"},
                          result : ToolResults]
    BY <1>1 DEF Persist, StatusFor
  <2>2. /\ got' \in [Calls -> ToolResults] /\ got'[c] = r /\ callAt'[c] = "returned"
        /\ \A d \in Calls \ {c} : got'[d] = got[d] /\ callAt'[d] = callAt[d]
    BY <1>1, AnswerFacts DEF Persist, DockerInv
  <2>3. DockerTypeOK'
    BY <1>1, <2>1, <2>2 DEF DockerInv, DockerTypeOK, Persist, Answer, CallGoes
  <2>4. \A d \in Calls \ {c} : callAt[d] # "returned"
    BY <1>1 DEF DockerInv, CallersAgree, OnRecord
  <2>5. CallersAgree'
    BY <2>1, <2>2, <2>4 DEF CallersAgree, OnRecord
  <2>6. OneOwner' /\ DoneLeavesNothing'
    BY <2>1, <2>2 DEF DockerInv, OneOwner, Owner, DoneLeavesNothing
  <2>7. NotYet'
    BY <2>1, <2>2 DEF DockerInv, NotYet, OnRecord
  <2>8. SettledTidy'
    BY <2>1, <2>2 DEF DockerInv, SettledTidy, OneOwner, Owner
  <2> QED
    BY <2>3, <2>5, <2>6, <2>7, <2>8 DEF DockerInv
<1>2. CASE toolCall.status # "PENDING"
  <2>0. toolCall.result \in ToolResults /\ UNCHANGED toolCall
    BY <1>2 DEF DockerInv, DockerTypeOK, Persist
  <2>1. /\ got' \in [Calls -> ToolResults] /\ got'[c] = toolCall.result
        /\ callAt'[c] = "returned"
        /\ \A d \in Calls \ {c} : got'[d] = got[d] /\ callAt'[d] = callAt[d]
    BY <1>2, <2>0, AnswerFacts DEF Persist, DockerInv
  <2>2. DockerTypeOK'
    BY <1>2, <2>0, <2>1 DEF DockerInv, DockerTypeOK, Persist, Answer, CallGoes
  <2>3. toolCall.status # "none"
    BY DEF DockerInv, NotYet, Owner
  <2>4. CallersAgree'
    BY <1>2, <2>0, <2>1, <2>3 DEF DockerInv, DockerTypeOK, CallersAgree, OnRecord
  <2>5. OneOwner' /\ DoneLeavesNothing' /\ NotYet' /\ SettledTidy'
    BY <2>0, <2>1, <2>3 DEF DockerInv, OneOwner, Owner, DoneLeavesNothing, NotYet, SettledTidy,
       OnRecord
  <2> QED
    BY <2>2, <2>4, <2>5 DEF DockerInv
<1> QED
  BY <1>1, <1>2

\* Every step keeps the invariant.
LEMMA DockerSteps == DockerInv /\ [DockerNext]_dockerVars => DockerInv'
<1> SUFFICES ASSUME DockerInv, [DockerNext]_dockerVars PROVE DockerInv'
  OBVIOUS
<1> USE NoResultType
<1>0. /\ container \in BOOLEAN /\ running \in BOOLEAN /\ got \in [Calls -> ToolResults]
      /\ 0 \in 0..Commands /\ Commands \in 0..Commands
  BY CommandsAssumption DEF DockerInv, DockerTypeOK
<1>1. ASSUME NEW c \in Calls, Book(c) PROVE DockerInv'
  BY <1>1 DEF Book, CallGoes, Answer, DockerInv, DockerTypeOK, CallersAgree, DoneLeavesNothing,
     OneOwner, NotYet, SettledTidy, Owner, OnRecord
<1>2. ASSUME NEW c \in Calls, SettleCall(c) PROVE DockerInv'
  <2>1. got[c] \in ToolResults /\ callAt[c] = "settle" /\ UNCHANGED <<container, running>>
    BY <1>0, <1>2 DEF SettleCall
  <2>2. got[c].class \in Tidy => ~ container /\ ~ running
    BY <2>1 DEF DockerInv, SettledTidy
  <2> QED
    BY <1>2, <2>1, <2>2, PersistStep DEF SettleCall
<1>3. ASSUME NEW c \in Calls, AwaitCall(c) PROVE DockerInv'
  <2> DEFINE late == [class |-> "TIMED_OUT", passed |-> 0]
  <2>1. late \in ToolResults /\ late.class = "TIMED_OUT"
    BY <1>0, ResultType DEF ResultClasses
  <2>2. late.class \notin Tidy
    BY <2>1 DEF Tidy
  <2> QED
    BY <1>3, <2>1, <2>2, PersistStep DEF AwaitCall
<1>4. ASSUME NEW c \in Calls, LoseCall(c) PROVE DockerInv'
  BY <1>4 DEF LoseCall, CallGoes, DockerInv, DockerTypeOK, CallersAgree, DoneLeavesNothing,
     OneOwner, NotYet, SettledTidy, Owner, OnRecord
<1>5. ASSUME NEW c \in Calls, StartContainer(c) PROVE DockerInv'
  <2>1. Owner(c) /\ UNCHANGED <<toolCall, running>> /\ ~ container /\ ~ running
    BY <1>5 DEF StartContainer, Owner, DockerInv, NotYet
  <2>2. CASE container' = TRUE /\ CallGoes(c, "probe") /\ UNCHANGED got
    BY <1>0, <2>1, <2>2, OwnerStep
  <2>3. CASE container' \in BOOLEAN /\ CallGoes(c, "settle") /\ Got(c, "STARTUP", 0)
    <3>1. /\ got' \in [Calls -> ToolResults] /\ got'[c].class = "STARTUP"
          /\ \A d \in Calls \ {c} : got'[d] = got[d]
      BY <1>0, <2>3, GotFacts DEF ResultClasses
    <3> QED
      BY <1>0, <2>1, <2>3, <3>1, OwnerStep DEF Tidy
  <2> QED
    BY <1>5, <2>2, <2>3 DEF StartContainer
<1>12. ASSUME NEW c \in Calls, Authorize(c) PROVE DockerInv'
  <2>1. Owner(c) /\ UNCHANGED <<toolCall, container, running>> /\ ~ container /\ ~ running
    BY <1>12 DEF Authorize, Owner, DockerInv, NotYet
  <2>2. CASE CallGoes(c, "create") /\ UNCHANGED got
    BY <1>0, <2>1, <2>2, OwnerStep
  <2>3. ASSUME NEW class \in {"DENIED", "STARTUP"}, CallGoes(c, "settle"), Got(c, class, 0)
        PROVE  DockerInv'
    <3>1. /\ got' \in [Calls -> ToolResults] /\ got'[c].class = class
          /\ \A d \in Calls \ {c} : got'[d] = got[d]
      BY <1>0, <2>3, GotFacts DEF ResultClasses
    <3> QED
      BY <1>0, <2>1, <2>3, <3>1, OwnerStep DEF Tidy
  <2> QED
    BY <1>12, <2>2, <2>3 DEF Authorize
<1>6. ASSUME NEW c \in Calls, Probe(c) PROVE DockerInv'
  <2>1. Owner(c) /\ UNCHANGED <<toolCall, container, running>>
    BY <1>6 DEF Probe, Owner
  <2>2. CASE CallGoes(c, "run") /\ UNCHANGED got
    BY <1>0, <2>1, <2>2, OwnerStep
  <2>3. ASSUME NEW class \in {"UNREADY", "ADAPTER", "INCOMPLETE"},
               NEW place \in {"stop", "clean"}, CallGoes(c, place), Got(c, class, 0)
        PROVE  DockerInv'
    <3>1. got' \in [Calls -> ToolResults] /\ \A d \in Calls \ {c} : got'[d] = got[d]
      BY <1>0, <2>3, GotFacts DEF ResultClasses
    <3> QED
      BY <1>0, <2>1, <2>3, <3>1, OwnerStep
  <2> QED
    BY <1>6, <2>2, <2>3 DEF Probe
<1>7. ASSUME NEW c \in Calls, StartCommand(c) PROVE DockerInv'
  BY <1>7 DEF StartCommand, DockerInv, DockerTypeOK, CallersAgree, DoneLeavesNothing, OneOwner,
     NotYet, SettledTidy, Owner, OnRecord
<1>8. ASSUME NEW c \in Calls, EndCommand(c) PROVE DockerInv'
  <2> DEFINE passed == got[c].passed
  <2>1. /\ Owner(c) /\ callAt[c] = "run" /\ UNCHANGED <<toolCall, container>>
        /\ running' \in BOOLEAN /\ passed \in 0..Commands
    BY <1>0, <1>8, ResultParts DEF EndCommand, Owner
  <2>2. ASSUME NEW class \in ResultClasses \cup {"none"}, NEW n \in 0..Commands,
               NEW place \in {"run", "stop", "clean"}, Got(c, class, n), CallGoes(c, place)
        PROVE  DockerInv'
    <3>1. got' \in [Calls -> ToolResults] /\ \A d \in Calls \ {c} : got'[d] = got[d]
      BY <1>0, <2>2, GotFacts
    <3> QED
      BY <1>0, <2>1, <2>2, <3>1, OwnerStep
  <2>3. CASE passed + 1 < Commands /\ Got(c, "none", passed + 1) /\ UNCHANGED callAt
    <3>1. CallGoes(c, "run")
      BY <2>1, <2>3 DEF CallGoes, DockerInv, DockerTypeOK
    <3>2. passed + 1 \in 0..Commands
      BY <2>1, <2>3, CommandsAssumption
    <3> QED
      BY <2>2, <2>3, <3>1, <3>2
  <2>4. CASE Got(c, "SUCCEEDED", Commands) /\ CallGoes(c, "clean")
    BY <1>0, <2>2, <2>4 DEF ResultClasses
  <2>5. CASE Got(c, "NONZERO", passed) /\ CallGoes(c, "clean")
    BY <2>1, <2>2, <2>5 DEF ResultClasses
  <2>6. CASE Got(c, "TIMED_OUT", passed) /\ CallGoes(c, "stop")
    BY <2>1, <2>2, <2>6 DEF ResultClasses
  <2>7. CASE Got(c, "ADAPTER", 0) /\ CallGoes(c, "clean")
    BY <1>0, <2>2, <2>7 DEF ResultClasses
  <2> QED
    BY <1>8, <2>3, <2>4, <2>5, <2>6, <2>7 DEF EndCommand
<1>9. ASSUME NEW c \in Calls, StopContainer(c) PROVE DockerInv'
  <2>1. Owner(c) /\ UNCHANGED <<toolCall, container, got>> /\ running' \in BOOLEAN
    BY <1>0, <1>9 DEF StopContainer, Owner
  <2> QED
    BY <1>0, <1>9, <2>1, OwnerStep DEF StopContainer
<1>10. ASSUME NEW c \in Calls, RemoveContainer(c) PROVE DockerInv'
  <2>1. Owner(c) /\ UNCHANGED toolCall /\ CallGoes(c, "settle")
    BY <1>10 DEF RemoveContainer, Owner
  <2>2. CASE container' = FALSE /\ running' = FALSE /\ UNCHANGED got
    BY <1>0, <2>1, <2>2, OwnerStep
  <2>3. CASE CleanupFailed(c) /\ UNCHANGED <<container, running>>
    <3>1. got[c].passed \in 0..Commands
      BY <1>0, ResultParts
    <3>2. /\ got' \in [Calls -> ToolResults] /\ got'[c].class = "ADAPTER"
          /\ \A d \in Calls \ {c} : got'[d] = got[d]
      BY <2>3, <3>1, <1>0, GotFacts DEF CleanupFailed, ResultClasses
    <3> QED
      BY <1>0, <2>1, <2>3, <3>2, OwnerStep DEF Tidy
  <2> QED
    BY <1>10, <2>2, <2>3 DEF RemoveContainer
<1>11. CASE UNCHANGED dockerVars
  BY <1>11 DEF dockerVars, DockerInv, DockerTypeOK, CallersAgree, DoneLeavesNothing, OneOwner,
     NotYet, SettledTidy, Owner, OnRecord
<1> QED
  BY <1>1, <1>2, <1>3, <1>4, <1>5, <1>6, <1>7, <1>8, <1>9, <1>10, <1>11, <1>12 DEF DockerNext

\* The variables keep to the values the code gives them.
THEOREM DockerTypes == DockerSpec => []DockerTypeOK
<1>1. DockerInv => DockerTypeOK
  BY DEF DockerInv
<1> QED
  BY <1>1, DockerStarts, DockerSteps, PTL DEF DockerSpec

\* Whoever calls invoke() with one invocation id gets the result on record,
\* however many call, give up on each other or die.
THEOREM CallersAgreement == DockerSpec => []CallersAgree
<1>1. DockerInv => CallersAgree
  BY DEF DockerInv
<1> QED
  BY <1>1, DockerStarts, DockerSteps, PTL DEF DockerSpec

\* A validation on record as done has left no container and no command behind.
THEOREM DoneIsTidy == DockerSpec => []DoneLeavesNothing
<1>1. DockerInv => DoneLeavesNothing
  BY DEF DockerInv
<1> QED
  BY <1>1, DockerStarts, DockerSteps, PTL DEF DockerSpec

-----------------------------------------------------------------------------
(***************************************************************************)
(* The patch: files, applied changes, and what is published.               *)
(***************************************************************************)

Working == {"read", "verify", "propose", "reconcile", "reread", "apply", "compare", "write",
            "record", "attach", "evaluate", "publish", "describe"}
Undoing == {"undo", "unwrite", "undone"}
Publishing == {"evaluate", "publish", "describe"}
Planned == {"reread", "apply", "compare", "write", "record", "attach"} \cup Publishing

PatchTypes ==
  /\ file \in [Editable -> Contents] /\ seen \in [Editable -> Contents]
  /\ diff \in [Editable -> Contents]
  /\ result \in [Attempts -> FailureClasses \cup {"none", "SUCCEEDED", "escaped"}]
  /\ undoing \in [Editable -> {"none", "PENDING", "SUCCEEDED", "FAILED"}]
  /\ artifact \in [Attempts -> [state : {"none", "eligible", "rejected"},
                                diff : [Editable -> Contents]]]
  /\ content \subseteq Attempts
  /\ changes \in Seq(Editable) /\ applied \in Seq(Editable)
  /\ todo \subseteq Editable /\ now \in Attempts /\ handling \in BOOLEAN
  /\ step \in Working \cup Undoing \cup {"preflight", "over"}
  /\ returns \in FailureClasses \cup {"none", "SUCCEEDED"}
  /\ revived \subseteq Editable \X Attempts

\* A file is changed once, so that it is not the attempt's before.
Once ==
  /\ \A i, j \in DOMAIN changes : i # j => changes[i] # changes[j]
  /\ FilesOf(changes) \cap FilesOf(applied) = {}

\* What the filesystem invocation under way has read.
Reads ==
  /\ preimage \in {Base, Foreign} /\ current \in {Base} \cup Attempts
  /\ step \in {"write", "record"} => current = Base
  /\ step = "unwrite" => current = now

\* What the place in execute() says of its locals and of the results.
Flow ==
  /\ handling => step \in Undoing \cup {"over"}
  /\ step # "over" => \A a \in Attempts : a >= now => result[a] = "none"
  /\ step \in Undoing => returns \in FailureClasses /\ todo \subseteq FilesOf(applied)
  /\ step \in Publishing => changes = << >>
  /\ step \in {"compare", "write", "record"} => changes # << >>
  /\ step \in {"publish", "describe"} => returns # "none"
  /\ step \in {"preflight", "read", "verify", "propose", "reconcile"} => applied = << >>
  /\ step \in Working \cup {"preflight"} =>
       \A p \in Editable : undoing[p] = "none"

\* Whatever this attempt has written is applied, is being recorded, is still to
\* be undone or was put back after it was undone on record, and no other attempt
\* that failed has left anything.
Tree ==
  \A p \in Editable :
    /\ file[p] \in Attempts => file[p] <= now
    /\ step = "preflight" => file[p] # now
    /\ step \in Working => file[p] \in {Base, Foreign, now}
    /\ step \in Working /\ file[p] = now =>
         p \in FilesOf(applied) \/ (step = "record" /\ p = Head(changes))
    /\ step \in Undoing /\ file[p] = now =>
         p \in FilesOf(applied) /\ (p \in todo \/ <<p, now>> \in revived)
    /\ undoing[p] = "SUCCEEDED" /\ file[p] = now => <<p, now>> \in revived
    /\ step = "undone" /\ LastApplied(p) => file[p] # now

\* What is evaluated holds nothing of others than this attempt, and answers the
\* plan once it has passed.
Judging ==
  /\ step \in Publishing => \A p \in Editable : diff[p] \in {Base, Foreign, now}
  /\ step \in Planned => PlanKept(FilesOf(changes) \cup FilesOf(applied))
  /\ step \in {"publish", "describe"} /\ returns = "SUCCEEDED" => Complete(diff)
  /\ step = "describe" => now \in content

PatchInv ==
  /\ PatchTypes /\ Flow /\ Once /\ Reads /\ Tree /\ Judging
  /\ FailureRestoresTree /\ EligiblePatchIsOwn

-----------------------------------------------------------------------------

LEMMA FilesAppend ==
  ASSUME NEW S, NEW s \in Seq(S), NEW x \in S
  PROVE  FilesOf(Append(s, x)) = FilesOf(s) \cup {x}
<1> DEFINE r == Append(s, x)
<1>1. Len(s) \in Nat /\ DOMAIN r = 1..Len(s) + 1 /\ DOMAIN s = 1..Len(s)
  OBVIOUS
<1>2. \A i \in DOMAIN r : r[i] = IF i \in DOMAIN s THEN s[i] ELSE x
  BY <1>1
<1>3. Len(s) + 1 \in DOMAIN r /\ Len(s) + 1 \notin DOMAIN s
  BY <1>1
<1>4. \A i \in DOMAIN s : i \in DOMAIN r
  BY <1>1
<1> HIDE DEF r
<1>5. FilesOf(r) = FilesOf(s) \cup {x}
  BY <1>2, <1>3, <1>4 DEF FilesOf
<1> QED BY <1>5 DEF r

LEMMA FilesTail ==
  ASSUME NEW S, NEW s \in Seq(S), s # << >>
  PROVE  FilesOf(s) = {Head(s)} \cup FilesOf(Tail(s))
<1>1. Head(s) = s[1] /\ Len(s) \in Nat /\ Len(s) >= 1 /\ Len(Tail(s)) = Len(s) - 1
  OBVIOUS
<1>2. ASSUME NEW i \in DOMAIN s
      PROVE  s[i] \in {Head(s)} \cup FilesOf(Tail(s))
  <2>1. CASE i = 1
    BY <1>1, <2>1
  <2>2. CASE i # 1
    <3>1. i - 1 \in DOMAIN Tail(s) /\ Tail(s)[i - 1] = s[i]
      BY <1>1, <1>2, <2>2
    <3> QED BY <3>1 DEF FilesOf
  <2> QED BY <2>1, <2>2
<1>3. ASSUME NEW i \in DOMAIN Tail(s)
      PROVE  Tail(s)[i] \in FilesOf(s)
  <2>1. i + 1 \in DOMAIN s /\ s[i + 1] = Tail(s)[i]
    BY <1>1, <1>3
  <2> QED BY <2>1 DEF FilesOf
<1>4. Head(s) \in FilesOf(s)
  <2>1. 1 \in DOMAIN s
    BY <1>1
  <2> QED BY <1>1, <2>1 DEF FilesOf
<1> QED BY <1>2, <1>3, <1>4 DEF FilesOf

LEMMA FilesEmpty == FilesOf(<< >>) = {}
  BY DEF FilesOf

LEMMA FilesWithin ==
  ASSUME NEW S, NEW s \in Seq(S)
  PROVE  FilesOf(s) \subseteq S
  BY DEF FilesOf

LEMMA HeadIn ==
  ASSUME NEW S, NEW s \in Seq(S), s # << >>
  PROVE  Head(s) \in S /\ Tail(s) \in Seq(S)
  OBVIOUS

\* The change that is undone next is one.
LEMMA OneLastApplied ==
  ASSUME PatchTypes, NEW p, NEW q, LastApplied(p), LastApplied(q)
  PROVE  p = q
<1>1. PICK i \in DOMAIN applied : applied[i] = p
                                  /\ \A j \in DOMAIN applied : applied[j] \in todo => j <= i
  BY DEF LastApplied
<1>2. PICK j \in DOMAIN applied : applied[j] = q
                                  /\ \A k \in DOMAIN applied : applied[k] \in todo => k <= j
  BY DEF LastApplied
<1>3. p \in todo /\ q \in todo
  BY DEF LastApplied
<1>4. i <= j /\ j <= i
  BY <1>1, <1>2, <1>3
<1>5. i \in Nat /\ j \in Nat
  BY <1>1, <1>2 DEF PatchTypes
<1> QED BY <1>1, <1>2, <1>4, <1>5

LEMMA AttemptsAreNumbers ==
  /\ MaxPatches \in Nat /\ 1 <= MaxPatches
  /\ \A a \in Attempts : a \in Nat /\ 1 <= a /\ a <= MaxPatches
  /\ Base \notin Attempts /\ Torn \notin Attempts /\ Foreign \notin Attempts
  /\ Base # Torn /\ Base # Foreign /\ Torn # Foreign
  BY PatchAssumption DEF Attempts, Base, Torn, Foreign

-----------------------------------------------------------------------------
(* What the moves that end an attempt keep.                                *)

\* A file that changes is no longer this attempt's, or it is a change that is
\* brought back and still applied.
Leaves(p) ==
  \/ file'[p] = file[p] \/ file'[p] \in {Base, Torn, Foreign}
  \/ file'[p] = now /\ p \in FilesOf(applied)

Ends ==
  /\ file' \in [Editable -> Contents] /\ \A p \in Editable : Leaves(p)
  /\ revived \subseteq revived' /\ revived' \subseteq Editable \X Attempts
  /\ artifact' \in [Attempts -> [state : {"none", "eligible", "rejected"},
                                 diff : [Editable -> Contents]]]
  /\ content' \subseteq Attempts /\ EligiblePatchIsOwn'

LEMMA UndoKeeps ==
  ASSUME PatchInv, step # "over", Ends, NEW r \in FailureClasses, NEW clause \in BOOLEAN,
         Undo(r, clause), UNCHANGED <<now, result, progress>>,
         undoing' \in [Editable -> {"none", "PENDING", "SUCCEEDED", "FAILED"}],
         \A p \in Editable : undoing'[p] = "SUCCEEDED" /\ file'[p] = now =>
                               <<p, now>> \in revived',
         \A p \in Editable : file[p] = now /\ file'[p] = now => p \in FilesOf(applied)
  PROVE  PatchInv'
<1> USE AttemptsAreNumbers
<1>1. /\ todo' = FilesOf(applied) /\ step' = "undo" /\ returns' = r /\ handling' = clause
      /\ now' = now /\ result' = result /\ seen' = seen /\ changes' = changes
      /\ applied' = applied /\ diff' = diff /\ preimage' = preimage /\ current' = current
  BY DEF Undo, Enter, FilesOf, progress
<1>9. Once' /\ Reads'
  BY <1>1 DEF PatchInv, Once, Reads, FilesOf
<1>2. FilesOf(applied) \subseteq Editable
  BY FilesWithin DEF PatchInv, PatchTypes
<1>3. PatchTypes'
  BY <1>1, <1>2 DEF PatchInv, PatchTypes, Ends, Undoing
<1>4. Flow'
  BY <1>1 DEF PatchInv, Flow, Undoing, Working, Publishing, FilesOf
<1>5. \A p \in Editable : file'[p] = now => p \in FilesOf(applied)
  <2>1. now # Base /\ now # Torn /\ now # Foreign
    BY DEF PatchInv, PatchTypes
  <2> QED BY <2>1 DEF Ends, Leaves
<1>6. Tree'
  <2> SUFFICES ASSUME NEW p \in Editable
               PROVE  /\ file'[p] \in Attempts => file'[p] <= now
                      /\ file'[p] = now => p \in FilesOf(applied) /\ p \in todo'
                      /\ undoing'[p] = "SUCCEEDED" /\ file'[p] = now =>
                           <<p, now>> \in revived'
    BY <1>1 DEF Tree, Working, Undoing
  <2>1. Leaves(p)
    BY DEF Ends
  <2> QED BY <1>1, <1>5, <2>1 DEF Leaves, PatchInv, Tree, PatchTypes
<1>7. Judging'
  BY <1>1 DEF Judging, Publishing, Planned
<1>8. FailureRestoresTree'
  <2> SUFFICES ASSUME NEW a \in Attempts, result[a] \in FailureClasses, NEW p \in Editable,
                      file'[p] = a
               PROVE  <<p, a>> \in revived'
    BY <1>1 DEF FailureRestoresTree
  <2>1. a # now
    <3>1. now \in Attempts /\ now >= now
      BY DEF PatchInv, PatchTypes
    <3>2. result[now] = "none"
      BY <3>1 DEF PatchInv, Flow
    <3> QED BY <3>2 DEF FailureClasses
  <2>2. file[p] = a
    BY <2>1 DEF Ends, Leaves
  <2> QED BY <2>2 DEF PatchInv, FailureRestoresTree, Ends
<1> QED BY <1>3, <1>4, <1>6, <1>7, <1>8, <1>9 DEF PatchInv, Ends

LEMMA FinishKeeps ==
  ASSUME PatchInv, step # "over", Ends,
         NEW r \in FailureClasses \cup {"SUCCEEDED", "escaped"}, Finish(r),
         r \in FailureClasses => \A p \in Editable : file'[p] = now => <<p, now>> \in revived'
  PROVE  PatchInv'
<1> USE AttemptsAreNumbers
<1>1. PICK again \in BOOLEAN :
        /\ again => now < MaxPatches
        /\ result' = [result EXCEPT ![now] = r]
        /\ step' = (IF again THEN "preflight" ELSE "over")
        /\ now' = IF again THEN now + 1 ELSE now
        /\ undoing' = [p \in Editable |-> "none"]
        /\ todo' = {} /\ seen' = Untouched /\ diff' = Untouched
        /\ changes' = << >> /\ applied' = << >>
        /\ returns' = "none" /\ handling' = FALSE
        /\ preimage' = Base /\ current' = Base
  <2>1. (r \in {"RECOVERABLE", "escaped"} /\ now < MaxPatches) \in BOOLEAN
    OBVIOUS
  <2> QED BY <2>1 DEF Finish, Enter
<1>2. now \in Attempts /\ now' \in Attempts /\ now <= now'
  BY <1>1 DEF PatchInv, PatchTypes, Attempts
<1>3. PatchTypes'
  <2>1. Untouched \in [Editable -> Contents]
    BY DEF Untouched, Contents
  <2>2. result' \in [Attempts -> FailureClasses \cup {"none", "SUCCEEDED", "escaped"}]
    BY <1>1 DEF PatchInv, PatchTypes
  <2>3. undoing' \in [Editable -> {"none", "PENDING", "SUCCEEDED", "FAILED"}]
    BY <1>1
  <2>4. changes' \in Seq(Editable) /\ applied' \in Seq(Editable)
    BY <1>1
  <2>5. step' \in {"preflight", "over"} /\ returns' = "none" /\ handling' = FALSE /\ todo' = {}
    BY <1>1
  <2>6. seen' \in [Editable -> Contents] /\ diff' \in [Editable -> Contents]
    BY <1>1, <2>1
  <2> QED BY <1>2, <2>2, <2>3, <2>4, <2>5, <2>6 DEF PatchTypes, Ends
<1>4. Flow'
  <2>1. step' # "over" => \A a \in Attempts : a >= now' => result'[a] = "none"
    <3> SUFFICES ASSUME step' # "over", NEW a \in Attempts, a >= now'
                 PROVE  result'[a] = "none"
      OBVIOUS
    <3>1. a >= now /\ a # now
      BY <1>1, <1>2
    <3> QED BY <1>1, <3>1 DEF PatchInv, Flow, PatchTypes
  <2> QED BY <1>1, <2>1 DEF Flow, Working, Undoing, Publishing
<1>5. \A p \in Editable : file'[p] \in Attempts => file'[p] <= now
  <2> SUFFICES ASSUME NEW p \in Editable, file'[p] \in Attempts
               PROVE  file'[p] <= now
    OBVIOUS
  <2>1. Leaves(p)
    BY DEF Ends
  <2>2. file[p] \in Attempts => file[p] <= now
    BY DEF PatchInv, Tree
  <2> QED BY <1>2, <2>1, <2>2 DEF Leaves
<1>6. Tree'
  <2> SUFFICES ASSUME NEW p \in Editable
               PROVE  /\ file'[p] \in Attempts => file'[p] <= now'
                      /\ step' = "preflight" => file'[p] # now'
    BY <1>1 DEF Tree, Working, Undoing
  <2>1. file'[p] \in Attempts => file'[p] \in Nat /\ file'[p] <= now
    BY <1>5
  <2> QED BY <1>1, <1>2, <2>1
<1>7. Judging'
  BY <1>1 DEF Judging, Publishing, Planned
<1>9. Once' /\ Reads'
  <2>1. DOMAIN changes' = {} /\ step' \in {"preflight", "over"}
    BY <1>1
  <2> QED BY <1>1, <2>1 DEF Once, Reads, FilesOf
<1>8. FailureRestoresTree'
  <2> SUFFICES ASSUME NEW a \in Attempts, result'[a] \in FailureClasses, NEW p \in Editable,
                      file'[p] = a
               PROVE  <<p, a>> \in revived'
    BY DEF FailureRestoresTree
  <2>1. CASE a = now
    BY <1>1, <2>1 DEF PatchInv, PatchTypes
  <2>2. CASE a # now
    <3>1. result[a] \in FailureClasses
      BY <1>1, <2>2 DEF PatchInv, PatchTypes
    <3>2. file[p] = a
      BY <2>2 DEF Ends, Leaves
    <3> QED BY <3>1, <3>2 DEF PatchInv, FailureRestoresTree, Ends
  <2> QED BY <2>1, <2>2
<1> QED BY <1>3, <1>4, <1>6, <1>7, <1>8, <1>9 DEF PatchInv, Ends

LEMMA RaiseKeeps ==
  ASSUME PatchInv, step # "over", Ends, NEW r \in FailureClasses, RaiseError(r),
         \A p \in Editable : file'[p] = now => file[p] = now /\ p \in FilesOf(applied)
  PROVE  PatchInv'
<1>1. CASE handling
  BY <1>1, FinishKeeps DEF RaiseError, FailureClasses
<1>2. CASE ~ handling
  <2>1. Undo(r, TRUE) /\ UNCHANGED <<now, result, undoing, progress>>
    BY <1>2 DEF RaiseError
  <2>2. undoing' = undoing
    BY <2>1
  <2>3. undoing' \in [Editable -> {"none", "PENDING", "SUCCEEDED", "FAILED"}]
    BY <2>2 DEF PatchInv, PatchTypes
  <2>4. \A p \in Editable : undoing'[p] = "SUCCEEDED" /\ file'[p] = now =>
                              <<p, now>> \in revived'
    BY <2>2 DEF PatchInv, Tree, Ends
  <2>5. UNCHANGED <<now, result, progress>>
    BY <2>1
  <2> QED BY <2>1, <2>3, <2>4, <2>5, UndoKeeps
<1> QED BY <1>1, <1>2 DEF PatchInv, PatchTypes

\* Where nothing that counts for a patch changes, its properties stay.
LEMMA EligibleKept ==
  ASSUME EligiblePatchIsOwn, UNCHANGED <<artifact, content>>
  PROVE  EligiblePatchIsOwn'
<1>1. artifact' = artifact /\ content' = content
  OBVIOUS
<1> QED BY <1>1 DEF EligiblePatchIsOwn, Changed

LEMMA EndsUntouched ==
  ASSUME PatchInv, UNCHANGED <<file, revived, artifact, content>>
  PROVE  Ends
<1>1. file' = file /\ revived' = revived /\ artifact' = artifact /\ content' = content
  OBVIOUS
<1> QED BY <1>1, EligibleKept DEF Ends, Leaves, PatchInv, PatchTypes

Early == {"preflight", "read", "verify", "propose", "reconcile"}

\* The moves on the way to a patch that write no file.
Works ==
  /\ step \in (Working \cup {"preflight"}) \ {"record"} /\ step' \in Working \ {"record"}
  /\ UNCHANGED <<file, revived, now, result, undoing, applied, handling, artifact>>
  /\ changes' = changes \/ Once'
  /\ \/ UNCHANGED <<preimage, current>> /\ step' # "write"
     \/ Reads'
  /\ content \subseteq content' /\ content' \subseteq Attempts
  /\ todo' \subseteq Editable /\ seen' \in [Editable -> Contents]
  /\ diff' \in [Editable -> Contents] /\ changes' \in Seq(Editable)
  /\ returns' \in FailureClasses \cup {"none", "SUCCEEDED"}
  /\ step = "preflight" => \A p \in Editable : file[p] = Base
  /\ step' \in Publishing => changes' = << >>
  /\ step' \in {"compare", "write"} => changes' # << >>
  /\ step' \in Early => step \in Early
  /\ step' \in {"publish", "describe"} => returns' # "none"

LEMMA WorkKeeps ==
  ASSUME PatchInv, Works, Judging'
  PROVE  PatchInv'
<1> USE AttemptsAreNumbers
<1>1. /\ file' = file /\ revived' = revived /\ now' = now /\ result' = result /\ undoing' = undoing
      /\ applied' = applied /\ handling' = handling /\ artifact' = artifact
  BY DEF Works
<1>2. step' \in Working /\ step' \notin Undoing /\ step' \notin {"record", "preflight", "over"}
  BY DEF Works, Working, Undoing
<1>3. step # "over" /\ step # "record" /\ step \in Working \cup {"preflight"}
  BY DEF Works, Working
<1>4. PatchTypes'
  BY <1>1, <1>2 DEF PatchInv, PatchTypes, Works
<1>5. Flow'
  BY <1>1, <1>2, <1>3 DEF PatchInv, Flow, Works, Working, Undoing, Early
<1>6. Tree'
  <2> SUFFICES ASSUME NEW p \in Editable
               PROVE  /\ file[p] \in Attempts => file[p] <= now
                      /\ file[p] \in {Base, Foreign, now}
                      /\ file[p] = now => p \in FilesOf(applied)
                      /\ undoing[p] = "SUCCEEDED" /\ file[p] = now => <<p, now>> \in revived
    BY <1>1, <1>2 DEF Tree, Undoing
  <2>1. step = "preflight" => file[p] = Base
    BY DEF Works
  <2>2. now # Base
    BY DEF PatchInv, PatchTypes
  <2> QED BY <1>3, <2>1, <2>2 DEF PatchInv, Tree
<1>7. FailureRestoresTree'
  BY <1>1 DEF PatchInv, FailureRestoresTree
<1>8. EligiblePatchIsOwn'
  <2> SUFFICES ASSUME NEW a \in Attempts, artifact[a].state = "eligible"
               PROVE  /\ a \in content'
                      /\ Required \ Satisfied \subseteq Changed(artifact[a].diff)
                      /\ Retained \cap Changed(artifact[a].diff) = {}
                      /\ \A p \in Editable : artifact[a].diff[p] \in {Base, Foreign, a}
    BY <1>1 DEF EligiblePatchIsOwn, Changed
  <2> QED BY DEF PatchInv, EligiblePatchIsOwn, Works
<1>9. Once'
  BY <1>1 DEF Works, PatchInv, Once, FilesOf
<1>10. Reads'
  BY <1>1, <1>2 DEF Works, PatchInv, Reads, Working
<1> QED BY <1>4, <1>5, <1>6, <1>7, <1>8, <1>9, <1>10 DEF PatchInv

-----------------------------------------------------------------------------
(* The actions.                                                            *)

LEMMA PreflightKeeps ==
  ASSUME PatchInv, Preflight
  PROVE  PatchInv'
<1>1. CASE (\A p \in Editable : AtRevision(file[p])) /\ todo' = Editable /\ Advance("read")
  <2>1. Judging'
    BY <1>1 DEF Advance, Enter, Judging, Publishing, Planned
  <2>2. Works
    BY <1>1 DEF Preflight, At, Advance, Enter, Works, Working, stored,
                checkout, progress, AtRevision,
                PatchInv, PatchTypes, Publishing, Early
  <2> QED BY <2>1, <2>2, WorkKeeps
<1>2. CASE RaiseError("CONFIGURATION") /\ Quietly
  <2>1. Ends
    BY <1>2, EndsUntouched DEF Quietly, checkout
  <2>2. \A p \in Editable : file[p] # now
    BY DEF Preflight, At, PatchInv, Tree
  <2>3. step # "over"
    BY DEF Preflight, At
  <2>4. \A p \in Editable : file'[p] # now
    BY <1>2, <2>2 DEF Quietly, checkout
  <2> QED BY <1>2, <2>1, <2>3, <2>4, RaiseKeeps DEF FailureClasses
<1> QED BY <1>1, <1>2 DEF Preflight

\* An error before anything is written, or after it is recorded.
LEMMA ErrorKeeps ==
  ASSUME PatchInv, NEW r \in FailureClasses, RaiseError(r),
         step \in (Working \cup {"preflight", "undo"}) \ {"record"},
         UNCHANGED <<file, revived, artifact, content>>
  PROVE  PatchInv'
<1>1. Ends
  BY EndsUntouched
<1>2. \A p \in Editable : file[p] = now => p \in FilesOf(applied)
  BY DEF PatchInv, Tree, Working, Undoing
<1>3. step # "over"
  BY DEF Working
<1> QED BY <1>1, <1>2, <1>3, RaiseKeeps

LEMMA StoreFailsKeeps ==
  ASSUME PatchInv, StoreFails
  PROVE  PatchInv'
  BY ErrorKeeps DEF StoreFails, At, FailureClasses, Working, checkout

LEMMA ReadFailsKeeps ==
  ASSUME PatchInv, NEW class \in FailureClasses, ReadFails(class)
  PROVE  PatchInv'
  BY ErrorKeeps DEF ReadFails, Working, checkout

LEMMA ReadKeeps ==
  ASSUME PatchInv, NEW p \in Editable, Read(p)
  PROVE  PatchInv'
<1>1. Judging'
  BY DEF Read, Enter, Judging, Publishing, Planned
<1>2. seen' \in [Editable -> Contents] /\ todo' \subseteq Editable
  BY DEF Read, PatchInv, PatchTypes
<1>3. Works
  BY <1>2 DEF Read, At, Enter, Works, Working, stored,
              checkout, progress, PatchInv, PatchTypes, Publishing,
              Early
<1> QED BY <1>1, <1>3, WorkKeeps

LEMMA VerifyKeeps ==
  ASSUME PatchInv, VerifyAtRevision
  PROVE  PatchInv'
<1>1. CASE UNCHANGED todo /\ Advance("propose")
  <2>1. Judging'
    BY <1>1 DEF Advance, Enter, Judging, Publishing, Planned
  <2>2. Works
    BY <1>1 DEF VerifyAtRevision, At, Advance, Enter, Works, Working, stored,
                checkout, progress, PatchInv,
                PatchTypes, Publishing, Early
  <2> QED BY <2>1, <2>2, WorkKeeps
<1>2. CASE RaiseError("CONFIGURATION") /\ Quietly
  BY <1>2, ErrorKeeps DEF VerifyAtRevision, At, Quietly, FailureClasses, Working, checkout
<1> QED BY <1>1, <1>2 DEF VerifyAtRevision

LEMMA ProposeKeeps ==
  ASSUME PatchInv, Propose
  PROVE  PatchInv'
<1>1. Judging'
  BY DEF Propose, Enter, Judging, Publishing, Planned
<1>2. changes' \in Seq(Editable)
  <2>1. changes' \in UNION {[1..n -> Editable] : n \in 0..Cardinality(Editable)}
    BY DEF Propose, Proposals
  <2>2. Cardinality(Editable) \in Nat
    BY PatchAssumption, FS_CardinalityType
  <2>3. PICK n \in 0..Cardinality(Editable) : changes' \in [1..n -> Editable]
    BY <2>1
  <2>4. n \in Nat
    BY <2>2, <2>3
  <2> QED BY <2>3, <2>4
<1>4. Once'
  <2>1. \A i, j \in DOMAIN changes' : i # j => changes'[i] # changes'[j]
    BY DEF Propose, Proposals
  <2>2. applied' = << >>
    BY DEF Propose, At, PatchInv, Flow
  <2> QED BY <2>1, <2>2, FilesEmpty DEF Once
<1>3. Works
  BY <1>2, <1>4 DEF Propose, At, Enter, Works, Working, stored,
                    checkout, progress, PatchInv, PatchTypes,
              Publishing, Early
<1> QED BY <1>1, <1>3, WorkKeeps

LEMMA RefusalsKeep ==
  ASSUME PatchInv, AgentFails \/ RejectProposal \/ RefuseEvidence \/ RejectOperations
  PROVE  PatchInv'
<1>1. PICK r \in FailureClasses : RaiseError(r)
  BY DEF AgentFails, RejectProposal, RefuseEvidence, RejectOperations, FailureClasses
<1>2. step \in {"propose", "verify"} /\ UNCHANGED <<file, revived, artifact, content>>
  BY DEF AgentFails, RejectProposal, RefuseEvidence, RejectOperations, At, Quietly, checkout
<1> QED BY <1>1, <1>2, ErrorKeeps DEF Working

LEMMA ReconcileKeeps ==
  ASSUME PatchInv, Reconcile
  PROVE  PatchInv'
<1>1. CASE PlanKept(FilesOf(changes)) /\ todo' = Editable /\ Advance("reread")
  <2>0. changes' = changes /\ applied' = applied /\ step' = "reread" /\ step = "reconcile"
    BY <1>1 DEF Reconcile, At, Advance, Enter, progress
  <2>1. applied = << >>
    BY <2>0 DEF PatchInv, Flow
  <2>2. FilesOf(changes) \cup FilesOf(applied) = FilesOf(changes)
    BY <2>1, FilesEmpty
  <2>3. PlanKept(FilesOf(changes') \cup FilesOf(applied'))
    BY <1>1, <2>0, <2>2
  <2>4. Judging'
    BY <2>0, <2>3 DEF Judging, Publishing, Planned
  <2>5. Works
    BY <1>1, <2>0 DEF Advance, Works, Working, stored,
                      checkout, progress, PatchInv, PatchTypes, Publishing,
                      Early
  <2> QED BY <2>4, <2>5, WorkKeeps
<1>2. ASSUME NEW r \in {"EVALUATION", "CONFIGURATION"}, RaiseError(r), Quietly
      PROVE  PatchInv'
  BY <1>2, ErrorKeeps DEF Reconcile, At, Quietly, FailureClasses, Working, checkout
<1> QED BY <1>1, <1>2 DEF Reconcile

LEMMA RereadKeeps ==
  ASSUME PatchInv, NEW p \in Editable, Reread(p)
  PROVE  PatchInv'
<1>1. CASE todo' = todo \ {p} /\ Advance(IF todo = {p} THEN "apply" ELSE "reread")
  <2>1. /\ changes' = changes /\ applied' = applied /\ step' \in {"reread", "apply"}
        /\ step = "reread"
    BY <1>1 DEF Reread, At, Advance, Enter, progress
  <2>2. Judging'
    BY <2>1 DEF PatchInv, Judging, Publishing, Planned
  <2>3. Works
    BY <1>1, <2>1 DEF Advance, Works, Working, stored,
                      checkout, progress, PatchInv, PatchTypes, Publishing,
                      Early
  <2> QED BY <2>2, <2>3, WorkKeeps
<1>2. CASE RaiseError("CONFIGURATION") /\ Quietly
  BY <1>2, ErrorKeeps DEF Reread, At, Quietly, FailureClasses, Working, checkout
<1> QED BY <1>1, <1>2 DEF Reread

\* A change that is refused, or that fails and is put back or left torn.
LEMMA UndoHereKeeps ==
  ASSUME PatchInv, NEW r \in FailureClasses, Undo(r, FALSE), Ends,
         step \in (Working \cup {"preflight"}) \ {"record"},
         \A p \in Editable : file'[p] = now => file[p] = now,
         UNCHANGED <<now, result, undoing, progress>>
  PROVE  PatchInv'
<1>1. \A p \in Editable : file[p] = now => p \in FilesOf(applied)
  BY DEF PatchInv, Tree, Working
<1>2. step # "over"
  BY DEF Working
<1>3. undoing' = undoing /\ now' = now
  OBVIOUS
<1>4. undoing' \in [Editable -> {"none", "PENDING", "SUCCEEDED", "FAILED"}]
  BY <1>3 DEF PatchInv, PatchTypes
<1>5. \A p \in Editable : undoing'[p] = "SUCCEEDED" /\ file'[p] = now => <<p, now>> \in revived'
  BY <1>3 DEF PatchInv, Tree, Ends
<1>6. UNCHANGED <<now, result, progress>>
  OBVIOUS
<1> QED BY <1>1, <1>2, <1>4, <1>5, <1>6, UndoKeeps

\* A change that fails and leaves in its file what was there, nothing or what
\* its comparison has read.
LEMMA RefusalKeeps ==
  ASSUME PatchInv, NEW r \in FailureClasses, Refuse(r), step \in {"compare", "write"},
         NEW p \in Editable, NEW c \in Contents, c \in {Base, Torn, file[p]}, Put(p, c)
  PROVE  PatchInv'
<1> USE AttemptsAreNumbers
<1>1. /\ artifact' = artifact /\ content' = content /\ revived' = revived /\ now' = now
      /\ result' = result /\ undoing' = undoing /\ UNCHANGED progress /\ Undo(r, FALSE)
  BY DEF Refuse, stored
<1>2. now \in Attempts /\ file \in [Editable -> Contents]
  BY DEF PatchInv, PatchTypes
<1>3. /\ file' \in [Editable -> Contents]
      /\ \A q \in Editable : file'[q] = file[q] \/ file'[q] \in {Base, Torn}
  BY <1>2 DEF Put
<1>4. Ends
  BY <1>1, <1>3, EligibleKept DEF Ends, Leaves, PatchInv, PatchTypes
<1>5. \A q \in Editable : file'[q] = now => file[q] = now
  BY <1>2, <1>3
<1>6. UNCHANGED <<now, result, undoing, progress>>
  BY <1>1
<1>7. step \in (Working \cup {"preflight"}) \ {"record"}
  BY DEF Working
<1> QED BY <1>1, <1>4, <1>5, <1>6, <1>7, UndoHereKeeps

LEMMA UntouchedPut ==
  ASSUME PatchInv, NEW p \in Editable, UNCHANGED file
  PROVE  Put(p, file[p]) /\ file[p] \in Contents
  BY DEF Put, PatchInv, PatchTypes

\* What the filesystem invocation finds is neither torn nor this attempt's: a
\* file is changed once.
LEMMA CaptureKeeps ==
  ASSUME PatchInv, Capture
  PROVE  PatchInv'
<1> USE AttemptsAreNumbers
<1> DEFINE p == Head(changes)
<1>1. /\ step = "apply" /\ step' = "compare" /\ changes # << >> /\ preimage' = file[p]
      /\ changes' = changes /\ applied' = applied /\ now' = now /\ current' = current
      /\ p \in Editable
  BY HeadIn DEF Capture, At, Enter, PatchInv, PatchTypes
<1>2. file[p] \in {Base, Foreign}
  <2>1. p \in FilesOf(changes)
    BY <1>1, FilesTail DEF PatchInv, PatchTypes
  <2>2. p \notin FilesOf(applied)
    BY <2>1 DEF PatchInv, Once
  <2> QED BY <1>1, <2>2 DEF PatchInv, Tree, Working
<1>3. Reads'
  <2> HIDE DEF p
  <2> QED BY <1>1, <1>2 DEF PatchInv, Reads
<1>4. Judging'
  BY <1>1 DEF PatchInv, Judging, Publishing, Planned
<1>5. Works
  <2> HIDE DEF p
  <2> QED BY <1>1, <1>3 DEF Capture, Works, Working, stored, checkout, PatchInv, PatchTypes,
                            Publishing, Early
<1> QED BY <1>4, <1>5, WorkKeeps

LEMMA CompareKeeps ==
  ASSUME PatchInv, Compare
  PROVE  PatchInv'
<1> USE AttemptsAreNumbers
<1> DEFINE p == Head(changes)
<1>1. step = "compare" /\ p \in Editable /\ changes # << >>
  BY HeadIn DEF Compare, At, PatchInv, PatchTypes, Flow
<1>2. CASE /\ Compared(file[p], Base) /\ current' = file[p] /\ Enter("write")
           /\ UNCHANGED <<now, stored, checkout, todo, seen, changes, applied, diff, returns,
                          handling, preimage, patchFaults>>
  <2> HIDE DEF p
  <2>1. /\ current' = Base /\ step' = "write" /\ changes' = changes /\ applied' = applied
        /\ now' = now /\ preimage' = preimage
    BY <1>2 DEF Compared, Enter
  <2>2. Reads'
    BY <2>1 DEF PatchInv, Reads
  <2>3. Judging'
    BY <1>1, <2>1 DEF PatchInv, Judging, Publishing, Planned
  <2>4. Works
    BY <1>1, <1>2, <2>1, <2>2 DEF Works, Working, stored, checkout, PatchInv, PatchTypes,
                                  Publishing, Early
  <2> QED BY <2>3, <2>4, WorkKeeps
<1>3. ASSUME NEW r \in {"POLICY", "PERMANENT"}, Refuse(r), UNCHANGED file
      PROVE  PatchInv'
  <2> HIDE DEF p
  <2>1. Put(p, file[p]) /\ file[p] \in Contents
    BY <1>1, <1>3, UntouchedPut
  <2> QED BY <1>1, <1>3, <2>1, RefusalKeeps DEF FailureClasses
<1>4. ASSUME NEW c \in {file[p], Torn}, Put(p, c), Refuse("RECOVERABLE")
      PROVE  PatchInv'
  <2> HIDE DEF p
  <2>1. c \in Contents
    BY <1>1, <1>4 DEF PatchInv, PatchTypes, Contents
  <2> QED BY <1>1, <1>4, <2>1, RefusalKeeps DEF FailureClasses
<1> QED BY <1>2, <1>3, <1>4 DEF Compare

LEMMA WriteKeeps ==
  ASSUME PatchInv, Write
  PROVE  PatchInv'
<1> USE AttemptsAreNumbers
<1> DEFINE p == Head(changes)
<1>1. p \in Editable /\ step = "write" /\ changes # << >> /\ current = Base
  BY HeadIn DEF Write, At, PatchInv, PatchTypes, Flow, Reads
<1>2. CASE /\ Put(p, now) \/ Replaced(p, current)
           /\ Enter("record") /\ UNCHANGED <<now, stored, locals, revived, edits, patchFaults>>
  <2> HIDE DEF p
  <2>1. /\ now' = now /\ result' = result /\ undoing' = undoing /\ artifact' = artifact
        /\ content' = content /\ todo' = todo /\ seen' = seen /\ changes' = changes
        /\ applied' = applied /\ diff' = diff /\ returns' = returns /\ handling' = handling
        /\ preimage' = preimage /\ current' = current /\ revived' = revived
    BY <1>2 DEF stored, locals
  <2>2. step' = "record"
    BY <1>2 DEF Enter
  <2>3. now \in Attempts
    BY DEF PatchInv, PatchTypes
  <2>9. /\ file' \in [Editable -> Contents]
        /\ \A q \in Editable : file'[q] = file[q] \/ (q = p /\ file'[q] = now)
    BY <1>2, <2>3 DEF PatchInv, PatchTypes, Contents, Put, Replaced
  <2>4. PatchTypes'
    BY <2>1, <2>2, <2>9 DEF PatchInv, PatchTypes, Working
  <2>5. Flow'
    BY <1>1, <2>1, <2>2 DEF PatchInv, Flow, Working, Undoing, Publishing
  <2>6. Tree'
    <3> SUFFICES ASSUME NEW q \in Editable
                 PROVE  /\ file'[q] \in Attempts => file'[q] <= now
                        /\ file'[q] \in {Base, Foreign, now}
                        /\ file'[q] = now => q \in FilesOf(applied) \/ q = p
                        /\ undoing[q] # "SUCCEEDED"
      BY <2>1, <2>2 DEF Tree, Working, Undoing, p
    <3>1. /\ file[q] \in Attempts => file[q] <= now
          /\ file[q] \in {Base, Foreign, now}
          /\ file[q] = now => q \in FilesOf(applied)
          /\ undoing[q] = "none"
      BY <1>1 DEF PatchInv, Tree, Flow, Working
    <3> QED BY <2>3, <2>9, <3>1
  <2>7. Judging'
    BY <1>1, <2>1, <2>2 DEF PatchInv, Judging, Publishing, Planned
  <2>8. FailureRestoresTree'
    <3> SUFFICES ASSUME NEW a \in Attempts, result[a] \in FailureClasses, NEW q \in Editable,
                        file'[q] = a
                 PROVE  <<q, a>> \in revived
      BY <2>1 DEF FailureRestoresTree
    <3>1. result[now] = "none"
      BY <1>1, <2>3 DEF PatchInv, Flow
    <3> QED BY <2>9, <3>1 DEF PatchInv, FailureRestoresTree, FailureClasses
  <2>10. Once' /\ Reads'
    BY <1>1, <2>1, <2>2 DEF PatchInv, Once, Reads, FilesOf
  <2> QED BY <2>1, <2>4, <2>5, <2>6, <2>7, <2>8, <2>10, EligibleKept DEF PatchInv
<1>3. CASE Replaced(p, current) /\ Refuse("POLICY")
  <2> HIDE DEF p
  <2>1. Put(p, file[p]) /\ file[p] \in Contents
    BY <1>1, <1>3, UntouchedPut DEF Replaced
  <2> QED BY <1>1, <1>3, <2>1, RefusalKeeps DEF FailureClasses
<1>4. ASSUME NEW c \in {current, Torn, file[p]}, Put(p, c), Refuse("RECOVERABLE")
      PROVE  PatchInv'
  <2> HIDE DEF p
  <2>1. c \in Contents
    BY <1>1, <1>4 DEF PatchInv, PatchTypes, Contents
  <2> QED BY <1>1, <1>4, <2>1, RefusalKeeps DEF FailureClasses
<1> QED BY <1>2, <1>3, <1>4 DEF Write

LEMMA RecordWriteKeeps ==
  ASSUME PatchInv, RecordWrite
  PROVE  PatchInv'
<1> USE AttemptsAreNumbers
<1> DEFINE p == Head(changes)
<1>1. step = "record" /\ changes # << >> /\ ~ handling /\ changes \in Seq(Editable)
      /\ applied \in Seq(Editable)
  BY DEF RecordWrite, At, PatchInv, PatchTypes, Flow, Undoing
<1>2. p \in Editable /\ Tail(changes) \in Seq(Editable)
  BY <1>1, HeadIn
<1>3. CASE /\ applied' = Append(applied, p) /\ changes' = Tail(changes) /\ Enter("attach")
           /\ UNCHANGED <<now, stored, checkout, todo, seen, diff, returns, handling,
                          preimage, current, patchFaults>>
  <2>0. FilesOf(changes) = {p} \cup FilesOf(changes')
    BY <1>1, <1>3, FilesTail
  <2>1. FilesOf(applied') = FilesOf(applied) \cup {p}
    BY <1>1, <1>2, <1>3, FilesAppend
  <2>2. applied' \in Seq(Editable) /\ changes' \in Seq(Editable)
    BY <1>1, <1>2, <1>3
  <2>3. /\ now' = now /\ result' = result /\ undoing' = undoing /\ artifact' = artifact
        /\ content' = content /\ file' = file /\ todo' = todo /\ seen' = seen /\ diff' = diff
        /\ returns' = returns /\ handling' = handling /\ step' = "attach"
        /\ preimage' = preimage /\ current' = current /\ revived' = revived
    BY <1>3 DEF stored, checkout, Enter
  <2>4. PatchTypes'
    BY <2>2, <2>3 DEF PatchInv, PatchTypes, Working
  <2>5. Flow'
    BY <1>1, <2>3 DEF PatchInv, Flow, Working, Undoing, Publishing
  <2>6. Tree'
    <3> SUFFICES ASSUME NEW q \in Editable
                 PROVE  /\ file[q] \in Attempts => file[q] <= now
                        /\ file[q] \in {Base, Foreign, now}
                        /\ file[q] = now => q \in FilesOf(applied')
                        /\ undoing[q] # "SUCCEEDED"
      BY <2>3 DEF Tree, Working, Undoing
    <3> QED BY <1>1, <2>1 DEF PatchInv, Tree, Flow, Working
  <2>7. Judging'
    <3>1. FilesOf(changes') \cup FilesOf(applied') = FilesOf(changes) \cup FilesOf(applied)
      BY <2>0, <2>1
    <3>2. PlanKept(FilesOf(changes) \cup FilesOf(applied))
      BY <1>1 DEF PatchInv, Judging, Planned
    <3> QED BY <2>3, <3>1, <3>2 DEF Judging, Publishing
  <2>8. FailureRestoresTree'
    BY <2>3 DEF PatchInv, FailureRestoresTree
  <2>9. Reads'
    BY <1>1, <2>3 DEF PatchInv, Reads
  <2>10. Once'
    <3>1. \A i, j \in DOMAIN changes : i # j => changes[i] # changes[j]
      BY DEF PatchInv, Once
    <3>2. Len(changes) \in Nat /\ Len(changes) >= 1 /\ DOMAIN changes = 1..Len(changes)
          /\ p = changes[1]
      BY <1>1
    <3>3. \A i \in DOMAIN changes' : /\ i \in Nat /\ i + 1 \in DOMAIN changes /\ i + 1 # 1
                                     /\ changes'[i] = changes[i + 1]
      BY <1>1, <1>3
    <3>4. \A i, j \in DOMAIN changes' : i # j => changes'[i] # changes'[j]
      <4> SUFFICES ASSUME NEW i \in DOMAIN changes', NEW j \in DOMAIN changes', i # j
                   PROVE  changes'[i] # changes'[j]
        OBVIOUS
      <4>1. i + 1 # j + 1 /\ i + 1 \in DOMAIN changes /\ j + 1 \in DOMAIN changes
        BY <3>3
      <4> QED BY <3>1, <3>3, <4>1
    <3>5. p \notin FilesOf(changes')
      <4>1. 1 \in DOMAIN changes
        BY <3>2
      <4>2. ASSUME NEW i \in DOMAIN changes'
            PROVE  changes'[i] # changes[1]
        BY <3>1, <3>3, <4>1
      <4> QED BY <3>2, <4>2 DEF FilesOf
    <3>6. FilesOf(changes) \cap FilesOf(applied) = {}
      BY DEF PatchInv, Once
    <3> QED BY <2>0, <2>1, <3>4, <3>5, <3>6 DEF Once
  <2> QED BY <2>3, <2>4, <2>5, <2>6, <2>7, <2>8, <2>9, <2>10, EligibleKept DEF PatchInv
<1>6. now \in Attempts /\ file \in [Editable -> Contents] /\ preimage \in {Base, Foreign}
  BY DEF PatchInv, PatchTypes, Reads
<1>4. CASE PutBack(p, preimage, now) /\ RaiseError("CONFIGURATION")
           /\ UNCHANGED <<revived, edits, artifact, content>>
  <2>1. \/ file' = [file EXCEPT ![p] = preimage]
        \/ file[p] # now /\ file' = file
    BY <1>4 DEF PutBack, Put, Replaced
  <2>2. \A q \in Editable : q # p /\ file[q] = now => q \in FilesOf(applied)
    BY <1>1 DEF PatchInv, Tree, Working, p
  <2> HIDE DEF p
  <2>3. file' \in [Editable -> Contents] /\ \A q \in Editable : Leaves(q)
    BY <1>6, <2>1 DEF Contents, Leaves
  <2>4. Ends
    BY <1>4, <2>3, EligibleKept DEF Ends, PatchInv, PatchTypes
  <2>5. \A q \in Editable : file'[q] = now => file[q] = now /\ q \in FilesOf(applied)
    BY <1>2, <1>6, <2>1, <2>2
  <2> QED BY <1>1, <1>4, <2>4, <2>5, RaiseKeeps DEF FailureClasses
<1>5. ASSUME NEW c \in {file[p], Torn}, Put(p, c), Finish("escaped"),
             UNCHANGED <<revived, edits, artifact, content>>
      PROVE  PatchInv'
  <2> HIDE DEF p
  <2>1. file' \in [Editable -> Contents] /\ \A q \in Editable : Leaves(q)
    BY <1>2, <1>5, <1>6 DEF Put, Contents, Leaves
  <2>2. Ends
    BY <1>5, <2>1, EligibleKept DEF Ends, PatchInv, PatchTypes
  <2> QED BY <1>1, <1>5, <2>2, FinishKeeps DEF FailureClasses
<1> QED BY <1>3, <1>4, <1>5 DEF RecordWrite

LEMMA AttachKeeps ==
  ASSUME PatchInv, Attach
  PROVE  PatchInv'
<1>1. changes' = changes /\ applied' = applied /\ step' = "apply" /\ step = "attach"
  BY DEF Attach, At, Advance, Enter, progress
<1>2. Judging'
  BY <1>1 DEF PatchInv, Judging, Publishing, Planned
<1>3. Works
  BY <1>1 DEF Attach, Advance, Works, Working, stored,
              checkout, progress, PatchInv, PatchTypes, Publishing,
              Early
<1> QED BY <1>2, <1>3, WorkKeeps

\* A rollback that raises leaves execute(), or everything is tried once more.
LEMMA UndoRaisesKeeps ==
  ASSUME PatchInv, NEW p \in Editable, NEW s \in {"PENDING", "SUCCEEDED", "FAILED"},
         step \in Undoing, UndoRaises(p, s), Ends,
         \A q \in Editable : q # p /\ file'[q] = now => file[q] = now,
         s = "SUCCEEDED" /\ file'[p] = now => <<p, now>> \in revived'
  PROVE  PatchInv'
<1>1. \A q \in Editable : file[q] = now => q \in FilesOf(applied)
  BY DEF PatchInv, Tree
<1>2. step # "over"
  BY DEF Undoing
<1>3. CASE handling
  BY <1>2, <1>3, FinishKeeps DEF UndoRaises, FailureClasses
<1>4. CASE ~ handling
  <2>1. /\ Undo("CONFIGURATION", TRUE) /\ undoing' = [undoing EXCEPT ![p] = s]
        /\ UNCHANGED <<now, result, progress>>
    BY <1>4 DEF UndoRaises
  <2>2. undoing' \in [Editable -> {"none", "PENDING", "SUCCEEDED", "FAILED"}]
    BY <2>1 DEF PatchInv, PatchTypes
  <2>3. \A q \in Editable : undoing'[q] = "SUCCEEDED" /\ file'[q] = now => <<q, now>> \in revived'
    <3> SUFFICES ASSUME NEW q \in Editable, undoing'[q] = "SUCCEEDED", file'[q] = now
                 PROVE  <<q, now>> \in revived'
      OBVIOUS
    <3>1. CASE q = p
      BY <2>1, <3>1 DEF PatchInv, PatchTypes
    <3>2. CASE q # p
      <4>1. undoing[q] = "SUCCEEDED" /\ file[q] = now
        BY <2>1, <3>2 DEF PatchInv, PatchTypes
      <4> QED BY <4>1 DEF PatchInv, Tree, Ends
    <3> QED BY <3>1, <3>2
  <2>4. UNCHANGED <<now, result, progress>>
    BY <2>1
  <2> QED BY <1>1, <1>2, <2>1, <2>2, <2>3, <2>4, UndoKeeps DEF FailureClasses
<1> QED BY <1>3, <1>4 DEF PatchInv, PatchTypes

\* So does one that has left in its file what was there, nothing or, as it was,
\* what the change wrote.
LEMMA UndoLeavesKeeps ==
  ASSUME PatchInv, NEW p \in Editable, NEW s \in {"PENDING", "FAILED"}, step \in Undoing,
         UndoRaises(p, s), p \in FilesOf(applied), UNCHANGED <<revived, artifact, content>>,
         NEW c \in {Base, now, Torn, file[p]}, Put(p, c)
  PROVE  PatchInv'
<1> USE AttemptsAreNumbers
<1>1. now \in Attempts /\ file \in [Editable -> Contents]
  BY DEF PatchInv, PatchTypes
<1>2. /\ file' \in [Editable -> Contents]
      /\ \A q \in Editable : file'[q] = IF q = p THEN c ELSE file[q]
  BY <1>1 DEF Put, Contents
<1>3. artifact' = artifact /\ content' = content /\ revived' = revived
  OBVIOUS
<1>4. \A q \in Editable : Leaves(q)
  BY <1>2 DEF Leaves
<1>5. Ends
  BY <1>2, <1>3, <1>4, EligibleKept DEF Ends, PatchInv, PatchTypes
<1> QED BY <1>2, <1>5, UndoRaisesKeeps

\* The rollback of a change compares with what the change wrote.
LEMMA UndoFirstKeeps ==
  ASSUME PatchInv, NEW p \in Editable, step = "undo", LastApplied(p), UndoFirst(p)
  PROVE  PatchInv'
<1> USE AttemptsAreNumbers
<1>1. CASE /\ Compared(file[p], now) /\ current' = file[p]
           /\ undoing' = [undoing EXCEPT ![p] = "PENDING"] /\ Enter("unwrite")
           /\ UNCHANGED <<now, result, artifact, content, checkout, todo, seen, changes, applied,
                          diff, returns, handling, preimage, patchFaults>>
  <2>1. /\ now' = now /\ result' = result /\ artifact' = artifact /\ content' = content
        /\ todo' = todo /\ seen' = seen /\ changes' = changes /\ applied' = applied
        /\ diff' = diff /\ returns' = returns /\ handling' = handling /\ step' = "unwrite"
        /\ file' = file /\ revived' = revived /\ preimage' = preimage /\ current' = now
    BY <1>1 DEF checkout, Enter, Compared
  <2>2. now \in Attempts
    BY DEF PatchInv, PatchTypes
  <2>3. PatchTypes'
    BY <1>1, <2>1 DEF PatchInv, PatchTypes, Undoing
  <2>4. Flow'
    BY <2>1 DEF PatchInv, Flow, Working, Undoing, Publishing
  <2>5. \A q \in Editable : undoing'[q] = IF q = p THEN "PENDING" ELSE undoing[q]
    BY <1>1 DEF PatchInv, PatchTypes
  <2>6. Tree'
    BY <2>1, <2>5 DEF PatchInv, Tree, Working, Undoing
  <2>7. Judging'
    BY <2>1 DEF Judging, Publishing, Planned
  <2>8. FailureRestoresTree'
    BY <2>1 DEF PatchInv, FailureRestoresTree
  <2>9. Once' /\ Reads'
    BY <2>1, <2>2 DEF PatchInv, Once, Reads, FilesOf
  <2> QED BY <2>1, <2>3, <2>4, <2>6, <2>7, <2>8, <2>9, EligibleKept DEF PatchInv
<1>2. p \in FilesOf(applied) /\ step \in Undoing
  BY DEF PatchInv, Flow, Undoing, LastApplied
<1>3. ASSUME NEW s \in {"PENDING", "FAILED"}, UndoRaises(p, s),
             UNCHANGED <<checkout, artifact, content>>
      PROVE  PatchInv'
  <2>1. Put(p, file[p]) /\ file[p] \in {Base, now, Torn, file[p]}
        /\ UNCHANGED <<revived, artifact, content>>
    BY <1>3, UntouchedPut DEF checkout
  <2> QED BY <1>2, <1>3, <2>1, UndoLeavesKeeps
<1>4. ASSUME NEW c \in {file[p], Torn}, Put(p, c), UndoRaises(p, "FAILED"),
             UNCHANGED <<revived, artifact, content>>
      PROVE  PatchInv'
  BY <1>2, <1>4, UndoLeavesKeeps
<1> QED BY <1>1, <1>3, <1>4 DEF UndoFirst, Quietly

\* The file of a rollback is as it was at the revision, or was replaced.
LEMMA UnwriteKeeps ==
  ASSUME PatchInv, NEW p \in Editable, Unwrite(p)
  PROVE  PatchInv'
<1> USE AttemptsAreNumbers
<1>1. step = "unwrite" /\ LastApplied(p) /\ current = now /\ now \in Attempts
  BY DEF Unwrite, At, PatchInv, Reads, PatchTypes
<1>2. p \in FilesOf(applied) /\ step \in Undoing
  BY <1>1 DEF PatchInv, Flow, Undoing, LastApplied
<1>3. CASE /\ Put(p, Base) \/ Replaced(p, current)
           /\ Enter("undone") /\ UNCHANGED <<now, stored, locals, revived, edits, patchFaults>>
  <2>1. /\ now' = now /\ result' = result /\ artifact' = artifact /\ content' = content
        /\ todo' = todo /\ seen' = seen /\ changes' = changes /\ applied' = applied
        /\ diff' = diff /\ returns' = returns /\ handling' = handling /\ step' = "undone"
        /\ undoing' = undoing /\ revived' = revived /\ preimage' = preimage /\ current' = current
    BY <1>3 DEF stored, locals, Enter
  <2>2. /\ file' \in [Editable -> Contents] /\ file'[p] # now
        /\ \A q \in Editable : file'[q] = file[q] \/ file'[q] = Base
    BY <1>1, <1>3 DEF PatchInv, PatchTypes, Contents, Put, Replaced
  <2>3. PatchTypes'
    BY <2>1, <2>2 DEF PatchInv, PatchTypes, Undoing
  <2>4. Flow'
    BY <1>1, <2>1 DEF PatchInv, Flow, Working, Undoing, Publishing
  <2>6. Tree'
    <3> SUFFICES ASSUME NEW q \in Editable
                 PROVE  /\ file'[q] \in Attempts => file'[q] <= now
                        /\ file'[q] = now =>
                             q \in FilesOf(applied) /\ (q \in todo \/ <<q, now>> \in revived)
                        /\ undoing[q] = "SUCCEEDED" /\ file'[q] = now => <<q, now>> \in revived
                        /\ LastApplied(q)' => file'[q] # now
      BY <2>1 DEF Tree, Working, Undoing
    <3>1. LastApplied(q)' => q = p
      <4> SUFFICES ASSUME LastApplied(q)'
                   PROVE  q = p
        OBVIOUS
      <4>1. LastApplied(q)
        BY <2>1 DEF LastApplied
      <4> QED BY <1>1, <4>1, OneLastApplied DEF PatchInv
    <3> QED BY <1>1, <1>2, <2>2, <3>1 DEF PatchInv, Tree
  <2>7. Judging'
    BY <2>1 DEF Judging, Publishing, Planned
  <2>8. FailureRestoresTree'
    BY <2>1, <2>2 DEF PatchInv, FailureRestoresTree
  <2>9. Once' /\ Reads'
    BY <2>1 DEF PatchInv, Once, Reads, FilesOf
  <2> QED BY <2>1, <2>3, <2>4, <2>6, <2>7, <2>8, <2>9, EligibleKept DEF PatchInv
<1>4. CASE /\ Replaced(p, current) /\ UndoRaises(p, "FAILED")
           /\ UNCHANGED <<revived, edits, artifact, content, patchFaults>>
  <2>1. Put(p, file[p]) /\ UNCHANGED <<revived, artifact, content>>
    BY <1>4, UntouchedPut DEF Replaced
  <2> QED BY <1>2, <1>4, <2>1, UndoLeavesKeeps
<1>5. ASSUME NEW c \in {current, Torn, file[p]}, Put(p, c), UndoRaises(p, "FAILED"),
             UNCHANGED <<revived, edits, artifact, content>>
      PROVE  PatchInv'
  BY <1>1, <1>2, <1>5, UndoLeavesKeeps
<1> QED BY <1>3, <1>4, <1>5 DEF Unwrite

\* A change whose rollback is on record is passed over.
LEMMA SkipKeeps ==
  ASSUME PatchInv, NEW p \in Editable, step \in Undoing, Skip(p), step' = "undo",
         file[p] = now => <<p, now>> \in revived,
         undoing' \in [Editable -> {"none", "PENDING", "SUCCEEDED", "FAILED"}],
         \A q \in Editable : undoing'[q] = "SUCCEEDED" => q = p \/ undoing[q] = "SUCCEEDED",
         UNCHANGED <<file, revived, artifact, content>>
  PROVE  PatchInv'
<1>1. /\ file' = file /\ artifact' = artifact /\ content' = content /\ todo' = todo \ {p}
      /\ now' = now /\ result' = result /\ seen' = seen /\ changes' = changes
      /\ applied' = applied /\ diff' = diff /\ returns' = returns /\ handling' = handling
      /\ preimage' = preimage /\ current' = current /\ revived' = revived
  BY DEF Skip, progress
<1>2. PatchTypes'
  BY <1>1 DEF PatchInv, PatchTypes, Undoing
<1>3. Flow'
  BY <1>1 DEF PatchInv, Flow, Working, Undoing, Publishing
<1>4. Tree'
  <2> SUFFICES ASSUME NEW q \in Editable
               PROVE  /\ file[q] \in Attempts => file[q] <= now
                      /\ file[q] = now => /\ q \in FilesOf(applied)
                                          /\ q \in todo \ {p} \/ <<q, now>> \in revived
                      /\ undoing'[q] = "SUCCEEDED" /\ file[q] = now => <<q, now>> \in revived
    BY <1>1 DEF Tree, Working, Undoing
  <2> QED BY DEF PatchInv, Tree
<1>5. Judging'
  BY DEF Judging, Publishing, Planned
<1>6. FailureRestoresTree'
  BY <1>1 DEF PatchInv, FailureRestoresTree
<1>7. Once' /\ Reads'
  BY <1>1 DEF PatchInv, Once, Reads, FilesOf
<1> QED BY <1>1, <1>2, <1>3, <1>4, <1>5, <1>6, <1>7, EligibleKept DEF PatchInv

LEMMA UndoAgainKeeps ==
  ASSUME PatchInv, NEW p \in Editable, step = "undo", LastApplied(p), UndoAgain(p)
  PROVE  PatchInv'
<1>1. Ends /\ UNCHANGED <<file, revived, artifact, content>>
  BY EndsUntouched DEF UndoAgain, checkout
<1>2. \A q \in Editable : file[q] = now => q \in FilesOf(applied)
  BY DEF PatchInv, Tree, Flow, Undoing
<1>3. CASE undoing[p] = "SUCCEEDED" /\ Skip(p) /\ Enter("undo") /\ UNCHANGED undoing
  <2>1. undoing' = undoing /\ step' = "undo" /\ (file[p] = now => <<p, now>> \in revived)
    BY <1>3 DEF PatchInv, Tree, Enter
  <2>2. undoing' \in [Editable -> {"none", "PENDING", "SUCCEEDED", "FAILED"}]
    BY <2>1 DEF PatchInv, PatchTypes
  <2>3. UNCHANGED <<file, revived, artifact, content>>
    BY <1>1
  <2>4. \A q \in Editable : undoing'[q] = "SUCCEEDED" => q = p \/ undoing[q] = "SUCCEEDED"
    BY <2>1
  <2>5. Skip(p) /\ step \in Undoing
    BY <1>3 DEF Undoing
  <2> QED BY <2>1, <2>2, <2>3, <2>4, <2>5, SkipKeeps
<1>4. CASE RaiseError("CONFIGURATION")
  BY <1>1, <1>2, <1>4, RaiseKeeps DEF FailureClasses
<1>5. CASE Finish("escaped")
  BY <1>1, <1>5, FinishKeeps DEF FailureClasses
<1> QED BY <1>3, <1>4, <1>5 DEF UndoAgain

LEMMA RecordUndoKeeps ==
  ASSUME PatchInv, NEW p \in Editable, RecordUndo(p)
  PROVE  PatchInv'
<1> USE AttemptsAreNumbers
<1>1. step = "undone" /\ LastApplied(p) /\ step \in Undoing
  BY DEF RecordUndo, At, Undoing
<1>2. file[p] # now /\ p \in FilesOf(applied) /\ now \in Attempts /\ file \in [Editable -> Contents]
  BY <1>1 DEF PatchInv, PatchTypes, Tree, Flow, LastApplied
<1>3. CASE /\ undoing' = [undoing EXCEPT ![p] = "SUCCEEDED"] /\ Skip(p) /\ Enter("undo")
           /\ UNCHANGED <<checkout, artifact, content, patchFaults>>
  <2>1. undoing' \in [Editable -> {"none", "PENDING", "SUCCEEDED", "FAILED"}]
    BY <1>3 DEF PatchInv, PatchTypes
  <2>2. \A q \in Editable : undoing'[q] = "SUCCEEDED" => q = p \/ undoing[q] = "SUCCEEDED"
    BY <1>3 DEF PatchInv, PatchTypes
  <2>3. Skip(p) /\ step' = "undo" /\ UNCHANGED <<file, revived, artifact, content>>
    BY <1>3 DEF Enter, checkout
  <2>4. UNCHANGED <<file, revived, artifact, content>>
    BY <2>3
  <2> QED BY <1>1, <1>2, <2>1, <2>2, <2>3, <2>4, SkipKeeps
<1>4. ASSUME NEW s \in {"PENDING", "SUCCEEDED"}, PutBack(p, now, Base), UndoRaises(p, s),
             revived' = IF s = "SUCCEEDED" THEN revived \cup {<<p, now>>} ELSE revived,
             UNCHANGED <<artifact, content>>
      PROVE  PatchInv'
  <2>1. file' \in [Editable -> Contents] /\ \A q \in Editable : q # p => file'[q] = file[q]
    BY <1>2, <1>4 DEF PutBack, Put, Replaced, Contents
  <2>2. file'[p] \in {now, file[p]}
    BY <1>2, <1>4 DEF PutBack, Put, Replaced
  <2>3. \A q \in Editable : Leaves(q)
    BY <1>2, <2>1, <2>2 DEF Leaves
  <2>4. revived \subseteq revived' /\ revived' \subseteq Editable \X Attempts
    BY <1>2, <1>4 DEF PatchInv, PatchTypes
  <2>5. artifact' = artifact /\ content' = content
    BY <1>4
  <2>6. Ends
    BY <2>1, <2>3, <2>4, <2>5, EligibleKept DEF Ends, PatchInv, PatchTypes
  <2>7. s = "SUCCEEDED" /\ file'[p] = now => <<p, now>> \in revived'
    BY <1>4
  <2>8. \A q \in Editable : q # p /\ file'[q] = now => file[q] = now
    BY <2>1
  <2> QED BY <1>1, <1>4, <2>6, <2>7, <2>8, UndoRaisesKeeps
<1>5. ASSUME NEW c \in {file[p], Torn}, Put(p, c), Finish("escaped"),
             UNCHANGED <<revived, edits, artifact, content>>
      PROVE  PatchInv'
  <2>1. file' \in [Editable -> Contents] /\ \A q \in Editable : Leaves(q)
    BY <1>2, <1>5 DEF Put, Contents, Leaves
  <2>2. Ends
    BY <1>5, <2>1, EligibleKept DEF Ends, PatchInv, PatchTypes
  <2> QED BY <1>1, <1>5, <2>2, FinishKeeps DEF FailureClasses
<1> QED BY <1>3, <1>4, <1>5 DEF RecordUndo

LEMMA UndoneKeeps ==
  ASSUME PatchInv, Undone
  PROVE  PatchInv'
<1>1. /\ step = "undo" /\ todo = {} /\ Finish(returns)
      /\ UNCHANGED <<file, revived, artifact, content>>
  BY DEF Undone, At, Quietly, checkout
<1>2. Ends
  BY <1>1, EndsUntouched
<1>3. returns \in FailureClasses /\ \A q \in Editable : file'[q] = now => <<q, now>> \in revived'
  BY <1>1 DEF PatchInv, Flow, Tree, Undoing
<1> QED BY <1>1, <1>2, <1>3, FinishKeeps

LEMMA DiffKeeps ==
  ASSUME PatchInv, Diff
  PROVE  PatchInv'
<1>1. step = "apply" /\ changes = << >>
  BY DEF Diff, At
<1>2. CASE /\ diff' = file /\ Enter("evaluate")
           /\ UNCHANGED <<now, stored, checkout, todo, seen, changes, applied, returns, handling,
                          preimage, current, patchFaults>>
  <2>1. /\ diff' = file /\ step' = "evaluate" /\ changes' = changes /\ applied' = applied
        /\ now' = now
    BY <1>2 DEF Enter
  <2>2. \A p \in Editable : file[p] \in {Base, Foreign, now}
    BY <1>1 DEF PatchInv, Tree, Working
  <2>3. Base' = Base /\ Foreign' = Foreign
    OBVIOUS
  <2>4. Judging'
    BY <1>1, <2>1, <2>2, <2>3 DEF PatchInv, Judging, Publishing, Planned
  <2>5. Works
    BY <1>1, <1>2, <2>1 DEF Works, Working, stored, checkout, PatchInv, PatchTypes, Publishing,
                            Early
  <2> QED BY <2>4, <2>5, WorkKeeps
<1>3. ASSUME NEW r \in FailureClasses, Undo(r, FALSE),
             UNCHANGED <<now, stored, checkout, progress>>
      PROVE  PatchInv'
  <2>1. Ends
    BY <1>3, EndsUntouched DEF stored, checkout
  <2> QED BY <1>1, <1>3, <2>1, UndoHereKeeps DEF Working, stored, checkout
<1> QED BY <1>2, <1>3 DEF Diff, FailureClasses

LEMMA EvaluateKeeps ==
  ASSUME PatchInv, Evaluate
  PROVE  PatchInv'
<1>1. step = "evaluate"
  BY DEF Evaluate, At
<1>2. CASE /\ returns' \in Verdicts(diff) /\ Enter("publish")
           /\ UNCHANGED <<now, stored, checkout, todo, progress, handling, patchFaults>>
  <2>1. /\ diff' = diff /\ step' = "publish" /\ changes' = changes /\ applied' = applied
        /\ now' = now /\ returns' \in {"SUCCEEDED", "EVALUATION"}
        /\ returns' = "SUCCEEDED" => Complete(diff)
    BY <1>2 DEF Enter, Verdicts, progress
  <2>2. returns' = "SUCCEEDED" => Complete(diff)'
    BY <2>1 DEF Complete, ToChange, ToStay, Proposed, FilesOf, Changed
  <2>3. Judging'
    BY <1>1, <2>1, <2>2 DEF PatchInv, Judging, Publishing, Planned
  <2>4. changes = << >>
    BY <1>1 DEF PatchInv, Flow, Publishing
  <2>5. Works
    BY <1>1, <1>2, <2>1, <2>4 DEF Works, Working, stored, checkout, progress, PatchInv, PatchTypes,
                                  Publishing, Early, FailureClasses
  <2> QED BY <2>3, <2>5, WorkKeeps
<1>3. CASE /\ Undo("CONFIGURATION", FALSE)
           /\ UNCHANGED <<now, stored, checkout, progress, patchFaults>>
  <2>1. Ends
    BY <1>3, EndsUntouched DEF stored, checkout
  <2> QED BY <1>1, <1>3, <2>1, UndoHereKeeps DEF Working, stored, checkout, FailureClasses
<1> QED BY <1>2, <1>3 DEF Evaluate

LEMMA PutContentKeeps ==
  ASSUME PatchInv, PutContent
  PROVE  PatchInv'
<1>1. step = "publish"
  BY DEF PutContent, At
<1>2. CASE /\ content' = content \cup {now} /\ Enter("describe")
           /\ UNCHANGED <<now, result, undoing, artifact, checkout, locals, patchFaults>>
  <2>1. /\ diff' = diff /\ step' = "describe" /\ changes' = changes /\ applied' = applied
        /\ now' = now /\ returns' = returns
    BY <1>2 DEF Enter, locals
  <2>2. Complete(diff)' <=> Complete(diff)
    BY <2>1 DEF Complete, ToChange, ToStay, Proposed, FilesOf, Changed
  <2>3. Judging'
    BY <1>1, <1>2, <2>1, <2>2 DEF PatchInv, Judging, Publishing, Planned
  <2>4. changes = << >>
    BY <1>1 DEF PatchInv, Flow, Publishing
  <2>5. Works
    BY <1>1, <1>2, <2>1, <2>4 DEF Works, Working, locals, checkout, PatchInv, PatchTypes, Flow,
                                  Publishing, Early
  <2> QED BY <2>3, <2>5, WorkKeeps
<1>3. CASE Finish("escaped") /\ UNCHANGED <<checkout, artifact, content>>
  <2>1. Ends
    BY <1>3, EndsUntouched DEF checkout
  <2> QED BY <1>1, <1>3, <2>1, FinishKeeps DEF FailureClasses
<1>4. CASE RaiseError("CONFIGURATION") /\ UNCHANGED <<checkout, artifact, content>>
  BY <1>1, <1>4, ErrorKeeps DEF checkout, FailureClasses, Working
<1> QED BY <1>2, <1>3, <1>4 DEF PutContent

\* The metadata of a patch that passed are those of this attempt's own tree.
LEMMA Described ==
  ASSUME PatchInv, step = "describe", UNCHANGED content,
         artifact' = [artifact EXCEPT ![now] = PatchOf(returns, diff)]
  PROVE  /\ EligiblePatchIsOwn'
         /\ artifact' \in [Attempts -> [state : {"none", "eligible", "rejected"},
                                        diff : [Editable -> Contents]]]
<1>1. now \in Attempts /\ diff \in [Editable -> Contents]
  BY DEF PatchInv, PatchTypes
<1>2. PatchOf(returns, diff) \in [state : {"none", "eligible", "rejected"},
                                  diff : [Editable -> Contents]]
  BY <1>1 DEF PatchOf
<1>3. artifact' \in [Attempts -> [state : {"none", "eligible", "rejected"},
                                  diff : [Editable -> Contents]]]
  BY <1>1, <1>2 DEF PatchInv, PatchTypes
<1>4. /\ \A p \in Editable : diff[p] \in {Base, Foreign, now}
      /\ PlanKept(FilesOf(changes) \cup FilesOf(applied)) /\ changes = << >>
      /\ returns = "SUCCEEDED" => Complete(diff)
      /\ now \in content
  BY DEF PatchInv, Judging, Flow, Publishing, Planned
<1>5. Proposed = FilesOf(changes) \cup FilesOf(applied)
  <2>1. changes \o applied = applied /\ FilesOf(changes) = {}
    BY <1>4, FilesEmpty DEF PatchInv, PatchTypes
  <2> QED BY <2>1 DEF Proposed
<1>6. returns = "SUCCEEDED" => /\ Required \ Satisfied \subseteq Changed(diff)
                              /\ Retained \cap Changed(diff) = {}
  BY <1>4, <1>5 DEF PlanKept, Complete, ToChange, ToStay
<1>7. ASSUME NEW a \in Attempts, artifact'[a].state = "eligible"
      PROVE  /\ a \in content
             /\ Required \ Satisfied \subseteq Changed(artifact'[a].diff)
             /\ Retained \cap Changed(artifact'[a].diff) = {}
             /\ \A p \in Editable : artifact'[a].diff[p] \in {Base, Foreign, a}
  <2>1. CASE a = now
    <3>1. artifact'[a] = PatchOf(returns, diff)
      BY <1>1, <2>1 DEF PatchInv, PatchTypes
    <3>2. returns = "SUCCEEDED" /\ artifact'[a].diff = diff
      BY <1>7, <3>1 DEF PatchOf
    <3> QED BY <1>4, <1>6, <2>1, <3>2
  <2>2. CASE a # now
    <3>1. artifact'[a] = artifact[a]
      BY <1>1, <2>2 DEF PatchInv, PatchTypes
    <3> QED BY <1>7, <3>1 DEF PatchInv, EligiblePatchIsOwn
  <2> QED BY <2>1, <2>2
<1> QED BY <1>3, <1>7 DEF EligiblePatchIsOwn, Changed

LEMMA CreateMetadataKeeps ==
  ASSUME PatchInv, CreateMetadata
  PROVE  PatchInv'
<1>1. step = "describe" /\ content' = content /\ file' = file /\ revived' = revived
  BY DEF CreateMetadata, At, checkout
<1>2. Ends
  <2>1. CASE artifact' = [artifact EXCEPT ![now] = PatchOf(returns, diff)]
    BY <1>1, <2>1, Described DEF Ends, Leaves, PatchInv, PatchTypes
  <2>2. CASE artifact' = artifact
    BY <1>1, <2>2, EndsUntouched
  <2> QED BY <2>1, <2>2 DEF CreateMetadata
<1>3. CASE returns = "SUCCEEDED" /\ Finish("SUCCEEDED")
  BY <1>1, <1>2, <1>3, FinishKeeps DEF FailureClasses
<1>4. CASE /\ returns # "SUCCEEDED" /\ Undo(returns, FALSE)
           /\ UNCHANGED <<now, result, undoing, progress, patchFaults>>
  <2>1. CASE returns = "none"
    BY <1>1, <2>1 DEF PatchInv, Flow
  <2>2. CASE returns \in FailureClasses
    BY <1>1, <1>2, <1>4, <2>2, UndoHereKeeps DEF Working
  <2> QED BY <1>4, <2>1, <2>2 DEF PatchInv, PatchTypes
<1>5. CASE RaiseError("CONFIGURATION")
  <2>1. \A p \in Editable : file[p] = now => p \in FilesOf(applied)
    BY <1>1 DEF PatchInv, Tree, Working
  <2> QED BY <1>1, <1>2, <1>5, <2>1, RaiseKeeps DEF FailureClasses
<1> QED BY <1>3, <1>4, <1>5 DEF CreateMetadata

LEMMA StopKeeps ==
  ASSUME PatchInv, Stop
  PROVE  PatchInv'
<1>1. /\ file' = file /\ now' = now /\ result' = result /\ undoing' = undoing
      /\ artifact' = artifact /\ content' = content /\ todo' = todo /\ seen' = seen
      /\ changes' = changes /\ applied' = applied /\ diff' = diff /\ returns' = returns
      /\ handling' = handling /\ step' = "over" /\ preimage' = preimage /\ current' = current
      /\ revived' = revived
  BY DEF Stop, Enter, stored, checkout, locals
<1>2. PatchTypes'
  BY <1>1 DEF PatchInv, PatchTypes
<1>3. Flow'
  BY <1>1 DEF Flow, Working, Undoing, Publishing
<1>4. Tree'
  BY <1>1 DEF PatchInv, Tree, Working, Undoing
<1>5. Judging'
  BY <1>1 DEF Judging, Publishing, Planned
<1>6. FailureRestoresTree'
  BY <1>1 DEF PatchInv, FailureRestoresTree
<1>7. Once' /\ Reads'
  BY <1>1 DEF PatchInv, Once, Reads, FilesOf
<1> QED BY <1>1, <1>2, <1>3, <1>4, <1>5, <1>6, <1>7, EligibleKept DEF PatchInv

LEMMA EditKeeps ==
  ASSUME PatchInv, NEW p \in Editable, Edit(p)
  PROVE  PatchInv'
<1> USE AttemptsAreNumbers
<1>1. /\ now' = now /\ result' = result /\ undoing' = undoing /\ step # "over"
      /\ artifact' = artifact /\ content' = content /\ todo' = todo /\ seen' = seen
      /\ changes' = changes /\ applied' = applied /\ diff' = diff /\ returns' = returns
      /\ handling' = handling /\ step' = step /\ preimage' = preimage /\ current' = current
      /\ revived' = revived
  BY DEF Edit, stored, locals
<1>2. PICK c \in {Foreign, Base} : file' = [file EXCEPT ![p] = c]
  BY DEF Edit
<1>3. c \in Contents /\ c \notin Attempts
  BY DEF Contents
<1>4. now \in Attempts
  BY DEF PatchInv, PatchTypes
<1>5. \A q \in Editable : file'[q] = IF q = p THEN c ELSE file[q]
  BY <1>2 DEF PatchInv, PatchTypes
<1>6. PatchTypes'
  BY <1>1, <1>2, <1>3 DEF PatchInv, PatchTypes
<1>7. Flow'
  BY <1>1 DEF PatchInv, Flow
<1>8. Tree'
  <2> SUFFICES ASSUME NEW q \in Editable
               PROVE  /\ file'[q] \in Attempts => file'[q] <= now
                      /\ step = "preflight" => file'[q] # now
                      /\ step \in Working => file'[q] \in {Base, Foreign, now}
                      /\ step \in Working /\ file'[q] = now =>
                           q \in FilesOf(applied) \/ (step = "record" /\ q = Head(changes))
                      /\ step \in Undoing /\ file'[q] = now =>
                           /\ q \in FilesOf(applied)
                           /\ q \in todo \/ <<q, now>> \in revived
                      /\ undoing[q] = "SUCCEEDED" /\ file'[q] = now => <<q, now>> \in revived
                      /\ step = "undone" /\ LastApplied(q) => file'[q] # now
    BY <1>1 DEF Tree, LastApplied
  <2> QED BY <1>3, <1>4, <1>5 DEF PatchInv, Tree
<1>9. Judging'
  BY <1>1 DEF PatchInv, Judging, Complete, ToChange, ToStay, Proposed, FilesOf, Changed
<1>10. FailureRestoresTree'
  BY <1>1, <1>3, <1>5 DEF PatchInv, FailureRestoresTree
<1>11. Once' /\ Reads'
  BY <1>1 DEF PatchInv, Once, Reads, FilesOf
<1> QED BY <1>1, <1>6, <1>7, <1>8, <1>9, <1>10, <1>11, EligibleKept DEF PatchInv

LEMMA PatchStarts ==
  ASSUME PatchInit
  PROVE  PatchInv
<1> USE AttemptsAreNumbers
<1>1. PatchTypes
  <2>1. Untouched \in [Editable -> Contents] /\ 1 \in Attempts
    BY DEF Untouched, Contents, Attempts
  <2>2. NoPatch \in [state : {"none", "eligible", "rejected"}, diff : [Editable -> Contents]]
    BY <2>1 DEF NoPatch, Untouched
  <2>3. artifact \in [Attempts -> [state : {"none", "eligible", "rejected"},
                                  diff : [Editable -> Contents]]]
    BY <2>2 DEF PatchInit
  <2>4. /\ result \in [Attempts -> FailureClasses \cup {"none", "SUCCEEDED", "escaped"}]
        /\ undoing \in [Editable -> {"none", "PENDING", "SUCCEEDED", "FAILED"}]
    BY DEF PatchInit
  <2>5. changes \in Seq(Editable) /\ applied \in Seq(Editable)
    BY DEF PatchInit
  <2> QED BY <2>1, <2>3, <2>4, <2>5 DEF PatchInit, PatchTypes
<1>2. Flow
  BY DEF PatchInit, Flow, Working, Undoing, Publishing
<1>3. Tree
  BY DEF PatchInit, Tree, Working, Undoing, Untouched, Attempts
<1>4. Judging
  BY DEF PatchInit, Judging, Publishing, Planned
<1>5. FailureRestoresTree
  BY DEF PatchInit, FailureRestoresTree, FailureClasses
<1>6. EligiblePatchIsOwn
  BY DEF PatchInit, EligiblePatchIsOwn, NoPatch
<1>7. Once /\ Reads
  BY DEF PatchInit, Once, Reads, FilesOf
<1> QED BY <1>1, <1>2, <1>3, <1>4, <1>5, <1>6, <1>7 DEF PatchInv

LEMMA PatchSteps ==
  ASSUME PatchInv, [PatchNext]_patchVars
  PROVE  PatchInv'
<1>1. CASE \/ Preflight \/ VerifyAtRevision \/ Propose \/ AgentFails \/ RejectProposal
           \/ RefuseEvidence \/ RejectOperations \/ Reconcile
  BY <1>1, PreflightKeeps, VerifyKeeps, ProposeKeeps, RefusalsKeep, ReconcileKeeps
<1>2. CASE Capture \/ Compare \/ Write \/ RecordWrite \/ Attach \/ Undone
  BY <1>2, CaptureKeeps, CompareKeeps, WriteKeeps, RecordWriteKeeps, AttachKeeps, UndoneKeeps
<1>3. CASE Diff \/ Evaluate \/ PutContent \/ CreateMetadata \/ StoreFails \/ Stop
  BY <1>3, DiffKeeps, EvaluateKeeps, PutContentKeeps, CreateMetadataKeeps, StoreFailsKeeps, StopKeeps
<1>4. CASE \E class \in {"CONFIGURATION", "POLICY"} : ReadFails(class)
  BY <1>4, ReadFailsKeeps DEF FailureClasses
<1>5. ASSUME NEW p \in Editable, \/ Read(p) \/ Reread(p) \/ UndoStep(p)
                                \/ Unwrite(p) \/ RecordUndo(p) \/ Edit(p)
      PROVE  PatchInv'
  <2>1. CASE UndoStep(p)
    BY <2>1, UndoFirstKeeps, UndoAgainKeeps DEF UndoStep, At
  <2> QED BY <1>5, <2>1, ReadKeeps, RereadKeeps, UnwriteKeeps, RecordUndoKeeps, EditKeeps
<1>6. CASE UNCHANGED patchVars
  <2>1. /\ file' = file /\ now' = now /\ result' = result /\ undoing' = undoing
        /\ artifact' = artifact /\ content' = content /\ todo' = todo /\ seen' = seen
        /\ changes' = changes /\ applied' = applied /\ diff' = diff /\ returns' = returns
        /\ handling' = handling /\ step' = step /\ preimage' = preimage /\ current' = current
        /\ revived' = revived
    BY <1>6 DEF patchVars
  <2>2. PatchTypes' /\ Flow'
    BY <2>1 DEF PatchInv, PatchTypes, Flow
  <2>3. Tree'
    BY <2>1 DEF PatchInv, Tree, LastApplied
  <2>4. Judging'
    BY <2>1 DEF PatchInv, Judging, Complete, ToChange, ToStay, Proposed, FilesOf, Changed
  <2>5. FailureRestoresTree'
    BY <2>1 DEF PatchInv, FailureRestoresTree
  <2>6. Once' /\ Reads'
    BY <2>1 DEF PatchInv, Once, Reads, FilesOf
  <2> QED BY <2>1, <2>2, <2>3, <2>4, <2>5, <2>6, EligibleKept DEF PatchInv
<1> QED BY <1>1, <1>2, <1>3, <1>4, <1>5, <1>6 DEF PatchNext

\* What execute() has written is applied, being recorded or still to be undone,
\* and what it publishes is the answer to its plan (GeneratePatchTaskHandler).
THEOREM PatchInvariant == PatchSpec => []PatchInv
<1>1. PatchInit => PatchInv
  BY PatchStarts
<1>2. PatchInv /\ [PatchNext]_patchVars => PatchInv'
  BY PatchSteps
<1> QED BY <1>1, <1>2, PTL DEF PatchSpec

\* An attempt that returns a failure has undone every change it had written,
\* whatever failed and whoever else edited, but for a file whose undo was put
\* back after the store had kept its record (_rollback_applied_changes).
THEOREM FailureRestores == PatchSpec => []FailureRestoresTree
<1>1. PatchInv => FailureRestoresTree
  BY DEF PatchInv
<1> QED BY <1>1, PatchInvariant, PTL

\* A patch that may be published has its content, answers its plan and holds
\* nothing of another attempt (reconcile_dispositions, evaluate_patch).
THEOREM PatchIsOwn == PatchSpec => []EligiblePatchIsOwn
<1>1. PatchInv => EligiblePatchIsOwn
  BY DEF PatchInv
<1> QED BY <1>1, PatchInvariant, PTL

\* The variables of execute() and of its records keep their types (the dicts
\* and lists of execute(), the constructors of the records).
THEOREM PatchTypesKept == PatchSpec => []PatchTypeOK
<1>1. PatchInv => PatchTypeOK
  BY FilesWithin DEF PatchInv, PatchTypes, PatchTypeOK, Reads, Contents
<1> QED BY <1>1, PatchInvariant, PTL

EditsInNat == edits \in Nat

LEMMA EditsCounted == PatchSpec => []EditsInNat
<1>1. PatchInit => EditsInNat
  BY DEF PatchInit, EditsInNat
<1>2. ASSUME EditsInNat, [PatchNext]_patchVars
      PROVE  EditsInNat'
  <2>1. edits' \in {edits, edits + 1}
    <3>1. CASE \/ Preflight \/ VerifyAtRevision \/ Propose \/ AgentFails \/ RejectProposal
               \/ RefuseEvidence \/ RejectOperations \/ Reconcile
      BY <3>1 DEF Preflight, VerifyAtRevision, Propose, AgentFails, RejectProposal,
                  RefuseEvidence, RejectOperations, Reconcile, Advance, Quietly, checkout
    <3>2. CASE Capture \/ Compare \/ Write \/ RecordWrite \/ Attach \/ Undone
      BY <3>2 DEF Capture, Compare, Refuse, Write, RecordWrite, Attach, Undone, Advance, Quietly,
                  checkout
    <3>3. CASE Diff \/ Evaluate \/ PutContent \/ CreateMetadata \/ StoreFails \/ Stop
      BY <3>3 DEF Diff, Evaluate, PutContent, CreateMetadata, StoreFails, Stop, checkout
    <3>4. CASE \E class \in {"CONFIGURATION", "POLICY"} : ReadFails(class)
      BY <3>4 DEF ReadFails, checkout
    <3>5. CASE \E p \in Editable : \/ Read(p) \/ Reread(p) \/ UndoStep(p)
                                   \/ Unwrite(p) \/ RecordUndo(p) \/ Edit(p)
      BY <3>5 DEF Read, Reread, UndoStep, UndoFirst, UndoAgain, Unwrite, RecordUndo, Edit, Advance,
                  Quietly, checkout
    <3>6. CASE UNCHANGED patchVars
      BY <3>6 DEF patchVars
    <3> QED BY <1>2, <3>1, <3>2, <3>3, <3>4, <3>5, <3>6 DEF PatchNext
  <2> QED BY <1>2, <2>1 DEF EditsInNat
<1> QED BY <1>1, <1>2, PTL DEF PatchSpec

\* What somebody else has written into an authorized file is overwritten only by
\* an invocation that compared before, and only in its own file, or by the clause
\* that puts nothing back after an error before the comparison (compare_write,
\* compare_delete, _restore_preimage).
THEOREM ForeignKept == PatchSpec => ForeignEditsKept
<1> USE AttemptsAreNumbers
<1> DEFINE Lost(p) == file[p] = Foreign /\ file'[p] # Foreign /\ edits' = edits
           Allowed(p) == \/ Operating(p) /\ current # Foreign
                         \/ step \in {"compare", "undo"} /\ file'[p] = Torn
<1>1. ASSUME PatchInv, EditsInNat, [PatchNext]_patchVars, NEW p \in Editable, Lost(p)
      PROVE  Allowed(p)
  <2>1. now \in Attempts /\ file \in [Editable -> Contents]
    BY <1>1 DEF PatchInv, PatchTypes
  <2>2. file' # file /\ current # Foreign
    BY <1>1 DEF PatchInv, Reads
  <2>3. ASSUME NEW q \in Editable, NEW c, Put(q, c)
        PROVE  q = p /\ file'[p] = c
    BY <1>1, <2>1, <2>3 DEF Put
  <2>4. CASE Compare
    <3>1. step = "compare" /\ Head(changes) \in Editable
      BY <1>1, <2>4, HeadIn DEF Compare, At, PatchInv, PatchTypes, Flow
    <3>2. \E c \in {file[Head(changes)], Torn} : Put(Head(changes), c)
      BY <2>2, <2>4 DEF Compare, checkout
    <3> QED BY <1>1, <2>3, <3>1, <3>2
  <2>5. CASE Write \/ RecordWrite
    <3>1. step \in {"write", "record"} /\ Head(changes) \in Editable
      BY <1>1, <2>5, HeadIn DEF Write, RecordWrite, At, PatchInv, PatchTypes, Flow
    <3>2. \E c \in Contents : Put(Head(changes), c)
      <4>1. {now, current, Torn, preimage, file[Head(changes)]} \subseteq Contents
        BY <1>1, <2>1, <3>1 DEF PatchInv, Reads, Contents
      <4> QED BY <2>2, <2>5, <4>1 DEF Write, RecordWrite, PutBack, Replaced, checkout
    <3> QED BY <2>2, <2>3, <3>1, <3>2 DEF Operating
  <2>6. ASSUME NEW q \in Editable, UndoStep(q)
        PROVE  Allowed(p)
    <3>1. step = "undo" /\ \E c \in {file[q], Torn} : Put(q, c)
      BY <2>2, <2>6 DEF UndoStep, UndoFirst, UndoAgain, At, Quietly, checkout
    <3> QED BY <1>1, <2>3, <3>1
  <2>7. ASSUME NEW q \in Editable, Unwrite(q) \/ RecordUndo(q)
        PROVE  Allowed(p)
    <3>1. step \in {"unwrite", "undone"} /\ LastApplied(q) /\ \E c : Put(q, c)
      BY <2>2, <2>7 DEF Unwrite, RecordUndo, At, PutBack, Replaced, checkout
    <3> QED BY <2>2, <2>3, <3>1 DEF Operating
  <2>8. ASSUME NEW q \in Editable, Edit(q)
        PROVE  FALSE
    <3>1. edits' = edits + 1
      BY <2>8 DEF Edit
    <3> QED BY <1>1, <3>1 DEF EditsInNat
  <2> HIDE DEF Allowed
  <2> QED
    BY <1>1, <2>2, <2>4, <2>5, <2>6, <2>7, <2>8
    DEF PatchNext, Preflight, VerifyAtRevision, Propose, AgentFails, RejectProposal,
        RefuseEvidence, RejectOperations, Reconcile, Capture, Attach, Undone, Diff, Evaluate,
        PutContent, CreateMetadata, StoreFails, Stop, ReadFails, Read, Reread, Advance, Quietly,
        checkout, patchVars
<1>2. PatchInv /\ EditsInNat /\ [PatchNext]_patchVars => \A p \in Editable : Lost(p) => Allowed(p)
  BY <1>1
<1> QED BY <1>2, PatchInvariant, EditsCounted, PTL DEF PatchSpec, ForeignEditsKept

-----------------------------------------------------------------------------
(***************************************************************************)
(* The chain of evidence.                                                  *)
(***************************************************************************)

Tasks5 == Analyze..Accept
Reports == {"none", "RUNNING", "SUCCEEDED", "EVALUATION", "RECOVERABLE", "POLICY",
            "CONFIGURATION", "PERMANENT"}
Returns == Reports \ {"none", "RUNNING"}

RecordTypes ==
  /\ \A r \in judged : /\ r.of \in TaskExecutions /\ r.kind \in KindsOf(r.of[1])
                       /\ r = Judgement(r.of, r.kind, r.outcome, r.target)
                       /\ r.outcome \in {"PASS", "FAIL"}
                       /\ r.of[1] # Analyze => r.target = TargetOf(r.kind)
  /\ attached \in [TaskExecutions -> SUBSET (Kinds \cup {"artifact"})]
  /\ published \in [TaskExecutions -> SUBSET Kinds]
  /\ \A i \in TaskExecutions : /\ published[i] \subseteq KindsOf(i[1])
                               /\ attached[i] \subseteq KindsOf(i[1]) \cup {"artifact"}
  /\ unreadable \subseteq TaskExecutions /\ normalized \in BOOLEAN
  /\ call \in [Turns -> Results \cup {NotRun}]

Spots == {"inputs", "work", "record", "link", "publish", "linkArtifact", "over"}

EvidenceTypes ==
  /\ turn \in [Tasks5 -> 0..MaxTurns] /\ report \in [TaskExecutions -> Reports]
  /\ spot \in Spots /\ returning \in Returns \cup {"none"} /\ RecordTypes

\* The Tasks start one after the other.
Reached(c) == \A t \in Tasks5 : turn[t] > 0 <=> t <= c
Ordered == \E c \in Tasks5 : Reached(c)

Blank(i) == /\ attached[i] = {} /\ published[i] = {}
            /\ \A r \in judged : r.of # i

\* Attempts that have not begun have nothing on record.
FutureBlank == \A i \in TaskExecutions : i[2] > turn[i[1]] => Blank(i)

\* One judgement of each kind.
OneOfEach == \A r, s \in judged : r.of = s.of /\ r.kind = s.kind => r = s

\* What a Task that has succeeded leaves: all its evaluations, which passed.
Good(t) ==
  LET i == Latest(t)
  IN /\ report[i] = "SUCCEEDED"
     /\ published[i] = KindsOf(t) /\ attached[i] = KindsOf(t) \cup {"artifact"}
     /\ Recorded(i) = KindsOf(t)
     /\ \A r \in judged : r.of = i => r.outcome = "PASS"
     /\ t = Validate => call[turn[Validate]] = [class |-> "SUCCEEDED", passed |-> 2]

\* The last Evaluation of a Task, which decides whether its record is complete.
LastKind(t) == CASE t = Patch -> "patch" [] t = Validate -> "test" [] OTHER -> "schema"

\* What the attempt that runs has on record, at each place of its handler.
Own ==
  LET t == Current
      i == Here
      kept == Recorded(i)
  IN /\ t = Accept => spot \in {"inputs", "link", "over"}
     /\ spot \in {"inputs", "work"} => Blank(i)
     /\ t # Accept /\ spot = "record" => LastKind(t) \notin kept
     /\ t # Accept /\ spot \in {"record", "link"} => attached[i] \subseteq kept /\ published[i] = {}
     /\ t # Accept /\ spot = "link" =>
          kept = KindsOf(t) \/ (t = Patch /\ kept = {"reconciliation"})
     /\ spot \in {"publish", "linkArtifact"} => kept = KindsOf(t) /\ attached[i] = kept
     /\ spot = "publish" => published[i] = {}
     /\ spot = "linkArtifact" => published[i] = KindsOf(t)
     /\ spot \in {"record", "link", "publish", "linkArtifact"} => returning # "none"
     /\ t # Accept /\ spot \in {"record", "link", "publish", "linkArtifact"}
          /\ returning = "SUCCEEDED" =>
          /\ \A r \in judged : r.of = i => r.outcome = "PASS"
          /\ t = Validate => call[turn[Validate]] = [class |-> "SUCCEEDED", passed |-> 2]

\* The plan was not made of an analysis that its context does not take.
PlanInformed ==
  Current > PlanTask \/ (Current = PlanTask /\ spot \notin {"inputs", "over"}) =>
    Usable(Latest(Analyze))

Chain == \A t \in Tasks5 : t < Current => Good(t)

\* A chain of successes is refused for lost content only.
RefusedForLoss ==
  \A r \in judged : r.kind = "acceptance" /\ r.outcome = "FAIL" => unreadable # {}

EvidenceInv ==
  /\ EvidenceTypes /\ Ordered /\ FutureBlank /\ OneOfEach /\ Chain /\ Own /\ PlanInformed
  /\ RefusedForLoss

-----------------------------------------------------------------------------

LEMMA TaskNumbers ==
  /\ Tasks5 = 1..5 /\ Analyze = 1 /\ PlanTask = 2 /\ Patch = 3 /\ Validate = 4 /\ Accept = 5
  /\ MaxTurns \in Nat /\ 1 <= MaxTurns /\ Turns = 1..MaxTurns
  BY EvidenceAssumption DEF Tasks5, Analyze, PlanTask, Patch, Validate, Accept, Turns

LEMMA DeclaredAre ==
  /\ Declared[Analyze] = <<"schema">> /\ Declared[PlanTask] = <<"schema">>
  /\ Declared[Patch] = <<"reconciliation", "patch">> /\ Declared[Validate] = <<"build", "test">>
  /\ Declared[Accept] = <<"acceptance">>
  BY DEF Declared, Analyze, PlanTask, Patch, Validate, Accept

LEMMA OneKind ==
  ASSUME NEW a
  PROVE  {<<a>>[j] : j \in DOMAIN <<a>>} = {a}
  OBVIOUS

LEMMA TwoKinds ==
  ASSUME NEW a, NEW b
  PROVE  {<<a, b>>[j] : j \in DOMAIN <<a, b>>} = {a, b}
<1>1. DOMAIN <<a, b>> = {1, 2}
  OBVIOUS
<1> QED BY <1>1

LEMMA KindsAre ==
  /\ KindsOf(Analyze) = {"schema"} /\ KindsOf(PlanTask) = {"schema"}
  /\ KindsOf(Patch) = {"reconciliation", "patch"} /\ KindsOf(Validate) = {"build", "test"}
  /\ KindsOf(Accept) = {"acceptance"}
<1>1. KindsOf(Analyze) = {"schema"} /\ KindsOf(PlanTask) = {"schema"}
  BY DeclaredAre, OneKind DEF KindsOf
<1>2. KindsOf(Patch) = {"reconciliation", "patch"} /\ KindsOf(Validate) = {"build", "test"}
  BY DeclaredAre, TwoKinds DEF KindsOf
<1>3. KindsOf(Accept) = {"acceptance"}
  BY DeclaredAre, OneKind DEF KindsOf
<1> QED BY <1>1, <1>2, <1>3

LEMMA KindsNamed ==
  ASSUME NEW t \in Tasks5
  PROVE  KindsOf(t) \subseteq Kinds /\ "artifact" \notin KindsOf(t) /\ KindsOf(t) # {}
         /\ (t # Accept => "acceptance" \notin KindsOf(t) /\ LastKind(t) \in KindsOf(t))
<1>1. t \in {Analyze, PlanTask, Patch, Validate, Accept}
  BY TaskNumbers
<1>2. CASE t = Analyze \/ t = PlanTask
  <2>1. LastKind(t) = "schema" /\ KindsOf(t) = {"schema"}
    BY <1>2, KindsAre, TaskNumbers DEF LastKind
  <2> QED BY <2>1 DEF Kinds
<1>3. CASE t = Patch
  <2>1. LastKind(t) = "patch" /\ KindsOf(t) = {"reconciliation", "patch"}
    BY <1>3, KindsAre, TaskNumbers DEF LastKind
  <2> QED BY <2>1 DEF Kinds
<1>4. CASE t = Validate
  <2>1. LastKind(t) = "test" /\ KindsOf(t) = {"build", "test"}
    BY <1>4, KindsAre, TaskNumbers DEF LastKind
  <2> QED BY <2>1 DEF Kinds
<1>5. CASE t = Accept
  BY <1>5, KindsAre DEF Kinds
<1> QED BY <1>1, <1>2, <1>3, <1>4, <1>5

\* The Task that runs is the last one that has begun.
LEMMA LastBegun ==
  ASSUME NEW begun \in [Tasks5 -> 0..MaxTurns], NEW c \in Tasks5,
         \A t \in Tasks5 : begun[t] > 0 <=> t <= c
  PROVE  (CHOOSE t \in Analyze..Accept : begun[t] > 0 /\ (t = Accept \/ begun[t + 1] = 0)) = c
<1> DEFINE P(t) == begun[t] > 0 /\ (t = Accept \/ begun[t + 1] = 0)
<1>1. P(c)
  <2>1. begun[c] > 0
    BY TaskNumbers
  <2>2. c # Accept => c + 1 \in Tasks5 /\ ~ (begun[c + 1] > 0)
    BY TaskNumbers
  <2>3. c # Accept => begun[c + 1] = 0
    BY <2>2, TaskNumbers
  <2> QED BY <2>1, <2>3
<1>2. ASSUME NEW t \in Tasks5, P(t)
      PROVE  t = c
  <2>1. t <= c
    BY <1>2
  <2>2. CASE t = Accept
    BY <2>1, <2>2, TaskNumbers
  <2>3. CASE t # Accept /\ begun[t + 1] = 0
    <3>1. t + 1 \in Tasks5
      BY <2>3, TaskNumbers
    <3>2. ~ (t + 1 <= c)
      BY <2>3, <3>1
    <3> QED BY <2>1, <3>2, TaskNumbers
  <2> QED BY <1>2, <2>2, <2>3
<1> HIDE DEF P
<1>3. c = CHOOSE t \in Tasks5 : P(t)
  BY <1>1, <1>2
<1> QED BY <1>3 DEF P, Tasks5

LEMMA CurrentIs ==
  ASSUME turn \in [Tasks5 -> 0..MaxTurns], NEW c \in Tasks5, Reached(c)
  PROVE  Current = c
<1>1. PICK begun : begun = turn
  OBVIOUS
<1> QED BY <1>1, LastBegun DEF Current, Reached

LEMMA CurrentBecomes ==
  ASSUME turn' \in [Tasks5 -> 0..MaxTurns], NEW c \in Tasks5, Reached(c)'
  PROVE  Current' = c
<1>1. PICK begun : begun = turn'
  OBVIOUS
<1> QED BY <1>1, LastBegun DEF Current, Reached

LEMMA CurrentReached ==
  ASSUME EvidenceTypes, Ordered
  PROVE  /\ Current \in Tasks5 /\ Reached(Current)
         /\ turn[Current] \in Turns /\ Here \in TaskExecutions
         /\ \A t \in Tasks5 : t <= Current => turn[t] \in Turns /\ Latest(t) \in TaskExecutions
<1>1. PICK c \in Tasks5 : Reached(c)
  BY DEF Ordered
<1>2. Current = c
  BY <1>1, CurrentIs DEF EvidenceTypes
<1>3. \A t \in Tasks5 : t <= c => turn[t] \in Turns
  BY <1>1, TaskNumbers DEF Reached, EvidenceTypes
<1>4. \A t \in Tasks5 : t <= c => Latest(t) \in TaskExecutions
  BY <1>3 DEF Latest, TaskExecutions, Tasks5
<1> QED BY <1>1, <1>2, <1>3, <1>4, TaskNumbers DEF Here, Latest

-----------------------------------------------------------------------------
(* A step works on the records of its own attempt.                         *)

OnlyHere ==
  /\ judged \subseteq judged' /\ \A r \in judged' : r \in judged \/ r.of = Here
  /\ \A i \in TaskExecutions : i # Here => attached'[i] = attached[i] /\ published'[i] = published[i]
  /\ Current = Validate \/ call' = call

LEMMA PairsDiffer ==
  ASSUME NEW t \in Tasks5, t # Current
  PROVE  Latest(t) # Here
  BY DEF Latest, Here

LEMMA RecordedElsewhere ==
  ASSUME OnlyHere, NEW i, i # Here
  PROVE  Recorded(i)' = Recorded(i)
<1>1. {x \in judged' : x.of = i} = {x \in judged : x.of = i}
  BY DEF OnlyHere
<1> QED BY <1>1 DEF Recorded

LEMMA BlankKept ==
  ASSUME OnlyHere, NEW i \in TaskExecutions, i # Here, Blank(i)
  PROVE  Blank(i)'
  BY DEF OnlyHere, Blank

LEMMA GoodKept ==
  ASSUME EvidenceInv, OnlyHere, NEW t \in Tasks5, t < Current, turn'[t] = turn[t],
         report'[Latest(t)] = report[Latest(t)], turn'[Validate] = turn[Validate] \/ t # Validate
  PROVE  Good(t)'
<1>0. PICK i : i = Latest(t)
  OBVIOUS
<1>1. Good(t) /\ i \in TaskExecutions /\ i # Here
  BY <1>0, CurrentReached, PairsDiffer, TaskNumbers DEF EvidenceInv, Chain
<1>2. Latest(t)' = i
  BY <1>0 DEF Latest
<1>3. Recorded(i)' = Recorded(i)
  BY <1>1, RecordedElsewhere
<1>4. t = Validate => call' = call
  BY TaskNumbers DEF OnlyHere
<1>5. \A r \in judged' : r.of = i => r.outcome = "PASS"
  BY <1>0, <1>1 DEF OnlyHere, Good
<1>6. attached'[i] = attached[i] /\ published'[i] = published[i]
  BY <1>1 DEF OnlyHere
<1>7. report'[i] = report[i]
  BY <1>0
<1>8. Recorded(Latest(t))' = Recorded(i)
  BY <1>2, <1>3 DEF Recorded
<1>9. t = Validate => call'[turn'[Validate]] = [class |-> "SUCCEEDED", passed |-> 2]
  BY <1>1, <1>4 DEF Good
<1>10. report[i] = "SUCCEEDED" /\ published[i] = KindsOf(t)
       /\ attached[i] = KindsOf(t) \cup {"artifact"} /\ Recorded(i) = KindsOf(t)
  BY <1>0, <1>1 DEF Good
<1> QED BY <1>2, <1>5, <1>6, <1>7, <1>8, <1>9, <1>10 DEF Good

LEMMA UsableKept ==
  ASSUME OnlyHere, NEW i \in TaskExecutions, i # Here, Usable(i)
  PROVE  Usable(i)'
  BY DEF OnlyHere, Usable, Handed, Passes

\* What a Task that succeeded hands on is what it should be.
LEMMA GoodUsable ==
  ASSUME EvidenceTypes, NEW t \in Tasks5, Latest(t) \in TaskExecutions, t # Analyze, Good(t)
  PROVE  Usable(Latest(t))
<1> DEFINE i == Latest(t)
<1>1. i[1] = t
  BY DEF Latest
<1>2. published[i] = KindsOf(t) /\ attached[i] = KindsOf(t) \cup {"artifact"} /\ Recorded(i) = KindsOf(t)
  BY DEF Good
<1>3. ASSUME NEW k \in KindsOf(t)
      PROVE  Passes(i, k)
  <2>1. PICK r \in judged : r.of = i /\ r.kind = k
    BY <1>2 DEF Recorded
  <2>2. r.outcome = "PASS"
    BY <2>1 DEF Good
  <2>3. r.target = TargetOf(k) /\ r = Judgement(r.of, r.kind, r.outcome, r.target)
    BY <1>1, <2>1 DEF EvidenceTypes, RecordTypes
  <2>4. r = Judgement(i, k, "PASS", TargetOf(k))
    BY <2>1, <2>2, <2>3
  <2> QED BY <2>1, <2>4 DEF Passes
<1> HIDE DEF i
<1>4. Handed(i)
  BY <1>1, <1>2 DEF Handed
<1>5. Usable(i)
  BY <1>2, <1>3, <1>4 DEF Usable
<1> QED BY <1>5 DEF i

\* Once acceptance is at work, the whole chain is what it should be.
LEMMA ChainUsable ==
  ASSUME EvidenceInv, Current = Accept, NEW t \in Analyze..Validate
  PROVE  Good(t) /\ Usable(Latest(t)) /\ Latest(t) \in TaskExecutions
<1>1. t \in Tasks5 /\ t < Current
  BY TaskNumbers
<1>2. Good(t)
  BY <1>1 DEF EvidenceInv, Chain
<1>3. Latest(t) \in TaskExecutions
  BY <1>1, CurrentReached, TaskNumbers DEF EvidenceInv
<1>4. t = Analyze => Usable(Latest(t))
  BY TaskNumbers DEF EvidenceInv, PlanInformed
<1> QED BY <1>1, <1>2, <1>3, <1>4, GoodUsable DEF EvidenceInv

-----------------------------------------------------------------------------
(* Moves within an attempt, and its end.                                   *)

LEMMA HereKept ==
  ASSUME turn' = turn
  PROVE  Current' = Current /\ Here' = Here
  BY DEF Current, Here, Latest

Moves ==
  /\ OnlyHere /\ RecordTypes' /\ OneOfEach' /\ RefusedForLoss'
  /\ turn' = turn /\ report' = report
  /\ spot' \in Spots /\ returning' \in Returns \cup {"none"}

LEMMA MoveKeeps ==
  ASSUME EvidenceInv, Moves, Own',
         Current = PlanTask /\ spot' \notin {"inputs", "over"} =>
           spot \notin {"inputs", "over"} \/ Usable(Latest(Analyze))
  PROVE  EvidenceInv'
<1>1. Current' = Current /\ Here' = Here /\ turn' = turn /\ report' = report
  BY HereKept DEF Moves
<1>2. EvidenceTypes'
  BY DEF Moves, EvidenceInv, EvidenceTypes
<1>3. Ordered'
  BY <1>1 DEF EvidenceInv, Ordered, Reached
<1>4. Current \in Tasks5 /\ OnlyHere
  BY CurrentReached DEF EvidenceInv, Moves
<1>5. FutureBlank'
  <2> SUFFICES ASSUME NEW i \in TaskExecutions, i[2] > turn[i[1]]
               PROVE  Blank(i)'
    BY <1>1 DEF FutureBlank
  <2>1. Here[2] = turn[Here[1]] /\ turn[Here[1]] \in Nat
    BY <1>4, TaskNumbers DEF Here, Latest, EvidenceInv, EvidenceTypes
  <2>2. i # Here
    BY <2>1
  <2> QED BY <1>4, <2>2, BlankKept DEF EvidenceInv, FutureBlank
<1>6. Chain'
  BY <1>1, <1>4, GoodKept DEF Chain
<1>7. PlanInformed'
  <2> SUFFICES ASSUME Current > PlanTask \/ (Current = PlanTask /\ spot' \notin {"inputs", "over"})
               PROVE  Usable(Latest(Analyze))'
    BY <1>1 DEF PlanInformed
  <2>1. Usable(Latest(Analyze))
    BY DEF EvidenceInv, PlanInformed
  <2>2. PICK i : i = Latest(Analyze)
    OBVIOUS
  <2>3. i \in TaskExecutions /\ i # Here
    BY <1>4, <2>2, CurrentReached, PairsDiffer, TaskNumbers DEF EvidenceInv
  <2>4. Usable(i)'
    BY <1>4, <2>1, <2>2, <2>3, UsableKept
  <2>5. Latest(Analyze)' = i
    BY <1>1, <2>2 DEF Latest
  <2> QED BY <2>4, <2>5 DEF Usable, Handed, Passes
<1> QED BY <1>2, <1>3, <1>5, <1>6, <1>7 DEF EvidenceInv, Moves

\* The three ways an attempt ends: for good, in another attempt, in the next Task.
Over(r) ==
  /\ turn' = turn /\ spot' = "over"
  /\ report' = [i \in TaskExecutions |-> IF i = Here THEN r ELSE report[i]]
Again(r) ==
  /\ turn[Current] < MaxTurns /\ spot' = "inputs"
  /\ turn' = [turn EXCEPT ![Current] = turn[Current] + 1]
  /\ report' = [i \in TaskExecutions |->
                  IF i = Here THEN r
                  ELSE IF i = <<Current, turn[Current] + 1>> THEN "RUNNING" ELSE report[i]]
Onwards(r) ==
  /\ r = "SUCCEEDED" /\ Current < Accept /\ spot' = "inputs"
  /\ turn' = [turn EXCEPT ![Current + 1] = 1]
  /\ report' = [i \in TaskExecutions |->
                  IF i = Here THEN r
                  ELSE IF i = <<Current + 1, 1>> THEN "RUNNING" ELSE report[i]]

LEMMA Concludes ==
  ASSUME NEW r, Conclude(r)
  PROVE  (Over(r) \/ Again(r) \/ Onwards(r)) /\ returning' = "none"
<1>1. CASE r = "RECOVERABLE" /\ turn[Current] < MaxTurns /\ Cardinality(Retried) < MaxRetries
  <2>1. /\ report' = [i \in TaskExecutions |->
                  IF i = Here THEN r
                  ELSE IF i = <<Current, turn[Current] + 1>> THEN "RUNNING" ELSE report[i]]
        /\ turn' = [turn EXCEPT ![<<Current, turn[Current] + 1>>[1]] = <<Current, turn[Current] + 1>>[2]]
        /\ spot' = "inputs" /\ returning' = "none"
    BY <1>1 DEF Conclude, Go
  <2> QED BY <1>1, <2>1 DEF Again
<1>2. CASE r = "SUCCEEDED" /\ Current < Accept
  <2>1. /\ report' = [i \in TaskExecutions |->
                  IF i = Here THEN r
                  ELSE IF i = <<Current + 1, 1>> THEN "RUNNING" ELSE report[i]]
        /\ turn' = [turn EXCEPT ![<<Current + 1, 1>>[1]] = <<Current + 1, 1>>[2]]
        /\ spot' = "inputs" /\ returning' = "none"
    BY <1>2 DEF Conclude, Go
  <2> QED BY <1>2, <2>1 DEF Onwards
<1>3. CASE /\ ~ (r = "RECOVERABLE" /\ turn[Current] < MaxTurns /\ Cardinality(Retried) < MaxRetries)
           /\ ~ (r = "SUCCEEDED" /\ Current < Accept)
  <2>1. /\ report' = [i \in TaskExecutions |-> IF i = Here THEN r ELSE report[i]]
        /\ turn' = turn /\ spot' = "over" /\ returning' = "none"
    BY <1>3 DEF Conclude, Go
  <2> QED BY <2>1 DEF Over
<1> QED BY <1>1, <1>2, <1>3

\* What is said of the records when an attempt ends.
Closes(r) ==
  /\ OnlyHere /\ RecordTypes' /\ OneOfEach' /\ RefusedForLoss' /\ returning' = "none"
  /\ r = "SUCCEEDED" /\ Current # Accept =>
       /\ spot = "linkArtifact"
       /\ published'[Here] = KindsOf(Current) /\ attached'[Here] = KindsOf(Current) \cup {"artifact"}
       /\ {x.kind : x \in {y \in judged' : y.of = Here}} = KindsOf(Current)
       /\ \A x \in judged' : x.of = Here => x.outcome = "PASS"
       /\ Current = Validate => call'[turn[Validate]] = [class |-> "SUCCEEDED", passed |-> 2]

LEMMA OverKeeps ==
  ASSUME EvidenceInv, NEW r \in Returns, Over(r), Closes(r)
  PROVE  EvidenceInv'
<1>1. Current' = Current /\ Here' = Here /\ turn' = turn
  BY HereKept DEF Over
<1>2. Current \in Tasks5 /\ OnlyHere
  BY CurrentReached DEF EvidenceInv, Closes
<1>3. \A i \in TaskExecutions : i # Here => report'[i] = report[i]
  BY DEF Over
<1>4. EvidenceTypes'
  <2>1. report' \in [TaskExecutions -> Reports]
    BY DEF Over, EvidenceInv, EvidenceTypes, Returns
  <2> QED BY <2>1, <1>1 DEF Over, Closes, EvidenceInv, EvidenceTypes, Spots
<1>5. Ordered'
  BY <1>1 DEF EvidenceInv, Ordered, Reached
<1>6. FutureBlank'
  <2> SUFFICES ASSUME NEW i \in TaskExecutions, i[2] > turn[i[1]]
               PROVE  Blank(i)'
    BY <1>1 DEF FutureBlank
  <2>1. Here[2] = turn[Here[1]] /\ turn[Here[1]] \in Nat
    BY <1>2, TaskNumbers DEF Here, Latest, EvidenceInv, EvidenceTypes
  <2> QED BY <1>2, <2>1, BlankKept DEF EvidenceInv, FutureBlank
<1>7. Chain'
  <2> SUFFICES ASSUME NEW t \in Tasks5, t < Current
               PROVE  Good(t)'
    BY <1>1 DEF Chain
  <2>1. Latest(t) # Here /\ Latest(t) \in TaskExecutions
    BY <1>2, CurrentReached, PairsDiffer, TaskNumbers DEF EvidenceInv
  <2> QED BY <1>1, <1>2, <1>3, <2>1, GoodKept
<1>8. Own'
  BY <1>1 DEF Own, Over
<1>9. PlanInformed'
  <2> SUFFICES ASSUME Current > PlanTask
               PROVE  Usable(Latest(Analyze))'
    BY <1>1 DEF PlanInformed, Over
  <2>1. Usable(Latest(Analyze))
    BY DEF EvidenceInv, PlanInformed
  <2>2. PICK i : i = Latest(Analyze)
    OBVIOUS
  <2>3. i \in TaskExecutions /\ i # Here
    BY <1>2, <2>2, CurrentReached, PairsDiffer, TaskNumbers DEF EvidenceInv
  <2>4. Usable(i)'
    BY <1>2, <2>1, <2>2, <2>3, UsableKept
  <2>5. Latest(Analyze)' = i
    BY <1>1, <2>2 DEF Latest
  <2> QED BY <2>4, <2>5 DEF Usable, Handed, Passes
<1> QED BY <1>4, <1>5, <1>6, <1>7, <1>8, <1>9 DEF EvidenceInv, Closes

LEMMA AgainKeeps ==
  ASSUME EvidenceInv, NEW r \in Returns, Again(r), Closes(r)
  PROVE  EvidenceInv'
<1>0. PICK c : c = Current
  OBVIOUS
<1>1. /\ c \in Tasks5 /\ OnlyHere /\ Reached(c) /\ turn \in [Tasks5 -> 0..MaxTurns]
      /\ turn[c] \in Turns /\ turn[c] \in Nat
  BY <1>0, CurrentReached, TaskNumbers DEF EvidenceInv, Closes, EvidenceTypes
<1>2. turn' = [turn EXCEPT ![c] = turn[c] + 1] /\ turn[c] < MaxTurns /\ spot' = "inputs"
  BY <1>0 DEF Again
<1>3. turn' \in [Tasks5 -> 0..MaxTurns]
      /\ \A t \in Tasks5 : turn'[t] = IF t = c THEN turn[c] + 1 ELSE turn[t]
  BY <1>1, <1>2, TaskNumbers
<1>4. Reached(c)'
  <2> SUFFICES ASSUME NEW t \in Tasks5
               PROVE  turn'[t] > 0 <=> t <= c
    BY DEF Reached
  <2>1. turn[t] > 0 <=> t <= c
    BY <1>1 DEF Reached
  <2>2. CASE t = c
    <3>1. turn'[c] = turn[c] + 1
      BY <1>3, <1>1
    <3>2. turn'[c] > 0
      BY <1>1, <3>1
    <3>3. t <= c
      BY <2>2, TaskNumbers
    <3> QED BY <2>2, <3>2, <3>3
  <2>3. CASE t # c
    BY <1>3, <2>1, <2>3
  <2> QED BY <2>2, <2>3
<1>5. Current' = c
  BY <1>1, <1>3, <1>4, CurrentBecomes
<1>6. Here' = <<c, turn[c] + 1>> /\ Here = <<c, turn[c]>>
  BY <1>0, <1>1, <1>3, <1>5 DEF Here, Latest
<1>7. \A i \in TaskExecutions : i # Here /\ i # Here' => report'[i] = report[i]
  BY <1>0, <1>6 DEF Again
<1>8. EvidenceTypes'
  <2>1. report' \in [TaskExecutions -> Reports]
    BY DEF Again, EvidenceInv, EvidenceTypes, Returns, Reports
  <2> QED BY <2>1, <1>2, <1>3 DEF Closes, EvidenceTypes, Spots
<1>9. Ordered'
  BY <1>1, <1>4 DEF Ordered
<1>10. FutureBlank'
  <2> SUFFICES ASSUME NEW i \in TaskExecutions, i[2] > turn'[i[1]]
               PROVE  Blank(i)'
    BY DEF FutureBlank
  <2>1. i[1] \in Tasks5 /\ i[2] \in Nat
    BY TaskNumbers DEF TaskExecutions, Tasks5
  <2>2. i[2] > turn[i[1]]
    <3>1. CASE i[1] = c
      <4>1. i[2] > turn[c] + 1
        BY <1>3, <2>1, <3>1
      <4> QED BY <1>1, <2>1, <3>1, <4>1
    <3>2. CASE i[1] # c
      BY <1>3, <2>1, <3>2
    <3> QED BY <3>1, <3>2
  <2>3. i # Here
    BY <1>1, <1>6, <2>2
  <2> QED BY <1>1, <2>2, <2>3, BlankKept DEF EvidenceInv, FutureBlank
<1>11. Chain'
  <2> SUFFICES ASSUME NEW t \in Tasks5, t < c
               PROVE  Good(t)'
    BY <1>5 DEF Chain
  <2>1. Latest(t) \in TaskExecutions /\ t # c
    BY <1>0, <1>1, CurrentReached, TaskNumbers DEF EvidenceInv
  <2>2. Latest(t) # Here /\ Latest(t) # Here' /\ turn'[t] = turn[t]
    BY <1>3, <1>6, <2>1 DEF Latest
  <2>3. report'[Latest(t)] = report[Latest(t)]
    BY <1>7, <2>1, <2>2
  <2>4. turn'[Validate] = turn[Validate] \/ t # Validate
    BY <2>2
  <2> QED BY <1>0, <1>1, <2>2, <2>3, <2>4, GoodKept
<1>12. Own'
  <2>1. PICK n : n = Here'
    OBVIOUS
  <2>2. n \in TaskExecutions /\ n[2] > turn[n[1]] /\ n # Here
    BY <1>1, <1>2, <1>6, <2>1, TaskNumbers DEF TaskExecutions, Tasks5
  <2>3. Blank(n)'
    BY <1>1, <2>2, BlankKept DEF EvidenceInv, FutureBlank
  <2>4. Blank(Here)'
    BY <2>1, <2>3 DEF Blank
  <2> QED BY <1>2, <2>4 DEF Own
<1>13. PlanInformed'
  <2> SUFFICES ASSUME c > PlanTask
               PROVE  Usable(Latest(Analyze))'
    BY <1>2, <1>5 DEF PlanInformed
  <2>1. Usable(Latest(Analyze))
    BY <1>0 DEF EvidenceInv, PlanInformed
  <2>2. PICK i : i = Latest(Analyze)
    OBVIOUS
  <2>3. i \in TaskExecutions /\ i # Here
    BY <1>0, <1>1, <2>2, CurrentReached, PairsDiffer, TaskNumbers DEF EvidenceInv
  <2>4. Usable(i)'
    BY <1>1, <2>1, <2>2, <2>3, UsableKept
  <2>5. Latest(Analyze)' = i
    BY <1>1, <1>3, <2>2, TaskNumbers DEF Latest
  <2> QED BY <2>4, <2>5 DEF Usable, Handed, Passes
<1> QED BY <1>8, <1>9, <1>10, <1>11, <1>12, <1>13 DEF EvidenceInv, Closes

LEMMA OnwardsKeeps ==
  ASSUME EvidenceInv, NEW r \in Returns, Onwards(r), Closes(r)
  PROVE  EvidenceInv'
<1>0. PICK c : c = Current
  OBVIOUS
<1>1. /\ c \in Tasks5 /\ OnlyHere /\ Reached(c) /\ turn \in [Tasks5 -> 0..MaxTurns]
      /\ turn[c] \in Turns /\ turn[c] \in Nat
  BY <1>0, CurrentReached, TaskNumbers DEF EvidenceInv, Closes, EvidenceTypes
<1>2. /\ turn' = [turn EXCEPT ![c + 1] = 1] /\ c < Accept /\ spot' = "inputs" /\ c + 1 \in Tasks5
      /\ r = "SUCCEEDED"
  BY <1>0, <1>1, TaskNumbers DEF Onwards
<1>3. turn' \in [Tasks5 -> 0..MaxTurns]
      /\ \A t \in Tasks5 : turn'[t] = IF t = c + 1 THEN 1 ELSE turn[t]
  BY <1>1, <1>2, TaskNumbers
<1>4. Reached(c + 1)'
  BY <1>1, <1>2, <1>3, TaskNumbers DEF Reached
<1>4a. turn[c + 1] = 0
  <2>1. ~ (turn[c + 1] > 0) /\ turn[c + 1] \in 0..MaxTurns
    BY <1>1, <1>2, TaskNumbers DEF Reached
  <2> QED BY <2>1, TaskNumbers
<1>5. Current' = c + 1
  BY <1>2, <1>3, <1>4, CurrentBecomes
<1>6. Here' = <<c + 1, 1>> /\ Here = <<c, turn[c]>>
  BY <1>0, <1>1, <1>2, <1>3, <1>5 DEF Here, Latest
<1>7. \A i \in TaskExecutions : i # Here /\ i # Here' => report'[i] = report[i]
  BY <1>0, <1>6 DEF Onwards
<1>8. EvidenceTypes'
  <2>1. report' \in [TaskExecutions -> Reports]
    BY DEF Onwards, EvidenceInv, EvidenceTypes, Returns, Reports
  <2> QED BY <2>1, <1>2, <1>3 DEF Closes, EvidenceTypes, Spots
<1>9. Ordered'
  BY <1>2, <1>4 DEF Ordered
<1>10. FutureBlank'
  <2> SUFFICES ASSUME NEW i \in TaskExecutions, i[2] > turn'[i[1]]
               PROVE  Blank(i)'
    BY DEF FutureBlank
  <2>1. i[1] \in Tasks5 /\ i[2] \in Nat
    BY TaskNumbers DEF TaskExecutions, Tasks5
  <2>2. i[2] > turn[i[1]]
    <3>1. CASE i[1] = c + 1
      BY <1>3, <1>4a, <2>1, <3>1
    <3>2. CASE i[1] # c + 1
      BY <1>3, <2>1, <3>2
    <3> QED BY <3>1, <3>2
  <2>3. i # Here
    BY <1>1, <1>6, <2>2
  <2> QED BY <1>1, <2>2, <2>3, BlankKept DEF EvidenceInv, FutureBlank
<1>11. ASSUME NEW t \in Tasks5, t < c
       PROVE  Good(t)'
  <2>1. Latest(t) \in TaskExecutions /\ t # c /\ t # c + 1
    BY <1>0, <1>1, <1>11, CurrentReached, TaskNumbers DEF EvidenceInv
  <2>2. Latest(t) # Here /\ Latest(t) # Here' /\ turn'[t] = turn[t]
    BY <1>3, <1>6, <2>1 DEF Latest
  <2>3. report'[Latest(t)] = report[Latest(t)]
    BY <1>7, <2>1, <2>2
  <2>4. turn'[Validate] = turn[Validate] \/ t # Validate
    BY <2>2
  <2> QED BY <1>0, <1>1, <1>11, <2>2, <2>3, <2>4, GoodKept
<1>12. Good(c)'
  <2>0. PICK i : i = Here
    OBVIOUS
  <2>1. Latest(c)' = i /\ i \in TaskExecutions
    BY <1>0, <1>1, <1>2, <1>3, <1>6, <2>0, CurrentReached, TaskNumbers DEF Latest, EvidenceInv
  <2>2. report'[i] = "SUCCEEDED"
    BY <1>2, <2>0, <2>1 DEF Onwards
  <2>3. /\ published'[i] = KindsOf(c) /\ attached'[i] = KindsOf(c) \cup {"artifact"}
        /\ {x.kind : x \in {y \in judged' : y.of = i}} = KindsOf(c)
        /\ \A x \in judged' : x.of = i => x.outcome = "PASS"
        /\ c = Validate => call'[turn[Validate]] = [class |-> "SUCCEEDED", passed |-> 2]
    <3>1. Current # Accept /\ r = "SUCCEEDED"
      BY <1>0, <1>1, <1>2, TaskNumbers
    <3> QED BY <1>0, <2>0, <3>1 DEF Closes
  <2>4. c = Validate => turn'[Validate] = turn[Validate]
    BY <1>1, <1>2, <1>3, TaskNumbers
  <2>5. Recorded(Latest(c))' = KindsOf(c)
    BY <2>1, <2>3 DEF Recorded
  <2> QED BY <2>1, <2>2, <2>3, <2>4, <2>5 DEF Good
<1>13. Chain'
  <2> SUFFICES ASSUME NEW t \in Tasks5, t < c + 1
               PROVE  Good(t)'
    BY <1>5 DEF Chain
  <2>1. t < c \/ t = c
    BY <1>1, TaskNumbers
  <2> QED BY <1>11, <1>12, <2>1
<1>14. Own'
  <2>1. PICK n : n = Here'
    OBVIOUS
  <2>2. n \in TaskExecutions /\ n[2] > turn[n[1]] /\ n # Here
    BY <1>1, <1>2, <1>4a, <1>6, <2>1, TaskNumbers DEF TaskExecutions, Tasks5
  <2>3. Blank(n)'
    BY <1>1, <2>2, BlankKept DEF EvidenceInv, FutureBlank
  <2>4. Blank(Here)'
    BY <2>1, <2>3 DEF Blank
  <2> QED BY <1>2, <2>4 DEF Own
<1>15. PlanInformed'
  <2> SUFFICES ASSUME c + 1 > PlanTask
               PROVE  Usable(Latest(Analyze))'
    BY <1>2, <1>5 DEF PlanInformed
  <2>0. c >= PlanTask /\ (c > PlanTask \/ c = PlanTask) /\ c # Accept
    BY <1>1, <1>2, TaskNumbers
  <2>0a. spot = "linkArtifact"
    BY <1>0, <1>2, <2>0 DEF Closes
  <2>1. Usable(Latest(Analyze))
    BY <1>0, <2>0, <2>0a DEF EvidenceInv, PlanInformed
  <2>2. PICK i : i = Latest(Analyze)
    OBVIOUS
  <2>3. i \in TaskExecutions /\ i # Here
    BY <1>0, <1>1, <2>0, <2>2, CurrentReached, PairsDiffer, TaskNumbers DEF EvidenceInv
  <2>4. Usable(i)'
    BY <1>1, <2>1, <2>2, <2>3, UsableKept
  <2>5. Latest(Analyze)' = i
    BY <1>1, <1>3, <2>0, <2>2, TaskNumbers DEF Latest
  <2> QED BY <2>4, <2>5 DEF Usable, Handed, Passes
<1> QED BY <1>8, <1>9, <1>10, <1>13, <1>14, <1>15 DEF EvidenceInv, Closes

LEMMA ConcludeKeeps ==
  ASSUME EvidenceInv, NEW r \in Returns, Conclude(r), Closes(r)
  PROVE  EvidenceInv'
  BY Concludes, OverKeeps, AgainKeeps, OnwardsKeeps

-----------------------------------------------------------------------------
(* The actions.                                                            *)

\* An attempt that does not succeed, and leaves its records as they are.
LEMMA FailsKeeps ==
  ASSUME EvidenceInv, NEW r \in Returns, r # "SUCCEEDED", Conclude(r), UNCHANGED records,
         Current = Validate \/ call' = call, call' \in [Turns -> Results \cup {NotRun}]
  PROVE  EvidenceInv'
<1>1. /\ judged' = judged /\ attached' = attached /\ published' = published
      /\ unreadable' = unreadable /\ normalized' = normalized
  BY DEF records
<1>2. OnlyHere
  BY <1>1 DEF OnlyHere
<1>3. RecordTypes'
  BY <1>1 DEF EvidenceInv, EvidenceTypes, RecordTypes
<1>4. OneOfEach' /\ RefusedForLoss'
  BY <1>1 DEF EvidenceInv, OneOfEach, RefusedForLoss
<1>5. returning' = "none"
  BY Concludes
<1>6. Closes(r)
  BY <1>2, <1>3, <1>4, <1>5 DEF Closes
<1> QED BY <1>6, ConcludeKeeps

LEMMA RecordsFailKeeps ==
  ASSUME EvidenceInv, RecordsFail
  PROVE  EvidenceInv'
<1>1. PICK r \in {"CONFIGURATION", "RECOVERABLE"} : Conclude(r)
  BY DEF RecordsFail
<1>2. r \in Returns /\ r # "SUCCEEDED" /\ UNCHANGED records /\ call' = call
  BY DEF RecordsFail, Returns, Reports
<1>3. call' \in [Turns -> Results \cup {NotRun}]
  BY <1>2 DEF EvidenceInv, EvidenceTypes, RecordTypes
<1> QED BY <1>1, <1>2, <1>3, FailsKeeps

\* A step within the attempt that records nothing.
LEMMA WalkKeeps ==
  ASSUME EvidenceInv, turn' = turn, report' = report, judged' = judged, attached' = attached,
         published' = published, unreadable \subseteq unreadable',
         unreadable' \subseteq TaskExecutions, normalized' \in BOOLEAN,
         Current = Validate \/ call' = call, call' \in [Turns -> Results \cup {NotRun}],
         spot' \in Spots, returning' \in Returns \cup {"none"}, Own',
         Current = PlanTask /\ spot' \notin {"inputs", "over"} =>
           spot \notin {"inputs", "over"} \/ Usable(Latest(Analyze))
  PROVE  EvidenceInv'
<1>1. OnlyHere
  BY DEF OnlyHere
<1>2. RecordTypes'
  BY DEF EvidenceInv, EvidenceTypes, RecordTypes
<1>3. OneOfEach' /\ RefusedForLoss'
  BY DEF EvidenceInv, OneOfEach, RefusedForLoss
<1>4. Moves
  BY <1>1, <1>2, <1>3 DEF Moves
<1> QED BY <1>4, MoveKeeps

LEMMA LoseContentKeeps ==
  ASSUME EvidenceInv, NEW i \in TaskExecutions, LoseContent(i)
  PROVE  EvidenceInv'
<1>1. /\ turn' = turn /\ report' = report /\ judged' = judged /\ attached' = attached
      /\ published' = published /\ normalized' = normalized /\ call' = call /\ spot' = spot
      /\ returning' = returning /\ unreadable' = unreadable \cup {i}
  BY DEF LoseContent, flow
<1>2. unreadable' \subseteq TaskExecutions
  BY <1>1 DEF EvidenceInv, EvidenceTypes, RecordTypes
<1>3. Own'
  <2>1. Current' = Current /\ Here' = Here
    BY <1>1, HereKept
  <2>2. Recorded(Here)' = Recorded(Here)
    BY <1>1, <2>1 DEF Recorded
  <2> QED BY <1>1, <2>1, <2>2 DEF EvidenceInv, Own, Blank
<1>4. /\ spot' \in Spots /\ returning' \in Returns \cup {"none"} /\ normalized' \in BOOLEAN
      /\ call' \in [Turns -> Results \cup {NotRun}]
  BY <1>1 DEF EvidenceInv, EvidenceTypes, RecordTypes
<1> QED BY <1>1, <1>2, <1>3, <1>4, WalkKeeps

LEMMA StopHandlerKeeps ==
  ASSUME EvidenceInv, StopHandler
  PROVE  EvidenceInv'
<1>1. /\ turn' = turn /\ report' = report /\ judged' = judged /\ attached' = attached
      /\ published' = published /\ normalized' = normalized /\ call' = call /\ spot' = "over"
      /\ returning' = returning /\ unreadable' = unreadable
  BY DEF StopHandler, records, Go
<1>2. Own'
  BY <1>1 DEF Own
<1>3. /\ spot' \in Spots /\ returning' \in Returns \cup {"none"} /\ normalized' \in BOOLEAN
      /\ call' \in [Turns -> Results \cup {NotRun}] /\ unreadable' \subseteq TaskExecutions
  BY <1>1 DEF EvidenceInv, EvidenceTypes, RecordTypes, Spots
<1> QED BY <1>1, <1>2, <1>3, WalkKeeps

LEMMA ReadInputsKeeps ==
  ASSUME EvidenceInv, ReadInputs
  PROVE  EvidenceInv'
<1>1. spot = "inputs" /\ Current # Accept /\ UNCHANGED records /\ call' = call
  BY DEF ReadInputs
<1>2. CASE /\ \A t \in Before : Usable(Latest(t)) /\ Readable(t)
           /\ Go("work") /\ UNCHANGED <<turn, report, returning>>
  <2>1. /\ turn' = turn /\ report' = report /\ judged' = judged /\ attached' = attached
        /\ published' = published /\ normalized' = normalized /\ call' = call /\ spot' = "work"
        /\ returning' = returning /\ unreadable' = unreadable
    BY <1>1, <1>2 DEF records, Go
  <2>2. Own'
    <3>1. Current' = Current /\ Here' = Here
      BY <2>1, HereKept
    <3> QED BY <1>1, <2>1, <3>1 DEF EvidenceInv, Own, Blank
  <2>3. /\ spot' \in Spots /\ returning' \in Returns \cup {"none"} /\ normalized' \in BOOLEAN
        /\ call' \in [Turns -> Results \cup {NotRun}] /\ unreadable' \subseteq TaskExecutions
    BY <2>1 DEF EvidenceInv, EvidenceTypes, RecordTypes, Spots
  <2>4. Current = PlanTask => Usable(Latest(Analyze))
    BY <1>2, TaskNumbers DEF Before
  <2> QED BY <2>1, <2>2, <2>3, <2>4, WalkKeeps
<1>3. ASSUME NEW r \in {"CONFIGURATION", "RECOVERABLE"}, Conclude(r)
      PROVE  EvidenceInv'
  <2>1. r \in Returns /\ r # "SUCCEEDED"
    BY DEF Returns, Reports
  <2>2. call' \in [Turns -> Results \cup {NotRun}]
    BY <1>1 DEF EvidenceInv, EvidenceTypes, RecordTypes
  <2> QED BY <1>1, <1>3, <2>1, <2>2, FailsKeeps
<1> QED BY <1>2, <1>3 DEF ReadInputs

\* The handler's work is done, and nothing is on record yet.
LEMMA WorkDone ==
  ASSUME EvidenceInv, spot = "work", turn' = turn, report' = report, judged' = judged,
         attached' = attached, published' = published, unreadable' = unreadable,
         normalized' \in BOOLEAN, Current = Validate \/ call' = call,
         call' \in [Turns -> Results \cup {NotRun}], spot' = "record", returning' \in Returns,
         Current = Validate /\ returning' = "SUCCEEDED" =>
           call'[turn[Validate]] = [class |-> "SUCCEEDED", passed |-> 2]
  PROVE  EvidenceInv'
<1>1. Current' = Current /\ Here' = Here /\ Current # Accept /\ Blank(Here)
  BY HereKept DEF EvidenceInv, Own
<1>2. Recorded(Here)' = {}
  BY <1>1 DEF Recorded, Blank
<1>3. attached'[Here] = {} /\ published'[Here] = {} /\ \A x \in judged' : x.of # Here
  BY <1>1 DEF Blank
<1>4. Own'
  BY <1>1, <1>2, <1>3 DEF Own, Returns, Reports
<1>5. spot' \in Spots /\ unreadable' \subseteq TaskExecutions
  BY DEF Spots, EvidenceInv, EvidenceTypes, RecordTypes
<1> QED BY <1>4, <1>5, WalkKeeps

LEMMA WorkKept ==
  ASSUME EvidenceInv, AnswerAccepted \/ AnswerRejected \/ PlanRejected
  PROVE  EvidenceInv'
<1>1. /\ turn' = turn /\ report' = report /\ judged' = judged /\ attached' = attached
      /\ published' = published /\ call' = call /\ spot' = "record" /\ spot = "work"
      /\ unreadable' = unreadable /\ returning' \in {"SUCCEEDED", "EVALUATION"}
      /\ returning' = "SUCCEEDED" => Current \in Asking
  BY DEF AnswerAccepted, AnswerRejected, PlanRejected, Rejected, Go
<1>2. normalized' \in BOOLEAN
  BY EvidenceAssumption DEF AnswerAccepted, AnswerRejected, PlanRejected, Rejected
<1>3. returning' \in Returns
  BY <1>1 DEF Returns, Reports
<1>4. Validate \notin Asking
  BY TaskNumbers DEF Asking
<1>5. call' \in [Turns -> Results \cup {NotRun}]
  BY <1>1 DEF EvidenceInv, EvidenceTypes, RecordTypes
<1> QED BY <1>1, <1>2, <1>3, <1>4, <1>5, WorkDone

LEMMA NoWorkKept ==
  ASSUME EvidenceInv, NoAnswer \/ Unconfigured
  PROVE  EvidenceInv'
<1>1. PICK r \in {"RECOVERABLE", "POLICY", "CONFIGURATION"} : Conclude(r)
  BY DEF NoAnswer, Unconfigured
<1>2. r \in Returns /\ r # "SUCCEEDED" /\ UNCHANGED records /\ call' = call
  BY DEF NoAnswer, Unconfigured, Returns, Reports
<1>3. call' \in [Turns -> Results \cup {NotRun}]
  BY <1>2 DEF EvidenceInv, EvidenceTypes, RecordTypes
<1> QED BY <1>1, <1>2, <1>3, FailsKeeps

\* Only a validation of which both commands passed is a success.
LEMMA ClassesOf ==
  ASSUME NEW ran \in Results
  PROVE  /\ ClassOf(ran) \in Returns
         /\ ClassOf(ran) = "SUCCEEDED" => ran = [class |-> "SUCCEEDED", passed |-> 2]
         /\ ran.class \in Unproven => ClassOf(ran) # "SUCCEEDED"
<1>1. ran.class = "SUCCEEDED" => ran = [class |-> "SUCCEEDED", passed |-> 2]
  BY DEF Results, Unproven
<1>2. ClassOf(ran) \in Returns
  BY DEF ClassOf, Returns, Reports
<1>3. ClassOf(ran) = "SUCCEEDED" => ran.class = "SUCCEEDED"
  BY DEF ClassOf
<1> QED BY <1>1, <1>2, <1>3 DEF Unproven

LEMMA RunValidationKeeps ==
  ASSUME EvidenceInv, RunValidation
  PROVE  EvidenceInv'
<1>1. PICK ran \in Results :
        /\ call' = [call EXCEPT ![turn[Validate]] = ran]
        /\ IF ran.class \in Unproven
             THEN Conclude(ClassOf(ran))
             ELSE Go("record") /\ returning' = ClassOf(ran) /\ UNCHANGED <<turn, report>>
  BY DEF RunValidation
<1>2. spot = "work" /\ Current = Validate /\ UNCHANGED records
  BY DEF RunValidation
<1>3. turn[Validate] \in Turns
  BY <1>2, CurrentReached DEF EvidenceInv
<1>4. call' \in [Turns -> Results \cup {NotRun}] /\ call'[turn[Validate]] = ran
  BY <1>1, <1>3 DEF EvidenceInv, EvidenceTypes, RecordTypes
<1>5. CASE ran.class \in Unproven
  BY <1>1, <1>2, <1>4, <1>5, ClassesOf, FailsKeeps
<1>6. CASE ran.class \notin Unproven
  <2>1. /\ turn' = turn /\ report' = report /\ judged' = judged /\ attached' = attached
        /\ published' = published /\ spot' = "record" /\ unreadable' = unreadable
        /\ normalized' = normalized /\ returning' = ClassOf(ran)
    BY <1>1, <1>2, <1>6 DEF records, Go
  <2>2. normalized' \in BOOLEAN
    BY <2>1 DEF EvidenceInv, EvidenceTypes, RecordTypes
  <2> QED BY <1>2, <1>4, <2>1, <2>2, ClassesOf, WorkDone
<1> QED BY <1>5, <1>6

-----------------------------------------------------------------------------
(* Recording.                                                              *)

\* The first Evaluation that has no result yet.
LEMMA FirstOfOne ==
  ASSUME NEW a, NEW S, a \notin S
  PROVE  <<a>>[CHOOSE j \in DOMAIN <<a>> : <<a>>[j] \notin S
                 /\ \A l \in 1..(j - 1) : <<a>>[l] \in S] = a
<1> DEFINE P(j) == <<a>>[j] \notin S /\ \A l \in 1..(j - 1) : <<a>>[l] \in S
<1>1. DOMAIN <<a>> = {1} /\ <<a>>[1] = a
  OBVIOUS
<1>2. P(1)
  BY <1>1
<1> HIDE DEF P
<1>3. (CHOOSE j \in DOMAIN <<a>> : P(j)) = 1
  BY <1>1, <1>2
<1> QED BY <1>1, <1>3 DEF P

LEMMA FirstOfTwo ==
  ASSUME NEW a, NEW b, NEW S, b \notin S
  PROVE  <<a, b>>[CHOOSE j \in DOMAIN <<a, b>> : <<a, b>>[j] \notin S
                    /\ \A l \in 1..(j - 1) : <<a, b>>[l] \in S] = IF a \in S THEN b ELSE a
<1> DEFINE P(j) == <<a, b>>[j] \notin S /\ \A l \in 1..(j - 1) : <<a, b>>[l] \in S
<1>1. DOMAIN <<a, b>> = {1, 2} /\ <<a, b>>[1] = a /\ <<a, b>>[2] = b
  OBVIOUS
<1>2. P(1) <=> a \notin S
  BY <1>1
<1>3. P(2) <=> a \in S
  <2>1. 1..(2 - 1) = {1}
    OBVIOUS
  <2> QED BY <1>1, <2>1
<1> HIDE DEF P
<1>4. (CHOOSE j \in DOMAIN <<a, b>> : P(j)) = IF a \in S THEN 2 ELSE 1
  BY <1>1, <1>2, <1>3
<1> QED BY <1>1, <1>4 DEF P

\* What is recorded next, and what is on record then.
LEMMA RecordsInOrder ==
  ASSUME EvidenceInv, Current # Accept, LastKind(Current) \notin Recorded(Here),
         Recorded(Here) \subseteq KindsOf(Current)
  PROVE  LET k == NextKind
             all == Recorded(Here) \cup {k}
         IN /\ k \in KindsOf(Current) /\ k \notin Recorded(Here) /\ k # "acceptance"
            /\ Current = Validate /\ k = "build" => LastKind(Current) \notin all
            /\ ~ (Current = Validate /\ k = "build") =>
                 all = KindsOf(Current) \/ (Current = Patch /\ all = {"reconciliation"})
<1> DEFINE S == Recorded(Here)
<1>0. Current \in {Analyze, PlanTask, Patch, Validate}
  BY CurrentReached, TaskNumbers DEF EvidenceInv
<1>1. CASE Current \in {Analyze, PlanTask}
  <2>1. Declared[Current] = <<"schema">> /\ KindsOf(Current) = {"schema"} /\ "schema" \notin S
    BY <1>1, DeclaredAre, KindsAre, TaskNumbers DEF LastKind
  <2>2. NextKind = "schema"
    BY <2>1, FirstOfOne DEF NextKind
  <2> QED BY <1>1, <2>1, <2>2, TaskNumbers
<1>2. CASE Current = Patch
  <2>1. /\ Declared[Current] = <<"reconciliation", "patch">> /\ "patch" \notin S
        /\ KindsOf(Current) = {"reconciliation", "patch"}
    BY <1>2, DeclaredAre, KindsAre, TaskNumbers DEF LastKind
  <2>2. NextKind = IF "reconciliation" \in S THEN "patch" ELSE "reconciliation"
    BY <2>1, FirstOfTwo DEF NextKind
  <2> QED BY <1>2, <2>1, <2>2, TaskNumbers
<1>3. CASE Current = Validate
  <2>1. /\ Declared[Current] = <<"build", "test">> /\ LastKind(Current) = "test" /\ "test" \notin S
        /\ KindsOf(Current) = {"build", "test"}
    BY <1>3, DeclaredAre, KindsAre, TaskNumbers DEF LastKind
  <2>2. NextKind = IF "build" \in S THEN "test" ELSE "build"
    BY <2>1, FirstOfTwo DEF NextKind
  <2> QED BY <1>3, <2>1, <2>2, TaskNumbers
<1> QED BY <1>0, <1>1, <1>2, <1>3

LEMMA RecordedKinds ==
  ASSUME RecordTypes, NEW i
  PROVE  Recorded(i) \subseteq KindsOf(i[1])
  BY DEF Recorded, RecordTypes

LEMMA RecordEvaluationKeeps ==
  ASSUME EvidenceInv, RecordEvaluation
  PROVE  EvidenceInv'
<1>0. PICK h : h = Here
  OBVIOUS
<1>1. PICK k : k = NextKind
  OBVIOUS
<1>2. PICK outcome \in Outcomes(k) :
        /\ judged' = judged \cup {Judgement(h, k, outcome, TargetNow(k))}
        /\ returning' = IF outcome = "FAIL" /\ Current # Validate THEN "EVALUATION" ELSE returning
  BY <1>0, <1>1 DEF RecordEvaluation
<1>3. /\ turn' = turn /\ report' = report /\ attached' = attached /\ published' = published
      /\ unreadable' = unreadable /\ normalized' = normalized /\ call' = call /\ spot = "record"
      /\ spot' = IF Current = Validate /\ k = "build" THEN "record" ELSE "link"
  BY <1>1 DEF RecordEvaluation, Go
<1>4. Current \in Tasks5 /\ Current # Accept /\ h \in TaskExecutions /\ h[1] = Current
  BY <1>0, <1>3, CurrentReached DEF EvidenceInv, Own, Here, Latest
<1>5. Recorded(h) \subseteq KindsOf(Current) /\ LastKind(Current) \notin Recorded(h)
  BY <1>0, <1>3, <1>4, RecordedKinds DEF EvidenceInv, EvidenceTypes, Own
<1> DEFINE all == Recorded(h) \cup {k}
<1>6. /\ k \in KindsOf(Current) /\ k \notin Recorded(h) /\ k # "acceptance"
      /\ Current = Validate /\ k = "build" => LastKind(Current) \notin all
      /\ ~ (Current = Validate /\ k = "build") =>
           all = KindsOf(Current) \/ (Current = Patch /\ all = {"reconciliation"})
  BY <1>0, <1>1, <1>4, <1>5, RecordsInOrder
<1>7. outcome \in {"PASS", "FAIL"}
  BY DEF Outcomes, AnswerOutcomes
<1> DEFINE j == Judgement(h, k, outcome, TargetNow(k))
<1>8. /\ j.of = h /\ j.kind = k /\ j.outcome = outcome /\ j.target = TargetNow(k)
      /\ j = Judgement(j.of, j.kind, j.outcome, j.target)
      /\ j.of[1] # Analyze => j.target = TargetOf(j.kind)
  BY <1>4 DEF Judgement, TargetNow
<1>9. judged' = judged \cup {j}
  BY <1>2
<1> HIDE DEF j
<1>10. OnlyHere
  BY <1>0, <1>3, <1>8, <1>9 DEF OnlyHere
<1>11. RecordTypes'
  BY <1>3, <1>4, <1>6, <1>7, <1>8, <1>9 DEF EvidenceInv, EvidenceTypes, RecordTypes
<1>12. OneOfEach'
  <2>1. \A r \in judged : r.of = h => r.kind # k
    BY <1>6 DEF Recorded
  <2> QED BY <1>8, <1>9, <2>1 DEF EvidenceInv, OneOfEach
<1>13. RefusedForLoss'
  BY <1>3, <1>6, <1>8, <1>9 DEF EvidenceInv, RefusedForLoss
<1>14. returning \in Returns
  BY <1>3 DEF EvidenceInv, EvidenceTypes, Own
<1>15. Moves
  <2>1. returning' \in Returns /\ spot' \in Spots
    BY <1>2, <1>3, <1>14 DEF Returns, Reports, Spots
  <2> QED BY <1>3, <1>10, <1>11, <1>12, <1>13, <2>1 DEF Moves
<1>16. Own'
  <2>1. Current' = Current /\ Here' = h
    BY <1>0, <1>3, HereKept
  <2>2. Recorded(h)' = all
    <3>1. {x \in judged' : x.of = h} = {x \in judged : x.of = h} \cup {j}
      BY <1>8, <1>9
    <3> QED BY <1>8, <3>1 DEF Recorded
  <2>3. returning' # "none"
    BY <1>2, <1>14 DEF Returns, Reports
  <2>4. attached'[h] \subseteq all /\ published'[h] = {}
    BY <1>0, <1>3, <1>4 DEF EvidenceInv, Own
  <2>5. ASSUME returning' = "SUCCEEDED"
        PROVE  /\ \A r \in judged' : r.of = h => r.outcome = "PASS"
               /\ Current = Validate => call'[turn'[Validate]] = [class |-> "SUCCEEDED", passed |-> 2]
    <3>1. returning = "SUCCEEDED" /\ (outcome = "PASS" \/ Current = Validate)
      BY <1>2, <1>7, <2>5
    <3>2. /\ \A r \in judged : r.of = h => r.outcome = "PASS"
          /\ Current = Validate => call[turn[Validate]] = [class |-> "SUCCEEDED", passed |-> 2]
      BY <1>0, <1>3, <1>4, <3>1 DEF EvidenceInv, Own
    <3>3. Current = Validate => CommandPassed(k)
      BY <3>2 DEF CommandPassed
    <3>4. outcome = "PASS"
      BY <3>1, <3>3 DEF Outcomes
    <3> QED BY <1>3, <1>8, <1>9, <3>2, <3>4
  <2>6. Recorded(Here)' = all
    BY <2>1, <2>2 DEF Recorded
  <2> HIDE DEF all
  <2>7. spot' = "link" => all = KindsOf(Current) \/ (Current = Patch /\ all = {"reconciliation"})
    BY <1>3, <1>6
  <2>8. spot' = "record" => LastKind(Current) \notin all
    BY <1>3, <1>6
  <2>9. spot' \in {"record", "link"}
    BY <1>3
  <2> QED BY <1>4, <2>1, <2>3, <2>4, <2>5, <2>6, <2>7, <2>8, <2>9 DEF Own
<1> QED BY <1>3, <1>15, <1>16, MoveKeeps

\* Attaching and publishing are about the attempt's own records.
LEMMA LinksKeep ==
  ASSUME EvidenceInv, judged' = judged, unreadable' = unreadable, normalized' = normalized,
         call' = call, NEW A, NEW P, A \subseteq KindsOf(Current) \cup {"artifact"},
         P \subseteq KindsOf(Current),
         attached' = [attached EXCEPT ![Here] = A], published' = [published EXCEPT ![Here] = P]
  PROVE  /\ OnlyHere /\ RecordTypes' /\ OneOfEach' /\ RefusedForLoss'
         /\ attached'[Here] = A /\ published'[Here] = P
<1>0. PICK h : h = Here
  OBVIOUS
<1>1. h \in TaskExecutions /\ h[1] = Current /\ Current \in Tasks5
  BY <1>0, CurrentReached DEF EvidenceInv, Here, Latest
<1>2. /\ \A i \in TaskExecutions : /\ attached'[i] = IF i = h THEN A ELSE attached[i]
                                  /\ published'[i] = IF i = h THEN P ELSE published[i]
      /\ DOMAIN attached' = TaskExecutions /\ DOMAIN published' = TaskExecutions
  BY <1>0, <1>1 DEF EvidenceInv, EvidenceTypes, RecordTypes
<1>3. OnlyHere
  BY <1>0, <1>2 DEF OnlyHere
<1>4. A \subseteq Kinds \cup {"artifact"} /\ P \subseteq Kinds
  BY <1>1, KindsNamed
<1>5. RecordTypes'
  <2>1. attached' \in [TaskExecutions -> SUBSET (Kinds \cup {"artifact"})]
        /\ published' \in [TaskExecutions -> SUBSET Kinds]
    BY <1>0, <1>1, <1>4 DEF EvidenceInv, EvidenceTypes, RecordTypes
  <2>2. \A i \in TaskExecutions : /\ published'[i] \subseteq KindsOf(i[1])
                                 /\ attached'[i] \subseteq KindsOf(i[1]) \cup {"artifact"}
    BY <1>1, <1>2 DEF EvidenceInv, EvidenceTypes, RecordTypes
  <2> QED BY <2>1, <2>2 DEF EvidenceInv, EvidenceTypes, RecordTypes
<1>6. OneOfEach' /\ RefusedForLoss'
  BY DEF EvidenceInv, OneOfEach, RefusedForLoss
<1> QED BY <1>0, <1>1, <1>2, <1>3, <1>5, <1>6

LEMMA SamePublished ==
  ASSUME EvidenceInv, NEW i \in TaskExecutions
  PROVE  /\ published = [published EXCEPT ![i] = published[i]]
         /\ attached = [attached EXCEPT ![i] = attached[i]]
  BY DEF EvidenceInv, EvidenceTypes, RecordTypes

LEMMA LinkEvaluationsKeeps ==
  ASSUME EvidenceInv, LinkEvaluations
  PROVE  EvidenceInv'
<1>0. PICK h : h = Here
  OBVIOUS
<1>1. /\ judged' = judged /\ published' = published /\ unreadable' = unreadable
      /\ normalized' = normalized /\ call' = call /\ spot = "link"
      /\ attached' = [attached EXCEPT ![Here] = attached[Here] \cup Recorded(Here)]
  BY DEF LinkEvaluations
<1>2. /\ h \in TaskExecutions /\ h[1] = Current /\ Current \in Tasks5
      /\ Recorded(h) \subseteq KindsOf(Current) /\ returning \in Returns
  BY <1>0, <1>1, CurrentReached, RecordedKinds DEF EvidenceInv, Own, Here, Latest, EvidenceTypes
<1>3. PICK A : A = attached[h] \cup Recorded(h)
  OBVIOUS
<1>4. PICK P : P = published[h]
  OBVIOUS
<1>5. A \subseteq KindsOf(Current) \cup {"artifact"} /\ P \subseteq KindsOf(Current)
  BY <1>2, <1>3, <1>4 DEF EvidenceInv, EvidenceTypes, RecordTypes
<1>6. published' = [published EXCEPT ![Here] = P] /\ attached' = [attached EXCEPT ![Here] = A]
  BY <1>0, <1>1, <1>2, <1>3, <1>4, SamePublished
<1>7. /\ OnlyHere /\ RecordTypes' /\ OneOfEach' /\ RefusedForLoss'
      /\ attached'[h] = A /\ published'[h] = P
  BY <1>0, <1>1, <1>5, <1>6, LinksKeep
<1>8. CASE Conclude(returning) /\ (Current = Accept \/ returning # "SUCCEEDED")
  <2>1. returning' = "none"
    BY <1>8, Concludes
  <2>2. Closes(returning)
    BY <1>7, <1>8, <2>1 DEF Closes
  <2> QED BY <1>2, <1>8, <2>2, ConcludeKeeps
<1>9. CASE /\ Current # Accept
           /\ Go(IF KindsOf(Current) \subseteq Recorded(h)
                    /\ (returning = "SUCCEEDED" \/ Current \in {Patch, Validate})
                 THEN "publish" ELSE "record")
           /\ (KindsOf(Current) \subseteq Recorded(h)
                 /\ (returning = "SUCCEEDED" \/ Current \in {Patch, Validate}))
              \/ returning = "SUCCEEDED"
           /\ UNCHANGED <<turn, report, returning>>
  <2>1. /\ turn' = turn /\ report' = report /\ returning' = returning
        /\ spot' \in {"publish", "record"}
        /\ spot' = "publish" => KindsOf(Current) \subseteq Recorded(h)
        /\ spot' = "record" => ~ (KindsOf(Current) \subseteq Recorded(h))
    BY <1>9 DEF Go
  <2>2. Moves
    BY <1>2, <1>7, <2>1 DEF Moves, Spots
  <2>3. Current' = Current /\ Here' = h /\ Recorded(h)' = Recorded(h)
    BY <1>0, <1>1, <2>1, HereKept DEF Recorded
  <2>4. /\ attached[h] \subseteq Recorded(h) /\ published[h] = {} /\ returning # "none"
        /\ Recorded(h) = KindsOf(Current) \/ (Current = Patch /\ Recorded(h) = {"reconciliation"})
        /\ returning = "SUCCEEDED" =>
             /\ \A r \in judged : r.of = h => r.outcome = "PASS"
             /\ Current = Validate => call[turn[Validate]] = [class |-> "SUCCEEDED", passed |-> 2]
    BY <1>0, <1>1, <1>9 DEF EvidenceInv, Own
  <2>5. attached'[h] = Recorded(h) /\ published'[h] = {}
    BY <1>3, <1>4, <1>7, <2>4
  <2>6. spot' = "publish" => Recorded(h) = KindsOf(Current)
    BY <1>2, <2>1
  <2>7. spot' = "record" => LastKind(Current) \notin Recorded(h)
    BY <2>1, <2>4 DEF LastKind
  <2>8. Recorded(Here)' = Recorded(h)
    BY <2>3 DEF Recorded
  <2>9. Own'
    BY <1>1, <1>9, <2>1, <2>3, <2>4, <2>5, <2>6, <2>7, <2>8 DEF Own
  <2> QED BY <1>1, <2>2, <2>9, MoveKeeps
<1> QED BY <1>0, <1>8, <1>9 DEF LinkEvaluations

LEMMA PublishArtifactKeeps ==
  ASSUME EvidenceInv, PublishArtifact
  PROVE  EvidenceInv'
<1>0. PICK h : h = Here
  OBVIOUS
<1>1. /\ judged' = judged /\ unreadable' = unreadable /\ turn' = turn /\ report' = report
      /\ normalized' = normalized /\ call' = call /\ spot = "publish" /\ spot' = "linkArtifact"
      /\ attached' = attached /\ returning' = returning
      /\ published' = [published EXCEPT ![Here] = KindsOf(Current)]
  BY DEF PublishArtifact, References, Go
<1>2. /\ h \in TaskExecutions /\ h[1] = Current /\ Current \in Tasks5 /\ returning \in Returns
  BY <1>0, <1>1, CurrentReached DEF EvidenceInv, Own, Here, Latest, EvidenceTypes
<1>3. PICK A : A = attached[h]
  OBVIOUS
<1>4. PICK P : P = KindsOf(Current)
  OBVIOUS
<1>5. A \subseteq KindsOf(Current) \cup {"artifact"} /\ P \subseteq KindsOf(Current)
  BY <1>2, <1>3, <1>4 DEF EvidenceInv, EvidenceTypes, RecordTypes
<1>6. published' = [published EXCEPT ![Here] = P] /\ attached' = [attached EXCEPT ![Here] = A]
  BY <1>0, <1>1, <1>2, <1>3, <1>4, SamePublished
<1>7. /\ OnlyHere /\ RecordTypes' /\ OneOfEach' /\ RefusedForLoss'
      /\ attached'[h] = A /\ published'[h] = P
  BY <1>0, <1>1, <1>5, <1>6, LinksKeep
<1>8. Moves
  BY <1>1, <1>2, <1>7 DEF Moves, Spots
<1>9. Current' = Current /\ Here' = h /\ Recorded(Here)' = Recorded(h) /\ Current # Accept
  BY <1>0, <1>1, HereKept DEF Recorded, EvidenceInv, Own
<1>10. /\ attached[h] = Recorded(h) /\ returning # "none" /\ Recorded(h) = KindsOf(Current)
       /\ returning = "SUCCEEDED" =>
            /\ \A r \in judged : r.of = h => r.outcome = "PASS"
            /\ Current = Validate => call[turn[Validate]] = [class |-> "SUCCEEDED", passed |-> 2]
  BY <1>0, <1>1, <1>9 DEF EvidenceInv, Own
<1>11. Own'
  BY <1>1, <1>3, <1>4, <1>7, <1>9, <1>10 DEF Own
<1> QED BY <1>1, <1>8, <1>11, MoveKeeps

LEMMA LinkArtifactKeeps ==
  ASSUME EvidenceInv, LinkArtifact
  PROVE  EvidenceInv'
<1>0. PICK h : h = Here
  OBVIOUS
<1>1. /\ judged' = judged /\ unreadable' = unreadable /\ Conclude(returning)
      /\ normalized' = normalized /\ call' = call /\ spot = "linkArtifact"
      /\ published' = published
      /\ attached' = [attached EXCEPT ![Here] = attached[Here] \cup {"artifact"}]
  BY DEF LinkArtifact
<1>2. /\ h \in TaskExecutions /\ h[1] = Current /\ Current \in Tasks5 /\ Current # Accept
      /\ attached[h] = KindsOf(Current) /\ Recorded(h) = KindsOf(Current)
      /\ published[h] = KindsOf(Current) /\ returning \in Returns
      /\ returning = "SUCCEEDED" =>
           /\ \A r \in judged : r.of = h => r.outcome = "PASS"
           /\ Current = Validate => call[turn[Validate]] = [class |-> "SUCCEEDED", passed |-> 2]
  BY <1>0, <1>1, CurrentReached DEF EvidenceInv, Own, Here, Latest, EvidenceTypes
<1>3. PICK A : A = attached[h] \cup {"artifact"}
  OBVIOUS
<1>4. PICK P : P = published[h]
  OBVIOUS
<1>5. A \subseteq KindsOf(Current) \cup {"artifact"} /\ P \subseteq KindsOf(Current)
  BY <1>2, <1>3, <1>4
<1>6. published' = [published EXCEPT ![Here] = P] /\ attached' = [attached EXCEPT ![Here] = A]
  BY <1>0, <1>1, <1>2, <1>3, <1>4, SamePublished
<1>7. /\ OnlyHere /\ RecordTypes' /\ OneOfEach' /\ RefusedForLoss'
      /\ attached'[h] = A /\ published'[h] = P
  BY <1>0, <1>1, <1>5, <1>6, LinksKeep
<1>8. returning' = "none"
  BY <1>1, Concludes
<1>9. {x.kind : x \in {y \in judged' : y.of = h}} = KindsOf(Current)
  BY <1>1, <1>2 DEF Recorded
<1>10. Closes(returning)
  BY <1>0, <1>1, <1>2, <1>3, <1>4, <1>7, <1>8, <1>9 DEF Closes
<1> QED BY <1>1, <1>2, <1>10, ConcludeKeeps

-----------------------------------------------------------------------------
(* Acceptance.                                                             *)

LEMMA TwoOf ==
  ASSUME NEW a, NEW b, a # b
  PROVE  Cardinality({a, b}) = 2
<1>1. IsFiniteSet({a}) /\ Cardinality({a}) = 1
  BY FS_Singleton
<1>2. Cardinality({a} \cup {b}) = Cardinality({a}) + 1
  BY <1>1, FS_AddElement
<1>3. {a} \cup {b} = {a, b}
  OBVIOUS
<1> QED BY <1>1, <1>2, <1>3

LEMMA OneOf ==
  ASSUME NEW a
  PROVE  Cardinality({a}) = 1
  BY FS_Singleton

\* As many results are stored as the artifact refers to.
LEMMA StoredAgree ==
  ASSUME OneOfEach, NEW t \in Analyze..Validate, Good(t)
  PROVE  Cardinality(Stored(t)) = Cardinality(KindsOf(t))
<1>0. PICK i : i = Latest(t)
  OBVIOUS
<1>1. Stored(t) = {r \in judged : r.of = i} /\ {r.kind : r \in Stored(t)} = KindsOf(t)
  BY <1>0 DEF Stored, Good, Recorded
<1>2. \A r, s \in Stored(t) : r.kind = s.kind => r = s
  BY <1>1 DEF OneOfEach
<1>3. PICK S : S = Stored(t)
  OBVIOUS
<1>4. (\E a : KindsOf(t) = {a}) \/ (\E a, b : a # b /\ KindsOf(t) = {a, b})
  <2>1. t \in {Analyze, PlanTask, Patch, Validate}
    BY TaskNumbers
  <2>2. /\ KindsOf(Analyze) = {"schema"} /\ KindsOf(PlanTask) = {"schema"}
        /\ KindsOf(Patch) = {"reconciliation", "patch"} /\ KindsOf(Validate) = {"build", "test"}
    BY KindsAre
  <2>3. "reconciliation" # "patch" /\ "build" # "test"
    OBVIOUS
  <2> QED BY <2>1, <2>2, <2>3
<1>5. CASE \E a : KindsOf(t) = {a}
  <2>1. PICK a : KindsOf(t) = {a}
    BY <1>5
  <2>2. PICK r \in S : r.kind = a
    BY <1>1, <1>3, <2>1
  <2>3. S = {r}
    BY <1>1, <1>2, <1>3, <2>1, <2>2
  <2>4. Cardinality(S) = 1
    BY <2>3, OneOf
  <2>5. Cardinality(KindsOf(t)) = 1
    BY <2>1, OneOf
  <2> QED BY <1>3, <2>4, <2>5
<1>6. CASE \E a, b : a # b /\ KindsOf(t) = {a, b}
  <2>1. PICK a, b : a # b /\ KindsOf(t) = {a, b}
    BY <1>6
  <2>2. PICK r \in S : r.kind = a
    BY <1>1, <1>3, <2>1
  <2>3. PICK s \in S : s.kind = b
    BY <1>1, <1>3, <2>1
  <2>4. S = {r, s} /\ r # s
    BY <1>1, <1>2, <1>3, <2>1, <2>2, <2>3
  <2>5. Cardinality(S) = 2
    BY <2>4, TwoOf
  <2>6. Cardinality(KindsOf(t)) = 2
    <3>1. Cardinality({a, b}) = 2
      BY <2>1, TwoOf
    <3> QED BY <2>1, <3>1
  <2> QED BY <1>3, <2>5, <2>6
<1> QED BY <1>4, <1>5, <1>6

\* A whole chain is refused only when content is lost.
LEMMA CleanUnlessLost ==
  ASSUME EvidenceInv, Current = Accept, NEW t \in Analyze..Validate, ~ Clean(t)
  PROVE  unreadable # {}
<1>0. PICK i : i = Latest(t)
  OBVIOUS
<1>1. Good(t) /\ Usable(i) /\ i \in TaskExecutions /\ i[1] = t
  BY <1>0, ChainUsable DEF Latest
<1>2. /\ published[i] = KindsOf(t) /\ attached[i] = published[i] \cup {"artifact"}
      /\ published[i] # {}
  BY <1>0, <1>1, KindsNamed, TaskNumbers DEF Good
<1>3. Cardinality(Stored(t)) = Cardinality(published[i])
  BY <1>1, <1>2, StoredAgree DEF EvidenceInv
<1>4. \A k \in KindsOf(t) : Passes(i, k)
  BY <1>1, <1>2 DEF Usable
<1>5. t = Validate => call[turn[t]].class = "SUCCEEDED"
  BY <1>1 DEF Good
<1>6. Proven(t)
  BY <1>0, <1>2, <1>4, <1>5 DEF Proven
<1>7. i \in unreadable
  BY <1>0, <1>2, <1>3, <1>6 DEF Clean, Agree
<1> QED BY <1>7

LEMMA AggregateKeeps ==
  ASSUME EvidenceInv, Aggregate
  PROVE  EvidenceInv'
<1>0. PICK h : h = Here
  OBVIOUS
<1>1. PICK outcome \in {"PASS", "FAIL"} :
        /\ judged' = judged \cup {Judgement(h, "acceptance", outcome, TargetOf("acceptance"))}
        /\ returning' = IF outcome = "PASS" THEN "SUCCEEDED" ELSE "EVALUATION"
        /\ outcome = "FAIL" => \E t \in Analyze..Validate : ~ Clean(t)
  BY <1>0 DEF Aggregate
<1>2. /\ spot = "inputs" /\ Current = Accept /\ spot' = "link" /\ turn' = turn /\ report' = report
      /\ attached' = attached /\ published' = published /\ unreadable' = unreadable
      /\ normalized' = normalized /\ call' = call
  BY DEF Aggregate, Go
<1>3. h \in TaskExecutions /\ h[1] = Accept /\ Blank(h)
  BY <1>0, <1>2, CurrentReached DEF EvidenceInv, Own, Here, Latest
<1> DEFINE j == Judgement(h, "acceptance", outcome, TargetOf("acceptance"))
<1>4. /\ j.of = h /\ j.kind = "acceptance" /\ j.outcome = outcome
      /\ j.target = TargetOf("acceptance")
      /\ j = Judgement(j.of, j.kind, j.outcome, j.target)
  BY DEF Judgement
<1>5. judged' = judged \cup {j}
  BY <1>1
<1> HIDE DEF j
<1>6. OnlyHere
  BY <1>0, <1>2, <1>4, <1>5 DEF OnlyHere
<1>7. RecordTypes'
  <2>1. "acceptance" \in KindsOf(Accept)
    BY KindsAre
  <2> QED BY <1>2, <1>3, <1>4, <1>5, <2>1 DEF EvidenceInv, EvidenceTypes, RecordTypes
<1>8. OneOfEach'
  BY <1>3, <1>4, <1>5 DEF EvidenceInv, OneOfEach, Blank
<1>9. RefusedForLoss'
  <2>1. outcome = "FAIL" => unreadable # {}
    BY <1>1, <1>2, CleanUnlessLost
  <2> QED BY <1>2, <1>4, <1>5, <2>1 DEF EvidenceInv, RefusedForLoss
<1>10. Moves
  <2>1. returning' \in Returns /\ spot' \in Spots
    BY <1>1, <1>2 DEF Returns, Reports, Spots
  <2> QED BY <1>2, <1>6, <1>7, <1>8, <1>9, <2>1 DEF Moves
<1>11. Own'
  <2>1. Current' = Accept /\ Here' = h /\ returning' # "none"
    BY <1>0, <1>1, <1>2, HereKept
  <2> QED BY <1>2, <2>1 DEF Own
<1> QED BY <1>2, <1>10, <1>11, MoveKeeps, TaskNumbers

-----------------------------------------------------------------------------

LEMMA EvidenceStarts ==
  ASSUME EvidenceInit
  PROVE  EvidenceInv
<1>1. /\ turn \in [Tasks5 -> 0..MaxTurns] /\ turn[Analyze] = 1
      /\ \A t \in Tasks5 : t # Analyze => turn[t] = 0
  BY TaskNumbers DEF EvidenceInit, Tasks5
<1>2. Reached(Analyze) /\ Analyze \in Tasks5
  BY <1>1, TaskNumbers DEF Reached
<1>3. Current = Analyze
  BY <1>1, <1>2, CurrentIs
<1>4. RecordTypes
  <2>1. call \in [Turns -> Results \cup {NotRun}]
    BY DEF EvidenceInit
  <2> QED BY <2>1 DEF EvidenceInit, RecordTypes
<1>5. EvidenceTypes
  <2>1. report \in [TaskExecutions -> Reports]
    BY DEF EvidenceInit, Reports
  <2> QED BY <1>1, <1>4, <2>1 DEF EvidenceInit, EvidenceTypes, Spots
<1>6. \A i \in TaskExecutions : Blank(i)
  BY DEF EvidenceInit, Blank
<1>7. FutureBlank
  BY <1>6 DEF FutureBlank
<1>8. OneOfEach /\ RefusedForLoss
  BY DEF EvidenceInit, OneOfEach, RefusedForLoss
<1>9. Chain
  BY <1>3, TaskNumbers DEF Chain
<1>10. Own
  <2>1. Ordered
    BY <1>2 DEF Ordered
  <2>2. Here \in TaskExecutions
    BY <1>5, <2>1, CurrentReached
  <2> QED BY <1>3, <1>6, <2>2, TaskNumbers DEF EvidenceInit, Own
<1>11. PlanInformed
  BY <1>3, TaskNumbers DEF PlanInformed
<1> QED BY <1>2, <1>5, <1>7, <1>8, <1>9, <1>10, <1>11 DEF EvidenceInv, Ordered

LEMMA EvidenceSteps ==
  ASSUME EvidenceInv, [EvidenceNext]_evidenceVars
  PROVE  EvidenceInv'
<1>1. CASE ReadInputs \/ AnswerAccepted \/ AnswerRejected \/ PlanRejected \/ NoAnswer
           \/ Unconfigured \/ RunValidation
  BY <1>1, ReadInputsKeeps, WorkKept, NoWorkKept, RunValidationKeeps
<1>2. CASE RecordEvaluation \/ LinkEvaluations \/ PublishArtifact \/ LinkArtifact \/ Aggregate
  BY <1>2, RecordEvaluationKeeps, LinkEvaluationsKeeps, PublishArtifactKeeps, LinkArtifactKeeps,
     AggregateKeeps
<1>3. CASE RecordsFail \/ StopHandler \/ \E i \in TaskExecutions : LoseContent(i)
  BY <1>3, RecordsFailKeeps, StopHandlerKeeps, LoseContentKeeps
<1>4. CASE UNCHANGED evidenceVars
  <2>1. /\ turn' = turn /\ report' = report /\ judged' = judged /\ attached' = attached
        /\ published' = published /\ normalized' = normalized /\ call' = call /\ spot' = spot
        /\ returning' = returning /\ unreadable' = unreadable
    BY <1>4 DEF evidenceVars
  <2>2. Own'
    <3>1. Current' = Current /\ Here' = Here
      BY <2>1, HereKept
    <3>2. Recorded(Here)' = Recorded(Here)
      BY <2>1, <3>1 DEF Recorded
    <3> QED BY <2>1, <3>1, <3>2 DEF EvidenceInv, Own, Blank
  <2>3. /\ spot' \in Spots /\ returning' \in Returns \cup {"none"} /\ normalized' \in BOOLEAN
        /\ call' \in [Turns -> Results \cup {NotRun}] /\ unreadable' \subseteq TaskExecutions
    BY <2>1 DEF EvidenceInv, EvidenceTypes, RecordTypes
  <2> QED BY <2>1, <2>2, <2>3, WalkKeeps
<1> QED BY <1>1, <1>2, <1>3, <1>4 DEF EvidenceNext

\* A Task begins on one success of each Task before it, whose records are
\* complete and all of whose evaluations passed (the order of the Tasks and
\* what their handlers leave on record).
THEOREM EvidenceInvariant == EvidenceSpec => []EvidenceInv
<1>1. EvidenceInit => EvidenceInv
  BY EvidenceStarts
<1>2. EvidenceInv /\ [EvidenceNext]_evidenceVars => EvidenceInv'
  BY EvidenceSteps
<1> QED BY <1>1, <1>2, PTL DEF EvidenceSpec

\* Acceptance passes exactly the chains that are what they should be, and
\* refuses a chain of successes for lost content only (EvaluateAcceptance).
THEOREM AcceptanceExact == EvidenceSpec => []AcceptanceIsExact
<1>1. ASSUME EvidenceInv
      PROVE  AcceptanceIsExact
  <2> SUFFICES ASSUME NEW r \in judged, r.kind = "acceptance"
               PROVE  /\ r.outcome = "PASS" =>
                           /\ \A t \in Analyze..Validate : report[Latest(t)] = "SUCCEEDED" /\ Usable(Latest(t))
                           /\ call[turn[Validate]] = [class |-> "SUCCEEDED", passed |-> 2]
                      /\ r.outcome = "FAIL" => unreadable # {}
    BY DEF AcceptanceIsExact
  <2>1. r.of \in TaskExecutions /\ r.kind \in KindsOf(r.of[1])
    BY <1>1 DEF EvidenceInv, EvidenceTypes, RecordTypes
  <2>2. r.of[1] \in Tasks5 /\ r.of[2] \in Turns
    BY <2>1 DEF TaskExecutions, Tasks5
  <2>3. r.of[1] = Accept
    BY <2>1, <2>2, KindsNamed
  <2>4. ~ (r.of[2] > turn[Accept])
    BY <1>1, <2>1, <2>3 DEF EvidenceInv, FutureBlank, Blank
  <2>5. turn[Accept] > 0 /\ Current \in Tasks5 /\ Reached(Current)
    <3>1. turn[Accept] \in 0..MaxTurns
      BY <1>1, TaskNumbers DEF EvidenceInv, EvidenceTypes
    <3> QED BY <1>1, <2>2, <2>4, <3>1, TaskNumbers, CurrentReached DEF EvidenceInv
  <2>6. Current = Accept
    BY <2>5, TaskNumbers DEF Reached
  <2>7. \A t \in Analyze..Validate : Good(t) /\ Usable(Latest(t))
    BY <1>1, <2>6, ChainUsable
  <2>8. Validate \in Analyze..Validate
    BY TaskNumbers
  <2> QED BY <1>1, <2>7, <2>8 DEF Good, EvidenceInv, RefusedForLoss
<1> QED BY <1>1, EvidenceInvariant, PTL

\* The records of the chain keep their types (the constructors of the records).
THEOREM EvidenceTypesKept == EvidenceSpec => []EvidenceTypeOK
<1>1. EvidenceInv => EvidenceTypeOK
  BY DEF EvidenceInv, EvidenceTypes, RecordTypes, EvidenceTypeOK, Tasks5
<1> QED BY <1>1, EvidenceInvariant, PTL
===============================================================================
