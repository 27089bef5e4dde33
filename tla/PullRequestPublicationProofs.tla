---------------------- MODULE PullRequestPublicationProofs ----------------------
(***************************************************************************)
(* Proofs about PullRequestPublication, for any number of calls of the     *)
(* handler, attempts of the Task, policy outcomes, mishaps, deaths and     *)
(* double dispatches.                                                      *)
(*                                                                         *)
(* The argument.  Four promises are at stake: one pull request at most,    *)
(* successes that are true, nothing public without acceptance and          *)
(* approval.  None is inductive.  The invariant adds, for every call, what *)
(* it has come past (GatesPassed, EffectsDone), what the result it carries *)
(* but has not recorded yet is worth (ResultTrue, ReportTrue), and that    *)
(* the owner token of a record in flight names the one call that is at     *)
(* that effect of that attempt (OwnershipSound).  All of it is about facts *)
(* that no step takes back (Grows), so a step of one call leaves what the  *)
(* others have come to alone (OthersCame).  The exception is a request for *)
(* a pull request under way while another one is open: it stays open until *)
(* the request is answered, which is what ClosePull says of GitHub.        *)
(*                                                                         *)
(* Then the abstract specification: GatedRelease sees a step of five of    *)
(* the handler's actions (an effect, a description, a report) and of a     *)
(* reviewer; every other step is a stutter.  That attempts follow each     *)
(* other is proved of its steps alone.                                     *)
(***************************************************************************)
EXTENDS PullRequestPublication, TLAPS

\* What a place in the handler says about the outcome that is carried along.
OutcomeFits ==
  \A p \in Publishers :
    /\ stage[p] = "settle" => outcome[p] \in Failures \cup {"SUCCEEDED"}
    /\ stage[p] = "report" => outcome[p] \in Gates \cup {"RECOVERABLE", "SUCCEEDED", "FAILED"}

\* The places at which the record of an effect is in flight.
RunsAt(e) ==
  CASE e = "commit" -> {"committing", "staged", "settle"}
    [] e = "push" -> {"pushing", "settle"}
    [] OTHER -> {"verify", "lookup", "post", "settle"}

Owns(p, i) == invocation[i].owner = p

\* Whoever owns a record owns that one only, of the attempt it works for, and is
\* at a place of its effect; a record that ended has no owner.
OwnershipSound ==
  /\ \A i \in Tries \X Effects : invocation[i].owner # Nobody => invocation[i].status = "PENDING"
  /\ \A p \in Publishers : \A i \in Tries \X Effects :
       Owns(p, i) => i[1] = try[p] /\ stage[p] \in RunsAt(i[2])
  /\ \A p \in Publishers : \A i, j \in Tries \X Effects : Owns(p, i) /\ Owns(p, j) => i = j

Done(a, e) == invocation[<<a, e>>].status = "SUCCEEDED"

\* A record of a success is true of the world.
RecordsTrue ==
  \A a \in Tries : /\ Done(a, "commit") => tree = "committed"
                   /\ Done(a, "push") => remote
                   /\ Done(a, "create") => opened > 0

PastPermit == Stages \ {"idle", "permit", "report"}
PastMayPush == PastPermit \ {"mayPush"}
PastMayCreate == {"match", "reserve", "verify", "lookup", "post", "created", "describe"}
PastPush == PastMayCreate \cup {"mayCreate"}
PastCommit == PastPush \cup {"push", "pushing", "pushed"}

\* Where a publisher has come to, its gates have let it pass, and stay open.
GatesPassed(p) ==
  /\ stage[p] \in PastPermit => evidence = "accepted" /\ PolicyAllows(try[p], "publication")
  /\ stage[p] \in PastMayPush => PolicyAllows(try[p], "git.push")
  /\ stage[p] \in PastMayCreate => PolicyAllows(try[p], "github.create_pr")

\* ... its earlier effects have succeeded, and nobody else can have opened a pull
\* request that is closed by now.
EffectsDone(p) ==
  /\ stage[p] \in PastCommit => Done(try[p], "commit")
  /\ stage[p] \in PastPush => Done(try[p], "push")
  /\ stage[p] = "describe" => Done(try[p], "create")
  /\ stage[p] = "post" /\ opened > 0 => open

\* ... and the result it carries is true.
ResultTrue(p) ==
  stage[p] = "settle" =>
    /\ Owns(p, <<try[p], "commit">>) /\ outcome[p] = "SUCCEEDED" => tree = "committed"
    /\ Owns(p, <<try[p], "push">>) =>
         Done(try[p], "commit") /\ (outcome[p] = "SUCCEEDED" => remote)
    /\ Owns(p, <<try[p], "create">>) =>
         /\ Done(try[p], "commit") /\ Done(try[p], "push")
         /\ PolicyAllows(try[p], "github.create_pr")
         /\ outcome[p] = "SUCCEEDED" => opened > 0

ReportTrue(p) ==
  stage[p] = "report" /\ outcome[p] = "SUCCEEDED" =>
    try[p] \in described /\ opened > 0 /\ remote

Came(p) == GatesPassed(p) /\ EffectsDone(p) /\ ResultTrue(p) /\ ReportTrue(p)

PublicationInv ==
  /\ PublicationTypeOK /\ OutcomeFits /\ OwnershipSound /\ RecordsTrue
  /\ \A p \in Publishers : Came(p)
  /\ OnePullRequest /\ SuccessIsPublished /\ PublishedIsAuthorized

-----------------------------------------------------------------------------
(* What no step takes back.                                                *)

Grows ==
  /\ \A a \in Tries : \A g \in Gates : PolicyAllows(a, g) => PolicyAllows(a, g)'
  /\ \A a \in Tries : \A e \in Effects : Done(a, e) => Done(a, e)'
  /\ tree = "committed" => tree' = "committed"
  /\ remote => remote'
  /\ opened > 0 => opened' > 0
  /\ evidence' = evidence /\ described \subseteq described'

\* The others stay where they are.
OthersStay(p) ==
  \A q \in Publishers \ {p} :
    /\ stage'[q] = stage[q] /\ try'[q] = try[q] /\ outcome'[q] = outcome[q]
    /\ \A i \in Tries \X Effects : Owns(q, i)' => Owns(q, i)
    /\ stage[q] = "post" /\ opened' > 0 => open'

LEMMA StayCame ==
  ASSUME PublicationInv, Grows, NEW q \in Publishers,
         stage'[q] = stage[q], try'[q] = try[q], outcome'[q] = outcome[q],
         \A i \in Tries \X Effects : Owns(q, i)' => Owns(q, i),
         stage[q] = "post" /\ opened' > 0 => open'
  PROVE  Came(q)'
<1>1. try[q] \in Tries
  BY DEF PublicationInv, PublicationTypeOK
<1>2. /\ {"publication", "git.push", "github.create_pr"} \subseteq Gates
      /\ \A e \in {"commit", "push", "create"} : e \in Effects /\ <<try[q], e>> \in Tries \X Effects
  BY <1>1 DEF Gates, Effects
<1>3. Came(q)
  BY DEF PublicationInv
<1>4. GatesPassed(q)'
  BY <1>1, <1>2, <1>3 DEF Came, GatesPassed, Grows
<1>5. EffectsDone(q)'
  BY <1>1, <1>2, <1>3 DEF Came, EffectsDone, Grows
<1>6. ResultTrue(q)'
  BY <1>1, <1>2, <1>3 DEF Came, ResultTrue, Grows
<1>7. ReportTrue(q)'
  BY <1>1, <1>2, <1>3 DEF Came, ReportTrue, Grows
<1> QED
  BY <1>4, <1>5, <1>6, <1>7 DEF Came

LEMMA OthersCame ==
  ASSUME PublicationInv, Grows, NEW p \in Publishers, OthersStay(p)
  PROVE  \A q \in Publishers \ {p} : Came(q)'
BY StayCame DEF OthersStay

LEMMA EffectsAre == Effects = {"commit", "push", "create"}
                    /\ Gates = {"publication", "git.push", "github.create_pr"}
BY DEF Effects, Gates

\* A step of a publisher that touches no record: what there is to show is about
\* the publisher itself, and the world.
LEMMA CallerStep ==
  ASSUME PublicationInv, NEW p \in Publishers, UNCHANGED <<store, try>>,
         NEW s \in Stages, stage' = [stage EXCEPT ![p] = s],
         NEW o, outcome' = [outcome EXCEPT ![p] = o],
         o \in Failures \cup Gates \cup {"none", "SUCCEEDED", "RECOVERABLE", "FAILED"},
         s = "settle" => o \in Failures \cup {"SUCCEEDED"},
         s = "report" => o \in Gates \cup {"RECOVERABLE", "SUCCEEDED", "FAILED"},
         \A e \in Effects : Owns(p, <<try[p], e>>) => s \in RunsAt(e),
         tree' \in {"dirty", "staged", "committed"}, remote' \in BOOLEAN, opened' \in Nat,
         open' \in BOOLEAN, disabled' \in BOOLEAN,
         tree = "committed" => tree' = "committed", remote => remote', opened > 0 => opened' > 0,
         \A q \in Publishers \ {p} : stage[q] = "post" /\ opened' > 0 => open',
         OnePullRequest', PublishedIsAuthorized', Came(p)'
  PROVE  PublicationInv'
<1>1. Grows
  BY DEF Grows, store, PolicyAllows, Done
<1>2. PublicationTypeOK'
  BY DEF PublicationInv, PublicationTypeOK, store
<1>3. \A q \in Publishers \ {p} : stage'[q] = stage[q] /\ outcome'[q] = outcome[q]
  BY DEF PublicationInv, PublicationTypeOK
<1>4. stage'[p] = s /\ outcome'[p] = o
  BY DEF PublicationInv, PublicationTypeOK
<1>5. OutcomeFits'
  BY <1>3, <1>4 DEF PublicationInv, OutcomeFits
<1>6. OwnershipSound'
  <2>1. \A q \in Publishers, i \in Tries \X Effects : Owns(q, i)' = Owns(q, i)
    BY DEF Owns, store
  <2>2. \A i \in Tries \X Effects : Owns(p, i) => s \in RunsAt(i[2])
    BY DEF PublicationInv, OwnershipSound
  <2>3. \A i \in Tries \X Effects : RunsAt(i[2])' = RunsAt(i[2])
    BY DEF RunsAt
  <2> QED
    BY <1>3, <1>4, <2>1, <2>2, <2>3 DEF PublicationInv, OwnershipSound, store
<1>7. RecordsTrue'
  BY <1>1 DEF PublicationInv, RecordsTrue, Done, store
<1>8. \A q \in Publishers \ {p} : Came(q)'
  BY <1>1, <1>3, OthersCame DEF OthersStay, Owns, store
<1>9. SuccessIsPublished'
  BY DEF PublicationInv, SuccessIsPublished, store
<1> QED
  BY <1>2, <1>5, <1>6, <1>7, <1>8, <1>9 DEF PublicationInv

\* It goes on.
LEMMA MoveStep ==
  ASSUME PublicationInv, NEW p \in Publishers, UNCHANGED <<store, try, world, outcome>>,
         NEW s \in Stages \ {"settle", "report"}, Move(p, s),
         \A e \in Effects : Owns(p, <<try[p], e>>) => s \in RunsAt(e),
         s = "post" /\ opened > 0 => open, Came(p)'
  PROVE  PublicationInv'
<1>1. outcome' = [outcome EXCEPT ![p] = outcome[p]]
  BY DEF PublicationInv, PublicationTypeOK
<1>2. outcome[p] \in Failures \cup Gates \cup {"none", "SUCCEEDED", "RECOVERABLE", "FAILED"}
  BY DEF PublicationInv, PublicationTypeOK
<1>3. OnePullRequest' /\ PublishedIsAuthorized'
  BY DEF PublicationInv, OnePullRequest, PublishedIsAuthorized, world, store, PolicyAllows
<1>4. /\ tree' \in {"dirty", "staged", "committed"} /\ remote' \in BOOLEAN /\ opened' \in Nat
      /\ open' \in BOOLEAN /\ disabled' \in BOOLEAN
  BY DEF PublicationInv, PublicationTypeOK, world
<1>5. /\ tree = "committed" => tree' = "committed"
      /\ remote => remote'
      /\ opened > 0 => opened' > 0
  BY DEF world
<1>6. \A q \in Publishers \ {p} : stage[q] = "post" /\ opened' > 0 => open'
  BY DEF PublicationInv, Came, EffectsDone, world
<1>7. stage' = [stage EXCEPT ![p] = s]
  BY DEF Move
<1> QED
  BY <1>1, <1>2, <1>3, <1>4, <1>5, <1>6, <1>7, CallerStep

\* It returns.
LEMMA ReturnStep ==
  ASSUME PublicationInv, NEW p \in Publishers,
         \A e \in Effects : ~ Owns(p, <<try[p], e>>),
         NEW r \in Gates \cup {"RECOVERABLE", "FAILED"}, Return(p, r)
  PROVE  PublicationInv'
<1>1. OnePullRequest' /\ PublishedIsAuthorized'
  BY DEF PublicationInv, OnePullRequest, PublishedIsAuthorized, world, store, PolicyAllows, Return
<1>2. /\ tree' \in {"dirty", "staged", "committed"} /\ remote' \in BOOLEAN /\ opened' \in Nat
      /\ open' \in BOOLEAN /\ disabled' \in BOOLEAN
  BY DEF PublicationInv, PublicationTypeOK, world, Return
<1>3. /\ tree = "committed" => tree' = "committed"
      /\ remote => remote'
      /\ opened > 0 => opened' > 0
  BY DEF world, Return
<1>4. \A q \in Publishers \ {p} : stage[q] = "post" /\ opened' > 0 => open'
  BY DEF PublicationInv, Came, EffectsDone, world, Return
<1>5. stage' = [stage EXCEPT ![p] = "report"] /\ outcome' = [outcome EXCEPT ![p] = r]
      /\ UNCHANGED <<store, try>>
  BY DEF Move, Return
<1>6. stage'[p] = "report" /\ outcome'[p] = r /\ r # "SUCCEEDED"
  BY <1>5, EffectsAre DEF PublicationInv, PublicationTypeOK
<1>7. Came(p)'
  BY <1>6 DEF Came, GatesPassed, EffectsDone, ResultTrue, ReportTrue, PastPermit, PastMayPush,
              PastMayCreate, PastPush, PastCommit
<1> QED
  BY <1>1, <1>2, <1>3, <1>4, <1>5, <1>7, CallerStep DEF Stages

\* Its effect is over: what there is to show is that the result is true.
LEMMA ResultStep ==
  ASSUME PublicationInv, NEW p \in Publishers,
         NEW o \in Failures \cup {"SUCCEEDED"}, Result(p, o),
         stage[p] \in {"committing", "staged", "pushing", "verify", "lookup", "post"},
         tree' \in {"dirty", "staged", "committed"}, remote' \in BOOLEAN, opened' \in Nat,
         open' \in BOOLEAN, disabled' \in BOOLEAN,
         tree = "committed" => tree' = "committed", remote => remote', opened > 0 => opened' > 0,
         \A q \in Publishers \ {p} : stage[q] = "post" /\ opened' > 0 => open',
         OnePullRequest', PublishedIsAuthorized',
         o = "SUCCEEDED" => /\ stage[p] \in {"committing", "staged"} => tree' = "committed"
                            /\ stage[p] = "pushing" => remote'
                            /\ stage[p] \in {"verify", "lookup", "post"} => opened' > 0
  PROVE  PublicationInv'
<1>1. stage' = [stage EXCEPT ![p] = "settle"] /\ outcome' = [outcome EXCEPT ![p] = o]
      /\ UNCHANGED <<store, try>>
  BY DEF Move, Result
<1>2. stage'[p] = "settle" /\ outcome'[p] = o
  BY <1>1 DEF PublicationInv, PublicationTypeOK
<1>3. try[p] \in Tries /\ \A e \in {"commit", "push", "create"} : <<try[p], e>> \in Tries \X Effects
  BY EffectsAre DEF PublicationInv, PublicationTypeOK
<1>4. \A e \in {"commit", "push", "create"} : Owns(p, <<try[p], e>>) => stage[p] \in RunsAt(e)
  BY <1>3 DEF PublicationInv, OwnershipSound
<1>5. /\ Owns(p, <<try[p], "commit">>) => stage[p] \in {"committing", "staged"}
      /\ Owns(p, <<try[p], "push">>) => stage[p] = "pushing"
      /\ Owns(p, <<try[p], "create">>) => stage[p] \in {"verify", "lookup", "post"}
  BY <1>4 DEF RunsAt
<1>6. GatesPassed(p) /\ EffectsDone(p)
  BY DEF PublicationInv, Came
<1>7. GatesPassed(p)'
  BY <1>1, <1>2, <1>6 DEF GatesPassed, PolicyAllows, PastPermit, PastMayPush, PastMayCreate, store,
                          Stages
<1>8. EffectsDone(p)' /\ ReportTrue(p)'
  BY <1>2 DEF EffectsDone, ReportTrue, PastMayCreate, PastPush, PastCommit
<1>9. ResultTrue(p)'
  <2>1. Owns(p, <<try[p], "commit">>)' /\ outcome'[p] = "SUCCEEDED" => tree' = "committed"
    BY <1>1, <1>2, <1>5 DEF Owns, store
  <2>2. Owns(p, <<try[p], "push">>)' =>
          Done(try[p], "commit")' /\ (outcome'[p] = "SUCCEEDED" => remote')
    BY <1>1, <1>2, <1>5, <1>6 DEF Owns, store, EffectsDone, Done, PastCommit
  <2>3. Owns(p, <<try[p], "create">>)' =>
          /\ Done(try[p], "commit")' /\ Done(try[p], "push")'
          /\ PolicyAllows(try[p], "github.create_pr")'
          /\ outcome'[p] = "SUCCEEDED" => opened' > 0
    BY <1>1, <1>2, <1>5, <1>6
       DEF Owns, store, EffectsDone, GatesPassed, Done, PolicyAllows, PastCommit, PastPush,
           PastMayCreate
  <2> QED
    BY <2>1, <2>2, <2>3 DEF ResultTrue
<1>10. Came(p)'
  BY <1>7, <1>8, <1>9 DEF Came
<1>11. \A e \in Effects : Owns(p, <<try[p], e>>) => "settle" \in RunsAt(e)
  BY DEF RunsAt
<1> QED
  BY <1>1, <1>10, <1>11, CallerStep DEF Stages, Failures

-----------------------------------------------------------------------------
(* The steps of a publisher.                                               *)

\* Whoever is not at an effect owns no record.
LEMMA NotWorking ==
  ASSUME PublicationInv, NEW p \in Publishers,
         stage[p] \notin {"committing", "staged", "pushing", "verify", "lookup", "post", "settle"}
  PROVE  \A i \in Tries \X Effects : ~ Owns(p, i)
BY DEF PublicationInv, OwnershipSound, RunsAt

LEMMA NotWorkingHere ==
  ASSUME PublicationInv, NEW p \in Publishers,
         stage[p] \notin {"committing", "staged", "pushing", "verify", "lookup", "post", "settle"}
  PROVE  \A e \in Effects : ~ Owns(p, <<try[p], e>>)
BY NotWorking DEF PublicationInv, PublicationTypeOK

\* A step that goes on with nothing of its own keeps what it has come with.
LEMMA GoOn ==
  ASSUME PublicationInv, NEW p \in Publishers, UNCHANGED <<store, try, world, outcome>>,
         NEW s \in Stages \ {"settle", "report", "post"}, Move(p, s),
         stage[p] \notin {"committing", "staged", "pushing", "verify", "lookup", "post", "settle"},
         s \in PastPermit => evidence = "accepted" /\ PolicyAllows(try[p], "publication"),
         s \in PastMayPush => PolicyAllows(try[p], "git.push"),
         s \in PastMayCreate => PolicyAllows(try[p], "github.create_pr"),
         s \in PastCommit => Done(try[p], "commit"),
         s \in PastPush => Done(try[p], "push"),
         s = "describe" => Done(try[p], "create")
  PROVE  PublicationInv'
<1>1. stage'[p] = s
  BY DEF Move, PublicationInv, PublicationTypeOK
<1>2. GatesPassed(p)' /\ EffectsDone(p)'
  BY <1>1 DEF GatesPassed, EffectsDone, PolicyAllows, Done, store
<1>3. ResultTrue(p)' /\ ReportTrue(p)'
  BY <1>1 DEF ResultTrue, ReportTrue
<1> QED
  BY <1>2, <1>3, NotWorkingHere, MoveStep DEF Came

LEMMA DecideKeeps ==
  ASSUME PublicationInv, NEW p \in Publishers, NEW g \in Gates, NEW s, Decide(p, g, s),
         \/ stage[p] = "permit" /\ g = "publication" /\ s = "mayPush" /\ evidence = "accepted"
         \/ stage[p] = "mayPush" /\ g = "git.push" /\ s = "commit"
         \/ stage[p] = "mayCreate" /\ g = "github.create_pr" /\ s = "match"
  PROVE  PublicationInv'
<1>1. \A e \in Effects : ~ Owns(p, <<try[p], e>>)
  BY NotWorkingHere
<1>2. CASE Return(p, g) \/ Return(p, "FAILED")
  BY <1>1, <1>2, ReturnStep
<1>3. CASE /\ Attached(p) /\ Verdict(try[p], g) = "go"
           /\ Move(p, s) /\ UNCHANGED <<store, world, try, outcome, bounds>>
  <2>1. PolicyAllows(try[p], g)
    BY <1>3 DEF Verdict
  <2>2. GatesPassed(p) /\ EffectsDone(p)
    BY DEF PublicationInv, Came
  <2> QED
    BY <1>3, <2>1, <2>2, GoOn
       DEF Stages, PastPermit, PastMayPush, PastMayCreate, PastPush, PastCommit, GatesPassed,
           EffectsDone
<1> QED
  BY <1>2, <1>3 DEF Decide

LEMMA GatesKeep ==
  ASSUME PublicationInv, NEW p \in Publishers,
         GatePublication(p) \/ GatePush(p) \/ GateCreate(p)
  PROVE  PublicationInv'
<1>1. CASE GatePublication(p)
  <2>1. CASE Return(p, "FAILED")
    BY <1>1, <2>1, NotWorkingHere, ReturnStep DEF GatePublication
  <2> QED
    BY <1>1, <2>1, DecideKeeps, EffectsAre DEF GatePublication, Accepted
<1>2. CASE GatePush(p)
  BY <1>2, DecideKeeps, EffectsAre DEF GatePush
<1>3. CASE GateCreate(p)
  BY <1>3, DecideKeeps, EffectsAre DEF GateCreate
<1> QED
  BY <1>1, <1>2, <1>3

\* A result is read.
LEMMA ContinueKeeps ==
  ASSUME PublicationInv, NEW p \in Publishers, AfterCommit(p) \/ Pushed(p) \/ Created(p)
  PROVE  PublicationInv'
<1>1. \A e \in Effects : ~ Owns(p, <<try[p], e>>)
  BY NotWorkingHere DEF AfterCommit, Pushed, Created
<1>2. CASE Return(p, "FAILED") \/ Return(p, "RECOVERABLE")
  BY <1>1, <1>2, ReturnStep
<1>3. GatesPassed(p) /\ EffectsDone(p)
  BY DEF PublicationInv, Came
<1>4. CASE AfterCommit(p) /\ Done(try[p], "commit") /\ Move(p, "push")
           /\ UNCHANGED <<store, world, try, outcome, bounds>>
  BY <1>3, <1>4, GoOn
     DEF AfterCommit, Stages, PastPermit, PastMayPush, PastMayCreate, PastPush, PastCommit,
         GatesPassed, EffectsDone
<1>5. CASE Pushed(p) /\ Done(try[p], "push") /\ Move(p, "mayCreate")
           /\ UNCHANGED <<store, world, try, outcome, bounds>>
  BY <1>3, <1>5, GoOn
     DEF Pushed, Stages, PastPermit, PastMayPush, PastMayCreate, PastPush, PastCommit,
         GatesPassed, EffectsDone
<1>6. CASE Created(p) /\ Done(try[p], "create") /\ Move(p, "describe")
           /\ UNCHANGED <<store, world, try, outcome, bounds>>
  BY <1>3, <1>6, GoOn
     DEF Created, Stages, PastPermit, PastMayPush, PastMayCreate, PastPush, PastCommit,
         GatesPassed, EffectsDone
<1> QED
  BY <1>2, <1>4, <1>5, <1>6 DEF AfterCommit, Pushed, Created, Continue, Invocation, Done

-----------------------------------------------------------------------------
(* Records.                                                                *)

InvocationRecords == [status : {"none", "PENDING"} \cup Terminal,
                owner : Publishers \cup {Nobody}, failure : Failures \cup {"none"}]

\* A step that replaces the record of one effect of the publisher's attempt, and
\* goes on.
LEMMA RecordStep ==
  ASSUME PublicationInv, NEW p \in Publishers, NEW e \in Effects,
         NEW rec \in InvocationRecords, invocation' = [invocation EXCEPT ![<<try[p], e>>] = rec],
         UNCHANGED <<attempt, due, verdict, approval, evidence, described, world, try>>,
         NEW s \in Stages \ {"settle", "report", "post"}, Move(p, s),
         outcome' \in {outcome, [outcome EXCEPT ![p] = "none"]},
         \A i \in Tries \X Effects : Owns(p, i) => i = <<try[p], e>>,
         rec.owner \in {Nobody, p},
         rec.owner = p => rec.status = "PENDING" /\ s \in RunsAt(e),
         ~ Done(try[p], e),
         rec.status = "SUCCEEDED" => /\ e = "commit" => tree = "committed"
                                     /\ e = "push" => remote
                                     /\ e = "create" => opened > 0,
         s \in PastPermit => evidence = "accepted" /\ PolicyAllows(try[p], "publication"),
         s \in PastMayPush => PolicyAllows(try[p], "git.push"),
         s \in PastMayCreate => PolicyAllows(try[p], "github.create_pr"),
         s \in PastCommit => Done(try[p], "commit"),
         s \in PastPush => Done(try[p], "push"),
         s # "describe"
  PROVE  PublicationInv'
<1> DEFINE k == <<try[p], e>>
<1>1. k \in Tries \X Effects /\ try[p] \in Tries
  BY DEF PublicationInv, PublicationTypeOK
<1>2. invocation \in [Tries \X Effects -> InvocationRecords]
  BY DEF PublicationInv, PublicationTypeOK, InvocationRecords
<1>3. invocation'[k] = rec /\ \A i \in Tries \X Effects : i # k => invocation'[i] = invocation[i]
  BY <1>1, <1>2
<1>4. /\ stage'[p] = s
      /\ \A q \in Publishers \ {p} : stage'[q] = stage[q] /\ outcome'[q] = outcome[q]
  BY DEF Move, PublicationInv, PublicationTypeOK
<1>5. Grows
  <2>1. \A a \in Tries : \A f \in Effects : Done(a, f) => Done(a, f)'
    BY <1>3 DEF Done
  <2> QED
    BY <2>1 DEF Grows, PolicyAllows, world
<1>6. PublicationTypeOK'
  <2>1. invocation' \in [Tries \X Effects -> InvocationRecords]
    BY <1>2
  <2>2. stage' \in [Publishers -> Stages] /\ try' \in [Publishers -> Tries]
        /\ outcome' \in [Publishers ->
             Failures \cup Gates \cup {"none", "SUCCEEDED", "RECOVERABLE", "FAILED"}]
    BY DEF PublicationInv, PublicationTypeOK, Move
  <2> QED
    BY <2>1, <2>2 DEF PublicationInv, PublicationTypeOK, InvocationRecords, world
<1>7. OutcomeFits'
  BY <1>4 DEF PublicationInv, OutcomeFits
<1>8. \A q \in Publishers \ {p} : \A i \in Tries \X Effects : Owns(q, i)' => Owns(q, i)
  BY <1>3, PublicationAssumption DEF Owns
<1>9. OwnershipSound'
  <2>1. \A i \in Tries \X Effects : invocation'[i].owner # Nobody => invocation'[i].status = "PENDING"
    BY <1>3 DEF PublicationInv, OwnershipSound
  <2>2. \A i \in Tries \X Effects : Owns(p, i)' => i = k
    BY <1>3 DEF Owns
  <2>3. \A i \in Tries \X Effects : Owns(p, i)' => i[1] = try[p] /\ s \in RunsAt(i[2])
    BY <1>3, <2>2 DEF Owns
  <2>4. \A q \in Publishers : \A i \in Tries \X Effects :
          Owns(q, i)' => i[1] = try'[q] /\ stage'[q] \in RunsAt(i[2])
    BY <1>4, <1>8, <2>3 DEF PublicationInv, OwnershipSound
  <2>5. \A q \in Publishers : \A i, j \in Tries \X Effects : Owns(q, i)' /\ Owns(q, j)' => i = j
    BY <1>8, <2>2 DEF PublicationInv, OwnershipSound
  <2>6. \A i \in Tries \X Effects : RunsAt(i[2])' = RunsAt(i[2])
    BY DEF RunsAt
  <2> QED
    BY <2>1, <2>4, <2>5, <2>6 DEF OwnershipSound
<1>10. RecordsTrue'
  <2> SUFFICES ASSUME NEW a \in Tries
               PROVE  /\ Done(a, "commit")' => tree' = "committed"
                      /\ Done(a, "push")' => remote'
                      /\ Done(a, "create")' => opened' > 0
    BY DEF RecordsTrue
  <2>1. \A f \in Effects : <<a, f>> = k => f = e
    OBVIOUS
  <2>2. \A f \in Effects : Done(a, f)' => Done(a, f) \/ (f = e /\ rec.status = "SUCCEEDED")
    BY <1>3, <2>1 DEF Done
  <2> QED
    BY <2>2, EffectsAre DEF PublicationInv, RecordsTrue, world
<1>11. \A q \in Publishers \ {p} : Came(q)'
  <2>1. \A q \in Publishers \ {p} : stage[q] = "post" /\ opened' > 0 => open'
    BY DEF PublicationInv, Came, EffectsDone, world
  <2> QED
    BY <1>4, <1>5, <1>8, <2>1, OthersCame DEF OthersStay
<1>12. Came(p)'
  <2>1. GatesPassed(p)'
    BY <1>4 DEF GatesPassed, PolicyAllows
  <2>2. EffectsDone(p)'
    BY <1>1, <1>4, <1>5, EffectsAre DEF EffectsDone, Grows
  <2>3. ResultTrue(p)' /\ ReportTrue(p)'
    BY <1>4 DEF ResultTrue, ReportTrue
  <2> QED
    BY <2>1, <2>2, <2>3 DEF Came
<1>13. OnePullRequest' /\ SuccessIsPublished' /\ PublishedIsAuthorized'
  BY DEF PublicationInv, OnePullRequest, SuccessIsPublished, PublishedIsAuthorized, world,
         PolicyAllows
<1> QED
  BY <1>6, <1>7, <1>9, <1>10, <1>11, <1>12, <1>13 DEF PublicationInv

LEMMA OpenKeeps ==
  ASSUME PublicationInv, NEW p \in Publishers, NEW e \in Effects, NEW run, NEW done,
         Open(p, e, run, done),
         \/ e = "commit" /\ stage[p] = "commit" /\ run = "committing" /\ done = "committed"
         \/ e = "push" /\ stage[p] = "push" /\ run = "pushing" /\ done = "pushed"
         \/ e = "create" /\ stage[p] = "reserve" /\ run = "verify" /\ done = "created"
  PROVE  PublicationInv'
<1>1. \A i \in Tries \X Effects : ~ Owns(p, i)
  BY NotWorking
<1>2. \A f \in Effects : ~ Owns(p, <<try[p], f>>)
  BY NotWorkingHere
<1>3. GatesPassed(p) /\ EffectsDone(p)
  BY DEF PublicationInv, Came
<1>4. CASE /\ Invocation(p, e).status = "none"
           /\ invocation' = [invocation EXCEPT ![<<try[p], e>>] = Reserved(p)]
           /\ Move(p, run)
           /\ UNCHANGED <<attempt, due, verdict, approval, evidence, described, world, try,
                          outcome, bounds>>
  <2>1. Reserved(p) \in InvocationRecords /\ Reserved(p).owner = p /\ Reserved(p).status = "PENDING"
    BY DEF Reserved, InvocationRecords
  <2>2. ~ Done(try[p], e)
    BY <1>4 DEF Done, Invocation
  <2>3. run \in RunsAt(e) /\ run \in Stages \ {"settle", "report", "post"} /\ run # "describe"
    BY DEF RunsAt, Stages
  <2>4. /\ run \in PastPermit => evidence = "accepted" /\ PolicyAllows(try[p], "publication")
        /\ run \in PastMayPush => PolicyAllows(try[p], "git.push")
        /\ run \in PastMayCreate => PolicyAllows(try[p], "github.create_pr")
        /\ run \in PastCommit => Done(try[p], "commit")
        /\ run \in PastPush => Done(try[p], "push")
    BY <1>3 DEF GatesPassed, EffectsDone, PastPermit, PastMayPush, PastMayCreate, PastPush,
                PastCommit, Stages
  <2>5. outcome' \in {outcome, [outcome EXCEPT ![p] = "none"]}
    BY <1>4
  <2> QED
    BY <1>1, <1>4, <2>1, <2>2, <2>3, <2>4, <2>5, RecordStep
<1>5. CASE Move(p, done) /\ UNCHANGED <<store, world, try, outcome, bounds>>
  BY <1>3, <1>5, GoOn
     DEF Stages, PastPermit, PastMayPush, PastMayCreate, PastPush, PastCommit, GatesPassed,
         EffectsDone
<1>6. CASE Return(p, "RECOVERABLE")
  BY <1>2, <1>6, ReturnStep
<1> QED
  BY <1>4, <1>5, <1>6 DEF Open

LEMMA OpenersKeep ==
  ASSUME PublicationInv, NEW p \in Publishers, OpenCommit(p) \/ OpenPush(p) \/ OpenCreate(p)
  PROVE  PublicationInv'
<1>1. CASE OpenCommit(p)
  BY <1>1, OpenKeeps, EffectsAre DEF OpenCommit
<1>2. CASE OpenPush(p)
  <2>1. CASE Return(p, "FAILED")
    BY <1>2, <2>1, NotWorkingHere, ReturnStep DEF OpenPush
  <2> QED
    BY <1>2, <2>1, OpenKeeps, EffectsAre DEF OpenPush
<1>3. CASE OpenCreate(p)
  BY <1>3, OpenKeeps, EffectsAre DEF OpenCreate
<1> QED
  BY <1>1, <1>2, <1>3

-----------------------------------------------------------------------------
(* Effects.                                                                *)

\* A result that leaves the world alone.
LEMMA FailureKeeps ==
  ASSUME PublicationInv, NEW p \in Publishers, NEW o \in Failures \cup {"SUCCEEDED"}, Result(p, o),
         stage[p] \in {"committing", "staged", "pushing", "verify", "lookup", "post"},
         UNCHANGED world,
         o = "SUCCEEDED" => /\ stage[p] \in {"committing", "staged"} => tree = "committed"
                            /\ stage[p] = "pushing" => remote
                            /\ stage[p] \in {"verify", "lookup", "post"} => opened > 0
  PROVE  PublicationInv'
<1>1. /\ tree' = tree /\ remote' = remote /\ opened' = opened /\ open' = open
      /\ disabled' = disabled
  BY DEF world
<1>2. /\ tree \in {"dirty", "staged", "committed"} /\ remote \in BOOLEAN /\ opened \in Nat
      /\ open \in BOOLEAN /\ disabled \in BOOLEAN
  BY DEF PublicationInv, PublicationTypeOK
<1>3. OnePullRequest' /\ PublishedIsAuthorized'
  BY <1>1 DEF PublicationInv, OnePullRequest, PublishedIsAuthorized, store, PolicyAllows, Result
<1>4. \A q \in Publishers \ {p} : stage[q] = "post" /\ opened' > 0 => open'
  BY <1>1 DEF PublicationInv, Came, EffectsDone
<1> QED
  BY <1>1, <1>2, <1>3, <1>4, ResultStep

LEMMA StageKeeps == ASSUME PublicationInv, NEW p \in Publishers, StageChanges(p) PROVE PublicationInv'
<1>1. stage[p] = "committing"
  BY DEF StageChanges
<1>2. CASE \E o \in {"permanent", "SUCCEEDED"} :
             Result(p, o) /\ UNCHANGED world /\ (o = "SUCCEEDED" => tree = "committed")
  BY <1>1, <1>2, FailureKeeps DEF Failures
<1>3. GatesPassed(p) /\ \A e \in Effects : Owns(p, <<try[p], e>>) => e = "commit"
  <2>1. \A e \in Effects : <<try[p], e>> \in Tries \X Effects
    BY DEF PublicationInv, PublicationTypeOK
  <2>2. \A e \in Effects : Owns(p, <<try[p], e>>) => stage[p] \in RunsAt(e)
    BY <2>1 DEF PublicationInv, OwnershipSound
  <2> QED
    BY <1>1, <2>2, EffectsAre DEF PublicationInv, Came, RunsAt
<1>4. CASE /\ tree = "dirty" /\ tree' = "staged" /\ Move(p, "staged")
           /\ UNCHANGED <<store, remote, opened, open, disabled, try, outcome, bounds>>
  <2>1. stage' = [stage EXCEPT ![p] = "staged"] /\ UNCHANGED <<store, try>>
        /\ outcome' = [outcome EXCEPT ![p] = outcome[p]]
    BY <1>4 DEF Move, PublicationInv, PublicationTypeOK
  <2>2. stage'[p] = "staged"
    BY <2>1 DEF PublicationInv, PublicationTypeOK
  <2>3. Came(p)'
    BY <1>1, <1>3, <2>1, <2>2 DEF Came, GatesPassed, EffectsDone, ResultTrue, ReportTrue, PolicyAllows, store,
       PastPermit, PastMayPush, PastMayCreate, PastPush, PastCommit, Stages
  <2>4. OnePullRequest' /\ PublishedIsAuthorized'
    BY <1>4, <2>1 DEF PublicationInv, OnePullRequest, PublishedIsAuthorized, store, PolicyAllows
  <2>5. \A q \in Publishers \ {p} : stage[q] = "post" /\ opened' > 0 => open'
    BY <1>4 DEF PublicationInv, Came, EffectsDone
  <2>6. /\ tree' \in {"dirty", "staged", "committed"} /\ remote' \in BOOLEAN /\ opened' \in Nat
        /\ open' \in BOOLEAN /\ disabled' \in BOOLEAN
        /\ outcome[p] \in Failures \cup Gates \cup {"none", "SUCCEEDED", "RECOVERABLE", "FAILED"}
    BY <1>4 DEF PublicationInv, PublicationTypeOK
  <2>7. \A e \in Effects : Owns(p, <<try[p], e>>) => "staged" \in RunsAt(e)
    BY <1>3 DEF RunsAt
  <2> QED
    BY <1>4, <2>1, <2>3, <2>4, <2>5, <2>6, <2>7, CallerStep DEF Stages
<1>5. CASE Move(p, "staged") /\ UNCHANGED <<store, world, try, outcome, bounds>>
  <2>1. stage'[p] = "staged"
    BY <1>5 DEF Move, PublicationInv, PublicationTypeOK
  <2>2. Came(p)'
    BY <1>1, <1>3, <1>5, <2>1
       DEF Came, GatesPassed, EffectsDone, ResultTrue, ReportTrue, PolicyAllows, store,
           PastPermit, PastMayPush, PastMayCreate, PastPush, PastCommit, Stages
  <2>3. \A e \in Effects : Owns(p, <<try[p], e>>) => "staged" \in RunsAt(e)
    BY <1>3 DEF RunsAt
  <2> QED
    BY <1>5, <2>2, <2>3, MoveStep DEF Stages
<1> QED
  BY <1>2, <1>4, <1>5 DEF StageChanges

\* Commit, push and request: what the world must show for it.
LEMMA CommitKeeps == ASSUME PublicationInv, NEW p \in Publishers, CommitChanges(p) PROVE PublicationInv'
<1>1. stage[p] = "staged" /\ UNCHANGED <<remote, opened, open, disabled>>
  BY DEF CommitChanges
<1>2. \E o \in {"SUCCEEDED", "permanent"} :
        /\ Result(p, o) /\ tree' \in {tree, "committed"}
        /\ o = "SUCCEEDED" => tree' = "committed"
  BY DEF CommitChanges
<1>3. OnePullRequest' /\ PublishedIsAuthorized'
  BY <1>1, <1>2 DEF PublicationInv, OnePullRequest, PublishedIsAuthorized, store, PolicyAllows, Result
<1>4. \A q \in Publishers \ {p} : stage[q] = "post" /\ opened' > 0 => open'
  BY <1>1 DEF PublicationInv, Came, EffectsDone
<1>5. /\ tree' \in {"dirty", "staged", "committed"} /\ remote' \in BOOLEAN /\ opened' \in Nat
      /\ open' \in BOOLEAN /\ disabled' \in BOOLEAN
  BY <1>1, <1>2 DEF PublicationInv, PublicationTypeOK
<1>6. PICK o \in {"SUCCEEDED", "permanent"} :
        /\ Result(p, o) /\ tree' \in {tree, "committed"}
        /\ o = "SUCCEEDED" => tree' = "committed"
  BY <1>2
<1>7. o = "SUCCEEDED" => /\ stage[p] \in {"committing", "staged"} => tree' = "committed"
                         /\ stage[p] = "pushing" => remote'
                         /\ stage[p] \in {"verify", "lookup", "post"} => opened' > 0
  BY <1>1, <1>6
<1>8. /\ tree = "committed" => tree' = "committed"
      /\ remote => remote'
      /\ opened > 0 => opened' > 0
  BY <1>1, <1>6
<1>9. o \in Failures \cup {"SUCCEEDED"}
  BY DEF Failures
<1> QED
  BY <1>1, <1>3, <1>4, <1>5, <1>6, <1>7, <1>8, <1>9, ResultStep

LEMMA PushKeeps == ASSUME PublicationInv, NEW p \in Publishers, Push(p) PROVE PublicationInv'
<1>1. stage[p] = "pushing" /\ UNCHANGED <<tree, opened, open, disabled>>
  BY DEF Push
<1>2. PICK o \in {"SUCCEEDED", "recoverable", "permanent"} :
        Result(p, o) /\ (remote' = remote \/ remote' = TRUE) /\ (o = "SUCCEEDED" => remote' = TRUE)
  BY DEF Push
<1>3. /\ evidence = "accepted" /\ PolicyAllows(try[p], "publication")
      /\ PolicyAllows(try[p], "git.push") /\ tree = "committed" /\ try[p] \in Tries
  BY <1>1 DEF PublicationInv, PublicationTypeOK, Came, GatesPassed, EffectsDone, RecordsTrue,
              PastPermit, PastMayPush, PastCommit, Stages
<1>4. UNCHANGED <<verdict, approval, evidence>>
  BY <1>2 DEF Result, store
<1>5. remote => remote'
  <2>1. CASE remote' = remote
    BY <2>1
  <2>2. CASE remote' = TRUE
    BY <2>2
  <2> QED
    BY <1>2, <2>1, <2>2
<1>6. \A a \in Tries, g \in Gates : PolicyAllows(a, g)' <=> PolicyAllows(a, g)
  BY <1>4 DEF PolicyAllows
<1>7. PublishedIsAuthorized'
  <2>1. opened > 0 => remote /\ \E a \in Tries : \A g \in Gates : PolicyAllows(a, g)
    BY DEF PublicationInv, PublishedIsAuthorized
  <2>2. opened' > 0 => remote' /\ \E a \in Tries : \A g \in Gates : PolicyAllows(a, g)'
    BY <1>1, <1>5, <1>6, <2>1
  <2> QED
    BY <1>1, <1>3, <1>4, <2>2 DEF PublishedIsAuthorized, PolicyAllows
<1>8. OnePullRequest'
  BY <1>1 DEF PublicationInv, OnePullRequest
<1>9. \A q \in Publishers \ {p} : stage[q] = "post" /\ opened' > 0 => open'
  BY <1>1 DEF PublicationInv, Came, EffectsDone
<1>10. /\ tree' \in {"dirty", "staged", "committed"} /\ opened' \in Nat
      /\ open' \in BOOLEAN /\ disabled' \in BOOLEAN /\ (opened > 0 => opened' > 0)
      /\ (tree = "committed" => tree' = "committed")
  BY <1>1 DEF PublicationInv, PublicationTypeOK
<1>11. remote' \in BOOLEAN
  <2>1. CASE remote' = remote
    BY <2>1 DEF PublicationInv, PublicationTypeOK
  <2>2. CASE remote' = TRUE
    BY <2>2
  <2> QED
    BY <1>2, <2>1, <2>2
<1>12. o = "SUCCEEDED" => /\ stage[p] \in {"committing", "staged"} => tree' = "committed"
                          /\ stage[p] = "pushing" => remote'
                          /\ stage[p] \in {"verify", "lookup", "post"} => opened' > 0
  BY <1>1, <1>2
<1>13. o \in Failures \cup {"SUCCEEDED"}
  BY DEF Failures
<1> QED
  BY <1>1, <1>2, <1>7, <1>8, <1>9, <1>10, <1>11, <1>12, <1>13, <1>5, ResultStep

LEMMA PostKeeps == ASSUME PublicationInv, NEW p \in Publishers, PostPull(p) PROVE PublicationInv'
<1>1. stage[p] = "post" /\ UNCHANGED <<tree, remote, disabled>>
  BY DEF PostPull
<1>2. \E o \in {"SUCCEEDED", "permanent"} :
        /\ Result(p, o)
        /\ \/ ~ open /\ opened' = opened + 1 /\ open' = TRUE
           \/ UNCHANGED <<opened, open>> /\ o # "SUCCEEDED"
  BY DEF PostPull
<1>3. /\ try[p] \in Tries /\ remote
      /\ \A g \in Gates : PolicyAllows(try[p], g)
  BY <1>1, EffectsAre
     DEF PublicationInv, PublicationTypeOK, Came, GatesPassed, EffectsDone, RecordsTrue,
         PastPermit, PastMayPush, PastMayCreate, PastPush, PastCommit, Stages
<1>4. opened \in Nat /\ opened <= 1 /\ (~ open => opened = 0)
  BY <1>1 DEF PublicationInv, PublicationTypeOK, OnePullRequest, Came, EffectsDone
<1>5. OnePullRequest' /\ opened' \in Nat /\ (opened > 0 => opened' > 0)
  BY <1>2, <1>4 DEF OnePullRequest
<1>6. PublishedIsAuthorized'
  BY <1>1, <1>2, <1>3 DEF PublicationInv, PublishedIsAuthorized, store, PolicyAllows, Result
<1>7. PICK o \in {"SUCCEEDED", "permanent"} :
        /\ Result(p, o)
        /\ \/ ~ open /\ opened' = opened + 1 /\ open' = TRUE
           \/ UNCHANGED <<opened, open>> /\ o # "SUCCEEDED"
  BY <1>2
<1>8. \A q \in Publishers \ {p} : stage[q] = "post" /\ opened' > 0 => open'
  <2>1. CASE open' = TRUE
    BY <2>1
  <2>2. CASE UNCHANGED <<opened, open>>
    BY <2>2 DEF PublicationInv, Came, EffectsDone
  <2> QED
    BY <1>7, <2>1, <2>2
<1>9. /\ tree' \in {"dirty", "staged", "committed"} /\ remote' \in BOOLEAN /\ open' \in BOOLEAN
      /\ disabled' \in BOOLEAN
  BY <1>1, <1>2 DEF PublicationInv, PublicationTypeOK
<1>10. o = "SUCCEEDED" => opened' > 0
  BY <1>4, <1>7
<1>11. o = "SUCCEEDED" => /\ stage[p] \in {"committing", "staged"} => tree' = "committed"
                          /\ stage[p] = "pushing" => remote'
                          /\ stage[p] \in {"verify", "lookup", "post"} => opened' > 0
  BY <1>1, <1>10
<1>12. /\ tree = "committed" => tree' = "committed"
       /\ remote => remote'
  BY <1>1
<1>13. o \in Failures \cup {"SUCCEEDED"}
  BY DEF Failures
<1> QED
  BY <1>1, <1>5, <1>6, <1>7, <1>8, <1>9, <1>11, <1>12, <1>13, ResultStep

\* The way to the request.
LEMMA EvidenceKeeps == ASSUME PublicationInv, NEW p \in Publishers, VerifyEvidence(p) PROVE PublicationInv'
<1>1. stage[p] = "verify"
  BY DEF VerifyEvidence
<1>2. CASE Result(p, "policy") /\ UNCHANGED world
  BY <1>1, <1>2, FailureKeeps DEF Failures
<1>3. CASE Move(p, "lookup") /\ UNCHANGED <<store, world, try, outcome, bounds>>
  <2>1. stage'[p] = "lookup"
    BY <1>3 DEF Move, PublicationInv, PublicationTypeOK
  <2>2. GatesPassed(p) /\ EffectsDone(p)
    BY DEF PublicationInv, Came
  <2>3. Came(p)'
    BY <1>1, <1>3, <2>1, <2>2
       DEF Came, GatesPassed, EffectsDone, ResultTrue, ReportTrue, PolicyAllows, store, Done,
           PastPermit, PastMayPush, PastMayCreate, PastPush, PastCommit, Stages
  <2>4. \A e \in Effects : Owns(p, <<try[p], e>>) => "lookup" \in RunsAt(e)
    BY <1>1, EffectsAre DEF PublicationInv, PublicationTypeOK, OwnershipSound, RunsAt
  <2> QED
    BY <1>3, <2>3, <2>4, MoveStep DEF Stages
<1> QED
  BY <1>2, <1>3 DEF VerifyEvidence

LEMMA LookUpKeeps == ASSUME PublicationInv, NEW p \in Publishers, LookUp(p) PROVE PublicationInv'
<1>1. stage[p] = "lookup"
  BY DEF LookUp
<1>2. CASE \E o \in {"SUCCEEDED", "permanent"} :
             Result(p, o) /\ UNCHANGED world /\ (o = "SUCCEEDED" => opened > 0)
  BY <1>1, <1>2, FailureKeeps DEF Failures
<1>3. CASE /\ ~ Existing /\ Move(p, "post")
           /\ UNCHANGED <<store, world, try, outcome, bounds>>
  <2>1. stage'[p] = "post"
    BY <1>3 DEF Move, PublicationInv, PublicationTypeOK
  <2>2. GatesPassed(p) /\ EffectsDone(p)
    BY DEF PublicationInv, Came
  <2>3. Came(p)'
    BY <1>1, <1>3, <2>1, <2>2
       DEF Came, GatesPassed, EffectsDone, ResultTrue, ReportTrue, PolicyAllows, store, Done,
           PastPermit, PastMayPush, PastMayCreate, PastPush, PastCommit, Stages, Existing, world
  <2>4. \A e \in Effects : Owns(p, <<try[p], e>>) => "post" \in RunsAt(e)
    BY <1>1, EffectsAre DEF PublicationInv, PublicationTypeOK, OwnershipSound, RunsAt
  <2> QED
    BY <1>3, <2>3, <2>4, MoveStep DEF Stages, Existing
<1> QED
  BY <1>2, <1>3 DEF LookUp, Existing

\* The record is closed.
LEMMA SettleKeeps ==
  ASSUME PublicationInv, NEW p \in Publishers, NEW e \in Effects, NEW done, Settle(p, e, done),
         \/ e = "commit" /\ done = "committed"
         \/ e = "push" /\ done = "pushed"
         \/ e = "create" /\ done = "created"
  PROVE  PublicationInv'
<1>1. /\ stage[p] = "settle" /\ Invocation(p, e).status = "PENDING" /\ Owns(p, <<try[p], e>>)
      /\ invocation' = [invocation EXCEPT ![<<try[p], e>>] = Ended(outcome[p])]
      /\ outcome' = [outcome EXCEPT ![p] = "none"] /\ Move(p, done)
      /\ UNCHANGED <<attempt, due, verdict, approval, evidence, described, world, try>>
  BY DEF Settle, InFlight, Owns, Invocation
<1>2. outcome[p] \in Failures \cup {"SUCCEEDED"}
  BY <1>1 DEF PublicationInv, OutcomeFits
<1>3. /\ Ended(outcome[p]) \in InvocationRecords /\ Ended(outcome[p]).owner = Nobody
      /\ Ended(outcome[p]).status = "SUCCEEDED" => outcome[p] = "SUCCEEDED"
  BY <1>2 DEF Ended, InvocationRecords, Terminal
<1>4. <<try[p], e>> \in Tries \X Effects
  BY DEF PublicationInv, PublicationTypeOK
<1>5. \A i \in Tries \X Effects : Owns(p, i) => i = <<try[p], e>>
  BY <1>1, <1>4 DEF PublicationInv, OwnershipSound
<1>6. ~ Done(try[p], e)
  BY <1>1 DEF Done, Invocation
<1>7. Ended(outcome[p]).status = "SUCCEEDED" => /\ e = "commit" => tree = "committed"
                                                /\ e = "push" => remote
                                                /\ e = "create" => opened > 0
  BY <1>1, <1>3 DEF PublicationInv, Came, ResultTrue
<1>8. /\ evidence = "accepted" /\ PolicyAllows(try[p], "publication")
      /\ PolicyAllows(try[p], "git.push")
  BY <1>1 DEF PublicationInv, Came, GatesPassed, PastPermit, PastMayPush, Stages
<1>9. /\ done \in PastMayCreate => PolicyAllows(try[p], "github.create_pr")
      /\ done \in PastCommit => Done(try[p], "commit")
      /\ done \in PastPush => Done(try[p], "push")
  BY <1>1 DEF PublicationInv, Came, ResultTrue, PastMayCreate, PastPush, PastCommit
<1>10. done \in Stages \ {"settle", "report", "post"} /\ done # "describe"
  BY DEF Stages
<1>11. Nobody # p
  BY PublicationAssumption
<1>12. outcome' \in {outcome, [outcome EXCEPT ![p] = "none"]}
  BY <1>1
<1> QED
  BY <1>1, <1>3, <1>5, <1>6, <1>7, <1>8, <1>9, <1>10, <1>11, <1>12, RecordStep

\* An earlier publication of the workflow is looked for.
LEMMA MatchKeeps == ASSUME PublicationInv, NEW p \in Publishers, MatchCreation(p) PROVE PublicationInv'
<1> DEFINE a == try[p]
<1>1. stage[p] = "match" /\ a \in Tries
  BY DEF MatchCreation, PublicationInv, PublicationTypeOK
<1>2. \A e \in Effects : ~ Owns(p, <<a, e>>)
  BY <1>1, NotWorkingHere
<1>3. \A i \in Tries \X Effects : ~ Owns(p, i)
  BY <1>1, NotWorking
<1>4. /\ evidence = "accepted" /\ PolicyAllows(a, "publication") /\ PolicyAllows(a, "git.push")
      /\ PolicyAllows(a, "github.create_pr") /\ Done(a, "commit") /\ Done(a, "push")
  BY <1>1 DEF PublicationInv, Came, GatesPassed, EffectsDone, PastPermit, PastMayPush,
              PastMayCreate, PastPush, PastCommit, Stages
<1>5. CASE Return(p, "FAILED") \/ Return(p, "RECOVERABLE")
  BY <1>2, <1>5, ReturnStep
<1>6. CASE \E s \in {"reserve", "created"} :
             Move(p, s) /\ UNCHANGED <<store, world, try, outcome, bounds>>
  <2>1. PICK s \in {"reserve", "created"} :
          Move(p, s) /\ UNCHANGED <<store, world, try, outcome, bounds>>
    BY <1>6
  <2>2. s \in Stages \ {"settle", "report", "post"} /\ s # "describe"
    BY DEF Stages
  <2> QED
    BY <1>1, <1>4, <2>1, <2>2, GoOn
<1>7. CASE \E b \in Matching :
             /\ b # a /\ Reconciled(a, b) /\ Move(p, "created")
             /\ UNCHANGED <<attempt, due, verdict, approval, evidence, described, world, try,
                            outcome, bounds>>
  <2>1. PICK b \in Tries :
          /\ Reconciled(a, b) /\ Move(p, "created")
          /\ UNCHANGED <<attempt, due, verdict, approval, evidence, described, world, try,
                         outcome, bounds>>
    BY <1>7 DEF Matching, With, Creations
  <2>2. "created" \in Stages \ {"settle", "report", "post"} /\ "create" \in Effects
    BY EffectsAre DEF Stages
  <2>3. CASE invocation[<<a, "create">>].status = "none"
    <3> DEFINE rec == invocation[<<b, "create">>]
    <3>1. <<b, "create">> \in Tries \X Effects
      BY <2>2
    <3>2. rec \in InvocationRecords /\ rec.status \in Terminal
      BY <2>1, <3>1 DEF PublicationInv, PublicationTypeOK, InvocationRecords, Reconciled
    <3>3. rec.owner = Nobody
      BY <3>1, <3>2 DEF PublicationInv, OwnershipSound, Terminal
    <3>4. rec.status = "SUCCEEDED" => opened > 0
      BY DEF PublicationInv, RecordsTrue, Done
    <3>5. invocation' = [invocation EXCEPT ![<<a, "create">>] = rec]
      BY <2>1, <2>3 DEF Reconciled, Adopted
    <3>6. ~ Done(a, "create") /\ Nobody # p
      BY <2>3, PublicationAssumption DEF Done
    <3>7. outcome' \in {outcome, [outcome EXCEPT ![p] = "none"]}
      BY <2>1
    <3> HIDE DEF rec
    <3> QED
      BY <1>3, <1>4, <2>1, <2>2, <3>2, <3>3, <3>4, <3>5, <3>6, <3>7, RecordStep
  <2>4. CASE invocation[<<a, "create">>].status # "none"
    <3>1. UNCHANGED <<store, try, world, outcome>>
      BY <2>1, <2>4 DEF Reconciled, store
    <3> QED
      BY <1>1, <1>4, <2>1, <2>2, <3>1, GoOn
  <2> QED
    BY <2>3, <2>4
<1> QED
  BY <1>5, <1>6, <1>7 DEF MatchCreation

-----------------------------------------------------------------------------
(* Steps that begin or end a call, and those of the people around it.      *)

\* A publisher that stays where it is, or is at neither effect nor record.
Elsewhere(q) ==
  \/ /\ stage'[q] = stage[q] /\ try'[q] = try[q] /\ outcome'[q] = outcome[q]
     /\ stage[q] = "post" /\ opened' > 0 => open'
  \/ /\ stage'[q] \in {"idle", "permit", "report"}
     /\ \A i \in Tries \X Effects : ~ Owns(q, i)'
     /\ stage'[q] = "report" =>
          outcome'[q] \in Gates \cup {"RECOVERABLE", "SUCCEEDED", "FAILED"}
     /\ ReportTrue(q)'

LEMMA AroundStep ==
  ASSUME PublicationInv, PublicationTypeOK', Grows, UNCHANGED <<tree, remote, opened>>,
         \A i \in Tries \X Effects : /\ invocation'[i].status = invocation[i].status
                                     /\ invocation'[i].owner \in {invocation[i].owner, Nobody},
         \A q \in Publishers : Elsewhere(q), SuccessIsPublished'
  PROVE  PublicationInv'
<1>1. \A q \in Publishers : \A i \in Tries \X Effects : Owns(q, i)' => Owns(q, i)
  BY PublicationAssumption DEF Owns
<1>2. OutcomeFits'
  BY DEF Elsewhere, PublicationInv, OutcomeFits
<1>3. OwnershipSound'
  <2>1. \A i \in Tries \X Effects : invocation'[i].owner # Nobody => invocation'[i].status = "PENDING"
    BY DEF PublicationInv, OwnershipSound
  <2>2. \A i \in Tries \X Effects : RunsAt(i[2])' = RunsAt(i[2])
    BY DEF RunsAt
  <2>3. ASSUME NEW q \in Publishers
        PROVE  \A i \in Tries \X Effects : Owns(q, i)' => i[1] = try'[q] /\ stage'[q] \in RunsAt(i[2])
    BY <1>1, <2>3 DEF Elsewhere, PublicationInv, OwnershipSound
  <2>4. \A q \in Publishers : \A i, j \in Tries \X Effects : Owns(q, i)' /\ Owns(q, j)' => i = j
    BY <1>1 DEF PublicationInv, OwnershipSound
  <2> QED
    BY <2>1, <2>2, <2>3, <2>4 DEF OwnershipSound
<1>4. RecordsTrue'
  <2>1. \A a \in Tries : \A e \in Effects : Done(a, e)' => Done(a, e)
    BY DEF Done
  <2> QED
    BY <2>1, EffectsAre DEF PublicationInv, RecordsTrue
<1>5. ASSUME NEW q \in Publishers
      PROVE  Came(q)'
  <2>1. CASE /\ stage'[q] = stage[q] /\ try'[q] = try[q] /\ outcome'[q] = outcome[q]
             /\ stage[q] = "post" /\ opened' > 0 => open'
    BY <1>1, <2>1, StayCame
  <2>2. CASE stage'[q] \in {"idle", "permit", "report"} /\ ReportTrue(q)'
    BY <2>2 DEF Came, GatesPassed, EffectsDone, ResultTrue, PastPermit, PastMayPush,
                PastMayCreate, PastPush, PastCommit
  <2> QED
    BY <2>1, <2>2 DEF Elsewhere
<1>6. OnePullRequest'
  BY DEF PublicationInv, OnePullRequest
<1>7. PublishedIsAuthorized'
  BY EffectsAre DEF PublicationInv, PublishedIsAuthorized, Grows
<1> QED
  BY <1>2, <1>3, <1>4, <1>5, <1>6, <1>7 DEF PublicationInv

LEMMA DescribeKeeps == ASSUME PublicationInv, NEW p \in Publishers, Describe(p) PROVE PublicationInv'
<1>1. /\ stage[p] = "describe" /\ try[p] \in Tries
      /\ UNCHANGED <<attempt, due, verdict, approval, invocation, evidence, world, try>>
      /\ described' \in {described, described \cup {try[p]}}
      /\ stage' = [stage EXCEPT ![p] = "report"]
  BY DEF Describe, Move, store, PublicationInv, PublicationTypeOK
<1>2. PICK o \in {"SUCCEEDED", "FAILED", "RECOVERABLE"} :
        /\ outcome' = [outcome EXCEPT ![p] = o]
        /\ o = "SUCCEEDED" => described' = described \cup {try[p]}
  BY DEF Describe
<1>3. /\ stage'[p] = "report" /\ outcome'[p] = o
      /\ \A q \in Publishers \ {p} : stage'[q] = stage[q] /\ outcome'[q] = outcome[q]
  BY <1>1, <1>2 DEF PublicationInv, PublicationTypeOK
<1>4. Grows
  BY <1>1 DEF Grows, PolicyAllows, Done, world
<1>5. PublicationTypeOK'
  BY <1>1, <1>2 DEF PublicationInv, PublicationTypeOK, Stages, world
<1>6. remote /\ opened > 0
  BY <1>1 DEF PublicationInv, Came, EffectsDone, RecordsTrue, PastPush, PastMayCreate
<1>7. ReportTrue(p)'
  BY <1>1, <1>2, <1>3, <1>6 DEF ReportTrue, world
<1>8. \A i \in Tries \X Effects : ~ Owns(p, i)'
  BY <1>1, NotWorking DEF Owns
<1>9. \A q \in Publishers : Elsewhere(q)
  BY <1>1, <1>3, <1>7, <1>8 DEF Elsewhere, PublicationInv, Came, EffectsDone, world
<1>10. SuccessIsPublished'
  BY <1>1, <1>4 DEF PublicationInv, SuccessIsPublished, Grows
<1> QED
  BY <1>1, <1>4, <1>5, <1>9, <1>10, AroundStep DEF world

LEMMA ReportKeeps == ASSUME PublicationInv, NEW p \in Publishers, Report(p) PROVE PublicationInv'
<1> DEFINE a == try[p]
           r == outcome[p]
<1>1. /\ stage[p] = "report" /\ a \in Tries
      /\ r \in Gates \cup {"RECOVERABLE", "SUCCEEDED", "FAILED"}
  BY DEF Report, PublicationInv, PublicationTypeOK, OutcomeFits
<1>2. /\ UNCHANGED <<verdict, invocation, evidence, described, world>>
      /\ stage' = [stage EXCEPT ![p] = "idle"]
      /\ outcome' = [outcome EXCEPT ![p] = "none"]
      /\ try' = [try EXCEPT ![p] = 1]
      /\ approval' = IF /\ attempt[a] = "RUNNING" /\ r \in Gates
                        /\ approval[a][r] = "none"
                       THEN [approval EXCEPT ![a][r] = "PENDING"] ELSE approval
  BY DEF Report, Move
<1>3. PICK retried \in BOOLEAN :
        /\ attempt' = [b \in Tries |->
                         IF b = a /\ attempt[a] = "RUNNING" THEN r
                         ELSE IF b = a + 1 /\ retried THEN "RUNNING" ELSE attempt[b]]
        /\ due' = IF retried THEN [due EXCEPT ![a + 1] = 1] ELSE due
  BY DEF Report
<1>4. approval' \in [Tries -> [Gates -> {"none", "PENDING", "APPROVED", "REJECTED"}]]
  BY <1>1, <1>2 DEF PublicationInv, PublicationTypeOK
<1>5. PublicationTypeOK'
  <2>1. attempt' \in [Tries -> Gates \cup {"absent", "RUNNING", "RECOVERABLE", "SUCCEEDED", "FAILED"}]
    BY <1>1, <1>3 DEF PublicationInv, PublicationTypeOK
  <2>2. due' \in [Tries -> Nat]
    BY <1>3 DEF PublicationInv, PublicationTypeOK
  <2>3. 1 \in Tries
    BY PublicationAssumption DEF Tries
  <2>4. /\ stage' \in [Publishers -> Stages] /\ try' \in [Publishers -> Tries]
        /\ outcome' \in [Publishers ->
             Failures \cup Gates \cup {"none", "SUCCEEDED", "RECOVERABLE", "FAILED"}]
    BY <1>2, <2>3 DEF PublicationInv, PublicationTypeOK, Stages
  <2> QED
    BY <1>2, <1>4, <2>1, <2>2, <2>4 DEF PublicationInv, PublicationTypeOK, world
<1>6. Grows
  <2>1. \A b \in Tries, g \in Gates : approval[b][g] = "APPROVED" => approval'[b][g] = "APPROVED"
    BY <1>1, <1>2 DEF PublicationInv, PublicationTypeOK
  <2> QED
    BY <1>2, <2>1 DEF Grows, PolicyAllows, Done, world
<1>7. \A i \in Tries \X Effects : ~ Owns(p, i)'
  BY <1>1, <1>2, NotWorking DEF Owns
<1>8. /\ stage'[p] = "idle"
      /\ \A q \in Publishers \ {p} : stage'[q] = stage[q] /\ try'[q] = try[q] /\ outcome'[q] = outcome[q]
  BY <1>2 DEF PublicationInv, PublicationTypeOK
<1>9. \A q \in Publishers : Elsewhere(q)
  BY <1>2, <1>7, <1>8 DEF Elsewhere, ReportTrue, PublicationInv, Came, EffectsDone, world
<1>10. SuccessIsPublished'
  <2> SUFFICES ASSUME NEW b \in Tries, attempt'[b] = "SUCCEEDED"
               PROVE  opened > 0 /\ remote /\ b \in described
    BY <1>2 DEF SuccessIsPublished, world
  <2>1. CASE attempt[b] = "SUCCEEDED"
    BY <2>1 DEF PublicationInv, SuccessIsPublished
  <2>2. CASE b = a /\ r = "SUCCEEDED"
    BY <1>1, <2>2 DEF PublicationInv, Came, ReportTrue
  <2> QED
    BY <1>3, <2>1, <2>2
<1> QED
  BY <1>2, <1>5, <1>6, <1>9, <1>10, AroundStep DEF world

\* Approvals and attempts change; calls, records and the world do not.
LEMMA PeopleKeep ==
  ASSUME PublicationInv, NEW a \in Tries, DoubleDispatch(a) \/ Review(a) \/ Wake(a)
  PROVE  PublicationInv'
<1>1. UNCHANGED <<verdict, invocation, evidence, described, world, caller>>
  BY DEF DoubleDispatch, Review, Wake
<1>2. /\ approval' \in [Tries -> [Gates -> {"none", "PENDING", "APPROVED", "REJECTED"}]]
      /\ \A b \in Tries, g \in Gates : approval[b][g] = "APPROVED" => approval'[b][g] = "APPROVED"
  <2>1. CASE Review(a)
    BY <2>1 DEF Review, PublicationInv, PublicationTypeOK
  <2>2. CASE approval' = approval
    BY <2>2 DEF PublicationInv, PublicationTypeOK
  <2> QED
    BY <2>1, <2>2 DEF DoubleDispatch, Wake
<1>3. /\ attempt' \in [Tries -> Gates \cup {"absent", "RUNNING", "RECOVERABLE", "SUCCEEDED", "FAILED"}]
      /\ due' \in [Tries -> Nat]
      /\ \A b \in Tries : attempt'[b] = "SUCCEEDED" => attempt[b] = "SUCCEEDED"
  <2>1. CASE DoubleDispatch(a)
    BY <2>1 DEF DoubleDispatch, PublicationInv, PublicationTypeOK
  <2>2. CASE Review(a)
    BY <2>2 DEF Review, PublicationInv, PublicationTypeOK
  <2>3. CASE Wake(a)
    <3>1. PICK v \in {"RUNNING", "FAILED"}, n \in {0, 1} :
            attempt' = [attempt EXCEPT ![a] = v] /\ due' = [due EXCEPT ![a] = n]
      BY <2>3 DEF Wake
    <3>2. /\ attempt \in [Tries -> Gates \cup {"absent", "RUNNING", "RECOVERABLE", "SUCCEEDED", "FAILED"}]
          /\ due \in [Tries -> Nat]
      BY DEF PublicationInv, PublicationTypeOK
    <3>3. due' \in [Tries -> Nat]
      BY <3>1, <3>2
    <3>4. /\ attempt' \in [Tries -> Gates \cup {"absent", "RUNNING", "RECOVERABLE", "SUCCEEDED", "FAILED"}]
          /\ \A b \in Tries : attempt'[b] = "SUCCEEDED" => attempt[b] = "SUCCEEDED"
      BY <3>1, <3>2
    <3> QED
      BY <3>3, <3>4
  <2> QED
    BY <2>1, <2>2, <2>3
<1>4. PublicationTypeOK'
  BY <1>1, <1>2, <1>3 DEF PublicationInv, PublicationTypeOK, world, caller
<1>5. Grows
  BY <1>1, <1>2 DEF Grows, PolicyAllows, Done, world
<1>6. \A q \in Publishers : Elsewhere(q)
  BY <1>1 DEF Elsewhere, PublicationInv, Came, EffectsDone, world, caller
<1>7. SuccessIsPublished'
  BY <1>1, <1>3 DEF PublicationInv, SuccessIsPublished, world
<1> QED
  BY <1>1, <1>4, <1>5, <1>6, <1>7, AroundStep DEF world

\* The marker, and the end of a pull request.
LEMMA WorldKeeps ==
  ASSUME PublicationInv, ToggleMarker \/ ClosePull \/ UNCHANGED publicationVars
  PROVE  PublicationInv'
<1>1. /\ UNCHANGED <<attempt, due, verdict, approval, invocation, evidence, described, tree, remote,
                     opened, stage, try, outcome>>
      /\ disabled' \in BOOLEAN /\ open' \in BOOLEAN
      /\ open' = open \/ \A p \in Publishers : stage[p] # "post"
  <2>1. CASE ToggleMarker
    BY <2>1 DEF ToggleMarker, store, caller, PublicationInv, PublicationTypeOK
  <2>2. CASE ClosePull
    BY <2>2 DEF ClosePull, store, caller, PublicationInv, PublicationTypeOK
  <2>3. CASE UNCHANGED publicationVars
    BY <2>3 DEF publicationVars, PublicationInv, PublicationTypeOK
  <2> QED
    BY <2>1, <2>2, <2>3
<1>2. PublicationTypeOK'
  BY <1>1 DEF PublicationInv, PublicationTypeOK
<1>3. Grows
  BY <1>1 DEF Grows, PolicyAllows, Done
<1>4. \A q \in Publishers : Elsewhere(q)
  BY <1>1 DEF Elsewhere, PublicationInv, Came, EffectsDone
<1>5. SuccessIsPublished'
  BY <1>1 DEF PublicationInv, SuccessIsPublished
<1> QED
  BY <1>1, <1>2, <1>3, <1>4, <1>5, AroundStep

LEMMA DispatchKeeps ==
  ASSUME PublicationInv, NEW p \in Publishers, NEW a \in Tries, Dispatch(p, a)
  PROVE  PublicationInv'
<1>1. /\ stage[p] = "idle" /\ due' = [due EXCEPT ![a] = @ - 1] /\ due[a] > 0
      /\ try' = [try EXCEPT ![p] = a] /\ stage' = [stage EXCEPT ![p] = "permit"]
      /\ UNCHANGED <<attempt, verdict, approval, invocation, evidence, described, world, outcome>>
  BY DEF Dispatch, Move
<1>2. PublicationTypeOK'
  BY <1>1 DEF PublicationInv, PublicationTypeOK, Stages, world
<1>3. Grows
  BY <1>1 DEF Grows, PolicyAllows, Done, world
<1>4. \A i \in Tries \X Effects : ~ Owns(p, i)'
  BY <1>1, NotWorking DEF Owns
<1>5. /\ stage'[p] = "permit"
      /\ \A q \in Publishers \ {p} : stage'[q] = stage[q] /\ try'[q] = try[q] /\ outcome'[q] = outcome[q]
  BY <1>1 DEF PublicationInv, PublicationTypeOK
<1>6. \A q \in Publishers : Elsewhere(q)
  BY <1>1, <1>4, <1>5 DEF Elsewhere, ReportTrue, PublicationInv, Came, EffectsDone, world
<1>7. SuccessIsPublished'
  BY <1>1 DEF PublicationInv, SuccessIsPublished, world
<1> QED
  BY <1>1, <1>2, <1>3, <1>6, <1>7, AroundStep DEF world

LEMMA DieKeeps == ASSUME PublicationInv, NEW p \in Publishers, Die(p) PROVE PublicationInv'
<1>1. /\ invocation' = [i \in DOMAIN invocation |->
                         IF invocation[i].owner = p
                           THEN [invocation[i] EXCEPT !.owner = Nobody] ELSE invocation[i]]
      /\ stage' = [stage EXCEPT ![p] = "idle"]
      /\ outcome' = [outcome EXCEPT ![p] = "none"]
      /\ try' = [try EXCEPT ![p] = 1]
      /\ UNCHANGED <<attempt, due, verdict, approval, evidence, described, world>>
  BY DEF Die
<1>2. invocation \in [Tries \X Effects -> InvocationRecords]
  BY DEF PublicationInv, PublicationTypeOK, InvocationRecords
<1>3. /\ invocation' \in [Tries \X Effects -> InvocationRecords]
      /\ \A i \in Tries \X Effects : /\ invocation'[i].status = invocation[i].status
                                     /\ invocation'[i].owner \in {invocation[i].owner, Nobody}
                                     /\ invocation'[i].owner # p
  <2> SUFFICES ASSUME NEW i \in Tries \X Effects
               PROVE  /\ invocation'[i] \in InvocationRecords
                      /\ invocation'[i].status = invocation[i].status
                      /\ invocation'[i].owner \in {invocation[i].owner, Nobody}
                      /\ invocation'[i].owner # p
    BY <1>1, <1>2
  <2>1. invocation[i] \in InvocationRecords /\ p # Nobody
    BY <1>2, PublicationAssumption
  <2> QED
    BY <1>1, <1>2, <2>1 DEF InvocationRecords
<1>4. 1 \in Tries
  BY PublicationAssumption DEF Tries
<1>5. PublicationTypeOK'
  BY <1>1, <1>3, <1>4 DEF PublicationInv, PublicationTypeOK, Stages, world, InvocationRecords
<1>6. Grows
  BY <1>1, <1>3 DEF Grows, PolicyAllows, Done, world
<1>7. \A i \in Tries \X Effects : ~ Owns(p, i)'
  BY <1>3 DEF Owns
<1>8. /\ stage'[p] = "idle"
      /\ \A q \in Publishers \ {p} : stage'[q] = stage[q] /\ try'[q] = try[q] /\ outcome'[q] = outcome[q]
  BY <1>1 DEF PublicationInv, PublicationTypeOK
<1>9. \A q \in Publishers : Elsewhere(q)
  BY <1>1, <1>7, <1>8 DEF Elsewhere, ReportTrue, PublicationInv, Came, EffectsDone, world
<1>10. SuccessIsPublished'
  BY <1>1 DEF PublicationInv, SuccessIsPublished, world
<1> QED
  BY <1>1, <1>3, <1>5, <1>6, <1>9, <1>10, AroundStep DEF world

-----------------------------------------------------------------------------
(* The invariant, and what it says of every execution.                     *)

LEMMA InitPublication == PublicationInit => PublicationInv
<1> SUFFICES ASSUME PublicationInit PROVE PublicationInv
  OBVIOUS
<1>1. 1 \in Tries
  BY PublicationAssumption DEF Tries
<1>2. PublicationTypeOK
  BY <1>1 DEF PublicationInit, PublicationTypeOK, NoInvocation, Stages
<1>3. \A i \in Tries \X Effects : invocation[i].status = "none" /\ invocation[i].owner = Nobody
  BY DEF PublicationInit, NoInvocation
<1>4. \A p \in Publishers : stage[p] = "idle"
  BY DEF PublicationInit
<1>5. OutcomeFits /\ \A p \in Publishers : Came(p)
  BY <1>4 DEF OutcomeFits, Came, GatesPassed, EffectsDone, ResultTrue, ReportTrue,
              PastPermit, PastMayPush, PastMayCreate, PastPush, PastCommit
<1>6. OwnershipSound
  BY <1>3, PublicationAssumption DEF OwnershipSound, Owns
<1>7. RecordsTrue
  BY <1>3, EffectsAre DEF RecordsTrue, Done
<1>8. OnePullRequest /\ SuccessIsPublished /\ PublishedIsAuthorized
  BY DEF PublicationInit, OnePullRequest, SuccessIsPublished, PublishedIsAuthorized
<1> QED
  BY <1>2, <1>5, <1>6, <1>7, <1>8 DEF PublicationInv

LEMMA PublisherKeeps == ASSUME PublicationInv, NEW p \in Publishers, Publisher(p) PROVE PublicationInv'
<1>1. CASE GatePublication(p) \/ GatePush(p) \/ GateCreate(p)
  BY <1>1, GatesKeep
<1>2. CASE OpenCommit(p) \/ OpenPush(p) \/ OpenCreate(p)
  BY <1>2, OpenersKeep
<1>3. CASE AfterCommit(p) \/ Pushed(p) \/ Created(p)
  BY <1>3, ContinueKeeps
<1>4. CASE StageChanges(p)
  BY <1>4, StageKeeps
<1>5. CASE CommitChanges(p)
  BY <1>5, CommitKeeps
<1>6. CASE Push(p)
  BY <1>6, PushKeeps
<1>7. CASE MatchCreation(p)
  BY <1>7, MatchKeeps
<1>8. CASE VerifyEvidence(p)
  BY <1>8, EvidenceKeeps
<1>9. CASE LookUp(p)
  BY <1>9, LookUpKeeps
<1>10. CASE PostPull(p)
  BY <1>10, PostKeeps
<1>11. CASE Describe(p)
  BY <1>11, DescribeKeeps
<1>12. CASE Report(p)
  BY <1>12, ReportKeeps
<1>13. CASE \/ Settle(p, "commit", "committed") \/ Settle(p, "push", "pushed")
            \/ Settle(p, "create", "created")
  BY <1>13, SettleKeeps, EffectsAre
<1> QED
  BY <1>1, <1>2, <1>3, <1>4, <1>5, <1>6, <1>7, <1>8, <1>9, <1>10, <1>11, <1>12, <1>13 DEF Publisher

LEMMA StepPublication == PublicationInv /\ [PublicationNext]_publicationVars => PublicationInv'
<1> SUFFICES ASSUME PublicationInv, [PublicationNext]_publicationVars PROVE PublicationInv'
  OBVIOUS
<1>1. CASE \E p \in Publishers : Publisher(p)
  BY <1>1, PublisherKeeps
<1>2. CASE \E p \in Publishers : Die(p)
  BY <1>2, DieKeeps
<1>3. CASE \E p \in Publishers : \E a \in Tries : Dispatch(p, a)
  BY <1>3, DispatchKeeps
<1>4. CASE \E a \in Tries : DoubleDispatch(a) \/ Review(a) \/ Wake(a)
  BY <1>4, PeopleKeep
<1>5. CASE ToggleMarker \/ ClosePull \/ UNCHANGED publicationVars
  BY <1>5, WorldKeeps
<1> QED
  BY <1>1, <1>2, <1>3, <1>4, <1>5 DEF PublicationNext

\* The invariant holds throughout: whatever calls of the handler of
\* create_pull_request.py die, overlap or are repeated, what each has come past
\* remains true, and a record in flight has one owner.
THEOREM PublicationInvariant == PublicationSpec => []PublicationInv
<1> QED
  BY InitPublication, StepPublication, PTL DEF PublicationSpec

\* Records, attempts, approvals and the places of the calls keep their types.
THEOREM PublicationTypes == PublicationSpec => []PublicationTypeOK
<1>1. PublicationInv => PublicationTypeOK
  BY DEF PublicationInv
<1> QED
  BY <1>1, PublicationInvariant, PTL

\* "The provider operation will not be repeated": through retries, deaths, double
\* dispatches, ambiguous answers and a merge before the retry, one workflow opens
\* at most one pull request (_create_or_reconcile in github_app_provider.py).
THEOREM PublicationOnce == PublicationSpec => []OnePullRequest
<1>1. PublicationInv => OnePullRequest
  BY DEF PublicationInv
<1> QED
  BY <1>1, PublicationInvariant, PTL

\* A Task that succeeded has a pull request, on a branch that carries the accepted
\* commit, and a published description; an earlier publication whose end is
\* unknown is never taken for one (_matching_github_invocation, _invoke_github_persisted).
THEOREM SuccessPublished == PublicationSpec => []SuccessIsPublished
<1>1. PublicationInv => SuccessIsPublished
  BY DEF PublicationInv
<1> QED
  BY <1>1, PublicationInvariant, PTL

\* What is public was accepted, and some attempt had each of its gates allowed or
\* approved: the marker, a rejected approval or a refused acceptance stop every
\* call before its effect, even one that resumes another's work.
THEOREM PublicationAuthorized == PublicationSpec => []PublishedIsAuthorized
<1>1. PublicationInv => PublishedIsAuthorized
  BY DEF PublicationInv
<1> QED
  BY <1>1, PublicationInvariant, PTL

-----------------------------------------------------------------------------
(* What all of it amounts to: the steps that GatedRelease sees.            *)

Allowed(a) == {g \in Gates : PolicyAllows(a, g)}

\* What the abstract specification is about stays as it is.
LEMMA NotSeen ==
  ASSUME UNCHANGED <<attempt, verdict, approval, evidence, described, remote, opened>>,
         tree' = tree \/ (tree = "dirty" /\ tree' = "staged")
  PROVE  UNCHANGED Release!rvars
<1>1. Published' = Published
  BY DEF Published
<1>2. Accepted' = Accepted
  BY DEF Accepted
<1>3. [a \in Tries |-> {g \in Gates : PolicyAllows(a, g)}]'
        = [a \in Tries |-> {g \in Gates : PolicyAllows(a, g)}]
  BY DEF PolicyAllows
<1>4. [a \in Tries |-> Standing(a)]' = [a \in Tries |-> Standing(a)]
  BY DEF Standing
<1> QED
  BY <1>1, <1>2, <1>3, <1>4 DEF Release!rvars

\* What a call does between its effects.
LEMMA BetweenUnseen ==
  ASSUME NEW p \in Publishers,
         \/ GatePublication(p) \/ GatePush(p) \/ GateCreate(p)
         \/ OpenCommit(p) \/ OpenPush(p) \/ OpenCreate(p)
         \/ AfterCommit(p) \/ Pushed(p) \/ Created(p)
         \/ MatchCreation(p) \/ VerifyEvidence(p) \/ LookUp(p) \/ StageChanges(p)
         \/ Settle(p, "commit", "committed") \/ Settle(p, "push", "pushed")
         \/ Settle(p, "create", "created")
  PROVE  UNCHANGED Release!rvars
<1> DEFINE Same == UNCHANGED <<attempt, verdict, approval, evidence, described, remote, opened, tree>>
<1>1. CASE GatePublication(p) \/ GatePush(p) \/ GateCreate(p)
  <2>1. Same
    BY <1>1 DEF GatePublication, GatePush, GateCreate, Decide, Return, store, world
  <2> QED
    BY <2>1, NotSeen
<1>2. CASE OpenCommit(p) \/ OpenPush(p) \/ OpenCreate(p)
  <2>1. Same
    BY <1>2 DEF OpenCommit, OpenPush, OpenCreate, Open, Return, store, world
  <2> QED
    BY <2>1, NotSeen
<1>3. CASE AfterCommit(p) \/ Pushed(p) \/ Created(p)
  <2>1. Same
    BY <1>3 DEF AfterCommit, Pushed, Created, Continue, Return, store, world
  <2> QED
    BY <2>1, NotSeen
<1>4. CASE MatchCreation(p)
  <2>1. Same
    BY <1>4 DEF MatchCreation, Return, store, world
  <2> QED
    BY <2>1, NotSeen
<1>5. CASE VerifyEvidence(p) \/ LookUp(p)
  <2>1. Same
    BY <1>5 DEF VerifyEvidence, LookUp, Result, store, world
  <2> QED
    BY <2>1, NotSeen
<1>6. CASE StageChanges(p)
  <2>1. /\ UNCHANGED <<attempt, verdict, approval, evidence, described, remote, opened>>
        /\ tree' = tree \/ (tree = "dirty" /\ tree' = "staged")
    BY <1>6 DEF StageChanges, Result, store, world
  <2> QED
    BY <2>1, NotSeen
<1>7. CASE \/ Settle(p, "commit", "committed") \/ Settle(p, "push", "pushed")
           \/ Settle(p, "create", "created")
  <2>1. Same
    BY <1>7 DEF Settle, world
  <2> QED
    BY <2>1, NotSeen
<1> QED
  BY <1>1, <1>2, <1>3, <1>4, <1>5, <1>6, <1>7

\* What the scheduler, the operator and other people do without an effect.
LEMMA AroundUnseen ==
  ASSUME \/ \E p \in Publishers : Die(p) \/ \E a \in Tries : Dispatch(p, a)
         \/ \E a \in Tries : DoubleDispatch(a)
         \/ ToggleMarker \/ ClosePull
  PROVE  UNCHANGED Release!rvars
<1>1. UNCHANGED <<attempt, verdict, approval, evidence, described, remote, opened, tree>>
  BY DEF Die, Dispatch, DoubleDispatch, ToggleMarker, ClosePull, store, world
<1> QED
  BY <1>1, NotSeen

\* An attempt that was let through, seen from above.
LEMMA LetThrough ==
  ASSUME NEW a \in Tries, evidence = "accepted", NEW G \in SUBSET Gates,
         \A g \in G : PolicyAllows(a, g)
  PROVE  Release!Authorized(G)
BY DEF Release!Authorized, Accepted

\* Steps that leave the store, and with it attempts and gates, alone.
LEMMA StoreUnseen ==
  ASSUME UNCHANGED store
  PROVE  /\ Accepted' = Accepted /\ described' = described
         /\ [a \in Tries |-> {g \in Gates : PolicyAllows(a, g)}]'
              = [a \in Tries |-> {g \in Gates : PolicyAllows(a, g)}]
         /\ [a \in Tries |-> Standing(a)]' = [a \in Tries |-> Standing(a)]
BY DEF store, Accepted, PolicyAllows, Standing

\* commit_changes: the commit is made once, or was made.
LEMMA CommitRelease ==
  ASSUME PublicationInv, NEW p \in Publishers, CommitChanges(p)
  PROVE  [Release!Commit]_Release!rvars
<1>1. /\ stage[p] = "staged" /\ UNCHANGED <<remote, opened, store>>
      /\ tree' \in {tree, "committed"}
  BY DEF CommitChanges, Result
<1>2. UNCHANGED <<attempt, verdict, approval, evidence, described>>
  BY <1>1 DEF store
<1>3. CASE tree' = tree
  BY <1>1, <1>2, <1>3, NotSeen
<1>4. CASE tree' = "committed" /\ tree # "committed"
  <2>1. /\ try[p] \in Tries /\ evidence = "accepted"
        /\ PolicyAllows(try[p], "publication") /\ PolicyAllows(try[p], "git.push")
    BY <1>1 DEF PublicationInv, PublicationTypeOK, Came, GatesPassed, PastPermit, PastMayPush, Stages
  <2>2. Release!Authorized({"publication", "git.push"})
    BY <2>1, LetThrough, EffectsAre
  <2>3. ~ remote
    BY <1>4 DEF PublicationInv, PublishedIsAuthorized
  <2>4. Published = "nothing" /\ Published' = "committed"
    BY <1>1, <1>4, <2>3 DEF Published
  <2>5. Release!Commit
    BY <1>1, <2>2, <2>4, StoreUnseen DEF Release!Commit
  <2> QED
    BY <2>5
<1> QED
  BY <1>1, <1>3, <1>4

\* git push: it finds the accepted commit in the tree.
LEMMA PushRelease ==
  ASSUME PublicationInv, NEW p \in Publishers, Push(p)
  PROVE  [Release!Push]_Release!rvars
<1>1. /\ stage[p] = "pushing" /\ UNCHANGED <<tree, opened, store>>
      /\ remote' = remote \/ remote' = TRUE
  BY DEF Push, Result
<1>2. UNCHANGED <<attempt, verdict, approval, evidence, described>>
  BY <1>1 DEF store
<1>3. CASE remote' = remote
  BY <1>1, <1>2, <1>3, NotSeen
<1>4. CASE remote' = TRUE /\ ~ remote
  <2>1. /\ try[p] \in Tries /\ evidence = "accepted" /\ tree = "committed"
        /\ PolicyAllows(try[p], "publication") /\ PolicyAllows(try[p], "git.push")
    BY <1>1 DEF PublicationInv, PublicationTypeOK, Came, GatesPassed, EffectsDone, RecordsTrue,
                PastPermit, PastMayPush, PastCommit, Stages
  <2>2. Release!Authorized({"publication", "git.push"})
    BY <2>1, LetThrough, EffectsAre
  <2>3. Published = "committed" /\ Published' = "pushed"
    BY <1>4, <2>1 DEF Published
  <2>4. Release!Push
    BY <1>1, <2>2, <2>3, StoreUnseen DEF Release!Push
  <2> QED
    BY <2>4
<1>5. remote = TRUE => remote' = remote
  BY <1>1
<1>6. remote \in BOOLEAN
  BY DEF PublicationInv, PublicationTypeOK
<1> QED
  BY <1>1, <1>3, <1>4, <1>5, <1>6

\* The POST: GitHub opens the one pull request, or refuses.
LEMMA PostRelease ==
  ASSUME PublicationInv, NEW p \in Publishers, PostPull(p)
  PROVE  [Release!OpenPull]_Release!rvars
<1>1. /\ stage[p] = "post" /\ UNCHANGED <<tree, remote, store>>
      /\ opened' = opened \/ (~ open /\ opened' = opened + 1)
  BY DEF PostPull, Result
<1>2. UNCHANGED <<attempt, verdict, approval, evidence, described>>
  BY <1>1 DEF store
<1>3. CASE opened' = opened
  BY <1>1, <1>2, <1>3, NotSeen
<1>4. CASE ~ open /\ opened' = opened + 1
  <2>1. /\ try[p] \in Tries /\ evidence = "accepted" /\ remote
        /\ \A g \in Gates : PolicyAllows(try[p], g)
    BY <1>1, EffectsAre
       DEF PublicationInv, PublicationTypeOK, Came, GatesPassed, EffectsDone, RecordsTrue,
           PastPermit, PastMayPush, PastMayCreate, PastPush, PastCommit, Stages
  <2>2. opened = 0
    BY <1>1, <1>4 DEF PublicationInv, PublicationTypeOK, Came, EffectsDone
  <2>3. Release!Authorized(Gates)
    BY <2>1, LetThrough
  <2>4. Published = "pushed" /\ Published' = Published
    BY <1>1, <2>1 DEF Published
  <2>5. Release!OpenPull
    BY <1>1, <1>4, <2>2, <2>3, <2>4, StoreUnseen DEF Release!OpenPull
  <2> QED
    BY <2>5
<1> QED
  BY <1>1, <1>3, <1>4

\* The description artifact, of a pull request that exists.
LEMMA DescribeRelease ==
  ASSUME PublicationInv, NEW p \in Publishers, Describe(p)
  PROVE  [\E a \in Tries : Release!Describe(a)]_Release!rvars
<1> DEFINE a == try[p]
<1>1. /\ stage[p] = "describe" /\ a \in Tries
      /\ UNCHANGED <<attempt, verdict, approval, evidence, remote, opened, tree>>
      /\ described' = described \/ described' = described \cup {a}
  BY DEF Describe, store, world, PublicationInv, PublicationTypeOK
<1>2. CASE described' = described
  BY <1>1, <1>2, NotSeen
<1>3. CASE described' = described \cup {a}
  <2>1. evidence = "accepted" /\ \A g \in Gates : PolicyAllows(a, g)
    BY <1>1, EffectsAre
       DEF PublicationInv, Came, GatesPassed, PastPermit, PastMayPush, PastMayCreate, Stages
  <2>2. opened = 1
    BY <1>1, EffectsAre
       DEF PublicationInv, PublicationTypeOK, Came, EffectsDone, RecordsTrue, OnePullRequest
  <2>3. /\ Published' = Published /\ Accepted' = Accepted
        /\ [b \in Tries |-> {g \in Gates : PolicyAllows(b, g)}]'
             = [b \in Tries |-> {g \in Gates : PolicyAllows(b, g)}]
        /\ [b \in Tries |-> Standing(b)]' = [b \in Tries |-> Standing(b)]
    BY <1>1 DEF Published, Accepted, PolicyAllows, Standing
  <2>4. [b \in Tries |-> {g \in Gates : PolicyAllows(b, g)}][a] = Gates
    BY <1>1, <2>1
  <2>5. Accepted
    BY <2>1 DEF Accepted
  <2>6. Release!Describe(a)
    BY <1>1, <1>3, <2>2, <2>3, <2>4, <2>5 DEF Release!Describe
  <2> QED
    BY <1>1, <2>6
<1> QED
  BY <1>1, <1>2, <1>3

\* A report that counts ends its attempt, and may begin the next one; the gate
\* that awaits a reviewer leaves it open.
LEMMA ReportRelease ==
  ASSUME PublicationInv, NEW p \in Publishers, Report(p)
  PROVE  [\E a \in Tries, r \in Release!Final : Release!End(a, r)]_Release!rvars
<1> DEFINE a == try[p]
           r == outcome[p]
           passedNow == [b \in Tries |-> {g \in Gates : PolicyAllows(b, g)}]
<1>1. /\ stage[p] = "report" /\ a \in Tries
      /\ r \in Gates \cup {"RECOVERABLE", "SUCCEEDED", "FAILED"}
  BY DEF Report, PublicationInv, PublicationTypeOK, OutcomeFits
<1>2. UNCHANGED <<verdict, evidence, described, remote, opened, tree>>
  BY DEF Report, world
<1>3. \A b \in Tries, g \in Gates : PolicyAllows(b, g)' <=> PolicyAllows(b, g)
  <2>1. \A b \in Tries, g \in Gates : approval[b][g] = "APPROVED" <=> approval'[b][g] = "APPROVED"
    BY <1>1 DEF Report, PublicationInv, PublicationTypeOK
  <2> QED
    BY <1>2, <2>1 DEF PolicyAllows
<1>4. passedNow' = passedNow
  BY <1>3
<1>5. Published' = Published /\ Accepted' = Accepted
  BY <1>2 DEF Published, Accepted
<1>6. CASE attempt[a] # "RUNNING" \/ r \in Gates
  <2>1. \A b \in Tries : attempt'[b] = attempt[b] \/ (b = a /\ attempt[b] = "RUNNING" /\ attempt'[b] \in Gates)
    BY <1>1, <1>6, EffectsAre DEF Report
  <2>2. \A b \in Tries : Standing(b)' = Standing(b)
    BY <2>1 DEF Standing
  <2>3. UNCHANGED Release!rvars
    BY <1>2, <1>4, <1>5, <2>2 DEF Release!rvars
  <2> QED
    BY <2>3
<1>7. CASE attempt[a] = "RUNNING" /\ r \notin Gates
  <2>1. r \in Release!Final
    BY <1>1, <1>7 DEF Release!Final
  <2>2. [b \in Tries |-> Standing(b)][a] = "open"
    BY <1>1, <1>7 DEF Standing
  <2>3. r = "SUCCEEDED" => a \in described
    BY <1>1 DEF PublicationInv, Came, ReportTrue
  <2>4. ASSUME NEW b \in Tries
        PROVE  Standing(b)' = IF b = a THEN r
                              ELSE IF b = a + 1 /\ r = "RECOVERABLE" THEN "open"
                              ELSE Standing(b)
    <3>1. attempt'[b] = IF b = a THEN r
                        ELSE IF b = a + 1 /\ r = "RECOVERABLE" THEN "RUNNING" ELSE attempt[b]
      <4>1. attempt' = [c \in Tries |->
                          IF c = a /\ attempt[a] = "RUNNING" THEN r
                          ELSE IF c = a + 1 /\ attempt[a] = "RUNNING" /\ r = "RECOVERABLE"
                                  /\ a < MaxTries
                            THEN "RUNNING" ELSE attempt[c]]
        BY DEF Report
      <4>2. b = a + 1 => a < MaxTries
        BY <1>1, PublicationAssumption DEF Tries
      <4> QED
        BY <1>7, <4>1, <4>2
    <3>2. r \notin Gates \cup {"RUNNING"}
      BY <1>1, <1>7
    <3> QED
      BY <3>1, <3>2 DEF Standing
  <2>5. [b \in Tries |-> Standing(b)]'
          = [b \in Tries |-> IF b = a THEN r
                              ELSE IF b = a + 1 /\ r = "RECOVERABLE" THEN "open"
                              ELSE [c \in Tries |-> Standing(c)][b]]
    BY <2>4
  <2>6. Release!End(a, r)
    BY <1>2, <1>4, <1>5, <2>2, <2>3, <2>5 DEF Release!End
  <2> QED
    BY <1>1, <2>1, <2>6
<1> QED
  BY <1>6, <1>7

\* A reviewer lets an attempt pass one gate, or ends it there.
LEMMA ReviewRelease ==
  ASSUME PublicationInv, NEW a \in Tries, Review(a)
  PROVE  [\E g \in Gates : Release!Pass(a, g)]_Release!rvars
<1> DEFINE h == attempt[a]
<1>1. /\ h \in Gates /\ approval[a][h] = "PENDING"
      /\ UNCHANGED <<attempt, verdict, evidence, described, remote, opened, tree>>
  BY DEF Review, world
<1>2. PICK d \in {"APPROVED", "REJECTED"} : approval' = [approval EXCEPT ![a][h] = d]
  BY DEF Review
<1>3. /\ Published' = Published /\ Accepted' = Accepted
      /\ [b \in Tries |-> Standing(b)]' = [b \in Tries |-> Standing(b)]
  BY <1>1 DEF Published, Accepted, Standing
<1>4. \A b \in Tries, g \in Gates :
        PolicyAllows(b, g)' <=>
          \/ PolicyAllows(b, g)
          \/ b = a /\ g = h /\ d = "APPROVED" /\ verdict[h] = "REQUIRE_APPROVAL"
  <2>1. \A b \in Tries, g \in Gates :
          approval'[b][g] = IF b = a /\ g = h THEN d ELSE approval[b][g]
    BY <1>1, <1>2 DEF PublicationInv, PublicationTypeOK
  <2> QED
    BY <1>1, <2>1 DEF PolicyAllows
<1>5. CASE d = "APPROVED" /\ verdict[h] = "REQUIRE_APPROVAL"
  <2>1. \A b \in Tries : Allowed(b)' = IF b = a THEN Allowed(b) \cup {h} ELSE Allowed(b)
    BY <1>1, <1>4, <1>5 DEF Allowed
  <2>2. [b \in Tries |-> {g \in Gates : PolicyAllows(b, g)}]'
          = [[b \in Tries |-> {g \in Gates : PolicyAllows(b, g)}] EXCEPT ![a] = @ \cup {h}]
    BY <2>1 DEF Allowed
  <2>3. Release!Pass(a, h)
    BY <1>1, <1>3, <2>2 DEF Release!Pass
  <2> QED
    BY <1>1, <2>3
<1>6. CASE ~ (d = "APPROVED" /\ verdict[h] = "REQUIRE_APPROVAL")
  <2>1. [b \in Tries |-> {g \in Gates : PolicyAllows(b, g)}]'
          = [b \in Tries |-> {g \in Gates : PolicyAllows(b, g)}]
    BY <1>4, <1>6
  <2>2. UNCHANGED Release!rvars
    BY <1>1, <1>3, <2>1 DEF Release!rvars
  <2> QED
    BY <2>2
<1> QED
  BY <1>5, <1>6

\* A wake-up ends the attempt that was rejected, and the rest stay open.
LEMMA WakeRelease ==
  ASSUME PublicationInv, NEW a \in Tries, Wake(a)
  PROVE  [\E r \in Release!Final : Release!End(a, r)]_Release!rvars
<1>1. /\ attempt[a] \in Gates
      /\ UNCHANGED <<verdict, approval, evidence, described, remote, opened, tree>>
      /\ attempt' \in {[attempt EXCEPT ![a] = "RUNNING"], [attempt EXCEPT ![a] = "FAILED"]}
  BY DEF Wake, world
<1>2. /\ Published' = Published /\ Accepted' = Accepted
      /\ [b \in Tries |-> {g \in Gates : PolicyAllows(b, g)}]'
           = [b \in Tries |-> {g \in Gates : PolicyAllows(b, g)}]
  BY <1>1 DEF Published, Accepted, PolicyAllows
<1>3. CASE attempt' = [attempt EXCEPT ![a] = "RUNNING"]
  <2>1. \A b \in Tries : Standing(b)' = Standing(b)
    BY <1>1, <1>3 DEF Standing, PublicationInv, PublicationTypeOK
  <2>2. UNCHANGED Release!rvars
    BY <1>1, <1>2, <2>1 DEF Release!rvars
  <2> QED
    BY <2>2
<1>4. CASE attempt' = [attempt EXCEPT ![a] = "FAILED"]
  <2>1. Standing(a) = "open"
    BY <1>1 DEF Standing
  <2>2. \A b \in Tries : Standing(b)' = IF b = a THEN "FAILED" ELSE Standing(b)
    BY <1>4, EffectsAre DEF Standing, PublicationInv, PublicationTypeOK
  <2>3. [b \in Tries |-> Standing(b)]'
          = [b \in Tries |-> IF b = a THEN "FAILED"
                              ELSE IF b = a + 1 /\ "FAILED" = "RECOVERABLE" THEN "open"
                              ELSE [c \in Tries |-> Standing(c)][b]]
    BY <2>2
  <2>4. Release!End(a, "FAILED")
    BY <1>1, <1>2, <2>1, <2>3 DEF Release!End
  <2> QED
    BY <2>4 DEF Release!Final
<1> QED
  BY <1>1, <1>3, <1>4

LEMMA StepRelease ==
  PublicationInv /\ [PublicationNext]_publicationVars => [Release!Next]_Release!rvars
<1> SUFFICES ASSUME PublicationInv, [PublicationNext]_publicationVars
             PROVE  [Release!Next]_Release!rvars
  OBVIOUS
<1>1. CASE \E p \in Publishers : CommitChanges(p) \/ Push(p) \/ PostPull(p)
  BY <1>1, CommitRelease, PushRelease, PostRelease DEF Release!Next
<1>2. CASE \E p \in Publishers : Describe(p) \/ Report(p)
  BY <1>2, DescribeRelease, ReportRelease DEF Release!Next
<1>3. CASE \E a \in Tries : Review(a) \/ Wake(a)
  BY <1>3, ReviewRelease, WakeRelease DEF Release!Next
<1>4. CASE \/ \E p \in Publishers : Die(p) \/ \E a \in Tries : Dispatch(p, a)
           \/ \E a \in Tries : DoubleDispatch(a)
           \/ ToggleMarker \/ ClosePull
  BY <1>4, AroundUnseen
<1>5. CASE \E p \in Publishers :
              Publisher(p) /\ ~ (CommitChanges(p) \/ Push(p) \/ PostPull(p) \/ Describe(p) \/ Report(p))
  BY <1>5, BetweenUnseen DEF Publisher
<1>6. CASE UNCHANGED publicationVars
  BY <1>6, NotSeen DEF publicationVars
<1> QED
  BY <1>1, <1>2, <1>3, <1>4, <1>5, <1>6 DEF PublicationNext

LEMMA InitRelease == PublicationInit => Release!Init
<1> SUFFICES ASSUME PublicationInit PROVE Release!Init
  OBVIOUS
<1>1. Accepted \in BOOLEAN
  BY DEF Accepted
<1>2. [a \in Tries |-> {g \in Gates : PolicyAllows(a, g)}] \in [Tries -> SUBSET Gates]
  OBVIOUS
<1>3. Published = "nothing" /\ opened = 0 /\ described = {}
  BY DEF PublicationInit, Published
<1>4. \A a \in Tries : Standing(a) = IF a = 1 THEN "open" ELSE "absent"
  BY EffectsAre DEF PublicationInit, Standing
<1> QED
  BY <1>1, <1>2, <1>3, <1>4 DEF Release!Init

\* Whatever calls of execute() in create_pull_request.py overlap, die or are
\* repeated, what becomes public is what GatedRelease says: the accepted change, in
\* three steps that are authorized, taken in order and never taken back.
THEOREM PublicationImplements == PublicationSpec => ImplementsGatedRelease
<1> QED
  BY InitRelease, StepRelease, PublicationInvariant, PTL
     DEF PublicationSpec, Release!Spec, ImplementsGatedRelease

-----------------------------------------------------------------------------
(* One attempt at a time, from the steps of GatedRelease alone.            *)

\* An attempt exists because every one before it failed recoverably.
InOrder ==
  \A a, b \in Tries : a < b /\ Standing(b) # "absent" => Standing(a) = "RECOVERABLE"

LEMMA StepInOrder ==
  ASSUME InOrder, [Release!Next]_Release!rvars
  PROVE  InOrder'
<1> DEFINE S == [a \in Tries |-> Standing(a)]
<1>1. CASE UNCHANGED S
  <2>1. \A a \in Tries : S'[a] = S[a]
    BY <1>1
  <2>2. \A a \in Tries : Standing(a)' = Standing(a)
    BY <2>1
  <2> QED
    BY <2>2 DEF InOrder
<1>2. CASE \E a \in Tries, r \in Release!Final : Release!End(a, r)
  <2>1. PICK a \in Tries, r \in Release!Final : Release!End(a, r)
    BY <1>2
  <2>2. /\ S[a] = "open"
        /\ S' = [b \in Tries |-> IF b = a THEN r
                                  ELSE IF b = a + 1 /\ r = "RECOVERABLE" THEN "open"
                                  ELSE S[b]]
    BY <2>1 DEF Release!End
  <2>3. /\ Standing(a) = "open"
        /\ \A b \in Tries : Standing(b)' = IF b = a THEN r
                                            ELSE IF b = a + 1 /\ r = "RECOVERABLE" THEN "open"
                                            ELSE Standing(b)
    <3>1. \A b \in Tries : S'[b] = Standing(b)' /\ S[b] = Standing(b)
      OBVIOUS
    <3> QED
      BY <2>2, <3>1
  <2>4. \A b \in Tries : b > a => Standing(b) = "absent"
    BY <2>3 DEF InOrder, Tries
  <2>5. \A b \in Tries : b < a => Standing(b) = "RECOVERABLE"
    BY <2>3 DEF InOrder, Tries
  <2> SUFFICES ASSUME NEW b \in Tries, NEW c \in Tries, b < c, Standing(c)' # "absent"
               PROVE  Standing(b)' = "RECOVERABLE"
    BY DEF InOrder
  <2>6. c <= a \/ (c = a + 1 /\ r = "RECOVERABLE")
    BY <2>3, <2>4 DEF Tries
  <2> QED
    BY <2>3, <2>5, <2>6 DEF Tries
<1>3. CASE Release!Next /\ ~ \E a \in Tries, r \in Release!Final : Release!End(a, r)
  <2>1. UNCHANGED S
    BY <1>3 DEF Release!Next, Release!Pass, Release!Commit, Release!Push, Release!OpenPull,
                Release!Describe
  <2> QED
    BY <1>1, <2>1
<1> QED
  BY <1>1, <1>2, <1>3 DEF Release!rvars

\* Attempts of the Task follow each other: however often a wake-up is carried out
\* and whatever calls overlap, one attempt is open at a time, and one at most ends
\* in success, after recoverable failures only.
THEOREM OneAttemptAtATime == PublicationSpec => []InOrder
<1>1. PublicationInit => InOrder
  <2> SUFFICES ASSUME PublicationInit PROVE InOrder
    OBVIOUS
  <2>1. \A a \in Tries : Standing(a) = IF a = 1 THEN "open" ELSE "absent"
    BY EffectsAre DEF PublicationInit, Standing
  <2> QED
    BY <2>1 DEF InOrder, Tries
<1>2. InOrder /\ [Release!Next]_Release!rvars => InOrder'
  BY StepInOrder
<1> QED
  BY <1>1, <1>2, StepRelease, PublicationInvariant, PTL DEF PublicationSpec
=============================================================================
