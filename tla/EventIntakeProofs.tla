-------------------------- MODULE EventIntakeProofs --------------------------
(***************************************************************************)
(* Theorems about the intake of Events, for any Events, consumers,         *)
(* operators, deployments, movements of the branch and failures; then the  *)
(* intake beside the scheduler, as MCDeliveries puts them together.        *)
(***************************************************************************)
EXTENDS MCDeliveries, WorkflowSchedulerProofs, FiniteSetTheorems, TLAPS

Places == {"idle", "next", "revision", "provision", "begin", "announce", "repair", "clone",
           "switch", "schedule", "check", "complete", "refuse", "raise", "done", "dead"}

Executions == [status : {"absent", "PENDING", "RUNNING"} \cup Over,
               revision : Nat, audit : SUBSET ({"created", "started", "ended"} \X Nat)]

\* The shape of the state, which is less than a type: the work of a worker that
\* never had any is arbitrary.
Shape ==
  /\ requests \in [Events -> {"none", "PENDING", "COMPLETED"}] /\ refused \subseteq Events
  /\ execution \in [Works -> Executions] /\ bound \in [Works -> Nat]
  /\ tip \in Nat \ {0} /\ deployed \in Versions
  /\ loaded \in [Pollers -> Versions] /\ rows \in [Pollers -> SUBSET Events]
  /\ revision \in [Runners -> Nat]
  /\ phase \in [Runners -> Places] /\ DOMAIN work = Runners

\* A consumer works on an execution of a version, a replay on its own.
OwnWork ==
  /\ \A c \in Pollers : phase[c] \notin {"idle", "next", "done"} => work[c] \in Events \X Versions
  /\ \A o \in Operators : phase[o] \notin {"idle", "done", "dead"} => work[o] \in Events \X {o}

\* A consumer completes a row only after it has found its execution over.
CompletesEnded == \A c \in Pollers : phase[c] = "complete" => Terminated(work[c])

\* There is no revision 0; it stands for none.
Dated ==
  /\ \A x \in Works : execution[x].status # "absent" => execution[x].revision # 0
  /\ \A w \in Runners : phase[w] \in {"provision", "begin"} => revision[w] # 0

\* Between provisioning and the creation of the execution, and for a replay
\* from its creation on, the revision in hand is the one that counts.
InHandIsBound ==
  /\ \A w \in Runners : phase[w] = "begin" => bound[work[w]] = revision[w]
  /\ \A o \in Operators : phase[o] \notin {"idle", "done", "dead"} =>
       execution[work[o]].status # "absent"
  /\ \A o \in Operators : phase[o] \in {"provision", "begin"} =>
       execution[work[o]].revision = revision[o]

Inv == /\ Shape /\ OwnWork /\ CompletesEnded /\ Dated /\ InHandIsBound
       /\ RetiredIsSettled /\ PinnedRevision

LEMMA VersionsAreWorks ==
  /\ Events \X Versions \subseteq Works
  /\ \A o \in Operators : Events \X {o} \subseteq Works
BY DEF Works

LEMMA WorkersApart == \A o \in Operators : o \notin Pollers /\ o \notin Versions
BY IntakeAssumption

LEMMA FirstVersion == 1 \in Versions
BY IntakeAssumption DEF Versions

LEMMA IntakeInitInv == IntakeInit => Inv
<1> SUFFICES ASSUME IntakeInit PROVE Inv
  OBVIOUS
<1>1. Shape
  <2>1. Unborn \in Executions
    BY DEF Unborn, Executions, Over
  <2>2. DOMAIN work = Runners
    BY DEF IntakeInit
  <2>3. phase \in [Runners -> Places]
    BY DEF IntakeInit, Places
  <2>4. execution \in [Works -> Executions]
    BY <2>1 DEF IntakeInit
  <2>5. loaded \in [Pollers -> Versions] /\ deployed \in Versions
    BY FirstVersion DEF IntakeInit
  <2>6. /\ requests \in [Events -> {"none", "PENDING", "COMPLETED"}] /\ refused \subseteq Events
        /\ bound \in [Works -> Nat] /\ tip \in Nat \ {0}
        /\ rows \in [Pollers -> SUBSET Events] /\ revision \in [Runners -> Nat]
    BY DEF IntakeInit
  <2> QED BY <2>2, <2>3, <2>4, <2>5, <2>6 DEF Shape
<1>2. \A w \in Runners : phase[w] \in {"idle", "done"}
  BY DEF IntakeInit
<1>3. \A x \in Works : execution[x].status = "absent"
  BY DEF IntakeInit, Unborn
<1>4. OwnWork /\ CompletesEnded /\ Dated /\ InHandIsBound
  BY <1>2, <1>3 DEF OwnWork, CompletesEnded, Dated, InHandIsBound, Runners
<1>5. RetiredIsSettled /\ PinnedRevision
  BY <1>3 DEF RetiredIsSettled, PinnedRevision, IntakeInit
<1> QED BY <1>1, <1>4, <1>5 DEF Inv

-----------------------------------------------------------------------------
(* Steps that change no execution, row or binding.                         *)

\* Where only the phase of a worker changes, and not to one that claims
\* something.
LEMMA Aside ==
  ASSUME Inv, NEW w \in Runners, NEW p \in Places, Proceed(w, p),
         UNCHANGED <<requests, refused, execution, bound, work, revision>>,
         tip' = tip, deployed' = deployed, loaded' \in [Pollers -> Versions],
         rows' \in [Pollers -> SUBSET Events],
         w \in Pollers /\ p \notin {"idle", "next", "done"} =>
           phase[w] \notin {"idle", "next", "done"},
         w \in Operators /\ p \notin {"idle", "done", "dead"} =>
           phase[w] \notin {"idle", "done", "dead"},
         p \notin {"complete", "provision", "begin", "revision"}
  PROVE  Inv'
<1>1. phase' \in [Runners -> Places] /\ phase'[w] = p
      /\ \A v \in Runners \ {w} : phase'[v] = phase[v]
  BY DEF Inv, Shape, Proceed
<1>2. Shape'
  BY <1>1 DEF Inv, Shape
<1>3. OwnWork'
  BY <1>1 DEF Inv, OwnWork, Runners
<1>4. CompletesEnded' /\ Dated' /\ InHandIsBound'
  BY <1>1 DEF Inv, CompletesEnded, Dated, InHandIsBound, Terminated, Runners
<1>5. RetiredIsSettled' /\ PinnedRevision'
  BY DEF Inv, RetiredIsSettled, PinnedRevision, Terminated
<1> QED BY <1>2, <1>3, <1>4, <1>5 DEF Inv

LEMMA Phasings ==
  \A p \in {"idle", "next", "check", "clone", "switch", "schedule", "refuse", "raise", "done",
           "dead", "announce", "repair"} : p \in Places
BY DEF Places

\* The phase that an exception leaves is not one that claims something.
LEMMA RaiseKeeps ==
  ASSUME Inv, NEW w \in Runners, NEW class, Raise(w, class),
         phase[w] \notin {"idle", "next", "done", "dead"},
         UNCHANGED <<requests, refused, execution, bound, work, revision, tip, deployed,
                     loaded, rows>>
  PROVE  Inv'
<1> DEFINE p == IF w \in Operators THEN "raise"
                ELSE IF class = "CONFIGURATION" THEN "refuse" ELSE "next"
<1>1. Proceed(w, p)
  BY DEF Raise
<1>2. p \in Places /\ p \notin {"complete", "provision", "begin", "revision"}
  BY DEF Places
<1>3. loaded' \in [Pollers -> Versions] /\ rows' \in [Pollers -> SUBSET Events]
  BY DEF Inv, Shape
<1> HIDE DEF p
<1> QED BY <1>1, <1>2, <1>3, Aside

LEMMA TransientKeeps ==
  ASSUME Inv, NEW w \in Runners,
         NEW p \in {"revision", "begin", "announce", "switch", "schedule"}, Transient(w, p)
  PROVE  Inv'
<1>1. Raise(w, "RECOVERABLE") /\ phase[w] = p
  BY DEF Transient, Working
<1>2. UNCHANGED <<requests, refused, execution, bound, work, revision, tip, deployed, loaded, rows>>
  BY DEF Transient, inbox, files, around, inHand
<1> QED BY <1>1, <1>2, RaiseKeeps

LEMMA DeliverKeeps ==
  ASSUME Inv, NEW e \in Events, NEW answered \in BOOLEAN, Deliver(e, answered)
  PROVE  Inv'
<1>1. /\ requests' \in [Events -> {"none", "PENDING", "COMPLETED"}]
      /\ \A d \in Events : requests'[d] = "COMPLETED" => requests[d] = "COMPLETED"
  BY DEF Deliver, Inv, Shape
<1>2. UNCHANGED <<refused, execution, bound, tip, deployed, loaded, rows, work, revision, phase>>
  BY DEF Deliver, files, around, inHand
<1>3. Shape'
  BY <1>1, <1>2 DEF Inv, Shape
<1>4. OwnWork' /\ CompletesEnded' /\ Dated' /\ InHandIsBound' /\ PinnedRevision'
  BY <1>2 DEF Inv, OwnWork, CompletesEnded, Dated, InHandIsBound, PinnedRevision, Terminated
<1>5. RetiredIsSettled'
  BY <1>1, <1>2 DEF Inv, RetiredIsSettled, Terminated
<1> QED BY <1>3, <1>4, <1>5 DEF Inv

LEMMA WorldKeeps ==
  ASSUME Inv, MoveBranch \/ Deploy \/ (\E x \in Works : Resolve(x))
  PROVE  Inv'
<1>1. UNCHANGED <<requests, refused, execution, bound, loaded, rows, work, revision, phase>>
  BY DEF MoveBranch, Deploy, Resolve, inbox, files, inHand
<1>2. tip' \in Nat \ {0} /\ deployed' \in Versions
  BY IntakeAssumption DEF MoveBranch, Deploy, Resolve, Inv, Shape, Versions
<1>3. Shape'
  BY <1>1, <1>2 DEF Inv, Shape
<1> QED BY <1>1, <1>3 DEF Inv, OwnWork, CompletesEnded, Dated, InHandIsBound, PinnedRevision,
                          RetiredIsSettled, Terminated

LEMMA EndProcessKeeps ==
  ASSUME Inv, NEW w \in Runners, EndProcess(w)
  PROVE  Inv'
<1> DEFINE p == IF w \in Operators THEN "dead" ELSE "idle"
<1>1. Proceed(w, p) /\ p \in Places
  BY DEF EndProcess, Places
<1>2. loaded' \in [Pollers -> Versions] /\ rows' \in [Pollers -> SUBSET Events]
  BY DEF EndProcess, Inv, Shape
<1>3. UNCHANGED <<requests, refused, execution, bound, work, revision, tip, deployed>>
  BY DEF EndProcess, inbox, files, around
<1> QED BY <1>1, <1>2, <1>3, WorkersApart, Aside

LEMMA PollKeeps ==
  ASSUME Inv, NEW c \in Pollers, Poll(c)
  PROVE  Inv'
<1>1. Proceed(c, "next") /\ "next" \in Places /\ c \in Runners /\ c \notin Operators
  BY WorkersApart DEF Poll, Places, Runners
<1>2. loaded' \in [Pollers -> Versions] /\ rows' \in [Pollers -> SUBSET Events]
  BY DEF Poll, Inv, Shape
<1>3. UNCHANGED <<requests, refused, execution, bound, work, revision, tip, deployed>>
  BY DEF Poll, inbox, files, around
<1> QED BY <1>1, <1>2, <1>3, Aside

\* Where a worker moves on with what it has in hand.
LEMMA MovesOn ==
  ASSUME Inv, NEW w \in Runners, NEW p \in Places, Proceed(w, p),
         p \notin {"complete", "provision", "begin", "revision"},
         phase[w] \notin {"idle", "next", "done", "dead"},
         UNCHANGED <<requests, refused, execution, bound, work, revision, tip, deployed,
                     loaded, rows>>
  PROVE  Inv'
BY Aside DEF Inv, Shape

LEMMA TakeRowKeeps ==
  ASSUME Inv, NEW c \in Pollers, TakeRow(c)
  PROVE  Inv'
<1>1. c \in Runners /\ c \notin Operators
  BY WorkersApart DEF Runners
<1>2. UNCHANGED <<requests, refused, execution, bound, tip, deployed, loaded, revision>>
  BY DEF TakeRow, inbox, files, around
<1>3. CASE rows[c] = {}
  <2>1. Proceed(c, "idle") /\ UNCHANGED <<rows, work>>
    BY <1>3 DEF TakeRow
  <2> QED BY <1>1, <1>2, <2>1, Phasings, Aside DEF Inv, Shape
<1>4. CASE rows[c] # {}
  <2>1. PICK e \in rows[c] :
          /\ rows' = [rows EXCEPT ![c] = @ \ {e}]
          /\ work' = [work EXCEPT ![c] = <<e, loaded[c]>>]
          /\ Proceed(c, IF Resolves(c) THEN "revision" ELSE "refuse")
    BY <1>4 DEF TakeRow
  <2>2. /\ phase' \in [Runners -> Places] /\ phase'[c] \in {"revision", "refuse"}
        /\ \A v \in Runners \ {c} : phase'[v] = phase[v]
    BY <1>1, <2>1 DEF Inv, Shape, Proceed, Places
  <2>3. /\ DOMAIN work' = Runners /\ work'[c] \in Events \X Versions
        /\ \A v \in Runners \ {c} : work'[v] = work[v]
    BY <1>1, <2>1 DEF Inv, Shape
  <2>4. rows' \in [Pollers -> SUBSET Events]
    BY <2>1 DEF Inv, Shape
  <2>5. Shape'
    BY <1>2, <2>2, <2>3, <2>4 DEF Inv, Shape
  <2>6. OwnWork'
    BY <1>1, <2>2, <2>3 DEF Inv, OwnWork, Runners
  <2>7. CompletesEnded' /\ Dated' /\ InHandIsBound'
    BY <1>1, <1>2, <2>2, <2>3 DEF Inv, CompletesEnded, Dated, InHandIsBound, Terminated, Runners
  <2>8. RetiredIsSettled' /\ PinnedRevision'
    BY <1>2 DEF Inv, RetiredIsSettled, PinnedRevision, Terminated
  <2> QED BY <2>5, <2>6, <2>7, <2>8 DEF Inv
<1> QED BY <1>3, <1>4

LEMMA CheckKeeps ==
  ASSUME Inv, NEW c \in Pollers, Check(c)
  PROVE  Inv'
<1>1. c \in Runners /\ c \notin Operators
  BY WorkersApart DEF Runners
<1>2. UNCHANGED <<requests, refused, execution, bound, tip, deployed, loaded, rows, work, revision>>
  BY DEF Check, inbox, files, around, inHand
<1>3. CASE ~ Terminated(work[c])
  <2>1. Proceed(c, "next") /\ phase[c] = "check"
    BY <1>3 DEF Check, Working
  <2> QED BY <1>1, <1>2, <2>1, Phasings, MovesOn
<1>4. CASE Terminated(work[c])
  <2>1. /\ phase' \in [Runners -> Places] /\ phase'[c] = "complete" /\ phase[c] = "check"
        /\ \A v \in Runners \ {c} : phase'[v] = phase[v]
    BY <1>1, <1>4 DEF Check, Working, Inv, Shape, Proceed, Places
  <2>2. Shape'
    BY <1>2, <2>1 DEF Inv, Shape
  <2>3. OwnWork' /\ CompletesEnded' /\ Dated' /\ InHandIsBound'
    BY <1>1, <1>2, <1>4, <2>1
    DEF Inv, OwnWork, CompletesEnded, Dated, InHandIsBound, Terminated, Runners
  <2>4. RetiredIsSettled' /\ PinnedRevision'
    BY <1>2 DEF Inv, RetiredIsSettled, PinnedRevision, Terminated
  <2> QED BY <2>2, <2>3, <2>4 DEF Inv
<1> QED BY <1>3, <1>4

\* A row that is retired without a refusal is one of an ended execution.
LEMMA RetireKeeps ==
  ASSUME Inv, NEW c \in Pollers, NEW p \in {"complete", "refuse"}, Retire(c, p)
  PROVE  Inv'
<1> DEFINE e == work[c][1]
<1>1. c \in Runners /\ c \notin Operators /\ phase[c] = p
  BY WorkersApart DEF Runners, Retire, Working
<1>2. work[c] \in Events \X Versions
  BY <1>1 DEF Inv, OwnWork
<1>3. UNCHANGED <<execution, bound, tip, deployed, loaded, rows, work, revision>>
  BY DEF Retire, files, around, inHand
<1>4. /\ phase' \in [Runners -> Places] /\ phase'[c] = "next"
      /\ \A v \in Runners \ {c} : phase'[v] = phase[v]
  BY <1>1, Phasings DEF Retire, Inv, Shape, Proceed
<1>5. /\ requests' = [requests EXCEPT ![e] = "COMPLETED"]
      /\ refused' = refused \cup (IF p = "refuse" THEN {e} ELSE {})
  BY DEF Retire
<1>6. Shape'
  <2>1. requests' \in [Events -> {"none", "PENDING", "COMPLETED"}] /\ refused' \subseteq Events
    BY <1>2, <1>5 DEF Inv, Shape
  <2> QED BY <1>3, <1>4, <2>1 DEF Inv, Shape
<1>7. OwnWork' /\ CompletesEnded' /\ Dated' /\ InHandIsBound'
  BY <1>1, <1>3, <1>4 DEF Inv, OwnWork, CompletesEnded, Dated, InHandIsBound, Terminated, Runners
<1>8. PinnedRevision'
  BY <1>3 DEF Inv, PinnedRevision
<1>9. RetiredIsSettled'
  <2> SUFFICES ASSUME NEW d \in Events, requests'[d] = "COMPLETED", d \notin refused'
               PROVE  \E v \in Versions : Terminated(<<d, v>>)
    BY <1>3 DEF RetiredIsSettled, Terminated
  <2>1. CASE d # e
    BY <1>5, <2>1 DEF Inv, Shape, RetiredIsSettled
  <2>2. CASE d = e
    <3>1. p = "complete"
      BY <1>5, <2>2
    <3>2. Terminated(work[c])
      BY <1>1, <3>1 DEF Inv, CompletesEnded
    <3>3. work[c] = <<d, work[c][2]>> /\ work[c][2] \in Versions
      BY <1>2, <2>2
    <3> QED BY <3>2, <3>3
  <2> QED BY <2>1, <2>2
<1> QED BY <1>6, <1>7, <1>8, <1>9 DEF Inv

-----------------------------------------------------------------------------
(* The runner.                                                             *)

\* What a runner works on is an execution.
LEMMA WorkIsOne ==
  ASSUME Inv
  PROVE  \A w \in Runners : phase[w] \notin {"idle", "next", "done", "dead"} => work[w] \in Works
BY VersionsAreWorks DEF Inv, OwnWork, Runners

LEMMA ReadRevisionKeeps ==
  ASSUME Inv, NEW w \in Runners, ReadRevision(w)
  PROVE  Inv'
<1> DEFINE x == work[w]
           p == IF Terminated(x) THEN "check" ELSE "provision"
<1>1. phase[w] = "revision" /\ x \in Works
  BY WorkIsOne DEF ReadRevision, Working
<1>2. UNCHANGED <<requests, refused, execution, bound, tip, deployed, loaded, rows, work>>
  BY DEF ReadRevision, inbox, files, around
<1>3. execution[x] \in Executions /\ tip \in Nat \ {0}
  BY <1>1 DEF Inv, Shape
<1>4. Pinned(x) \in Nat \ {0}
  <2>1. CASE execution[x].status = "absent"
    BY <1>3, <2>1 DEF Pinned
  <2>2. CASE execution[x].status # "absent"
    BY <1>1, <1>3, <2>2 DEF Pinned, Inv, Dated, Executions
  <2> QED BY <2>1, <2>2
<1>5. /\ revision' \in [Runners -> Nat] /\ revision'[w] = Pinned(x)
      /\ \A v \in Runners \ {w} : revision'[v] = revision[v]
  BY <1>4 DEF ReadRevision, Inv, Shape
<1>6. /\ phase' \in [Runners -> Places] /\ phase'[w] = p
      /\ \A v \in Runners \ {w} : phase'[v] = phase[v]
  BY DEF ReadRevision, Proceed, Inv, Shape, Places
<1>7. Shape'
  BY <1>2, <1>5, <1>6 DEF Inv, Shape
<1>8. OwnWork' /\ CompletesEnded'
  BY <1>1, <1>2, <1>6 DEF Inv, OwnWork, CompletesEnded, Terminated, Runners
<1>9. Dated'
  BY <1>2, <1>4, <1>5, <1>6 DEF Inv, Dated
<1>10. InHandIsBound'
  BY <1>1, <1>2, <1>5, <1>6 DEF Inv, InHandIsBound, Pinned, Runners
<1>11. RetiredIsSettled' /\ PinnedRevision'
  BY <1>2 DEF Inv, RetiredIsSettled, PinnedRevision, Terminated
<1> QED BY <1>7, <1>8, <1>9, <1>10, <1>11 DEF Inv

\* A binding changes once, from none to the revision in hand.
LEMMA BindingKeeps ==
  ASSUME Inv, NEW w \in Runners, NEW p \in Places, phase[w] = "provision",
         bound' = [bound EXCEPT ![work[w]] = IF @ = 0 THEN revision[w] ELSE @],
         Proceed(w, p), p \in {"begin", "raise", "refuse", "next"},
         p = "next" => w \in Pollers,
         p = "begin" => SameBinding(work[w], revision[w]),
         UNCHANGED <<requests, refused, execution, tip, deployed, loaded, rows, work, revision>>
  PROVE  Inv'
<1> DEFINE x == work[w]
<1>1. x \in Works
  BY WorkIsOne
<1>2. /\ bound' \in [Works -> Nat] /\ \A y \in Works : bound[y] # 0 => bound'[y] = bound[y]
      /\ SameBinding(x, revision[w]) => bound'[x] = revision[w]
  BY <1>1 DEF Inv, Shape, SameBinding
<1>3. /\ phase' \in [Runners -> Places] /\ phase'[w] = p
      /\ \A v \in Runners \ {w} : phase'[v] = phase[v]
  BY DEF Proceed, Inv, Shape
<1>4. Shape'
  BY <1>2, <1>3 DEF Inv, Shape
<1>5. OwnWork' /\ CompletesEnded' /\ Dated'
  BY <1>3, WorkersApart DEF Inv, OwnWork, CompletesEnded, Dated, Terminated, Runners
<1>6. InHandIsBound'
  <2>1. ASSUME NEW v \in Runners, phase'[v] = "begin"
        PROVE  bound'[work[v]] = revision[v]
    <3>1. CASE v = w
      BY <1>2, <1>3, <2>1, <3>1
    <3>2. CASE v # w
      <4>1. phase[v] = "begin" /\ work[v] \in Works
        BY <1>3, <2>1, <3>2, WorkIsOne
      <4>2. bound[work[v]] = revision[v] /\ revision[v] # 0
        BY <4>1 DEF Inv, InHandIsBound, Dated
      <4> QED BY <1>2, <4>1, <4>2
    <3> QED BY <3>1, <3>2
  <2> QED BY <1>3, <2>1 DEF Inv, InHandIsBound, Runners
<1>7. RetiredIsSettled'
  BY DEF Inv, RetiredIsSettled, Terminated
<1>8. PinnedRevision'
  <2> SUFFICES ASSUME NEW y \in Works, execution[y].status \in {"RUNNING", "SUCCEEDED"}
               PROVE  bound'[y] = execution[y].revision
    BY DEF PinnedRevision
  <2>1. bound[y] = execution[y].revision /\ execution[y].revision # 0
    BY DEF Inv, PinnedRevision, Dated
  <2> QED BY <1>2, <2>1
<1> QED BY <1>4, <1>5, <1>6, <1>7, <1>8 DEF Inv

LEMMA ProvisionKeeps ==
  ASSUME Inv, NEW w \in Runners, ProvisionWorkspace(w) \/ ProvisionFails(w)
  PROVE  Inv'
<1> DEFINE x == work[w]
           r == revision[w]
           q == IF w \in Operators THEN "raise" ELSE "refuse"
           n == IF w \in Operators THEN "raise" ELSE "next"
<1>1. phase[w] = "provision" /\ x \in Works
  BY WorkIsOne DEF ProvisionWorkspace, ProvisionFails, Working
<1>2. UNCHANGED <<requests, refused, execution, tip, deployed, loaded, rows, work, revision>>
  BY DEF ProvisionWorkspace, ProvisionFails, inbox, around, inHand
<1>3. r # 0 /\ bound \in [Works -> Nat]
  BY <1>1 DEF Inv, Dated, Shape
<1>4. bound' = [bound EXCEPT ![x] = IF @ = 0 THEN r ELSE @]
  <2>1. CASE ProvisionFails(w)
    BY <2>1 DEF ProvisionFails
  <2>2. CASE ProvisionWorkspace(w) /\ SameBinding(x, r)
    <3>1. bound' = [bound EXCEPT ![x] = r]
      BY <2>2 DEF ProvisionWorkspace
    <3>2. bound[x] = 0 \/ bound[x] = r
      BY <2>2 DEF SameBinding
    <3> QED BY <1>1, <1>3, <3>1, <3>2
  <2>3. CASE ProvisionWorkspace(w) /\ ~ SameBinding(x, r)
    <3>1. bound' = bound /\ bound[x] # 0
      BY <2>3 DEF ProvisionWorkspace, SameBinding
    <3> QED BY <1>1, <1>3, <3>1
  <2> QED BY <2>1, <2>2, <2>3
<1>5. \/ SameBinding(x, r) /\ Proceed(w, "begin")
      \/ Proceed(w, q) \/ Proceed(w, n)
  BY DEF ProvisionWorkspace, ProvisionFails, Raise
<1>6. {"begin", q, n} \subseteq Places
  BY DEF Places
<1>7. n = "next" => w \in Pollers
  BY DEF Runners
<1>8. CASE SameBinding(x, r) /\ Proceed(w, "begin")
  BY <1>1, <1>2, <1>4, <1>6, <1>8, BindingKeeps
<1>9. CASE Proceed(w, q)
  BY <1>1, <1>2, <1>4, <1>6, <1>9, BindingKeeps
<1>10. CASE Proceed(w, n)
  BY <1>1, <1>2, <1>4, <1>6, <1>7, <1>10, BindingKeeps
<1> QED BY <1>5, <1>8, <1>9, <1>10

LEMMA CheckoutKeeps ==
  ASSUME Inv, NEW w \in Runners, Clone(w) \/ CloneFails(w) \/ Switch(w)
  PROVE  Inv'
<1>1. UNCHANGED <<requests, refused, execution, bound, work, revision, tip, deployed, loaded, rows>>
  BY DEF Clone, CloneFails, Switch, inbox, files, around, inHand
<1>2. phase[w] \in {"clone", "switch"}
  BY DEF Clone, CloneFails, Switch, Working
<1>3. Raise(w, "CONFIGURATION") \/ Proceed(w, "switch") \/ Proceed(w, "schedule")
  BY DEF Clone, CloneFails, Switch
<1>4. CASE Raise(w, "CONFIGURATION")
  BY <1>1, <1>2, <1>4, RaiseKeeps
<1>5. CASE Proceed(w, "switch")
  BY <1>1, <1>2, <1>5, Phasings, MovesOn
<1>6. CASE Proceed(w, "schedule")
  BY <1>1, <1>2, <1>6, Phasings, MovesOn
<1> QED BY <1>3, <1>4, <1>5, <1>6

-----------------------------------------------------------------------------
(* Steps of an execution.                                                  *)

\* No execution disappears or changes its revision, none of a version starts
\* again, and what runs or has succeeded is bound to its revision.
Evolves ==
  /\ execution' \in [Works -> Executions]
  /\ \A x \in Works : execution[x].status # "absent" =>
       /\ execution'[x].status # "absent" /\ execution'[x].revision = execution[x].revision
  /\ \A x \in Events \X Versions : Terminated(x) => Terminated(x)'
  /\ \A x \in Works : execution'[x].status # "absent" => execution'[x].revision # 0
  /\ \A x \in Works : execution'[x].status \in {"RUNNING", "SUCCEEDED"} =>
       bound[x] = execution'[x].revision

LEMMA EvolvingKeeps ==
  ASSUME Inv, Evolves, NEW w \in Runners, NEW p \in Places, Proceed(w, p),
         p \notin {"complete", "provision", "begin", "revision"},
         phase[w] \notin {"idle", "next", "done", "dead"},
         UNCHANGED <<requests, refused, bound, work, revision, tip, deployed, loaded, rows>>
  PROVE  Inv'
<1>1. /\ phase' \in [Runners -> Places] /\ phase'[w] = p
      /\ \A v \in Runners \ {w} : phase'[v] = phase[v]
  BY DEF Proceed, Inv, Shape
<1>2. Shape'
  BY <1>1 DEF Inv, Shape, Evolves
<1>3. OwnWork'
  BY <1>1 DEF Inv, OwnWork, Runners
<1>4. CompletesEnded'
  <2> SUFFICES ASSUME NEW c \in Pollers, phase'[c] = "complete"
               PROVE  Terminated(work[c])'
    BY DEF CompletesEnded
  <2>1. phase[c] = "complete" /\ work[c] \in Events \X Versions
    BY <1>1 DEF Inv, OwnWork, Runners
  <2> QED BY <2>1 DEF Inv, CompletesEnded, Evolves, Terminated
<1>5. Dated'
  BY <1>1 DEF Inv, Dated, Evolves
<1>6. InHandIsBound'
  <2>1. ASSUME NEW o \in Operators, phase'[o] \notin {"idle", "done", "dead"}
        PROVE  /\ phase[o] \notin {"idle", "done", "dead"} /\ work[o] \in Works
               /\ execution[work[o]].status # "absent"
    <3>1. phase[o] \notin {"idle", "done", "dead"}
      BY <1>1, <2>1 DEF Runners
    <3> QED BY <3>1, VersionsAreWorks DEF Inv, InHandIsBound, OwnWork
  <2>2. \A o \in Operators : phase'[o] \notin {"idle", "done", "dead"} =>
          (execution'[work[o]].status # "absent"
           /\ execution'[work[o]].revision = execution[work[o]].revision)
    BY <2>1 DEF Evolves
  <2>3. \A o \in Operators : phase'[o] \in {"provision", "begin"} =>
          execution'[work[o]].revision = revision[o]
    <3> SUFFICES ASSUME NEW o \in Operators, phase'[o] \in {"provision", "begin"}
                 PROVE  execution'[work[o]].revision = revision[o]
      OBVIOUS
    <3>1. phase[o] \in {"provision", "begin"} /\ phase'[o] \notin {"idle", "done", "dead"}
      BY <1>1 DEF Runners
    <3> QED BY <2>2, <3>1 DEF Inv, InHandIsBound
  <2>4. \A v \in Runners : phase'[v] = "begin" => bound[work[v]] = revision[v]
    BY <1>1 DEF Inv, InHandIsBound
  <2> QED BY <2>2, <2>3, <2>4 DEF InHandIsBound
<1>7. RetiredIsSettled'
  <2> SUFFICES ASSUME NEW e \in Events, requests[e] = "COMPLETED", e \notin refused
               PROVE  \E v \in Versions : Terminated(<<e, v>>)'
    BY DEF RetiredIsSettled, Terminated
  <2>1. PICK v \in Versions : Terminated(<<e, v>>)
    BY DEF Inv, RetiredIsSettled
  <2> QED BY <2>1 DEF Evolves
<1>8. PinnedRevision'
  BY DEF Evolves, PinnedRevision
<1> QED BY <1>2, <1>3, <1>4, <1>5, <1>6, <1>7, <1>8 DEF Inv

\* An update of one execution that keeps its revision.
LEMMA Updated ==
  ASSUME Inv, NEW x \in Works, execution' \in [Works -> Executions],
         \A y \in Works \ {x} : execution'[y] = execution[y],
         execution[x].status # "absent" =>
           execution'[x].status # "absent" /\ execution'[x].revision = execution[x].revision,
         x \in Events \X Versions /\ Terminated(x) => Terminated(x)',
         execution'[x].status # "absent" => execution'[x].revision # 0,
         execution'[x].status \in {"RUNNING", "SUCCEEDED"} => bound[x] = execution'[x].revision
  PROVE  Evolves
BY VersionsAreWorks DEF Evolves, Inv, Dated, PinnedRevision, Terminated

\* An event leaves the rest of its execution alone.
LEMMA EventFacts ==
  ASSUME Inv, NEW x \in Works, NEW type \in {"created", "started", "ended"}, NEW n \in Nat
  PROVE  /\ Event(x, type, n) \in [Works -> Executions]
         /\ \A y \in Works \ {x} : Event(x, type, n)[y] = execution[y]
         /\ Event(x, type, n)[x].status = execution[x].status
         /\ Event(x, type, n)[x].revision = execution[x].revision
<1>1. execution \in [Works -> Executions] /\ execution[x] \in Executions
  BY DEF Inv, Shape
<1>2. [execution[x] EXCEPT !.audit = @ \cup {<<type, n>>}] \in Executions
  BY <1>1 DEF Executions
<1>3. /\ [execution[x] EXCEPT !.audit = @ \cup {<<type, n>>}].status = execution[x].status
      /\ [execution[x] EXCEPT !.audit = @ \cup {<<type, n>>}].revision = execution[x].revision
  BY <1>1 DEF Executions
<1>4. Event(x, type, n) =
        [execution EXCEPT ![x] = [execution[x] EXCEPT !.audit = @ \cup {<<type, n>>}]]
  BY <1>1 DEF Event
<1> QED BY <1>1, <1>2, <1>3, <1>4

LEMMA StatusFacts ==
  ASSUME NEW x \in Works, NEW f \in [Works -> Executions], NEW status \in {"RUNNING"} \cup Over
  PROVE  /\ [f EXCEPT ![x].status = status] \in [Works -> Executions]
         /\ \A y \in Works \ {x} : [f EXCEPT ![x].status = status][y] = f[y]
         /\ [f EXCEPT ![x].status = status][x].status = status
         /\ [f EXCEPT ![x].status = status][x].revision = f[x].revision
<1>1. f[x] \in Executions
  OBVIOUS
<1>2. /\ [f[x] EXCEPT !.status = status] \in Executions
      /\ [f[x] EXCEPT !.status = status].status = status
      /\ [f[x] EXCEPT !.status = status].revision = f[x].revision
  BY <1>1 DEF Executions
<1>3. [f EXCEPT ![x].status = status] = [f EXCEPT ![x] = [f[x] EXCEPT !.status = status]]
  OBVIOUS
<1> QED BY <1>2, <1>3

LEMMA CreateKeeps ==
  ASSUME Inv, NEW c \in Pollers, CreateExecution(c)
  PROVE  Inv'
<1> DEFINE x == work[c]
           p == IF Terminated(x) THEN "repair" ELSE "announce"
<1>1. c \in Runners /\ phase[c] = "begin"
  BY DEF CreateExecution, Working, Runners
<1>2. x \in Works
  BY <1>1, WorkIsOne
<1>3. UNCHANGED <<requests, refused, bound, work, revision, tip, deployed, loaded, rows>>
  BY DEF CreateExecution, inbox, files, around, inHand
<1>4. Proceed(c, p) /\ p \in Places /\ p \notin {"complete", "provision", "begin", "revision"}
  BY DEF CreateExecution, Places
<1>5. bound[x] = revision[c] /\ revision[c] \in Nat \ {0}
  BY <1>1 DEF Inv, InHandIsBound, Dated, Shape
<1>6. Evolves
  <2>1. CASE execution[x].status # "absent"
    <3>1. execution' = execution
      BY <2>1 DEF CreateExecution
    <3> QED BY <1>2, <2>1, <3>1, Updated DEF Inv, Shape, Dated, PinnedRevision, Terminated
  <2>2. CASE execution[x].status = "absent"
    <3>1. execution' = [execution EXCEPT ![x].status = "RUNNING", ![x].revision = revision[c]]
      BY <2>2 DEF CreateExecution
    <3>2. execution \in [Works -> Executions] /\ execution[x] \in Executions
      BY <1>2 DEF Inv, Shape
    <3>3. /\ execution'[x] = [execution[x] EXCEPT !.status = "RUNNING", !.revision = revision[c]]
          /\ \A y \in Works \ {x} : execution'[y] = execution[y]
      BY <1>2, <3>1, <3>2
    <3>4. /\ execution'[x] \in Executions
          /\ execution'[x].status = "RUNNING" /\ execution'[x].revision = revision[c]
      BY <1>5, <3>2, <3>3 DEF Executions
    <3>5. execution' \in [Works -> Executions]
      BY <3>1, <3>2, <3>3, <3>4
    <3>6. ~ Terminated(x)
      BY <2>2 DEF Terminated, Over
    <3> QED BY <1>2, <1>5, <2>2, <3>3, <3>4, <3>5, <3>6, Updated
  <2> QED BY <2>1, <2>2
<1> QED BY <1>1, <1>3, <1>4, <1>6, EvolvingKeeps

LEMMA AnnounceKeeps ==
  ASSUME Inv, NEW c \in Pollers, Announce(c)
  PROVE  Inv'
<1> DEFINE x == work[c]
           p == IF Working(c, "repair") THEN "check" ELSE "clone"
<1>1. c \in Runners /\ phase[c] \in {"announce", "repair"}
  BY DEF Announce, Runners
<1>2. x \in Works
  BY <1>1, WorkIsOne
<1>3. UNCHANGED <<requests, refused, bound, work, revision, tip, deployed, loaded, rows>>
  BY DEF Announce, inbox, files, around, inHand
<1>4. Proceed(c, p) /\ p \in Places /\ p \notin {"complete", "provision", "begin", "revision"}
  BY DEF Announce, Places
<1>5. execution' = Event(x, "started", 1)
  BY DEF Announce, Announced
<1>6. /\ execution' \in [Works -> Executions]
      /\ \A y \in Works \ {x} : execution'[y] = execution[y]
      /\ execution'[x].status = execution[x].status
      /\ execution'[x].revision = execution[x].revision
  BY <1>2, <1>5, EventFacts
<1>7. Evolves
  BY <1>2, <1>6, Updated DEF Inv, Dated, PinnedRevision, Terminated
<1> QED BY <1>1, <1>3, <1>4, <1>7, EvolvingKeeps

\* What ends an execution that has begun.
LEMMA EndingKeeps ==
  ASSUME Inv, NEW x \in Works, NEW status \in Over, execution' = Ended(x, status),
         execution[x].status # "absent", execution[x].status = "RUNNING" \/ status = "FAILED"
  PROVE  Evolves
<1>1. NextNumber(x) \in Nat
  BY DEF NextNumber
<1>2. execution' = [Event(x, "ended", NextNumber(x)) EXCEPT ![x].status = status]
  BY DEF Ended
<1>3. /\ execution' \in [Works -> Executions]
      /\ \A y \in Works \ {x} : execution'[y] = execution[y]
      /\ execution'[x].status = status
      /\ execution'[x].revision = execution[x].revision
  <2>1. Event(x, "ended", NextNumber(x)) \in [Works -> Executions]
    BY <1>1, EventFacts
  <2> QED BY <1>1, <1>2, <2>1, EventFacts, StatusFacts
<1>4. execution[x].revision # 0
  BY DEF Inv, Dated
<1>5. status = "SUCCEEDED" => bound[x] = execution[x].revision
  BY DEF Inv, PinnedRevision
<1>6. status \in {"SUCCEEDED", "FAILED"}
  BY DEF Over
<1> QED BY <1>3, <1>4, <1>5, <1>6, Updated DEF Terminated

LEMMA ScheduleKeeps ==
  ASSUME Inv, NEW w \in Runners, NEW result \in Over \cup {"in flight", "gate"}, Schedule(w, result)
  PROVE  Inv'
<1> DEFINE x == work[w]
<1>1. phase[w] = "schedule"
  BY DEF Schedule, Working
<1>2. x \in Works
  BY <1>1, WorkIsOne
<1>3. UNCHANGED <<requests, refused, bound, work, revision, tip, deployed, loaded, rows>>
  BY DEF Schedule, inbox, files, around, inHand
<1>4. Proceed(w, "check") /\ "check" \in Places
  BY DEF Schedule, Places
<1>5. CASE execution' = execution
  BY <1>1, <1>3, <1>4, <1>5, MovesOn
<1>6. CASE execution' # execution
  <2>1. execution' = Ended(x, result) /\ result \in Over /\ execution[x].status = "RUNNING"
    BY <1>6 DEF Schedule
  <2>2. Evolves
    BY <1>2, <2>1, EndingKeeps
  <2> QED BY <1>1, <1>3, <1>4, <2>2, EvolvingKeeps
<1> QED BY <1>5, <1>6

-----------------------------------------------------------------------------
(* A replay.                                                               *)

\* The execution of a replay is its operator's own.
LEMMA ReplayKeeps ==
  ASSUME Inv, NEW o \in Operators, NEW x \in Works, Replay(o, x)
  PROVE  Inv'
<1> DEFINE y == <<x[1], o>>
           r == [status |-> "PENDING", audit |-> {<<"created", 1>>},
                 revision |-> execution[x].revision]
<1>1. o \in Runners /\ o \notin Pollers /\ phase[o] = "idle"
  BY WorkersApart DEF Replay, Working, Runners
<1>2. y \in Events \X {o} /\ y \in Works /\ y \notin Events \X Versions
  BY WorkersApart DEF Works
<1>3. execution[x] \in Executions /\ execution[x].revision \in Nat \ {0}
  <2>1. execution[x].status # "absent"
    BY DEF Replay, Terminated, Over
  <2> QED BY <2>1 DEF Inv, Shape, Dated, Executions
<1>4. r \in Executions /\ r.status = "PENDING" /\ r.revision = execution[x].revision
  BY <1>3 DEF Executions
<1>5. /\ execution' \in [Works -> Executions] /\ execution'[y] = r
      /\ \A z \in Works \ {y} : execution'[z] = execution[z]
  BY <1>2, <1>4 DEF Replay, Inv, Shape
<1>6. /\ DOMAIN work' = Runners /\ work'[o] = y
      /\ \A v \in Runners \ {o} : work'[v] = work[v]
  BY <1>1 DEF Replay, Inv, Shape
<1>7. /\ phase' \in [Runners -> Places] /\ phase'[o] = "revision"
      /\ \A v \in Runners \ {o} : phase'[v] = phase[v]
  BY <1>1 DEF Replay, Proceed, Inv, Shape, Places
<1>8. UNCHANGED <<requests, refused, bound, revision, tip, deployed, loaded, rows>>
  BY DEF Replay, inbox, files, around
<1>9. Shape'
  BY <1>5, <1>6, <1>7, <1>8 DEF Inv, Shape
<1>10. OwnWork'
  BY <1>1, <1>2, <1>6, <1>7 DEF Inv, OwnWork, Runners
<1>11. \A z \in Events \X Versions : z \in Works /\ execution'[z] = execution[z]
  BY <1>2, <1>5, VersionsAreWorks
<1>12. CompletesEnded'
  <2> SUFFICES ASSUME NEW c \in Pollers, phase'[c] = "complete" PROVE Terminated(work[c])'
    BY DEF CompletesEnded
  <2>1. c # o /\ phase[c] = "complete" /\ work'[c] = work[c] /\ work[c] \in Events \X Versions
    BY <1>1, <1>6, <1>7 DEF Inv, OwnWork, Runners
  <2> QED BY <1>11, <2>1 DEF Inv, CompletesEnded, Terminated
<1>13. Dated'
  BY <1>3, <1>4, <1>5, <1>7, <1>8 DEF Inv, Dated
<1>14. InHandIsBound'
  <2>1. ASSUME NEW q \in Operators \ {o}, phase'[q] \notin {"idle", "done", "dead"}
        PROVE  /\ phase[q] = phase'[q] /\ work'[q] = work[q]
               /\ execution'[work[q]] = execution[work[q]]
    <3>1. phase[q] = phase'[q] /\ work'[q] = work[q]
      BY <1>6, <1>7 DEF Runners
    <3>2. work[q] \in Events \X {q}
      BY <2>1, <3>1 DEF Inv, OwnWork
    <3>3. work[q] \in Works /\ work[q] # y
      BY <3>2, VersionsAreWorks
    <3> QED BY <1>5, <3>1, <3>3
  <2>2. \A v \in Runners : phase'[v] = "begin" => bound'[work'[v]] = revision'[v]
    BY <1>6, <1>7, <1>8 DEF Inv, InHandIsBound
  <2>3. \A q \in Operators : phase'[q] \notin {"idle", "done", "dead"} =>
          execution'[work'[q]].status # "absent"
    BY <1>4, <1>5, <1>6, <2>1 DEF Inv, InHandIsBound
  <2>4. \A q \in Operators : phase'[q] \in {"provision", "begin"} =>
          execution'[work'[q]].revision = revision'[q]
    <3> SUFFICES ASSUME NEW q \in Operators, phase'[q] \in {"provision", "begin"}
                 PROVE  execution'[work'[q]].revision = revision'[q]
      OBVIOUS
    <3>1. q # o /\ phase'[q] \notin {"idle", "done", "dead"}
      BY <1>7
    <3> QED BY <1>8, <2>1, <3>1 DEF Inv, InHandIsBound
  <2> QED BY <2>2, <2>3, <2>4 DEF InHandIsBound
<1>15. RetiredIsSettled'
  <2> SUFFICES ASSUME NEW e \in Events, requests[e] = "COMPLETED", e \notin refused
               PROVE  \E v \in Versions : Terminated(<<e, v>>)'
    BY <1>8 DEF RetiredIsSettled, Terminated
  <2>1. PICK v \in Versions : Terminated(<<e, v>>)
    BY DEF Inv, RetiredIsSettled
  <2> QED BY <1>11, <2>1 DEF Terminated
<1>16. PinnedRevision'
  BY <1>4, <1>5, <1>8 DEF Inv, PinnedRevision
<1> QED BY <1>9, <1>10, <1>12, <1>13, <1>14, <1>15, <1>16 DEF Inv

LEMMA StartReplayKeeps ==
  ASSUME Inv, NEW o \in Operators, StartReplay(o)
  PROVE  Inv'
<1> DEFINE x == work[o]
<1>1. o \in Runners /\ phase[o] = "begin"
  BY DEF StartReplay, Working, Runners
<1>2. x \in Events \X {o} /\ x \in Works
  BY <1>1, VersionsAreWorks DEF Inv, OwnWork
<1>3. UNCHANGED <<requests, refused, bound, work, revision, tip, deployed, loaded, rows>>
  BY DEF StartReplay, inbox, files, around, inHand
<1>4. Proceed(o, "clone") /\ "clone" \in Places
  BY DEF StartReplay, Places
<1>5. execution' = [Event(x, "started", NextNumber(x)) EXCEPT ![x].status = "RUNNING"]
  BY DEF StartReplay
<1>6. NextNumber(x) \in Nat
  BY DEF NextNumber
<1>7. /\ execution' \in [Works -> Executions]
      /\ \A y \in Works \ {x} : execution'[y] = execution[y]
      /\ execution'[x].status = "RUNNING"
      /\ execution'[x].revision = execution[x].revision
  <2>1. Event(x, "started", NextNumber(x)) \in [Works -> Executions]
    BY <1>2, <1>6, EventFacts
  <2>2. /\ \A y \in Works \ {x} : Event(x, "started", NextNumber(x))[y] = execution[y]
        /\ Event(x, "started", NextNumber(x))[x].revision = execution[x].revision
    BY <1>2, <1>6, EventFacts
  <2>3. PICK f \in [Works -> Executions] : f = Event(x, "started", NextNumber(x))
    BY <2>1
  <2>4. execution' = [f EXCEPT ![x].status = "RUNNING"]
    BY <1>5, <2>3
  <2>5. /\ \A y \in Works \ {x} : f[y] = execution[y]
        /\ f[x].revision = execution[x].revision
    BY <2>2, <2>3
  <2> HIDE DEF x
  <2> QED BY <1>2, <2>3, <2>4, <2>5, StatusFacts
<1>8. bound[x] = execution[x].revision /\ execution[x].revision # 0
  BY <1>1 DEF Inv, InHandIsBound, Dated
<1>9. x \notin Events \X Versions
  BY <1>2, WorkersApart
<1>10. Evolves
  BY <1>2, <1>7, <1>8, <1>9, Updated
<1> QED BY <1>1, <1>3, <1>4, <1>10, EvolvingKeeps

LEMMA RefuseReplayKeeps ==
  ASSUME Inv, NEW o \in Operators, RefuseReplay(o)
  PROVE  Inv'
<1>1. o \in Runners /\ phase[o] = "begin" /\ Proceed(o, "raise")
  BY DEF RefuseReplay, Working, Runners
<1>2. UNCHANGED <<requests, refused, execution, bound, work, revision, tip, deployed, loaded, rows>>
  BY DEF RefuseReplay, inbox, files, around, inHand
<1> QED BY <1>1, <1>2, Phasings, MovesOn

LEMMA EndReplayKeeps ==
  ASSUME Inv, NEW o \in Operators, EndReplay(o)
  PROVE  Inv'
<1> DEFINE x == work[o]
<1>1. o \in Runners /\ phase[o] \in {"raise", "check"} /\ Proceed(o, "done")
  BY DEF EndReplay, Runners
<1>2. x \in Works
  BY <1>1, WorkIsOne
<1>3. UNCHANGED <<requests, refused, bound, work, revision, tip, deployed, loaded, rows>>
  BY DEF EndReplay, inbox, files, around, inHand
<1>4. CASE execution' = execution
  BY <1>1, <1>3, <1>4, Phasings, MovesOn
<1>5. CASE execution' # execution
  <2>1. execution' = Ended(x, "FAILED") /\ phase[o] = "raise"
    BY <1>5 DEF EndReplay, FailReplay, Working
  <2>2. execution[x].status # "absent"
    BY <2>1 DEF Inv, InHandIsBound
  <2>3. Evolves
    BY <1>2, <2>1, <2>2, EndingKeeps DEF Over
  <2> QED BY <1>1, <1>3, <2>3, Phasings, EvolvingKeeps
<1> QED BY <1>4, <1>5

-----------------------------------------------------------------------------

LEMMA IntakeStep == Inv /\ [IntakeNext]_intakeVars => Inv'
<1> SUFFICES ASSUME Inv, [IntakeNext]_intakeVars PROVE Inv'
  OBVIOUS
<1>1. ASSUME NEW w \in Runners, Drive(w) PROVE Inv'
  BY <1>1, ReadRevisionKeeps, ProvisionKeeps, CheckoutKeeps, ScheduleKeeps DEF Drive
<1>2. ASSUME NEW c \in Pollers, ConsumerStep(c) PROVE Inv'
  <2>1. c \in Runners
    BY DEF Runners
  <2>2. CASE Poll(c) \/ TakeRow(c) \/ Check(c) \/ Retire(c, "complete") \/ Retire(c, "refuse")
    BY <2>2, PollKeeps, TakeRowKeeps, CheckKeeps, RetireKeeps
  <2>3. CASE CreateExecution(c) \/ Announce(c)
    BY <2>3, CreateKeeps, AnnounceKeeps
  <2>4. CASE Drive(c)
    BY <1>1, <2>1, <2>4
  <2> QED BY <1>2, <2>2, <2>3, <2>4 DEF ConsumerStep
<1>3. ASSUME NEW o \in Operators,
             \/ \E x \in Works : Replay(o, x)
             \/ StartReplay(o) \/ RefuseReplay(o) \/ EndReplay(o) \/ Drive(o)
      PROVE  Inv'
  <2>1. o \in Runners
    BY DEF Runners
  <2> QED BY <1>1, <1>3, <2>1, ReplayKeeps, StartReplayKeeps, RefuseReplayKeeps, EndReplayKeeps
<1>4. ASSUME NEW w \in Runners, IntakeMishap(w) PROVE Inv'
  BY <1>4, ProvisionKeeps, CheckoutKeeps, EndProcessKeeps, TransientKeeps DEF IntakeMishap
<1>5. ASSUME NEW e \in Events, Deliver(e, TRUE) \/ Deliver(e, FALSE) PROVE Inv'
  BY <1>5, DeliverKeeps
<1>6. CASE UNCHANGED intakeVars
  BY <1>6 DEF intakeVars, inbox, files, around, inHand, Inv, Shape, OwnWork, CompletesEnded, Dated,
              InHandIsBound, RetiredIsSettled, PinnedRevision, Terminated
<1> QED BY <1>2, <1>3, <1>4, <1>5, <1>6, WorldKeeps DEF IntakeNext

LEMMA IntakeAlways == IntakeSpec => []Inv
BY IntakeInitInv, IntakeStep, PTL DEF IntakeSpec

(* No row leaves the outbox without a recorded refusal or an execution of   *)
(* its Event that is over, for any number of consumers and deployments      *)
(* (DogfoodReconciliationConsumer.run_once).                                *)
THEOREM RetiredSettled == IntakeSpec => []RetiredIsSettled
BY IntakeAlways, PTL DEF Inv

(* An execution that has begun works on the revision its checkout is bound  *)
(* to, however the branch moves (_reconciliation_revision, _same_binding).  *)
THEOREM RevisionPinned == IntakeSpec => []PinnedRevision
BY IntakeAlways, PTL DEF Inv

-----------------------------------------------------------------------------
(* The lifecycle events.                                                   *)

\* What is on record of an execution, by its status.  A created execution may
\* be without its started event; a replay may have failed before it started.
Trail(replay, status, audit) ==
  IF replay
  THEN /\ status = "PENDING" => audit = {<<"created", 1>>}
       /\ status = "RUNNING" => audit = {<<"created", 1>>, <<"started", 2>>}
       /\ status \in Over => \/ audit = {<<"created", 1>>, <<"ended", 2>>}
                             \/ audit = {<<"created", 1>>, <<"started", 2>>, <<"ended", 3>>}
  ELSE /\ status # "PENDING"
       /\ status = "absent" => audit = {}
       /\ status = "RUNNING" => audit \subseteq {<<"started", 1>>}
       /\ status \in Over => audit = {<<"started", 1>>, <<"ended", 2>>}

Trails == \A x \in Works : Trail(IsReplay(x), execution[x].status, execution[x].audit)

Announcing == {"announce", "repair"}
Driving == {"clone", "switch", "schedule"}
Preparing == {"revision", "provision", "begin"}

\* A consumer drives no execution whose start is not on record.
StartedFirst ==
  \A c \in Pollers :
    /\ phase[c] \in Announcing => execution[work[c]].status # "absent"
    /\ phase[c] \in Driving => <<"started", 1>> \in execution[work[c]].audit

\* Nobody but its operator touches a replay.
ReplayWaits ==
  \A o \in Operators : phase[o] \in Preparing => execution[work[o]].status = "PENDING"

TrailInv == Trails /\ StartedFirst /\ ReplayWaits

LEMMA AuditStarts == IntakeInit => TrailInv
<1> SUFFICES ASSUME IntakeInit PROVE TrailInv
  OBVIOUS
<1>1. \A x \in Works : execution[x].status = "absent" /\ execution[x].audit = {}
  BY DEF IntakeInit, Unborn
<1>2. \A w \in Runners : phase[w] \in {"idle", "done"}
  BY DEF IntakeInit
<1> QED BY <1>1, <1>2 DEF TrailInv, Trails, Trail, Over, StartedFirst, ReplayWaits, Announcing,
                          Driving, Preparing, Runners

\* Whose execution is a replay.
LEMMA Whose ==
  ASSUME Inv
  PROVE  /\ \A c \in Pollers : phase[c] \notin {"idle", "next", "done"} =>
              work[c] \in Works /\ ~ IsReplay(work[c])
         /\ \A o \in Operators : phase[o] \notin {"idle", "done", "dead"} =>
              work[o] \in Works /\ IsReplay(work[o]) /\ work[o][2] = o
BY VersionsAreWorks, WorkersApart DEF Inv, OwnWork, IsReplay

\* A step that leaves the executions alone takes nobody where something is
\* claimed of them that was not before.
LEMMA AuditQuiet ==
  ASSUME Inv, TrailInv, execution' = execution,
         \A c \in Pollers : \A S \in {Announcing, Driving} :
           phase'[c] \in S => phase[c] \in S /\ work'[c] = work[c],
         \A o \in Operators :
           phase'[o] \in Preparing => phase[o] \in Preparing /\ work'[o] = work[o]
  PROVE  TrailInv'
<1>1. Trails'
  BY DEF TrailInv, Trails
<1>2. StartedFirst'
  BY DEF TrailInv, StartedFirst
<1>3. ReplayWaits'
  BY DEF TrailInv, ReplayWaits
<1> QED BY <1>1, <1>2, <1>3 DEF TrailInv

\* One worker moves on with what it has in hand.
LEMMA AuditMovesOn ==
  ASSUME Inv, TrailInv, NEW w \in Runners, NEW p \in Places, Proceed(w, p),
         execution' = execution, work' = work,
         w \in Pollers => \A S \in {Announcing, Driving} : p \in S => phase[w] \in S,
         w \in Operators => (p \in Preparing => phase[w] \in Preparing)
  PROVE  TrailInv'
<1>1. phase'[w] = p /\ \A v \in Runners \ {w} : phase'[v] = phase[v]
  BY DEF Inv, Shape, Proceed
<1> QED BY <1>1, AuditQuiet DEF Runners

\* A worker changes its execution and moves on.
LEMMA AuditChange ==
  ASSUME Inv, TrailInv, NEW w \in Runners, NEW p \in Places, Proceed(w, p), work' = work,
         NEW x \in Works, x = work[w], phase[w] \notin {"idle", "next", "done", "dead"},
         \A y \in Works \ {x} : execution'[y] = execution[y],
         Trail(IsReplay(x), execution'[x].status, execution'[x].audit),
         execution'[x].status # "absent", execution[x].audit \subseteq execution'[x].audit,
         w \in Pollers => (p \in Driving => <<"started", 1>> \in execution'[x].audit),
         p \notin Preparing
  PROVE  TrailInv'
<1>1. phase'[w] = p /\ \A v \in Runners \ {w} : phase'[v] = phase[v]
  BY DEF Inv, Shape, Proceed
<1>2. Trails'
  BY DEF TrailInv, Trails, IsReplay
<1>3. StartedFirst'
  <2> SUFFICES ASSUME NEW c \in Pollers, phase'[c] \in Announcing \cup Driving
               PROVE  /\ phase'[c] \in Announcing => execution'[work[c]].status # "absent"
                      /\ phase'[c] \in Driving => <<"started", 1>> \in execution'[work[c]].audit
    BY DEF StartedFirst
  <2>1. CASE c = w
    BY <1>1, <2>1
  <2>2. CASE c # w
    <3>1. phase[c] = phase'[c] /\ c \in Runners
      BY <1>1, <2>2 DEF Runners
    <3>2. work[c] \in Works
      BY <3>1, WorkIsOne DEF Announcing, Driving
    <3> QED BY <3>1, <3>2 DEF TrailInv, StartedFirst
  <2> QED BY <2>1, <2>2
<1>4. ReplayWaits'
  <2> SUFFICES ASSUME NEW o \in Operators, phase'[o] \in Preparing
               PROVE  execution'[work[o]].status = "PENDING"
    BY DEF ReplayWaits
  <2>1. o # w /\ o \in Runners
    BY <1>1 DEF Runners
  <2>2. phase[o] = phase'[o] /\ phase[o] \notin {"idle", "done", "dead"}
    BY <1>1, <2>1 DEF Preparing
  <2>3. work[o] \in Works /\ IsReplay(work[o]) /\ work[o][2] = o
    BY <2>2, Whose
  <2>4. work[o] # x
    BY <2>1, <2>3, Whose DEF Runners
  <2> QED BY <2>2, <2>3, <2>4 DEF TrailInv, ReplayWaits
<1> QED BY <1>2, <1>3, <1>4 DEF TrailInv

LEMMA EventAudit ==
  ASSUME Inv, NEW x \in Works, NEW type, NEW n
  PROVE  /\ Event(x, type, n)[x].audit = execution[x].audit \cup {<<type, n>>}
         /\ Event(x, type, n)[x].status = execution[x].status
         /\ \A y \in Works \ {x} : Event(x, type, n)[y] = execution[y]
<1>1. execution \in [Works -> Executions] /\ execution[x] \in Executions
  BY DEF Inv, Shape
<1>2. /\ [execution[x] EXCEPT !.audit = @ \cup {<<type, n>>}].audit =
           execution[x].audit \cup {<<type, n>>}
      /\ [execution[x] EXCEPT !.audit = @ \cup {<<type, n>>}].status = execution[x].status
  BY <1>1 DEF Executions
<1>3. Event(x, type, n) =
        [execution EXCEPT ![x] = [execution[x] EXCEPT !.audit = @ \cup {<<type, n>>}]]
  BY <1>1 DEF Event
<1> QED BY <1>1, <1>2, <1>3

\* An event together with the status it is for.
LEMMA EventAndStatus ==
  ASSUME Inv, NEW x \in Works, NEW type \in {"created", "started", "ended"}, NEW n \in Nat,
         NEW status \in {"RUNNING"} \cup Over,
         execution' = [Event(x, type, n) EXCEPT ![x].status = status]
  PROVE  /\ execution'[x].audit = execution[x].audit \cup {<<type, n>>}
         /\ execution'[x].status = status
         /\ \A y \in Works \ {x} : execution'[y] = execution[y]
<1>1. PICK f \in [Works -> Executions] : f = Event(x, type, n)
  BY EventFacts
<1>2. execution' = [f EXCEPT ![x].status = status]
  BY <1>1
<1>3. /\ execution'[x].status = status
      /\ \A y \in Works \ {x} : execution'[y] = f[y]
  BY <1>2, StatusFacts
<1>4. execution'[x].audit = f[x].audit
  <2>1. f[x] \in Executions
    OBVIOUS
  <2>2. execution'[x] = [f[x] EXCEPT !.status = status]
    BY <1>2
  <2> QED BY <2>1, <2>2 DEF Executions
<1> QED BY <1>1, <1>3, <1>4, EventAudit

\* The number of the next event, by what is on record.
LEMMA Numbering ==
  ASSUME NEW x
  PROVE  /\ ~ IsReplay(x) => NextNumber(x) = 2
         /\ execution[x].audit = {<<"created", 1>>} => NextNumber(x) = 2
         /\ IsReplay(x) /\ execution[x].audit = {<<"created", 1>>, <<"started", 2>>} =>
              NextNumber(x) = 3
<1>1. ~ IsReplay(x) => NextNumber(x) = 2
  BY DEF NextNumber
<1>2. ASSUME execution[x].audit = {<<"created", 1>>} PROVE NextNumber(x) = 2
  <2>1. \A n \in 1..3 : <<"started", n>> \notin execution[x].audit
    BY <1>2
  <2> QED BY <2>1 DEF NextNumber
<1>3. ASSUME IsReplay(x), execution[x].audit = {<<"created", 1>>, <<"started", 2>>}
      PROVE  NextNumber(x) = 3
  <2>1. 2 \in 1..3 /\ <<"started", 2>> \in execution[x].audit
    BY <1>3
  <2> QED BY <1>3, <2>1 DEF NextNumber
<1> QED BY <1>1, <1>2, <1>3

\* What ends an execution leaves a whole trail.
LEMMA EndingCompletes ==
  ASSUME Inv, TrailInv, NEW x \in Works, NEW status \in Over, execution' = Ended(x, status),
         execution[x].status \in {"PENDING", "RUNNING"},
         ~ IsReplay(x) => <<"started", 1>> \in execution[x].audit
  PROVE  /\ Trail(IsReplay(x), execution'[x].status, execution'[x].audit)
         /\ execution'[x].status = status /\ execution[x].audit \subseteq execution'[x].audit
         /\ \A y \in Works \ {x} : execution'[y] = execution[y]
<1> DEFINE n == NextNumber(x)
<1>1. n \in Nat
  BY DEF NextNumber
<1>2. execution' = [Event(x, "ended", n) EXCEPT ![x].status = status]
  BY DEF Ended
<1>3. Trail(IsReplay(x), execution[x].status, execution[x].audit)
  BY DEF TrailInv, Trails
<1> HIDE DEF n
<1>4. /\ execution'[x].audit = execution[x].audit \cup {<<"ended", n>>}
      /\ execution'[x].status = status
      /\ \A y \in Works \ {x} : execution'[y] = execution[y]
  BY <1>1, <1>2, EventAndStatus
<1>5. status \notin {"PENDING", "RUNNING", "absent"}
  BY DEF Over
<1>6. Trail(IsReplay(x), status, execution'[x].audit)
  <2>1. CASE ~ IsReplay(x)
    <3>1. execution[x].audit = {<<"started", 1>>} /\ n = 2
      BY <1>3, <2>1, Numbering DEF Trail, n
    <3> QED BY <1>4, <1>5, <2>1, <3>1 DEF Trail
  <2>2. CASE IsReplay(x) /\ execution[x].status = "PENDING"
    <3>1. execution[x].audit = {<<"created", 1>>} /\ n = 2
      BY <1>3, <2>2, Numbering DEF Trail, n
    <3> QED BY <1>4, <1>5, <2>2, <3>1 DEF Trail
  <2>3. CASE IsReplay(x) /\ execution[x].status = "RUNNING"
    <3>1. execution[x].audit = {<<"created", 1>>, <<"started", 2>>} /\ n = 3
      BY <1>3, <2>3, Numbering DEF Trail, n
    <3> QED BY <1>4, <1>5, <2>3, <3>1 DEF Trail
  <2> QED BY <2>1, <2>2, <2>3
<1> QED BY <1>4, <1>6

LEMMA CreateAudited ==
  ASSUME Inv, TrailInv, NEW c \in Pollers, CreateExecution(c)
  PROVE  TrailInv'
<1> DEFINE p == IF Terminated(work[c]) THEN "repair" ELSE "announce"
<1>1. c \in Runners /\ phase[c] = "begin" /\ work' = work
  BY DEF CreateExecution, Working, Runners, inHand
<1>2. PICK x \in Works : x = work[c] /\ ~ IsReplay(x)
  BY <1>1, Whose
<1>3. Proceed(c, p) /\ p \in Places /\ p \notin Preparing /\ p \notin Driving
  BY DEF CreateExecution, Places, Preparing, Driving
<1>4. Trail(IsReplay(x), execution[x].status, execution[x].audit)
  BY DEF TrailInv, Trails
<1>5. /\ \A y \in Works \ {x} : execution'[y] = execution[y]
      /\ Trail(IsReplay(x), execution'[x].status, execution'[x].audit)
      /\ execution'[x].status # "absent" /\ execution'[x].audit = execution[x].audit
  <2>1. CASE execution[x].status # "absent"
    BY <1>2, <1>4, <2>1 DEF CreateExecution
  <2>2. CASE execution[x].status = "absent"
    <3>1. execution' = [execution EXCEPT ![x].status = "RUNNING", ![x].revision = revision[c]]
      BY <1>2, <2>2 DEF CreateExecution
    <3>2. execution \in [Works -> Executions] /\ execution[x] \in Executions
      BY DEF Inv, Shape
    <3>3. /\ execution'[x] = [execution[x] EXCEPT !.status = "RUNNING", !.revision = revision[c]]
          /\ \A y \in Works \ {x} : execution'[y] = execution[y]
      BY <3>1, <3>2
    <3>4. execution'[x].status = "RUNNING" /\ execution'[x].audit = execution[x].audit
      BY <3>2, <3>3 DEF Executions
    <3>5. execution[x].audit = {}
      BY <1>2, <1>4, <2>2 DEF Trail
    <3> QED BY <1>2, <3>3, <3>4, <3>5 DEF Trail, Over
  <2> QED BY <2>1, <2>2
<1> HIDE DEF p
<1> QED BY <1>1, <1>2, <1>3, <1>5, AuditChange

LEMMA AnnounceAudited ==
  ASSUME Inv, TrailInv, NEW c \in Pollers, Announce(c)
  PROVE  TrailInv'
<1> DEFINE p == IF Working(c, "repair") THEN "check" ELSE "clone"
<1>1. c \in Runners /\ phase[c] \in Announcing /\ work' = work
  BY DEF Announce, Announcing, Runners, inHand
<1>2. PICK x \in Works : x = work[c] /\ ~ IsReplay(x)
  BY <1>1, Whose DEF Announcing
<1>3. Proceed(c, p) /\ p \in Places /\ p \notin Preparing
  BY DEF Announce, Places, Preparing
<1>4. Trail(IsReplay(x), execution[x].status, execution[x].audit)
      /\ execution[x].status # "absent"
  BY <1>1, <1>2 DEF TrailInv, Trails, StartedFirst
<1>5. execution' = Event(x, "started", 1)
  BY <1>2 DEF Announce, Announced
<1>6. /\ execution'[x].audit = execution[x].audit \cup {<<"started", 1>>}
      /\ execution'[x].status = execution[x].status
      /\ \A y \in Works \ {x} : execution'[y] = execution[y]
  BY <1>5, EventAudit
<1>7. Trail(IsReplay(x), execution'[x].status, execution'[x].audit)
  BY <1>2, <1>4, <1>6 DEF Trail
<1> HIDE DEF p
<1> QED BY <1>1, <1>2, <1>3, <1>4, <1>6, <1>7, AuditChange DEF Announcing

LEMMA ScheduleAudited ==
  ASSUME Inv, TrailInv, NEW w \in Runners, NEW result \in Over \cup {"in flight", "gate"},
         Schedule(w, result)
  PROVE  TrailInv'
<1>1. phase[w] = "schedule" /\ Proceed(w, "check") /\ work' = work
  BY DEF Schedule, Working, inHand
<1>2. "check" \in Places /\ "check" \notin Preparing \cup Announcing \cup Driving
  BY DEF Places, Preparing, Announcing, Driving
<1>3. PICK x \in Works : x = work[w]
  BY <1>1, WorkIsOne
<1>4. CASE execution' = execution
  BY <1>1, <1>2, <1>4, AuditMovesOn
<1>5. CASE execution' # execution
  <2>1. execution' = Ended(x, result) /\ result \in Over /\ execution[x].status = "RUNNING"
    BY <1>3, <1>5 DEF Schedule
  <2>2. ~ IsReplay(x) => <<"started", 1>> \in execution[x].audit
    BY <1>1, <1>3, Whose DEF TrailInv, StartedFirst, Driving, Runners
  <2>3. /\ Trail(IsReplay(x), execution'[x].status, execution'[x].audit)
        /\ execution'[x].status = result /\ execution[x].audit \subseteq execution'[x].audit
        /\ \A y \in Works \ {x} : execution'[y] = execution[y]
    BY <2>1, <2>2, EndingCompletes
  <2>4. execution'[x].status # "absent"
    BY <2>1, <2>3 DEF Over
  <2> QED BY <1>1, <1>2, <1>3, <2>3, <2>4, AuditChange
<1> QED BY <1>4, <1>5

LEMMA ReplayAudited ==
  ASSUME Inv, TrailInv, NEW o \in Operators, NEW x \in Works, Replay(o, x)
  PROVE  TrailInv'
<1> DEFINE y == <<x[1], o>>
           r == [status |-> "PENDING", audit |-> {<<"created", 1>>},
                 revision |-> execution[x].revision]
<1>1. o \in Runners /\ o \notin Pollers
  BY WorkersApart DEF Runners
<1>2. y \in Works /\ IsReplay(y) /\ y[2] = o
  BY DEF Works, IsReplay
<1>3. /\ execution'[y] = r /\ \A z \in Works \ {y} : execution'[z] = execution[z]
  BY <1>2 DEF Replay, Inv, Shape
<1>4. work'[o] = y /\ \A v \in Runners \ {o} : work'[v] = work[v]
  BY <1>1 DEF Replay, Inv, Shape
<1>5. \A v \in Runners \ {o} : phase'[v] = phase[v]
  BY <1>1 DEF Replay, Proceed, Inv, Shape
<1>6. r.status = "PENDING" /\ r.audit = {<<"created", 1>>}
  OBVIOUS
<1> HIDE DEF y, r
<1>7. Trails'
  <2>1. Trail(IsReplay(y), execution'[y].status, execution'[y].audit)
    BY <1>2, <1>3, <1>6 DEF Trail, Over
  <2> QED BY <1>3, <2>1 DEF TrailInv, Trails, IsReplay
<1>8. StartedFirst'
  <2> SUFFICES ASSUME NEW c \in Pollers, phase'[c] \in Announcing \cup Driving
               PROVE  /\ phase'[c] \in Announcing => execution'[work'[c]].status # "absent"
                      /\ phase'[c] \in Driving => <<"started", 1>> \in execution'[work'[c]].audit
    BY DEF StartedFirst
  <2>1. c # o /\ c \in Runners
    BY <1>1 DEF Runners
  <2>2. phase[c] = phase'[c] /\ work'[c] = work[c]
    BY <1>4, <1>5, <2>1
  <2>3. work[c] \in Works /\ ~ IsReplay(work[c])
    BY <2>2, Whose DEF Announcing, Driving
  <2>4. execution'[work[c]] = execution[work[c]]
    BY <1>2, <1>3, <2>3
  <2> QED BY <2>2, <2>4 DEF TrailInv, StartedFirst
<1>9. ReplayWaits'
  <2> SUFFICES ASSUME NEW q \in Operators, phase'[q] \in Preparing
               PROVE  execution'[work'[q]].status = "PENDING"
    BY DEF ReplayWaits
  <2>1. CASE q = o
    BY <1>3, <1>4, <1>6, <2>1
  <2>2. CASE q # o
    <3>1. phase[q] = phase'[q] /\ work'[q] = work[q]
      BY <1>4, <1>5, <2>2 DEF Runners
    <3>2. work[q] \in Works /\ work[q][2] = q
      BY <3>1, Whose DEF Preparing
    <3>3. execution'[work[q]] = execution[work[q]]
      BY <1>2, <1>3, <2>2, <3>2
    <3> QED BY <3>1, <3>3 DEF TrailInv, ReplayWaits
  <2> QED BY <2>1, <2>2
<1> QED BY <1>7, <1>8, <1>9 DEF TrailInv

LEMMA StartReplayAudited ==
  ASSUME Inv, TrailInv, NEW o \in Operators, StartReplay(o)
  PROVE  TrailInv'
<1>1. o \in Runners /\ o \notin Pollers /\ phase[o] = "begin" /\ work' = work
  BY WorkersApart DEF StartReplay, Working, Runners, inHand
<1>2. PICK x \in Works : x = work[o] /\ IsReplay(x)
  BY <1>1, Whose
<1>3. Proceed(o, "clone") /\ "clone" \in Places /\ "clone" \notin Preparing
  BY DEF StartReplay, Places, Preparing
<1>4. execution[x].status = "PENDING"
  BY <1>1, <1>2 DEF TrailInv, ReplayWaits, Preparing
<1>5. execution[x].audit = {<<"created", 1>>}
  BY <1>2, <1>4 DEF TrailInv, Trails, Trail
<1>6. execution' = [Event(x, "started", 2) EXCEPT ![x].status = "RUNNING"]
  BY <1>2, <1>5, Numbering DEF StartReplay
<1>7. /\ execution'[x].audit = execution[x].audit \cup {<<"started", 2>>}
      /\ execution'[x].status = "RUNNING"
      /\ \A y \in Works \ {x} : execution'[y] = execution[y]
  BY <1>6, EventAndStatus
<1>8. Trail(IsReplay(x), execution'[x].status, execution'[x].audit)
  BY <1>2, <1>5, <1>7 DEF Trail, Over
<1> QED BY <1>1, <1>2, <1>3, <1>7, <1>8, AuditChange

LEMMA EndReplayAudited ==
  ASSUME Inv, TrailInv, NEW o \in Operators, EndReplay(o)
  PROVE  TrailInv'
<1>1. o \in Runners /\ o \notin Pollers /\ phase[o] \in {"raise", "check"} /\ work' = work
  BY WorkersApart DEF EndReplay, Runners, inHand
<1>2. PICK x \in Works : x = work[o] /\ IsReplay(x)
  BY <1>1, Whose
<1>3. Proceed(o, "done") /\ "done" \in Places /\ "done" \notin Preparing
  BY DEF EndReplay, Places, Preparing
<1>4. CASE execution' = execution
  BY <1>1, <1>3, <1>4, AuditMovesOn
<1>5. CASE execution' # execution
  <2>1. execution' = Ended(x, "FAILED") /\ ~ Terminated(x)
    BY <1>2, <1>5 DEF EndReplay, FailReplay
  <2>2. execution[x].status \in {"PENDING", "RUNNING"}
    BY <1>1, <1>2, <2>1 DEF Inv, InHandIsBound, Shape, Executions, Terminated
  <2>3. "FAILED" \in Over
    BY DEF Over
  <2>4. /\ Trail(IsReplay(x), execution'[x].status, execution'[x].audit)
        /\ execution'[x].status = "FAILED" /\ execution[x].audit \subseteq execution'[x].audit
        /\ \A y \in Works \ {x} : execution'[y] = execution[y]
    BY <1>2, <2>1, <2>2, <2>3, EndingCompletes
  <2> QED BY <1>1, <1>2, <1>3, <2>4, AuditChange
<1> QED BY <1>4, <1>5

\* A worker that reads its revision, provisions, or clones moves on along the
\* same part of its way, or leaves it.
LEMMA DriveAudited ==
  ASSUME Inv, TrailInv, NEW w \in Runners,
         \/ ReadRevision(w) \/ ProvisionWorkspace(w) \/ ProvisionFails(w)
         \/ Clone(w) \/ CloneFails(w) \/ Switch(w)
  PROVE  TrailInv'
<1>1. execution' = execution /\ work' = work
  BY DEF ReadRevision, ProvisionWorkspace, ProvisionFails, Clone, CloneFails, Switch, inHand
<1>2. \/ \E p \in {"raise", "refuse", "next", "check"} : Proceed(w, p)
      \/ /\ phase[w] \in Preparing
         /\ \E p \in {"provision", "begin"} : Proceed(w, p)
      \/ /\ phase[w] \in Driving
         /\ \E p \in {"switch", "schedule"} : Proceed(w, p)
  <2>1. CASE ReadRevision(w)
    BY <2>1 DEF ReadRevision, Working, Preparing
  <2>2. CASE ProvisionWorkspace(w) \/ ProvisionFails(w)
    BY <2>2 DEF ProvisionWorkspace, ProvisionFails, Working, Preparing, Raise
  <2>3. CASE Clone(w) \/ CloneFails(w) \/ Switch(w)
    BY <2>3 DEF Clone, CloneFails, Switch, Working, Driving, Raise
  <2> QED BY <2>1, <2>2, <2>3
<1>3. PICK p \in Places : /\ Proceed(w, p)
                          /\ p \in Preparing => phase[w] \in Preparing
                          /\ p \in Driving => phase[w] \in Driving
                          /\ p \notin Announcing
  BY <1>2 DEF Places, Preparing, Driving, Announcing
<1> QED BY <1>1, <1>3, AuditMovesOn

LEMMA LeavingAudited ==
  ASSUME Inv, TrailInv, NEW w \in Runners,
         \/ EndProcess(w) \/ (w \in Operators /\ RefuseReplay(w))
         \/ w \in Pollers /\ (Poll(w) \/ Check(w) \/ Retire(w, "complete") \/ Retire(w, "refuse"))
         \/ \E p \in {"revision", "begin", "announce", "switch", "schedule"} : Transient(w, p)
  PROVE  TrailInv'
<1>1. execution' = execution /\ work' = work
  BY DEF EndProcess, RefuseReplay, Poll, Check, Retire, Transient, inHand
<1>2. \E p \in {"raise", "refuse", "next", "dead", "idle", "complete"} : Proceed(w, p)
  BY DEF EndProcess, RefuseReplay, Poll, Check, Retire, Transient, Raise
<1>3. PICK p \in Places : Proceed(w, p) /\ p \notin Preparing \cup Driving \cup Announcing
  BY <1>2 DEF Places, Preparing, Driving, Announcing
<1> QED BY <1>1, <1>3, AuditMovesOn

LEMMA TakeRowAudited ==
  ASSUME Inv, TrailInv, NEW c \in Pollers, TakeRow(c)
  PROVE  TrailInv'
<1>1. c \in Runners /\ c \notin Operators /\ execution' = execution
  BY WorkersApart DEF TakeRow, Runners
<1>2. \A v \in Runners \ {c} : work'[v] = work[v]
  BY <1>1 DEF TakeRow, Inv, Shape
<1>3. \E p \in {"idle", "revision", "refuse"} : Proceed(c, p)
  BY DEF TakeRow
<1>4. /\ phase'[c] \in {"idle", "revision", "refuse"}
      /\ \A v \in Runners \ {c} : phase'[v] = phase[v]
  BY <1>1, <1>3 DEF Proceed, Inv, Shape
<1>5. phase'[c] \notin Announcing \cup Driving
  BY <1>4 DEF Announcing, Driving
<1> QED BY <1>1, <1>2, <1>4, <1>5, AuditQuiet DEF Runners

LEMMA TrailStep == Inv /\ TrailInv /\ [IntakeNext]_intakeVars => TrailInv'
<1> SUFFICES ASSUME Inv, TrailInv, [IntakeNext]_intakeVars PROVE TrailInv'
  OBVIOUS
<1>1. ASSUME NEW w \in Runners, Drive(w) PROVE TrailInv'
  BY <1>1, DriveAudited, ScheduleAudited DEF Drive
<1>2. ASSUME NEW c \in Pollers, ConsumerStep(c) PROVE TrailInv'
  <2>1. c \in Runners
    BY DEF Runners
  <2>2. CASE Poll(c) \/ Check(c) \/ Retire(c, "complete") \/ Retire(c, "refuse")
    BY <2>1, <2>2, LeavingAudited
  <2>3. CASE TakeRow(c) \/ CreateExecution(c) \/ Announce(c)
    BY <2>3, TakeRowAudited, CreateAudited, AnnounceAudited
  <2>4. CASE Drive(c)
    BY <1>1, <2>1, <2>4
  <2> QED BY <1>2, <2>2, <2>3, <2>4 DEF ConsumerStep
<1>3. ASSUME NEW o \in Operators,
             \/ \E x \in Works : Replay(o, x)
             \/ StartReplay(o) \/ RefuseReplay(o) \/ EndReplay(o) \/ Drive(o)
      PROVE  TrailInv'
  <2>1. o \in Runners
    BY DEF Runners
  <2> QED BY <1>1, <1>3, <2>1, ReplayAudited, StartReplayAudited, LeavingAudited, EndReplayAudited
<1>4. ASSUME NEW w \in Runners, IntakeMishap(w) PROVE TrailInv'
  BY <1>4, DriveAudited, LeavingAudited DEF IntakeMishap
<1>5. CASE UNCHANGED <<execution, phase, work>>
  BY <1>5, AuditQuiet
<1>6. ASSUME NEW e \in Events, Deliver(e, TRUE) \/ Deliver(e, FALSE) PROVE TrailInv'
  BY <1>5, <1>6 DEF Deliver, inHand
<1>7. CASE MoveBranch \/ Deploy \/ (\E x \in Works : Resolve(x)) \/ UNCHANGED intakeVars
  BY <1>5, <1>7 DEF MoveBranch, Deploy, Resolve, intakeVars, inHand
<1> QED BY <1>2, <1>3, <1>4, <1>6, <1>7 DEF IntakeNext

LEMMA AuditAlways == IntakeSpec => []TrailInv
<1>1. IntakeSpec => []Inv
  BY IntakeAlways
<1> QED BY <1>1, AuditStarts, TrailStep, PTL DEF IntakeSpec

\* A trail that is over is numbered from one to its length.
LEMMA TrailsNumbered == TrailInv => AuditIsNumbered
<1> SUFFICES ASSUME TrailInv, NEW x \in Works, Terminated(x)
             PROVE  {event[2] : event \in execution[x].audit} = 1..Cardinality(execution[x].audit)
  BY DEF AuditIsNumbered
<1> DEFINE audit == execution[x].audit
<1>1. \E a, b \in {"created", "started", "ended"} :
        \/ a # b /\ audit = {<<a, 1>>, <<b, 2>>}
        \/ \E c \in {"created", "started", "ended"} : audit = {<<a, 1>>, <<b, 2>>, <<c, 3>>}
  <2>1. Trail(IsReplay(x), execution[x].status, audit) /\ execution[x].status \in Over
    BY DEF TrailInv, Trails, Terminated
  <2> QED BY <2>1 DEF Trail
<1> HIDE DEF audit
<1>2. ASSUME NEW S, IsFiniteSet(S), NEW s, s \notin S
      PROVE  IsFiniteSet(S \cup {s}) /\ Cardinality(S \cup {s}) = Cardinality(S) + 1
  BY <1>2, FS_AddElement
<1>3. ASSUME NEW a, NEW b
      PROVE  IsFiniteSet({<<a, 1>>, <<b, 2>>}) /\ Cardinality({<<a, 1>>, <<b, 2>>}) = 2
  <2>1. PICK S : S = {<<a, 1>>}
    OBVIOUS
  <2>2. PICK s : s = <<b, 2>>
    OBVIOUS
  <2>3. IsFiniteSet(S) /\ Cardinality(S) = 1
    BY <2>1, FS_Singleton
  <2>4. s \notin S /\ {<<a, 1>>, <<b, 2>>} = S \cup {s}
    BY <2>1, <2>2
  <2> QED BY <1>2, <2>3, <2>4
<1>4. ASSUME NEW a, NEW b, audit = {<<a, 1>>, <<b, 2>>}
      PROVE  {event[2] : event \in audit} = 1..Cardinality(audit)
  <2>1. Cardinality(audit) = 2
    BY <1>3, <1>4
  <2>2. {event[2] : event \in audit} = {1, 2}
    BY <1>4
  <2> QED BY <2>1, <2>2
<1>5. ASSUME NEW a, NEW b, NEW c PROVE Cardinality({<<a, 1>>, <<b, 2>>, <<c, 3>>}) = 3
  <2>1. PICK S : S = {<<a, 1>>, <<b, 2>>}
    OBVIOUS
  <2>2. PICK s : s = <<c, 3>>
    OBVIOUS
  <2>3. s \notin S /\ {<<a, 1>>, <<b, 2>>, <<c, 3>>} = S \cup {s}
    BY <2>1, <2>2
  <2>4. IsFiniteSet(S) /\ Cardinality(S) = 2
    BY <1>3, <2>1
  <2>5. Cardinality(S \cup {s}) = Cardinality(S) + 1
    BY <1>2, <2>3, <2>4
  <2> QED BY <2>3, <2>4, <2>5
<1>6. ASSUME NEW a, NEW b, NEW c, audit = {<<a, 1>>, <<b, 2>>, <<c, 3>>}
      PROVE  {event[2] : event \in audit} = 1..Cardinality(audit)
  <2>1. Cardinality(audit) = 3
    BY <1>5, <1>6
  <2>2. {event[2] : event \in audit} = {1, 2, 3}
    BY <1>6
  <2> QED BY <2>1, <2>2
<1> QED BY <1>1, <1>4, <1>6 DEF audit

(* Whatever crashes lie between an execution and its events, and whether a  *)
(* replay fails before its start or after, the events of an execution that  *)
(* is over bear the numbers one, two, and so on, each once                  *)
(* (WorkflowExecutionCreator.create, _commit_workflow_transition,           *)
(* _fail_replay).                                                           *)
THEOREM AuditNumbered == IntakeSpec => []AuditIsNumbered
BY AuditAlways, TrailsNumbered, PTL

-----------------------------------------------------------------------------
(* Intake and scheduler, side by side.                                     *)

\* In MCDeliveries the intake of Events and the scheduling of an execution
\* behave as in their own specifications: the consumer of
\* dogfood_reconciliation_consumer.py writes the row of an Event and nothing
\* that the reconciler of its execution keeps.
THEOREM DeliveriesAreParts == DeliveriesSpec => Spec /\ IntakeSpec
<1>1. DeliveriesInit => Init /\ IntakeInit
  BY DEF DeliveriesInit
<1>2. [DeliveriesNext]_deliveriesVars => [Next]_vars /\ [IntakeNext]_intakeVars
  BY DEF DeliveriesNext, SchedulerMoves, IntakeMoves, deliveriesVars
<1>3. DeliveriesSpec => /\ DeliveriesInit /\ [][DeliveriesNext]_deliveriesVars
                        /\ IntakeFairness
  BY PTL DEF DeliveriesSpec
<1> QED
  BY <1>1, <1>2, <1>3, PTL DEF Spec, IntakeSpec

\* What the intake and the scheduler promise for any plan holds of both at
\* once, through crashes, redeployments and a branch that moves.
THEOREM DeliveriesKeepPromises ==
  DeliveriesSpec =>
    /\ []RetiredIsSettled /\ []PinnedRevision /\ []AuditIsNumbered
    /\ []TypeOK /\ []ExecutorOwnsAttempt /\ []AtMostOncePerWake /\ []ReportKept
    /\ []PendingApprovalIsAwaited /\ RejectionIsFinal /\ ImplementsTaskAttempts
BY DeliveriesAreParts, RetiredSettled, RevisionPinned, AuditNumbered, TypeCorrect,
   ExecutorOwnership, AtMostOnce, ReportsKept, ApprovalsAwaited, RejectedStaysRejected,
   Implementation

\* In particular, where a task has one gate, an approval is spent on one run
\* (MCDeliveries checks it beside the intake).
THEOREM DeliveriesSpendOnce ==
  ASSUME \A t \in Tasks : Gates[t] <= 1
  PROVE  DeliveriesSpec => []OneRunPerApproval
BY DeliveriesAreParts, OneGateOneRun
=============================================================================
