----------------------------- MODULE GatedRelease -----------------------------
(***************************************************************************)
(* What a workflow promises about the one thing it makes public, with no   *)
(* store, no calls, no deaths and no ambiguous answers in sight.           *)
(*                                                                         *)
(* The accepted change goes out in three steps, a commit, a pushed branch  *)
(* and a pull request, in this order, none of which is taken back and the  *)
(* last of which is taken once; each is authorized by an attempt that has  *)
(* passed the gates before it.  Attempts follow each other: one is open at *)
(* a time, the next one exists because the one before it failed            *)
(* recoverably, and one that succeeded had described the pull request,     *)
(* with every gate passed in its own right.                                *)
(***************************************************************************)
EXTENDS Naturals

CONSTANTS
  Tries,      \* 1 .. n
  Gates,      \* the decisions that a publication needs
  Early       \* those that it needs before anything leaves the working tree

VARIABLES
  accepted,   \* whether the acceptance of the change holds
  passed,     \* [Tries -> SUBSET Gates], what each attempt is allowed
  public,     \* "nothing", "committed" or "pushed"
  pulls,      \* pull requests ever opened
  described,  \* the attempts whose description is published
  result      \* [Tries -> Results]

Final == {"RECOVERABLE", "SUCCEEDED", "FAILED"}
Results == Final \cup {"absent", "open"}

rvars == <<accepted, passed, public, pulls, described, result>>

Init ==
  /\ accepted \in BOOLEAN
  /\ passed \in [Tries -> SUBSET Gates]
  /\ public = "nothing" /\ pulls = 0 /\ described = {}
  /\ result = [a \in Tries |-> IF a = 1 THEN "open" ELSE "absent"]

\* A policy or a person allows attempt a one more thing, for good.
Pass(a, g) ==
  /\ passed' = [passed EXCEPT ![a] = @ \cup {g}]
  /\ UNCHANGED <<accepted, public, pulls, described, result>>

\* Some attempt of an accepted change has passed these gates.
Authorized(gates) == accepted /\ \E a \in Tries : gates \subseteq passed[a]

Commit ==
  /\ public = "nothing" /\ Authorized(Early)
  /\ public' = "committed"
  /\ UNCHANGED <<accepted, passed, pulls, described, result>>

Push ==
  /\ public = "committed" /\ Authorized(Early)
  /\ public' = "pushed"
  /\ UNCHANGED <<accepted, passed, pulls, described, result>>

OpenPull ==
  /\ public = "pushed" /\ pulls = 0 /\ Authorized(Gates)
  /\ pulls' = 1
  /\ UNCHANGED <<accepted, passed, public, described, result>>

\* The description names the pull request, whoever opened it.
Describe(a) ==
  /\ pulls = 1 /\ accepted /\ passed[a] = Gates
  /\ described' = described \cup {a}
  /\ UNCHANGED <<accepted, passed, public, pulls, result>>

\* An attempt ends, and a recoverable failure makes room for the next one.
End(a, r) ==
  /\ result[a] = "open"
  /\ r = "SUCCEEDED" => a \in described
  /\ result' = [b \in Tries |-> IF b = a THEN r
                                ELSE IF b = a + 1 /\ r = "RECOVERABLE" THEN "open"
                                ELSE result[b]]
  /\ UNCHANGED <<accepted, passed, public, pulls, described>>

Next ==
  \/ \E a \in Tries, g \in Gates : Pass(a, g)
  \/ Commit \/ Push \/ OpenPull
  \/ \E a \in Tries : Describe(a)
  \/ \E a \in Tries, r \in Final : End(a, r)

Spec == Init /\ [][Next]_rvars
=============================================================================
