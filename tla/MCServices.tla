------------------------------ MODULE MCServices ------------------------------
(***************************************************************************)
(* The parts around the scheduler, checked side by side.  They share no    *)
(* state that their models keep, so that interleaving them would only      *)
(* multiply the states: in each behaviour one part moves, its scene, and   *)
(* the others stay as they were.                                           *)
(***************************************************************************)
EXTENDS MCBudget, PatchApplication, EvidenceChain, DockerValidation,
        PullRequestPublication, ModelAdmission

CONSTANT Scenes  \* the parts that are checked

VARIABLE scene

\* The policies of a publication: everything is allowed, a person has to
\* approve, or the push is denied.
AllowAll == [g \in Gates |-> "ALLOW"]
MCPolicies == {AllowAll,
               [AllowAll EXCEPT !["publication"] = "REQUIRE_APPROVAL",
                                !["github.create_pr"] = "REQUIRE_APPROVAL"],
               [AllowAll EXCEPT !["git.push"] = "DENY"]}

ServicesInit ==
  /\ scene \in Scenes
  /\ Init /\ PatchInit /\ EvidenceInit /\ DockerInit /\ PublicationInit /\ AdmissionInit
  \* A part that does not move starts in one state only.
  /\ scene # "budget" => resources = Everywhere
  /\ scene # "publication" => verdict = AllowAll /\ evidence = "accepted"

servicesVars == <<vars, patchVars, evidenceVars, dockerVars, publicationVars, admissionVars,
                  scene>>

BudgetMoves ==
  /\ scene = "budget" /\ Next
  /\ UNCHANGED <<patchVars, evidenceVars, dockerVars, publicationVars, admissionVars>>
PatchMoves ==
  /\ scene = "patch" /\ PatchNext
  /\ UNCHANGED <<vars, evidenceVars, dockerVars, publicationVars, admissionVars>>
EvidenceMoves ==
  /\ scene = "evidence" /\ EvidenceNext
  /\ UNCHANGED <<vars, patchVars, dockerVars, publicationVars, admissionVars>>
DockerMoves ==
  /\ scene = "docker" /\ DockerNext
  /\ UNCHANGED <<vars, patchVars, evidenceVars, publicationVars, admissionVars>>
PublicationMoves ==
  /\ scene = "publication" /\ PublicationNext
  /\ UNCHANGED <<vars, patchVars, evidenceVars, dockerVars, admissionVars>>
AdmissionMoves ==
  /\ scene = "admission" /\ AdmissionNext
  /\ UNCHANGED <<vars, patchVars, evidenceVars, dockerVars, publicationVars>>

ServicesNext ==
  /\ \/ BudgetMoves \/ PatchMoves \/ EvidenceMoves \/ DockerMoves \/ PublicationMoves
     \/ AdmissionMoves
  /\ UNCHANGED scene

ServicesSpec == ServicesInit /\ [][ServicesNext]_servicesVars

\* One type invariant of all parts (the constructors of their records): the part
\* that moves keeps to its types, and the others do not change.
ServicesTypeOK ==
  /\ scene = "patch" => PatchTypeOK
  /\ scene = "evidence" => EvidenceTypeOK
  /\ scene = "docker" => DockerTypeOK
  /\ scene = "publication" => PublicationTypeOK
  /\ scene = "admission" => AdmissionTypeOK
=============================================================================
