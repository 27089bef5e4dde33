------------------------------- MODULE MCRetries -------------------------------
(***************************************************************************)
(* What is tried again until it is done, under claims or fences that a     *)
(* dead process leaves behind: the provisioning of checkouts, and the      *)
(* calls of the durable store.  They have files of their own, so that the  *)
(* two are checked side by side: in each behaviour one of them moves, its  *)
(* scene, and the other stays as it was.                                   *)
(***************************************************************************)
EXTENDS MCCheckpoint, CheckoutManager

CONSTANT Scenes  \* the parts that are checked

VARIABLE scene

retriesVars == <<vars, checkoutVars, scene>>

RetriesInit == scene \in Scenes /\ Init /\ CheckoutInit

CheckpointMoves == scene = "checkpoint" /\ Next /\ UNCHANGED <<checkoutVars, scene>>
CheckoutMoves == scene = "checkout" /\ CheckoutNext /\ UNCHANGED <<vars, scene>>

RetriesNext == CheckpointMoves \/ CheckoutMoves

\* FairSpec and FairCheckoutSpec, each in its scene.
RetriesSpec ==
  /\ RetriesInit /\ [][RetriesNext]_retriesVars
  /\ \A p \in Procs : /\ WF_vars(scene = "checkpoint" /\ Step(p))
                      /\ SF_vars(scene = "checkpoint" /\ AcquireFence(p))
  /\ \A w \in Workers : WF_checkoutVars(scene = "checkout" /\ WorkerStep(w))
  /\ \A w \in Workers, e \in Executions :
       SF_checkoutVars(scene = "checkout" /\ Request(w, e))
  /\ \A e \in Executions : WF_checkoutVars(Expire(e))
  /\ WF_checkoutVars(ExpireCache)

\* EventuallyReady and CallsReturn, of the scenes they are about.
CheckoutsGetReady == scene = "checkout" => EventuallyReady
CheckpointCallsReturn == scene = "checkpoint" => CallsReturn
=============================================================================
