------------------------------ MODULE AtomicStore ------------------------------
(***************************************************************************)
(* What the runtime store promises its callers: a call takes effect in one *)
(* step or not at all, the answer tells which, and what it acknowledged    *)
(* survives a power loss.                                                  *)
(*                                                                         *)
(* A mutation is a call that changes the store.  Of two mutations with the *)
(* same key (claims of one key, transitions of one record) only one can    *)
(* take effect.                                                            *)
(***************************************************************************)

CONSTANTS Mutations, Key

VARIABLES
  contents,   \* SUBSET Mutations, what has taken effect
  answer      \* [Mutations -> Answers]

Answers == {"none", "ok", "refused", "failed", "unsure"}

Contradicts(m, c) == \E n \in c : n # m /\ Key[n] = Key[m]

svars == <<contents, answer>>

Init ==
  /\ contents = {}
  /\ answer = [m \in Mutations |-> "none"]

Apply(m) ==
  /\ answer[m] = "none"
  /\ ~ Contradicts(m, contents)
  /\ contents' = contents \cup {m}
  /\ UNCHANGED answer

\* "ok": it took effect; "refused": another one had; "failed": it did not take
\* effect and never will.  "unsure" promises nothing.
Justified(m, a) ==
  CASE a = "ok" -> m \in contents
    [] a = "refused" -> m \notin contents /\ Contradicts(m, contents)
    [] a = "failed" -> m \notin contents
    [] OTHER -> TRUE

Reply(m) ==
  /\ answer[m] = "none"
  /\ \E a \in Answers \ {"none"} :
       /\ Justified(m, a)
       /\ answer' = [answer EXCEPT ![m] = a]
  /\ UNCHANGED contents

\* A power loss ends the calls under way and undoes only what nobody was
\* told had taken effect.
PowerLoss ==
  /\ \E c \in SUBSET contents :
       /\ {m \in contents : answer[m] = "ok"} \subseteq c
       /\ contents' = c
  /\ \E lost \in SUBSET {m \in Mutations : answer[m] = "none"} :
       answer' = [m \in Mutations |-> IF m \in lost THEN "unsure" ELSE answer[m]]

Next == PowerLoss \/ \E m \in Mutations : Apply(m) \/ Reply(m)

Spec == Init /\ [][Next]_svars
=============================================================================
