------------------------ MODULE ExecutionBudgetProofs ------------------------
(* Theorems about ExecutionBudget: what is granted fits every limit, usage   *)
(* beyond a limit is marked, spend that nobody knows stops the scope, the    *)
(* ledgers balance, and what was sent and spent keeps to the limits.         *)
EXTENDS ExecutionBudget, FiniteSetTheorems, TLAPS

-----------------------------------------------------------------------------
(* Arithmetic.                                                             *)

LEMMA Division ==
  ASSUME NEW x \in Int, NEW y \in Nat \ {0}
  PROVE  /\ x \div y \in Int
         /\ (x \div y) * y <= x
         /\ x \in Nat => x \div y \in Nat
         /\ y <= x => x \div y >= 1
<1>1. x \div y \in Int BY SMT
<1>2. (x \div y) * y <= x BY SMT
<1>3. x \in Nat => x \div y \in Nat BY SMT
<1>4. y <= x => x \div y >= 1 BY SMT
<1> QED BY <1>1, <1>2, <1>3, <1>4

LEMMA Product == \A x, y \in Nat : x * y \in Nat
BY SMT

LEMMA ProductMonotone == \A x, y, z \in Nat : x <= y => x * z <= y * z
BY SMT

LEMMA LeastOfThree ==
  ASSUME NEW a \in Int, NEW b \in Int, NEW c \in Int,
         NEW S, S \subseteq {a, b, c}, S # {}
  PROVE  \E x \in S : \A y \in S : x <= y
<1>1. CASE a \in S /\ (b \in S => a <= b) /\ (c \in S => a <= c)
  BY <1>1
<1>2. CASE b \in S /\ (a \in S => b <= a) /\ (c \in S => b <= c)
  BY <1>2
<1>3. CASE c \in S /\ (a \in S => c <= a) /\ (b \in S => c <= b)
  BY <1>3
<1>4. a \in S \/ b \in S \/ c \in S
  OBVIOUS
<1> QED BY <1>1, <1>2, <1>3, <1>4

-----------------------------------------------------------------------------
(* The limits.                                                             *)

\* The more restrictive of two budgets is a budget.
LEMMA MostRestrictiveIsBudget ==
  ASSUME NEW a, NEW b, IsBudget(a), IsBudget(b)
  PROVE  IsBudget(MostRestrictive(a, b))
BY DEF IsBudget, MostRestrictive, Smaller

LEMMA LimitIsBudget ==
  ASSUME resources \in Setups, NEW s \in Scopes
  PROVE  IsBudget(Limit(s))
<1>1. IsSetup(resources)
  BY BudgetAssumption
<1>2. IsBudget(MostRestrictive(resources.workflow, resources.override))
  BY <1>1, MostRestrictiveIsBudget DEF IsSetup
<1>3. CASE s = "workflow"
  BY <1>2, <1>3 DEF Limit
<1>4. CASE s # "workflow" /\ s \in Tasks
  <2>1. IsBudget(resources.task[s])
    BY <1>1, <1>4 DEF IsSetup
  <2> QED BY <1>2, <1>4, <2>1, MostRestrictiveIsBudget DEF Limit
<1>5. CASE s # "workflow" /\ s \notin Tasks
  <2>1. IsBudget(resources.agent[s])
    BY <1>1, <1>5 DEF IsSetup, Scopes
  <2> QED BY <1>2, <1>5, <2>1, MostRestrictiveIsBudget DEF Limit
<1> QED BY <1>3, <1>4, <1>5

LEMMA LimitType ==
  ASSUME resources \in Setups, NEW s \in Scopes, NEW d \in DOMAIN Limit(s)
  PROVE  Limit(s)[d] \in Nat \ {0}
BY LimitIsBudget DEF IsBudget

LEMMA ScopesOfType ==
  ASSUME NEW i \in Invocations
  PROVE  ScopesOf(i) \subseteq Scopes
BY BudgetAssumption DEF ScopesOf, Scopes

\* The types of the ledgers, which the lemmas about a grant use.
LedgersOK ==
  /\ resources \in Setups
  /\ used \in [Scopes -> Amounts] /\ held \in [Scopes -> Amounts]

LEMMA ModelType ==
  ASSUME resources \in Setups
  PROVE  /\ TokenLimit \in Nat /\ MaxAttempts \in Nat \ {0} /\ Priced \in BOOLEAN
         /\ InputPrice \in Nat /\ OutputPrice \in Nat
BY BudgetAssumption DEF IsSetup, TokenLimit, MaxAttempts, Priced, InputPrice, OutputPrice

LEMMA CommittedType ==
  ASSUME LedgersOK, NEW s \in Scopes, NEW d \in Dimensions
  PROVE  Committed(s, d) \in Nat
BY DEF LedgersOK, Committed, Amounts

LEMMA AttemptCostType ==
  ASSUME LedgersOK, NEW e \in Nat, NEW cap \in Nat
  PROVE  AttemptCost(e, cap) \in Nat
<1>1. e * InputPrice \in Nat
  BY ModelType, Product DEF LedgersOK
<1>2. Larger(1, cap) \in Nat
  BY DEF Larger
<1>3. Larger(1, cap) * OutputPrice \in Nat
  BY <1>2, ModelType, Product DEF LedgersOK
<1> QED BY <1>1, <1>3 DEF AttemptCost

\* The room of a dimension is that of one of the scopes, and the least.
LEMMA RoomIsLeast ==
  ASSUME LedgersOK, NEW i \in Invocations, NEW d \in Dimensions, Bounded(i, d)
  PROVE  /\ Room(i, d) \in Int
         /\ \A s \in Bounding(i, d) : Room(i, d) <= Limit(s)[d] - Committed(s, d)
         /\ \E s \in Bounding(i, d) : Room(i, d) = Limit(s)[d] - Committed(s, d)
<1> DEFINE left(s) == Limit(s)[d] - Committed(s, d)
<1> DEFINE S == {left(s) : s \in Bounding(i, d)}
<1>1. \A s \in Bounding(i, d) : left(s) \in Int
  BY LimitType, CommittedType, ScopesOfType DEF Bounding, LedgersOK
<1>2. \E x \in S : \A y \in S : x <= y
  <2> DEFINE at(s) == IF s \in Bounding(i, d) THEN left(s) ELSE 0
  <2>1. /\ at("workflow") \in Int /\ at(TaskOf[i]) \in Int /\ at(AgentOf[i]) \in Int
    BY <1>1
  <2>2. S \subseteq {at("workflow"), at(TaskOf[i]), at(AgentOf[i])}
    BY DEF Bounding, ScopesOf
  <2>3. S # {}
    BY DEF Bounded
  <2> HIDE DEF S, at
  <2> QED BY <2>1, <2>2, <2>3, LeastOfThree
<1>3. Room(i, d) = Min(S)
  BY DEF Room
<1>4. Min(S) \in S /\ \A y \in S : Min(S) <= y
  <2> HIDE DEF S
  <2> QED BY <1>2 DEF Min
<1> QED BY <1>1, <1>3, <1>4

\* Where a scope admits, there is room for the least that an attempt takes.
LEMMA RoomForOne ==
  ASSUME LedgersOK, NEW i \in Invocations, NEW e \in Estimates, Admissible(i, e),
         NEW d \in Dimensions, Bounded(i, d)
  PROVE  Room(i, d) \in Int /\ Least(e)[d] <= Room(i, d)
<1>1. PICK s \in Bounding(i, d) : Room(i, d) = Limit(s)[d] - Committed(s, d)
  BY RoomIsLeast
<1>2. s \in ScopesOf(i) /\ s \in Scopes /\ d \in DOMAIN Limit(s) \cap Dimensions
  BY ScopesOfType DEF Bounding
<1>3. Committed(s, d) + Least(e)[d] <= Limit(s)[d]
  BY <1>2 DEF Admissible, ScopeAdmits
<1>4. Limit(s)[d] \in Nat /\ Committed(s, d) \in Nat
  BY <1>2, LimitType, CommittedType DEF LedgersOK
<1>5. Least(e)[d] \in Nat
  <2>1. AttemptCost(e, 1) \in Nat
    BY AttemptCostType, BudgetAssumption
  <2> QED BY <2>1, BudgetAssumption DEF Least, Dimensions
<1> QED BY <1>1, <1>3, <1>4, <1>5, RoomIsLeast

LEMMA AttemptLimitFits ==
  ASSUME LedgersOK, NEW i \in Invocations, NEW e \in Estimates, Admissible(i, e)
  PROVE  /\ AttemptLimit(i, e) \in Nat \ {0}
         /\ AttemptLimit(i, e) <= MaxAttempts
         /\ Bounded(i, "invocations") => AttemptLimit(i, e) <= Room(i, "invocations")
         /\ Bounded(i, "input") => AttemptLimit(i, e) * e <= Room(i, "input")
         /\ Bounded(i, "output") => AttemptLimit(i, e) <= Room(i, "output")
<1> DEFINE units == IF Bounded(i, "invocations")
                    THEN Smaller(MaxAttempts, Room(i, "invocations")) ELSE MaxAttempts
           inputs == IF Bounded(i, "input")
                     THEN Smaller(units, Larger(1, Room(i, "input") \div e)) ELSE units
           n == AttemptLimit(i, e)
<1>0. e \in Nat \ {0} /\ MaxAttempts \in Nat \ {0}
  BY BudgetAssumption, ModelType DEF LedgersOK
<1>1. /\ units \in Nat \ {0} /\ units <= MaxAttempts
      /\ Bounded(i, "invocations") => units <= Room(i, "invocations")
  BY <1>0, RoomForOne DEF Smaller, Least, Dimensions
<1>2. Bounded(i, "input") => /\ Room(i, "input") \div e \in Nat \ {0}
                             /\ (Room(i, "input") \div e) * e <= Room(i, "input")
  <2> SUFFICES ASSUME Bounded(i, "input")
               PROVE  /\ Room(i, "input") \div e \in Nat \ {0}
                      /\ (Room(i, "input") \div e) * e <= Room(i, "input")
    OBVIOUS
  <2>1. Room(i, "input") \in Int /\ e <= Room(i, "input")
    BY RoomForOne DEF Least, Dimensions
  <2> QED BY <1>0, <2>1, Division
<1>3. /\ inputs \in Nat \ {0} /\ inputs <= units
      /\ Bounded(i, "input") => inputs <= Room(i, "input") \div e
  BY <1>1, <1>2 DEF Smaller, Larger
<1>4. /\ n \in Nat \ {0} /\ n <= inputs
      /\ Bounded(i, "output") => n <= Room(i, "output")
  <2>1. n = IF Bounded(i, "output") THEN Smaller(inputs, Larger(1, Room(i, "output")))
            ELSE inputs
    BY DEF AttemptLimit
  <2>2. Bounded(i, "output") => Room(i, "output") \in Int /\ 1 <= Room(i, "output")
    BY RoomForOne DEF Least, Dimensions
  <2> HIDE DEF inputs, n
  <2> QED BY <1>3, <2>1, <2>2 DEF Smaller, Larger
<1>5. Bounded(i, "input") => n * e <= Room(i, "input")
  <2> SUFFICES ASSUME Bounded(i, "input") PROVE n * e <= Room(i, "input")
    OBVIOUS
  <2>1. n <= Room(i, "input") \div e /\ Room(i, "input") \div e \in Nat
    <3> HIDE DEF n, inputs
    <3> QED BY <1>2, <1>3, <1>4
  <2>2. n * e <= (Room(i, "input") \div e) * e
    <3> HIDE DEF n
    <3> QED BY <1>0, <1>4, <2>1, ProductMonotone
  <2>3. Room(i, "input") \in Int
    BY RoomForOne DEF Dimensions
  <2>4. n * e \in Nat /\ (Room(i, "input") \div e) * e \in Nat
    <3> HIDE DEF n
    <3> QED BY <1>0, <1>4, <2>1, Product
  <2> HIDE DEF n
  <2> QED BY <1>2, <2>2, <2>3, <2>4
<1> HIDE DEF n, inputs, units
<1>6. n <= MaxAttempts /\ (Bounded(i, "invocations") => n <= Room(i, "invocations"))
  BY <1>0, <1>1, <1>3, <1>4, RoomForOne DEF Dimensions
<1>7. /\ n \in Nat \ {0} /\ n <= MaxAttempts
      /\ Bounded(i, "invocations") => n <= Room(i, "invocations")
      /\ Bounded(i, "input") => n * e <= Room(i, "input")
      /\ Bounded(i, "output") => n <= Room(i, "output")
  BY <1>4, <1>5, <1>6
<1> QED BY <1>7 DEF n

\* The share of each of n attempts fits the output that is left for them.
LEMMA ShareFits ==
  ASSUME LedgersOK, NEW i \in Invocations, NEW e \in Estimates, Admissible(i, e),
         Bounded(i, "output"), NEW n \in Nat \ {0}, n <= Room(i, "output")
  PROVE  /\ ShareOfOutput(i, n) \in Nat \ {0}
         /\ n * ShareOfOutput(i, n) <= Room(i, "output")
<1> DEFINE room == Room(i, "output")
           q == room \div n
           share1 == ShareOfOutput(i, n)
<1>1. room \in Int /\ TokenLimit \in Nat
  BY RoomForOne, ModelType DEF Dimensions, LedgersOK
<1>2. q \in Nat \ {0} /\ q * n <= room
  <2> HIDE DEF room
  <2>1. n <= room BY DEF room
  <2> QED BY <1>1, <2>1, Division
<1>3. share1 = IF TokenLimit = 0 THEN Larger(1, q) ELSE Smaller(TokenLimit, Larger(1, q))
  BY DEF ShareOfOutput
<1> HIDE DEF q, share1, room
<1>4. share1 \in Nat \ {0} /\ share1 <= q
  BY <1>1, <1>2, <1>3 DEF Larger, Smaller
<1>5. share1 * n <= q * n /\ share1 * n \in Nat /\ q * n \in Nat
  BY <1>2, <1>4, ProductMonotone, Product
<1>6. n * share1 = share1 * n
  BY <1>4
<1> QED BY <1>1, <1>2, <1>4, <1>5, <1>6 DEF share1, room

\* A number of attempts and a cap that keep to what is left of each dimension
\* but the cost.
Feasible(i, e, plan) ==
  /\ plan \in [attempts : Nat \ {0}, cap : Nat]
  /\ plan.attempts <= AttemptLimit(i, e)
  /\ Bounded(i, "output") => plan.attempts * plan.cap <= Room(i, "output")

\* The attempts that are at most the limit fit the output as the limit does.
LEMMA FewerAttemptsShare ==
  ASSUME LedgersOK, NEW i \in Invocations, NEW e \in Estimates, Admissible(i, e),
         Bounded(i, "output"), NEW n \in Nat \ {0}, n <= AttemptLimit(i, e)
  PROVE  /\ ShareOfOutput(i, n) \in Nat \ {0}
         /\ n * ShareOfOutput(i, n) <= Room(i, "output")
<1>1. Room(i, "output") \in Int
  BY RoomForOne DEF Dimensions
<1>2. n <= Room(i, "output")
  BY <1>1, AttemptLimitFits
<1> QED BY <1>2, ShareFits

LEMMA OutputCapFits ==
  ASSUME LedgersOK, NEW i \in Invocations, NEW e \in Estimates, Admissible(i, e),
         NEW n, n = AttemptLimit(i, e)
  PROVE  Feasible(i, e, [attempts |-> n, cap |-> OutputCap(i, e, n)])
<1>0. n \in Nat \ {0} /\ TokenLimit \in Nat
  BY AttemptLimitFits, ModelType DEF LedgersOK
<1>1. CASE Bounded(i, "output")
  BY <1>0, <1>1, FewerAttemptsShare DEF OutputCap, Feasible
<1>2. CASE ~ Bounded(i, "output")
  <2> DEFINE left == Room(i, "cost") - n * e * InputPrice
  <2>1. OutputCap(i, e, n) \in Nat
    <3>1. CASE /\ TokenLimit = 0 /\ Bounded(i, "cost") /\ Priced /\ OutputPrice > 0
               /\ left >= n * OutputPrice
      <4>1. left \in Int
        <5>1. Room(i, "cost") \in Int
          BY <3>1, RoomForOne DEF Dimensions
        <5>2. n * e \in Nat /\ (n * e) * InputPrice \in Nat
          BY <1>0, BudgetAssumption, ModelType, Product DEF LedgersOK
        <5> QED BY <5>1, <5>2
      <4>2. n * OutputPrice \in Nat \ {0}
        BY <1>0, <3>1, ModelType, SMT DEF LedgersOK
      <4>3. left \div (n * OutputPrice) \in Nat
        <5> HIDE DEF left
        <5> QED BY <3>1, <4>1, <4>2, Division
      <4> QED BY <1>2, <3>1, <4>3 DEF OutputCap
    <3>2. CASE ~ (/\ TokenLimit = 0 /\ Bounded(i, "cost") /\ Priced /\ OutputPrice > 0
                  /\ left >= n * OutputPrice)
      BY <1>0, <1>2, <3>2 DEF OutputCap
    <3> QED BY <3>1, <3>2
  <2> QED BY <1>0, <1>2, <2>1 DEF Feasible
<1> QED BY <1>1, <1>2

\* A turn of the loop keeps a plan feasible.
LEMMA FitCostFits ==
  ASSUME LedgersOK, NEW i \in Invocations, NEW e \in Estimates, Admissible(i, e),
         Bounded(i, "cost"), NEW plan, Feasible(i, e, plan)
  PROVE  Feasible(i, e, FitCost(i, e, plan))
<1> DEFINE cost == AttemptCost(e, plan.cap)
           affordable == Room(i, "cost") \div cost
           n == Larger(1, affordable)
           fits == ~ Priced \/ cost = 0 \/ affordable >= plan.attempts
<1>1. CASE fits
  BY <1>1 DEF FitCost
<1>2. CASE ~ fits
  <2>1. plan.attempts \in Nat \ {0} /\ plan.cap \in Nat /\ plan.attempts <= AttemptLimit(i, e)
    BY DEF Feasible
  <2>2. affordable \in Int
    <3>1. cost \in Nat \ {0}
      BY <1>2, <2>1, AttemptCostType, BudgetAssumption
    <3>2. Room(i, "cost") \in Int
      BY RoomForOne DEF Dimensions
    <3> HIDE DEF cost
    <3> QED BY <3>1, <3>2, Division
  <2>3. n \in Nat \ {0} /\ n <= plan.attempts
    <3>1. affordable < plan.attempts
      <4> HIDE DEF affordable, cost
      <4> QED BY <1>2, <2>1, <2>2
    <3> HIDE DEF affordable
    <3> QED BY <2>1, <2>2, <3>1 DEF Larger
  <2>4. n <= AttemptLimit(i, e)
    <3> HIDE DEF n
    <3> QED BY <2>1, <2>3, AttemptLimitFits
  <2>5. FitCost(i, e, plan) =
          [attempts |-> n, cap |-> IF Bounded(i, "output") THEN ShareOfOutput(i, n)
                                   ELSE plan.cap]
    BY <1>2 DEF FitCost
  <2> HIDE DEF n
  <2> QED BY <2>1, <2>3, <2>4, <2>5, FewerAttemptsShare DEF Feasible
<1> QED BY <1>1, <1>2

LEMMA PlanFits ==
  ASSUME LedgersOK, NEW i \in Invocations, NEW e \in Estimates, Admissible(i, e)
  PROVE  \E plan :
           /\ Feasible(i, e, plan)
           /\ Plan(i, e) =
                [attempts |-> plan.attempts, cap |-> plan.cap, estimate |-> e,
                 each |-> [invocations |-> 1, input |-> e,
                           output |-> IF Bounded(i, "output") THEN plan.cap ELSE 0,
                           cost |-> IF Priced THEN AttemptCost(e, plan.cap) ELSE 0]]
<1> DEFINE n == AttemptLimit(i, e)
           first == [attempts |-> n, cap |-> OutputCap(i, e, n)]
           second == FitCost(i, e, first)
           third == FitCost(i, e, second)
           plan == IF Bounded(i, "cost") THEN FitCost(i, e, third) ELSE first
<1>1. Feasible(i, e, first)
  BY OutputCapFits
<1>2. Bounded(i, "cost") => Feasible(i, e, second)
  <2> HIDE DEF first
  <2> QED BY <1>1, FitCostFits
<1>3. Bounded(i, "cost") => Feasible(i, e, third)
  <2> HIDE DEF second
  <2> QED BY <1>2, FitCostFits
<1>4. Feasible(i, e, plan)
  <2> HIDE DEF first, third
  <2> QED BY <1>1, <1>3, FitCostFits
<1> QED BY <1>4 DEF Plan

\* What is admitted is a grant of no more attempts than the Model configures,
\* and no scope is committed to more than its limit by all of it.
LEMMA GrantFits ==
  ASSUME LedgersOK, NEW i \in Invocations, NEW e \in Estimates, Admissible(i, e)
  PROVE  /\ Plan(i, e) \in Grants
         /\ Plan(i, e).attempts <= MaxAttempts
         /\ \A s \in ScopesOf(i), d \in Dimensions : d \in DOMAIN Limit(s) =>
              Committed(s, d) + Plan(i, e).attempts * Plan(i, e).each[d] <= Limit(s)[d]
<1>1. PICK plan :
        /\ Feasible(i, e, plan)
        /\ Plan(i, e) =
             [attempts |-> plan.attempts, cap |-> plan.cap, estimate |-> e,
              each |-> [invocations |-> 1, input |-> e,
                        output |-> IF Bounded(i, "output") THEN plan.cap ELSE 0,
                        cost |-> IF Priced THEN AttemptCost(e, plan.cap) ELSE 0]]
  BY PlanFits
<1> DEFINE g == Plan(i, e)
<1>2. plan.attempts \in Nat \ {0} /\ plan.cap \in Nat /\ plan.attempts <= AttemptLimit(i, e)
  BY <1>1 DEF Feasible
<1>3. AttemptCost(e, plan.cap) \in Nat /\ e \in Nat \ {0}
  BY <1>2, AttemptCostType, BudgetAssumption
<1>4. g \in Grants
  <2>1. g.each \in [Dimensions -> Nat]
    BY <1>1, <1>2, <1>3 DEF Dimensions
  <2> QED BY <1>1, <1>2, <1>3, <2>1 DEF Grants
<1>5. g.attempts \in Nat /\ g.attempts <= AttemptLimit(i, e) /\ g.attempts <= MaxAttempts
  BY <1>1, <1>2, AttemptLimitFits, ModelType DEF LedgersOK
<1>6. \A d \in Dimensions : Bounded(i, d) =>
        g.attempts * g.each[d] \in Nat /\ g.attempts * g.each[d] <= Room(i, d)
  <2> TAKE d \in Dimensions
  <2> HAVE Bounded(i, d)
  <2>0. g.attempts = plan.attempts /\ g.attempts * g.each[d] \in Nat /\ Room(i, d) \in Int
    <3>1. g.each[d] \in Nat
      BY <1>4 DEF Grants
    <3>2. g.attempts * g.each[d] \in Nat
      <4> HIDE DEF g
      <4> QED BY <1>5, <3>1, Product
    <3> QED BY <1>1, <3>2, RoomForOne
  <2>1. CASE d = "invocations"
    <3>1. g.each[d] = 1
      BY <1>1, <2>1
    <3>2. AttemptLimit(i, e) <= Room(i, d) /\ AttemptLimit(i, e) \in Nat
      BY <2>1, AttemptLimitFits
    <3> HIDE DEF g
    <3> QED BY <1>5, <2>0, <3>1, <3>2
  <2>2. CASE d = "input"
    <3>1. g.each[d] = e
      BY <1>1, <2>2
    <3>2. AttemptLimit(i, e) * e <= Room(i, d) /\ AttemptLimit(i, e) \in Nat
      BY <2>2, AttemptLimitFits
    <3>3. g.attempts * e <= AttemptLimit(i, e) * e /\ AttemptLimit(i, e) * e \in Nat
      <4> HIDE DEF g
      <4> QED BY <1>3, <1>5, <3>2, ProductMonotone, Product
    <3> HIDE DEF g
    <3> QED BY <2>0, <3>1, <3>2, <3>3
  <2>3. CASE d = "output"
    <3>1. g.each[d] = plan.cap /\ plan.attempts * plan.cap <= Room(i, d)
      BY <1>1, <2>3 DEF Feasible
    <3> HIDE DEF g
    <3> QED BY <2>0, <3>1
  <2>4. CASE d = "cost"
    <3>1. g.each[d] = g.each.cost
      BY <1>1, <2>4
    <3>2. g.attempts * g.each.cost <= Room(i, d)
      BY <2>4 DEF Admissible
    <3> HIDE DEF g
    <3> QED BY <2>0, <3>1, <3>2
  <2> QED BY <2>1, <2>2, <2>3, <2>4 DEF Dimensions
<1>7. ASSUME NEW s \in ScopesOf(i), NEW d \in Dimensions, d \in DOMAIN Limit(s)
      PROVE  Committed(s, d) + g.attempts * g.each[d] <= Limit(s)[d]
  <2>1. s \in Bounding(i, d) /\ Bounded(i, d)
    BY <1>7 DEF Bounding, Bounded
  <2>2. Room(i, d) \in Int /\ Room(i, d) <= Limit(s)[d] - Committed(s, d)
    BY <2>1, RoomIsLeast
  <2>3. Limit(s)[d] \in Nat /\ Committed(s, d) \in Nat
    BY <1>7, ScopesOfType, LimitType, CommittedType DEF LedgersOK
  <2> HIDE DEF g
  <2> QED BY <1>6, <2>1, <2>2, <2>3
<1> QED BY <1>4, <1>5, <1>7

-----------------------------------------------------------------------------
(* The inductive invariant.                                                *)

GrantsBounded == \A i \in Invocations : grant[i].attempts <= MaxAttempts

\* An attempt is preceded by its grant, and counted with what it may cost; a
\* timeout takes the place of one.
AttemptsPaid ==
  \A i \in Invocations :
    /\ i \in timedOut => pc[i] = "done" /\ sent[i] < MaxAttempts
    /\ pc[i] \in {"new", "prepared"} => sent[i] = 0
    /\ pc[i] = "reserved" /\ sent[i] > 0 => WorstCost(i) <= spent[i]

\* Spend that nobody knows blocks the scopes that bound the cost.
UnknownBlocks == \A j \in unknown : Bounding(j, "cost") \subseteq blocked

IInv ==
  /\ TypeOK /\ GrantsBounded /\ AttemptsPaid /\ UnknownBlocks /\ OverrunIsMarked

-----------------------------------------------------------------------------
(* What the steps have in common.                                          *)

LEMMA SameLimits ==
  ASSUME resources' = resources
  PROVE  /\ \A s : Limit(s)' = Limit(s)
         /\ \A i, d : Bounding(i, d)' = Bounding(i, d)
         /\ MaxAttempts' = MaxAttempts
         /\ InputPrice' = InputPrice /\ OutputPrice' = OutputPrice
<1>1. \A s : Limit(s)' = Limit(s)
  BY DEF Limit
<1> QED BY <1>1 DEF Bounding, ScopesOf, MaxAttempts, InputPrice, OutputPrice

LEMMA SameWorstCost ==
  ASSUME resources' = resources, NEW i, grant'[i] = grant[i]
  PROVE  WorstCost(i)' = WorstCost(i)
BY SameLimits DEF WorstCost

LEMMA WorstCostType ==
  ASSUME TypeOK, NEW i \in Invocations
  PROVE  WorstCost(i) \in Nat
<1>1. grant[i].estimate \in Nat /\ grant[i].cap \in Nat
  BY DEF TypeOK, Grants
<1>2. InputPrice \in Nat /\ OutputPrice \in Nat /\ Uncapped \in Nat
  BY ModelType, BudgetAssumption DEF TypeOK
<1>3. grant[i].estimate * InputPrice \in Nat
  BY <1>1, <1>2, Product
<1>4. (IF grant[i].cap = 0 THEN Uncapped ELSE grant[i].cap) * OutputPrice \in Nat
  BY <1>1, <1>2, Product
<1> QED BY <1>3, <1>4 DEF WorstCost

LEMMA AmountsClosed ==
  /\ Zero \in Amounts
  /\ \A x, y \in Amounts : Plus(x, y) \in Amounts /\ Monus(x, y) \in Amounts
  /\ \A n \in Nat, x \in Amounts : Times(n, x) \in Amounts
<1>1. \A x, y \in Amounts : Plus(x, y) \in Amounts /\ Monus(x, y) \in Amounts
  BY DEF Amounts, Plus, Monus, Larger
<1>2. \A n \in Nat, x \in Amounts : Times(n, x) \in Amounts
  BY Product DEF Amounts, Times
<1> QED BY <1>1, <1>2 DEF Amounts, Zero

LEMMA GrantType ==
  ASSUME TypeOK, NEW i \in Invocations
  PROVE  /\ grant[i].attempts \in Nat /\ grant[i].each \in Amounts
         /\ grant[i].cap \in Nat /\ grant[i].estimate \in Nat
BY DEF TypeOK, Grants, Amounts

\* What is given back of a reservation leaves no more than there was.
LEMMA ReturnedLess ==
  ASSUME TypeOK, NEW i \in Invocations, NEW s \in Scopes
  PROVE  /\ Returned(i, s) \in Amounts
         /\ \A d \in Dimensions : Returned(i, s)[d] <= held[s][d]
<1>1. held[s] \in Amounts
  BY DEF TypeOK
<1>2. Times(grant[i].attempts, grant[i].each) \in Amounts
  BY GrantType, AmountsClosed
<1> QED BY <1>1, <1>2 DEF Returned, Monus, Larger, Amounts

\* The amounts of attempts that stay reserved, or are remembered.
LEMMA UntoldType ==
  ASSUME TypeOK, NEW i \in Invocations, NEW n \in Nat
  PROVE  Kept(i, n) \in Amounts /\ Untold(i, n) \in Amounts
<1>1. Smaller(n, grant[i].attempts) \in Nat
  BY GrantType DEF Smaller
<1>2. /\ Times(Smaller(n, grant[i].attempts), grant[i].each) \in Amounts
      /\ Times(n, grant[i].each) \in Amounts
  BY <1>1, GrantType, AmountsClosed
<1> QED BY <1>2 DEF Kept, Untold, Amounts, Dimensions

\* Ledgers that commit no scope to more than before keep their marks.
LEMMA LessIsMarked ==
  ASSUME TypeOK, OverrunIsMarked, resources' = resources, used' = used, overrun' = overrun,
         held' \in [Scopes -> Amounts],
         \A s \in Scopes, d \in Dimensions : held'[s][d] <= held[s][d]
  PROVE  OverrunIsMarked'
<1> SUFFICES ASSUME NEW s \in Scopes, NEW d \in DOMAIN Limit(s) \cap Dimensions,
                    used[s][d] + held'[s][d] > Limit(s)[d]
             PROVE  s \in overrun
  BY SameLimits DEF OverrunIsMarked, Exceeds
<1>1. used[s][d] \in Nat /\ held[s][d] \in Nat /\ held'[s][d] \in Nat /\ Limit(s)[d] \in Nat
  BY LimitType DEF TypeOK, Amounts
<1>2. used[s][d] + held[s][d] > Limit(s)[d]
  BY <1>1
<1> QED BY <1>2 DEF OverrunIsMarked, Exceeds

\* A charge keeps the books in order, and blocks for what it does not know.
LEMMA RecordKeeps ==
  ASSUME TypeOK, OverrunIsMarked, resources' = resources, NEW i \in Invocations,
         NEW usage \in Amounts, NEW n \in Nat, NEW priced,
         Record(i, usage, n, priced)
  PROVE  /\ used' \in [Scopes -> Amounts] /\ held' \in [Scopes -> Amounts]
         /\ blocked \subseteq blocked' /\ blocked' \subseteq Scopes
         /\ overrun' \subseteq Scopes /\ OverrunIsMarked'
         /\ usage.invocations > 0 /\ (n > 0 \/ ~ priced) =>
              Bounding(i, "cost") \subseteq blocked'
<1>1. CASE ~ Budgeted(i)
  <2>1. UNCHANGED ledgers
    BY <1>1 DEF Record
  <2>2. Bounding(i, "cost") = {}
    BY <1>1 DEF Budgeted, Bounding
  <2>3. \A s \in Scopes, d \in Dimensions : held[s][d] <= held[s][d]
    BY DEF TypeOK, Amounts
  <2>4. OverrunIsMarked'
    BY <2>1, <2>3, LessIsMarked DEF ledgers, TypeOK
  <2> QED BY <2>1, <2>2, <2>4 DEF ledgers, TypeOK
<1>2. CASE Budgeted(i)
  <2>1. Charge(i, usage, n, priced)
    BY <1>2 DEF Record
  <2>2. used' \in [Scopes -> Amounts]
    BY <2>1, AmountsClosed DEF Charge, TypeOK
  <2>3. held' \in [Scopes -> Amounts]
    BY <2>1, AmountsClosed, ReturnedLess, UntoldType DEF Charge, TypeOK
  <2>4. /\ blocked \subseteq blocked' /\ blocked' \subseteq Scopes
        /\ usage.invocations > 0 /\ (n > 0 \/ ~ priced) =>
             Bounding(i, "cost") \subseteq blocked'
    BY <2>1, ScopesOfType DEF Charge, TypeOK, Bounding
  <2>5. overrun' = overrun \cup {s \in ScopesOf(i) : Exceeds(s, used', held')}
    BY <2>1 DEF Charge, Marked
  <2>6. OverrunIsMarked'
    <3> SUFFICES ASSUME NEW s \in Scopes, Exceeds(s, used', held')
                 PROVE  s \in overrun'
      BY SameLimits DEF OverrunIsMarked, Exceeds
    <3>1. CASE s \in ScopesOf(i)
      BY <2>5, <3>1
    <3>2. CASE s \notin ScopesOf(i)
      <4>1. used'[s] = used[s] /\ held'[s] = held[s]
        BY <2>1, <3>2 DEF Charge
      <4>2. Exceeds(s, used, held)
        BY <4>1 DEF Exceeds
      <4> QED BY <2>5, <4>2 DEF OverrunIsMarked
    <3> QED BY <3>1, <3>2
  <2> QED BY <2>2, <2>3, <2>4, <2>5, <2>6, ScopesOfType DEF TypeOK
<1> QED BY <1>1, <1>2

LEMMA SameLedgers ==
  ASSUME IInv, resources' = resources, UNCHANGED ledgers, unknown' = unknown
  PROVE  UnknownBlocks' /\ OverrunIsMarked'
<1>1. \A s \in Scopes, d \in Dimensions : held[s][d] <= held[s][d]
  BY DEF IInv, TypeOK, Amounts
<1>2. OverrunIsMarked'
  BY <1>1, LessIsMarked DEF IInv, TypeOK, ledgers
<1>3. UnknownBlocks'
  BY SameLimits DEF IInv, UnknownBlocks, ledgers
<1> QED BY <1>2, <1>3

\* A step that ends an invocation, at most, keeps what its attempts imply.
LEMMA EndingIsPaid ==
  ASSUME IInv, resources' = resources, grant' = grant, sent' = sent,
         \A j \in Invocations : pc'[j] = "done" \/ (pc'[j] = pc[j] /\ spent'[j] = spent[j]),
         \A j \in timedOut' : j \in timedOut \/ (pc'[j] = "done" /\ sent[j] < MaxAttempts)
  PROVE  GrantsBounded' /\ AttemptsPaid'
<1>1. \A j \in Invocations : WorstCost(j)' = WorstCost(j)
  BY SameWorstCost
<1> QED BY <1>1, SameLimits DEF IInv, GrantsBounded, AttemptsPaid

-----------------------------------------------------------------------------
(* The invariant holds initially, and each step preserves it.              *)

LEMMA InitEstablishes == Init => IInv
<1> SUFFICES ASSUME Init PROVE IInv
  OBVIOUS
<1>1. TypeOK
  <2>1. NoGrant \in Grants
    BY AmountsClosed DEF NoGrant, Grants, Amounts
  <2>2. MaxAttempts \in Nat \ {0}
    BY ModelType DEF Init
  <2> QED BY <2>1, <2>2, AmountsClosed, BudgetAssumption DEF Init, TypeOK
<1>2. GrantsBounded
  BY ModelType DEF Init, GrantsBounded, NoGrant
<1>3. AttemptsPaid /\ UnknownBlocks
  BY DEF Init, AttemptsPaid, UnknownBlocks
<1>4. OverrunIsMarked
  <2> SUFFICES ASSUME NEW s \in Scopes, NEW d \in DOMAIN Limit(s) \cap Dimensions,
                      used[s][d] + held[s][d] > Limit(s)[d]
               PROVE  FALSE
    BY DEF OverrunIsMarked, Exceeds
  <2> QED BY LimitType DEF Init, Zero
<1> QED BY <1>1, <1>2, <1>3, <1>4 DEF IInv

LEMMA PrepareKeeps ==
  ASSUME IInv, NEW i \in Invocations, Prepare(i)
  PROVE  IInv'
<1>0. resources' = resources /\ UNCHANGED <<ledgers, sent, faults, crashes, history>>
  BY DEF Prepare
<1>1. TypeOK'
  <2>1. grant' \in [Invocations -> Grants]
    <3> SUFFICES ASSUME NEW e \in Estimates
                 PROVE  [NoGrant EXCEPT !.attempts = MaxAttempts, !.cap = TokenLimit,
                                        !.estimate = e] \in Grants
      BY DEF Prepare, IInv, TypeOK
    <3> QED BY AmountsClosed, ModelType, BudgetAssumption
            DEF IInv, TypeOK, NoGrant, Grants, Amounts
  <2> QED BY <1>0, <2>1, SameLimits DEF Prepare, Goto, IInv, TypeOK, ledgers, history
<1>2. GrantsBounded'
  <2>1. /\ MaxAttempts \in Nat /\ grant \in [Invocations -> Grants]
        /\ \A j \in Invocations : grant[j].attempts <= MaxAttempts
    BY ModelType DEF IInv, TypeOK, GrantsBounded
  <2>2. CASE grant' = grant
    BY <1>0, <2>1, <2>2, SameLimits DEF GrantsBounded
  <2>3. CASE \E e \in Estimates :
               grant' = [grant EXCEPT ![i] = [NoGrant EXCEPT !.attempts = MaxAttempts,
                                                !.cap = TokenLimit, !.estimate = e]]
    <3>1. \A j \in Invocations : grant'[j].attempts \in {grant[j].attempts, MaxAttempts}
      BY <2>1, <2>3 DEF NoGrant
    <3> QED BY <1>0, <2>1, <3>1, SameLimits DEF GrantsBounded
  <2> QED BY <2>2, <2>3 DEF Prepare
<1>3. AttemptsPaid'
  <2> SUFFICES ASSUME NEW j \in Invocations
               PROVE  /\ j \in timedOut => pc'[j] = "done" /\ sent[j] < MaxAttempts
                      /\ pc'[j] \in {"new", "prepared"} => sent[j] = 0
                      /\ pc'[j] = "reserved" /\ sent[j] > 0 => WorstCost(j)' <= spent[j]
    BY <1>0, SameLimits DEF AttemptsPaid, history
  <2>1. CASE j = i
    <3>1. sent[i] = 0 /\ i \notin timedOut
      BY DEF Prepare, IInv, AttemptsPaid
    <3> QED BY <2>1, <3>1
  <2>2. CASE j # i
    <3>1. pc'[j] = pc[j] /\ grant'[j] = grant[j]
      BY <2>2 DEF Prepare, Goto, IInv, TypeOK
    <3> QED BY <1>0, <3>1, SameWorstCost DEF IInv, AttemptsPaid
  <2> QED BY <2>1, <2>2
<1>4. UnknownBlocks' /\ OverrunIsMarked'
  BY <1>0, SameLedgers DEF history
<1> QED BY <1>1, <1>2, <1>3, <1>4 DEF IInv

LEMMA AdmitKeeps ==
  ASSUME IInv, NEW i \in Invocations, Admit(i)
  PROVE  IInv'
<1>0. UNCHANGED <<resources, used, blocked, overrun, sent, recorded, timedOut, unknown, spent>>
  BY DEF Admit
<1>1. PICK e \in Estimates :
        /\ Admissible(i, e)
        /\ grant' = [grant EXCEPT ![i] = Plan(i, e)]
        /\ Mutate(i, "reserved", Reserve(i, Plan(i, e)), UNCHANGED <<held, share>>)
  BY DEF Admit
<1> DEFINE g == Plan(i, e)
<1>2. /\ g \in Grants /\ g.attempts <= MaxAttempts
      /\ \A s \in ScopesOf(i), d \in Dimensions : d \in DOMAIN Limit(s) =>
           Committed(s, d) + g.attempts * g.each[d] <= Limit(s)[d]
  BY <1>1, GrantFits DEF IInv, TypeOK, LedgersOK
<1>3. Times(g.attempts, g.each) \in Amounts
  BY <1>2, AmountsClosed DEF Grants, Amounts
<1>4. Reserve(i, g) \/ UNCHANGED <<held, share>>
  BY <1>1 DEF Mutate
<1>5. held' \in [Scopes -> Amounts] /\ share' \in [Invocations -> Amounts]
  <2> HIDE DEF g
  <2> QED BY <1>3, <1>4, AmountsClosed DEF Reserve, IInv, TypeOK
<1>6. TypeOK'
  <2>1. /\ pc' \in [Invocations -> {"new", "prepared", "reserved", "done"}]
        /\ faults' \in 0 .. MaxFaults /\ crashes' = crashes
    BY <1>1, BudgetAssumption DEF Mutate, Goto, IInv, TypeOK
  <2>2. grant' \in [Invocations -> Grants]
    BY <1>1, <1>2 DEF IInv, TypeOK
  <2> QED BY <1>0, <1>5, <2>1, <2>2, SameLimits DEF IInv, TypeOK
<1>7. GrantsBounded'
  BY <1>0, <1>1, <1>2, SameLimits DEF IInv, TypeOK, GrantsBounded
<1>8. AttemptsPaid'
  <2> SUFFICES ASSUME NEW j \in Invocations
               PROVE  /\ j \in timedOut => pc'[j] = "done" /\ sent[j] < MaxAttempts
                      /\ pc'[j] \in {"new", "prepared"} => sent[j] = 0
                      /\ pc'[j] = "reserved" /\ sent[j] > 0 => WorstCost(j)' <= spent[j]
    BY <1>0, SameLimits DEF AttemptsPaid
  <2>1. CASE j = i
    <3>1. sent[i] = 0 /\ i \notin timedOut
      BY DEF Admit, IInv, AttemptsPaid
    <3> QED BY <2>1, <3>1
  <2>2. CASE j # i
    <3>1. pc'[j] = pc[j] /\ grant'[j] = grant[j]
      BY <1>1, <2>2 DEF Mutate, Goto, IInv, TypeOK
    <3> QED BY <1>0, <3>1, SameWorstCost DEF IInv, AttemptsPaid
  <2> QED BY <2>1, <2>2
<1>9. UnknownBlocks'
  BY <1>0, SameLimits DEF IInv, UnknownBlocks
<1>10. OverrunIsMarked'
  <2>1. CASE UNCHANGED <<held, share>>
    BY <1>0, <2>1, SameLedgers DEF ledgers
  <2>2. CASE Reserve(i, g)
    <3> SUFFICES ASSUME NEW s \in Scopes, NEW d \in DOMAIN Limit(s) \cap Dimensions,
                        used[s][d] + held'[s][d] > Limit(s)[d]
                 PROVE  s \in overrun
      BY <1>0, SameLimits DEF OverrunIsMarked, Exceeds
    <3>1. CASE s \in ScopesOf(i)
      <4>1. held'[s][d] = held[s][d] + g.attempts * g.each[d]
        BY <2>2, <3>1 DEF Reserve, Plus, Times
      <4>2. used[s][d] + held[s][d] + g.attempts * g.each[d] <= Limit(s)[d]
        BY <1>2, <3>1 DEF Committed
      <4>3. /\ used[s][d] \in Nat /\ held[s][d] \in Nat /\ Limit(s)[d] \in Nat
            /\ g.attempts * g.each[d] \in Nat
        BY <1>3, LimitType DEF IInv, TypeOK, Amounts, Times
      <4> HIDE DEF g
      <4> QED BY <4>1, <4>2, <4>3
    <3>2. CASE s \notin ScopesOf(i)
      BY <2>2, <3>2 DEF Reserve, IInv, OverrunIsMarked, Exceeds
    <3> QED BY <3>1, <3>2
  <2> QED BY <1>4, <2>1, <2>2
<1> QED BY <1>6, <1>7, <1>8, <1>9, <1>10 DEF IInv

LEMMA BlockKeeps ==
  ASSUME IInv, NEW i \in Invocations, Block(i)
  PROVE  IInv'
<1>1. UNCHANGED <<resources, ledgers, grant, sent, faults, crashes, history>>
  BY DEF Block
<1>2. TypeOK'
  BY <1>1, SameLimits DEF Block, Goto, IInv, TypeOK, ledgers, history
<1>3. GrantsBounded' /\ AttemptsPaid'
  BY <1>1, EndingIsPaid DEF Block, Goto, IInv, TypeOK, history
<1>4. UnknownBlocks' /\ OverrunIsMarked'
  BY <1>1, SameLedgers DEF history
<1> QED BY <1>2, <1>3, <1>4 DEF IInv

LEMMA WithdrawKeeps ==
  ASSUME IInv, NEW i \in Invocations, Withdraw(i)
  PROVE  IInv'
<1>1. UNCHANGED <<resources, used, blocked, overrun, grant, sent, recorded, timedOut, unknown, spent>>
  BY DEF Withdraw
<1>2. /\ pc' = [pc EXCEPT ![i] = "done"]
      /\ faults' \in 0 .. MaxFaults /\ crashes' = crashes
  BY BudgetAssumption DEF Withdraw, Mutate, Goto, IInv, TypeOK
<1>3. \/ /\ held' = [s \in Scopes |-> IF s \in ScopesOf(i) THEN Returned(i, s) ELSE held[s]]
         /\ share' = [share EXCEPT ![i] = Zero]
      \/ UNCHANGED <<held, share>>
  BY DEF Withdraw, Mutate
<1>4. /\ held' \in [Scopes -> Amounts] /\ share' \in [Invocations -> Amounts]
      /\ \A s \in Scopes, d \in Dimensions : held'[s][d] <= held[s][d]
  <2>1. \A s \in Scopes, d \in Dimensions : held[s][d] <= held[s][d]
    BY DEF IInv, TypeOK, Amounts
  <2>2. CASE UNCHANGED <<held, share>>
    BY <2>1, <2>2 DEF IInv, TypeOK
  <2>3. CASE /\ held' = [s \in Scopes |-> IF s \in ScopesOf(i) THEN Returned(i, s) ELSE held[s]]
             /\ share' = [share EXCEPT ![i] = Zero]
    <3>1. TypeOK /\ held \in [Scopes -> Amounts] /\ share \in [Invocations -> Amounts]
      BY DEF IInv, TypeOK
    <3>2. \A s \in Scopes : /\ Returned(i, s) \in Amounts
                            /\ \A d \in Dimensions : Returned(i, s)[d] <= held[s][d]
      BY <3>1, ReturnedLess
    <3> QED BY <2>1, <2>3, <3>1, <3>2, AmountsClosed
  <2> QED BY <1>3, <2>2, <2>3
<1>5. TypeOK'
  BY <1>1, <1>2, <1>4, SameLimits DEF IInv, TypeOK
<1>6. GrantsBounded' /\ AttemptsPaid'
  BY <1>1, <1>2, EndingIsPaid DEF IInv, TypeOK
<1>7. UnknownBlocks'
  BY <1>1, SameLimits DEF IInv, UnknownBlocks
<1>8. OverrunIsMarked'
  BY <1>1, <1>4, LessIsMarked DEF IInv
<1> QED BY <1>5, <1>6, <1>7, <1>8 DEF IInv

LEMMA AttemptKeeps ==
  ASSUME IInv, NEW i \in Invocations, Attempt(i)
  PROVE  IInv'
<1>1. UNCHANGED <<resources, ledgers, pc, grant, faults, crashes, share, recorded, timedOut, unknown>>
  BY DEF Attempt
<1>2. sent[i] \in Nat /\ grant[i].attempts \in Nat /\ MaxAttempts \in Nat
  BY ModelType, GrantType DEF IInv, TypeOK
<1>3. sent' \in [Invocations -> 0 .. MaxAttempts]
  <2>1. sent[i] + 1 \in 0 .. MaxAttempts
    BY <1>2 DEF Attempt, IInv, GrantsBounded
  <2> QED BY <2>1 DEF Attempt, IInv, TypeOK
<1>4. spent' \in [Invocations -> Nat] /\ spent'[i] = spent[i] + WorstCost(i)
  BY WorstCostType DEF Attempt, IInv, TypeOK
<1>5. TypeOK'
  BY <1>1, <1>3, <1>4, SameLimits DEF IInv, TypeOK, ledgers
<1>6. GrantsBounded'
  BY <1>1, SameLimits DEF IInv, GrantsBounded
<1>7. AttemptsPaid'
  <2> SUFFICES ASSUME NEW j \in Invocations
               PROVE  /\ j \in timedOut => pc[j] = "done" /\ sent'[j] < MaxAttempts
                      /\ pc[j] \in {"new", "prepared"} => sent'[j] = 0
                      /\ pc[j] = "reserved" /\ sent'[j] > 0 => WorstCost(j) <= spent'[j]
    BY <1>1, SameWorstCost, SameLimits DEF AttemptsPaid
  <2>1. CASE j = i
    <3>1. pc[i] = "reserved" /\ i \notin timedOut
      BY DEF Attempt, IInv, AttemptsPaid
    <3>2. WorstCost(i) \in Nat /\ spent[i] \in Nat
      BY WorstCostType DEF IInv, TypeOK
    <3> QED BY <1>4, <2>1, <3>1, <3>2
  <2>2. CASE j # i
    BY <2>2 DEF Attempt, IInv, TypeOK, AttemptsPaid
  <2> QED BY <2>1, <2>2
<1>8. UnknownBlocks' /\ OverrunIsMarked'
  BY <1>1, SameLedgers
<1> QED BY <1>5, <1>6, <1>7, <1>8 DEF IInv

\* The two ways in which an invocation is charged: with the usage of the last
\* attempt, and with none.
LEMMA ChargeKeeps ==
  ASSUME IInv, NEW i \in Invocations, pc[i] = "reserved",
         NEW usage \in Amounts, NEW n \in Nat, NEW priced, Record(i, usage, n, priced),
         resources' = resources, grant' = grant, sent' = sent,
         pc' = [pc EXCEPT ![i] = "done"], faults' \in 0 .. MaxFaults, crashes' = crashes,
         share' = [share EXCEPT ![i] = Untold(i, n)],
         recorded' = recorded \cup {i},
         \/ timedOut' = timedOut
         \/ timedOut' = timedOut \cup {i} /\ sent[i] < grant[i].attempts,
         unknown' = unknown \/ unknown' = unknown \cup {i},
         unknown' = unknown \/ (usage.invocations > 0 /\ (n > 0 \/ ~ priced)),
         NEW cost \in Nat, spent' = [spent EXCEPT ![i] = cost]
  PROVE  IInv'
<1>1. /\ used' \in [Scopes -> Amounts] /\ held' \in [Scopes -> Amounts]
      /\ blocked \subseteq blocked' /\ blocked' \subseteq Scopes
      /\ overrun' \subseteq Scopes /\ OverrunIsMarked'
      /\ usage.invocations > 0 /\ (n > 0 \/ ~ priced) =>
           Bounding(i, "cost") \subseteq blocked'
  BY RecordKeeps DEF IInv
<1>2. TypeOK'
  <2>1. share' \in [Invocations -> Amounts]
    BY UntoldType DEF IInv, TypeOK
  <2> QED BY <1>1, <2>1, SameLimits DEF IInv, TypeOK
<1>3. GrantsBounded' /\ AttemptsPaid'
  <2>1. \A j \in timedOut' : j \in timedOut \/ (pc'[j] = "done" /\ sent[j] < MaxAttempts)
    <3>1. sent[i] < grant[i].attempts => sent[i] < MaxAttempts
      <4>1. /\ sent[i] \in Nat /\ grant[i].attempts \in Nat /\ MaxAttempts \in Nat
            /\ grant[i].attempts <= MaxAttempts
        BY ModelType, GrantType DEF IInv, TypeOK, GrantsBounded
      <4> QED BY <4>1
    <3> QED BY <3>1 DEF IInv, TypeOK
  <2> QED BY <2>1, EndingIsPaid DEF IInv, TypeOK
<1>4. UnknownBlocks'
  BY <1>1, SameLimits DEF IInv, UnknownBlocks
<1> QED BY <1>1, <1>2, <1>3, <1>4 DEF IInv

\* A charge that did not take effect: the store reported an error.
LEMMA LostChargeKeeps ==
  ASSUME IInv, NEW i \in Invocations, UNCHANGED <<resources, grant, sent, ledgers, history>>,
         pc' = [pc EXCEPT ![i] = "done"], faults' \in 0 .. MaxFaults,
         crashes' \in 0 .. MaxCrashes
  PROVE  IInv'
<1>1. TypeOK'
  BY SameLimits DEF IInv, TypeOK, ledgers, history
<1>2. GrantsBounded' /\ AttemptsPaid'
  BY EndingIsPaid DEF IInv, TypeOK, history
<1>3. UnknownBlocks' /\ OverrunIsMarked'
  BY SameLedgers DEF history
<1> QED BY <1>1, <1>2, <1>3 DEF IInv

LEMMA SucceedKeeps ==
  ASSUME IInv, NEW i \in Invocations, Succeed(i)
  PROVE  IInv'
<1>1. PICK input \in {0} \cup grant[i].estimate .. grant[i].estimate + Overshoot,
           output \in 0 .. (IF grant[i].cap = 0 THEN Uncapped ELSE grant[i].cap) :
        LET priced == Priced /\ input + output > 0 IN
        Mutate(i, "done",
          /\ Record(i, Usage(sent[i], input, output), Unreported(i), priced)
          /\ share' = [share EXCEPT ![i] = Untold(i, sent[i] - 1)]
          /\ recorded' = recorded \cup {i}
          /\ unknown' = IF sent[i] > 1 \/ ~ priced THEN unknown \cup {i} ELSE unknown
          /\ spent' = [spent EXCEPT
                         ![i] = @ - WorstCost(i) + input * InputPrice + output * OutputPrice]
          /\ UNCHANGED timedOut,
          UNCHANGED <<ledgers, history>>)
  BY DEF Succeed
<1> DEFINE priced == Priced /\ input + output > 0
           n == sent[i] - 1
           cost == spent[i] - WorstCost(i) + input * InputPrice + output * OutputPrice
<1>2. UNCHANGED <<resources, grant, sent>> /\ pc[i] = "reserved" /\ sent[i] > 0
  BY DEF Succeed
<1>3. /\ pc' = [pc EXCEPT ![i] = "done"]
      /\ faults' \in 0 .. MaxFaults /\ crashes' = crashes
  BY <1>1, BudgetAssumption DEF Mutate, Goto, IInv, TypeOK
<1>4. input \in Nat /\ output \in Nat /\ n \in Nat /\ sent[i] \in Nat
  <2>1. sent[i] \in 0 .. MaxAttempts /\ MaxAttempts \in Nat
    BY ModelType DEF IInv, TypeOK
  <2>2. n \in Nat /\ sent[i] \in Nat
    BY <1>2, <2>1
  <2> QED BY <1>1, <2>2, GrantType, BudgetAssumption DEF IInv
<1>5. input * InputPrice \in Nat /\ output * OutputPrice \in Nat
  BY <1>4, ModelType, Product DEF IInv, TypeOK
<1>6. PICK usage \in Amounts :
        usage = Usage(sent[i], input, output) /\ usage.invocations = sent[i]
  <2>1. /\ Usage(sent[i], input, output) \in Amounts
        /\ Usage(sent[i], input, output).invocations = sent[i]
    BY <1>4, <1>5 DEF Usage, Amounts, Dimensions
  <2> QED BY <2>1
<1>7. cost \in Nat
  <2>1. WorstCost(i) \in Nat /\ spent[i] \in Nat /\ WorstCost(i) <= spent[i]
    BY <1>2, WorstCostType DEF IInv, TypeOK, AttemptsPaid
  <2> QED BY <1>5, <2>1
<1>8. CASE /\ Record(i, usage, n, priced)
           /\ share' = [share EXCEPT ![i] = Untold(i, n)]
           /\ recorded' = recorded \cup {i}
           /\ unknown' = IF sent[i] > 1 \/ ~ priced THEN unknown \cup {i} ELSE unknown
           /\ spent' = [spent EXCEPT ![i] = cost]
           /\ UNCHANGED timedOut
  <2>1. unknown' = unknown \/ (usage.invocations > 0 /\ (n > 0 \/ ~ priced))
    <3> HIDE DEF priced
    <3> QED BY <1>2, <1>4, <1>6, <1>8
  <2>2. unknown' = unknown \/ unknown' = unknown \cup {i}
    BY <1>8
  <2> HIDE DEF priced, cost, n
  <2> QED BY <1>2, <1>3, <1>4, <1>6, <1>7, <1>8, <2>1, <2>2, ChargeKeeps
<1>9. CASE UNCHANGED <<ledgers, history>>
  BY <1>2, <1>3, <1>9, LostChargeKeeps DEF IInv, TypeOK
<1> QED BY <1>1, <1>6, <1>8, <1>9 DEF Mutate, Unreported

\* A failure is charged for some number of attempts, without any usage.
LEMMA FailureUsage ==
  ASSUME TypeOK, NEW n \in Nat
  PROVE  /\ Usage(n, 0, 0) \in Amounts
         /\ Usage(n, 0, 0)["invocations"] = n /\ Usage(n, 0, 0)["cost"] = 0
<1>1. 0 * InputPrice + 0 * OutputPrice = 0
  BY ModelType DEF TypeOK
<1> QED BY <1>1 DEF Usage, Amounts, Dimensions

LEMMA ChargeFailureKeeps ==
  ASSUME IInv, NEW i \in Invocations, NEW n \in Nat, ChargeFailure(i, n), n > 0 \/ sent[i] = 0,
         UNCHANGED <<resources, grant, sent>>, pc[i] = "reserved",
         pc' = [pc EXCEPT ![i] = "done"], faults' \in 0 .. MaxFaults, crashes' = crashes,
         \/ timedOut' = timedOut
         \/ timedOut' = timedOut \cup {i} /\ sent[i] < grant[i].attempts
  PROVE  IInv'
<1>1. PICK usage \in Amounts : usage = Usage(n, 0, 0) /\ usage.invocations = n
  BY FailureUsage DEF IInv
<1>2. sent[i] \in Nat /\ spent[i] \in Nat
  BY ModelType DEF IInv, TypeOK
<1>3. /\ Record(i, usage, n, FALSE) /\ share' = [share EXCEPT ![i] = Untold(i, n)]
      /\ recorded' = recorded \cup {i}
      /\ unknown' = IF sent[i] > 0 THEN unknown \cup {i} ELSE unknown
  BY <1>1 DEF ChargeFailure
<1>4. spent' = [spent EXCEPT ![i] = spent[i]]
  BY DEF ChargeFailure, IInv, TypeOK
<1>5. /\ unknown' = unknown \/ unknown' = unknown \cup {i}
      /\ unknown' = unknown \/ (usage.invocations > 0 /\ (n > 0 \/ ~ FALSE))
  BY <1>1, <1>2, <1>3
<1> QED BY <1>2, <1>3, <1>4, <1>5, ChargeKeeps

\* The ways to end with an error, with the charge or without.
LEMMA FailKeeps ==
  ASSUME IInv, NEW i \in Invocations, Fail(i) \/ Timeout(i)
  PROVE  IInv'
<1>1. UNCHANGED <<resources, grant, sent>> /\ pc[i] = "reserved"
  BY DEF Fail, Timeout
<1>2. /\ pc' = [pc EXCEPT ![i] = "done"]
      /\ faults' \in 0 .. MaxFaults /\ crashes' = crashes
  <2>1. /\ pc' = [pc EXCEPT ![i] = "done"] /\ crashes' = crashes
        /\ faults' = faults \/ (faults < MaxFaults /\ faults' = faults + 1)
    BY DEF Fail, Timeout, Mutate, Goto
  <2>2. faults \in 0 .. MaxFaults /\ MaxFaults \in Nat
    BY BudgetAssumption DEF IInv, TypeOK
  <2> QED BY <2>1, <2>2
<1>3. sent[i] \in Nat
  BY ModelType DEF IInv, TypeOK
<1>4. CASE ChargeFailure(i, sent[i]) /\ UNCHANGED timedOut
  <2>1. sent[i] > 0 \/ sent[i] = 0
    BY <1>3
  <2> QED BY <1>1, <1>2, <1>3, <1>4, <2>1, ChargeFailureKeeps
<1>5. CASE ChargeFailure(i, 1) /\ timedOut' = timedOut \cup {i} /\ sent[i] < grant[i].attempts
  <2>1. PICK n \in Nat : n = 1
    OBVIOUS
  <2>2. ChargeFailure(i, n) /\ (n > 0 \/ sent[i] = 0)
    BY <1>5, <2>1
  <2> QED BY <1>1, <1>2, <1>5, <2>2, ChargeFailureKeeps
<1>6. CASE UNCHANGED <<ledgers, history>>
  BY <1>1, <1>2, <1>6, LostChargeKeeps DEF IInv, TypeOK
<1> QED BY <1>4, <1>5, <1>6 DEF Fail, Timeout, Mutate

LEMMA CrashKeeps ==
  ASSUME IInv, NEW i \in Invocations, Crash(i)
  PROVE  IInv'
<1>1. crashes' \in 0 .. MaxCrashes
  BY BudgetAssumption DEF Crash, IInv, TypeOK
<1> QED BY <1>1, LostChargeKeeps DEF Crash, Goto, IInv, TypeOK

LEMMA StepKeeps == IInv /\ [Next]_vars => IInv'
<1> SUFFICES ASSUME IInv, [Next]_vars PROVE IInv'
  OBVIOUS
<1>1. ASSUME NEW i \in Invocations,
             \/ Prepare(i) \/ Admit(i) \/ Block(i) \/ Withdraw(i)
             \/ Attempt(i) \/ Succeed(i) \/ Fail(i) \/ Timeout(i) \/ Crash(i)
      PROVE  IInv'
  BY <1>1, PrepareKeeps, AdmitKeeps, BlockKeeps, WithdrawKeeps, AttemptKeeps,
     SucceedKeeps, FailKeeps, CrashKeeps
<1>2. CASE UNCHANGED vars
  <2>1. TypeOK' /\ GrantsBounded'
    BY <1>2, SameLimits DEF vars, IInv, TypeOK, GrantsBounded
  <2>2. AttemptsPaid'
    BY <1>2, SameWorstCost, SameLimits DEF vars, IInv, AttemptsPaid
  <2>3. UnknownBlocks' /\ OverrunIsMarked'
    BY <1>2, SameLedgers DEF vars, ledgers
  <2> QED BY <2>1, <2>2, <2>3 DEF IInv
<1> QED BY <1>1, <1>2 DEF Next

-----------------------------------------------------------------------------
(* The theorems.                                                           *)

\* The ledgers and the grants keep to their types; no invocation dispatches
\* more attempts than its Model configures, whatever was granted and failed.
THEOREM BudgetTypeCorrect == Spec => []TypeOK
<1>1. Init => IInv BY InitEstablishes
<1>2. IInv /\ [Next]_vars => IInv' BY StepKeeps
<1>3. IInv => TypeOK BY DEF IInv
<1> QED BY <1>1, <1>2, <1>3, PTL DEF Spec

\* No admission commits a scope to more than its limits, for any budgets and
\* any invocations at once: a scope beyond a limit got there by the usage of a
\* charge, which marked it (preflight, _reservation_plan, _apply_overruns).
THEOREM OverrunMarked == Spec => []OverrunIsMarked
<1>1. Init => IInv BY InitEstablishes
<1>2. IInv /\ [Next]_vars => IInv' BY StepKeeps
<1>3. IInv => OverrunIsMarked BY DEF IInv
<1> QED BY <1>1, <1>2, <1>3, PTL DEF Spec

LEMMA OnlyAdmitReserves ==
  ASSUME IInv, NEW i \in Invocations, NEW k \in Invocations,
         pc[i] = "prepared", pc'[i] = "reserved",
         \/ Prepare(k) \/ Admit(k) \/ Block(k) \/ Withdraw(k)
         \/ Attempt(k) \/ Succeed(k) \/ Fail(k) \/ Timeout(k) \/ Crash(k)
  PROVE  k = i /\ Admit(i)
<1>1. CASE Prepare(k)
  BY <1>1 DEF Prepare, Goto, IInv, TypeOK
<1>2. CASE Admit(k)
  <2>1. pc' = [pc EXCEPT ![k] = "reserved"] \/ pc' = [pc EXCEPT ![k] = "done"]
    BY <1>2 DEF Admit, Mutate, Goto
  <2> QED BY <1>2, <2>1 DEF IInv, TypeOK
<1>3. CASE Block(k)
  BY <1>3 DEF Block, Goto, IInv, TypeOK
<1>4. CASE Withdraw(k)
  BY <1>4 DEF Withdraw, Mutate, Goto, IInv, TypeOK
<1>5. CASE Attempt(k)
  BY <1>5 DEF Attempt
<1>6. CASE Succeed(k)
  <2>1. pc' = [pc EXCEPT ![k] = "done"]
    BY <1>6 DEF Succeed, Mutate, Goto
  <2> QED BY <2>1 DEF IInv, TypeOK
<1>7. CASE Fail(k) \/ Timeout(k)
  <2>1. pc' = [pc EXCEPT ![k] = "done"]
    BY <1>7 DEF Fail, Timeout, Mutate, Goto
  <2> QED BY <2>1 DEF IInv, TypeOK
<1>8. CASE Crash(k)
  BY <1>8 DEF Crash, Goto, IInv, TypeOK
<1> QED BY <1>1, <1>2, <1>3, <1>4, <1>5, <1>6, <1>7, <1>8

\* After spend that nobody can account for, a scope that bounds the cost admits
\* nothing more, for any budgets and any invocations at once (record,
\* _check_scope).
THEOREM UnknownStops == Spec => UnknownSpendStops
<1>1. Init => IInv BY InitEstablishes
<1>2. IInv /\ [Next]_vars => IInv' BY StepKeeps
<1>3. IInv /\ [Next]_vars =>
        [\A i \in Invocations, j \in unknown :
           pc[i] = "prepared" /\ pc'[i] = "reserved" =>
             Bounding(i, "cost") \cap ScopesOf(j) = {}]_vars
  <2> SUFFICES ASSUME IInv, Next, NEW i \in Invocations, NEW j \in unknown,
                      pc[i] = "prepared", pc'[i] = "reserved"
               PROVE  Bounding(i, "cost") \cap ScopesOf(j) = {}
    BY DEF IInv
  <2>1. Admit(i)
    BY OnlyAdmitReserves DEF Next
  <2>2. \A s \in ScopesOf(i) : s \notin blocked
    BY <2>1 DEF Admit, Admissible, ScopeAdmits
  <2>3. Bounding(j, "cost") \subseteq blocked
    BY DEF IInv, UnknownBlocks
  <2> QED BY <2>2, <2>3 DEF Bounding
<1> QED BY <1>1, <1>2, <1>3, PTL DEF Spec, UnknownSpendStops

-----------------------------------------------------------------------------
(* Sums over the invocations.                                              *)

Counts == [Invocations -> Nat]

Against(s) == {i \in Invocations : s \in ScopesOf(i)}

LEMMA UnitsOfOne ==
  ASSUME NEW i, NEW n \in Nat
  PROVE  IsFiniteSet({i} \X (1 .. n)) /\ Cardinality({i} \X (1 .. n)) = n
<1>1. IsFiniteSet({i}) /\ Cardinality({i}) = 1
  BY FS_Singleton
<1>2. IsFiniteSet(1 .. n) /\ Cardinality(1 .. n) = n
  BY FS_Interval
<1>3. PICK S : S = {i}
  OBVIOUS
<1>4. PICK T : T = 1 .. n
  OBVIOUS
<1>5. IsFiniteSet(S \X T) /\ Cardinality(S \X T) = Cardinality(S) * Cardinality(T)
  BY <1>1, <1>2, <1>3, <1>4, FS_Product
<1>6. 1 * n = n
  OBVIOUS
<1> QED BY <1>1, <1>2, <1>3, <1>4, <1>5, <1>6

LEMMA UnitsFinite ==
  ASSUME NEW f \in Counts, NEW s
  PROVE  IsFiniteSet(Units(f, s)) /\ Total(f, s) \in Nat
<1> DEFINE S == Against(s)
           T == {{i} \X (1 .. f[i]) : i \in S}
           F == [i \in S |-> {i} \X (1 .. f[i])]
<1>1. IsFiniteSet(S)
  <2>1. S \in SUBSET Invocations
    BY DEF Against
  <2> QED BY <2>1, BudgetAssumption, FS_Subset
<1>2. F \in Surjection(S, T)
  BY DEF Surjection
<1>3. IsFiniteSet(T)
  <2> HIDE DEF S, T, F
  <2> QED BY <1>1, <1>2, FS_Surjection
<1>4. \A U \in T : IsFiniteSet(U)
  <2> SUFFICES ASSUME NEW i \in S PROVE IsFiniteSet({i} \X (1 .. f[i]))
    OBVIOUS
  <2>1. f[i] \in Nat
    BY DEF Counts, Against
  <2> QED BY <2>1, UnitsOfOne
<1>5. Units(f, s) = UNION T
  BY DEF Units, Against
<1>6. IsFiniteSet(UNION T)
  <2> HIDE DEF T
  <2> QED BY <1>3, <1>4, FS_UNION
<1>7. IsFiniteSet(Units(f, s))
  BY <1>5, <1>6
<1>8. Cardinality(Units(f, s)) \in Nat
  BY <1>7, FS_CardinalityType
<1> QED BY <1>7, <1>8 DEF Total

\* Taking the units of one invocation away leaves those of the others.
LEMMA UnitsSplit ==
  ASSUME NEW f \in Counts, NEW s, NEW i \in Against(s)
  PROVE  LET R == UNION {{j} \X (1 .. f[j]) : j \in Against(s) \ {i}}
         IN  /\ IsFiniteSet(R) /\ Cardinality(R) \in Nat
             /\ Total(f, s) = Cardinality(R) + f[i]
<1> DEFINE R == UNION {{j} \X (1 .. f[j]) : j \in Against(s) \ {i}}
           A == {i} \X (1 .. f[i])
<1>1. f[i] \in Nat /\ IsFiniteSet(Units(f, s))
  BY UnitsFinite DEF Counts, Against
<1>2. IsFiniteSet(A) /\ Cardinality(A) = f[i]
  BY <1>1, UnitsOfOne
<1>3. Units(f, s) = R \cup A
  BY DEF Units, Against
<1>4. R \cap A = {}
  OBVIOUS
<1> HIDE DEF R, A
<1>5. IsFiniteSet(R)
  BY <1>1, <1>3, FS_Subset
<1>6. Cardinality(R) \in Nat /\ Cardinality({}) = 0
  BY <1>5, FS_CardinalityType, FS_EmptySet
<1>7. Cardinality(R \cup A) = Cardinality(R) + Cardinality(A) - Cardinality(R \cap A)
  BY <1>2, <1>5, FS_Union
<1>8. Cardinality(R \cap A) = 0
  BY <1>4, <1>6
<1>9. Total(f, s) = Cardinality(R \cup A)
  BY <1>3 DEF Total
<1>10. Total(f, s) = Cardinality(R) + f[i]
  BY <1>1, <1>2, <1>6, <1>7, <1>8, <1>9
<1> QED BY <1>5, <1>6, <1>10 DEF R

\* What one invocation adds to a sum, the sum moves by.
LEMMA SumChange ==
  ASSUME NEW f \in Counts, NEW g \in Counts, NEW i \in Invocations, NEW s,
         \A j \in Invocations \ {i} : g[j] = f[j]
  PROVE  /\ s \in ScopesOf(i) => /\ f[i] <= Total(f, s)
                                 /\ Total(g, s) = Total(f, s) - f[i] + g[i]
         /\ s \notin ScopesOf(i) => Total(g, s) = Total(f, s)
<1>1. ASSUME s \in ScopesOf(i)
      PROVE  f[i] <= Total(f, s) /\ Total(g, s) = Total(f, s) - f[i] + g[i]
  <2> DEFINE R == UNION {{j} \X (1 .. f[j]) : j \in Against(s) \ {i}}
             Q == UNION {{j} \X (1 .. g[j]) : j \in Against(s) \ {i}}
  <2>1. i \in Against(s) /\ f[i] \in Nat /\ g[i] \in Nat
    BY <1>1 DEF Against, Counts
  <2>2. Q = R
    BY DEF Against
  <2>3. Cardinality(R) \in Nat /\ Total(f, s) = Cardinality(R) + f[i]
    BY <2>1, UnitsSplit
  <2>4. Total(g, s) = Cardinality(Q) + g[i]
    BY <2>1, UnitsSplit
  <2> HIDE DEF R, Q
  <2> QED BY <2>1, <2>2, <2>3, <2>4
<1>2. ASSUME s \notin ScopesOf(i) PROVE Total(g, s) = Total(f, s)
  <2>1. Units(g, s) = Units(f, s)
    BY <1>2 DEF Units
  <2> QED BY <2>1 DEF Total
<1> QED BY <1>1, <1>2

\* A sum grows with its terms.
LEMMA SumGrows ==
  ASSUME NEW f \in Counts, NEW g \in Counts, NEW s,
         \A i \in Invocations : s \in ScopesOf(i) => f[i] <= g[i]
  PROVE  Total(f, s) <= Total(g, s)
<1>1. \A i \in Invocations : f[i] \in Nat /\ g[i] \in Nat
  BY DEF Counts
<1>2. Units(f, s) \subseteq Units(g, s)
  <2> SUFFICES ASSUME NEW i \in Invocations, s \in ScopesOf(i), NEW u \in {i} \X (1 .. f[i])
               PROVE  u \in {i} \X (1 .. g[i])
    BY DEF Units
  <2>1. f[i] \in Nat /\ g[i] \in Nat /\ f[i] <= g[i]
    BY <1>1
  <2>2. \A k \in 1 .. f[i] : k \in 1 .. g[i]
    BY <2>1
  <2> QED BY <2>2
<1>3. IsFiniteSet(Units(g, s))
  BY UnitsFinite
<1> QED BY <1>2, <1>3, FS_Subset DEF Total

LEMMA SumOfNothing ==
  ASSUME NEW f, NEW s, \A i \in Invocations : f[i] = 0
  PROVE  Total(f, s) = 0
<1>1. Units(f, s) = {}
  BY DEF Units
<1> QED BY <1>1, FS_EmptySet DEF Total

-----------------------------------------------------------------------------
(* The books.                                                              *)

\* The attempts that are charged, what the shares hold of a dimension, and what
\* an invocation counts for: once it is recorded, what the books know that it
\* used, and until then all that is its own.
Charged == [i \in Invocations |-> IF i \in recorded /\ Budgeted(i) THEN Charges(i) ELSE 0]
ShareOf(d) == [i \in Invocations |-> share[i][d]]
Claim(d) ==
  [i \in Invocations |->
     IF i \in recorded THEN IF d = "cost" THEN KnownCost(i) ELSE Charges(i) ELSE share[i][d]]

\* A Model without a limit of its output does not retry, or its output is free:
\* then every attempt that money bounds is granted a cap.
OutputIsCapped ==
  \A r \in Setups : r.outputPrice = 0 \/ r.tokenLimit > 0 \/ r.maxAttempts = 1

\* An invocation has what it was granted until it ends, and afterwards keeps
\* enough for what it has sent, unless that is recorded.
OwnAt(i) ==
  /\ i \in recorded => pc[i] = "done"
  /\ pc[i] \in {"new", "prepared"} => share[i] = Zero /\ spent[i] = 0
  /\ pc[i] = "prepared" => Budgeted(i)
  /\ pc[i] = "reserved" =>
       /\ share[i] = Times(grant[i].attempts, grant[i].each)
       /\ sent[i] <= grant[i].attempts /\ spent[i] = sent[i] * WorstCost(i)
       /\ IF Budgeted(i) THEN grant[i].each["invocations"] = 1 ELSE grant[i].each = Zero
       /\ OutputIsCapped /\ Bounded(i, "cost") =>
            /\ Priced /\ WorstCost(i) <= grant[i].each["cost"]
            /\ OutputPrice > 0 => grant[i].cap > 0
  /\ i \notin recorded =>
       /\ Budgeted(i) => sent[i] <= share[i]["invocations"]
       /\ OutputIsCapped /\ Bounded(i, "cost") => spent[i] <= share[i]["cost"]

OwnGrants == \A i \in Invocations : OwnAt(i)

UsedBalanced == \A s \in Scopes : used[s]["invocations"] = Total(Charged, s)
HeldBalanced == \A s \in Scopes, d \in Dimensions : held[s][d] = Total(ShareOf(d), s)
BlockedKnown == \A s \in blocked : \E i \in unknown \cup timedOut : s \in ScopesOf(i)

\* What is consumed and reserved of a limited dimension is enough for all the
\* claims on it.
ClaimsCovered ==
  \A s \in Scopes, d \in {"invocations", "cost"} :
    d \in DOMAIN Limit(s) /\ (d = "cost" => OutputIsCapped) =>
      Total(Claim(d), s) <= Committed(s, d)

\* The number of attempts is known, so that its limit is never exceeded.
AttemptsFit ==
  \A s \in Scopes : "invocations" \in DOMAIN Limit(s) =>
    Committed(s, "invocations") <= Limit(s)["invocations"]

BooksInv ==
  /\ OwnGrants /\ UsedBalanced /\ HeldBalanced /\ BlockedKnown /\ ClaimsCovered /\ AttemptsFit

LEMMA SameBudgets ==
  ASSUME resources' = resources
  PROVE  /\ \A i : Budgeted(i)' = Budgeted(i)
         /\ \A i, d : Bounded(i, d)' = Bounded(i, d)
         /\ Priced' = Priced /\ OutputPrice' = OutputPrice
<1>1. \A s : Limit(s)' = Limit(s)
  BY SameLimits
<1>2. \A i : Budgeted(i)' = Budgeted(i)
  BY <1>1 DEF Budgeted, ScopesOf
<1>3. \A i, d : Bounded(i, d)' = Bounded(i, d)
  BY <1>1 DEF Bounded, Bounding, ScopesOf
<1> QED BY <1>2, <1>3 DEF Priced, OutputPrice

\* An invocation that a dimension is limited for has a budget.
LEMMA LimitedIsBudgeted ==
  ASSUME NEW i, NEW s \in ScopesOf(i), NEW d \in DOMAIN Limit(s)
  PROVE  Budgeted(i) /\ Bounded(i, d)
BY DEF Budgeted, Bounded, Bounding

LEMMA AmountsOf ==
  ASSUME TypeOK, NEW i \in Invocations
  PROVE  /\ sent[i] \in Nat /\ spent[i] \in Nat /\ share[i] \in Amounts
         /\ \A d \in Dimensions : share[i][d] \in Nat
BY ModelType DEF TypeOK, Amounts

\* What the books know of an invocation.
LEMMA KnownType ==
  ASSUME TypeOK, NEW i \in Invocations
  PROVE  /\ Charges(i) \in Nat /\ Known(i) \in Nat /\ KnownCost(i) \in Nat
         /\ Known(i) <= sent[i] /\ Known(i) <= Charges(i)
<1>1. sent[i] \in Nat /\ spent[i] \in Nat /\ WorstCost(i) \in Nat
  BY AmountsOf, WorstCostType
<1>2. /\ Charges(i) \in Nat /\ Known(i) \in Nat
      /\ Known(i) <= sent[i] /\ Known(i) <= Charges(i)
  BY <1>1 DEF Charges, Known, Smaller
<1>3. Known(i) * WorstCost(i) \in Nat
  BY <1>1, <1>2, Product
<1> QED BY <1>1, <1>2, <1>3 DEF KnownCost

LEMMA KnownSame ==
  ASSUME resources' = resources, NEW i, grant'[i] = grant[i], sent'[i] = sent[i],
         spent'[i] = spent[i], i \in timedOut' <=> i \in timedOut
  PROVE  Charges(i)' = Charges(i) /\ KnownCost(i)' = KnownCost(i)
<1>1. WorstCost(i)' = WorstCost(i)
  BY SameWorstCost
<1> QED BY <1>1 DEF Charges, Known, KnownCost

LEMMA SumsAreCounts ==
  ASSUME TypeOK
  PROVE  /\ Charged \in Counts
         /\ \A d \in Dimensions : ShareOf(d) \in Counts /\ Claim(d) \in Counts
<1>1. \A i \in Invocations : /\ Charges(i) \in Nat /\ KnownCost(i) \in Nat
                             /\ \A d \in Dimensions : share[i][d] \in Nat
  BY AmountsOf, KnownType
<1> QED BY <1>1 DEF Charged, ShareOf, Claim, Counts

LEMMA BooksStart == Init => BooksInv
<1> SUFFICES ASSUME Init PROVE BooksInv
  OBVIOUS
<1>1. TypeOK
  BY InitEstablishes DEF IInv
<1>2. OwnGrants
  <2> SUFFICES ASSUME NEW i \in Invocations PROVE OwnAt(i)
    BY DEF OwnGrants
  <2>1. pc[i] = "new" /\ share[i] = Zero /\ spent[i] = 0 /\ sent[i] = 0 /\ recorded = {}
    BY DEF Init
  <2>2. 0 <= Zero["invocations"] /\ 0 <= Zero["cost"]
    BY DEF Zero, Dimensions
  <2> QED BY <2>1, <2>2 DEF OwnAt
<1>3. \A s \in Scopes, d \in Dimensions : used[s][d] = 0 /\ held[s][d] = 0
  BY DEF Init, Zero
<1>4. \A s : Total(Charged, s) = 0
  <2>1. \A i \in Invocations : Charged[i] = 0
    BY DEF Init, Charged
  <2> QED BY <2>1, SumOfNothing
<1>5. \A s, d : d \in Dimensions => Total(ShareOf(d), s) = 0
  <2> SUFFICES ASSUME NEW s, NEW d \in Dimensions PROVE Total(ShareOf(d), s) = 0
    OBVIOUS
  <2>1. \A i \in Invocations : ShareOf(d)[i] = 0
    BY DEF Init, ShareOf, Zero
  <2> QED BY <2>1, SumOfNothing
<1>6. \A s, d : d \in Dimensions => Total(Claim(d), s) = 0
  <2> SUFFICES ASSUME NEW s, NEW d \in Dimensions PROVE Total(Claim(d), s) = 0
    OBVIOUS
  <2>1. \A i \in Invocations : Claim(d)[i] = 0
    BY DEF Init, Claim, Zero
  <2> QED BY <2>1, SumOfNothing
<1>7. UsedBalanced /\ HeldBalanced /\ BlockedKnown
  BY <1>3, <1>4, <1>5 DEF UsedBalanced, HeldBalanced, BlockedKnown, Init, Dimensions
<1>8. ClaimsCovered
  BY <1>3, <1>6 DEF ClaimsCovered, Committed, Dimensions
<1>9. AttemptsFit
  <2> SUFFICES ASSUME NEW s \in Scopes, "invocations" \in DOMAIN Limit(s)
               PROVE  Committed(s, "invocations") <= Limit(s)["invocations"]
    BY DEF AttemptsFit
  <2>1. Limit(s)["invocations"] \in Nat
    BY <1>1, LimitType DEF TypeOK
  <2> QED BY <1>3, <2>1 DEF Committed, Dimensions
<1> QED BY <1>2, <1>7, <1>8, <1>9 DEF BooksInv

-----------------------------------------------------------------------------
(* What a grant promises.                                                  *)

LEMMA PlanDetails ==
  ASSUME LedgersOK, NEW i \in Invocations, NEW e \in Estimates, Admissible(i, e)
  PROVE  /\ Plan(i, e).each["invocations"] = 1 /\ Plan(i, e).estimate = e
         /\ Plan(i, e).cap \in Nat
         /\ Bounded(i, "cost") =>
              Priced /\ Plan(i, e).each["cost"] = AttemptCost(e, Plan(i, e).cap)
<1>1. PICK plan :
        /\ Feasible(i, e, plan)
        /\ Plan(i, e) =
             [attempts |-> plan.attempts, cap |-> plan.cap, estimate |-> e,
              each |-> [invocations |-> 1, input |-> e,
                        output |-> IF Bounded(i, "output") THEN plan.cap ELSE 0,
                        cost |-> IF Priced THEN AttemptCost(e, plan.cap) ELSE 0]]
  BY PlanFits
<1>2. Bounded(i, "cost") => Priced
  BY DEF Admissible, ScopeAdmits, Bounded, Bounding
<1> QED BY <1>1, <1>2 DEF Feasible

\* With one attempt, the money that admits it pays for a token.
LEMMA FirstCapIsPositive ==
  ASSUME LedgersOK, NEW i \in Invocations, NEW e \in Estimates, Admissible(i, e),
         OutputIsCapped, Bounded(i, "cost"), OutputPrice > 0, NEW n, n = AttemptLimit(i, e)
  PROVE  OutputCap(i, e, n) > 0
<1>1. CASE Bounded(i, "output")
  <2>1. n \in Nat \ {0}
    BY AttemptLimitFits
  <2> QED BY <1>1, <2>1, FewerAttemptsShare DEF OutputCap
<1>2. CASE ~ Bounded(i, "output") /\ TokenLimit # 0
  BY <1>2, ModelType DEF OutputCap, LedgersOK
<1>3. CASE ~ Bounded(i, "output") /\ TokenLimit = 0
  <2>1. n = 1
    <3>1. MaxAttempts = 1
      BY <1>3 DEF OutputIsCapped, LedgersOK, OutputPrice, TokenLimit, MaxAttempts
    <3> QED BY <3>1, AttemptLimitFits
  <2>2. /\ Room(i, "cost") \in Int /\ AttemptCost(e, 1) <= Room(i, "cost")
    BY RoomForOne DEF Least, Dimensions
  <2>3. Priced /\ e \in Nat /\ InputPrice \in Nat /\ OutputPrice \in Nat \ {0}
    BY PlanDetails, BudgetAssumption, ModelType DEF LedgersOK
  <2>4. e * InputPrice \in Nat
    BY <2>3, Product
  <2>5. AttemptCost(e, 1) = e * InputPrice + OutputPrice
    BY <2>3 DEF AttemptCost, Larger
  <2> DEFINE left == Room(i, "cost") - n * e * InputPrice
  <2>6. /\ left \in Int /\ OutputPrice <= left /\ n * OutputPrice = OutputPrice
    <3>1. n * e = e /\ n * OutputPrice = OutputPrice
      BY <2>1, <2>3
    <3> QED BY <2>2, <2>3, <2>4, <2>5, <3>1
  <2>7. OutputCap(i, e, n) = left \div OutputPrice
    BY <1>3, <2>3, <2>6 DEF OutputCap
  <2> HIDE DEF left
  <2>8. left \div OutputPrice \in Int /\ left \div OutputPrice >= 1
    BY <2>3, <2>6, Division
  <2> QED BY <2>7, <2>8
<1> QED BY <1>1, <1>2, <1>3

LEMMA FitCostCap ==
  ASSUME LedgersOK, NEW i \in Invocations, NEW e \in Estimates, Admissible(i, e),
         Bounded(i, "cost"), NEW plan, Feasible(i, e, plan), plan.cap > 0
  PROVE  FitCost(i, e, plan).cap > 0
<1>1. Feasible(i, e, FitCost(i, e, plan))
  BY FitCostFits
<1> DEFINE n == Larger(1, Room(i, "cost") \div AttemptCost(e, plan.cap))
<1>2. CASE FitCost(i, e, plan) = plan
  BY <1>2
<1>3. CASE FitCost(i, e, plan) # plan
  <2>1. FitCost(i, e, plan) =
          [attempts |-> n, cap |-> IF Bounded(i, "output") THEN ShareOfOutput(i, n) ELSE plan.cap]
    BY <1>3 DEF FitCost
  <2> HIDE DEF n
  <2>2. n \in Nat \ {0} /\ n <= AttemptLimit(i, e)
    BY <1>1, <2>1 DEF Feasible
  <2>3. Bounded(i, "output") => ShareOfOutput(i, n) \in Nat \ {0}
    BY <2>2, FewerAttemptsShare
  <2> QED BY <2>1, <2>3
<1> QED BY <1>2, <1>3

LEMMA CapIsPositive ==
  ASSUME LedgersOK, NEW i \in Invocations, NEW e \in Estimates, Admissible(i, e),
         OutputIsCapped, Bounded(i, "cost"), OutputPrice > 0
  PROVE  Plan(i, e).cap > 0
<1> DEFINE n == AttemptLimit(i, e)
           first == [attempts |-> n, cap |-> OutputCap(i, e, n)]
           second == FitCost(i, e, first)
           third == FitCost(i, e, second)
           last == FitCost(i, e, third)
<1>1. Feasible(i, e, first) /\ first.cap > 0
  BY OutputCapFits, FirstCapIsPositive
<1>2. Feasible(i, e, second) /\ second.cap > 0
  <2> HIDE DEF first
  <2> QED BY <1>1, FitCostFits, FitCostCap
<1>3. Feasible(i, e, third) /\ third.cap > 0
  <2> HIDE DEF second
  <2> QED BY <1>2, FitCostFits, FitCostCap
<1>4. last.cap > 0
  <2> HIDE DEF third
  <2> QED BY <1>3, FitCostCap
<1>5. Plan(i, e).cap = last.cap
  BY DEF Plan
<1> QED BY <1>4, <1>5

\* An attempt costs at most what is reserved for it.
LEMMA WorstIsReserved ==
  ASSUME LedgersOK, NEW i \in Invocations, NEW e \in Estimates, Admissible(i, e),
         OutputIsCapped, Bounded(i, "cost"), NEW g, g = Plan(i, e)
  PROVE  e * InputPrice + (IF g.cap = 0 THEN Uncapped ELSE g.cap) * OutputPrice
           <= g.each["cost"]
<1>1. /\ g.cap \in Nat /\ g.each["cost"] = AttemptCost(e, g.cap)
      /\ e \in Nat /\ Uncapped \in Nat /\ InputPrice \in Nat /\ OutputPrice \in Nat
  BY PlanDetails, ModelType, BudgetAssumption DEF LedgersOK
<1>2. e * InputPrice \in Nat
  BY <1>1, Product
<1>3. CASE OutputPrice > 0
  <2>1. g.cap > 0
    BY <1>3, CapIsPositive
  <2>2. Larger(1, g.cap) = g.cap /\ g.cap # 0
    BY <1>1, <2>1 DEF Larger
  <2>3. g.cap * OutputPrice \in Nat
    BY <1>1, Product
  <2> QED BY <1>1, <1>2, <2>2, <2>3 DEF AttemptCost
<1>4. CASE OutputPrice = 0
  <2>1. Larger(1, g.cap) \in Nat
    BY <1>1 DEF Larger
  <2>2. Larger(1, g.cap) * OutputPrice = 0
    BY <1>4, <2>1
  <2>3. (IF g.cap = 0 THEN Uncapped ELSE g.cap) * OutputPrice = 0
    BY <1>1, <1>4
  <2> QED BY <1>1, <1>2, <2>2, <2>3 DEF AttemptCost
<1> QED BY <1>1, <1>3, <1>4

-----------------------------------------------------------------------------
(* The steps: what an invocation owns.                                     *)

\* An invocation that a step does not concern.
LEMMA OwnSame ==
  ASSUME resources' = resources, NEW j, OwnAt(j), pc'[j] = pc[j], grant'[j] = grant[j],
         sent'[j] = sent[j], spent'[j] = spent[j], share'[j] = share[j],
         j \in recorded' <=> j \in recorded
  PROVE  OwnAt(j)'
<1>1. /\ Budgeted(j)' = Budgeted(j) /\ \A d : Bounded(j, d)' = Bounded(j, d)
      /\ Priced' = Priced /\ OutputPrice' = OutputPrice
  BY SameBudgets
<1>2. WorstCost(j)' = WorstCost(j)
  BY SameWorstCost
<1> QED BY <1>1, <1>2 DEF OwnAt, OutputIsCapped

\* An invocation that ends with what it has.
LEMMA OwnDone ==
  ASSUME resources' = resources, NEW j, OwnAt(j), pc'[j] = "done",
         sent'[j] = sent[j], spent'[j] = spent[j], share'[j] = share[j],
         j \in recorded' <=> j \in recorded
  PROVE  OwnAt(j)'
BY SameBudgets DEF OwnAt, OutputIsCapped

\* An invocation that is recorded.
LEMMA OwnRecorded ==
  ASSUME NEW j, pc'[j] = "done", j \in recorded'
  PROVE  OwnAt(j)'
BY DEF OwnAt

LEMMA NextWorstCost ==
  ASSUME TypeOK, resources' = resources, NEW i, grant'[i] \in Grants
  PROVE  WorstCost(i)' \in Nat
<1>1. grant'[i].estimate \in Nat /\ grant'[i].cap \in Nat
  BY DEF Grants
<1>2. /\ InputPrice' \in Nat /\ OutputPrice' \in Nat /\ Uncapped \in Nat
  BY ModelType, SameLimits, BudgetAssumption DEF TypeOK
<1>3. grant'[i].estimate * InputPrice' \in Nat
  BY <1>1, <1>2, Product
<1>4. (IF grant'[i].cap = 0 THEN Uncapped ELSE grant'[i].cap) * OutputPrice' \in Nat
  BY <1>1, <1>2, Product
<1> QED BY <1>3, <1>4 DEF WorstCost

LEMMA OwnPrepare ==
  ASSUME IInv, IInv', OwnGrants, NEW i \in Invocations, Prepare(i)
  PROVE  OwnAt(i)'
<1>1. resources' = resources /\ UNCHANGED <<sent, share, recorded, spent>> /\ pc[i] = "new"
  BY DEF Prepare, history
<1>2. OwnAt(i) /\ sent[i] = 0 /\ share[i] = Zero /\ spent[i] = 0 /\ i \notin recorded
  BY <1>1 DEF OwnGrants, OwnAt, IInv, AttemptsPaid
<1>3. 0 <= Zero["invocations"] /\ 0 <= Zero["cost"]
  BY DEF Zero, Dimensions
<1>4. CASE pc'[i] = "done"
  BY <1>1, <1>2, <1>4, OwnDone
<1>5. CASE pc'[i] = "prepared"
  <2>1. Budgeted(i)'
    <3>1. Budgeted(i)
      BY <1>5 DEF Prepare, Goto, IInv, TypeOK
    <3> QED BY <1>1, <3>1, SameBudgets
  <2> QED BY <1>1, <1>2, <1>3, <1>5, <2>1 DEF OwnAt
<1>6. CASE pc'[i] = "reserved"
  <2>1. ~ Budgeted(i) /\ \E e \in Estimates :
          grant' = [grant EXCEPT ![i] = [NoGrant EXCEPT !.attempts = MaxAttempts,
                                           !.cap = TokenLimit, !.estimate = e]]
    BY <1>6 DEF Prepare, Goto, IInv, TypeOK
  <2>2. grant'[i].each = Zero /\ grant'[i].attempts = MaxAttempts
    BY <2>1 DEF IInv, TypeOK, NoGrant
  <2>3. MaxAttempts \in Nat
    BY ModelType DEF IInv, TypeOK
  <2>4. Times(MaxAttempts, Zero) = Zero
    BY <2>3 DEF Times, Zero
  <2>5. ~ Budgeted(i)' /\ ~ Bounded(i, "cost")'
    <3>1. ~ Bounded(i, "cost")
      BY <2>1 DEF Budgeted, Bounded, Bounding
    <3> QED BY <1>1, <2>1, <3>1, SameBudgets
  <2>6. 0 * WorstCost(i)' = 0
    <3>1. WorstCost(i)' \in Nat
      BY <1>1, NextWorstCost DEF IInv, TypeOK
    <3> QED BY <3>1
  <2> QED BY <1>1, <1>2, <1>6, <2>2, <2>3, <2>4, <2>5, <2>6 DEF OwnAt
<1>7. pc'[i] \in {"done", "prepared", "reserved"}
  BY DEF Prepare, Goto, IInv, TypeOK
<1> QED BY <1>4, <1>5, <1>6, <1>7

LEMMA OwnAdmit ==
  ASSUME IInv, OwnGrants, NEW i \in Invocations, NEW e \in Estimates, Admissible(i, e),
         NEW g, g = Plan(i, e), resources' = resources, pc[i] = "prepared",
         pc'[i] \in {"reserved", "done"}, grant'[i] = g, share'[i] = Times(g.attempts, g.each),
         UNCHANGED <<sent, recorded, spent>>
  PROVE  OwnAt(i)'
<1>1. OwnAt(i) /\ sent[i] = 0 /\ spent[i] = 0 /\ i \notin recorded
  BY DEF OwnGrants, OwnAt, IInv, AttemptsPaid
<1>2. LedgersOK
  BY DEF LedgersOK, IInv, TypeOK
<1>3. g \in Grants /\ g.attempts \in Nat /\ g.each["invocations"] = 1 /\ g.estimate = e
  BY <1>2, GrantFits, PlanDetails DEF Grants
<1>4. Budgeted(i) /\ Budgeted(i)'
  BY <1>1, SameBudgets DEF OwnAt
<1>5. share'[i] \in Amounts /\ 0 <= share'[i]["invocations"] /\ 0 <= share'[i]["cost"]
  <2>1. Times(g.attempts, g.each) \in Amounts
    BY <1>3, AmountsClosed DEF Grants, Amounts
  <2> QED BY <2>1 DEF Amounts, Dimensions
<1>6. WorstCost(i)' = e * InputPrice + (IF g.cap = 0 THEN Uncapped ELSE g.cap) * OutputPrice
  BY <1>3, SameLimits DEF WorstCost
<1>7. 0 * WorstCost(i)' = 0
  <2>1. WorstCost(i)' \in Nat
    BY <1>3, NextWorstCost DEF IInv
  <2> QED BY <2>1
<1>8. OutputIsCapped /\ Bounded(i, "cost") =>
        /\ Priced /\ WorstCost(i)' <= g.each["cost"]
        /\ OutputPrice > 0 => g.cap > 0
  BY <1>2, <1>6, PlanDetails, WorstIsReserved, CapIsPositive
<1>9. /\ Bounded(i, "cost")' = Bounded(i, "cost") /\ Priced' = Priced
      /\ OutputPrice' = OutputPrice
  BY SameBudgets
<1>10. OutputIsCapped' = OutputIsCapped
  BY DEF OutputIsCapped
<1> QED BY <1>1, <1>3, <1>4, <1>5, <1>7, <1>8, <1>9, <1>10 DEF OwnAt

LEMMA OwnWithdraw ==
  ASSUME IInv, OwnGrants, NEW i \in Invocations, resources' = resources, pc[i] = "reserved",
         sent[i] = 0, pc'[i] = "done", share'[i] = Zero, UNCHANGED <<sent, recorded, spent>>
  PROVE  OwnAt(i)'
<1>1. i \notin recorded /\ spent[i] = 0 * WorstCost(i)
  BY DEF OwnGrants, OwnAt
<1>2. WorstCost(i) \in Nat
  BY WorstCostType DEF IInv
<1>3. spent[i] = 0 /\ 0 <= Zero["invocations"] /\ 0 <= Zero["cost"]
  BY <1>1, <1>2 DEF Zero, Dimensions
<1> QED BY <1>1, <1>3 DEF OwnAt

LEMMA OwnAttempt ==
  ASSUME IInv, OwnGrants, NEW i \in Invocations, Attempt(i)
  PROVE  OwnAt(i)'
<1>1. /\ UNCHANGED <<resources, pc, grant, share, recorded>> /\ pc[i] = "reserved"
      /\ sent'[i] = sent[i] + 1 /\ spent'[i] = spent[i] + WorstCost(i)
      /\ sent[i] < grant[i].attempts
  BY DEF Attempt, IInv, TypeOK
<1>2. OwnAt(i) /\ i \notin recorded
  BY <1>1 DEF OwnGrants, OwnAt
<1>3. /\ sent[i] \in Nat /\ grant[i].attempts \in Nat /\ WorstCost(i) \in Nat
      /\ WorstCost(i)' = WorstCost(i) /\ grant[i].each \in Amounts
  BY <1>1, AmountsOf, GrantType, WorstCostType, SameWorstCost DEF IInv
<1>4. PICK m, n, c : m = grant[i].attempts /\ n = sent[i] + 1 /\ c = WorstCost(i)
  OBVIOUS
<1>5. m \in Nat /\ n \in Nat /\ c \in Nat /\ n <= m /\ spent'[i] = n * c
  <2>1. spent'[i] = sent[i] * c + c
    BY <1>1, <1>2, <1>4 DEF OwnAt
  <2>2. \A k \in Nat : k * c + c = (k + 1) * c
    BY <1>3, <1>4
  <2> QED BY <1>1, <1>3, <1>4, <2>1, <2>2
<1>6. Budgeted(i) => n <= share[i]["invocations"]
  <2> SUFFICES ASSUME Budgeted(i) PROVE n <= share[i]["invocations"]
    OBVIOUS
  <2>1. share[i]["invocations"] = m * 1
    BY <1>1, <1>2, <1>4 DEF OwnAt, Times, Dimensions
  <2> QED BY <1>5, <2>1
<1>7. OutputIsCapped /\ Bounded(i, "cost") => n * c <= share[i]["cost"]
  <2> SUFFICES ASSUME OutputIsCapped, Bounded(i, "cost") PROVE n * c <= share[i]["cost"]
    OBVIOUS
  <2>1. PICK x : x = grant[i].each["cost"]
    OBVIOUS
  <2>2. share[i]["cost"] = m * x /\ x \in Nat /\ c <= x
    BY <1>1, <1>2, <1>3, <1>4, <2>1 DEF OwnAt, Times, Dimensions, Amounts
  <2>3. n * c <= m * c /\ c * m <= x * m
    BY <1>5, <2>2, ProductMonotone
  <2>4. n * c \in Nat /\ m * c \in Nat /\ m * x \in Nat /\ c * m = m * c /\ x * m = m * x
    BY <1>5, <2>2, Product
  <2> QED BY <2>2, <2>3, <2>4
<1>8. Budgeted(i)' = Budgeted(i) /\ Bounded(i, "cost")' = Bounded(i, "cost")
      /\ Priced' = Priced /\ OutputPrice' = OutputPrice /\ OutputIsCapped' = OutputIsCapped
  BY <1>1, SameBudgets DEF OutputIsCapped
<1> QED BY <1>1, <1>2, <1>3, <1>4, <1>5, <1>6, <1>7, <1>8 DEF OwnAt

-----------------------------------------------------------------------------
(* The steps: the sums.                                                    *)

\* A step that charges nothing.
LEMMA NothingCharged ==
  ASSUME BooksInv, UNCHANGED <<resources, used, blocked, recorded, timedOut>>,
         unknown \subseteq unknown',
         \A i \in recorded : sent'[i] = sent[i]
  PROVE  UsedBalanced' /\ BlockedKnown'
<1>1. UsedBalanced'
  <2>1. Charged' = Charged
    BY SameBudgets DEF Charged, Charges
  <2>2. \A s : Total(Charged, s)' = Total(Charged, s)
    BY <2>1 DEF Total, Units, ScopesOf
  <2> QED BY <2>2 DEF BooksInv, UsedBalanced
<1>2. BlockedKnown'
  BY DEF BooksInv, BlockedKnown, ScopesOf
<1> QED BY <1>1, <1>2

\* A step that leaves the ledgers alone, and what is recorded or its own.
LEMMA BooksSame ==
  ASSUME IInv, BooksInv, UNCHANGED <<resources, used, held, blocked, share, recorded, timedOut>>,
         unknown \subseteq unknown',
         \A i \in recorded : sent'[i] = sent[i] /\ spent'[i] = spent[i] /\ grant'[i] = grant[i]
  PROVE  UsedBalanced' /\ HeldBalanced' /\ BlockedKnown' /\ ClaimsCovered' /\ AttemptsFit'
<1>1. \A d : ShareOf(d)' = ShareOf(d) /\ Claim(d)' = Claim(d)
  <2>1. \A i \in recorded : Charges(i)' = Charges(i) /\ KnownCost(i)' = KnownCost(i)
    BY KnownSame
  <2> QED BY <2>1 DEF ShareOf, Claim
<1>2. UsedBalanced' /\ BlockedKnown'
  BY NothingCharged
<1>3. HeldBalanced'
  <2>1. \A s, d : Total(ShareOf(d), s)' = Total(ShareOf(d), s)
    BY <1>1 DEF Total, Units, ScopesOf
  <2> QED BY <2>1 DEF BooksInv, HeldBalanced
<1>4. ClaimsCovered'
  <2>1. \A s, d : Total(Claim(d), s)' = Total(Claim(d), s)
    BY <1>1 DEF Total, Units, ScopesOf
  <2> QED BY <2>1, SameLimits DEF BooksInv, ClaimsCovered, Committed, OutputIsCapped
<1>5. AttemptsFit'
  BY SameLimits DEF BooksInv, AttemptsFit, Committed
<1> QED BY <1>2, <1>3, <1>4, <1>5

\* The ledgers hold more by what an invocation's share grows.
LEMMA HeldFollows ==
  ASSUME TypeOK, TypeOK', HeldBalanced, NEW i \in Invocations,
         \A j \in Invocations \ {i} : share'[j] = share[j],
         \A s \in Scopes, d \in Dimensions :
           held'[s][d] = IF s \in ScopesOf(i) THEN held[s][d] - share[i][d] + share'[i][d]
                         ELSE held[s][d]
  PROVE  HeldBalanced'
<1> SUFFICES ASSUME NEW s \in Scopes, NEW d \in Dimensions
             PROVE  held'[s][d] = Total(ShareOf(d), s)'
  BY DEF HeldBalanced
<1>1. PICK f, g : f = ShareOf(d) /\ g = [j \in Invocations |-> share'[j][d]]
  OBVIOUS
<1>2. f \in Counts /\ f[i] = share[i][d]
  BY <1>1, SumsAreCounts DEF ShareOf
<1>3. g \in Counts /\ g[i] = share'[i][d]
  BY <1>1 DEF TypeOK, Amounts, Counts
<1>4. \A j \in Invocations \ {i} : g[j] = f[j]
  BY <1>1 DEF ShareOf
<1>5. /\ s \in ScopesOf(i) => Total(g, s) = Total(f, s) - f[i] + g[i]
      /\ s \notin ScopesOf(i) => Total(g, s) = Total(f, s)
  BY <1>2, <1>3, <1>4, SumChange
<1>6. held[s][d] = Total(f, s)
  BY <1>1 DEF HeldBalanced
<1>7. Total(ShareOf(d), s)' = Total(g, s)
  BY <1>1 DEF Total, Units, ScopesOf, ShareOf
<1> QED BY <1>2, <1>3, <1>5, <1>6, <1>7

\* What an invocation claims anew, the ledgers got.
LEMMA ClaimsFollow ==
  ASSUME TypeOK, TypeOK', ClaimsCovered, resources' = resources,
         NEW i \in Invocations, i \notin recorded,
         \A j \in Invocations \ {i} : /\ share'[j] = share[j] /\ sent'[j] = sent[j]
                                      /\ spent'[j] = spent[j] /\ grant'[j] = grant[j]
                                      /\ j \in recorded' <=> j \in recorded
                                      /\ j \in timedOut' <=> j \in timedOut,
         \A d \in {"invocations", "cost"} : (Claim(d)')[i] \in Nat,
         \A s \in Scopes \ ScopesOf(i) : used'[s] = used[s] /\ held'[s] = held[s],
         \A s \in ScopesOf(i), d \in {"invocations", "cost"} :
           d \in DOMAIN Limit(s) /\ (d = "cost" => OutputIsCapped) =>
             (Claim(d)')[i] + Committed(s, d) <= Committed(s, d)' + share[i][d]
  PROVE  ClaimsCovered'
<1> SUFFICES ASSUME NEW s \in Scopes, NEW d \in {"invocations", "cost"},
                    d \in DOMAIN Limit(s), d = "cost" => OutputIsCapped
             PROVE  Total(Claim(d), s)' <= Committed(s, d)'
  BY SameLimits DEF ClaimsCovered, OutputIsCapped
<1>0. d \in Dimensions
  BY DEF Dimensions
<1>1. PICK f, g : f = Claim(d) /\ g = Claim(d)'
  OBVIOUS
<1>2. f \in Counts /\ f[i] = share[i][d]
  BY <1>0, <1>1, SumsAreCounts DEF Claim
<1>3. \A j \in Invocations \ {i} : g[j] = f[j]
  <2>1. \A j \in Invocations \ {i} : Charges(j)' = Charges(j) /\ KnownCost(j)' = KnownCost(j)
    BY KnownSame
  <2> QED BY <1>1, <2>1 DEF Claim
<1>4. g \in Counts
  <2>1. \A j \in Invocations : g[j] \in Nat
    BY <1>1, <1>2, <1>3 DEF Counts
  <2>2. g = [j \in Invocations |-> g[j]]
    BY <1>1 DEF Claim
  <2> QED BY <2>1, <2>2 DEF Counts
<1>5. /\ s \in ScopesOf(i) => Total(g, s) = Total(f, s) - f[i] + g[i]
      /\ s \notin ScopesOf(i) => Total(g, s) = Total(f, s)
  BY <1>2, <1>3, <1>4, SumChange
<1>6. Total(f, s) <= Committed(s, d)
  BY <1>1 DEF ClaimsCovered
<1>7. Total(Claim(d), s)' = Total(g, s)
  BY <1>1 DEF Total, Units, ScopesOf
<1>8. Total(f, s) \in Nat /\ f[i] \in Nat /\ g[i] \in Nat
  BY <1>2, <1>4, UnitsFinite DEF Counts
<1>9. Committed(s, d) \in Nat /\ Committed(s, d)' \in Nat
  BY <1>0 DEF Committed, TypeOK, Amounts
<1>10. CASE s \in ScopesOf(i)
  <2>1. g[i] + Committed(s, d) <= Committed(s, d)' + f[i]
    BY <1>1, <1>2, <1>10
  <2> QED BY <1>5, <1>6, <1>7, <1>8, <1>9, <1>10, <2>1
<1>11. CASE s \notin ScopesOf(i)
  <2>1. Committed(s, d)' = Committed(s, d)
    BY <1>11 DEF Committed
  <2> QED BY <1>5, <1>6, <1>7, <1>11, <2>1
<1> QED BY <1>10, <1>11

\* The charged attempts change by those of an invocation that is recorded.
LEMMA UsedFollows ==
  ASSUME TypeOK, TypeOK', UsedBalanced, resources' = resources, sent' = sent,
         NEW i \in Invocations, i \notin recorded, recorded' = recorded \cup {i},
         \A j \in Invocations \ {i} : j \in timedOut' <=> j \in timedOut,
         NEW m \in Nat, Charges(i)' = m,
         \A s \in Scopes :
           used'[s]["invocations"] =
             IF s \in ScopesOf(i) /\ Budgeted(i) THEN used[s]["invocations"] + m
             ELSE used[s]["invocations"]
  PROVE  UsedBalanced'
<1> SUFFICES ASSUME NEW s \in Scopes
             PROVE  used'[s]["invocations"] = Total(Charged, s)'
  BY DEF UsedBalanced
<1>1. PICK f, g : f = Charged /\ g = Charged'
  OBVIOUS
<1>2. f \in Counts /\ f[i] = 0
  BY <1>1, SumsAreCounts DEF Charged
<1>3. g[i] = (IF Budgeted(i) THEN m ELSE 0)
      /\ \A j \in Invocations \ {i} : g[j] = f[j]
  <2>1. \A j \in Invocations \ {i} : Charges(j)' = Charges(j)
    BY DEF Charges
  <2> QED BY <1>1, <2>1, SameBudgets DEF Charged
<1>4. g \in Counts
  <2>1. \A j \in Invocations : g[j] \in Nat
    BY <1>2, <1>3 DEF Counts
  <2>2. g = [j \in Invocations |-> g[j]]
    BY <1>1 DEF Charged
  <2> QED BY <2>1, <2>2 DEF Counts
<1>5. /\ s \in ScopesOf(i) => Total(g, s) = Total(f, s) - f[i] + g[i]
      /\ s \notin ScopesOf(i) => Total(g, s) = Total(f, s)
  BY <1>2, <1>3, <1>4, SumChange
<1>6. used[s]["invocations"] = Total(f, s) /\ Total(f, s) \in Nat
  BY <1>1, <1>2, UnitsFinite DEF UsedBalanced
<1>7. Total(Charged, s)' = Total(g, s)
  BY <1>1 DEF Total, Units, ScopesOf
<1> QED BY <1>2, <1>3, <1>5, <1>6, <1>7

\* The share of an invocation is in the ledgers of its scopes.
LEMMA ShareIsHeld ==
  ASSUME TypeOK, HeldBalanced, NEW i \in Invocations, NEW s \in ScopesOf(i), NEW d \in Dimensions
  PROVE  share[i][d] <= held[s][d]
<1>1. PICK f : f = ShareOf(d)
  OBVIOUS
<1>2. f \in Counts /\ f[i] = share[i][d] /\ s \in Scopes
  BY <1>1, SumsAreCounts, ScopesOfType DEF ShareOf
<1>3. f[i] <= Total(f, s)
  BY <1>2, SumChange
<1> QED BY <1>1, <1>2, <1>3 DEF HeldBalanced

\* To give a reservation back takes it out of the ledgers, and no more.
LEMMA ReturnedIsShare ==
  ASSUME IInv, BooksInv, NEW i \in Invocations, pc[i] = "reserved",
         NEW s \in ScopesOf(i), NEW d \in Dimensions
  PROVE  Returned(i, s)[d] = held[s][d] - share[i][d]
<1>1. share[i][d] = grant[i].attempts * grant[i].each[d]
  BY DEF BooksInv, OwnGrants, OwnAt, Times
<1>2. share[i][d] <= held[s][d]
  BY ShareIsHeld DEF IInv, BooksInv
<1>3. share[i][d] \in Nat /\ held[s][d] \in Nat
  BY AmountsOf, ScopesOfType DEF IInv, TypeOK, Amounts
<1>4. Returned(i, s)[d] = Larger(0, held[s][d] - share[i][d])
  BY <1>1 DEF Returned, Monus, Times
<1> QED BY <1>2, <1>3, <1>4 DEF Larger

\* What is kept for attempts that told no usage is what the invocation keeps.
LEMMA KeptIsUntold ==
  ASSUME IInv, OwnGrants, NEW i \in Invocations, pc[i] = "reserved", NEW n \in Nat,
         n <= grant[i].attempts
  PROVE  Kept(i, n) = Untold(i, n)
<1>1. grant[i].attempts \in Nat
  BY GrantType DEF IInv
<1>2. Smaller(n, grant[i].attempts) = n
  BY <1>1 DEF Smaller
<1> QED BY <1>2 DEF Kept, Untold

-----------------------------------------------------------------------------
(* The steps: the books.                                                   *)

\* What a charge does to the ledgers of an invocation, and to its own.
LEMMA RecordEffect ==
  ASSUME IInv, BooksInv, NEW i \in Invocations, pc[i] = "reserved",
         NEW usage \in Amounts, NEW n \in Nat, n <= grant[i].attempts, NEW priced,
         Record(i, usage, n, priced), share' = [share EXCEPT ![i] = Untold(i, n)]
  PROVE  /\ \A s \in Scopes \ ScopesOf(i) : used'[s] = used[s] /\ held'[s] = held[s]
         /\ Budgeted(i) => \A s \in ScopesOf(i), d \in Dimensions :
              /\ used'[s][d] = used[s][d] + usage[d]
              /\ held'[s][d] = held[s][d] - share[i][d] + share'[i][d]
         /\ ~ Budgeted(i) => UNCHANGED <<used, held, share>>
         /\ share'[i] = Untold(i, n)
<1>0. share'[i] = Untold(i, n) /\ \A s \in ScopesOf(i) : s \in Scopes
  BY ScopesOfType DEF IInv, TypeOK
<1>1. CASE Budgeted(i)
  <2>1. Charge(i, usage, n, priced)
    BY <1>1 DEF Record
  <2>2. \A s \in Scopes \ ScopesOf(i) : used'[s] = used[s] /\ held'[s] = held[s]
    BY <2>1 DEF Charge
  <2>3. ASSUME NEW s \in ScopesOf(i), NEW d \in Dimensions
        PROVE  /\ used'[s][d] = used[s][d] + usage[d]
               /\ held'[s][d] = held[s][d] - share[i][d] + share'[i][d]
    <3>1. used'[s] = Plus(used[s], usage) /\ held'[s] = Plus(Returned(i, s), Kept(i, n))
      BY <1>0, <2>1 DEF Charge
    <3>2. Kept(i, n) = share'[i]
      BY <1>0, KeptIsUntold DEF BooksInv
    <3>3. Returned(i, s)[d] = held[s][d] - share[i][d]
      BY ReturnedIsShare
    <3> QED BY <3>1, <3>2, <3>3 DEF Plus
  <2> QED BY <1>0, <1>1, <2>2, <2>3
<1>2. CASE ~ Budgeted(i)
  <2>1. UNCHANGED ledgers
    BY <1>2 DEF Record
  <2>2. grant[i].each = Zero /\ share[i] = Times(grant[i].attempts, grant[i].each)
    BY <1>2 DEF BooksInv, OwnGrants, OwnAt
  <2>3. Untold(i, n) = Zero /\ share[i] = Zero
    <3>1. grant[i].attempts \in Nat
      BY GrantType DEF IInv
    <3>2. \A k \in Nat : Times(k, Zero) = Zero
      BY DEF Times, Zero
    <3>3. [Zero EXCEPT !.invocations = 0] = Zero
      BY DEF Zero
    <3> QED BY <2>2, <3>1, <3>2, <3>3 DEF Untold
  <2>4. share' = share
    BY <2>3 DEF IInv, TypeOK
  <2> QED BY <1>0, <1>2, <2>1, <2>4 DEF ledgers
<1> QED BY <1>1, <1>2

\* A charge keeps the books, if the money that it does not charge stays reserved.
LEMMA RecordBooks ==
  ASSUME IInv, IInv', BooksInv, NEW i \in Invocations, pc[i] = "reserved",
         NEW usage \in Amounts, NEW m \in Nat, usage["invocations"] = m, Charges(i)' = m,
         m <= grant[i].attempts,
         NEW n \in Nat, n <= grant[i].attempts, NEW priced, Record(i, usage, n, priced),
         resources' = resources, grant' = grant, sent' = sent,
         pc' = [pc EXCEPT ![i] = "done"],
         share' = [share EXCEPT ![i] = Untold(i, n)],
         recorded' = recorded \cup {i}, unknown \subseteq unknown',
         timedOut' = timedOut \/ timedOut' = timedOut \cup {i},
         m > 0 /\ (n > 0 \/ ~ priced) => i \in unknown' \cup timedOut',
         NEW c \in Nat, spent' = [spent EXCEPT ![i] = c],
         NEW x \in Nat, KnownCost(i)' = x,
         OutputIsCapped /\ Bounded(i, "cost") =>
           x <= usage["cost"] + n * grant[i].each["cost"]
  PROVE  BooksInv'
<1>1. /\ \A s \in Scopes \ ScopesOf(i) : used'[s] = used[s] /\ held'[s] = held[s]
      /\ Budgeted(i) => \A s \in ScopesOf(i), d \in Dimensions :
           /\ used'[s][d] = used[s][d] + usage[d]
           /\ held'[s][d] = held[s][d] - share[i][d] + share'[i][d]
      /\ ~ Budgeted(i) => UNCHANGED <<used, held, share>>
      /\ share'[i] = Untold(i, n)
  BY RecordEffect
<1>2. /\ \A j \in Invocations \ {i} : /\ share'[j] = share[j] /\ spent'[j] = spent[j]
                                      /\ pc'[j] = pc[j] /\ j \in recorded' <=> j \in recorded
                                      /\ j \in timedOut' <=> j \in timedOut
      /\ i \in recorded' /\ pc'[i] = "done" /\ spent'[i] = c
  BY DEF IInv, TypeOK
<1>3. i \notin recorded /\ (Budgeted(i) => m <= share[i]["invocations"])
  <2>1. i \notin recorded
    BY DEF BooksInv, OwnGrants, OwnAt
  <2>2. Budgeted(i) => share[i]["invocations"] = grant[i].attempts * 1
    <3>1. /\ share[i] = Times(grant[i].attempts, grant[i].each)
          /\ Budgeted(i) => grant[i].each["invocations"] = 1
      BY DEF BooksInv, OwnGrants, OwnAt
    <3> QED BY <3>1 DEF Times, Dimensions
  <2>3. grant[i].attempts \in Nat
    BY GrantType DEF IInv
  <2> QED BY <2>1, <2>2, <2>3
<1>4. /\ TypeOK /\ TypeOK' /\ \A s \in ScopesOf(i) : s \in Scopes
      /\ "invocations" \in Dimensions /\ "cost" \in Dimensions
  BY ScopesOfType DEF IInv, Dimensions
<1>5. \A s \in Scopes, d \in Dimensions :
        /\ used[s][d] \in Nat /\ held[s][d] \in Nat /\ usage[d] \in Nat
        /\ used'[s][d] \in Nat /\ held'[s][d] \in Nat
        /\ share[i][d] \in Nat /\ share'[i][d] \in Nat
  BY <1>4 DEF TypeOK, Amounts
<1>6. /\ share'[i]["invocations"] = 0 /\ share'[i]["cost"] = n * grant[i].each["cost"]
  <2>1. PICK t : t = Times(n, grant[i].each)
    OBVIOUS
  <2>2. DOMAIN t = Dimensions /\ t["cost"] = n * grant[i].each["cost"]
    BY <1>4, <2>1 DEF Times
  <2>3. share'[i] = [t EXCEPT !.invocations = 0]
    BY <1>1, <2>1 DEF Untold
  <2>4. share'[i]["invocations"] = 0 /\ share'[i]["cost"] = t["cost"]
    BY <2>2, <2>3 DEF Dimensions
  <2> QED BY <2>2, <2>4
<1>7. OwnGrants'
  <2> SUFFICES ASSUME NEW j \in Invocations PROVE OwnAt(j)'
    BY DEF OwnGrants
  <2>1. CASE j = i
    BY <1>2, <2>1, OwnRecorded
  <2>2. CASE j # i
    BY <1>2, <2>2, OwnSame DEF BooksInv, OwnGrants
  <2> QED BY <2>1, <2>2
<1>8. UsedBalanced'
  <2>1. ASSUME NEW s \in Scopes
        PROVE  used'[s]["invocations"] =
                 IF s \in ScopesOf(i) /\ Budgeted(i) THEN used[s]["invocations"] + m
                 ELSE used[s]["invocations"]
    <3>1. CASE s \in ScopesOf(i) /\ Budgeted(i)
      BY <1>1, <1>4, <3>1
    <3>2. CASE s \notin ScopesOf(i)
      BY <1>1, <3>2
    <3>3. CASE ~ Budgeted(i)
      BY <1>1, <3>3
    <3> QED BY <3>1, <3>2, <3>3
  <2> QED BY <1>2, <1>3, <1>4, <2>1, UsedFollows DEF BooksInv
<1>9. HeldBalanced'
  <2>1. ASSUME NEW s \in Scopes, NEW d \in Dimensions
        PROVE  held'[s][d] = IF s \in ScopesOf(i) THEN held[s][d] - share[i][d] + share'[i][d]
                             ELSE held[s][d]
    <3>1. CASE s \in ScopesOf(i) /\ Budgeted(i)
      BY <1>1, <3>1
    <3>2. CASE s \notin ScopesOf(i)
      BY <1>1, <3>2
    <3>3. CASE s \in ScopesOf(i) /\ ~ Budgeted(i)
      BY <1>1, <1>5, <3>3
    <3> QED BY <3>1, <3>2, <3>3
  <2> QED BY <1>2, <1>4, <2>1, HeldFollows DEF BooksInv
<1>10. ClaimsCovered'
  <2>1. ASSUME NEW s \in ScopesOf(i), NEW d \in {"invocations", "cost"},
               d \in DOMAIN Limit(s), d = "cost" => OutputIsCapped
        PROVE  (Claim(d)')[i] + Committed(s, d) <= Committed(s, d)' + share[i][d]
    <3>1. Budgeted(i) /\ Bounded(i, d) /\ d \in Dimensions
      BY <1>4, <2>1, LimitedIsBudgeted
    <3>2. Committed(s, d)' + share[i][d] = Committed(s, d) + usage[d] + share'[i][d]
      <4>1. /\ used'[s][d] = used[s][d] + usage[d]
            /\ held'[s][d] = held[s][d] - share[i][d] + share'[i][d]
        BY <1>1, <3>1
      <4> QED BY <1>4, <1>5, <3>1, <4>1 DEF Committed
    <3>3. (Claim(d)')[i] = IF d = "cost" THEN x ELSE m
      BY <1>2 DEF Claim
    <3>4. (Claim(d)')[i] <= usage[d] + share'[i][d] /\ (Claim(d)')[i] \in Nat
      <4>2. CASE d = "cost"
        BY <1>6, <2>1, <3>1, <3>3, <4>2
      <4>3. CASE d = "invocations"
        BY <1>5, <1>6, <3>3, <4>3
      <4> QED BY <4>2, <4>3
    <3>5. Committed(s, d) \in Nat /\ usage[d] \in Nat /\ share'[i][d] \in Nat
      BY <1>4, <1>5, <3>1 DEF Committed
    <3> QED BY <3>2, <3>4, <3>5
  <2>2. \A d \in {"invocations", "cost"} : (Claim(d)')[i] \in Nat
    BY <1>2 DEF Claim
  <2> QED BY <1>1, <1>2, <1>3, <1>4, <2>1, <2>2, ClaimsFollow DEF BooksInv
<1>11. AttemptsFit'
  <2> SUFFICES ASSUME NEW s \in Scopes, "invocations" \in DOMAIN Limit(s)
               PROVE  Committed(s, "invocations")' <= Limit(s)["invocations"]
    BY SameLimits DEF AttemptsFit
  <2>1. Committed(s, "invocations") <= Limit(s)["invocations"]
    BY DEF BooksInv, AttemptsFit
  <2>2. Limit(s)["invocations"] \in Nat
    BY <1>4, LimitType DEF TypeOK
  <2>3. CASE s \in ScopesOf(i)
    <3>1. Budgeted(i)
      BY <2>3, LimitedIsBudgeted
    <3>2. /\ used'[s]["invocations"] = used[s]["invocations"] + m
          /\ held'[s]["invocations"] = held[s]["invocations"] - share[i]["invocations"] + 0
      BY <1>1, <1>4, <1>6, <2>3, <3>1
    <3> QED BY <1>3, <1>4, <1>5, <2>1, <2>2, <3>1, <3>2 DEF Committed
  <2>4. CASE s \notin ScopesOf(i)
    BY <1>1, <2>1, <2>4 DEF Committed
  <2> QED BY <2>3, <2>4
<1>12. BlockedKnown'
  <2> SUFFICES ASSUME NEW s \in blocked' PROVE \E j \in unknown' \cup timedOut' : s \in ScopesOf(j)
    BY DEF BlockedKnown, ScopesOf
  <2>1. CASE s \in blocked
    BY <2>1 DEF BooksInv, BlockedKnown
  <2>2. CASE s \notin blocked
    <3>1. s \in Bounding(i, "cost") /\ m > 0 /\ (n > 0 \/ ~ priced)
      BY <2>2 DEF Record, Charge, ledgers
    <3> QED BY <3>1 DEF Bounding
  <2> QED BY <2>1, <2>2
<1> QED BY <1>7, <1>8, <1>9, <1>10, <1>11, <1>12 DEF BooksInv

\* The other invocations own what they did.
LEMMA OthersOwn ==
  ASSUME OwnGrants, resources' = resources, NEW i \in Invocations, OwnAt(i)',
         \A j \in Invocations \ {i} : /\ pc'[j] = pc[j] /\ grant'[j] = grant[j]
                                      /\ sent'[j] = sent[j] /\ spent'[j] = spent[j]
                                      /\ share'[j] = share[j]
                                      /\ j \in recorded' <=> j \in recorded
  PROVE  OwnGrants'
<1> SUFFICES ASSUME NEW j \in Invocations PROVE OwnAt(j)'
  BY DEF OwnGrants
<1>1. CASE j = i
  BY <1>1
<1>2. CASE j # i
  BY <1>2, OwnSame DEF OwnGrants
<1> QED BY <1>1, <1>2

\* An invocation that ends and leaves everything as it is.
LEMMA EndingBooks ==
  ASSUME IInv, BooksInv, NEW i \in Invocations, pc[i] # "done", pc' = [pc EXCEPT ![i] = "done"],
         UNCHANGED <<resources, used, held, blocked, sent, share, recorded, timedOut, unknown, spent>>,
         \A j \in Invocations \ {i} : grant'[j] = grant[j]
  PROVE  BooksInv'
<1>1. pc'[i] = "done" /\ \A j \in Invocations \ {i} : pc'[j] = pc[j]
  BY DEF IInv, TypeOK
<1>2. OwnAt(i)'
  BY <1>1, OwnDone DEF BooksInv, OwnGrants
<1>3. OwnGrants'
  BY <1>1, <1>2, OthersOwn DEF BooksInv
<1>4. i \notin recorded /\ recorded \subseteq Invocations
  BY DEF BooksInv, OwnGrants, OwnAt, IInv, TypeOK
<1> QED BY <1>3, <1>4, BooksSame DEF BooksInv

LEMMA PrepareBooks ==
  ASSUME IInv, IInv', BooksInv, NEW i \in Invocations, Prepare(i)
  PROVE  BooksInv'
<1>1. UNCHANGED <<resources, used, held, blocked, sent, share, recorded, timedOut, unknown, spent>>
  BY DEF Prepare, ledgers, history
<1>2. \A j \in Invocations \ {i} : pc'[j] = pc[j] /\ grant'[j] = grant[j]
  BY DEF Prepare, Goto, IInv, TypeOK
<1>3. OwnAt(i)'
  BY OwnPrepare DEF BooksInv
<1>4. OwnGrants'
  BY <1>1, <1>2, <1>3, OthersOwn DEF BooksInv
<1>5. i \notin recorded /\ recorded \subseteq Invocations
  BY DEF Prepare, BooksInv, OwnGrants, OwnAt, IInv, TypeOK
<1> QED BY <1>1, <1>2, <1>4, <1>5, BooksSame DEF BooksInv

LEMMA ReserveBooks ==
  ASSUME IInv, IInv', BooksInv, NEW i \in Invocations, pc[i] = "prepared",
         NEW e \in Estimates, Admissible(i, e), NEW g, g = Plan(i, e), Reserve(i, g),
         UNCHANGED <<resources, used, blocked, sent, recorded, timedOut, unknown, spent>>,
         NEW point \in {"reserved", "done"}, pc' = [pc EXCEPT ![i] = point],
         grant' = [grant EXCEPT ![i] = g]
  PROVE  BooksInv'
<1>0. LedgersOK /\ TypeOK /\ TypeOK' /\ \A s \in ScopesOf(i) : s \in Scopes
  BY ScopesOfType DEF LedgersOK, IInv, TypeOK
<1>1. /\ pc'[i] = point /\ grant'[i] = g /\ share'[i] = Times(g.attempts, g.each)
      /\ \A j \in Invocations \ {i} : /\ pc'[j] = pc[j] /\ grant'[j] = grant[j]
                                      /\ share'[j] = share[j]
  BY <1>0 DEF TypeOK, Reserve
<1>2. share[i] = Zero /\ i \notin recorded
  BY DEF BooksInv, OwnGrants, OwnAt
<1>3. \A s \in Scopes, d \in Dimensions :
        /\ held[s][d] \in Nat /\ used[s][d] \in Nat
        /\ share'[i][d] \in Nat /\ share[i][d] = 0
  BY <1>0, <1>2 DEF TypeOK, Amounts, Zero
<1>4. \A s \in Scopes, d \in Dimensions :
        held'[s][d] = IF s \in ScopesOf(i) THEN held[s][d] + share'[i][d] ELSE held[s][d]
  BY <1>1 DEF Reserve, Plus
<1>5. OwnGrants'
  <2>1. OwnAt(i)'
    BY <1>1, OwnAdmit DEF BooksInv
  <2> QED BY <1>1, <2>1, OthersOwn DEF BooksInv
<1>6. UsedBalanced' /\ BlockedKnown'
  BY NothingCharged
<1>7. HeldBalanced'
  <2>1. ASSUME NEW s \in Scopes, NEW d \in Dimensions
        PROVE  held'[s][d] = IF s \in ScopesOf(i) THEN held[s][d] - share[i][d] + share'[i][d]
                             ELSE held[s][d]
    <3>1. CASE s \in ScopesOf(i)
      <4>1. held'[s][d] = held[s][d] + share'[i][d]
        BY <1>4, <3>1
      <4> QED BY <1>3, <3>1, <4>1
    <3>2. CASE s \notin ScopesOf(i)
      BY <1>4, <3>2
    <3> QED BY <3>1, <3>2
  <2> QED BY <1>0, <1>1, <2>1, HeldFollows DEF BooksInv
<1>8. ClaimsCovered'
  <2>1. ASSUME NEW s \in ScopesOf(i), NEW d \in {"invocations", "cost"}
        PROVE  (Claim(d)')[i] + Committed(s, d) <= Committed(s, d)' + share[i][d]
    <3>1. (Claim(d)')[i] = share'[i][d]
      BY <1>2 DEF Claim
    <3>2. d \in Dimensions /\ s \in Scopes
      BY <1>0 DEF Dimensions
    <3>3. held'[s][d] = held[s][d] + share'[i][d]
      BY <1>4, <3>2
    <3> QED BY <1>3, <3>1, <3>2, <3>3 DEF Committed
  <2>2. \A s \in Scopes \ ScopesOf(i) : used'[s] = used[s] /\ held'[s] = held[s]
    BY DEF Reserve
  <2>3. \A d \in {"invocations", "cost"} : (Claim(d)')[i] \in Nat
    <3>1. share'[i] \in Amounts
      BY <1>0 DEF TypeOK
    <3> QED BY <1>2, <3>1 DEF Claim, Amounts, Dimensions
  <2> QED BY <1>0, <1>1, <1>2, <2>1, <2>2, <2>3, ClaimsFollow DEF BooksInv
<1>9. AttemptsFit'
  <2> SUFFICES ASSUME NEW s \in Scopes, "invocations" \in DOMAIN Limit(s)
               PROVE  Committed(s, "invocations")' <= Limit(s)["invocations"]
    BY SameLimits DEF AttemptsFit
  <2>0. "invocations" \in Dimensions
    BY DEF Dimensions
  <2>1. CASE s \in ScopesOf(i)
    <3>1. Committed(s, "invocations") + g.attempts * g.each["invocations"]
            <= Limit(s)["invocations"]
      BY <1>0, <2>0, <2>1, GrantFits
    <3>2. share'[i]["invocations"] = g.attempts * g.each["invocations"]
      BY <1>1, <2>0 DEF Times
    <3>3. held'[s]["invocations"] = held[s]["invocations"] + share'[i]["invocations"]
      BY <1>4, <2>0, <2>1
    <3>4. Committed(s, "invocations")' =
            Committed(s, "invocations") + share'[i]["invocations"]
      BY <1>3, <2>0, <3>3 DEF Committed
    <3> QED BY <3>1, <3>2, <3>4
  <2>2. CASE s \notin ScopesOf(i)
    BY <1>4, <2>0, <2>2 DEF BooksInv, AttemptsFit, Committed
  <2> QED BY <2>1, <2>2
<1> QED BY <1>5, <1>6, <1>7, <1>8, <1>9 DEF BooksInv

LEMMA AdmitBooks ==
  ASSUME IInv, IInv', BooksInv, NEW i \in Invocations, Admit(i)
  PROVE  BooksInv'
<1>1. PICK e \in Estimates :
        /\ Admissible(i, e)
        /\ grant' = [grant EXCEPT ![i] = Plan(i, e)]
        /\ Mutate(i, "reserved", Reserve(i, Plan(i, e)), UNCHANGED <<held, share>>)
  BY DEF Admit
<1>2. /\ UNCHANGED <<resources, used, blocked, overrun, sent, recorded, timedOut, unknown, spent>>
      /\ pc[i] = "prepared"
  BY DEF Admit
<1>3. PICK point \in {"reserved", "done"} :
        /\ pc' = [pc EXCEPT ![i] = point]
        /\ Reserve(i, Plan(i, e)) \/ (point = "done" /\ UNCHANGED <<held, share>>)
  BY <1>1 DEF Mutate, Goto
<1>4. CASE Reserve(i, Plan(i, e))
  BY <1>1, <1>2, <1>3, <1>4, ReserveBooks
<1>5. CASE point = "done" /\ UNCHANGED <<held, share>>
  <2>1. \A j \in Invocations \ {i} : grant'[j] = grant[j]
    BY <1>1 DEF IInv, TypeOK
  <2>2. pc[i] # "done"
    BY <1>2
  <2> QED BY <1>2, <1>3, <1>5, <2>1, <2>2, EndingBooks
<1> QED BY <1>3, <1>4, <1>5

LEMMA WithdrawBooks ==
  ASSUME IInv, IInv', BooksInv, NEW i \in Invocations, Withdraw(i)
  PROVE  BooksInv'
<1>0. /\ UNCHANGED <<resources, used, blocked, overrun, grant, sent, recorded, timedOut, unknown, spent>>
      /\ pc[i] = "reserved" /\ sent[i] = 0 /\ pc' = [pc EXCEPT ![i] = "done"]
  BY DEF Withdraw, Mutate, Goto
<1>1. CASE /\ held' = [s \in Scopes |-> IF s \in ScopesOf(i) THEN Returned(i, s) ELSE held[s]]
           /\ share' = [share EXCEPT ![i] = Zero]
  <2>0. TypeOK /\ TypeOK' /\ \A s \in ScopesOf(i) : s \in Scopes
    BY ScopesOfType DEF IInv
  <2>1. /\ pc'[i] = "done" /\ share'[i] = Zero /\ i \notin recorded
        /\ \A j \in Invocations \ {i} : pc'[j] = pc[j] /\ share'[j] = share[j]
    BY <1>0, <1>1 DEF IInv, TypeOK, BooksInv, OwnGrants, OwnAt
  <2>2. \A s \in Scopes, d \in Dimensions :
          /\ held[s][d] \in Nat /\ used[s][d] \in Nat
          /\ share[i][d] \in Nat
          /\ s \in ScopesOf(i) => share[i][d] <= held[s][d]
          /\ share'[i][d] = 0
    <3>1. share[i] \in Amounts /\ \A s \in Scopes : held[s] \in Amounts /\ used[s] \in Amounts
      BY <2>0 DEF TypeOK
    <3>2. \A s \in ScopesOf(i), d \in Dimensions : share[i][d] <= held[s][d]
      BY <2>0, ShareIsHeld DEF BooksInv
    <3> QED BY <2>1, <3>1, <3>2 DEF Amounts, Zero
  <2>3. \A s \in Scopes, d \in Dimensions :
          held'[s][d] = IF s \in ScopesOf(i) THEN held[s][d] - share[i][d] ELSE held[s][d]
    BY <1>0, <1>1, ReturnedIsShare
  <2>4. OwnGrants'
    <3>1. OwnAt(i)'
      BY <1>0, <2>1, OwnWithdraw DEF BooksInv
    <3> QED BY <1>0, <2>1, <3>1, OthersOwn DEF BooksInv
  <2>5. UsedBalanced' /\ BlockedKnown'
    BY <1>0, NothingCharged
  <2>6. HeldBalanced'
    <3>1. ASSUME NEW s \in Scopes, NEW d \in Dimensions
          PROVE  held'[s][d] = IF s \in ScopesOf(i)
                               THEN held[s][d] - share[i][d] + share'[i][d] ELSE held[s][d]
      <4>1. CASE s \in ScopesOf(i)
        <5>1. held'[s][d] = held[s][d] - share[i][d]
          BY <2>3, <4>1
        <5>2. share[i][d] \in Nat /\ held[s][d] \in Nat /\ share'[i][d] = 0
          BY <2>2, <4>1, <2>0, AmountsOf
        <5> QED BY <4>1, <5>1, <5>2
      <4>2. CASE s \notin ScopesOf(i)
        BY <2>3, <4>2
      <4> QED BY <4>1, <4>2
    <3> QED BY <2>0, <2>1, <3>1, HeldFollows DEF BooksInv
  <2>7. ClaimsCovered'
    <3>1. ASSUME NEW s \in ScopesOf(i), NEW d \in {"invocations", "cost"}
          PROVE  (Claim(d)')[i] + Committed(s, d) <= Committed(s, d)' + share[i][d]
      <4>1. d \in Dimensions /\ s \in Scopes
        BY <2>0 DEF Dimensions
      <4>2. (Claim(d)')[i] = 0
        BY <1>0, <2>1, <2>2, <4>1 DEF Claim
      <4>3. held'[s][d] = held[s][d] - share[i][d]
        BY <2>3, <4>1
      <4>4. share[i][d] \in Nat
        BY <2>0, <4>1, AmountsOf
      <4> QED BY <1>0, <2>2, <4>1, <4>2, <4>3, <4>4 DEF Committed
    <3>2. \A s \in Scopes \ ScopesOf(i) : used'[s] = used[s] /\ held'[s] = held[s]
      BY <1>0, <1>1
    <3>3. \A d \in {"invocations", "cost"} : (Claim(d)')[i] \in Nat
      BY <1>0, <2>1 DEF Claim, Zero, Dimensions
    <3> QED BY <1>0, <2>0, <2>1, <3>1, <3>2, <3>3, ClaimsFollow DEF BooksInv
  <2>8. AttemptsFit'
    <3> SUFFICES ASSUME NEW s \in Scopes, "invocations" \in DOMAIN Limit(s)
                 PROVE  Committed(s, "invocations")' <= Limit(s)["invocations"]
      BY <1>0, SameLimits DEF AttemptsFit
    <3>1. "invocations" \in Dimensions /\ share[i]["invocations"] \in Nat
      BY <2>0, AmountsOf DEF Dimensions
    <3>2. Committed(s, "invocations")' <= Committed(s, "invocations")
      BY <1>0, <2>2, <2>3, <3>1 DEF Committed
    <3>3. Committed(s, "invocations") <= Limit(s)["invocations"]
      BY DEF BooksInv, AttemptsFit
    <3>4. /\ Committed(s, "invocations") \in Nat /\ Committed(s, "invocations")' \in Nat
          /\ Limit(s)["invocations"] \in Nat
      BY <2>0, <3>1, LimitType DEF Committed, TypeOK, Amounts
    <3> QED BY <3>2, <3>3, <3>4
  <2> QED BY <2>4, <2>5, <2>6, <2>7, <2>8 DEF BooksInv
<1>2. CASE UNCHANGED <<held, share>>
  <2>1. pc[i] # "done"
    BY <1>0
  <2> QED BY <1>0, <1>2, <2>1, EndingBooks
<1> QED BY <1>1, <1>2 DEF Withdraw, Mutate

LEMMA AttemptBooks ==
  ASSUME IInv, BooksInv, NEW i \in Invocations, Attempt(i)
  PROVE  BooksInv'
<1>1. UNCHANGED <<resources, used, held, blocked, pc, grant, share, recorded, timedOut, unknown>>
  BY DEF Attempt, ledgers
<1>2. \A j \in Invocations \ {i} : sent'[j] = sent[j] /\ spent'[j] = spent[j]
  BY DEF Attempt, IInv, TypeOK
<1>3. i \notin recorded /\ \A j \in recorded : j \in Invocations
  BY DEF Attempt, IInv, TypeOK, BooksInv, OwnGrants, OwnAt
<1>4. OwnAt(i)'
  BY OwnAttempt DEF BooksInv
<1>5. OwnGrants'
  BY <1>1, <1>2, <1>4, OthersOwn DEF BooksInv
<1> QED BY <1>1, <1>2, <1>3, <1>5, BooksSame DEF BooksInv

LEMMA SucceedBooks ==
  ASSUME IInv, IInv', BooksInv, NEW i \in Invocations, Succeed(i)
  PROVE  BooksInv'
<1>1. PICK input \in {0} \cup grant[i].estimate .. grant[i].estimate + Overshoot,
           output \in 0 .. (IF grant[i].cap = 0 THEN Uncapped ELSE grant[i].cap) :
        LET priced == Priced /\ input + output > 0 IN
        Mutate(i, "done",
          /\ Record(i, Usage(sent[i], input, output), Unreported(i), priced)
          /\ share' = [share EXCEPT ![i] = Untold(i, sent[i] - 1)]
          /\ recorded' = recorded \cup {i}
          /\ unknown' = IF sent[i] > 1 \/ ~ priced THEN unknown \cup {i} ELSE unknown
          /\ spent' = [spent EXCEPT
                         ![i] = @ - WorstCost(i) + input * InputPrice + output * OutputPrice]
          /\ UNCHANGED timedOut,
          UNCHANGED <<ledgers, history>>)
  BY DEF Succeed
<1>2. PICK n, priced, usage, c :
        /\ n = sent[i] - 1 /\ priced = (Priced /\ input + output > 0)
        /\ usage = Usage(sent[i], input, output)
        /\ c = spent[i] - WorstCost(i) + input * InputPrice + output * OutputPrice
  OBVIOUS
<1>3. /\ UNCHANGED <<resources, grant, sent>> /\ pc[i] = "reserved" /\ sent[i] > 0
      /\ pc' = [pc EXCEPT ![i] = "done"]
  BY <1>1 DEF Succeed, Mutate, Goto
<1>4. /\ input \in Nat /\ output \in Nat /\ sent[i] \in Nat /\ n \in Nat
      /\ n <= sent[i] /\ sent[i] = n + 1
  <2>1. sent[i] \in Nat
    BY AmountsOf DEF IInv
  <2>2. n \in Nat /\ n <= sent[i] /\ sent[i] = n + 1
    BY <1>2, <1>3, <2>1
  <2> QED BY <1>1, <2>1, <2>2, GrantType, BudgetAssumption DEF IInv
<1>5. PICK w, x : w = WorstCost(i) /\ x = input * InputPrice + output * OutputPrice
  OBVIOUS
<1>6. w \in Nat /\ x \in Nat
  <2>1. input * InputPrice \in Nat /\ output * OutputPrice \in Nat
    BY <1>4, ModelType, Product DEF IInv, TypeOK
  <2> QED BY <1>5, <2>1, WorstCostType DEF IInv
<1>7. /\ usage \in Amounts /\ usage["invocations"] = sent[i]
      /\ Priced => usage["cost"] = x
  BY <1>2, <1>4, <1>5, <1>6 DEF Usage, Amounts, Dimensions
<1>8. c = n * w + x /\ c \in Nat
  <2>1. spent[i] = (n + 1) * w
    BY <1>3, <1>4, <1>5 DEF BooksInv, OwnGrants, OwnAt
  <2>2. (n + 1) * w = n * w + w /\ n * w \in Nat
    BY <1>4, <1>6, Product
  <2>3. c = spent[i] - w + x
    <3>1. input * InputPrice \in Nat /\ output * OutputPrice \in Nat /\ spent[i] \in Nat
      BY <1>4, ModelType, Product DEF IInv, TypeOK
    <3> QED BY <1>2, <1>5, <1>6, <3>1
  <2> QED BY <1>6, <2>1, <2>2, <2>3
<1>9. OutputIsCapped /\ Bounded(i, "cost") => c <= usage["cost"] + n * grant[i].each["cost"]
  <2> SUFFICES ASSUME OutputIsCapped, Bounded(i, "cost")
               PROVE  c <= usage["cost"] + n * grant[i].each["cost"]
    OBVIOUS
  <2>1. PICK y : y = grant[i].each["cost"]
    OBVIOUS
  <2>2. Priced /\ w <= y /\ y \in Nat
    BY <1>3, <1>5, <2>1, GrantType DEF IInv, BooksInv, OwnGrants, OwnAt, Amounts, Dimensions
  <2>3. w * n <= y * n /\ w * n = n * w /\ y * n = n * y /\ n * w \in Nat /\ n * y \in Nat
    BY <1>4, <1>6, <2>2, ProductMonotone, Product
  <2> QED BY <1>6, <1>7, <1>8, <2>1, <2>2, <2>3
<1>10. CASE /\ Record(i, usage, n, priced)
            /\ share' = [share EXCEPT ![i] = Untold(i, n)]
            /\ recorded' = recorded \cup {i}
            /\ unknown' = IF sent[i] > 1 \/ ~ priced THEN unknown \cup {i} ELSE unknown
            /\ spent' = [spent EXCEPT ![i] = c] /\ UNCHANGED timedOut
  <2>1. /\ unknown \subseteq unknown'
        /\ sent[i] > 0 /\ (n > 0 \/ ~ priced) => i \in unknown' \cup timedOut'
    <3>1. n > 0 => sent[i] > 1
      BY <1>4
    <3> QED BY <1>10, <3>1
  <2>2. Charges(i)' = sent[i] /\ KnownCost(i)' = c
    <3>1. i \notin timedOut' /\ spent'[i] = c
      BY <1>3, <1>10 DEF IInv, TypeOK, BooksInv, OwnGrants, OwnAt
    <3> QED BY <1>3, <3>1 DEF Charges, KnownCost
  <2>3. sent[i] <= grant[i].attempts /\ n <= grant[i].attempts
    <3>1. sent[i] <= grant[i].attempts /\ grant[i].attempts \in Nat
      BY <1>3, GrantType DEF IInv, BooksInv, OwnGrants, OwnAt
    <3> QED BY <1>4, <3>1
  <2> QED BY <1>3, <1>4, <1>7, <1>8, <1>9, <1>10, <2>1, <2>2, <2>3, RecordBooks
<1>11. CASE UNCHANGED <<ledgers, history>>
  <2>1. pc[i] # "done"
    BY <1>3
  <2> QED BY <1>3, <1>11, <2>1, EndingBooks DEF ledgers, history
<1> QED BY <1>1, <1>2, <1>10, <1>11 DEF Mutate, Unreported

\* A failure is charged for m attempts: for all of them, or for one after a
\* timeout, and then the books know of one at most.
LEMMA ChargeFailureBooks ==
  ASSUME IInv, IInv', BooksInv, NEW i \in Invocations, NEW m \in Nat, ChargeFailure(i, m),
         UNCHANGED <<resources, grant, sent>>, pc[i] = "reserved",
         pc' = [pc EXCEPT ![i] = "done"],
         \/ timedOut' = timedOut /\ m = sent[i]
         \/ timedOut' = timedOut \cup {i} /\ m = 1 /\ sent[i] < grant[i].attempts
  PROVE  BooksInv'
<1>1. PICK usage \in Amounts :
        usage = Usage(m, 0, 0) /\ usage["invocations"] = m /\ usage["cost"] = 0
  BY FailureUsage DEF IInv
<1>2. PICK w, k, x : w = WorstCost(i) /\ k = (IF sent[i] <= m THEN sent[i] ELSE m) /\ x = k * w
  OBVIOUS
<1>3. /\ sent[i] \in Nat /\ spent[i] \in Nat /\ w \in Nat /\ grant[i].attempts \in Nat
      /\ sent[i] <= grant[i].attempts /\ spent[i] = sent[i] * w
      /\ i \notin recorded /\ i \notin timedOut
  BY <1>2, AmountsOf, WorstCostType, GrantType DEF IInv, TypeOK, BooksInv, OwnGrants, OwnAt
<1>4. k \in Nat /\ k <= m /\ m <= grant[i].attempts /\ x \in Nat
  <2>1. k \in Nat /\ k <= m /\ m <= grant[i].attempts
    BY <1>2, <1>3
  <2> QED BY <1>2, <1>3, <2>1, Product
<1>5. WorstCost(i)' = w
  BY <1>2, SameWorstCost
<1>6. Charges(i)' = m /\ KnownCost(i)' = x
  <2>1. CASE timedOut' = timedOut /\ m = sent[i]
    <3>1. k = sent[i] /\ i \notin timedOut' /\ spent'[i] = spent[i]
      BY <1>2, <1>3, <2>1 DEF ChargeFailure
    <3> QED BY <1>2, <1>3, <2>1, <3>1 DEF Charges, KnownCost
  <2>2. CASE timedOut' = timedOut \cup {i} /\ m = 1
    BY <1>2, <1>5, <2>2 DEF Charges, KnownCost, Known, Smaller
  <2> QED BY <2>1, <2>2
<1>7. OutputIsCapped /\ Bounded(i, "cost") => x <= usage["cost"] + m * grant[i].each["cost"]
  <2> SUFFICES ASSUME OutputIsCapped, Bounded(i, "cost")
               PROVE  x <= usage["cost"] + m * grant[i].each["cost"]
    OBVIOUS
  <2>1. PICK y : y = grant[i].each["cost"]
    OBVIOUS
  <2>2. w <= y /\ y \in Nat
    BY <1>2, <2>1, GrantType DEF IInv, BooksInv, OwnGrants, OwnAt, Amounts, Dimensions
  <2>3. k * w <= m * w /\ w * m <= y * m
    BY <1>3, <1>4, <2>2, ProductMonotone
  <2>4. /\ k * w \in Nat /\ m * w \in Nat /\ m * y \in Nat
        /\ w * m = m * w /\ y * m = m * y
    BY <1>3, <1>4, <2>2, Product
  <2> QED BY <1>1, <1>2, <2>1, <2>3, <2>4
<1>8. spent' = [spent EXCEPT ![i] = spent[i]]
  BY DEF ChargeFailure, IInv, TypeOK
<1>9. /\ Record(i, usage, m, FALSE) /\ share' = [share EXCEPT ![i] = Untold(i, m)]
      /\ recorded' = recorded \cup {i}
      /\ unknown' = IF sent[i] > 0 THEN unknown \cup {i} ELSE unknown
  BY <1>1 DEF ChargeFailure
<1>10. /\ unknown \subseteq unknown'
       /\ m > 0 /\ (m > 0 \/ ~ FALSE) => i \in unknown' \cup timedOut'
  BY <1>9
<1> QED BY <1>1, <1>3, <1>4, <1>6, <1>7, <1>8, <1>9, <1>10, RecordBooks

LEMMA FailBooks ==
  ASSUME IInv, IInv', BooksInv, NEW i \in Invocations, Fail(i) \/ Timeout(i)
  PROVE  BooksInv'
<1>1. /\ UNCHANGED <<resources, grant, sent>> /\ pc[i] = "reserved"
      /\ pc' = [pc EXCEPT ![i] = "done"]
  BY DEF Fail, Timeout, Mutate, Goto
<1>2. sent[i] \in Nat
  BY AmountsOf DEF IInv
<1>3. CASE ChargeFailure(i, sent[i]) /\ UNCHANGED timedOut
  BY <1>1, <1>2, <1>3, ChargeFailureBooks
<1>4. CASE ChargeFailure(i, 1) /\ timedOut' = timedOut \cup {i} /\ sent[i] < grant[i].attempts
  BY <1>1, <1>4, ChargeFailureBooks
<1>5. CASE UNCHANGED <<ledgers, history>>
  <2>1. pc[i] # "done"
    BY <1>1
  <2> QED BY <1>1, <1>5, <2>1, EndingBooks DEF ledgers, history
<1> QED BY <1>3, <1>4, <1>5 DEF Fail, Timeout, Mutate

LEMMA StoppingBooks ==
  ASSUME IInv, BooksInv, NEW i \in Invocations, Block(i) \/ Crash(i)
  PROVE  BooksInv'
<1>1. /\ pc' = [pc EXCEPT ![i] = "done"] /\ pc[i] # "done"
      /\ UNCHANGED <<resources, ledgers, grant, sent, history>>
  BY DEF Block, Crash, Goto
<1> QED BY <1>1, EndingBooks DEF ledgers, history

LEMMA StepBooks == IInv /\ BooksInv /\ [Next]_vars => BooksInv'
<1> SUFFICES ASSUME IInv, BooksInv, [Next]_vars PROVE BooksInv'
  OBVIOUS
<1>0. IInv'
  BY StepKeeps
<1>1. ASSUME NEW i \in Invocations,
             \/ Prepare(i) \/ Admit(i) \/ Block(i) \/ Withdraw(i)
             \/ Attempt(i) \/ Succeed(i) \/ Fail(i) \/ Timeout(i) \/ Crash(i)
      PROVE  BooksInv'
  BY <1>0, <1>1, PrepareBooks, AdmitBooks, WithdrawBooks, AttemptBooks,
     SucceedBooks, FailBooks, StoppingBooks
<1>2. CASE UNCHANGED vars
  <2>1. OwnGrants'
    <3> SUFFICES ASSUME NEW j \in Invocations PROVE OwnAt(j)'
      BY DEF OwnGrants
    <3> QED BY <1>2, OwnSame DEF vars, BooksInv, OwnGrants
  <2> QED BY <1>2, <2>1, BooksSame DEF vars, BooksInv
<1> QED BY <1>1, <1>2 DEF Next

-----------------------------------------------------------------------------
(* What the books are for.                                                 *)

LEMMA BooksBalance == IInv /\ BooksInv => LedgersBalance
<1> SUFFICES ASSUME IInv, BooksInv, NEW s \in Scopes
             PROVE  /\ used[s].invocations =
                         Total([i \in Invocations |->
                                  IF i \in recorded /\ Budgeted(i) THEN Charges(i) ELSE 0], s)
                    /\ \A d \in Dimensions :
                         held[s][d] = Total([i \in Invocations |-> share[i][d]], s)
                    /\ s \in blocked => \E i \in unknown \cup timedOut : s \in ScopesOf(i)
  BY DEF LedgersBalance
<1>1. used[s].invocations = Total(Charged, s)
  BY DEF BooksInv, UsedBalanced
<1>2. \A d \in Dimensions : held[s][d] = Total(ShareOf(d), s)
  BY DEF BooksInv, HeldBalanced
<1>3. s \in blocked => \E i \in unknown \cup timedOut : s \in ScopesOf(i)
  BY DEF BooksInv, BlockedKnown
<1> QED BY <1>1, <1>2, <1>3 DEF Charged, ShareOf

\* What the books know of is claimed, and a claim is in the ledgers.
LEMMA BooksLimitAttempts == IInv /\ BooksInv => AttemptsWithinLimit
<1> SUFFICES ASSUME IInv, BooksInv, NEW s \in Scopes, "invocations" \in DOMAIN Limit(s)
             PROVE  Total([i \in Invocations |-> Known(i)], s) <= Limit(s)["invocations"]
  BY DEF AttemptsWithinLimit
<1>1. TypeOK /\ "invocations" \in Dimensions
  BY DEF IInv, Dimensions
<1>2. PICK f, g : f = Claim("invocations") /\ g = [i \in Invocations |-> Known(i)]
  OBVIOUS
<1>3. f \in Counts /\ g \in Counts
  <2>1. \A i \in Invocations : Known(i) \in Nat
    BY <1>1, KnownType
  <2>2. f \in Counts
    BY <1>1, <1>2, SumsAreCounts
  <2> QED BY <1>2, <2>1, <2>2 DEF Counts
<1>4. ASSUME NEW i \in Invocations, s \in ScopesOf(i) PROVE g[i] <= f[i]
  <2>1. Known(i) \in Nat /\ Known(i) <= Charges(i) /\ Known(i) <= sent[i] /\ sent[i] \in Nat
    BY <1>1, KnownType, AmountsOf
  <2>2. i \notin recorded => sent[i] <= share[i]["invocations"]
    BY <1>4, LimitedIsBudgeted DEF BooksInv, OwnGrants, OwnAt
  <2>3. share[i]["invocations"] \in Nat
    BY <1>1, AmountsOf
  <2> QED BY <1>2, <2>1, <2>2, <2>3 DEF Claim
<1>5. Total(g, s) <= Total(f, s)
  BY <1>3, <1>4, SumGrows
<1>6. Total(f, s) <= Committed(s, "invocations")
  BY <1>2 DEF BooksInv, ClaimsCovered
<1>7. Committed(s, "invocations") <= Limit(s)["invocations"]
  BY DEF BooksInv, AttemptsFit
<1>8. /\ Total(g, s) \in Nat /\ Total(f, s) \in Nat
      /\ Committed(s, "invocations") \in Nat /\ Limit(s)["invocations"] \in Nat
  BY <1>1, <1>3, UnitsFinite, LimitType DEF TypeOK, Committed, Amounts
<1> QED BY <1>2, <1>5, <1>6, <1>7, <1>8

LEMMA BooksLimitMoney == IInv /\ BooksInv /\ OutputIsCapped => MoneyWithinLimit
<1> SUFFICES ASSUME IInv, BooksInv, OutputIsCapped, NEW s \in Scopes, "cost" \in DOMAIN Limit(s),
                    s \notin overrun
             PROVE  Total([i \in Invocations |-> KnownCost(i)], s) <= Limit(s)["cost"]
  BY DEF MoneyWithinLimit
<1>1. TypeOK /\ "cost" \in Dimensions
  BY DEF IInv, Dimensions
<1>2. PICK f, g : f = Claim("cost") /\ g = [i \in Invocations |-> KnownCost(i)]
  OBVIOUS
<1>3. f \in Counts /\ g \in Counts
  <2>1. \A i \in Invocations : KnownCost(i) \in Nat
    BY <1>1, KnownType
  <2>2. f \in Counts
    BY <1>1, <1>2, SumsAreCounts
  <2> QED BY <1>2, <2>1, <2>2 DEF Counts
<1>4. ASSUME NEW i \in Invocations, s \in ScopesOf(i) PROVE g[i] <= f[i]
  <2>1. KnownCost(i) \in Nat
    BY <1>1, KnownType
  <2>2. i \notin recorded => spent[i] <= share[i]["cost"] /\ KnownCost(i) = spent[i]
    BY <1>1, <1>4, LimitedIsBudgeted DEF BooksInv, OwnGrants, OwnAt, TypeOK, KnownCost
  <2> QED BY <1>2, <2>1, <2>2 DEF Claim
<1>5. Total(g, s) <= Total(f, s)
  BY <1>3, <1>4, SumGrows
<1>6. Total(f, s) <= Committed(s, "cost")
  BY <1>2 DEF BooksInv, ClaimsCovered
<1>7. /\ Total(g, s) \in Nat /\ Total(f, s) \in Nat
      /\ Committed(s, "cost") \in Nat /\ Limit(s)["cost"] \in Nat
  BY <1>1, <1>3, UnitsFinite, LimitType DEF TypeOK, Committed, Amounts
<1>8. Committed(s, "cost") <= Limit(s)["cost"]
  BY <1>1, <1>7 DEF IInv, OverrunIsMarked, Exceeds, Committed
<1> QED BY <1>2, <1>5, <1>6, <1>7, <1>8

\* The books know of all attempts where a Model tries twice at most: a timeout
\* takes the place of the second.
LEMMA AllAreKnown ==
  ASSUME IInv, \A r \in Setups : r.maxAttempts <= 2, NEW i \in Invocations
  PROVE  Known(i) = sent[i]
<1>1. sent[i] \in Nat /\ MaxAttempts \in Nat /\ MaxAttempts <= 2
  BY AmountsOf, ModelType DEF IInv, TypeOK, MaxAttempts
<1>2. CASE i \in timedOut
  <2>1. sent[i] < MaxAttempts
    BY <1>2 DEF IInv, AttemptsPaid
  <2> QED BY <1>1, <1>2, <2>1 DEF Known, Charges, Smaller
<1>3. CASE i \notin timedOut
  BY <1>1, <1>3 DEF Known, Charges, Smaller
<1> QED BY <1>2, <1>3

\* The ledgers balance for any budgets and any invocations at once, whatever
\* crashed, timed out or was reported to fail: what is consumed was charged once,
\* for all attempts or, after a timeout before one, for one; what is reserved is
\* some invocation's own; and no scope is blocked but for spend that nobody
\* knows or such a timeout (reserve, record and release of TaskBudgetManager,
\* _record_failed_budget_charge).
THEOREM LedgersBalanced == Spec => []LedgersBalance
<1>1. Init => IInv /\ BooksInv BY InitEstablishes, BooksStart
<1>2. IInv /\ BooksInv /\ [Next]_vars => (IInv /\ BooksInv)' BY StepKeeps, StepBooks
<1>3. IInv /\ BooksInv => LedgersBalance BY BooksBalance
<1> QED BY <1>1, <1>2, <1>3, PTL DEF Spec

\* No scope sends more attempts than its maxModelInvocations, the attempts of
\* crashed and unrecorded invocations included, for any budgets and any
\* invocations at once - if no Model tries more than twice.  From the third
\* attempt on it does not hold: a timeout before it charges one attempt for two
\* (_reservation_plan, record, release, _record_failed_budget_charge).
THEOREM AttemptsLimited ==
  ASSUME \A r \in Setups : r.maxAttempts <= 2
  PROVE  Spec => [](\A s \in Scopes : "invocations" \in DOMAIN Limit(s) =>
                     Total(sent, s) <= Limit(s)["invocations"])
<1>1. Init => IInv /\ BooksInv BY InitEstablishes, BooksStart
<1>2. IInv /\ BooksInv /\ [Next]_vars => (IInv /\ BooksInv)' BY StepKeeps, StepBooks
<1>3. IInv /\ BooksInv => \A s \in Scopes : "invocations" \in DOMAIN Limit(s) =>
                           Total(sent, s) <= Limit(s)["invocations"]
  <2> SUFFICES ASSUME IInv, BooksInv, NEW s \in Scopes, "invocations" \in DOMAIN Limit(s)
               PROVE  Total(sent, s) <= Limit(s)["invocations"]
    OBVIOUS
  <2>1. \A i \in Invocations : Known(i) = sent[i]
    BY AllAreKnown
  <2>2. [i \in Invocations |-> Known(i)] = sent
    BY <2>1 DEF IInv, TypeOK
  <2> QED BY <2>2, BooksLimitAttempts DEF AttemptsWithinLimit
<1> QED BY <1>1, <1>2, <1>3, PTL DEF Spec

\* Of the attempts that the books know of, and however many a Model tries,
\* neither the number nor the cost exceeds a limit, unless usage beyond the
\* estimate marked the scope, provided that no Model with priced output omits its
\* tokenLimit and retries: without that the cap derived from the money may be
\* none, and an attempt may cost more than is reserved for it (_reservation_plan).
THEOREM SpendingLimited == ASSUME OutputIsCapped PROVE Spec => []SpendingWithinLimits
<1>1. Init => IInv /\ BooksInv BY InitEstablishes, BooksStart
<1>2. IInv /\ BooksInv /\ [Next]_vars => (IInv /\ BooksInv)' BY StepKeeps, StepBooks
<1>3. IInv /\ BooksInv => SpendingWithinLimits
  BY BooksLimitAttempts, BooksLimitMoney DEF SpendingWithinLimits
<1> QED BY <1>1, <1>2, <1>3, PTL DEF Spec

\* Under the same condition every attempt that money bounds is given a cap on
\* its priced output, as docs/architecture/workflow-runtime.md, 8.1, says of all.
THEOREM OutputCapped == ASSUME OutputIsCapped PROVE Spec => []PricedOutputIsCapped
<1>1. Init => IInv /\ BooksInv BY InitEstablishes, BooksStart
<1>2. IInv /\ BooksInv /\ [Next]_vars => (IInv /\ BooksInv)' BY StepKeeps, StepBooks
<1>3. IInv /\ BooksInv => PricedOutputIsCapped
  BY DEF BooksInv, OwnGrants, OwnAt, PricedOutputIsCapped
<1> QED BY <1>1, <1>2, <1>3, PTL DEF Spec
=============================================================================
