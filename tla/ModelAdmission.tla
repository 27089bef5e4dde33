----------------------------- MODULE ModelAdmission -----------------------------
(***************************************************************************)
(* The pacing of requests to a Model provider:                             *)
(* ProcessLocalModelAdmissionCoordinator (src/aep/model_rate_limits.py)    *)
(* and the loop of attempts that asks it (openai_model_provider.py).       *)
(*                                                                         *)
(* Time is counted in ticks.  Tokens are counted in the ticks for which    *)
(* the rate lets the next request wait.  The monotonic and the wall clock  *)
(* advance together; a caller reads the clock in the step that takes the   *)
(* coordinator's lock.                                                     *)
(***************************************************************************)
EXTENDS Integers, Sequences

CONSTANTS
  Callers,        \* threads of the process that invoke the Model
  Interval,       \* 60 / requestsPerMinute
  Demands,        \* what requests may reserve: input estimate and allowance
  Excess,         \* tokens of an answer beyond its reservation, which is a guess
  Pauses,         \* backoff, Retry-After or reset of a failure that may pass
  Patience,       \* timeout of an invocation
  MaxRequests,       \* maxAttempts of the Model
  Horizon,        \* bound on the time
  MaxInvocations, \* bound on the invocations
  MaxOutages,     \* bound on the failures of the state file
  MaxStops        \* bound on the restarts of the process

ASSUME AdmissionAssumption ==
  /\ Interval \in Nat \ {0} /\ Demands \subseteq Nat \ {0} /\ Pauses \subseteq Nat
  /\ {Patience, MaxRequests} \subseteq Nat \ {0} /\ Excess \in Nat
  /\ {Horizon, MaxInvocations, MaxOutages, MaxStops} \subseteq Nat

VARIABLES
  time,           \* the time
  clocks,        \* the coordinator's deadlines, in its memory
  restored,      \* whether they were read from the state file
  latest,        \* _latest_reservation_id
  stateFile,     \* the deadlines on disk, if there are any
  place,         \* [Callers -> place in invoke()]
  request,       \* [Callers -> the invocation, and the reservation it holds]
  invocations, outages, stops,  \* how often each bounded thing has happened
  granted,       \* history: reservations that were answered, in their order
  hinted         \* history: the last deadline that a failure has announced

admissionVars == <<time, clocks, restored, latest, stateFile, place, request,
                   invocations, outages, stops, granted, hinted>>

Deadlines == {"request", "token", "blocked"}
Later(s, t) == IF s < t THEN t ELSE s
Unset == [k \in Deadlines |-> 0]

\* id: reservation, nr: its place in granted, at: when it may be used.
NoRequest == [deadline |-> 0, demand |-> 0, try |-> 0, wake |-> 0,
              id |-> 0, nr |-> 0, at |-> 0]

AdmissionInit ==
  /\ time = 0 /\ clocks = Unset /\ restored = FALSE /\ latest = 0
  /\ stateFile = {}
  /\ place = [c \in Callers |-> "idle"] /\ request = [c \in Callers |-> NoRequest]
  /\ invocations = 0 /\ outages = 0 /\ stops = 0
  /\ granted = <<>> /\ hinted = 0

-----------------------------------------------------------------------------
(* The coordinator.                                                        *)

\* _restore: what the first call after a start finds.
Restored ==
  IF restored \/ stateFile = {} THEN clocks
  ELSE LET saved == CHOOSE s \in stateFile : TRUE
       IN [k \in Deadlines |-> Later(time, saved[k])]

\* _persist: the new deadlines are in memory whether or not they get to the disk.
Saved(new) ==
  /\ clocks' = new /\ restored' = TRUE
  /\ stateFile' = {[k \in Deadlines |-> Later(time, new[k])]} /\ UNCHANGED outages
NotSaved(new) ==
  /\ clocks' = new /\ restored' = TRUE
  /\ outages < MaxOutages /\ outages' = outages + 1 /\ UNCHANGED stateFile

Stay(c) == place' = [place EXCEPT ![c] = "idle"] /\ request' = [request EXCEPT ![c] = NoRequest]

Eligible(deadlines) ==
  Later(time, Later(deadlines.request, Later(deadlines.token, deadlines.blocked)))

Reserving(deadlines, at, demand) ==
  [deadlines EXCEPT !.request = at + Interval, !.token = at + demand]

\* admit and the sleep until the reservation may be used.
Ask(c) ==
  LET at == Eligible(Restored)  demand == request[c].demand IN
  /\ place[c] = "ask" /\ request[c].wake <= time
  /\ \/ /\ at >= request[c].deadline /\ clocks' = Restored /\ restored' = TRUE
        /\ Stay(c) /\ UNCHANGED <<latest, stateFile, outages, granted>>
     \/ /\ at < request[c].deadline /\ latest' = latest + 1
        /\ \/ /\ Saved(Reserving(Restored, at, demand))
              /\ granted' = Append(granted, [at |-> at, cost |-> demand])
              /\ place' = [place EXCEPT ![c] = "reserved"]
              /\ request' = [request EXCEPT ![c].id = latest + 1, ![c].wake = at,
                                            ![c].at = at, ![c].nr = Len(granted) + 1]
           \/ /\ NotSaved(Reserving(Restored, at, demand))
              /\ Stay(c) /\ UNCHANGED granted
  /\ UNCHANGED <<time, invocations, stops, hinted>>

\* A state file that cannot be read refuses the call, and the next one tries.
Unreadable(c) ==
  /\ place[c] = "ask" /\ request[c].wake <= time /\ ~ restored /\ stateFile # {}
  /\ outages < MaxOutages /\ outages' = outages + 1 /\ Stay(c)
  /\ UNCHANGED <<time, clocks, restored, latest, stateFile, invocations, stops, granted, hinted>>

\* revalidate: gives up, sleeps on, or sends the request.
Recheck(c) ==
  LET at == Later(time, clocks.blocked) IN
  /\ place[c] = "reserved" /\ request[c].wake <= time
  /\ \/ at >= request[c].deadline /\ Stay(c)
     \/ /\ at < request[c].deadline /\ at > time
        /\ request' = [request EXCEPT ![c].wake = at] /\ UNCHANGED place
     \/ /\ at < request[c].deadline /\ at = time
        /\ place' = [place EXCEPT ![c] = "sent"] /\ UNCHANGED request
  /\ UNCHANGED <<time, clocks, restored, latest, stateFile, invocations, outages, stops,
                 granted, hinted>>

\* Mutant: the credit is given whatever was reserved since.
Bug_Creditable(c) == TRUE
Creditable(c) == request[c].id = latest

\* observe_success: what was reserved and not used is given back, if nobody has
\* reserved after it.  What was used beyond the reservation is not made up for.
\* The invocation ends, also if the deadlines cannot be saved.
Answered(c) ==
  /\ place[c] = "sent" /\ Stay(c)
  /\ \E used \in 1 .. request[c].demand + Excess :
       LET credit == Later(0, request[c].demand - used)
           credited == [clocks EXCEPT !.token = Later(0, @ - credit)] IN
       /\ granted' = [granted EXCEPT ![request[c].nr].cost = @ - credit]
       /\ \/ credit > 0 /\ Creditable(c) /\ (Saved(credited) \/ NotSaved(credited))
          \/ /\ credit = 0 \/ ~ Creditable(c)
             /\ UNCHANGED <<clocks, restored, stateFile, outages>>
  /\ UNCHANGED <<time, latest, invocations, stops, hinted>>

\* A failure that may pass: observe_throttle holds everybody back, and the
\* request is repeated when attempts and time are left for it.
Throttled(c) ==
  /\ place[c] = "sent"
  /\ \E pause \in Pauses :
       LET resumes == time + pause
           held == [clocks EXCEPT !.blocked = Later(@, resumes)]
           again == request[c].try < MaxRequests /\ resumes < request[c].deadline IN
       \/ /\ Saved(held) /\ hinted' = Later(hinted, resumes)
          /\ \/ /\ again /\ place' = [place EXCEPT ![c] = "ask"]
                /\ request' = [request EXCEPT ![c].try = @ + 1, ![c].wake = resumes]
             \/ ~ again /\ Stay(c)
       \/ NotSaved(held) /\ Stay(c) /\ UNCHANGED hinted
  /\ UNCHANGED <<time, latest, invocations, stops, granted>>

-----------------------------------------------------------------------------
(* The process and the time.                                               *)

Invoke(c) ==
  /\ place[c] = "idle" /\ invocations < MaxInvocations /\ invocations' = invocations + 1
  /\ place' = [place EXCEPT ![c] = "ask"]
  /\ \E demand \in Demands :
       request' = [request EXCEPT ![c] = [NoRequest EXCEPT
                     !.demand = demand, !.deadline = time + Patience, !.try = 1, !.wake = time]]
  /\ UNCHANGED <<time, clocks, restored, latest, stateFile, outages, stops, granted, hinted>>

\* An answer that is refused, malformed or otherwise of no use.
Refused(c) ==
  /\ place[c] = "sent" /\ Stay(c)
  /\ UNCHANGED <<time, clocks, restored, latest, stateFile, invocations, outages, stops,
                 granted, hinted>>

\* The process ends with its threads and starts with an empty coordinator.
Restart ==
  /\ stops < MaxStops /\ stops' = stops + 1
  /\ clocks' = Unset /\ restored' = FALSE /\ latest' = 0
  /\ place' = [c \in Callers |-> "idle"] /\ request' = [c \in Callers |-> NoRequest]
  /\ UNCHANGED <<time, stateFile, invocations, outages, granted, hinted>>

Tick ==
  /\ time < Horizon /\ time' = time + 1
  /\ UNCHANGED <<clocks, restored, latest, stateFile, place, request, invocations, outages,
                 stops, granted, hinted>>

AdmissionNext ==
  \/ \E c \in Callers :
       Invoke(c) \/ Ask(c) \/ Unreadable(c) \/ Recheck(c) \/ Answered(c) \/ Throttled(c)
       \/ Refused(c)
  \/ Restart \/ Tick

AdmissionSpec == AdmissionInit /\ [][AdmissionNext]_admissionVars

-----------------------------------------------------------------------------
(* Properties.                                                             *)

\* Every variable keeps to its type.
AdmissionTypeOK ==
  /\ time \in Nat /\ clocks \in [Deadlines -> Nat] /\ restored \in BOOLEAN /\ latest \in Nat
  /\ stateFile \in SUBSET [Deadlines -> Nat] /\ hinted \in Nat
  /\ place \in [Callers -> {"idle", "ask", "reserved", "sent"}]
  /\ request \in [Callers -> [deadline : Nat, demand : Nat, try : Nat, wake : Nat,
                              id : Nat, nr : Nat, at : Nat]]
  /\ invocations \in Nat /\ outages \in Nat /\ stops \in Nat
  /\ granted \in Seq([at : Nat, cost : Nat])

\* Whatever is reserved is apart from every earlier reservation by the request
\* interval and by the tokens that one reserved, or by those that it really used
\* once it has used fewer - through credits, restarts and failures to save (admit,
\* observe_success, _restore); and no request is sent before its reservation, nor
\* before a throttle that was acknowledged (revalidate, observe_throttle).  It is
\* no promise about the tokens really used: the input is estimated from bytes, the
\* output counts for nothing where the Model omits its tokenLimit, and what is
\* used beyond the reservation delays nobody.
RequestsArePaced ==
  [][/\ Len(granted') > Len(granted) =>
          \A i \in 1 .. Len(granted) :
            granted'[Len(granted')].at >= granted[i].at + Later(Interval, granted[i].cost)
     /\ \A c \in Callers : place[c] # "sent" /\ place'[c] = "sent" =>
          time >= request[c].at /\ time >= hinted]_admissionVars
=============================================================================
