----------------------------- MODULE ServicesProofs -----------------------------
(***************************************************************************)
(* Theorems about the pacing of requests to a Model provider, for any      *)
(* number of callers, rates, demands, restarts and failures to save.       *)
(*                                                                         *)
(* Then the parts around the scheduler put together: whatever was proved   *)
(* of one of them alone holds of MCServices, where it stands beside the    *)
(* others.                                                                 *)
(***************************************************************************)
EXTENDS MCServices, TaskHandlerProofs, PullRequestPublicationProofs, ExecutionBudgetProofs

\* The deadlines d, read at time t, keep what was granted and hinted.
Keeps(d, t, g, h) ==
  /\ \A i \in 1 .. Len(g) : /\ Later(t, d.request) >= g[i].at + Interval
                            /\ Later(t, d.token) >= g[i].at + g[i].cost
  /\ Later(t, d.blocked) >= h

\* The deadlines in memory do, once they have been read, and those on disk do.
MemoryKeeps == restored \/ stateFile = {} => Keeps(clocks, time, granted, hinted)
FileKeeps ==
  /\ \A saved \in stateFile : Keeps(saved, time, granted, hinted)
  /\ stateFile = {} => granted = <<>> /\ hinted = 0

\* Reservations are apart from each other.
Spaced(g) ==
  \A i, j \in 1 .. Len(g) : i < j => g[j].at >= g[i].at + Later(Interval, g[i].cost)

\* Whoever holds a reservation holds one that was granted, alone, and the last
\* one if no other has been made since.
Holds(c) == place[c] \in {"reserved", "sent"}
OwnSlot(c) ==
  /\ restored /\ request[c].nr \in 1 .. Len(granted)
  /\ granted[request[c].nr] = [at |-> request[c].at, cost |-> request[c].demand]
  /\ request[c].wake >= request[c].at
  /\ request[c].id <= latest /\ (request[c].id = latest => request[c].nr = Len(granted))
Owned ==
  /\ \A c \in Callers : Holds(c) => OwnSlot(c)
  /\ \A c, d \in Callers : Holds(c) /\ Holds(d) /\ c # d => request[c].nr # request[d].nr

Inv == AdmissionTypeOK /\ MemoryKeeps /\ FileKeeps /\ Spaced(granted) /\ Owned

Requests == [deadline : Nat, demand : Nat, try : Nat, wake : Nat, id : Nat, nr : Nat, at : Nat]
Reservations == [at : Nat, cost : Nat]

-----------------------------------------------------------------------------
(* Deadlines.                                                              *)

LEMMA IntervalType == Interval \in Nat
BY AdmissionAssumption

\* Sums at a deadline.
LEMMA Sums ==
  \A a, b, x, y \in Nat : /\ a + x \in Nat
                          /\ a >= b + x /\ y <= x => a >= b + y
                          /\ b >= a /\ a >= x => b >= x
                          /\ b >= a + x => b >= a /\ b >= x
OBVIOUS

LEMMA LaterFacts ==
  \A s, t \in Int : Later(s, t) \in Int /\ Later(s, t) >= s /\ Later(s, t) >= t
                    /\ Later(s, t) \in {s, t}
BY DEF Later

\* Time takes nothing back.
LEMMA TimeKeeps ==
  ASSUME NEW d \in [Deadlines -> Nat], NEW t \in Nat, NEW g \in Seq(Reservations), NEW h \in Nat,
         Keeps(d, t, g, h)
  PROVE  Keeps(d, t + 1, g, h)
<1>1. d.request \in Nat /\ d.token \in Nat /\ d.blocked \in Nat
  BY DEF Deadlines
<1>2. \A s \in Nat : Later(t + 1, s) >= Later(t, s)
  BY DEF Later
<1>3. \A s \in Nat : Later(t + 1, s) \in Nat /\ Later(t, s) \in Nat
  BY DEF Later
<1>4. \A i \in 1 .. Len(g) : g[i] \in Reservations
  OBVIOUS
<1>5. \A i \in 1 .. Len(g) : g[i].at \in Nat /\ g[i].cost \in Nat
  BY <1>4 DEF Reservations
<1>6. \A a, b, n \in Nat : a >= n /\ b >= a => b >= n
  OBVIOUS
<1>7. Later(t + 1, d.blocked) >= h
  BY <1>1, <1>2, <1>3, <1>6 DEF Keeps
<1>8. ASSUME NEW i \in 1 .. Len(g)
      PROVE  /\ Later(t + 1, d.request) >= g[i].at + Interval
             /\ Later(t + 1, d.token) >= g[i].at + g[i].cost
  <2>1. g[i].at + Interval \in Nat /\ g[i].at + g[i].cost \in Nat
    BY <1>5, IntervalType, Sums
  <2>2. /\ Later(t, d.request) >= g[i].at + Interval /\ Later(t, d.token) >= g[i].at + g[i].cost
        /\ Later(t + 1, d.request) >= Later(t, d.request)
        /\ Later(t + 1, d.token) >= Later(t, d.token)
    BY <1>1, <1>2 DEF Keeps
  <2> QED
    <3>1. /\ Later(t, d.request) \in Nat /\ Later(t, d.token) \in Nat
          /\ Later(t + 1, d.request) \in Nat /\ Later(t + 1, d.token) \in Nat
      BY <1>1, <1>3
    <3> QED
      BY <2>1, <2>2, <3>1
<1> QED
  BY <1>7, <1>8 DEF Keeps

\* What is saved at a time says the same at that time.
LEMMA SavedSays ==
  ASSUME NEW d \in [Deadlines -> Nat], NEW t \in Nat, NEW g, NEW h, Keeps(d, t, g, h)
  PROVE  /\ [k \in Deadlines |-> Later(t, d[k])] \in [Deadlines -> Nat]
         /\ Keeps([k \in Deadlines |-> Later(t, d[k])], t, g, h)
<1> DEFINE e == [k \in Deadlines |-> Later(t, d[k])]
<1>1. \A k \in Deadlines : e[k] \in Nat /\ Later(t, e[k]) = Later(t, d[k])
  BY DEF Later
<1>2. Later(t, e.request) = Later(t, d.request) /\ Later(t, e.token) = Later(t, d.token)
      /\ Later(t, e.blocked) = Later(t, d.blocked)
  BY <1>1 DEF Deadlines
<1>3. e \in [Deadlines -> Nat]
  BY <1>1
<1> HIDE DEF e
<1>4. Keeps(e, t, g, h)
  BY <1>2 DEF Keeps
<1> QED
  BY <1>3, <1>4 DEF e

\* What _restore finds keeps everything.
LEMMA RestoredKeeps ==
  ASSUME Inv
  PROVE  Restored \in [Deadlines -> Nat] /\ Keeps(Restored, time, granted, hinted)
<1>1. CASE restored \/ stateFile = {}
  BY <1>1 DEF Restored, Inv, MemoryKeeps, AdmissionTypeOK
<1>2. CASE ~ (restored \/ stateFile = {})
  <2>1. PICK saved \in stateFile : saved = CHOOSE s \in stateFile : TRUE
    BY <1>2
  <2>2. Restored = [k \in Deadlines |-> Later(time, saved[k])]
    BY <1>2, <2>1 DEF Restored
  <2>3. saved \in [Deadlines -> Nat] /\ time \in Nat /\ Keeps(saved, time, granted, hinted)
    BY DEF Inv, AdmissionTypeOK, FileKeeps
  <2> QED
    BY <2>2, <2>3, SavedSays
<1> QED
  BY <1>1, <1>2

\* New deadlines that keep everything, on disk or not.
LEMMA SavedKeeps ==
  ASSUME Inv, NEW new \in [Deadlines -> Nat], time' = time,
         Keeps(new, time, granted', hinted'), Saved(new)
  PROVE  /\ MemoryKeeps' /\ FileKeeps' /\ clocks' \in [Deadlines -> Nat]
         /\ stateFile' \in SUBSET [Deadlines -> Nat] /\ restored' = TRUE /\ outages' \in Nat
<1>1. time \in Nat /\ outages \in Nat
  BY DEF Inv, AdmissionTypeOK
<1>2. /\ [k \in Deadlines |-> Later(time, new[k])] \in [Deadlines -> Nat]
      /\ Keeps([k \in Deadlines |-> Later(time, new[k])], time, granted', hinted')
  BY <1>1, SavedSays
<1>3. MemoryKeeps'
  BY DEF Saved, MemoryKeeps
<1>4. FileKeeps'
  BY <1>2 DEF Saved, FileKeeps
<1> QED
  BY <1>1, <1>2, <1>3, <1>4 DEF Saved

LEMMA NotSavedKeeps ==
  ASSUME Inv, NEW new \in [Deadlines -> Nat], time' = time,
         Keeps(new, time, granted', hinted'), NotSaved(new),
         \A saved \in stateFile : Keeps(saved, time, granted', hinted'),
         stateFile = {} => granted' = <<>> /\ hinted' = 0
  PROVE  /\ MemoryKeeps' /\ FileKeeps' /\ clocks' \in [Deadlines -> Nat]
         /\ stateFile' \in SUBSET [Deadlines -> Nat] /\ restored' = TRUE /\ outages' \in Nat
<1>1. outages \in Nat /\ stateFile \in SUBSET [Deadlines -> Nat]
  BY DEF Inv, AdmissionTypeOK
<1>2. MemoryKeeps'
  BY DEF NotSaved, MemoryKeeps
<1>3. FileKeeps'
  BY DEF NotSaved, FileKeeps
<1> QED
  BY <1>1, <1>2, <1>3 DEF NotSaved

\* The steps that leave the coordinator and its history alone.
LEMMA QuietKeeps ==
  ASSUME Inv, UNCHANGED <<time, clocks, restored, stateFile, granted, hinted>>
  PROVE  MemoryKeeps' /\ FileKeeps' /\ Spaced(granted)'
BY DEF Inv, MemoryKeeps, FileKeeps, Spaced, Keeps

\* A caller that ends gives up what it holds.
LEMMA StayKeeps ==
  ASSUME Inv, NEW c \in Callers, Stay(c)
  PROVE  /\ place' \in [Callers -> {"idle", "ask", "reserved", "sent"}]
         /\ request' \in [Callers -> Requests]
         /\ \A d \in Callers : Holds(d)' => d # c /\ Holds(d) /\ request'[d] = request[d]
<1>1. NoRequest \in Requests
  BY DEF NoRequest, Requests
<1>2. /\ place \in [Callers -> {"idle", "ask", "reserved", "sent"}]
      /\ request \in [Callers -> Requests]
  BY DEF Inv, AdmissionTypeOK, Requests
<1>3. place'[c] = "idle"
  BY <1>2 DEF Stay
<1> QED
  BY <1>1, <1>2, <1>3 DEF Stay, Holds

\* Whoever holds a reservation has held it, and nothing was reserved.
LEMMA HoldersKeep ==
  ASSUME Inv, restored => restored', latest' = latest, granted' = granted,
         \A d \in Callers : Holds(d)' => Holds(d) /\ request'[d].nr = request[d].nr
            /\ request'[d].id = request[d].id /\ request'[d].at = request[d].at
            /\ request'[d].demand = request[d].demand
            /\ request'[d].wake >= request[d].at
  PROVE  Owned'
<1>1. \A d \in Callers : Holds(d)' => OwnSlot(d)'
  BY DEF Inv, Owned, OwnSlot
<1>2. \A d, e \in Callers : Holds(d)' /\ Holds(e)' /\ d # e => request'[d].nr # request'[e].nr
  BY DEF Inv, Owned
<1> QED
  BY <1>1, <1>2 DEF Owned

-----------------------------------------------------------------------------
(* The steps.                                                              *)

LEMMA InitKeeps == AdmissionInit => Inv
<1> SUFFICES ASSUME AdmissionInit PROVE Inv
  OBVIOUS
<1>1. Unset \in [Deadlines -> Nat] /\ Unset.blocked = 0
  BY DEF Unset, Deadlines
<1>2. NoRequest \in Requests
  BY DEF NoRequest, Requests
<1>3. AdmissionTypeOK
  <2>1. granted \in Seq(Reservations) /\ stateFile \in SUBSET [Deadlines -> Nat]
    BY DEF AdmissionInit
  <2>2. request \in [Callers -> Requests]
    BY <1>2 DEF AdmissionInit
  <2> QED
    BY <1>1, <2>1, <2>2 DEF AdmissionInit, AdmissionTypeOK, Requests, Reservations
<1>4. Len(granted) = 0 /\ 1 .. Len(granted) = {}
  BY DEF AdmissionInit
<1>5. MemoryKeeps /\ FileKeeps
  BY <1>1, <1>4 DEF AdmissionInit, MemoryKeeps, FileKeeps, Keeps, Later
<1>6. Spaced(granted) /\ Owned
  BY <1>4 DEF AdmissionInit, Spaced, Owned, Holds
<1> QED
  BY <1>3, <1>5, <1>6 DEF Inv

LEMMA InvokeKeeps == ASSUME Inv, NEW c \in Callers, Invoke(c) PROVE Inv'
<1>1. PICK demand \in Demands :
        request' = [request EXCEPT ![c] = [NoRequest EXCEPT
                      !.demand = demand, !.deadline = time + Patience, !.try = 1, !.wake = time]]
  BY DEF Invoke
<1> DEFINE r == [NoRequest EXCEPT
                   !.demand = demand, !.deadline = time + Patience, !.try = 1, !.wake = time]
<1>2. r \in Requests
  <2>1. demand \in Nat /\ time + Patience \in Nat /\ time \in Nat
    BY SMTT(40), AdmissionAssumption DEF Inv, AdmissionTypeOK
  <2> QED
    BY <2>1 DEF NoRequest, Requests
<1>3. AdmissionTypeOK'
  <2>1. request' \in [Callers -> Requests]
    BY <1>1, <1>2 DEF Inv, AdmissionTypeOK, Requests
  <2>2. place' \in [Callers -> {"idle", "ask", "reserved", "sent"}] /\ invocations' \in Nat
    BY DEF Inv, AdmissionTypeOK, Invoke
  <2> QED
    BY <2>1, <2>2 DEF Inv, AdmissionTypeOK, Invoke, Requests
<1>4. \A d \in Callers : Holds(d)' => d # c /\ Holds(d) /\ request'[d] = request[d]
  BY <1>1 DEF Inv, AdmissionTypeOK, Invoke, Holds
<1>5. Owned'
  BY <1>4, HoldersKeep DEF Invoke, Inv, Owned, OwnSlot
<1> QED
  BY <1>3, <1>5, QuietKeeps DEF Inv, Invoke

\* The steps that end an invocation and touch nothing else.
LEMMA EndKeeps ==
  ASSUME Inv, NEW c \in Callers, Stay(c), outages' \in Nat,
         UNCHANGED <<time, clocks, restored, latest, stateFile, invocations, stops, granted,
                     hinted>>
  PROVE  Inv'
<1>1. AdmissionTypeOK'
  BY StayKeeps DEF Inv, AdmissionTypeOK, Requests
<1>2. Owned'
  BY StayKeeps, HoldersKeep DEF Inv, Owned, OwnSlot
<1> QED
  BY <1>1, <1>2, QuietKeeps DEF Inv

LEMMA UnreadableKeeps == ASSUME Inv, NEW c \in Callers, Unreadable(c) PROVE Inv'
<1>1. outages' \in Nat
  BY DEF Inv, AdmissionTypeOK, Unreadable
<1> QED
  BY <1>1, EndKeeps DEF Unreadable

LEMMA RefusedKeeps == ASSUME Inv, NEW c \in Callers, Refused(c) PROVE Inv'
<1>1. outages' \in Nat
  BY DEF Inv, AdmissionTypeOK, Refused
<1> QED
  BY <1>1, EndKeeps DEF Refused

LEMMA RecheckKeeps == ASSUME Inv, NEW c \in Callers, Recheck(c) PROVE Inv'
<1> DEFINE at == Later(time, clocks.blocked)
<1>0. time \in Nat /\ clocks.blocked \in Nat /\ at \in Nat /\ at >= time
  BY DEF Inv, AdmissionTypeOK, Deadlines, Later
<1>1. CASE Stay(c)
  <2>1. outages' \in Nat
    BY DEF Inv, AdmissionTypeOK, Recheck
  <2> QED
    BY <1>1, <2>1, EndKeeps DEF Recheck
<1>2. CASE at > time /\ request' = [request EXCEPT ![c].wake = at] /\ UNCHANGED place
  <2>1. AdmissionTypeOK'
    <3>1. request \in [Callers -> Requests]
      BY DEF Inv, AdmissionTypeOK, Requests
    <3>2. [request[c] EXCEPT !.wake = at] \in Requests
      BY <1>0, <3>1 DEF Requests
    <3>3. request' \in [Callers -> Requests]
      BY <1>2, <3>1, <3>2
    <3>4. UNCHANGED <<time, clocks, restored, latest, stateFile, place, invocations, outages,
                      stops, granted, hinted>>
      BY <1>0, <1>2 DEF Recheck
    <3> QED
      BY <3>3, <3>4 DEF Inv, AdmissionTypeOK, Requests
  <2>2. request[c].wake <= time /\ Holds(c)
    BY DEF Recheck, Holds
  <2>3. request[c].at \in Nat /\ request[c].wake \in Nat /\ request[c].wake >= request[c].at
    BY <2>2 DEF Inv, AdmissionTypeOK, Owned, OwnSlot
  <2>4. at >= request[c].at
    BY <1>0, <2>2, <2>3
  <2>5. \A d \in Callers :
          /\ request'[d].nr = request[d].nr /\ request'[d].id = request[d].id
          /\ request'[d].at = request[d].at /\ request'[d].demand = request[d].demand
          /\ request'[d].wake = IF d = c THEN at ELSE request[d].wake
    BY <1>2 DEF Inv, AdmissionTypeOK
  <2>6. \A d \in Callers : Holds(d)' => Holds(d)
    BY <1>2 DEF Holds
  <2>7. \A d \in Callers : Holds(d) => request[d].wake >= request[d].at
    BY DEF Inv, Owned, OwnSlot
  <2>8. \A d \in Callers : Holds(d)' => request'[d].wake >= request[d].at
    BY <2>4, <2>5, <2>6, <2>7
  <2>9. Owned'
    BY <2>5, <2>6, <2>8, HoldersKeep DEF Recheck
  <2> QED
    BY <2>1, <2>9, QuietKeeps DEF Inv, Recheck
<1>3. CASE place' = [place EXCEPT ![c] = "sent"] /\ UNCHANGED request
  <2>1. AdmissionTypeOK'
    BY <1>3 DEF Inv, AdmissionTypeOK, Recheck
  <2>2. \A d \in Callers : Holds(d)' => Holds(d)
    BY <1>3 DEF Inv, AdmissionTypeOK, Recheck, Holds
  <2>3. Owned'
    BY <1>3, <2>2, HoldersKeep DEF Recheck, Inv, Owned, OwnSlot
  <2> QED
    BY <2>1, <2>3, QuietKeeps DEF Inv, Recheck
<1> QED
  BY <1>1, <1>2, <1>3 DEF Recheck

LEMMA RestartKeeps == ASSUME Inv, Restart PROVE Inv'
<1>1. Unset \in [Deadlines -> Nat] /\ Unset.blocked = 0
  BY DEF Unset, Deadlines
<1>2. NoRequest \in Requests
  BY DEF NoRequest, Requests
<1>3. AdmissionTypeOK'
  <2>1. request' \in [Callers -> Requests]
    BY <1>2 DEF Restart
  <2>2. place' \in [Callers -> {"idle", "ask", "reserved", "sent"}] /\ stops' \in Nat
    BY DEF Inv, AdmissionTypeOK, Restart
  <2> QED
    BY <1>1, <2>1, <2>2 DEF Inv, AdmissionTypeOK, Restart, Requests
<1>4. FileKeeps'
  BY DEF Inv, FileKeeps, Restart, Keeps
<1>5. MemoryKeeps'
  <2> SUFFICES ASSUME stateFile = {} PROVE Keeps(Unset, time, granted, hinted)
    BY DEF MemoryKeeps, Restart, Keeps
  <2>1. granted = <<>> /\ hinted = 0 /\ time \in Nat
    BY DEF Inv, FileKeeps, AdmissionTypeOK
  <2>2. 1 .. Len(granted) = {}
    BY <2>1
  <2> QED
    BY <1>1, <2>1, <2>2 DEF Keeps, Later
<1>6. Owned' /\ Spaced(granted)'
  BY DEF Inv, Restart, Owned, Holds, Spaced
<1> QED
  BY <1>3, <1>4, <1>5, <1>6 DEF Inv

LEMMA TickKeeps == ASSUME Inv, Tick PROVE Inv'
<1>1. AdmissionTypeOK'
  BY DEF Inv, AdmissionTypeOK, Tick
<1>2. \A d \in [Deadlines -> Nat] :
        Keeps(d, time, granted, hinted) => Keeps(d, time + 1, granted, hinted)
  BY TimeKeeps DEF Inv, AdmissionTypeOK, Reservations
<1>3. clocks \in [Deadlines -> Nat] /\ \A saved \in stateFile : saved \in [Deadlines -> Nat]
  BY DEF Inv, AdmissionTypeOK
<1>4. MemoryKeeps' /\ FileKeeps'
  BY <1>2, <1>3 DEF Inv, MemoryKeeps, FileKeeps, Tick
<1>5. Spaced(granted)' /\ Owned'
  BY DEF Inv, Tick, Spaced, Owned, OwnSlot, Holds
<1> QED
  BY <1>1, <1>4, <1>5 DEF Inv

\* Throttling: everybody is held back by the new deadline.
LEMMA ThrottledKeeps == ASSUME Inv, NEW c \in Callers, Throttled(c) PROVE Inv'
<1>1. PICK pause \in Pauses :
        LET resumes == time + pause
            raised == [clocks EXCEPT !.blocked = Later(@, resumes)]
            again == request[c].try < MaxRequests /\ resumes < request[c].deadline IN
        \/ /\ Saved(raised) /\ hinted' = Later(hinted, resumes)
           /\ \/ /\ again /\ place' = [place EXCEPT ![c] = "ask"]
                 /\ request' = [request EXCEPT ![c].try = @ + 1, ![c].wake = resumes]
              \/ ~ again /\ Stay(c)
        \/ NotSaved(raised) /\ Stay(c) /\ UNCHANGED hinted
  BY DEF Throttled
<1> DEFINE resumes == time + pause
           raised == [clocks EXCEPT !.blocked = Later(@, resumes)]
<1>2. /\ UNCHANGED <<time, latest, invocations, stops, granted>>
      /\ place[c] = "sent" /\ Holds(c)
  BY DEF Throttled, Holds
<1>3. /\ time \in Nat /\ resumes \in Nat /\ hinted \in Nat /\ clocks \in [Deadlines -> Nat]
      /\ granted \in Seq(Reservations)
  BY AdmissionAssumption DEF Inv, AdmissionTypeOK, Reservations
<1>4. restored /\ Keeps(clocks, time, granted, hinted)
  BY <1>2 DEF Inv, Owned, OwnSlot, MemoryKeeps
<1>5. clocks.request \in Nat /\ clocks.token \in Nat /\ clocks.blocked \in Nat
  BY <1>3 DEF Deadlines
<1>6. /\ raised \in [Deadlines -> Nat] /\ raised.request = clocks.request
      /\ raised.token = clocks.token /\ raised.blocked = Later(clocks.blocked, resumes)
  BY <1>3, <1>5, LaterFacts DEF Deadlines, Later
<1> HIDE DEF raised
<1>7. /\ Later(time, raised.blocked) >= Later(hinted, resumes)
      /\ Later(time, raised.blocked) >= hinted /\ Later(hinted, resumes) \in Nat
  BY <1>3, <1>4, <1>5, <1>6 DEF Later, Keeps
<1>8. Keeps(raised, time, granted, hinted) /\ Keeps(raised, time, granted, Later(hinted, resumes))
  BY <1>4, <1>6, <1>7 DEF Keeps
<1>9. /\ MemoryKeeps' /\ FileKeeps' /\ clocks' \in [Deadlines -> Nat]
      /\ stateFile' \in SUBSET [Deadlines -> Nat] /\ restored' = TRUE /\ outages' \in Nat
      /\ hinted' \in Nat
  <2>1. CASE Saved(raised) /\ hinted' = Later(hinted, resumes)
    BY <1>2, <1>6, <1>7, <1>8, <2>1, SavedKeeps
  <2>2. CASE NotSaved(raised) /\ UNCHANGED hinted
    BY <1>2, <1>3, <1>6, <1>8, <2>2, NotSavedKeeps DEF Inv, FileKeeps
  <2> QED
    BY <1>1, <2>1, <2>2 DEF raised
<1>10. /\ place' \in [Callers -> {"idle", "ask", "reserved", "sent"}]
       /\ request' \in [Callers -> Requests]
       /\ \A d \in Callers : Holds(d)' => d # c /\ Holds(d) /\ request'[d] = request[d]
  <2>1. CASE Stay(c)
    BY <2>1, StayKeeps
  <2>2. CASE /\ place' = [place EXCEPT ![c] = "ask"]
             /\ request' = [request EXCEPT ![c].try = @ + 1, ![c].wake = resumes]
    <3>1. place'[c] = "ask" /\ \A d \in Callers \ {c} : place'[d] = place[d]
      BY <2>2 DEF Inv, AdmissionTypeOK
    <3>2. request' \in [Callers -> Requests]
      <4>1. request \in [Callers -> Requests]
        BY DEF Inv, AdmissionTypeOK, Requests
      <4>4. request[c] \in Requests /\ request[c].try + 1 \in Nat
        BY <4>1 DEF Requests
      <4>2. [request[c] EXCEPT !.try = @ + 1, !.wake = resumes] \in Requests
        BY <1>3, <4>4 DEF Requests
      <4>3. request' = [request EXCEPT ![c] =
                          [request[c] EXCEPT !.try = @ + 1, !.wake = resumes]]
        BY <2>2
      <4> QED
        BY <4>1, <4>2, <4>3
    <3>3. \A d \in Callers \ {c} : request'[d] = request[d]
      BY <2>2 DEF Inv, AdmissionTypeOK
    <3>4. place' \in [Callers -> {"idle", "ask", "reserved", "sent"}]
      BY <2>2 DEF Inv, AdmissionTypeOK
    <3> QED
      BY <3>1, <3>2, <3>3, <3>4 DEF Holds
  <2> QED
    BY <1>1, <2>1, <2>2
<1>11. AdmissionTypeOK'
  BY <1>2, <1>9, <1>10 DEF Inv, AdmissionTypeOK, Requests
<1>12. Owned'
  BY <1>2, <1>9, <1>10, HoldersKeep DEF Inv, Owned, OwnSlot
<1>13. Spaced(granted)'
  BY <1>2 DEF Inv, Spaced
<1> QED
  BY <1>9, <1>11, <1>12, <1>13 DEF Inv

-----------------------------------------------------------------------------
(* A reservation is answered.                                              *)

\* g with what reservation n is left with.
Paid(g, n, taken) == [g EXCEPT ![n].cost = taken]

LEMMA PaidFacts ==
  ASSUME NEW g \in Seq(Reservations), NEW n \in 1 .. Len(g), NEW taken \in Nat
  PROVE  /\ Paid(g, n, taken) \in Seq(Reservations) /\ Len(Paid(g, n, taken)) = Len(g)
         /\ \A i \in 1 .. Len(g) :
              /\ g[i] \in Reservations /\ g[i].at \in Nat /\ g[i].cost \in Nat
              /\ Paid(g, n, taken)[i].at = g[i].at
              /\ Paid(g, n, taken)[i].cost = IF i = n THEN taken ELSE g[i].cost
              /\ i # n => Paid(g, n, taken)[i] = g[i]
<1>1. \A i \in 1 .. Len(g) : g[i] \in Reservations
  OBVIOUS
<1>2. \A i \in 1 .. Len(g) : g[i].at \in Nat /\ g[i].cost \in Nat
  BY <1>1 DEF Reservations
<1>3. [g[n] EXCEPT !.cost = taken] \in Reservations
      /\ [g[n] EXCEPT !.cost = taken].at = g[n].at /\ [g[n] EXCEPT !.cost = taken].cost = taken
  BY <1>1 DEF Reservations
<1>4. Paid(g, n, taken) = [g EXCEPT ![n] = [g[n] EXCEPT !.cost = taken]]
  BY DEF Paid
<1>5. Paid(g, n, taken) \in Seq(Reservations) /\ Len(Paid(g, n, taken)) = Len(g)
  BY <1>3, <1>4
<1>6. \A i \in 1 .. Len(g) :
        Paid(g, n, taken)[i] = IF i = n THEN [g[n] EXCEPT !.cost = taken] ELSE g[i]
  BY <1>4
<1> QED
  BY <1>1, <1>2, <1>3, <1>5, <1>6

\* Who used less than was reserved takes nothing from what was kept.
LEMMA PaidKeeps ==
  ASSUME NEW g \in Seq(Reservations), NEW n \in 1 .. Len(g), NEW taken \in Nat,
         taken <= g[n].cost
  PROVE  /\ \A d \in [Deadlines -> Nat], t \in Nat, h \in Nat :
              Keeps(d, t, g, h) => Keeps(d, t, Paid(g, n, taken), h)
         /\ Spaced(g) => Spaced(Paid(g, n, taken))
<1> DEFINE p == Paid(g, n, taken)
<1>1. /\ Len(p) = Len(g)
      /\ \A i \in 1 .. Len(g) : g[i].at \in Nat /\ g[i].cost \in Nat /\ p[i].cost \in Nat
                                /\ p[i].at = g[i].at /\ p[i].cost <= g[i].cost
  BY PaidFacts
<1> HIDE DEF p
<1>2. ASSUME NEW d \in [Deadlines -> Nat], NEW t \in Nat, NEW h \in Nat, Keeps(d, t, g, h)
      PROVE  Keeps(d, t, p, h)
  <2>1. Later(t, d.token) \in Nat
    BY DEF Later, Deadlines
  <2>2. \A i \in 1 .. Len(g) : Later(t, d.token) >= g[i].at + p[i].cost
    <3> SUFFICES ASSUME NEW i \in 1 .. Len(g) PROVE Later(t, d.token) >= g[i].at + p[i].cost
      OBVIOUS
    <3>1. Later(t, d.token) >= g[i].at + g[i].cost
      BY <1>2 DEF Keeps
    <3> QED
      BY SMTT(40), <1>1, <2>1, <3>1, Sums
  <2> QED
    BY <1>1, <1>2, <2>2 DEF Keeps
<1>3. ASSUME Spaced(g) PROVE Spaced(p)
  <2>1. \A i \in 1 .. Len(g) : /\ Later(Interval, p[i].cost) <= Later(Interval, g[i].cost)
                               /\ Later(Interval, p[i].cost) \in Nat
                               /\ Later(Interval, g[i].cost) \in Nat
    BY SMTT(40), <1>1, AdmissionAssumption DEF Later
  <2> SUFFICES ASSUME NEW i \in 1 .. Len(g), NEW j \in 1 .. Len(g), i < j
               PROVE  p[j].at >= p[i].at + Later(Interval, p[i].cost)
    BY <1>1 DEF Spaced
  <2>2. g[j].at >= g[i].at + Later(Interval, g[i].cost)
    BY <1>3 DEF Spaced
  <2> QED
    BY SMTT(40), <1>1, <2>1, <2>2
<1> QED
  BY <1>2, <1>3 DEF p

\* The last reservation may give back what it has not used: every earlier one is
\* apart from it.
LEMMA CreditKeeps ==
  ASSUME NEW d \in [Deadlines -> Nat], NEW t \in Nat, NEW g \in Seq(Reservations), NEW h \in Nat,
         Keeps(d, t, g, h), Spaced(g), Len(g) \in 1 .. Len(g),
         NEW taken \in Nat, taken <= g[Len(g)].cost
  PROVE  LET credited == [d EXCEPT !.token = Later(0, @ - (g[Len(g)].cost - taken))]
         IN credited \in [Deadlines -> Nat] /\ Keeps(credited, t, Paid(g, Len(g), taken), h)
<1> DEFINE n == Len(g)
           p == Paid(g, n, taken)
           credit == g[n].cost - taken
           e == [d EXCEPT !.token = Later(0, @ - credit)]
<1>1. /\ Len(p) = n
      /\ \A i \in 1 .. n : /\ g[i].at \in Nat /\ g[i].cost \in Nat /\ p[i].at = g[i].at
                           /\ p[i].cost = IF i = n THEN taken ELSE g[i].cost
  BY PaidFacts
<1>2. credit \in Nat /\ n \in 1 .. n
  BY <1>1
<1>3. d.token \in Nat /\ d.request \in Nat /\ d.blocked \in Nat
  BY DEF Deadlines
<1>4. Later(0, d.token - credit) \in Nat
  BY <1>2, <1>3 DEF Later
<1>5. /\ e \in [Deadlines -> Nat] /\ e.request = d.request /\ e.blocked = d.blocked
      /\ e.token = Later(0, d.token - credit)
  BY <1>4 DEF Deadlines
<1> HIDE DEF e, p, n
<1>6. Later(t, d.token) >= g[n].at + g[n].cost
  BY <1>2 DEF Keeps, n
<1>7. Later(t, e.token) >= g[n].at + taken /\ Later(t, e.token) \in Nat
  <2>1. g[n].at \in Nat /\ g[n].cost \in Nat /\ g[n].cost - taken \in Nat
    BY <1>1, <1>2
  <2>2. \A a, x, u, k \in Nat : u <= x /\ Later(t, k) >= a + x =>
          Later(t, Later(0, k - (x - u))) >= a + u /\ Later(t, Later(0, k - (x - u))) \in Nat
    BY DEF Later
  <2>3. taken <= g[n].cost
    BY DEF n
  <2> QED
    BY <1>3, <1>5, <1>6, <2>1, <2>2, <2>3
<1>8. \A i \in 1 .. n : Later(t, e.token) >= p[i].at + p[i].cost
  <2> SUFFICES ASSUME NEW i \in 1 .. n PROVE Later(t, e.token) >= p[i].at + p[i].cost
    OBVIOUS
  <2>1. CASE i = n
    BY <1>1, <1>7, <2>1
  <2>2. CASE i # n
    <3>1. g[n].at >= g[i].at + Later(Interval, g[i].cost)
      BY <1>2, <2>2 DEF Spaced, n
    <3>2. Later(Interval, g[i].cost) >= g[i].cost /\ Later(Interval, g[i].cost) \in Nat
      BY <1>1, IntervalType DEF Later
    <3>3. /\ g[n].at \in Nat /\ g[i].at \in Nat /\ g[i].cost \in Nat
          /\ p[i].at = g[i].at /\ p[i].cost = g[i].cost
      BY <1>1, <1>2, <2>2
    <3>4. Later(t, e.token) \in Nat /\ Later(t, e.token) >= g[n].at + taken /\ taken \in Nat
      BY <1>7
    <3>5. g[n].at >= g[i].at + g[i].cost
      BY SMTT(40), <3>1, <3>2, <3>3
    <3>6. Later(t, e.token) >= g[n].at
      BY <3>3, <3>4
    <3>7. g[i].at + g[i].cost \in Nat
      BY SMTT(40), <3>3
    <3>8. Later(t, e.token) >= g[i].at + g[i].cost
      BY <3>3, <3>4, <3>5, <3>6, <3>7
    <3> QED
      BY <3>3, <3>8
  <2> QED
    BY <2>1, <2>2
<1>9. Keeps(e, t, p, h)
  BY <1>1, <1>5, <1>8 DEF Keeps, n
<1> QED
  BY <1>5, <1>9 DEF e, p, n

\* A reservation keeps what was used of it, or all if more was used.
LEMMA AnsweredEffect ==
  ASSUME Inv, NEW c \in Callers, Answered(c)
  PROVE  \E taken \in 0 .. request[c].demand :
           LET credit == request[c].demand - taken
               credited == [clocks EXCEPT !.token = Later(0, @ - credit)] IN
           /\ granted' = Paid(granted, request[c].nr, taken)
           /\ \/ credit > 0 /\ Creditable(c) /\ (Saved(credited) \/ NotSaved(credited))
              \/ /\ credit = 0 \/ ~ Creditable(c)
                 /\ UNCHANGED <<clocks, restored, stateFile, outages>>
<1> DEFINE demand == request[c].demand
           n == request[c].nr
<1>1. demand \in Nat /\ granted \in Seq(Reservations)
  BY DEF Inv, AdmissionTypeOK, Reservations
<1>2. n \in 1 .. Len(granted) /\ granted[n].cost = demand
  <2>1. OwnSlot(c)
    BY DEF Answered, Holds, Inv, Owned
  <2> QED BY <1>1, <2>1 DEF OwnSlot
<1>3. PICK use \in 1 .. demand + Excess :
        LET credit == Later(0, demand - use)
            credited == [clocks EXCEPT !.token = Later(0, @ - credit)] IN
        /\ granted' = [granted EXCEPT ![n].cost = @ - credit]
        /\ \/ credit > 0 /\ Creditable(c) /\ (Saved(credited) \/ NotSaved(credited))
           \/ /\ credit = 0 \/ ~ Creditable(c)
              /\ UNCHANGED <<clocks, restored, stateFile, outages>>
  BY DEF Answered
<1>4. PICK credit : credit = Later(0, demand - use)
  OBVIOUS
<1>5. credit \in 0 .. demand
  <2>1. Excess \in Nat /\ use \in 1 .. demand + Excess
    BY AdmissionAssumption
  <2> HIDE DEF demand
  <2>2. use \in Nat /\ use >= 1
    BY <1>1, <2>1
  <2> QED BY <1>1, <1>4, <2>2 DEF Later
<1>6. PICK taken \in 0 .. demand : taken = demand - credit /\ credit = demand - taken
  <2> HIDE DEF demand
  <2>1. demand - credit \in 0 .. demand /\ credit = demand - (demand - credit)
    BY <1>1, <1>5
  <2> QED BY <2>1
<1>7. granted' = Paid(granted, n, taken)
  <2>1. granted[n].cost - credit = taken
    BY <1>2, <1>6
  <2> QED BY <1>1, <1>2, <1>3, <1>4, <2>1 DEF Paid
<1> QED BY <1>3, <1>4, <1>6, <1>7

LEMMA AnsweredKeeps == ASSUME Inv, NEW c \in Callers, Answered(c) PROVE Inv'
<1>1. PICK taken \in 0 .. request[c].demand :
        LET credit == request[c].demand - taken
            credited == [clocks EXCEPT !.token = Later(0, @ - credit)] IN
        /\ granted' = Paid(granted, request[c].nr, taken)
        /\ \/ credit > 0 /\ Creditable(c) /\ (Saved(credited) \/ NotSaved(credited))
           \/ /\ credit = 0 \/ ~ Creditable(c)
              /\ UNCHANGED <<clocks, restored, stateFile, outages>>
  BY AnsweredEffect
<1> DEFINE n == request[c].nr
           credit == request[c].demand - taken
           credited == [clocks EXCEPT !.token = Later(0, @ - credit)]
<1>2. Stay(c) /\ Holds(c) /\ OwnSlot(c) /\ UNCHANGED <<time, latest, invocations, stops, hinted>>
  BY DEF Answered, Holds, Inv, Owned
<1>3. /\ time \in Nat /\ hinted \in Nat /\ clocks \in [Deadlines -> Nat]
      /\ granted \in Seq(Reservations) /\ request[c].demand \in Nat
      /\ stateFile \in SUBSET [Deadlines -> Nat]
  BY DEF Inv, AdmissionTypeOK, Reservations
<1>4. n \in 1 .. Len(granted) /\ granted[n].cost = request[c].demand /\ taken \in Nat
      /\ taken <= granted[n].cost
  BY <1>2, <1>3 DEF OwnSlot
<1>5. granted' = Paid(granted, n, taken)
  BY <1>1
<1>6. /\ granted' \in Seq(Reservations) /\ Len(granted') = Len(granted)
      /\ \A i \in 1 .. Len(granted) : i # n => granted'[i] = granted[i]
  BY <1>3, <1>4, <1>5, PaidFacts
<1>7. /\ Keeps(clocks, time, granted, hinted) /\ Spaced(granted) /\ restored
      /\ \A saved \in stateFile : Keeps(saved, time, granted, hinted)
  BY <1>2 DEF Inv, MemoryKeeps, FileKeeps, OwnSlot
<1>8. /\ Keeps(clocks, time, granted', hinted) /\ Spaced(granted')
      /\ \A saved \in stateFile : Keeps(saved, time, granted', hinted)
  BY <1>3, <1>4, <1>5, <1>7, PaidKeeps
<1>9. stateFile # {}
  BY <1>3, <1>4 DEF Inv, FileKeeps
<1>10. /\ MemoryKeeps' /\ FileKeeps' /\ clocks' \in [Deadlines -> Nat]
       /\ stateFile' \in SUBSET [Deadlines -> Nat] /\ restored' = TRUE /\ outages' \in Nat
  <2>1. CASE Creditable(c) /\ (Saved(credited) \/ NotSaved(credited))
    <3>1. n = Len(granted)
      BY <1>2, <2>1 DEF OwnSlot, Creditable
    <3>2. credited \in [Deadlines -> Nat] /\ Keeps(credited, time, granted', hinted)
      <4>1. credited = [clocks EXCEPT !.token =
                          Later(0, @ - (granted[Len(granted)].cost - taken))]
        BY <1>4, <3>1
      <4>2. granted' = Paid(granted, Len(granted), taken) /\ Len(granted) \in 1 .. Len(granted)
            /\ taken <= granted[Len(granted)].cost /\ taken \in Nat
        BY <1>4, <1>5, <3>1
      <4> HIDE DEF credited
      <4> QED
        BY <1>3, <1>7, <4>1, <4>2, CreditKeeps
    <3> HIDE DEF credited
    <3>3. Keeps(credited, time, granted', hinted')
          /\ \A saved \in stateFile : Keeps(saved, time, granted', hinted')
      BY <1>2, <1>8, <3>2
    <3>4. CASE Saved(credited)
      BY <1>2, <3>2, <3>3, <3>4, SavedKeeps
    <3>5. CASE NotSaved(credited)
      BY <1>2, <1>9, <3>2, <3>3, <3>5, NotSavedKeeps
    <3> QED
      BY <2>1, <3>4, <3>5
  <2>2. CASE UNCHANGED <<clocks, restored, stateFile, outages>>
    <3>1. MemoryKeeps' /\ FileKeeps'
      BY <1>2, <1>8, <1>9, <2>2 DEF MemoryKeeps, FileKeeps
    <3> QED
      BY <1>3, <1>7, <2>2, <3>1 DEF Inv, AdmissionTypeOK
  <2> QED
    BY <1>1, <2>1, <2>2
<1>11. AdmissionTypeOK'
  BY <1>2, <1>6, <1>10, StayKeeps DEF Inv, AdmissionTypeOK, Requests, Reservations
<1>12. Spaced(granted)'
  BY <1>8
<1>13. \A d \in Callers : Holds(d)' => d # c /\ Holds(d) /\ request'[d] = request[d]
  BY <1>2, StayKeeps
<1>14. \A d \in Callers : Holds(d)' => OwnSlot(d)'
  BY <1>2, <1>6, <1>10, <1>13 DEF Inv, Owned, OwnSlot
<1>15. Owned'
  BY <1>13, <1>14 DEF Inv, Owned
<1> QED
  BY <1>10, <1>11, <1>12, <1>15 DEF Inv

-----------------------------------------------------------------------------
(* A reservation is made.                                                  *)

LEMMA EligibleFacts ==
  ASSUME NEW d \in [Deadlines -> Nat], time \in Nat
  PROVE  /\ Eligible(d) \in Nat /\ Eligible(d) >= time
         /\ Eligible(d) >= Later(time, d.request) /\ Eligible(d) >= Later(time, d.token)
         /\ Eligible(d) >= Later(time, d.blocked)
<1>1. d.request \in Nat /\ d.token \in Nat /\ d.blocked \in Nat
  BY DEF Deadlines
<1> QED
  BY <1>1 DEF Eligible, Later

\* What is granted when the deadlines allow it is apart from all before it.
LEMMA GrantSpaced ==
  ASSUME NEW d \in [Deadlines -> Nat], time \in Nat, NEW g \in Seq(Reservations), NEW h \in Nat,
         Keeps(d, time, g, h)
  PROVE  \A i \in 1 .. Len(g) : Eligible(d) >= g[i].at + Later(Interval, g[i].cost)
<1>1. \A i \in 1 .. Len(g) : g[i] \in Reservations
  OBVIOUS
<1> SUFFICES ASSUME NEW i \in 1 .. Len(g)
             PROVE  Eligible(d) >= g[i].at + Later(Interval, g[i].cost)
  OBVIOUS
<1>2. g[i].at \in Nat /\ g[i].cost \in Nat
  BY <1>1 DEF Reservations
<1>3. Later(Interval, g[i].cost) \in {Interval, g[i].cost}
  BY DEF Later
<1>4. /\ Later(time, d.request) >= g[i].at + Interval
      /\ Later(time, d.token) >= g[i].at + g[i].cost
  BY DEF Keeps
<1>5. Later(time, d.request) \in Nat /\ Later(time, d.token) \in Nat
  BY DEF Later, Deadlines
<1>6. Eligible(d) \in Nat /\ Eligible(d) >= Later(time, d.request)
      /\ Eligible(d) >= Later(time, d.token)
  BY EligibleFacts
<1> QED
  <2>1. g[i].at + Interval \in Nat /\ g[i].at + g[i].cost \in Nat
    BY <1>2, IntervalType, Sums
  <2>2. Eligible(d) >= g[i].at + Interval /\ Eligible(d) >= g[i].at + g[i].cost
    BY <1>4, <1>5, <1>6, <2>1, Sums
  <2> QED
    BY <1>3, <2>2

\* The deadlines that a reservation leaves.
LEMMA ReservingKeeps ==
  ASSUME Inv, NEW c \in Callers
  PROVE  LET at == Eligible(Restored)
             demand == request[c].demand
             r == [at |-> at, cost |-> demand]
             g2 == Append(granted, r)
             e == Reserving(Restored, at, demand) IN
         /\ e \in [Deadlines -> Nat]
         /\ Keeps(e, time, granted, hinted) /\ Keeps(e, time, g2, hinted)
         /\ g2 \in Seq(Reservations) /\ Len(g2) = Len(granted) + 1 /\ Spaced(g2)
         /\ g2[Len(granted) + 1] = r /\ \A i \in 1 .. Len(granted) : g2[i] = granted[i]
<1> DEFINE d == Restored
           g == granted
           h == hinted
           demand == request[c].demand
           at == Eligible(d)
           r == [at |-> at, cost |-> demand]
           g2 == Append(g, r)
           e == Reserving(d, at, demand)
<1>0. /\ d \in [Deadlines -> Nat] /\ time \in Nat /\ g \in Seq(Reservations) /\ h \in Nat
      /\ Keeps(d, time, g, h) /\ Spaced(g) /\ demand \in Nat
      /\ at = Eligible(d) /\ r = [at |-> at, cost |-> demand] /\ g2 = Append(g, r)
      /\ e = Reserving(d, at, demand)
  BY RestoredKeeps DEF Inv, AdmissionTypeOK, Reservations
<1> HIDE DEF d, g, h, demand, at, r, g2, e
<1> USE <1>0
<1>1. at \in Nat /\ at >= time
  BY EligibleFacts
<1>2. r \in Reservations /\ r.at = at /\ r.cost = demand
  BY <1>1 DEF Reservations
<1>3. /\ g2 \in Seq(Reservations) /\ Len(g2) = Len(g) + 1 /\ Len(g) \in Nat
      /\ g2[Len(g) + 1] = r /\ \A i \in 1 .. Len(g) : g2[i] = g[i]
  BY <1>2
<1>4. \A i \in 1 .. Len(g) : at >= g[i].at + Later(Interval, g[i].cost)
  BY GrantSpaced
<1>5. /\ e \in [Deadlines -> Nat] /\ e.request = at + Interval /\ e.token = at + demand
      /\ e.blocked = d.blocked
  <2>1. at + Interval \in Nat /\ at + demand \in Nat
    BY <1>1, IntervalType
  <2> QED
    BY <2>1 DEF Reserving, Deadlines
<1>6. \A i \in 1 .. Len(g) : g[i] \in Reservations
  OBVIOUS
<1>7. \A i \in 1 .. Len(g) : g[i].at \in Nat /\ g[i].cost \in Nat
  BY <1>6 DEF Reservations
<1>8. /\ Later(time, e.request) >= at + Interval /\ Later(time, e.token) >= at + demand
      /\ Later(time, e.request) \in Nat /\ Later(time, e.token) \in Nat
  <2>1. at + Interval \in Nat /\ at + demand \in Nat
    BY <1>1, IntervalType
  <2> QED
    BY <1>5, <2>1 DEF Later
<1>9. \A i \in 1 .. Len(g) : at >= g[i].at /\ at >= g[i].at + g[i].cost
  <2> SUFFICES ASSUME NEW i \in 1 .. Len(g) PROVE at >= g[i].at /\ at >= g[i].at + g[i].cost
    OBVIOUS
  <2>1. /\ Later(Interval, g[i].cost) \in Nat /\ g[i].cost <= Later(Interval, g[i].cost)
        /\ g[i].at \in Nat /\ g[i].cost \in Nat
    BY <1>7, IntervalType DEF Later
  <2> QED
    BY SMTT(40), <1>1, <1>4, <2>1, Sums
<1>10. Keeps(e, time, g, h)
  <2>1. \A i \in 1 .. Len(g) : /\ Later(time, e.request) >= g[i].at + Interval
                               /\ Later(time, e.token) >= g[i].at + g[i].cost
    <3> SUFFICES ASSUME NEW i \in 1 .. Len(g)
                 PROVE  /\ Later(time, e.request) >= g[i].at + Interval
                        /\ Later(time, e.token) >= g[i].at + g[i].cost
      OBVIOUS
    <3>1. g[i].at \in Nat /\ g[i].cost \in Nat /\ at \in Nat
      BY <1>1, <1>7
    <3>2. at >= g[i].at /\ at >= g[i].at + g[i].cost
      BY <1>9
    <3>3. Later(time, e.request) >= g[i].at + Interval
      <4> HIDE <1>0
      <4>1. at + Interval >= g[i].at + Interval
        BY <3>1, <3>2, IntervalType
      <4>2. at + Interval \in Nat /\ g[i].at + Interval \in Nat
        BY <3>1, IntervalType
      <4>3. Later(time, e.request) >= at + Interval /\ Later(time, e.request) \in Nat
        BY <1>8
      <4> QED
        BY <4>1, <4>2, <4>3
    <3>5. Later(time, e.token) >= at
      BY <1>8, <3>1
    <3>6. g[i].at + g[i].cost \in Nat
      BY SMTT(40), <3>1
    <3>7. Later(time, e.token) >= g[i].at + g[i].cost
      BY <1>8, <3>1, <3>2, <3>5, <3>6
    <3> QED
      BY <3>3, <3>7
  <2> QED
    BY <1>5, <2>1 DEF Keeps
<1>11. \A i \in 1 .. Len(g2) : i \in 1 .. Len(g) \/ i = Len(g) + 1
  BY <1>3
<1>12. Keeps(e, time, g2, h)
  <2>1. \A i \in 1 .. Len(g2) : /\ Later(time, e.request) >= g2[i].at + Interval
                                /\ Later(time, e.token) >= g2[i].at + g2[i].cost
    BY <1>2, <1>3, <1>8, <1>10, <1>11 DEF Keeps
  <2> QED
    BY <1>10, <2>1 DEF Keeps
<1>13. Spaced(g2)
  <2> SUFFICES ASSUME NEW i \in 1 .. Len(g2), NEW j \in 1 .. Len(g2), i < j
               PROVE  g2[j].at >= g2[i].at + Later(Interval, g2[i].cost)
    BY DEF Spaced
  <2>1. i \in 1 .. Len(g)
    BY <1>3, <1>11
  <2>2. CASE j \in 1 .. Len(g)
    BY <1>3, <2>1, <2>2 DEF Spaced
  <2>3. CASE j = Len(g) + 1
    BY <1>2, <1>3, <1>4, <2>1, <2>3
  <2> QED
    BY <1>11, <2>2, <2>3
<1> QED
  BY <1>3, <1>5, <1>10, <1>12, <1>13 DEF d, g, h, demand, at, r, g2, e

LEMMA AskKeeps == ASSUME Inv, NEW c \in Callers, Ask(c) PROVE Inv'
<1> DEFINE d == Restored
           at == Eligible(Restored)
           demand == request[c].demand
           new == Reserving(Restored, at, demand)
           r == [at |-> at, cost |-> demand]
<1>1. d \in [Deadlines -> Nat] /\ Keeps(d, time, granted, hinted)
  BY RestoredKeeps
<1>2. /\ time \in Nat /\ hinted \in Nat /\ granted \in Seq(Reservations) /\ demand \in Nat
      /\ latest \in Nat /\ Spaced(granted) /\ stateFile \in SUBSET [Deadlines -> Nat]
      /\ outages \in Nat
  BY DEF Inv, AdmissionTypeOK, Reservations
<1>3. UNCHANGED <<time, invocations, stops, hinted>>
  BY DEF Ask
<1>4. at \in Nat
  BY <1>1, <1>2, EligibleFacts
<1>5. /\ new \in [Deadlines -> Nat]
      /\ Keeps(new, time, granted, hinted) /\ Keeps(new, time, Append(granted, r), hinted)
      /\ Append(granted, r) \in Seq(Reservations)
      /\ Len(Append(granted, r)) = Len(granted) + 1 /\ Spaced(Append(granted, r))
      /\ Append(granted, r)[Len(granted) + 1] = r
      /\ \A i \in 1 .. Len(granted) : Append(granted, r)[i] = granted[i]
  BY ReservingKeeps
<1>6. CASE /\ clocks' = Restored /\ restored' = TRUE /\ Stay(c)
           /\ UNCHANGED <<latest, stateFile, outages, granted>>
  <2>1. AdmissionTypeOK'
    BY <1>1, <1>2, <1>3, <1>6, StayKeeps DEF Inv, AdmissionTypeOK, Requests, Reservations
  <2>2. MemoryKeeps' /\ FileKeeps'
    BY <1>1, <1>3, <1>6 DEF MemoryKeeps, FileKeeps, Inv
  <2>3. Owned'
    BY <1>6, StayKeeps, HoldersKeep DEF Inv, Owned, OwnSlot
  <2> QED
    BY <1>2, <1>6, <2>1, <2>2, <2>3 DEF Inv
<1>7. CASE /\ latest' = latest + 1 /\ NotSaved(new) /\ Stay(c) /\ UNCHANGED granted
  <2> HIDE DEF new, at, r
  <2>1. /\ MemoryKeeps' /\ FileKeeps' /\ clocks' \in [Deadlines -> Nat]
        /\ stateFile' \in SUBSET [Deadlines -> Nat] /\ restored' = TRUE /\ outages' \in Nat
    BY <1>3, <1>5, <1>7, NotSavedKeeps DEF Inv, FileKeeps
  <2>2. AdmissionTypeOK'
    <3>1. latest' \in Nat /\ granted' \in Seq(Reservations)
      BY <1>2, <1>7
    <3>2. /\ place' \in [Callers -> {"idle", "ask", "reserved", "sent"}]
          /\ request' \in [Callers -> Requests]
      BY <1>7, StayKeeps
    <3> QED
      BY <1>3, <2>1, <3>1, <3>2 DEF Inv, AdmissionTypeOK, Requests, Reservations
  <2>3. \A e \in Callers : Holds(e)' => e # c /\ Holds(e) /\ request'[e] = request[e]
    BY <1>7, StayKeeps
  <2>4. \A e \in Callers : request[e].id \in Nat
    BY DEF Inv, AdmissionTypeOK
  <2>5. \A e \in Callers : Holds(e)' => OwnSlot(e)'
    BY <1>2, <1>7, <2>1, <2>3, <2>4 DEF Inv, Owned, OwnSlot
  <2>6. Owned'
    BY <2>3, <2>5 DEF Inv, Owned
  <2> QED
    BY <1>2, <1>7, <2>1, <2>2, <2>6 DEF Inv
<1>8. CASE /\ latest' = latest + 1 /\ Saved(new) /\ granted' = Append(granted, r)
           /\ place' = [place EXCEPT ![c] = "reserved"]
           /\ request' = [request EXCEPT ![c].id = latest + 1, ![c].wake = at,
                                         ![c].at = at, ![c].nr = Len(granted) + 1]
  <2>0. r.at = at /\ r.cost = demand
    OBVIOUS
  <2>1. /\ MemoryKeeps' /\ FileKeeps' /\ clocks' \in [Deadlines -> Nat]
        /\ stateFile' \in SUBSET [Deadlines -> Nat] /\ restored' = TRUE /\ outages' \in Nat
    <3> HIDE DEF new, r
    <3> QED
      BY <1>3, <1>5, <1>8, SavedKeeps
  <2>2. Len(granted) \in Nat /\ Len(granted) + 1 \in Nat
    BY <1>2
  <2>3. request' \in [Callers -> Requests]
    <3>1. request \in [Callers -> Requests]
      BY DEF Inv, AdmissionTypeOK, Requests
    <3> HIDE DEF at
    <3>4. request[c] \in Requests /\ latest + 1 \in Nat
      BY <1>2, <3>1
    <3>2. [request[c] EXCEPT !.id = latest + 1, !.wake = at, !.at = at, !.nr = Len(granted) + 1]
            \in Requests
      BY <1>4, <2>2, <3>4 DEF Requests
    <3>3. request' = [request EXCEPT ![c] = [request[c] EXCEPT
                        !.id = latest + 1, !.wake = at, !.at = at, !.nr = Len(granted) + 1]]
      BY <1>8
    <3> QED
      BY <3>1, <3>2, <3>3
  <2>4. /\ request'[c].id = latest + 1 /\ request'[c].wake = at /\ request'[c].at = at
        /\ request'[c].nr = Len(granted) + 1 /\ request'[c].demand = demand
        /\ \A e \in Callers \ {c} : request'[e] = request[e]
    <3>1. request[c] \in Requests /\ request \in [Callers -> Requests]
      BY DEF Inv, AdmissionTypeOK, Requests
    <3> HIDE DEF at
    <3> QED
      BY <1>8, <3>1 DEF Requests
  <2>5. AdmissionTypeOK'
    <3>1. place' \in [Callers -> {"idle", "ask", "reserved", "sent"}]
      BY <1>8 DEF Inv, AdmissionTypeOK
    <3>2. granted' \in Seq(Reservations) /\ latest' \in Nat
      BY <1>2, <1>5, <1>8
    <3> QED
      BY <1>3, <2>1, <2>3, <3>1, <3>2 DEF Inv, AdmissionTypeOK, Requests, Reservations
  <2>6. \A e \in Callers : e # c /\ Holds(e)' => Holds(e)
    BY <1>8 DEF Holds, Inv, AdmissionTypeOK
  <2>7. \A e \in Callers : e # c /\ Holds(e)' => OwnSlot(e)'
    <3> SUFFICES ASSUME NEW e \in Callers, e # c, Holds(e)' PROVE OwnSlot(e)'
      OBVIOUS
    <3>1. OwnSlot(e) /\ request'[e] = request[e] /\ request[e].id \in Nat
      BY <2>4, <2>6 DEF Inv, Owned, AdmissionTypeOK
    <3>2. request[e].nr \in 1 .. Len(granted) /\ request[e].nr \in 1 .. Len(granted')
      BY <1>5, <1>8, <2>2, <3>1 DEF OwnSlot
    <3>3. granted'[request[e].nr] = granted[request[e].nr]
      BY <1>5, <1>8, <3>2
    <3>4. request[e].id <= latest + 1 /\ request[e].id # latest + 1
      BY <1>2, <3>1 DEF OwnSlot
    <3> QED
      BY <1>8, <2>1, <3>1, <3>2, <3>3, <3>4 DEF OwnSlot
  <2>8. OwnSlot(c)'
    <3>1. granted'[Len(granted) + 1] = r /\ Len(granted') = Len(granted) + 1
      BY <1>5, <1>8
    <3>2. Len(granted) + 1 \in 1 .. Len(granted')
      BY <2>2, <3>1
    <3>3. r = [at |-> request'[c].at, cost |-> request'[c].demand]
      BY <2>4
    <3> HIDE DEF at, r
    <3>4. at >= at /\ latest + 1 <= latest + 1
      BY <1>2, <1>4
    <3> QED
      BY <1>8, <2>1, <2>4, <3>1, <3>2, <3>3, <3>4 DEF OwnSlot
  <2>9. \A e \in Callers \ {c} : Holds(e)' => request'[e].nr # request'[c].nr
    <3>1. \A e \in Callers \ {c} : Holds(e)' => request'[e].nr \in 1 .. Len(granted)
      BY <2>4, <2>6 DEF Inv, Owned, OwnSlot
    <3> QED
      BY <2>2, <2>4, <3>1
  <2>10. Owned'
    <3>1. \A e, f \in Callers \ {c} : Holds(e)' /\ Holds(f)' /\ e # f =>
            request'[e].nr # request'[f].nr
      BY <2>4, <2>6 DEF Inv, Owned
    <3> QED
      BY <2>7, <2>8, <2>9, <3>1 DEF Owned
  <2> QED
    BY <1>5, <1>8, <2>1, <2>5, <2>10 DEF Inv
<1> QED
  BY <1>6, <1>7, <1>8 DEF Ask

-----------------------------------------------------------------------------
(* The theorems.                                                           *)

LEMMA NextKeeps == Inv /\ [AdmissionNext]_admissionVars => Inv'
<1> SUFFICES ASSUME Inv, [AdmissionNext]_admissionVars PROVE Inv'
  OBVIOUS
<1>1. CASE UNCHANGED admissionVars
  BY <1>1, QuietKeeps DEF admissionVars, Inv, AdmissionTypeOK, Owned, OwnSlot, Holds
<1>2. ASSUME NEW c \in Callers,
             \/ Invoke(c) \/ Ask(c) \/ Unreadable(c) \/ Recheck(c) \/ Answered(c)
             \/ Throttled(c) \/ Refused(c)
      PROVE  Inv'
  <2>1. CASE Invoke(c)
    BY <2>1, InvokeKeeps
  <2>2. CASE Ask(c)
    BY <2>2, AskKeeps
  <2>3. CASE Unreadable(c)
    BY <2>3, UnreadableKeeps
  <2>4. CASE Recheck(c)
    BY <2>4, RecheckKeeps
  <2>5. CASE Answered(c)
    BY <2>5, AnsweredKeeps
  <2>6. CASE Throttled(c)
    BY <2>6, ThrottledKeeps
  <2>7. CASE Refused(c)
    BY <2>7, RefusedKeeps
  <2> QED
    BY <1>2, <2>1, <2>2, <2>3, <2>4, <2>5, <2>6, <2>7
<1>3. CASE Restart \/ Tick
  BY <1>3, RestartKeeps, TickKeeps
<1> QED
  BY <1>1, <1>2, <1>3 DEF AdmissionNext

\* Every variable of the admission of requests keeps to its type.
THEOREM AdmissionTypes == AdmissionSpec => []AdmissionTypeOK
<1>1. Inv => AdmissionTypeOK
  BY DEF Inv
<1> QED
  BY <1>1, InitKeeps, NextKeeps, PTL DEF AdmissionSpec

\* A step that reserves, reserves apart from all before it; one that sends comes
\* after its reservation and after every throttle that was acknowledged.
Paced ==
  /\ Len(granted') > Len(granted) =>
       \A i \in 1 .. Len(granted) :
         granted'[Len(granted')].at >= granted[i].at + Later(Interval, granted[i].cost)
  /\ \A c \in Callers : place[c] # "sent" /\ place'[c] = "sent" =>
       time >= request[c].at /\ time >= hinted

LEMMA NoneGranted == ASSUME Inv, Len(granted') = Len(granted) PROVE ~ (Len(granted') > Len(granted))
<1>1. Len(granted) \in Nat
  BY DEF Inv, AdmissionTypeOK
<1> QED
  BY <1>1

LEMMA AskPaced == ASSUME Inv, NEW c \in Callers, Ask(c) PROVE Paced
<1> DEFINE at == Eligible(Restored)
           r == [at |-> at, cost |-> request[c].demand]
<1>1. \A e \in Callers : place'[e] = "sent" => place[e] = "sent"
  BY DEF Ask, Stay, Inv, AdmissionTypeOK
<1>2. granted \in Seq(Reservations) /\ hinted \in Nat /\ time \in Nat
  BY DEF Inv, AdmissionTypeOK, Reservations
<1>3. \A i \in 1 .. Len(granted) : at >= granted[i].at + Later(Interval, granted[i].cost)
  BY <1>2, RestoredKeeps, GrantSpaced
<1>4. CASE granted' = granted
  BY <1>1, <1>4, NoneGranted DEF Paced
<1>5. CASE granted' = Append(granted, r)
  <2>1. r.at = at
    OBVIOUS
  <2> HIDE DEF at, r
  <2>2. granted'[Len(granted')] = r
    BY <1>2, <1>5
  <2> QED
    BY <1>1, <1>3, <2>1, <2>2 DEF Paced
<1> QED
  BY <1>4, <1>5 DEF Ask

LEMMA RecheckPaced == ASSUME Inv, NEW c \in Callers, Recheck(c) PROVE Paced
<1>1. granted' = granted
  BY DEF Recheck
<1>2. \A e \in Callers : place[e] # "sent" /\ place'[e] = "sent" =>
        e = c /\ Later(time, clocks.blocked) = time
  BY DEF Recheck, Stay, Inv, AdmissionTypeOK
<1>3. /\ request[c].wake <= time /\ request[c].wake >= request[c].at
      /\ Keeps(clocks, time, granted, hinted)
  BY DEF Recheck, Holds, Inv, Owned, OwnSlot, MemoryKeeps
<1>4. time \in Nat /\ request[c].at \in Nat /\ request[c].wake \in Nat
  BY DEF Inv, AdmissionTypeOK
<1>5. time >= request[c].at
  BY <1>3, <1>4
<1>6. Later(time, clocks.blocked) = time => time >= hinted
  BY <1>3 DEF Keeps
<1> QED
  BY <1>1, <1>2, <1>5, <1>6, NoneGranted DEF Paced

\* The steps that reserve and send nothing.
LEMMA IdlePaced ==
  ASSUME Inv, Len(granted') = Len(granted),
         \A e \in Callers : place'[e] = "sent" => place[e] = "sent"
  PROVE  Paced
BY NoneGranted DEF Paced

LEMMA StepPaced == Inv /\ AdmissionNext => Paced
<1> SUFFICES ASSUME Inv, AdmissionNext PROVE Paced
  OBVIOUS
<1>1. ASSUME NEW c \in Callers, Answered(c) PROVE Paced
  <2>1. PICK taken \in 0 .. request[c].demand : granted' = Paid(granted, request[c].nr, taken)
    BY <1>1, AnsweredEffect
  <2>2. Len(granted') = Len(granted)
    <3>1. granted \in Seq(Reservations) /\ request[c].nr \in 1 .. Len(granted) /\ taken \in Nat
      <4>1. granted \in Seq(Reservations) /\ request[c].demand \in Nat
        BY DEF Inv, AdmissionTypeOK, Reservations
      <4>2. OwnSlot(c)
        BY <1>1 DEF Answered, Holds, Inv, Owned
      <4> QED
        BY <4>1, <4>2 DEF OwnSlot
    <3> QED
      BY <2>1, <3>1, PaidFacts
  <2>3. \A e \in Callers : place'[e] = "sent" => place[e] = "sent"
    BY <1>1 DEF Answered, Stay, Inv, AdmissionTypeOK
  <2> QED
    BY <2>2, <2>3, IdlePaced
<1>2. ASSUME NEW c \in Callers, Invoke(c) \/ Unreadable(c) \/ Throttled(c) \/ Refused(c)
      PROVE  Paced
  <2>1. granted' = granted
    BY <1>2 DEF Invoke, Unreadable, Throttled, Refused
  <2>2. \A e \in Callers : place'[e] = "sent" => place[e] = "sent"
    BY <1>2 DEF Invoke, Unreadable, Throttled, Refused, Stay, Inv, AdmissionTypeOK
  <2> QED
    BY <2>1, <2>2, IdlePaced
<1>3. CASE Restart \/ Tick
  BY <1>3, IdlePaced DEF Restart, Tick
<1> QED
  BY <1>1, <1>2, <1>3, AskPaced, RecheckPaced DEF AdmissionNext

\* Requests to a provider are spaced by what the earlier ones reserved, less what
\* of it they did not use, and wait for what the provider has announced, through
\* credits, restarts and failures to save, and whatever was used beyond a
\* reservation (admit, observe_success, observe_throttle).
THEOREM Pacing == AdmissionSpec => RequestsArePaced
<1>1. Inv /\ [AdmissionNext]_admissionVars => [Paced]_admissionVars
  BY StepPaced
<1> QED
  BY <1>1, InitKeeps, NextKeeps, PTL DEF AdmissionSpec, RequestsArePaced, Paced

-----------------------------------------------------------------------------
(* The services, side by side.  A step is one of the part whose scene it is, *)
(* and leaves every other part as it was.                                   *)

\* In MCServices every part behaves as in its own specification: the budget
\* ledgers, the patches, the evidence, the containers, the publication and the
\* pacing of requests share no state that any of their code writes.
THEOREM ServicesAreParts ==
  ServicesSpec =>
    /\ Spec /\ PatchSpec /\ EvidenceSpec
    /\ DockerSpec /\ PublicationSpec /\ AdmissionSpec
<1>1. ServicesInit => /\ Init /\ PatchInit /\ EvidenceInit
                      /\ DockerInit /\ PublicationInit /\ AdmissionInit
  BY DEF ServicesInit
<1>2. ASSUME [ServicesNext]_servicesVars
      PROVE  /\ [Next]_vars /\ [PatchNext]_patchVars /\ [EvidenceNext]_evidenceVars
             /\ [DockerNext]_dockerVars /\ [PublicationNext]_publicationVars
             /\ [AdmissionNext]_admissionVars
  <2>1. CASE UNCHANGED servicesVars
    BY <2>1 DEF servicesVars
  <2>2. CASE BudgetMoves
    BY <2>2 DEF BudgetMoves
  <2>3. CASE PatchMoves
    BY <2>3 DEF PatchMoves
  <2>4. CASE EvidenceMoves
    BY <2>4 DEF EvidenceMoves
  <2>5. CASE DockerMoves
    BY <2>5 DEF DockerMoves
  <2>6. CASE PublicationMoves
    BY <2>6 DEF PublicationMoves
  <2>7. CASE AdmissionMoves
    BY <2>7 DEF AdmissionMoves
  <2> QED
    BY <1>2, <2>1, <2>2, <2>3, <2>4, <2>5, <2>6, <2>7 DEF ServicesNext
<1> QED
  BY <1>1, <1>2, PTL DEF ServicesSpec, Spec, PatchSpec, EvidenceSpec, DockerSpec,
                         PublicationSpec, AdmissionSpec

\* The records of every part keep to the types that their constructors give
\* them, for any files, Tasks, calls, publishers, callers and bounds.
THEOREM ServicesTypes == ServicesSpec => []ServicesTypeOK
<1>1. /\ PatchTypeOK /\ EvidenceTypeOK /\ DockerTypeOK /\ PublicationTypeOK /\ AdmissionTypeOK
        => ServicesTypeOK
  BY DEF ServicesTypeOK
<1> QED
  BY <1>1, ServicesAreParts, PatchTypesKept, EvidenceTypesKept, DockerTypes, PublicationTypes,
     AdmissionTypes, PTL

\* What the system promises of the parts around the scheduler holds of all of
\* them at once: the books of the budgets, the working tree after a failed
\* patch, the evidence that acceptance passes on, the answers of a container
\* run, the one pull request, its approval, and the pace of the requests.
THEOREM ServicesKeepPromises ==
  ServicesSpec =>
    /\ []LedgersBalance /\ []OverrunIsMarked /\ UnknownSpendStops
    /\ OutputIsCapped => []SpendingWithinLimits
    /\ []FailureRestoresTree /\ []EligiblePatchIsOwn /\ ForeignEditsKept
    /\ []AcceptanceIsExact /\ []CallersAgree /\ []DoneLeavesNothing
    /\ []OnePullRequest /\ []SuccessIsPublished /\ []PublishedIsAuthorized
    /\ ImplementsGatedRelease /\ RequestsArePaced
BY ServicesAreParts, LedgersBalanced, OverrunMarked, UnknownStops, SpendingLimited, FailureRestores, PatchIsOwn,
   ForeignKept, AcceptanceExact, CallersAgreement, DoneIsTidy, PublicationOnce, SuccessPublished,
   PublicationAuthorized, PublicationImplements, Pacing
=============================================================================
