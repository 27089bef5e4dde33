---------------------------- MODULE DockerValidation ----------------------------
(***************************************************************************)
(* One invocation of the Docker validation Tool: DockerValidationTool, its *)
(* adapter and the container in src/aep/docker_validation_tool.py, and     *)
(* invoke_tool in tool_runtime.py.                                         *)
(*                                                                         *)
(* Calls with the same invocation id share a record.  The call that        *)
(* creates it runs the commands; any other waits for its result, and ends  *)
(* the invocation when the time it was given is over.  The calls may be in *)
(* different processes, and the owner's may die.                           *)
(***************************************************************************)
EXTENDS Naturals

CONSTANTS
  Calls,        \* calls of invoke()
  Commands      \* how many commands the validation has

ASSUME CommandsAssumption == Commands \in Nat \ {0}

VARIABLES
  toolCall,    \* the ToolInvocation
  container,   \* whether the container exists
  running,     \* whether a command runs in it
  callAt,      \* [Calls -> place in invoke()]
  got          \* [Calls -> result the call has in hand, or returned]

dockerVars == <<toolCall, container, running, callAt, got>>

\* A ToolResult: its class and how many commands passed.
ResultClasses == {"SUCCEEDED", "NONZERO", "TIMED_OUT", "STARTUP", "UNREADY", "INCOMPLETE",
                  "DENIED", "ADAPTER"}
NoResult == [class |-> "none", passed |-> 0]
ToolResults == [class : ResultClasses \cup {"none"}, passed : 0..Commands]

\* INCOMPLETE stands for a timeout before the executables were all probed.
StatusFor(result) == IF result.class = "SUCCEEDED" THEN "SUCCEEDED" ELSE "FAILED"

DockerInit ==
  /\ toolCall = [status |-> "none", result |-> NoResult]
  /\ container = FALSE /\ running = FALSE
  /\ callAt = [c \in Calls |-> "idle"] /\ got = [c \in Calls |-> NoResult]

CallGoes(c, place) == callAt' = [callAt EXCEPT ![c] = place]
Got(c, class, passed) == got' = [got EXCEPT ![c] = [class |-> class, passed |-> passed]]
Answer(c, result) == got' = [got EXCEPT ![c] = result] /\ CallGoes(c, "returned")
OnRecord == toolCall.status \in {"SUCCEEDED", "FAILED"}

-----------------------------------------------------------------------------
(* The record.                                                             *)

\* create(): the first caller owns the invocation, the others read its result
\* or wait.
Book(c) ==
  /\ callAt[c] = "idle"
  /\ \/ /\ toolCall.status = "none" /\ toolCall' = [toolCall EXCEPT !.status = "PENDING"]
        /\ CallGoes(c, "start") /\ UNCHANGED got
     \/ OnRecord /\ Answer(c, toolCall.result) /\ UNCHANGED toolCall
     \/ toolCall.status = "PENDING" /\ CallGoes(c, "wait") /\ UNCHANGED <<toolCall, got>>
  /\ UNCHANGED <<container, running>>

\* Mutant: the update does not ask for a PENDING invocation.
Bug_Persist(c, result) ==
  toolCall' = [status |-> StatusFor(result), result |-> result] /\ Answer(c, result)

\* update_status from PENDING; who comes too late returns what is there.
Persist(c, result) ==
  IF toolCall.status = "PENDING"
    THEN toolCall' = [status |-> StatusFor(result), result |-> result] /\ Answer(c, result)
    ELSE Answer(c, toolCall.result) /\ UNCHANGED toolCall

SettleCall(c) ==
  /\ callAt[c] = "settle" /\ Persist(c, got[c])
  /\ UNCHANGED <<container, running>>

\* The result appears, or the request's time and the grace are over.
AwaitCall(c) ==
  /\ callAt[c] = "wait" /\ Persist(c, [class |-> "TIMED_OUT", passed |-> 0])
  /\ UNCHANGED <<container, running>>

\* The process of a call ends; its container stays.
LoseCall(c) ==
  /\ callAt[c] \notin {"idle", "returned", "dead"} /\ CallGoes(c, "dead")
  /\ UNCHANGED <<toolCall, container, running, got>>

-----------------------------------------------------------------------------
(* The container.                                                          *)

\* The request is denied by the policy, not valid, or asks for what the adapter
\* does not start: no docker.run capability, a mount outside the workspace.
Authorize(c) ==
  /\ callAt[c] = "start"
  /\ \/ CallGoes(c, "create") /\ UNCHANGED got
     \/ CallGoes(c, "settle") /\ \E class \in {"DENIED", "STARTUP"} : Got(c, class, 0)
  /\ UNCHANGED <<toolCall, container, running>>

\* docker create and docker start, of which a failing one removes what it made,
\* and does not look whether that worked.
StartContainer(c) ==
  /\ callAt[c] = "create"
  /\ \/ container' = TRUE /\ CallGoes(c, "probe") /\ UNCHANGED got
     \/ container' \in BOOLEAN /\ CallGoes(c, "settle") /\ Got(c, "STARTUP", 0)
  /\ UNCHANGED <<toolCall, running>>

\* The required executables are probed before any command runs.
Probe(c) ==
  /\ callAt[c] = "probe"
  /\ \/ CallGoes(c, "run") /\ UNCHANGED got
     \/ CallGoes(c, "clean") /\ \E class \in {"UNREADY", "ADAPTER"} : Got(c, class, 0)
     \/ CallGoes(c, "stop") /\ Got(c, "INCOMPLETE", 0)
  /\ UNCHANGED <<toolCall, container, running>>

StartCommand(c) ==
  /\ callAt[c] = "run" /\ ~ running /\ running' = TRUE
  /\ UNCHANGED <<toolCall, container, callAt, got>>

\* A command ends, with the result of the invocation if it is the last or fails.
\* A docker exec that times out leaves its command running, and an error of the
\* client loses the results of all of them.
EndCommand(c) ==
  LET passed == got[c].passed
  IN /\ callAt[c] = "run" /\ running
     /\ \/ running' = FALSE
           /\ \/ passed + 1 < Commands /\ Got(c, "none", passed + 1) /\ UNCHANGED callAt
              \/ passed + 1 = Commands /\ Got(c, "SUCCEEDED", Commands) /\ CallGoes(c, "clean")
              \/ Got(c, "NONZERO", passed) /\ CallGoes(c, "clean")
        \/ Got(c, "TIMED_OUT", passed) /\ CallGoes(c, "stop") /\ UNCHANGED running
        \/ Got(c, "ADAPTER", 0) /\ CallGoes(c, "clean") /\ UNCHANGED running
     /\ UNCHANGED <<toolCall, container>>

\* docker stop and docker kill: nobody looks at their exit codes.
StopContainer(c) ==
  /\ callAt[c] = "stop" /\ CallGoes(c, "clean")
  /\ running' \in {FALSE, running}
  /\ UNCHANGED <<toolCall, container, got>>

\* Mutant: a cleanup that fails is only logged.
Bug_CleanupFailed(c) == UNCHANGED got

\* The failure takes the place of the result.
CleanupFailed(c) == Got(c, "ADAPTER", got[c].passed)

\* docker rm -f ends what still runs.
RemoveContainer(c) ==
  /\ callAt[c] = "clean" /\ CallGoes(c, "settle")
  /\ \/ container' = FALSE /\ running' = FALSE /\ UNCHANGED got
     \/ CleanupFailed(c) /\ UNCHANGED <<container, running>>
  /\ UNCHANGED toolCall

-----------------------------------------------------------------------------

DockerNext ==
  \E c \in Calls :
    \/ Book(c) \/ SettleCall(c) \/ AwaitCall(c) \/ LoseCall(c)
    \/ Authorize(c) \/ StartContainer(c) \/ Probe(c) \/ StartCommand(c) \/ EndCommand(c)
    \/ StopContainer(c) \/ RemoveContainer(c)

DockerSpec == DockerInit /\ [][DockerNext]_dockerVars

-----------------------------------------------------------------------------
(* Properties.                                                             *)

DockerTypeOK ==
  /\ toolCall \in [status : {"none", "PENDING", "SUCCEEDED", "FAILED"}, result : ToolResults]
  /\ container \in BOOLEAN /\ running \in BOOLEAN
  /\ callAt \in [Calls -> {"idle", "wait", "start", "create", "probe", "run", "stop", "clean",
                           "settle", "returned", "dead"}]
  /\ got \in [Calls -> ToolResults]

\* Every call of one invocation returns the result on record, whoever wrote it,
\* the owner or a call that gave up on the owner (invoke, _await_terminal).
CallersAgree ==
  \A c \in Calls : callAt[c] = "returned" => OnRecord /\ got[c] = toolCall.result

\* The classes of results that say the container was removed.
Tidy == {"SUCCEEDED", "NONZERO", "UNREADY", "INCOMPLETE"}

\* A validation on record as done has left nothing behind: unless the record
\* speaks of a start or a cleanup that failed, or of an owner that was given up,
\* no container and no command is there (_DockerCliExecution.cleanup).
DoneLeavesNothing ==
  toolCall.result.class \in Tidy => ~ container /\ ~ running
=============================================================================
