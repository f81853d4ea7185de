----------------------------- MODULE TaskManager -----------------------------
(***************************************************************************)
(* One investigation: its row, the asyncio tasks that run its agent graph, *)
(* the registry services/task_manager.py keeps of them, the routes of      *)
(* api/v1/investigations.py that drive it, and the life of the process.    *)
(*                                                                         *)
(* Code between two awaits is one action.  A route's own change of the row *)
(* is written by CommitBeforeResponseMiddleware, after everything the task *)
(* manager wrote through sessions of its own, unless that commit fails.    *)
(***************************************************************************)
EXTENDS Naturals, FiniteSets

CONSTANTS
  Tasks,          \* asyncio tasks; each is created at most once
  Requests,       \* HTTP requests; each is made at most once
  Serial,         \* a request is made only when every earlier one is answered
  MaxDowns,       \* bound on how often the process goes down
  DbMayFail,      \* a session of the task manager or of a request may fail
  None

ASSUME TaskManagerAssumption ==
  /\ None \notin Tasks \cup Requests \cup {"paused", "investigating", "cancelled"}
  /\ {Serial, DbMayFail} \subseteq BOOLEAN /\ MaxDowns \in Nat

VARIABLES
  status,    \* InvestigationRow.status; "none" before the row exists
  closedAt,  \* closed_at is set
  registry,  \* _tasks[investigation_id], or None
  task,      \* the tasks
  req,       \* the requests
  process,   \* the backend process
  agents,    \* _load_agents() finds the agents package in this process
  downs      \* how often the process went down

vars == <<status, closedAt, registry, task, req, process, agents, downs>>

_ACTIVE_STATUSES == {"investigating", "triaging"}

Statuses == _ACTIVE_STATUSES \cup
            {"none", "pending", "paused", "paused_hitl", "failed", "cancelled"}

(* What the graph's nodes leave in the state's status field. *)
FinalStatuses == {"triaging", "investigating", "paused_hitl"}

Dead == {"idle", "done"}

Live(t) == task[t].pc \notin Dead

(* raised: answered with 500, what the route assigned rolled back. *)
Answered == {"idle", "answered", "raised"}

InFlight(r) == req[r].pc \notin Answered

(* _set_investigation_status, in a session of its own; a failure of it is  *)
(* logged and swallowed.                                                   *)
SetInvestigationStatus(s, close) ==
  \/ status' = s /\ closedAt' = (closedAt \/ close)
  \/ DbMayFail /\ UNCHANGED <<status, closedAt>>

-----------------------------------------------------------------------------
(* _run_graph. A cancelled task takes no further step but the delivery of  *)
(* the cancellation at the await it is suspended in.                       *)

AtTask(t, pcs) == task[t].pc \in pcs /\ ~task[t].cancel

Goto(t, pc) == task' = [task EXCEPT ![t].pc = pc]

taskFrame == <<registry, req, process, agents, downs>>

TaskStarts(t) ==
  /\ AtTask(t, {"created"})
  /\ Goto(t, "setup")
  /\ UNCHANGED <<status, closedAt, taskFrame>>

(* Emitter, hooks and INVESTIGATION_INIT are done: status investigating. *)
TaskInvestigates(t) ==
  /\ AtTask(t, {"setup"})
  /\ Goto(t, "running")
  /\ SetInvestigationStatus("investigating", FALSE)
  /\ UNCHANGED taskFrame

GraphReturns(t) ==
  /\ AtTask(t, {"running"})
  /\ \E s \in FinalStatuses : task' = [task EXCEPT ![t].pc = "closing", ![t].final = s]
  /\ UNCHANGED <<status, closedAt, taskFrame>>

TaskCloses(t) ==
  /\ AtTask(t, {"closing"})
  /\ task' = [task EXCEPT ![t].pc = "announcing", ![t].final = None]
  /\ SetInvestigationStatus(task[t].final, TRUE)
  /\ UNCHANGED taskFrame

(* INVESTIGATION_COMPLETE is out; notification, indexing and memories are  *)
(* best effort and follow.                                                 *)
TaskAnnounces(t) ==
  /\ AtTask(t, {"announcing"})
  /\ Goto(t, "post")
  /\ UNCHANGED <<status, closedAt, taskFrame>>

TaskFinishes(t) ==
  /\ AtTask(t, {"post"})
  /\ Goto(t, "unwinding")
  /\ UNCHANGED <<status, closedAt, taskFrame>>

TaskRaises(t) ==
  /\ AtTask(t, {"setup", "running", "announcing"})
  /\ Goto(t, "failing")
  /\ UNCHANGED <<status, closedAt, taskFrame>>

TaskFails(t) ==
  /\ AtTask(t, {"failing"})
  /\ Goto(t, "unwinding")
  /\ SetInvestigationStatus("failed", FALSE)
  /\ UNCHANGED taskFrame

(* The finally clause pops the investigation's entry, whosever it is. *)
TaskUnwindsOnly(t) ==
  /\ AtTask(t, {"unwinding"})
  /\ Goto(t, "done")
  /\ UNCHANGED <<status, closedAt, taskFrame>>

TaskUnwinds(t) ==
  /\ AtTask(t, {"unwinding"})
  /\ Goto(t, "done")
  /\ registry' = None
  /\ UNCHANGED <<status, closedAt, req, process, agents, downs>>

(* CancelledError is thrown into the task. A status write it interrupts    *)
(* may have reached the database. A coroutine that never started just      *)
(* ends, and one whose emitter.close is interrupted does not get to pop.   *)
CancelNeverDelivered(t) == FALSE /\ UNCHANGED vars

CancelDelivered(t) ==
  /\ Live(t) /\ task[t].cancel
  /\ task' = [task EXCEPT ![t].cancel = FALSE,
       ![t].pc = IF @ \in {"created", "unwinding"} THEN "done" ELSE "unwinding"]
  /\ \/ UNCHANGED <<status, closedAt>>
     \/ task[t].pc = "setup" /\ SetInvestigationStatus("investigating", FALSE)
     \/ task[t].pc = "closing" /\ SetInvestigationStatus(task[t].final, TRUE)
     \/ task[t].pc = "failing" /\ SetInvestigationStatus("failed", FALSE)
  /\ UNCHANGED taskFrame

TaskStep(t) ==
  \/ TaskStarts(t) \/ TaskInvestigates(t) \/ GraphReturns(t)
  \/ TaskCloses(t) \/ TaskAnnounces(t) \/ TaskFinishes(t)
  \/ TaskRaises(t) \/ TaskFails(t) \/ TaskUnwinds(t) \/ CancelDelivered(t)

(* create_task and the registration, with no await between them.           *)
SpawnUnregistered(t) ==
  /\ task[t].pc = "idle"
  /\ task' = [task EXCEPT ![t].pc = "created"]
  /\ UNCHANGED registry

Spawn(t) ==
  /\ task[t].pc = "idle"
  /\ task' = [task EXCEPT ![t].pc = "created"]
  /\ registry' = t

(* pop and cancel. *)
Cancel(t) == task' = [task EXCEPT ![t].cancel = Live(t)]

-----------------------------------------------------------------------------
(* The routes. want is the status the route assigned to its own copy of    *)
(* the row, loaded is the status it read, on is the task it awaits or has  *)
(* started.                                                                *)

MayBegin(r) ==
  /\ process = "up"
  /\ req[r].pc = "idle"
  /\ Serial => \A q \in Requests : ~InFlight(q)

reqFrame == <<process, agents, downs>>

Advance(r, pc) == req' = [req EXCEPT ![r].pc = pc]

(* create_investigation commits the row, then starts the agent. *)
CreateInvestigation(r) ==
  /\ MayBegin(r)
  /\ status = "none"
  /\ status' = "pending"
  /\ Advance(r, "starting")
  /\ UNCHANGED <<closedAt, registry, task, reqFrame>>

StartInvestigation(r, t) ==
  /\ req[r].pc = "starting"
  /\ agents
  /\ registry = None
  /\ Spawn(t)
  /\ Advance(r, "answered")
  /\ UNCHANGED <<status, closedAt, reqFrame>>

(* The agents package is missing or the graph cannot be built. *)
BuildFails(r) ==
  /\ req[r].pc = "starting" \/ (req[r].pc = "loading" /\ req[r].want = "investigating")
  /\ Advance(r, "failing")
  /\ UNCHANGED <<status, closedAt, registry, task, reqFrame>>

(* The start fails: status failed and nothing else to commit.  A resume    *)
(* goes on to the commit of what its route assigned.                       *)
BuildFailureMisreported(r) ==
  /\ req[r].pc = "failing"
  /\ SetInvestigationStatus(req[r].want, FALSE)
  /\ Advance(r, IF req[r].want = None THEN "answered" ELSE "commit")
  /\ UNCHANGED <<registry, task, reqFrame>>

BuildFailureWritten(r) ==
  /\ req[r].pc = "failing"
  /\ SetInvestigationStatus("failed", FALSE)
  /\ Advance(r, IF req[r].want = None THEN "answered" ELSE "commit")
  /\ UNCHANGED <<registry, task, reqFrame>>

(* The route reads the row, checks its status and assigns the new one; a   *)
(* status it does not accept is answered with 400.                         *)
Accepts(want) ==
  CASE want = "paused" -> _ACTIVE_STATUSES
    [] want = "investigating" -> {"paused", "paused_hitl"}
    [] want = "cancelled" -> Statuses

Read(r, want) ==
  /\ MayBegin(r)
  /\ status # "none"
  /\ req' = [req EXCEPT ![r] =
       [pc |-> IF status \in Accepts(want) THEN "called" ELSE "answered",
        want |-> want, loaded |-> status, on |-> None]]
  /\ UNCHANGED <<status, closedAt, registry, task, reqFrame>>

(* pause_investigation finds no task and does nothing; stop_investigation  *)
(* goes on to its write; resume_investigation loads the configuration, or  *)
(* does nothing without the agents package.                                *)
CallWithoutTask(r) ==
  /\ req[r].pc = "called"
  /\ registry = None
  /\ Advance(r, CASE req[r].want = "paused" -> "commit"
                  [] req[r].want = "cancelled" -> "write"
                  [] req[r].want = "investigating" -> IF agents THEN "loading" ELSE "commit")
  /\ UNCHANGED <<status, closedAt, registry, task, reqFrame>>

(* pause and stop pop the task, cancel it and await its end. *)
PopAndCancel(r) ==
  /\ req[r].pc = "called"
  /\ registry # None
  /\ req[r].want \in {"paused", "cancelled"}
  /\ registry' = None
  /\ Cancel(registry)
  /\ req' = [req EXCEPT ![r].pc = "awaiting", ![r].on = registry]
  /\ UNCHANGED <<status, closedAt, reqFrame>>

(* resume_investigation skips an investigation that is already running. *)
ResumeSkipped(r) ==
  /\ req[r].pc = "called"
  /\ registry # None
  /\ req[r].want = "investigating"
  /\ Advance(r, "commit")
  /\ UNCHANGED <<status, closedAt, registry, task, reqFrame>>

TaskNotAwaited(r) ==
  /\ req[r].pc = "awaiting"
  /\ Advance(r, "write")
  /\ UNCHANGED <<status, closedAt, registry, task, reqFrame>>

TaskAwaited(r) ==
  /\ req[r].pc = "awaiting"
  /\ task[req[r].on].pc = "done"
  /\ Advance(r, "write")
  /\ UNCHANGED <<status, closedAt, registry, task, reqFrame>>

(* The configuration is loaded and the graph rebuilt: the registry is not  *)
(* looked at again.                                                        *)
ResumeInvestigation(r, t) ==
  /\ req[r].pc = "loading"
  /\ Spawn(t)
  /\ req' = [req EXCEPT ![r].pc = "write", ![r].on = t]
  /\ UNCHANGED <<status, closedAt, reqFrame>>

(* The configuration could not be loaded. *)
ResumeAbandoned(r) ==
  /\ req[r].pc = "loading"
  /\ DbMayFail
  /\ Advance(r, "commit")
  /\ UNCHANGED <<status, closedAt, registry, task, reqFrame>>

(* The task manager's own write of paused, investigating or cancelled. *)
WriteStatus(r) ==
  /\ req[r].pc = "write"
  /\ SetInvestigationStatus(req[r].want, req[r].want = "cancelled")
  /\ Advance(r, "commit")
  /\ UNCHANGED <<registry, task, reqFrame>>

(* The request's session is committed and the answer sent: the status      *)
(* column is written when the route changed it.  Whether the answer then   *)
(* reaches the client changes nothing here.                                *)
CommitRequest(r) ==
  /\ req[r].pc = "commit"
  /\ status' = IF req[r].want # req[r].loaded THEN req[r].want ELSE status
  /\ closedAt' = (closedAt \/ req[r].want = "cancelled")
  /\ Advance(r, "answered")
  /\ UNCHANGED <<registry, task, reqFrame>>

(* The commit raises before the answer is sent: the client gets a 500, the *)
(* row keeps what the task manager wrote and a task that was started runs. *)
CommitFails(r) ==
  /\ req[r].pc = "commit"
  /\ DbMayFail
  /\ Advance(r, "raised")
  /\ UNCHANGED <<status, closedAt, registry, task, reqFrame>>

RequestStep(r) ==
  \/ \E t \in Tasks : StartInvestigation(r, t) \/ ResumeInvestigation(r, t)
  \/ BuildFails(r) \/ BuildFailureWritten(r)
  \/ CallWithoutTask(r) \/ PopAndCancel(r) \/ ResumeSkipped(r) \/ TaskAwaited(r)
  \/ ResumeAbandoned(r) \/ WriteStatus(r) \/ CommitRequest(r) \/ CommitFails(r)

RequestBegins(r) ==
  \/ CreateInvestigation(r)
  \/ \E want \in {"paused", "investigating", "cancelled"} : Read(r, want)

-----------------------------------------------------------------------------
(* The process. Whatever ran in it is gone when it is down, and the next   *)
(* one tries the import of the agents package anew.                        *)

GoDown ==
  /\ process' = "down"
  /\ agents' \in BOOLEAN
  /\ downs' = downs + 1
  /\ registry' = None
  /\ task' = [t \in Tasks |-> IF Live(t) THEN [task[t] EXCEPT !.pc = "done"] ELSE task[t]]
  /\ req' = [r \in Requests |-> IF InFlight(r) THEN [req[r] EXCEPT !.pc = "answered"] ELSE req[r]]
  /\ UNCHANGED <<status, closedAt>>

Crash == process # "down" /\ downs < MaxDowns /\ GoDown

(* shutdown, after the requests have drained: the registered task is       *)
(* cancelled and awaited, then the process ends.                           *)
ShutdownBegins ==
  /\ process = "up"
  /\ downs < MaxDowns
  /\ \A r \in Requests : ~InFlight(r)
  /\ process' = "stopping"
  /\ IF registry # None THEN Cancel(registry) ELSE UNCHANGED task
  /\ UNCHANGED <<status, closedAt, registry, req, agents, downs>>

ShutdownEnds ==
  /\ process = "stopping"
  /\ registry # None => ~Live(registry)
  /\ GoDown

(* auto_resume, before the server accepts requests. *)
AutoResumesTriage == status = "triaging"

AutoResumes == status \in _ACTIVE_STATUSES

BootIdle ==
  /\ process = "down"
  /\ ~AutoResumes
  /\ process' = "up"
  /\ UNCHANGED <<status, closedAt, registry, task, req, agents, downs>>

BootResumes(t) ==
  /\ process = "down"
  /\ AutoResumes
  /\ agents
  /\ Spawn(t)
  /\ process' = "booting"
  /\ UNCHANGED <<status, closedAt, req, agents, downs>>

(* The agents package is missing, the query of auto_resume fails, or the   *)
(* load of the configuration does: the investigation is passed over.       *)
BootSkips ==
  /\ process = "down"
  /\ AutoResumes
  /\ ~agents \/ DbMayFail
  /\ process' = "up"
  /\ UNCHANGED <<status, closedAt, registry, task, req, agents, downs>>

(* The graph cannot be rebuilt. *)
BootFails ==
  /\ process = "down"
  /\ AutoResumes
  /\ agents
  /\ SetInvestigationStatus("failed", FALSE)
  /\ process' = "up"
  /\ UNCHANGED <<registry, task, req, agents, downs>>

BootWrites ==
  /\ process = "booting"
  /\ SetInvestigationStatus("investigating", FALSE)
  /\ process' = "up"
  /\ UNCHANGED <<registry, task, req, agents, downs>>

ProcessStep ==
  \/ ShutdownEnds \/ BootIdle \/ BootSkips \/ BootFails \/ BootWrites
  \/ \E t \in Tasks : BootResumes(t)

-----------------------------------------------------------------------------
Init ==
  /\ status = "none"
  /\ closedAt = FALSE
  /\ registry = None
  /\ task = [t \in Tasks |-> [pc |-> "idle", cancel |-> FALSE, final |-> None]]
  /\ req = [r \in Requests |-> [pc |-> "idle", want |-> None, loaded |-> None, on |-> None]]
  /\ process = "up"
  /\ agents \in BOOLEAN
  /\ downs = 0

Next ==
  \/ \E t \in Tasks : TaskStep(t)
  \/ \E r \in Requests : RequestBegins(r) \/ RequestStep(r)
  \/ ProcessStep \/ Crash \/ ShutdownBegins

Spec == Init /\ [][Next]_vars

-----------------------------------------------------------------------------
(* Correctness. *)

TypeOK ==
  /\ status \in Statuses
  /\ closedAt \in BOOLEAN
  /\ registry \in Tasks \cup {None}
  /\ task \in [Tasks ->
       [pc : Dead \cup {"created", "setup", "running", "closing", "announcing", "post",
                        "failing", "unwinding"},
        cancel : BOOLEAN, final : FinalStatuses \cup {None}]]
  /\ req \in [Requests ->
       [pc : Answered \cup {"starting", "failing", "called", "awaiting", "loading", "write",
                            "commit"},
        want : {"paused", "investigating", "cancelled", None},
        loaded : Statuses \cup {None}, on : Tasks \cup {None}]]
  /\ process \in {"up", "stopping", "down", "booting"}
  /\ agents \in BOOLEAN
  /\ downs \in 0..MaxDowns

(* The registry never holds a task that has ended while requests are       *)
(* served: no investigation is refused a start or a resume as already      *)
(* running on account of a dead entry.                                     *)
NoStaleEntry == process = "up" /\ registry # None => Live(registry)

AllAnswered == process = "up" /\ \A r \in Requests : ~InFlight(r)

(* Every task that still runs uncancelled is the registered one, so that a *)
(* pause, a stop and the shutdown reach it.                                *)
RunningIsRegistered ==
  \A t \in Tasks : Live(t) /\ ~task[t].cancel /\ task[t].pc # "unwinding" => registry = t

(* Once every request is answered, a stopped investigation has no task,    *)
(* and a task that runs behind a paused row was started by a resume that   *)
(* was answered with 500, its own write of the status swallowed and its    *)
(* commit failed: no pause or stop that was answered leaves an agent, or   *)
(* an agent's tools, at work behind the analyst's back.                    *)
RestIsQuiet ==
  AllAnswered =>
    \A t \in Tasks : Live(t) =>
      /\ status # "cancelled"
      /\ status = "paused" => \E r \in Requests :
           req[r].pc = "raised" /\ req[r].want = "investigating" /\ req[r].on = t

(* A stopped investigation stays stopped: nothing a task, a request or a   *)
(* restart still does overwrites the cancelled status.                     *)
StopIsFinal == [][status = "cancelled" => status' = "cancelled"]_vars

(* Tasks, requests and the process go on: asyncio runs what is ready, the  *)
(* graph and its tools have timeouts.  Nobody is obliged to make a request.*)
Fairness ==
  /\ \A t \in Tasks : WF_vars(TaskStep(t))
  /\ \A r \in Requests : WF_vars(RequestStep(r))
  /\ WF_vars(ProcessStep)

FairSpec == Spec /\ Fairness

(* Every request is answered: a pause or a stop does not wait forever for  *)
(* the task it cancelled, whatever that task was doing.                    *)
EveryRequestAnswered == \A r \in Requests : InFlight(r) ~> ~InFlight(r)

(* While the database answers, an investigation that was active when the   *)
(* process died is running again or marked failed when the process is      *)
(* back, unless that process has no agents package: auto_resume then skips *)
(* every row, and they stay active with nobody working on them.            *)
RestartRecovers ==
  (process = "down" /\ status \in _ACTIVE_STATUSES)
    ~> \/ \E t \in Tasks : Live(t)
       \/ status \notin _ACTIVE_STATUSES
       \/ process = "up" /\ ~agents
=============================================================================
