-------------------------- MODULE TaskManagerProofs --------------------------
(***************************************************************************)
(* Type correctness of TaskManager; the registry of running tasks holds no *)
(* dead entry, however tasks, requests and restarts interleave; and, when  *)
(* the requests follow each other, what a pause and a stop promise: they   *)
(* reach every task that runs, leave none behind, and a stop is final.     *)
(***************************************************************************)
EXTENDS TaskManager, TLAPS

TaskPcs == Dead \cup {"created", "setup", "running", "closing", "announcing", "post",
                      "failing", "unwinding"}

TaskType == [pc : TaskPcs, cancel : BOOLEAN, final : FinalStatuses \cup {None}]

ReqPcs == Answered \cup {"starting", "failing", "called", "awaiting", "loading", "write",
                         "commit"}

Wants == {"paused", "investigating", "cancelled"}

ReqType == [pc : ReqPcs, want : Wants \cup {None}, loaded : Statuses \cup {None},
            on : Tasks \cup {None}]

(* TypeOK is not inductive: the status a task or a request writes is a     *)
(* status only because the step before chose it.                           *)
GoodTask == {k \in TaskType : k.pc = "closing" => k.final \in FinalStatuses}

GoodReq == {q \in ReqType :
              q.pc \in {"called", "awaiting", "loading", "write", "commit"} => q.want \in Wants}

TypeInv ==
  /\ status \in Statuses
  /\ closedAt \in BOOLEAN
  /\ registry \in Tasks \cup {None}
  /\ task \in [Tasks -> GoodTask]
  /\ req \in [Requests -> GoodReq]
  /\ process \in {"up", "stopping", "down", "booting"}
  /\ agents \in BOOLEAN
  /\ downs \in 0..MaxDowns
  /\ process = "stopping" => downs < MaxDowns

LEMMA TypeInvInit == Init => TypeInv
<1> SUFFICES ASSUME Init PROVE TypeInv  OBVIOUS
<1>1. task \in [Tasks -> GoodTask]
  BY DEF Init, GoodTask, TaskType, TaskPcs, Dead
<1>2. req \in [Requests -> GoodReq]
  BY DEF Init, GoodReq, ReqType, ReqPcs, Answered
<1>3. downs \in 0..MaxDowns
  BY TaskManagerAssumption DEF Init
<1> QED  BY <1>1, <1>2, <1>3 DEF Init, TypeInv, Statuses

LEMMA TypeInvImpliesTypeOK == TypeInv => TypeOK
BY DEF TypeInv, TypeOK, GoodTask, GoodReq, TaskType, ReqType, TaskPcs, ReqPcs, Wants

(* Moving a task or a request to another place keeps its type. *)
LEMMA GotoType ==
  ASSUME task \in [Tasks -> GoodTask], NEW t \in Tasks, NEW pc \in TaskPcs \ {"closing"},
         Goto(t, pc)
  PROVE  task' \in [Tasks -> GoodTask]
BY DEF Goto, GoodTask, TaskType

LEMMA CancelType ==
  ASSUME task \in [Tasks -> GoodTask], NEW t \in Tasks, Cancel(t)
  PROVE  task' \in [Tasks -> GoodTask]
BY DEF Cancel, GoodTask, TaskType, Live

LEMMA SpawnType ==
  ASSUME task \in [Tasks -> GoodTask], NEW t \in Tasks, Spawn(t)
  PROVE  task' \in [Tasks -> GoodTask] /\ registry' \in Tasks
BY DEF Spawn, GoodTask, TaskType, TaskPcs

LEMMA AdvanceType ==
  ASSUME req \in [Requests -> GoodReq], NEW r \in Requests, NEW pc \in ReqPcs,
         pc \in {"called", "awaiting", "loading", "write", "commit"} => req[r].want \in Wants,
         Advance(r, pc)
  PROVE  req' \in [Requests -> GoodReq]
BY DEF Advance, GoodReq, ReqType

LEMMA StatusType ==
  ASSUME status \in Statuses, closedAt \in BOOLEAN, NEW s \in Statuses, NEW close \in BOOLEAN,
         SetInvestigationStatus(s, close)
  PROVE  status' \in Statuses /\ closedAt' \in BOOLEAN
BY DEF SetInvestigationStatus

LEMMA TaskStepType ==
  ASSUME TypeInv, NEW t \in Tasks, TaskStep(t)
  PROVE  TypeInv'
<1> USE DEF TypeInv
<1>1. CASE TaskStarts(t) \/ TaskAnnounces(t) \/ TaskFinishes(t) \/ TaskRaises(t)
  <2>1. task' \in [Tasks -> GoodTask]
    BY <1>1, GotoType DEF TaskStarts, TaskAnnounces, TaskFinishes, TaskRaises, TaskPcs
  <2> QED  BY <1>1, <2>1 DEF TaskStarts, TaskAnnounces, TaskFinishes, TaskRaises, taskFrame
<1>2. CASE TaskInvestigates(t) \/ TaskFails(t)
  <2>1. task' \in [Tasks -> GoodTask]
    BY <1>2, GotoType DEF TaskInvestigates, TaskFails, TaskPcs
  <2>2. status' \in Statuses /\ closedAt' \in BOOLEAN
    BY <1>2, StatusType DEF TaskInvestigates, TaskFails, Statuses, _ACTIVE_STATUSES
  <2> QED  BY <1>2, <2>1, <2>2 DEF TaskInvestigates, TaskFails, taskFrame
<1>3. CASE GraphReturns(t)
  <2>1. PICK s \in FinalStatuses : task' = [task EXCEPT ![t].pc = "closing", ![t].final = s]
    BY <1>3 DEF GraphReturns
  <2>2. task[t] \in TaskType /\ task \in [Tasks -> GoodTask]  BY DEF GoodTask
  <2>3. task' = [task EXCEPT ![t] = [task[t] EXCEPT !.pc = "closing", !.final = s]]
    BY <2>1, <2>2
  <2>4. [task[t] EXCEPT !.pc = "closing", !.final = s] \in GoodTask
    BY <2>2 DEF GoodTask, TaskType, TaskPcs
  <2>5. task' \in [Tasks -> GoodTask]  BY <2>2, <2>3, <2>4
  <2> QED  BY <1>3, <2>5 DEF GraphReturns, taskFrame
<1>4. CASE TaskCloses(t)
  <2>1. task' \in [Tasks -> GoodTask]
    BY <1>4 DEF TaskCloses, GoodTask, TaskType, TaskPcs
  <2>2. task[t].final \in Statuses
    BY <1>4 DEF TaskCloses, AtTask, GoodTask, FinalStatuses, Statuses, _ACTIVE_STATUSES
  <2>3. status' \in Statuses /\ closedAt' \in BOOLEAN
    BY <1>4, <2>2, StatusType DEF TaskCloses
  <2> QED  BY <1>4, <2>1, <2>3 DEF TaskCloses, taskFrame
<1>5. CASE TaskUnwinds(t)
  <2>1. task' \in [Tasks -> GoodTask]  BY <1>5, GotoType DEF TaskUnwinds, TaskPcs, Dead
  <2> QED  BY <1>5, <2>1 DEF TaskUnwinds
<1>6. CASE CancelDelivered(t)
  <2>1. task' \in [Tasks -> GoodTask]
    BY <1>6 DEF CancelDelivered, GoodTask, TaskType, TaskPcs, Dead
  <2>2. task[t].pc = "closing" => task[t].final \in Statuses
    BY DEF GoodTask, FinalStatuses, Statuses, _ACTIVE_STATUSES
  <2>3. status' \in Statuses /\ closedAt' \in BOOLEAN
    BY <1>6, <2>2, StatusType DEF CancelDelivered, Statuses, _ACTIVE_STATUSES
  <2> QED  BY <1>6, <2>1, <2>3 DEF CancelDelivered, taskFrame
<1> QED  BY <1>1, <1>2, <1>3, <1>4, <1>5, <1>6 DEF TaskStep

LEMMA RequestType ==
  ASSUME TypeInv, NEW r \in Requests, RequestBegins(r) \/ RequestStep(r)
  PROVE  TypeInv'
<1> USE DEF TypeInv, reqFrame
<1>0. req[r] \in GoodReq  OBVIOUS
<1>1. CASE CreateInvestigation(r)
  <2>1. req' \in [Requests -> GoodReq]
    BY <1>1, AdvanceType DEF CreateInvestigation, ReqPcs
  <2> QED  BY <1>1, <2>1 DEF CreateInvestigation, Statuses
<1>2. ASSUME NEW want \in Wants, Read(r, want) PROVE TypeInv'
  <2>1. req' \in [Requests -> GoodReq]
    BY <1>2 DEF Read, GoodReq, ReqType, ReqPcs, Answered
  <2> QED  BY <1>2, <2>1 DEF Read
<1>3. ASSUME NEW t \in Tasks, StartInvestigation(r, t) \/ ResumeInvestigation(r, t)
      PROVE  TypeInv'
  <2>1. req' \in [Requests -> GoodReq]
    <3>1. CASE StartInvestigation(r, t)
      BY <1>0, <3>1, AdvanceType DEF StartInvestigation, ReqPcs, Answered, GoodReq
    <3>2. CASE ResumeInvestigation(r, t)
      BY <1>0, <3>2 DEF ResumeInvestigation, ReqPcs, GoodReq, ReqType
    <3> QED  BY <1>3, <3>1, <3>2
  <2>2. task' \in [Tasks -> GoodTask] /\ registry' \in Tasks
    BY <1>3, SpawnType DEF StartInvestigation, ResumeInvestigation
  <2> QED  BY <1>3, <2>1, <2>2 DEF StartInvestigation, ResumeInvestigation
<1>4. CASE \/ BuildFails(r) \/ CallWithoutTask(r) \/ ResumeSkipped(r) \/ TaskAwaited(r)
           \/ ResumeAbandoned(r) \/ CommitFails(r)
  <2>1. req' \in [Requests -> GoodReq]
    BY <1>0, <1>4, AdvanceType
       DEF BuildFails, CallWithoutTask, ResumeSkipped, TaskAwaited, ResumeAbandoned,
           CommitFails, ReqPcs, Answered, GoodReq, Wants
  <2> QED
    BY <1>4, <2>1 DEF BuildFails, CallWithoutTask, ResumeSkipped, TaskAwaited,
                      ResumeAbandoned, CommitFails
<1>5. CASE BuildFailureWritten(r)
  <2>1. req' \in [Requests -> GoodReq]
    BY <1>0, <1>5, AdvanceType DEF BuildFailureWritten, ReqPcs, Answered, GoodReq, ReqType
  <2>2. status' \in Statuses /\ closedAt' \in BOOLEAN
    BY <1>5, StatusType DEF BuildFailureWritten, Statuses
  <2> QED  BY <1>5, <2>1, <2>2 DEF BuildFailureWritten
<1>6. CASE PopAndCancel(r)
  <2>1. registry \in Tasks  BY <1>6 DEF PopAndCancel
  <2>2. req' \in [Requests -> GoodReq]
    BY <1>0, <1>6, <2>1 DEF PopAndCancel, GoodReq, ReqType, ReqPcs
  <2>3. task' \in [Tasks -> GoodTask]  BY <1>6, <2>1, CancelType DEF PopAndCancel
  <2> QED  BY <1>6, <2>2, <2>3 DEF PopAndCancel
<1>7. CASE WriteStatus(r) \/ CommitRequest(r)
  <2>1. req' \in [Requests -> GoodReq]
    BY <1>0, <1>7, AdvanceType DEF WriteStatus, CommitRequest, ReqPcs, Answered, GoodReq
  <2>2. req[r].want \in Statuses
    BY <1>0, <1>7 DEF WriteStatus, CommitRequest, GoodReq, Wants, Statuses, _ACTIVE_STATUSES
  <2>3. status' \in Statuses /\ closedAt' \in BOOLEAN
    BY <1>7, <2>2, StatusType DEF WriteStatus, CommitRequest
  <2> QED  BY <1>7, <2>1, <2>3 DEF WriteStatus, CommitRequest
<1> QED
  BY <1>1, <1>2, <1>3, <1>4, <1>5, <1>6, <1>7 DEF RequestBegins, RequestStep, Wants

LEMMA GoDownType ==
  ASSUME TypeInv, GoDown, downs < MaxDowns
  PROVE  TypeInv'
<1>1. task' \in [Tasks -> GoodTask]
  BY DEF GoDown, TypeInv, GoodTask, TaskType, TaskPcs, Dead
<1>2. req' \in [Requests -> GoodReq]
  BY DEF GoDown, TypeInv, GoodReq, ReqType, ReqPcs, Answered
<1>3. downs' \in 0..MaxDowns
  BY TaskManagerAssumption DEF GoDown, TypeInv
<1> QED  BY <1>1, <1>2, <1>3 DEF GoDown, TypeInv

LEMMA ProcessType ==
  ASSUME TypeInv, ProcessStep \/ Crash \/ ShutdownBegins
  PROVE  TypeInv'
<1>1. CASE ShutdownEnds \/ Crash
  BY <1>1, GoDownType DEF ShutdownEnds, Crash, TypeInv
<1>2. CASE BootIdle \/ BootSkips
  BY <1>2 DEF BootIdle, BootSkips, TypeInv
<1>3. ASSUME NEW t \in Tasks, BootResumes(t) PROVE TypeInv'
  <2>1. task' \in [Tasks -> GoodTask] /\ registry' \in Tasks
    BY <1>3, SpawnType DEF BootResumes, TypeInv
  <2> QED  BY <1>3, <2>1 DEF BootResumes, TypeInv
<1>4. CASE BootFails \/ BootWrites
  <2>1. status' \in Statuses /\ closedAt' \in BOOLEAN
    BY <1>4, StatusType DEF BootFails, BootWrites, TypeInv, Statuses, _ACTIVE_STATUSES
  <2> QED  BY <1>4, <2>1 DEF BootFails, BootWrites, TypeInv
<1>5. CASE ShutdownBegins
  <2>1. task' \in [Tasks -> GoodTask]
    BY <1>5, CancelType DEF ShutdownBegins, TypeInv
  <2> QED  BY <1>5, <2>1 DEF ShutdownBegins, TypeInv
<1> QED  BY <1>1, <1>2, <1>3, <1>4, <1>5 DEF ProcessStep

LEMMA TypeInvStep == TypeInv /\ [Next]_vars => TypeInv'
<1> SUFFICES ASSUME TypeInv, [Next]_vars PROVE TypeInv'  OBVIOUS
<1>1. CASE UNCHANGED vars
  BY <1>1 DEF vars, TypeInv
<1> QED  BY <1>1, TaskStepType, RequestType, ProcessType DEF Next

(* Every variable keeps its type whatever interleaves: no request writes a *)
(* status it never chose, and no task closes the case without an outcome.  *)
THEOREM TypeCorrect == Spec => []TypeOK
<1>1. Spec => []TypeInv  BY TypeInvInit, TypeInvStep, PTL DEF Spec
<1> QED  BY <1>1, TypeInvImpliesTypeOK, PTL

-----------------------------------------------------------------------------
(* A registered task is alive because, while requests are served, only the *)
(* requests that unregister a task cancel it, and a task that ends by      *)
(* itself unregisters whatever is there.                                   *)
RegistryInv ==
  /\ \A t \in Tasks : task[t].pc = "idle" => ~task[t].cancel
  /\ process = "down" => registry = None /\ \A r \in Requests : ~InFlight(r)
  /\ process \in {"up", "booting"} /\ registry # None =>
       Live(registry) /\ ~task[registry].cancel

LEMMA RegistryInvInit == Init => RegistryInv
BY DEF Init, RegistryInv

LEMMA SpawnRegistry ==
  ASSUME TypeInv, RegistryInv, NEW t \in Tasks, Spawn(t), process' # "down"
  PROVE  RegistryInv'
<1>1. task[t] \in TaskType /\ ~task[t].cancel
  BY DEF TypeInv, GoodTask, RegistryInv, Spawn
<1>2. task'[t].pc = "created" /\ ~task'[t].cancel
  BY <1>1 DEF TypeInv, Spawn, TaskType
<1>3. \A u \in Tasks : u # t => task'[u] = task[u]
  BY DEF TypeInv, Spawn
<1> QED  BY <1>2, <1>3 DEF RegistryInv, Spawn, Live, Dead

LEMMA CancelRegistry ==
  ASSUME TypeInv, RegistryInv, NEW t \in Tasks, Cancel(t)
  PROVE  \A u \in Tasks : task'[u].pc = "idle" => ~task'[u].cancel
BY DEF TypeInv, RegistryInv, Cancel, GoodTask, TaskType, Live, Dead

(* What a step of a task may do to the registry and to that task.          *)
LEMMA TaskMoves ==
  ASSUME TypeInv, NEW t \in Tasks, TaskStep(t)
  PROVE  /\ UNCHANGED <<req, process>>
         /\ \A u \in Tasks : u # t => task'[u] = task[u]
         /\ registry' \in {registry, None}
         /\ task'[t].pc # "idle" /\ ~task'[t].cancel
         /\ task'[t].pc \in Dead => task[t].cancel \/ registry' = None
<1>0. task \in [Tasks -> GoodTask] /\ task[t] \in TaskType
  BY DEF TypeInv, GoodTask
<1>1. ASSUME NEW pc \in TaskPcs \ Dead, Goto(t, pc), ~task[t].cancel
      PROVE  /\ \A u \in Tasks : u # t => task'[u] = task[u]
             /\ task'[t].pc \notin Dead /\ ~task'[t].cancel
  BY <1>0, <1>1 DEF Goto, TaskType
<1>2. {"setup", "running", "announcing", "post", "failing", "unwinding"} \subseteq TaskPcs \ Dead
  BY DEF TaskPcs, Dead
<1>3. "idle" \in Dead
  BY DEF Dead
<1>4. CASE TaskStarts(t) \/ TaskInvestigates(t)
  BY <1>1, <1>2, <1>3, <1>4 DEF TaskStarts, TaskInvestigates, AtTask, taskFrame
<1>5. CASE GraphReturns(t)
  BY <1>0, <1>5 DEF GraphReturns, AtTask, taskFrame, TaskType, Dead
<1>6. CASE TaskCloses(t)
  BY <1>0, <1>6 DEF TaskCloses, AtTask, taskFrame, TaskType, Dead
<1>10. CASE TaskAnnounces(t)
  BY <1>1, <1>2, <1>3, <1>10 DEF TaskAnnounces, AtTask, taskFrame
<1>7. CASE TaskFinishes(t) \/ TaskRaises(t) \/ TaskFails(t)
  BY <1>1, <1>2, <1>3, <1>7 DEF TaskFinishes, TaskRaises, TaskFails, AtTask, taskFrame
<1>8. CASE TaskUnwinds(t)
  BY <1>0, <1>8 DEF TaskUnwinds, Goto, AtTask, TaskType
<1>9. CASE CancelDelivered(t)
  BY <1>0, <1>9 DEF CancelDelivered, taskFrame, TaskType
<1> QED  BY <1>4, <1>5, <1>6, <1>7, <1>8, <1>9, <1>10 DEF TaskStep

LEMMA TaskStepRegistry ==
  ASSUME TypeInv, RegistryInv, NEW t \in Tasks, TaskStep(t)
  PROVE  RegistryInv'
<1>1. \A u \in Tasks : task'[u].pc = "idle" => ~task'[u].cancel
  BY TaskMoves DEF RegistryInv
<1>2. process' = "down" => registry' = None /\ \A r \in Requests : req'[r].pc \in Answered
  BY TaskMoves DEF RegistryInv, InFlight
<1>3. ASSUME process \in {"up", "booting"}, registry' # None
      PROVE  task'[registry'].pc \notin Dead /\ ~task'[registry'].cancel
  <2>1. registry' = registry /\ registry \in Tasks
    BY <1>3, TaskMoves DEF TypeInv
  <2>2. ~task[registry].cancel /\ task[registry].pc \notin Dead
    BY <1>3, <2>1 DEF RegistryInv, Live
  <2> QED  BY <1>3, <2>1, <2>2, TaskMoves
<1> QED  BY <1>1, <1>2, <1>3, TaskMoves DEF RegistryInv, Live, InFlight

LEMMA RequestRegistry ==
  ASSUME TypeInv, RegistryInv, NEW r \in Requests, RequestBegins(r) \/ RequestStep(r)
  PROVE  RegistryInv'
<1>0. UNCHANGED process
  BY DEF RequestBegins, RequestStep, CreateInvestigation, Read, StartInvestigation,
         ResumeInvestigation, PopAndCancel, BuildFails, BuildFailureWritten, CallWithoutTask,
         ResumeSkipped, TaskAwaited, ResumeAbandoned, WriteStatus, CommitRequest, CommitFails,
         reqFrame
<1>1. process # "down"
  BY DEF RegistryInv, InFlight, Answered, RequestBegins, RequestStep, CreateInvestigation, Read,
         MayBegin, StartInvestigation, ResumeInvestigation, PopAndCancel, BuildFails,
         BuildFailureWritten, CallWithoutTask, ResumeSkipped, TaskAwaited, ResumeAbandoned,
         WriteStatus, CommitRequest, CommitFails
<1>2. CASE UNCHANGED <<registry, task>>
  BY <1>0, <1>1, <1>2 DEF RegistryInv, Live
<1>3. ASSUME NEW t \in Tasks, StartInvestigation(r, t) \/ ResumeInvestigation(r, t)
      PROVE  RegistryInv'
  BY <1>0, <1>1, <1>3, SpawnRegistry DEF StartInvestigation, ResumeInvestigation
<1>4. CASE PopAndCancel(r)
  <2>1. registry \in Tasks /\ registry' = None /\ Cancel(registry)
    BY <1>4 DEF PopAndCancel, TypeInv
  <2> QED  BY <1>0, <1>1, <2>1, CancelRegistry DEF RegistryInv
<1> QED
  BY <1>2, <1>3, <1>4
     DEF RequestBegins, RequestStep, CreateInvestigation, Read, BuildFails, BuildFailureWritten,
         CallWithoutTask, ResumeSkipped, TaskAwaited, ResumeAbandoned, WriteStatus,
         CommitRequest, CommitFails

LEMMA ProcessRegistry ==
  ASSUME TypeInv, RegistryInv, ProcessStep \/ Crash \/ ShutdownBegins
  PROVE  RegistryInv'
<1>1. CASE ShutdownEnds \/ Crash
  <2>1. GoDown  BY <1>1 DEF ShutdownEnds, Crash
  <2>2. \A t \in Tasks : task'[t].pc = "idle" => ~task'[t].cancel
    BY <2>1 DEF GoDown, TypeInv, RegistryInv, GoodTask, TaskType
  <2>3. \A r \in Requests : req'[r].pc \in Answered
    BY <2>1 DEF GoDown, TypeInv, GoodReq, ReqType, InFlight, Answered
  <2> QED  BY <2>1, <2>2, <2>3 DEF GoDown, RegistryInv, InFlight
<1>2. CASE BootIdle \/ BootSkips \/ BootFails
  BY <1>2 DEF BootIdle, BootSkips, BootFails, RegistryInv
<1>3. ASSUME NEW t \in Tasks, BootResumes(t) PROVE RegistryInv'
  BY <1>3, SpawnRegistry DEF BootResumes
<1>4. CASE BootWrites
  BY <1>4 DEF BootWrites, RegistryInv, Live
<1>5. CASE ShutdownBegins
  <2>1. \A t \in Tasks : task'[t].pc = "idle" => ~task'[t].cancel
    BY <1>5, CancelRegistry DEF ShutdownBegins, TypeInv, RegistryInv
  <2> QED  BY <1>5, <2>1 DEF ShutdownBegins, RegistryInv
<1> QED  BY <1>1, <1>2, <1>3, <1>4, <1>5 DEF ProcessStep

(* However starts, pauses, resumes, stops, completions and restarts        *)
(* interleave, the registry never names a task that has ended while        *)
(* requests are served: start_investigation and resume_investigation skip  *)
(* an investigation as already running only when a task of it really runs. *)
THEOREM RegistryIsLive == Spec => []NoStaleEntry
<1>1. Init => TypeInv /\ RegistryInv  BY TypeInvInit, RegistryInvInit
<1>2. (TypeInv /\ RegistryInv) /\ [Next]_vars => (TypeInv /\ RegistryInv)'
  <2>1. ASSUME TypeInv, RegistryInv, UNCHANGED vars PROVE RegistryInv'
    BY <2>1 DEF vars, RegistryInv, Live, InFlight
  <2> QED  BY <2>1, TypeInvStep, TaskStepRegistry, RequestRegistry, ProcessRegistry DEF Next
<1>3. TypeInv /\ RegistryInv => NoStaleEntry  BY DEF RegistryInv, NoStaleEntry
<1> QED  BY <1>1, <1>2, <1>3, PTL DEF Spec

-----------------------------------------------------------------------------
(* Requests that follow each other. A task that is alive is registered, or *)
(* a request that has unregistered and cancelled it waits for its end; a   *)
(* request that is about to start a task, or to store that the case rests, *)
(* has found the registry empty, and nobody fills it meanwhile.            *)

Quiet == \A t \in Tasks : ~Live(t)

Unrequested == \A r \in Requests : ~InFlight(r)

WantOf(r) ==
  /\ req[r].pc \in {"idle", "starting"} => req[r].want = None
  /\ req[r].pc = "loading" => req[r].want = "investigating"
  /\ req[r].pc = "failing" => req[r].want \in {None, "investigating"}
  /\ req[r].pc = "awaiting" => req[r].want \in {"paused", "cancelled"} /\ req[r].on \in Tasks
  /\ InFlight(r) /\ req[r].want = "investigating" => req[r].loaded # "investigating"

Stores(r) == req[r].pc \in {"write", "commit"}

PlaceOf(r) ==
  /\ req[r].pc = "awaiting" /\ Live(req[r].on)
       => task[req[r].on].cancel \/ task[req[r].on].pc = "unwinding"
  /\ req[r].pc \in {"awaiting", "starting", "loading", "failing"} => registry = None
  /\ Stores(r) /\ req[r].want \in {"paused", "cancelled"} => registry = None

(* What a request that is under way says about the status of the case. *)
StatusOf(r) ==
  /\ req[r].pc = "starting" => status = "pending"
  /\ InFlight(r) /\ req[r].want # "cancelled" => status # "cancelled"

Reached(t) ==
  Live(t) => registry = t \/ \E r \in Requests : req[r].pc = "awaiting" /\ req[r].on = t

Resting == status \in {"paused", "cancelled"}

(* The resume that started the task: its own write may be swallowed and    *)
(* its commit may fail, and the row then still says paused.                *)
StartedBy(r, t) ==
  /\ req[r].pc \in {"write", "commit", "raised"}
  /\ req[r].want = "investigating"
  /\ req[r].on = t

RestOf(t) ==
  Live(t) => /\ status # "cancelled"
             /\ status = "paused" => \E r \in Requests : StartedBy(r, t)

SerialInv ==
  /\ \A r, q \in Requests : InFlight(r) /\ InFlight(q) => r = q
  /\ process # "up" => Unrequested
  /\ process = "down" => Quiet
  /\ \A t \in Tasks : Reached(t)
  /\ \A r \in Requests : WantOf(r) /\ PlaceOf(r) /\ StatusOf(r)
  /\ status = "none" => registry = None /\ Quiet /\ Unrequested
  /\ \A t \in Tasks : RestOf(t)
  /\ process = "booting" => ~Resting

LEMMA SerialInvInit == Init => SerialInv
<1> SUFFICES ASSUME Init PROVE SerialInv  OBVIOUS
<1>1. /\ status = "none" /\ registry = None /\ process = "up"
      /\ \A t \in Tasks : task[t].pc = "idle"
      /\ \A r \in Requests : req[r].pc = "idle" /\ req[r].want = None
  BY DEF Init
<1>2. Quiet /\ Unrequested
  BY <1>1 DEF Quiet, Unrequested, Live, Dead, InFlight, Answered
<1>3. \A r \in Requests : WantOf(r) /\ PlaceOf(r) /\ StatusOf(r)
  BY <1>1, <1>2 DEF WantOf, PlaceOf, StatusOf, Stores, Unrequested
<1>4. \A t \in Tasks : Reached(t) /\ RestOf(t)  BY <1>2 DEF Quiet, Reached, RestOf
<1> QED  BY <1>1, <1>2, <1>3, <1>4 DEF SerialInv, Unrequested

(* Without a request that waits, a task that is alive is registered. *)
LEMMA QuietUnlessRegistered ==
  ASSUME SerialInv, \A r \in Requests : req[r].pc # "awaiting"
  PROVE  /\ \A t \in Tasks : Live(t) => registry = t
         /\ registry = None => Quiet
<1>1. \A t \in Tasks : Live(t) => registry = t  BY DEF SerialInv, Reached
<1> QED  BY <1>1, TaskManagerAssumption DEF Quiet

(* At most one task is alive. *)
LEMMA LiveIsOne ==
  ASSUME SerialInv, NEW t \in Tasks, NEW u \in Tasks, Live(t), Live(u)
  PROVE  t = u
<1>1. Reached(t) /\ Reached(u)  BY DEF SerialInv
<1>2. \A r \in Requests : req[r].pc = "awaiting" => registry = None /\ InFlight(r)
  BY DEF SerialInv, PlaceOf, InFlight, Answered
<1>3. None \notin Tasks  BY TaskManagerAssumption
<1>4. CASE registry \in Tasks  BY <1>1, <1>2, <1>3, <1>4 DEF Reached
<1>5. CASE registry \notin Tasks
  <2>1. PICK r \in Requests : req[r].pc = "awaiting" /\ req[r].on = t
    BY <1>1, <1>5 DEF Reached
  <2>2. PICK q \in Requests : req[q].pc = "awaiting" /\ req[q].on = u
    BY <1>1, <1>5 DEF Reached
  <2>3. r = q  BY <1>2, <2>1, <2>2 DEF SerialInv
  <2> QED  BY <2>1, <2>2, <2>3
<1> QED  BY <1>4, <1>5

(* What the step of a task does to itself and to the status. *)
LEMMA TaskEffects ==
  ASSUME TypeInv, NEW t \in Tasks, TaskStep(t)
  PROVE  /\ Live(t)
         /\ task[t].cancel \/ task[t].pc = "unwinding" => task'[t].pc \in {"unwinding", "done"}
         /\ registry' = registry \/ task'[t].pc = "done"
         /\ status' \in {status, "investigating", "triaging", "paused_hitl", "failed"}
<1>0. task \in [Tasks -> GoodTask] /\ task[t] \in GoodTask  BY DEF TypeInv
<1>1. CASE TaskStarts(t) \/ TaskAnnounces(t) \/ TaskFinishes(t) \/ TaskRaises(t)
  BY <1>0, <1>1 DEF TaskStarts, TaskAnnounces, TaskFinishes, TaskRaises, AtTask, Goto,
                    taskFrame, Live, Dead
<1>2. CASE TaskInvestigates(t) \/ TaskFails(t)
  BY <1>0, <1>2 DEF TaskInvestigates, TaskFails, AtTask, Goto, taskFrame, Live, Dead,
                    SetInvestigationStatus
<1>3. CASE GraphReturns(t)
  BY <1>0, <1>3 DEF GraphReturns, AtTask, taskFrame, Live, Dead
<1>4. CASE TaskCloses(t)
  BY <1>0, <1>4 DEF TaskCloses, AtTask, taskFrame, Live, Dead, SetInvestigationStatus,
                    GoodTask, FinalStatuses
<1>5. CASE TaskUnwinds(t)
  BY <1>0, <1>5 DEF TaskUnwinds, AtTask, Goto, Live, Dead
<1>6. CASE CancelDelivered(t)
  <2>1. task'[t].pc \in {"unwinding", "done"} /\ Live(t) /\ registry' = registry
    BY <1>0, <1>6 DEF CancelDelivered, taskFrame, GoodTask, TaskType
  <2>2. status' \in {status, "investigating", "triaging", "paused_hitl", "failed"}
    BY <1>0, <1>6 DEF CancelDelivered, SetInvestigationStatus, GoodTask, FinalStatuses
  <2> QED  BY <2>1, <2>2
<1> QED  BY <1>1, <1>2, <1>3, <1>4, <1>5, <1>6 DEF TaskStep

LEMMA SerialTask ==
  ASSUME TypeInv, SerialInv, NEW t \in Tasks, TaskStep(t)
  PROVE  SerialInv'
<1>1. /\ req' = req /\ process' = process
      /\ \A u \in Tasks : u # t => task'[u] = task[u]
      /\ registry' \in {registry, None}
  BY TaskMoves
<1>2. /\ Live(t)
      /\ task[t].cancel \/ task[t].pc = "unwinding" => task'[t].pc \in {"unwinding", "done"}
      /\ registry' = registry \/ task'[t].pc = "done"
      /\ status' \in {status, "investigating", "triaging", "paused_hitl", "failed"}
  BY TaskEffects
<1>3. ~Quiet  BY <1>2 DEF Quiet
<1>4. status # "none" /\ process # "down"  BY <1>3 DEF SerialInv
<1>5. \A u \in Tasks : Live(u)' => Live(u)  BY <1>1, <1>2 DEF Live
<1>6. \A u \in Tasks : Live(u) => u = t  BY <1>2, LiveIsOne
<1>7. \A r \in Requests : InFlight(r)' <=> InFlight(r)  BY <1>1 DEF InFlight
<1>8. \A r \in Requests : WantOf(r)'
  BY <1>1, <1>7 DEF SerialInv, WantOf, InFlight
<1>9. ASSUME NEW u \in Tasks PROVE Reached(u)'
  <2> SUFFICES ASSUME Live(u)' PROVE Reached(u)'  BY DEF Reached
  <2>1. u = t /\ task'[t].pc # "done"  BY <1>5, <1>6 DEF Live, Dead
  <2>2. registry' = registry /\ Reached(u)  BY <1>2, <2>1 DEF SerialInv
  <2> QED  BY <2>1, <2>2, <1>1, <1>2 DEF Reached
<1>10. ASSUME NEW r \in Requests PROVE PlaceOf(r)'
  <2>1. PlaceOf(r) /\ WantOf(r)  BY DEF SerialInv
  <2>2. registry = None => registry' = None  BY <1>1
  <2>3. ASSUME req[r].pc = "awaiting", Live(req[r].on)'
        PROVE  task'[req[r].on].cancel \/ task'[req[r].on].pc = "unwinding"
    <3> DEFINE u == req[r].on
    <3>1. u \in Tasks  BY <2>1, <2>3 DEF WantOf
    <3>2. Live(u)  BY <1>1, <1>5, <2>3, <3>1 DEF Live
    <3>3. u = t  BY <1>6, <3>1, <3>2
    <3>4. task[t].cancel \/ task[t].pc = "unwinding"  BY <2>1, <2>3, <3>2, <3>3 DEF PlaceOf
    <3> QED  BY <1>1, <1>2, <2>3, <3>3, <3>4 DEF Live, Dead
  <2> QED  BY <1>1, <2>1, <2>2, <2>3 DEF PlaceOf, Stores, Live
<1>11. ASSUME NEW r \in Requests PROVE StatusOf(r)'
  <2>1. StatusOf(r)  BY DEF SerialInv
  <2>2. req[r].pc # "starting"
    <3> SUFFICES ASSUME req[r].pc = "starting" PROVE FALSE  OBVIOUS
    <3>1. registry = None  BY DEF SerialInv, PlaceOf
    <3>2. \A q \in Requests : req[q].pc # "awaiting"
      BY DEF SerialInv, InFlight, Answered
    <3> QED  BY <3>1, <3>2, <1>3, QuietUnlessRegistered
  <2> QED  BY <1>1, <1>2, <1>7, <2>1, <2>2 DEF StatusOf
<1>12. status' # "none"  BY <1>2, <1>4
<1>13. ASSUME NEW u \in Tasks PROVE RestOf(u)'
  <2> SUFFICES ASSUME Live(u)', Resting' PROVE RestOf(u)'  BY DEF RestOf, Resting
  <2>1. status' = status  BY <1>2 DEF Resting
  <2>2. Live(u) /\ RestOf(u)  BY <1>5 DEF SerialInv
  <2> QED  BY <1>1, <2>1, <2>2 DEF RestOf, StartedBy
<1>14. process' = "booting" => ~Resting'  BY <1>1, <1>2 DEF SerialInv, Resting
<1>15. process' # "up" => Unrequested'
  BY <1>1, <1>7 DEF SerialInv, Unrequested
<1> QED
  BY <1>1, <1>4, <1>7, <1>8, <1>9, <1>10, <1>11, <1>12, <1>13, <1>14, <1>15 DEF SerialInv

(* A request that moves leaves the others as they were, and is alone. *)
LEMMA RequestAlone ==
  ASSUME Serial, TypeInv, SerialInv, NEW r \in Requests, RequestBegins(r) \/ RequestStep(r)
  PROVE  /\ process' = process /\ process = "up"
         /\ \A q \in Requests : q # r => req'[q] = req[q] /\ ~InFlight(q)
         /\ RequestStep(r) => InFlight(r)
         /\ RequestBegins(r) => Unrequested /\ req[r].pc = "idle"
<1>0. req \in [Requests -> GoodReq]  BY DEF TypeInv
<1>1. CASE RequestBegins(r)
  <2>1. MayBegin(r)  BY <1>1 DEF RequestBegins, CreateInvestigation, Read
  <2>2. process = "up" /\ Unrequested /\ req[r].pc = "idle"
    BY <2>1 DEF MayBegin, Unrequested
  <2>3. process' = process /\ \A q \in Requests : q # r => req'[q] = req[q]
    BY <1>0, <1>1 DEF RequestBegins, CreateInvestigation, Read, Advance, reqFrame
  <2>4. ~InFlight(r)  BY <2>2 DEF Unrequested
  <2>5. ~RequestStep(r)
    BY <2>2 DEF RequestStep, StartInvestigation, ResumeInvestigation, PopAndCancel, BuildFails,
                BuildFailureWritten, CallWithoutTask, ResumeSkipped, TaskAwaited,
                ResumeAbandoned, WriteStatus, CommitRequest, CommitFails
  <2> QED  BY <2>2, <2>3, <2>5 DEF Unrequested
<1>2. CASE RequestStep(r)
  <2>1. InFlight(r)
    BY <1>2 DEF RequestStep, StartInvestigation, ResumeInvestigation, PopAndCancel, BuildFails,
                BuildFailureWritten, CallWithoutTask, ResumeSkipped, TaskAwaited,
                ResumeAbandoned, WriteStatus, CommitRequest, CommitFails, InFlight, Answered
  <2>2. process = "up"  BY <2>1 DEF SerialInv, Unrequested
  <2>3. process' = process
    BY <1>2 DEF RequestStep, StartInvestigation, ResumeInvestigation, PopAndCancel, BuildFails,
                BuildFailureWritten, CallWithoutTask, ResumeSkipped, TaskAwaited,
                ResumeAbandoned, WriteStatus, CommitRequest, CommitFails, reqFrame
  <2>4. \A q \in Requests : q # r => req'[q] = req[q]
    <3>1. ASSUME NEW pc, Advance(r, pc) PROVE \A q \in Requests : q # r => req'[q] = req[q]
      BY <1>0, <3>1 DEF Advance
    <3>2. PopAndCancel(r) \/ (\E t \in Tasks : ResumeInvestigation(r, t))
            => \A q \in Requests : q # r => req'[q] = req[q]
      BY <1>0 DEF PopAndCancel, ResumeInvestigation
    <3> QED
      BY <1>2, <3>1, <3>2 DEF RequestStep, StartInvestigation, BuildFails,
                BuildFailureWritten, CallWithoutTask, ResumeSkipped, TaskAwaited,
                ResumeAbandoned, WriteStatus, CommitRequest, CommitFails
  <2>5. ~RequestBegins(r)
    BY <2>1 DEF RequestBegins, CreateInvestigation, Read, MayBegin, InFlight, Answered
  <2> QED  BY <2>1, <2>2, <2>3, <2>4, <2>5 DEF SerialInv
<1> QED  BY <1>1, <1>2

(* So that what is to be shown of a request's step is about that request.  *)
LEMMA SerialReduces ==
  ASSUME Serial, TypeInv, SerialInv, NEW r \in Requests, RequestBegins(r) \/ RequestStep(r),
         \A t \in Tasks : Reached(t)', WantOf(r)', PlaceOf(r)', StatusOf(r)',
         status' # "none",
         \A t \in Tasks : RestOf(t)'
  PROVE  SerialInv'
<1>1. /\ process' = "up"
      /\ \A q \in Requests : q # r => req'[q] = req[q] /\ ~InFlight(q)
  BY RequestAlone
<1>2. ASSUME NEW q \in Requests, q # r PROVE ~InFlight(q)' /\ WantOf(q)' /\ PlaceOf(q)' /\ StatusOf(q)'
  <2>1. req'[q] = req[q] /\ req[q].pc \in Answered  BY <1>1, <1>2 DEF InFlight
  <2>2. WantOf(q)  BY DEF SerialInv
  <2> QED
    BY <2>1, <2>2 DEF InFlight, WantOf, PlaceOf, StatusOf, Stores, Answered
<1>3. \A q \in Requests : WantOf(q)' /\ PlaceOf(q)' /\ StatusOf(q)'  BY <1>2
<1>4. \A p, q \in Requests : InFlight(p)' /\ InFlight(q)' => p = q  BY <1>2
<1> QED  BY <1>1, <1>3, <1>4 DEF SerialInv

LEMMA AdvanceTo ==
  ASSUME TypeInv, NEW r \in Requests, NEW pc, Advance(r, pc)
  PROVE  /\ req'[r].pc = pc /\ req'[r].want = req[r].want
         /\ req'[r].loaded = req[r].loaded /\ req'[r].on = req[r].on
BY DEF TypeInv, GoodReq, ReqType, Advance

(* A request that starts no task leaves the case at rest as it was. *)
LEMMA RestKept ==
  ASSUME SerialInv, NEW r \in Requests,
         \A q \in Requests : q # r => req'[q] = req[q],
         \A t \in Tasks : Live(t)' => Live(t),
         \A t \in Tasks : StartedBy(r, t) => StartedBy(r, t)',
         status' = status \/ status' \notin {"paused", "cancelled"}
  PROVE  \A t \in Tasks : RestOf(t)'
<1> SUFFICES ASSUME NEW t \in Tasks, Live(t)', status' \in {"paused", "cancelled"}
             PROVE  RestOf(t)'
  BY DEF RestOf
<1>1. Live(t) /\ RestOf(t) /\ status' = status  BY DEF SerialInv
<1>2. \A q \in Requests : StartedBy(q, t) => StartedBy(q, t)'  BY DEF StartedBy
<1> QED  BY <1>1, <1>2 DEF RestOf

(* A request that neither starts nor stops a task. *)
LEMMA SerialQuietRequest ==
  ASSUME Serial, TypeInv, SerialInv, NEW r \in Requests,
         \/ RequestBegins(r) \/ BuildFails(r) \/ BuildFailureWritten(r) \/ CallWithoutTask(r)
         \/ ResumeSkipped(r) \/ TaskAwaited(r) \/ ResumeAbandoned(r) \/ WriteStatus(r)
         \/ CommitRequest(r) \/ CommitFails(r)
  PROVE  SerialInv'
<1>0. RequestBegins(r) \/ RequestStep(r)  BY DEF RequestStep
<1>1. /\ \A q \in Requests : q # r => req'[q] = req[q] /\ ~InFlight(q)
      /\ RequestStep(r) => InFlight(r)
      /\ RequestBegins(r) => Unrequested /\ req[r].pc = "idle"
  BY <1>0, RequestAlone
<1>2. WantOf(r) /\ PlaceOf(r) /\ StatusOf(r)  BY DEF SerialInv
<1>3. req[r] \in GoodReq /\ status \in Statuses  BY DEF TypeInv
<1>4. task' = task /\ registry' = registry
  BY DEF RequestBegins, CreateInvestigation, Read, BuildFails, BuildFailureWritten,
         CallWithoutTask, ResumeSkipped, TaskAwaited, ResumeAbandoned, WriteStatus,
         CommitRequest, CommitFails
<1>5. ASSUME req[r].pc # "awaiting"
      PROVE  /\ \A t \in Tasks : Live(t) => registry = t
             /\ registry = None => Quiet /\ Quiet'
             /\ \A t \in Tasks : Reached(t)'
  <2>1. \A q \in Requests : req[q].pc # "awaiting"
    BY <1>1, <1>5 DEF InFlight, Answered
  <2>2. /\ \A t \in Tasks : Live(t) => registry = t
        /\ registry = None => Quiet
    BY <2>1, QuietUnlessRegistered
  <2> QED  BY <2>2, <1>4 DEF Quiet, Live, Reached
<1>6. ASSUME status' = status, req[r].pc \notin {"write", "commit", "raised"}
      PROVE  \A t \in Tasks : RestOf(t)'
  BY <1>1, <1>4, <1>6, RestKept DEF StartedBy, Live
<1>7. CASE CreateInvestigation(r)
  <2>1. req[r].pc = "idle" /\ status = "none" /\ status' = "pending"
    BY <1>1, <1>7 DEF CreateInvestigation, RequestBegins
  <2>2. registry = None  BY <2>1 DEF SerialInv
  <2>3. req'[r].pc = "starting" /\ req'[r].want = None
    BY <2>1, <1>2, <1>7, AdvanceTo DEF CreateInvestigation, WantOf
  <2>4. WantOf(r)' /\ PlaceOf(r)' /\ StatusOf(r)'
    BY <2>1, <2>2, <2>3, <1>4, TaskManagerAssumption DEF WantOf, PlaceOf, StatusOf, Stores
  <2>5. \A t \in Tasks : RestOf(t)'  BY <2>1 DEF RestOf
  <2> QED  BY <1>0, <1>5, <2>1, <2>4, <2>5, SerialReduces
<1>8. ASSUME NEW want \in Wants, Read(r, want) PROVE SerialInv'
  <2>1. req[r].pc = "idle" /\ status # "none" /\ status' = status
    BY <1>1, <1>8 DEF Read, RequestBegins, Wants
  <2>2. req'[r] = [pc |-> IF status \in Accepts(want) THEN "called" ELSE "answered",
                   want |-> want, loaded |-> status, on |-> None]
    BY <1>8 DEF Read, TypeInv
  <2>3. WantOf(r)'
    BY <2>2 DEF WantOf, InFlight, Answered, Accepts, Wants
  <2>4. PlaceOf(r)'  BY <2>2 DEF PlaceOf, Stores
  <2>5. StatusOf(r)'
    BY <2>1, <2>2 DEF StatusOf, InFlight, Answered, Accepts, Wants, _ACTIVE_STATUSES
  <2>6. \A t \in Tasks : RestOf(t)'  BY <2>1, <1>6
  <2> QED  BY <1>0, <1>5, <2>1, <2>3, <2>4, <2>5, <2>6, SerialReduces
<1>9. CASE CallWithoutTask(r) \/ ResumeSkipped(r)
  <2>1. InFlight(r) /\ req[r].pc = "called" /\ status' = status /\ status # "none"
    BY <1>1, <1>9 DEF CallWithoutTask, ResumeSkipped, RequestStep, SerialInv, Unrequested
  <2>2. req[r].want \in Wants  BY <1>3, <2>1 DEF GoodReq
  <2>3. /\ req'[r].want = req[r].want /\ req'[r].loaded = req[r].loaded
        /\ req'[r].pc \in {"commit", "write", "loading"}
        /\ req'[r].pc = "loading" => req[r].want = "investigating"
        /\ req[r].want # "investigating" \/ req'[r].pc = "loading" => registry = None
    <3>1. CASE CallWithoutTask(r)
      BY <3>1, <2>2, AdvanceTo DEF CallWithoutTask, Wants
    <3>2. CASE ResumeSkipped(r)  BY <3>2, <2>2, AdvanceTo DEF ResumeSkipped, Wants
    <3> QED  BY <1>9, <3>1, <3>2
  <2>4. WantOf(r)' /\ PlaceOf(r)' /\ StatusOf(r)'
    BY <2>1, <2>3, <1>2, <1>4 DEF WantOf, PlaceOf, StatusOf, Stores, InFlight, Answered
  <2>5. \A t \in Tasks : RestOf(t)'  BY <2>1, <1>6
  <2> QED  BY <1>0, <1>5, <2>1, <2>4, <2>5, SerialReduces
<1>10. CASE TaskAwaited(r)
  <2>1. /\ InFlight(r) /\ req[r].pc = "awaiting" /\ status' = status /\ status # "none"
        /\ task[req[r].on].pc = "done" /\ registry = None
    BY <1>1, <1>2, <1>10 DEF TaskAwaited, RequestStep, SerialInv, Unrequested, PlaceOf
  <2>2. Quiet'
    <3> SUFFICES ASSUME NEW t \in Tasks, Live(t) PROVE FALSE  BY <1>4 DEF Quiet, Live
    <3>1. PICK q \in Requests : req[q].pc = "awaiting" /\ req[q].on = t
      BY <2>1, TaskManagerAssumption DEF SerialInv, Reached
    <3>2. q = r  BY <3>1, <1>1 DEF InFlight, Answered
    <3> QED  BY <3>1, <3>2, <2>1 DEF Live, Dead
  <2>3. req'[r].pc = "write" /\ req'[r].want = req[r].want
    BY <1>10, AdvanceTo DEF TaskAwaited
  <2>4. WantOf(r)' /\ PlaceOf(r)' /\ StatusOf(r)'
    BY <2>1, <2>3, <1>2, <1>4 DEF WantOf, PlaceOf, StatusOf, Stores, InFlight, Answered
  <2>5. \A t \in Tasks : Reached(t)' /\ RestOf(t)'  BY <2>2 DEF Quiet, Reached, RestOf
  <2> QED  BY <1>0, <2>1, <2>2, <2>4, <2>5, SerialReduces
<1>11. CASE BuildFails(r) \/ ResumeAbandoned(r)
  <2>1. /\ InFlight(r) /\ req[r].pc \in {"starting", "loading"}
        /\ status' = status /\ status # "none" /\ registry = None
        /\ req[r].want \in {None, "investigating"}
    BY <1>1, <1>2, <1>11
       DEF BuildFails, ResumeAbandoned, RequestStep, SerialInv, Unrequested, PlaceOf, WantOf
  <2>2. /\ req'[r].want = req[r].want /\ req'[r].loaded = req[r].loaded
        /\ req'[r].pc \in {"failing", "commit"}
        /\ req'[r].pc = "commit" => req[r].want = "investigating"
    BY <1>2, <1>11, AdvanceTo DEF BuildFails, ResumeAbandoned, WantOf
  <2>3. WantOf(r)' /\ PlaceOf(r)' /\ StatusOf(r)'
    BY <2>1, <2>2, <1>2, <1>4, TaskManagerAssumption
       DEF WantOf, PlaceOf, StatusOf, Stores, InFlight, Answered
  <2>4. \A t \in Tasks : RestOf(t)'  BY <1>5, <2>1 DEF Quiet, RestOf
  <2> QED  BY <1>0, <1>5, <2>1, <2>3, <2>4, SerialReduces
<1>12. CASE BuildFailureWritten(r)
  <2>1. /\ InFlight(r) /\ req[r].pc = "failing" /\ registry = None
        /\ status' \in {status, "failed"} /\ status # "none"
        /\ req[r].want \in {None, "investigating"}
    BY <1>1, <1>2, <1>12
       DEF BuildFailureWritten, RequestStep, SerialInv, Unrequested, PlaceOf, WantOf,
           SetInvestigationStatus
  <2>2. /\ req'[r].want = req[r].want /\ req'[r].loaded = req[r].loaded
        /\ req'[r].pc = IF req[r].want = None THEN "answered" ELSE "commit"
    BY <1>12, AdvanceTo DEF BuildFailureWritten
  <2>3. WantOf(r)' /\ PlaceOf(r)' /\ StatusOf(r)'
    BY <2>1, <2>2, <1>2, <1>4 DEF WantOf, PlaceOf, StatusOf, Stores, InFlight, Answered
  <2>4. \A t \in Tasks : RestOf(t)'  BY <1>5, <2>1 DEF Quiet, RestOf
  <2> QED  BY <1>0, <1>5, <2>1, <2>3, <2>4, SerialReduces
<1>13. CASE WriteStatus(r)
  <2>1. /\ InFlight(r) /\ req[r].pc = "write" /\ status # "none" /\ req[r].want \in Wants
        /\ status' \in {status, req[r].want}
    BY <1>1, <1>3, <1>13
       DEF WriteStatus, RequestStep, SerialInv, Unrequested, SetInvestigationStatus, GoodReq
  <2>2. /\ req'[r].want = req[r].want /\ req'[r].loaded = req[r].loaded
        /\ req'[r].pc = "commit" /\ req'[r].on = req[r].on
    BY <1>13, AdvanceTo DEF WriteStatus
  <2>3. WantOf(r)' /\ PlaceOf(r)' /\ StatusOf(r)'
    BY <2>1, <2>2, <1>2, <1>4 DEF WantOf, PlaceOf, StatusOf, Stores, InFlight, Answered
  <2>4. ASSUME NEW t \in Tasks PROVE RestOf(t)'
    <3>1. CASE req[r].want = "investigating"
      <4>1. status' = status \/ status' \notin {"paused", "cancelled"}  BY <2>1, <3>1
      <4>2. \A u \in Tasks : StartedBy(r, u) => StartedBy(r, u)'  BY <2>2 DEF StartedBy
      <4> QED  BY <1>1, <1>4, <4>1, <4>2, RestKept DEF Live
    <3>2. CASE req[r].want # "investigating"
      <4>1. registry = None  BY <2>1, <3>2, <1>2 DEF PlaceOf, Stores, Wants
      <4> QED  BY <1>5, <2>1, <4>1 DEF Quiet, RestOf
    <3> QED  BY <3>1, <3>2
  <2>5. status' # "none"  BY <2>1 DEF Wants
  <2> QED  BY <1>0, <1>5, <2>1, <2>3, <2>4, <2>5, SerialReduces
<1>14. CASE CommitRequest(r)
  <2>1. /\ InFlight(r) /\ req[r].pc = "commit" /\ status # "none" /\ req[r].want \in Wants
        /\ status' = IF req[r].want # req[r].loaded THEN req[r].want ELSE status
    BY <1>1, <1>3, <1>14
       DEF CommitRequest, RequestStep, SerialInv, Unrequested, GoodReq
  <2>2. req'[r].pc = "answered"  BY <1>14, AdvanceTo DEF CommitRequest
  <2>3. WantOf(r)' /\ PlaceOf(r)' /\ StatusOf(r)'
    BY <2>2 DEF WantOf, PlaceOf, StatusOf, Stores, InFlight, Answered
  <2>4. CASE req[r].want = "investigating"
    <3>1. status' = "investigating"  BY <2>1, <2>4, <1>2 DEF WantOf
    <3>2. \A t \in Tasks : RestOf(t)'  BY <3>1 DEF RestOf
    <3> QED  BY <1>0, <1>5, <2>1, <2>3, <3>1, <3>2, SerialReduces
  <2>5. CASE req[r].want # "investigating"
    <3>1. registry = None  BY <2>1, <2>5, <1>2 DEF PlaceOf, Stores, Wants
    <3>2. status' # "none"  BY <2>1 DEF Wants
    <3>3. \A t \in Tasks : RestOf(t)'  BY <1>5, <2>1, <3>1 DEF Quiet, RestOf
    <3> QED  BY <1>0, <1>5, <2>1, <2>3, <3>2, <3>3, SerialReduces
  <2> QED  BY <2>4, <2>5
<1>15. CASE CommitFails(r)
  <2>1. req[r].pc = "commit" /\ status' = status /\ status # "none"
    BY <1>1, <1>15 DEF CommitFails, RequestStep, SerialInv, Unrequested
  <2>2. req'[r].pc = "raised" /\ req'[r].want = req[r].want /\ req'[r].on = req[r].on
    BY <1>15, AdvanceTo DEF CommitFails
  <2>3. WantOf(r)' /\ PlaceOf(r)' /\ StatusOf(r)'
    BY <2>2 DEF WantOf, PlaceOf, StatusOf, Stores, InFlight, Answered
  <2>4. \A t \in Tasks : StartedBy(r, t) => StartedBy(r, t)'  BY <2>2 DEF StartedBy
  <2>5. \A t \in Tasks : RestOf(t)'  BY <1>1, <1>4, <2>1, <2>4, RestKept DEF Live
  <2> QED  BY <1>0, <1>5, <2>1, <2>3, <2>5, SerialReduces
<1> QED
  BY <1>7, <1>8, <1>9, <1>10, <1>11, <1>12, <1>13, <1>14, <1>15 DEF RequestBegins, Wants

(* A request that starts a task, or unregisters and cancels one. *)
LEMMA SerialSpawn ==
  ASSUME Serial, TypeInv, SerialInv, NEW r \in Requests,
         \/ \E t \in Tasks : StartInvestigation(r, t) \/ ResumeInvestigation(r, t)
         \/ PopAndCancel(r)
  PROVE  SerialInv'
<1>0. RequestStep(r)  BY DEF RequestStep
<1>1. /\ \A q \in Requests : q # r => req'[q] = req[q] /\ ~InFlight(q)
      /\ InFlight(r) /\ req[r].pc # "awaiting"
  BY <1>0, RequestAlone DEF StartInvestigation, ResumeInvestigation, PopAndCancel
<1>2. WantOf(r) /\ PlaceOf(r) /\ StatusOf(r) /\ status # "none"
  BY <1>1 DEF SerialInv, Unrequested
<1>3. req[r] \in GoodReq /\ task \in [Tasks -> GoodTask] /\ registry \in Tasks \cup {None}
  BY DEF TypeInv
<1>4. /\ \A t \in Tasks : Live(t) => registry = t
      /\ registry = None => Quiet
  <2>1. \A q \in Requests : req[q].pc # "awaiting"  BY <1>1 DEF InFlight, Answered
  <2> QED  BY <2>1, QuietUnlessRegistered
<1>5. ASSUME NEW t \in Tasks, Spawn(t), Quiet
      PROVE  \A u \in Tasks : Reached(u)'
  <2>1. \A u \in Tasks : u # t => task'[u] = task[u]  BY <1>3, <1>5 DEF Spawn
  <2>2. \A u \in Tasks : Live(u)' => u = t  BY <2>1, <1>5 DEF Quiet, Live
  <2> QED  BY <2>2, <1>5 DEF Spawn, Reached
<1>6. ASSUME NEW t \in Tasks, StartInvestigation(r, t) PROVE SerialInv'
  <2>1. req[r].pc = "starting" /\ Spawn(t) /\ Quiet /\ status' = status /\ status = "pending"
    BY <1>2, <1>4, <1>6 DEF StartInvestigation, StatusOf
  <2>2. req'[r].pc = "answered"  BY <1>6, AdvanceTo DEF StartInvestigation
  <2>3. WantOf(r)' /\ PlaceOf(r)' /\ StatusOf(r)'
    BY <2>2 DEF WantOf, PlaceOf, StatusOf, Stores, InFlight, Answered
  <2>4. \A u \in Tasks : RestOf(u)'  BY <2>1 DEF RestOf
  <2> QED  BY <1>0, <1>2, <1>5, <2>1, <2>3, <2>4, SerialReduces
<1>7. ASSUME NEW t \in Tasks, ResumeInvestigation(r, t) PROVE SerialInv'
  <2>1. /\ req[r].pc = "loading" /\ Spawn(t) /\ Quiet /\ status' = status
        /\ req[r].want = "investigating"
    BY <1>2, <1>4, <1>7 DEF ResumeInvestigation, PlaceOf, WantOf
  <2>2. /\ req'[r].pc = "write" /\ req'[r].want = "investigating"
        /\ req'[r].loaded = req[r].loaded /\ req'[r].on = t
    BY <1>7, <2>1 DEF ResumeInvestigation, TypeInv, GoodReq, ReqType
  <2>3. WantOf(r)' /\ PlaceOf(r)' /\ StatusOf(r)'
    BY <1>1, <1>2, <2>1, <2>2 DEF WantOf, PlaceOf, StatusOf, Stores, InFlight, Answered
  <2>4. ASSUME NEW u \in Tasks PROVE RestOf(u)'
    <3>1. Live(u)' => u = t  BY <1>3, <2>1 DEF Spawn, Quiet, Live
    <3>2. StartedBy(r, t)'  BY <2>2 DEF StartedBy
    <3>3. status # "cancelled"  BY <1>1, <1>2, <2>1 DEF StatusOf
    <3> QED  BY <2>1, <3>1, <3>2, <3>3 DEF RestOf
  <2> QED  BY <1>0, <1>2, <1>5, <2>1, <2>3, <2>4, SerialReduces
<1>8. CASE PopAndCancel(r)
  <2>1. /\ req[r].pc = "called" /\ registry \in Tasks /\ registry' = None
        /\ Cancel(registry) /\ status' = status
        /\ req[r].want \in {"paused", "cancelled"}
    BY <1>3, <1>8 DEF PopAndCancel
  <2>2. req'[r].pc = "awaiting" /\ req'[r].want = req[r].want /\ req'[r].on = registry
    BY <1>3, <1>8 DEF PopAndCancel, TypeInv, GoodReq, ReqType
  <2>3. /\ \A u \in Tasks : task'[u].pc = task[u].pc
        /\ task'[registry].cancel = Live(registry)
    BY <1>3, <2>1 DEF Cancel, GoodTask, TaskType
  <2>4. \A u \in Tasks : Live(u)' <=> Live(u)  BY <2>3 DEF Live
  <2>5. \A u \in Tasks : Reached(u)'  BY <1>4, <2>2, <2>4 DEF Reached
  <2>6. WantOf(r)' /\ StatusOf(r)'
    BY <1>1, <1>2, <2>1, <2>2 DEF WantOf, StatusOf, InFlight, Answered
  <2>7. PlaceOf(r)'
    <3>1. task'[registry].pc \notin Dead => task'[registry].cancel  BY <2>1, <2>3 DEF Live
    <3> QED  BY <2>1, <2>2, <3>1 DEF PlaceOf, Stores, Live
  <2>8. \A u \in Tasks : RestOf(u)'
    BY <1>1, <2>1, <2>4, RestKept DEF StartedBy
  <2> QED  BY <1>0, <1>2, <2>1, <2>5, <2>6, <2>7, <2>8, SerialReduces
<1> QED  BY <1>6, <1>7, <1>8

(* While no request is in flight nothing is asked of the requests. *)
LEMMA UnrequestedIsSound ==
  ASSUME Unrequested', \A r \in Requests : req'[r].pc = "idle" => req'[r].want = None
  PROVE  /\ \A r, q \in Requests : InFlight(r)' /\ InFlight(q)' => r = q
         /\ \A r \in Requests : WantOf(r)' /\ PlaceOf(r)' /\ StatusOf(r)'
<1>1. \A r \in Requests : req'[r].pc \in Answered /\ ~InFlight(r)'
  BY DEF Unrequested, InFlight, Answered
<1>2. \A r \in Requests : WantOf(r)' /\ PlaceOf(r)' /\ StatusOf(r)'
  BY <1>1 DEF WantOf, PlaceOf, StatusOf, Stores, Answered
<1> QED  BY <1>1, <1>2

LEMMA SerialProcess ==
  ASSUME TypeInv, SerialInv, ProcessStep \/ Crash \/ ShutdownBegins
  PROVE  SerialInv'
<1>0. /\ task \in [Tasks -> GoodTask] /\ registry \in Tasks \cup {None}
      /\ \A r \in Requests : req[r].pc = "idle" => req[r].want = None
  BY DEF TypeInv, SerialInv, WantOf
<1>1. ASSUME GoDown PROVE SerialInv'
  <2>1. /\ process' = "down" /\ registry' = None /\ status' = status
        /\ task' = [t \in Tasks |-> IF Live(t) THEN [task[t] EXCEPT !.pc = "done"] ELSE task[t]]
        /\ req' = [r \in Requests |-> IF InFlight(r) THEN [req[r] EXCEPT !.pc = "answered"]
                                                    ELSE req[r]]
    BY <1>1 DEF GoDown
  <2>2. \A t \in Tasks : task'[t].pc \in Dead
    BY <1>0, <2>1 DEF GoodTask, TaskType, Live, Dead
  <2>3. \A r \in Requests :
          req'[r].pc \in Answered /\ (req'[r].pc = "idle" => req'[r].want = None)
    BY <1>0, <2>1 DEF TypeInv, GoodReq, ReqType, InFlight, Answered
  <2>4. Quiet'  BY <2>2 DEF Quiet, Live
  <2>7. Unrequested'  BY <2>3 DEF Unrequested, InFlight
  <2>5. \A t \in Tasks : Reached(t)' /\ RestOf(t)'  BY <2>4 DEF Quiet, Reached, RestOf
  <2>6. /\ \A r, q \in Requests : InFlight(r)' /\ InFlight(q)' => r = q
        /\ \A r \in Requests : WantOf(r)' /\ PlaceOf(r)' /\ StatusOf(r)'
    BY <2>7, <2>3, UnrequestedIsSound
  <2> QED  BY <2>1, <2>4, <2>5, <2>6, <2>7 DEF SerialInv
<1>2. ASSUME UNCHANGED req, Unrequested
      PROVE  /\ Unrequested'
             /\ \A r, q \in Requests : InFlight(r)' /\ InFlight(q)' => r = q
             /\ \A r \in Requests : WantOf(r)' /\ PlaceOf(r)' /\ StatusOf(r)'
  <2>1. Unrequested'  BY <1>2 DEF Unrequested, InFlight
  <2> QED  BY <1>0, <1>2, <2>1, UnrequestedIsSound
<1>3. CASE BootIdle \/ BootSkips \/ BootFails
  <2>1. /\ process = "down" /\ process' = "up" /\ UNCHANGED <<req, task, registry>>
        /\ status' = status \/ (status' = "failed" /\ status # "none")
    BY <1>3 DEF BootIdle, BootSkips, BootFails, SetInvestigationStatus, AutoResumes,
                _ACTIVE_STATUSES
  <2>2. Quiet /\ Unrequested  BY <2>1 DEF SerialInv
  <2>3. Quiet'  BY <2>1, <2>2 DEF Quiet, Live
  <2>4. \A t \in Tasks : Reached(t)' /\ RestOf(t)'  BY <2>3 DEF Quiet, Reached, RestOf
  <2>5. process' # "booting"  BY <2>1
  <2> QED  BY <2>1, <2>2, <2>3, <2>4, <2>5, <1>2 DEF SerialInv
<1>4. ASSUME NEW t \in Tasks, BootResumes(t) PROVE SerialInv'
  <2>1. /\ process = "down" /\ process' = "booting" /\ req' = req /\ status' = status
        /\ status \in _ACTIVE_STATUSES /\ Spawn(t)
    BY <1>4 DEF BootResumes, AutoResumes
  <2>2. Quiet /\ Unrequested  BY <2>1 DEF SerialInv
  <2>3. \A u \in Tasks : u # t => task'[u] = task[u]  BY <1>0, <2>1 DEF Spawn
  <2>4. \A u \in Tasks : Live(u)' => u = t  BY <2>2, <2>3 DEF Quiet, Live
  <2>5. \A u \in Tasks : Reached(u)'  BY <2>1, <2>4 DEF Spawn, Reached
  <2>6. \A u \in Tasks : RestOf(u)'  BY <2>1 DEF RestOf, _ACTIVE_STATUSES
  <2> QED  BY <2>1, <2>2, <2>5, <2>6, <1>2 DEF SerialInv, Resting, _ACTIVE_STATUSES
<1>5. CASE BootWrites
  <2>1. /\ process = "booting" /\ process' = "up" /\ UNCHANGED <<req, task, registry>>
        /\ status' \in {status, "investigating"}
    BY <1>5 DEF BootWrites, SetInvestigationStatus
  <2>2. Unrequested /\ ~Resting  BY <2>1 DEF SerialInv
  <2>3. \A t \in Tasks : Reached(t)'  BY <2>1 DEF SerialInv, Reached, Live
  <2>4. status' = "none" => registry' = None /\ Quiet'
    BY <2>1 DEF SerialInv, Quiet, Live
  <2>5. \A t \in Tasks : RestOf(t)'  BY <2>1, <2>2 DEF Resting, RestOf
  <2> QED  BY <2>1, <2>2, <2>3, <2>4, <2>5, <1>2 DEF SerialInv
<1>6. CASE ShutdownBegins
  <2>1. /\ process' = "stopping" /\ UNCHANGED <<req, registry, status>>
        /\ Unrequested
        /\ task' = task \/ (registry \in Tasks /\ Cancel(registry))
    BY <1>0, <1>6 DEF ShutdownBegins, Unrequested
  <2>2. \A u \in Tasks : Live(u)' <=> Live(u)
    BY <1>0, <2>1 DEF Cancel, GoodTask, TaskType, Live
  <2>3. (\A t \in Tasks : Reached(t)') /\ (Quiet <=> Quiet')
    BY <2>1, <2>2 DEF SerialInv, Reached, Quiet
  <2>4. \A t \in Tasks : RestOf(t)'  BY <2>1, <2>2 DEF SerialInv, RestOf, StartedBy
  <2> QED  BY <2>1, <2>3, <2>4, <1>2 DEF SerialInv
<1> QED  BY <1>1, <1>3, <1>4, <1>5, <1>6 DEF ProcessStep, Crash, ShutdownEnds

LEMMA SerialInvStep == Serial /\ TypeInv /\ SerialInv /\ [Next]_vars => SerialInv'
<1>1. ASSUME Serial, TypeInv, SerialInv, NEW r \in Requests,
             RequestBegins(r) \/ RequestStep(r)
      PROVE  SerialInv'
  BY <1>1, SerialQuietRequest, SerialSpawn DEF RequestStep
<1>2. ASSUME SerialInv, UNCHANGED vars PROVE SerialInv'
  BY <1>2 DEF vars, SerialInv, Unrequested, Quiet, Live, InFlight, Reached, WantOf, PlaceOf,
              StatusOf, Stores, Resting, RestOf, StartedBy
<1> QED  BY <1>1, <1>2, SerialTask, SerialProcess DEF Next

LEMMA SerialCorrect ==
  ASSUME Serial
  PROVE  Spec => [](TypeInv /\ SerialInv)
<1>1. Init => TypeInv /\ SerialInv  BY TypeInvInit, SerialInvInit
<1>2. (TypeInv /\ SerialInv) /\ [Next]_vars => (TypeInv /\ SerialInv)'
  BY TypeInvStep, SerialInvStep
<1> QED  BY <1>1, <1>2, PTL DEF Spec

(* When requests follow each other, a task that runs uncancelled is the    *)
(* registered one: a pause, a stop and the shutdown reach it.  Two resumes *)
(* that overlap start two tasks and register one, which is what the        *)
(* hypothesis excludes.                                                    *)
THEOREM EveryRunIsRegistered ==
  ASSUME Serial
  PROVE  Spec => []RunningIsRegistered
<1>0. Spec => [](TypeInv /\ SerialInv)  BY SerialCorrect
<1>1. SerialInv => RunningIsRegistered
  <2> SUFFICES ASSUME SerialInv, NEW t \in Tasks,
                      Live(t), ~task[t].cancel, task[t].pc # "unwinding"
               PROVE  registry = t
    BY DEF RunningIsRegistered
  <2>1. Reached(t) /\ \A r \in Requests : PlaceOf(r)  BY DEF SerialInv
  <2> QED  BY <2>1 DEF Reached, PlaceOf
<1> QED  BY <1>0, <1>1, PTL

(* When requests follow each other, a stopped investigation has no task    *)
(* once the requests are answered, and a paused one has none but what a    *)
(* resume answered with 500 has started, whatever the tasks did when they  *)
(* were cancelled, across failures of the database and restarts.           *)
THEOREM PauseAndStopEndTheRun ==
  ASSUME Serial
  PROVE  Spec => []RestIsQuiet
<1>0. Spec => [](TypeInv /\ SerialInv)  BY SerialCorrect
<1>1. SerialInv => RestIsQuiet
  <2> SUFFICES ASSUME SerialInv, AllAnswered, NEW t \in Tasks, Live(t)
               PROVE  /\ status # "cancelled"
                      /\ status = "paused" => \E r \in Requests :
                           req[r].pc = "raised" /\ req[r].want = "investigating" /\ req[r].on = t
    BY DEF RestIsQuiet
  <2>1. RestOf(t)  BY DEF SerialInv
  <2>2. \A r \in Requests : StartedBy(r, t) => req[r].pc = "raised"
    BY DEF AllAnswered, InFlight, Answered, StartedBy
  <2> QED  BY <2>1, <2>2 DEF RestOf, StartedBy
<1> QED  BY <1>0, <1>1, PTL

(* When requests follow each other, nothing a task, a request or a restart *)
(* still does overwrites the cancelled status: every task has ended by     *)
(* then, and a request that is under way asked to cancel.                  *)
THEOREM StoppedForGood ==
  ASSUME Serial
  PROVE  Spec => StopIsFinal
<1>0. Spec => [](TypeInv /\ SerialInv)  BY SerialCorrect
<1>1. ASSUME TypeInv, SerialInv, [Next]_vars, status = "cancelled"
      PROVE  status' = "cancelled"
  <2>1. \A r \in Requests : InFlight(r) => req[r].want = "cancelled"
    BY <1>1 DEF SerialInv, StatusOf
  <2>2. /\ \A r \in Requests : WantOf(r) /\ StatusOf(r)
        /\ process # "booting"
    BY <1>1 DEF SerialInv, Resting
  <2>3. Quiet
    BY <1>1 DEF SerialInv, RestOf, Quiet
  <2>4. ASSUME NEW t \in Tasks, TaskStep(t) PROVE FALSE
    BY <1>1, <2>3, <2>4, TaskEffects DEF Quiet
  <2>5. ASSUME NEW r \in Requests, RequestBegins(r) \/ RequestStep(r)
        PROVE  status' = "cancelled"
    <3>1. req[r].pc \in {"starting", "failing"} => FALSE
      BY <2>1, <2>2, TaskManagerAssumption DEF InFlight, Answered, WantOf
    <3> QED
      BY <1>1, <2>1, <2>5, <3>1
         DEF RequestBegins, RequestStep, CreateInvestigation, Read, StartInvestigation,
             ResumeInvestigation, PopAndCancel, BuildFails, BuildFailureWritten,
             CallWithoutTask, ResumeSkipped, TaskAwaited, ResumeAbandoned, WriteStatus,
             CommitRequest, CommitFails, SetInvestigationStatus, InFlight, Answered
  <2>6. ASSUME ProcessStep \/ Crash \/ ShutdownBegins PROVE status' = "cancelled"
    BY <1>1, <2>2, <2>6
       DEF ProcessStep, Crash, ShutdownBegins, ShutdownEnds, GoDown, BootIdle, BootSkips,
           BootFails, BootWrites, BootResumes, AutoResumes, _ACTIVE_STATUSES
  <2> QED  BY <1>1, <2>4, <2>5, <2>6 DEF Next, vars
<1>2. (TypeInv /\ SerialInv) /\ [Next]_vars
        => [status = "cancelled" => status' = "cancelled"]_vars
  BY <1>1
<1> QED  BY <1>0, <1>2, PTL DEF Spec, StopIsFinal
=============================================================================
