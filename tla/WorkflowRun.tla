----------------------------- MODULE WorkflowRun -----------------------------
(***************************************************************************)
(* One workflow run: its database row, and everyone who may execute it.    *)
(*                                                                         *)
(* backend/services/workflow_run_service.py, the run and resume routes of  *)
(* api/v1/workflows.py and the arq job execute_workflow_run.  An execution *)
(* is started by the run route itself (inline), by an attempt of the       *)
(* background job, or by an approver's resume request.  Each persists its  *)
(* outcome through an ORM session that writes only the columns whose value *)
(* differs from the one the session loaded.                                *)
(***************************************************************************)
EXTENDS WorkflowExecutor

CONSTANTS
  InlineExecs,   \* executions by the run route (background = false)
  JobExecs,      \* attempts of the arq job (background = true)
  Approvers,     \* resume requests
  Orgs,          \* the org's per-category autonomy levels over time
  MayCrash,      \* executions whose process may die before it is done
  RouteMayCrash, \* the run route may die between its commit and the enqueue
  BrokerMayAnswerLate, \* the enqueue may raise although the job was accepted
  Redeliver      \* arq delivers a job again when its worker died

ASSUME RunAssumption ==
  /\ Execs = InlineExecs \cup JobExecs \cup Approvers
  /\ InlineExecs \cap JobExecs = {} /\ InlineExecs \cap Approvers = {}
  /\ JobExecs \cap Approvers = {}
  /\ Orgs # {} /\ Orgs \subseteq [Fields -> Levels]
  /\ MayCrash \subseteq Execs
  /\ {RouteMayCrash, BrokerMayAnswerLate, Redeliver} \subseteq BOOLEAN

VARIABLES
  row,       \* the WorkflowRunRow
  seen,      \* seen[e]: the row as the session of e loaded it
  actor,     \* actor[e]: where the request or job of e is
  route,     \* the background branch of the run route
  job,       \* the arq job
  org,       \* the org's current per-category autonomy levels
  consented  \* ghost: the steps the run was paused at when an approver claimed it

runVars == <<row, seen, actor, route, job, org, consented>>
vars == <<execVars, runVars>>

Statuses == {"none", "running", "paused", "succeeded", "failed"}

RowType ==
  [status : Statuses, paused : Steps \cup {None}, nodes : Seq(Steps),
   branch : [Steps -> BranchLabels \cup {None}], chain : Seq(Evidence),
   approved : SUBSET Steps]

NoRow == [status |-> "none", paused |-> None, nodes |-> << >>,
          branch |-> NoBranch, chain |-> << >>, approved |-> {}]

-----------------------------------------------------------------------------
(* _run_capture: what leaves execute() becomes an outcome. *)

RootDone(e) == walker[e][Root].pc \in {"done", "raised"}

OutcomeStatusUnmapped(e) == walker[e][Root].pc

OutcomeStatus(e) ==
  IF walker[e][Root].pc = "done" THEN "succeeded" ELSE walker[e][Root].exc.kind

(* paused_node_id *)
OutcomePaused(e) == IF OutcomeStatus(e) = "paused" THEN walker[e][Root].exc.step ELSE None

(* A failed execution hands back no outputs, but all of the evidence. *)
OutcomeNodes(e) == IF OutcomeStatus(e) = "failed" THEN << >> ELSE mem[e].nodes

OutcomeBranch(e) == IF OutcomeStatus(e) = "failed" THEN NoBranch ELSE mem[e].branch

(* flush: an UPDATE of the columns that differ from what was loaded.  The  *)
(* outputs column may differ in data the model leaves out: then the branch *)
(* fields in it are written too.                                           *)
Flush(e, new, rewritten) ==
  [f \in DOMAIN row |->
     IF new[f] # seen[e][f] \/ f \in rewritten THEN new[f] ELSE row[f]]

Rewrites == SUBSET {"branch"}

(* The row as the run route or the job wants it after an execution. *)
FreshRow(e) ==
  [status |-> OutcomeStatus(e), paused |-> OutcomePaused(e), nodes |-> OutcomeNodes(e),
   branch |-> OutcomeBranch(e), chain |-> mem[e].chain, approved |-> seen[e].approved]

(* The row as resume_run wants it: a failed attempt keeps the checkpoint.  *)
ResumedRowForgets(e) == [FreshRow(e) EXCEPT !.approved = mem[e].approved]

ResumedRowKeepsPause(e) ==
  [FreshRow(e) EXCEPT
     !.nodes = IF OutcomeStatus(e) = "failed" THEN seen[e].nodes ELSE @,
     !.branch = IF OutcomeStatus(e) = "failed" THEN seen[e].branch ELSE @,
     !.paused = None,
     !.approved = mem[e].approved]

ResumedRow(e) ==
  [FreshRow(e) EXCEPT
     !.nodes = IF OutcomeStatus(e) = "failed" THEN seen[e].nodes ELSE @,
     !.branch = IF OutcomeStatus(e) = "failed" THEN seen[e].branch ELSE @,
     !.approved = mem[e].approved]

-----------------------------------------------------------------------------
(* The run route. *)

Untouched == row.status = "none" /\ route = "idle" /\ \A e \in Execs : actor[e] = "idle"

(* execute_version: the engine runs inside the request, before any row exists. *)
RunInline(e) ==
  /\ e \in InlineExecs
  /\ Untouched
  /\ Begin(e, << >>, NoBranch, {}, << >>, org)
  /\ actor' = [actor EXCEPT ![e] = "live"]
  /\ UNCHANGED <<row, seen, route, job, org, consented>>

(* execute_version persists the run's first row. *)
InsertRun(e) ==
  /\ e \in InlineExecs
  /\ actor[e] = "live"
  /\ RootDone(e)
  /\ row' = FreshRow(e)
  /\ actor' = [actor EXCEPT ![e] = "ended"]
  /\ UNCHANGED <<execVars, seen, route, job, org, consented>>

(* create_pending_run, committed before the job is queued. *)
CreatePendingRun ==
  /\ JobExecs # {}
  /\ Untouched
  /\ row' = [NoRow EXCEPT !.status = "running"]
  /\ route' = "enqueuing"
  /\ UNCHANGED <<execVars, seen, actor, job, org, consented>>

(* The broker accepts the job. *)
Accept ==
  /\ route = "enqueuing"
  /\ job = "none"
  /\ job' = "queued"
  /\ UNCHANGED <<execVars, row, seen, actor, route, org, consented>>

(* enqueue_job returns, and so does the route. *)
Enqueued ==
  /\ route = "enqueuing"
  /\ job # "none"
  /\ route' = "done"
  /\ UNCHANGED <<execVars, row, seen, actor, job, org, consented>>

(* enqueue_job raises: the row is marked failed and committed. *)
EnqueueRaises ==
  /\ route = "enqueuing"
  /\ job = "none" \/ BrokerMayAnswerLate
  /\ row' = [row EXCEPT !.status = "failed"]
  /\ route' = "done"
  /\ UNCHANGED <<execVars, seen, actor, job, org, consented>>

RouteCrashes ==
  /\ RouteMayCrash
  /\ route = "enqueuing"
  /\ route' = "done"
  /\ UNCHANGED <<execVars, row, seen, actor, job, org, consented>>

-----------------------------------------------------------------------------
(* The arq job execute_workflow_run and execute_pending_run. *)

JobDelivered(e) == e \in JobExecs /\ actor[e] = "idle" /\ job = "queued"

SkipRunRedelivered(e) ==
  /\ JobDelivered(e)
  /\ row.status # "running" \/ \E f \in JobExecs : actor[f] = "gone"
  /\ actor' = [actor EXCEPT ![e] = "ended"]
  /\ job' = "acked"
  /\ UNCHANGED <<execVars, row, seen, route, org, consented>>

(* The run is no longer running: nothing to do, and the job is acknowledged. *)
SkipRun(e) ==
  /\ JobDelivered(e)
  /\ row.status # "running"
  /\ actor' = [actor EXCEPT ![e] = "ended"]
  /\ job' = "acked"
  /\ UNCHANGED <<execVars, row, seen, route, org, consented>>

(* The workflow or version row disappeared before execution. *)
FailRun(e) ==
  /\ JobDelivered(e)
  /\ row.status = "running"
  /\ row' = [row EXCEPT !.status = "failed"]
  /\ actor' = [actor EXCEPT ![e] = "ended"]
  /\ job' = "acked"
  /\ UNCHANGED <<execVars, seen, route, org, consented>>

(* The status stays running while the engine works: there is no claim. *)
ExecutePendingRun(e) ==
  /\ JobDelivered(e)
  /\ row.status = "running"
  /\ Begin(e, << >>, NoBranch, {}, << >>, org)
  /\ seen' = [seen EXCEPT ![e] = row]
  /\ actor' = [actor EXCEPT ![e] = "live"]
  /\ job' = "taken"
  /\ UNCHANGED <<row, route, org, consented>>

PersistPendingRun(e) ==
  /\ e \in JobExecs
  /\ actor[e] = "live"
  /\ RootDone(e)
  /\ \E rewritten \in Rewrites : row' = Flush(e, FreshRow(e), rewritten)
  /\ actor' = [actor EXCEPT ![e] = "committed"]
  /\ UNCHANGED <<execVars, seen, route, job, org, consented>>

(* arq removes the job from its queue after the coroutine returned. *)
Ack(e) ==
  /\ e \in JobExecs
  /\ actor[e] = "committed"
  /\ actor' = [actor EXCEPT ![e] = "ended"]
  /\ job' = "acked"
  /\ UNCHANGED <<execVars, row, seen, route, org, consented>>

-----------------------------------------------------------------------------
(* The resume route and resume_run. *)

ClaimWhileUnfinished == row.status \in {"paused", "running"}

Claimable == row.status = "paused"

(* The conditional UPDATE paused -> running, committed at once. *)
Claim(e) ==
  /\ e \in Approvers
  /\ actor[e] = "idle"
  /\ Claimable
  /\ row' = [row EXCEPT !.status = "running"]
  /\ consented' = consented \cup {row.paused}
  /\ actor' = [actor EXCEPT ![e] = "claimed"]
  /\ UNCHANGED <<execVars, seen, route, job, org>>

(* No row matched the UPDATE: 409. *)
ClaimRefused(e) ==
  /\ e \in Approvers
  /\ actor[e] = "idle"
  /\ row.status # "none" /\ ~Claimable
  /\ actor' = [actor EXCEPT ![e] = "ended"]
  /\ UNCHANGED <<execVars, row, seen, route, job, org, consented>>

(* The row is refreshed; without a paused step the request is refused, and *)
(* the run stays claimed.                                                  *)
ResumeRefused(e) ==
  /\ actor[e] = "claimed"
  /\ row.paused = None
  /\ actor' = [actor EXCEPT ![e] = "ended"]
  /\ UNCHANGED <<execVars, row, seen, route, job, org, consented>>

(* The checkpoint is rehydrated and the engine walks on from it. *)
NoPriorEvidence == << >>

PriorEvidence == row.chain

ApprovedSteps == row.approved \cup {row.paused}

ResumeRun(e) ==
  /\ actor[e] = "claimed"
  /\ row.paused # None
  /\ Begin(e, row.nodes, row.branch, ApprovedSteps, PriorEvidence, org)
  /\ seen' = [seen EXCEPT ![e] = row]
  /\ actor' = [actor EXCEPT ![e] = "live"]
  /\ UNCHANGED <<row, route, job, org, consented>>

PersistResumedRun(e) ==
  /\ e \in Approvers
  /\ actor[e] = "live"
  /\ RootDone(e)
  /\ \E rewritten \in Rewrites : row' = Flush(e, ResumedRow(e), rewritten)
  /\ actor' = [actor EXCEPT ![e] = "ended"]
  /\ UNCHANGED <<execVars, seen, route, job, org, consented>>

-----------------------------------------------------------------------------
(* The environment. *)

(* The process of e dies, or the request or job is cancelled: nothing more *)
(* is persisted.  arq gives up a job that timed out and delivers one whose *)
(* worker died again.                                                      *)
Crash(e) ==
  /\ e \in MayCrash
  /\ actor[e] \in {"claimed", "live", "committed"}
  /\ Kill(e)
  /\ actor' = [actor EXCEPT ![e] = "gone"]
  /\ IF e \in JobExecs
       THEN job' \in {"acked"} \cup (IF Redeliver THEN {"queued"} ELSE {})
       ELSE UNCHANGED job
  /\ UNCHANGED <<mem, fired, returned, row, seen, route, org, consented>>

(* A manager edits the org's integration autonomy. *)
SetAutonomy ==
  /\ org' \in Orgs
  /\ UNCHANGED <<execVars, row, seen, actor, route, job, consented>>

-----------------------------------------------------------------------------
Init ==
  /\ row = NoRow
  /\ seen = [e \in Execs |-> NoRow]
  /\ actor = [e \in Execs |-> "idle"]
  /\ route = "idle"
  /\ job = "none"
  /\ org \in Orgs
  /\ ExecInit(org)
  /\ consented = {}

Walk(e, w) == WalkStep(e, w) /\ UNCHANGED runVars

Service(e) ==
  \/ RunInline(e) \/ InsertRun(e)
  \/ SkipRun(e) \/ FailRun(e) \/ ExecutePendingRun(e) \/ PersistPendingRun(e) \/ Ack(e)
  \/ Claim(e) \/ ClaimRefused(e) \/ ResumeRefused(e) \/ ResumeRun(e) \/ PersistResumedRun(e)

Route == CreatePendingRun \/ Accept \/ Enqueued \/ EnqueueRaises \/ RouteCrashes

Next ==
  \/ \E e \in Execs, w \in Steps : Walk(e, w)
  \/ \E e \in Execs : Service(e)
  \/ Route
  \/ \E e \in Execs : Crash(e)
  \/ SetAutonomy

Spec == Init /\ [][Next]_vars

-----------------------------------------------------------------------------
(* Correctness. *)

TypeOK ==
  /\ ExecTypeOK(Orgs)
  /\ row \in RowType
  /\ seen \in [Execs -> RowType]
  /\ actor \in [Execs -> {"idle", "claimed", "live", "committed", "ended", "gone"}]
  /\ route \in {"idle", "enqueuing", "done"}
  /\ job \in {"none", "queued", "taken", "acked"}
  /\ org \in Orgs
  /\ consented \subseteq Steps \cup {None}

Holding(e) == actor[e] \in {"claimed", "live"}

(* At most one request or job works on the run at any time: the atomic     *)
(* claim of resume_run keeps racing approvers out of the engine.           *)
ExclusiveExecution == \A e, f \in Execs : Holding(e) /\ Holding(f) => e = f

(* No step's Node.run is started twice, whatever the number of pauses,     *)
(* approvers and crashed processes: the promise of the resume fast path    *)
(* and of the claim.                                                       *)
FiredAtMostOnce == \A s \in Steps : fired[s] <= 1

(* A hitl_gate step, a containment node and a hitl_required capability are *)
(* run only when the run was paused at exactly that step and an approver   *)
(* claimed it there, under every autonomy level and every edit of it.      *)
GateConsent ==
  \A s \in Nodes : fired[s] > 0 /\ AlwaysGated(NodeOf[s]) => s \in consented

(* An approval never carries a capability past the egress policy of the    *)
(* connector manifest: a refused step is never run.                        *)
EgressRespected == \A s \in Nodes : fired[s] > 0 => ~PolicyRefuses(NodeOf[s], ActiveTlp)

(* A paused row names the step it waits at, that step has not completed    *)
(* and nobody holds the run: the next resume request can act on it.        *)
PausedIsResumable ==
  row.status = "paused" =>
    /\ row.paused \in Steps
    /\ row.paused \notin RangeOf(row.nodes)
    /\ \A e \in Execs : ~Holding(e)

(* execute_pending_run is idempotent against redelivery: an attempt that   *)
(* enters the engine found a row no earlier attempt had an outcome on.     *)
JobStartsFresh ==
  \A e \in JobExecs : actor[e] = "live" => seen[e].paused = None /\ seen[e].chain = << >>

(* Whatever the queue redelivers, nothing that always needs a human is run *)
(* in a run that no human has approved anything of.                        *)
NoUnattendedContainment ==
  (\E s \in Nodes : fired[s] > 0 /\ AlwaysGated(NodeOf[s])) => consented # {}

Occurrences(seq, s) == Cardinality({i \in DOMAIN seq : seq[i].step = s})

(* Whenever the row is at rest its evidence chain holds exactly one record *)
(* per successful node run of the whole run, failed resumes included.      *)
EvidenceComplete ==
  row.status \in {"paused", "succeeded", "failed"} =>
    \A s \in Steps : Occurrences(row.chain, s) = returned[s]

(* The audit trail never records an execution that did not happen, however *)
(* many executions resume, reuse and overwrite one another's records.      *)
EvidenceSound == \A s \in Steps : Occurrences(row.chain, s) <= returned[s]

IsPrefixOf(a, b) == Len(a) <= Len(b) /\ \A i \in DOMAIN a : a[i] = b[i]

(* No step of anyone loses what the row recorded: evidence, completed      *)
(* steps and approvals only grow, also when a resumed execution fails.     *)
CheckpointPreserved ==
  [][/\ IsPrefixOf(row.chain, row'.chain)
     /\ IsPrefixOf(row.nodes, row'.nodes)
     /\ row.approved \subseteq row'.approved]_vars

(* Where the run stands, seen from outside: a run whose engine works inside *)
(* the launching request has no row yet.                                   *)
Phase ==
  CASE row.status = "none" -> IF \A e \in Execs : actor[e] = "idle" THEN "new" ELSE "held"
    [] row.status = "running" -> "held"
    [] row.status = "paused" -> "waiting"
    [] OTHER -> "over"

(* The run refines the promise of RunProtocol. *)
Protocol == INSTANCE RunProtocol WITH phase <- Phase, effects <- fired

ImplementsProtocol == Protocol!Spec

(* Progress the event loop, the worker and the connectors' own timeouts    *)
(* give: every started coroutine goes on, a queued job is picked up and    *)
(* Node.run ends one way or the other.  No human is obliged to approve.    *)
Fairness ==
  /\ \A e \in Execs, w \in Steps : WF_vars(Walk(e, w))
  /\ \A e \in Execs :
       /\ WF_vars(InsertRun(e))
       /\ WF_vars(SkipRun(e) \/ FailRun(e) \/ ExecutePendingRun(e))
       /\ WF_vars(PersistPendingRun(e))
       /\ WF_vars(ResumeRun(e) \/ ResumeRefused(e))
       /\ WF_vars(PersistResumedRun(e))
  /\ WF_vars(Accept \/ EnqueueRaises)

FairSpec == Spec /\ Fairness

(* A run that is being executed comes to rest: it succeeds, fails or waits *)
(* for a human; it is never left running with nobody working on it.        *)
ComesToRest == (row.status = "running") ~> (row.status # "running")

(* A background run comes to its first rest although its worker dies and    *)
(* the job is delivered again, and although the broker answers late: only a *)
(* job that arq gave up leaves its run running.                             *)
GivenUp == job = "acked" /\ \A e \in JobExecs : actor[e] \in {"idle", "gone"}

FirstRestReached ==
  (row.status = "running") ~>
    (row.status # "running" \/ GivenUp \/ \E e \in Approvers : actor[e] # "idle")
=============================================================================
