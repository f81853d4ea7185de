# BTagent in TLA+

BTagent is a security-operations agent platform. Its *workflow runs* walk a compiled
graph and call connectors (isolate a host, block an address, share an indicator), its
*investigations* run an agent graph as a background task, its *playbook executions* stop
at human gates, and its *containment actions* are executed one by one on request. They
may be paused, approved, resumed, stopped and interrupted by a dying process, and must
never do something destructive that nobody approved, or do it twice. What they do is
written to one hash-chained *audit trail* and shown to analysts through one *WebSocket
hub*. This directory models those mechanisms, the policy that decides what needs a human,
and the concurrency and failures around them.

## 1. Inventory

| Component | State it keeps | Operations | Talks to |
|---|---|---|---|
| **Workflow executor** `engine/runtime/executor.py`, `state.py`, `compiler/workflow.py` | per execution: `WorkflowState` (outputs, `nodes_executed`), completed prefix, `ctx.metadata` | `execute`, `_walk`, `_run_parallel`, routing, step cap | middleware chain around each node |
| **Approval and egress middleware** `engine/middleware/{base,hitl,connector_policy,evidence_chain}.py` | evidence list | `before_run`, `after_run`, `requires_approval`, `step_is_approved` | reads `ctx.metadata`, autonomy, TLP |
| **Workflow run service, routes and job** `backend/services/workflow_run_service.py`, `api/v1/workflows.py`, `scheduler/jobs.py` | the `workflow_runs` row | `execute_version`, `create_pending_run`, `execute_pending_run`, `resume_run` | executor, database, arq queue |
| **Org autonomy policy** `backend/services/autonomy_service.py`, `api/v1/config.py`, `shared/types/config.py` | stored overrides | `set_overrides`, `get_effective_autonomy` | read by runs and investigations |
| **Agents' HITL hook** `agents/hooks/hitl_hook.py` | none | `requires_approval` for a tool | the agents-side twin of the engine policy |
| **Investigation task manager** `backend/services/task_manager.py`, `api/v1/investigations.py`, `middleware/commit_before_response.py`, `main.py` | registry of asyncio tasks, the `investigations` row | start, pause, resume, stop, `auto_resume`, `shutdown`, `_run_graph` | graph, database, request session |
| **Investigation graph** `agents/orchestrator/` | LangGraph state and in-memory checkpoints | supersteps | invoked by the task manager |
| **WebSocket hub** `backend/ws/{hub,protocol,routes}.py`, `services/tlp_alert_sink.py`, `notification_service.py`, `agents/events/emitter.py` | connections per user, subscriptions, one bounded queue and sender per client, one lock, one listener | `connect`, `subscribe`, `unsubscribe`, `disconnect`, `publish`, `_dispatch`, `_enqueue`, `_sender_loop`, `stop` | Redis pub/sub, sockets |
| **Audit trail** `backend/services/audit_trail.py` | the `audit_logs` chain | `record`, verification | every request that acts |
| **Containment execution** `backend/services/containment_execute_service.py`, `response_safelist_service.py`, `api/v1/containment.py` | safelist rows | `execute_response_action`, `execute_bulk_block`, `add_entry`, `remove_entry` | connectors, change tickets, audit trail |
| **Playbook service** `backend/services/playbook_service.py`, `api/v1/playbooks.py` | the `playbook_executions` row, the playbook's YAML | `execute_playbook`, `_run_execution_stub`, `resolve_hitl_gate`, `update_playbook` | database, background tasks |
| **Playbook executor** `agents/playbook/executor.py` | none: nothing starts it | compile to a graph | |
| **MCP tool registry** `agents/mcp/registry.py` | circuit breaker per server | call, trip, probe | tool servers |
| **Workflow versions** | rows | draft, publish, deprecate | database |
| **Workflow compiler**, **condition language** | none | pure functions | feed the executor |
| **Hunting, TAXII, auth, connectors, UI** | rows, Redis keys | I/O and catalogue code | external services |

`PROJECT.json` lists each with its source files and whether it is modelled.

What is hard here, and what each part must guarantee:

- *Workflow runs.* Several approvers, the request that launched the run, an arq job that
  may be redelivered and an enqueue whose answer may be lost all work on one row; inside
  one execution parallel branches interleave over a shared context; a run pauses and
  resumes any number of times while the org's policy is edited. Correct means: one
  executor at a time, every side effect at most once, nothing gated runs without consent
  for exactly that step, nothing the egress policy refuses runs at all, the audit chain
  and the checkpoint are never lost, and a run comes to rest.
- *Policy.* Two hand-kept token maps scanned in order by substring. Correct means:
  containment is gated in both whatever is stored, autonomy is monotone, both agree.
- *Investigations.* Every `await` is a point where a cancellation, another request or
  another task may come in; routes commit their own status after the task manager wrote
  its own; the process may die. Correct means: at most one task, every running task
  reachable through the registry, a paused or stopped case is quiet, a stop is final,
  every request is answered and a restart picks up what was active.
- *Hub.* One listener serves everybody, an event travels in two copies that are matched to
  clients at two moments, queues overflow, sockets stall, the global stream carries every
  tenant. Correct means: bounded queues without losing what is critical to what is not,
  each event once and in order, never to another tenant, and nobody waits for a slow socket.
- *Audit and containment.* Requests with a transaction of their own race for the head of
  the chain and for the safelist, and may lose or die after the connector has acted.
  Correct means: the chain never forks, what is answered with success is on it and
  truthfully, and a target that is protected throughout is not touched.
- *Playbook gates.* Every walk is a task with its own copy of the results; decisions may
  overlap and the playbook may be edited meanwhile. Correct means: no step runs before its
  gate is approved, one decision starts one walk, work is not undone, and a run ends.

The full list, at the lines where each bites, is `hazards` in `PROJECT.json`.

## 2. Modules

| Module | Models |
|---|---|
| `WorkflowPolicy` | the pure approval and egress policy (engine and agents) and the `before_run` chain |
| `WorkflowExecutor` | one or more executions of one workflow graph; EXTENDS `WorkflowPolicy` |
| `RunProtocol` | abstract: what a run promises to the people who launch and approve it |
| `WorkflowRun` | the run's row and everybody who executes it; EXTENDS `WorkflowExecutor`, refines `RunProtocol` |
| `AutonomyPolicy` | the org's stored overrides and the policies derived from them; EXTENDS `WorkflowPolicy` |
| `TaskManager` | one investigation: row, tasks, registry, requests and process |
| `WebSocketHub` | the hub's connections, queues, listener and publishers |
| `AuditLog` | abstract: an append-only log whose entries carry the hash of the one before |
| `AuditTrail` | the hash-chained log and the transactions that append to it; refines `AuditLog` |
| `ContainmentExecution` | containment requests and the safelist; EXTENDS `AuditTrail`, every request is a writer |
| `PlaybookGates` | one playbook execution, its walks and the decisions on it |
| `MC*` | graphs, node classes, ids, policies, events and requests for TLC |
| `WorkflowRunProofs` | theorems about a run that holds for any graph: types, exclusion, consent, egress |
| `RunRecordProofs` | theorems about the checkpoint and the audit records; EXTENDS `WorkflowRunProofs` |
| `RunProtocolProofs` | at most one firing, complete evidence, the refinement of `RunProtocol`; EXTENDS `RunRecordProofs` |
| `AutonomyPolicyProofs`, `TaskManagerProofs`, `WebSocketHubProofs`, `ContainmentProofs`, `PlaybookGatesProofs` | theorems about the module of that name (`ContainmentProofs`: of `ContainmentExecution` and `AuditTrail`) |

### WorkflowPolicy

A node id is the set of map tokens that occur in it, which is all the code reads of it;
levels `L0..L4` and TLPs are their indices. `BeforeRun` is the chain built by
`_build_middleware_chain` in registration order: HITL (integration nodes), explicit gate,
connector policy (unresolved capability, TLP, `hitl_required`). It answers `run`, `pause`
or `refuse`.

### WorkflowExecutor

`mem[e]` is the `WorkflowState`, context and evidence list of execution `e`;
`walker[e][w]` a call of `_walk` named by the step it starts at. One iteration of the
`while` loop is one action: `WalkAborts` (cap, unknown step), `Reuse` (resume fast path),
`PassThrough`, `PrepareFails` (everything that raises before the middleware: registry,
input building, templating, conditions), `GateStops`, `Fire`, and for a fork `Fork`,
`Merge` and `Propagate`. Node execution awaits only in `Node.run`, so passing the gates
and starting `Node.run` are one action, and its end is another (`Return`, `NodeRaises`).
`RaiseIn` is `asyncio.gather` without `return_exceptions`: the first exception reaches the
parent, the siblings go on. The merge of the gathered branches is a node's run as well: it
is one action when it succeeds (`Merge`) and may raise (`NodeRaises`), which is then not
counted as a start. Ghost counters `fired[s]` and `returned[s]` count starts and
successful ends of `Node.run` of step `s` over the life of the run.

Data left out: payloads, templates, condition expressions (a decision answers any of
`BranchLabels`), hashes of evidence records (a record is its execution and step).

### WorkflowRun

`row` is the `WorkflowRunRow` and `seen[e]` the copy an ORM session loaded, so that
`Flush` writes only changed columns, as SQLAlchemy does. `actor[e]` is where a request or
job is, `route` and `job` the background branch and the arq job, `org` the org's levels,
`consented` a ghost: the steps the run was paused at when it was claimed.

| Actions | Code |
|---|---|
| `RunInline`, `InsertRun` | `execute_version` |
| `CreatePendingRun`, `Accept`, `Enqueued`, `EnqueueRaises`, `RouteCrashes` | background branch of the run route |
| `SkipRun`, `FailRun`, `ExecutePendingRun`, `PersistPendingRun`, `Ack` | `execute_pending_run` in `execute_workflow_run` |
| `Claim`, `ClaimRefused`, `ResumeRefused`, `ResumeRun`, `PersistResumedRun` | `resume_run` and its route |
| `SetAutonomy` | an edit of the org's policy, read at the start of each execution |
| `Crash` | the process of an execution dies, or the request or job is cancelled |

### AutonomyPolicy

`overrides` is the stored JSON; `PutAutonomy` replaces it with a valid set, `Drift` with
one the API would reject (a manual edit, an old schema). `Effective` is the merge. The
audit record `put_autonomy_config` appends belongs to the audit trail and is left out.

### TaskManager

Code between two awaits is one action. A task's `pc` follows `_run_graph`: `created`,
`setup`, `running`, `closing`, `announcing`, `post`, `failing`, `unwinding` (the `finally`
clause, which awaits the emitter's close before it pops the registry), `done`.
`CancelDelivered` throws `CancelledError` at whichever await the task is suspended in; a
status write it interrupts may or may not have reached the database. A request's `pc`
follows the route, the task manager's method and the commit that
`CommitBeforeResponseMiddleware` does afterwards: `called`, `awaiting` (a cancelled task),
`loading` (configuration and graph), `write` (the manager's own session), `commit`.
`SetInvestigationStatus` may fail silently when `DbMayFail`, and the request's commit may
raise (`CommitFails`, a 500): the route's status is rolled back, what the manager wrote in
its own session, and a task it started, stay. `agents` says whether the agents package can
be loaded: without it a create, a resume and a boot start nothing. It is chosen at the
start and anew for every process that follows. The process goes down by
`Crash` or `ShutdownBegins`/`ShutdownEnds` and comes up through `auto_resume` (`Boot*`).
The graph itself is what `ainvoke` can do: return a status, raise, or be cancelled.

`send_message` publishes to a channel that nothing in the repository reads, and
notification, indexing and memory recording swallow their exceptions and change nothing
the manager keeps, so they appear only as the step `TaskFinishes`.

### WebSocketHub

`conn`, `subs`, `queue` and `sender` are the fields of a `ConnectedClient` and the
membership maps of the hub, which mirror them; `wire` holds what Redis has for the
listener. `_enqueue` never suspends and taking a free asyncio lock does not either, so the
dispatch of one message is one action; `connect` holds the lock across `ws.accept()`, so
`Connect` takes it and `Accepted`/`NotAccepted` give it back. `Publish` is the send-side
gate and the copy for the investigation's channel, `PublishGlobal` the second copy, `Emit`
the agents' `RedisEmitter`, which skips both, `SendInapp` a notification. An event carries
what the hub reads of an envelope. The hub is `starting` until its listener has subscribed
(`ListenerSubscribes`): what is published before reaches nobody and is due to nobody. `Sent` takes one item and sends it: what a sender has
taken nobody else touches. `due` and `dropped` are ghosts: what a client was entitled to
when it was published (cleared by a change of its subscription), and what backpressure
took. A critical event must yield to nothing but critical ones: `Enqueue` is `_enqueue`.
A publication refused for its TLP raises the alert of the sink, a fresh envelope for each
refusal: `HubAssumption` says so, with `alert` distinct for each refused event. `Criticals`
picks the critical items by their positions rather than with `SelectSeq`, of which the
provers know nothing; `MCWebSocketHub` compares the two.

### AuditTrail and ContainmentExecution

A request is a writer with a READ COMMITTED transaction. `ReadHead` sees committed rows,
`Insert` waits for a transaction that holds the same `seq`, `LoseRace` is the
`IntegrityError` behind the savepoint, with `record`'s retries, `CommitTx` and `RollbackTx`
end the transaction. `CommittedLog`, the committed rows in the order of `seq`, is the
refinement mapping to `AuditLog`: entries become visible in the order of their numbers
although transactions commit in any order. `ContainmentExecution` composes it with the two execute handlers
(`Approve`, `Screen`, `Dispatch` or `DispatchRefused`, `AttachChangeRecord`, `RecordStep`,
and `CommitBeforeAnswer` with `Answer` for a 2xx, or `Refuse` with the commit in `Teardown`
after a 403) and with the safelist (`AddEntry`, `InsertEntry`, `RemoveEntry`, `DeleteEntry`, which
see each other's rows and locks). `Raise` is every other end: the connector or the
database raises, or the process dies. Between the commit and the send, `AnswerFails` leaves
a committed row and a client without an answer. `effects` is a ghost (the connector acted), and so is
`shielded` (the target was protected at every moment since the request arrived).

### PlaybookGates

`walk[w]` is one `_run_execution_stub` task with its copy of the results, which each of its
writes stores whole; `decision[d]` a request to the decision route: `Load` checks the row
it has read, `Write` is the commit, `Resume` loads the playbook as it is stored by then and
creates the next task. A gate that waits is marked `awaiting` (`awaiting_approval` in the
step's output). `WalkRaises` is a write of a walk that raises: nothing catches it, nobody
awaits the task, and the row stays as it was. `DecisionRaises` is a commit that raises, or
the refresh or the load of the playbook after it. A walk that ended without its last write,
and a decision that set the run running and started no walk, are `lost`. `StepsUntilGate` is `steps_until_gate`. When two steps are marked, which
only overlapping decisions can bring about, the model takes either and the code the first.

## 3. Runs

Configurations are `<module>_<name>.cfg`; `PROJECT.json` names the run of each.

### Passing

| Run | Instance | Shows |
|---|---|---|
| `run_sequential` | a graph with a decision, gate, containment and an egress-refused step; an inline execution or an arq job, three approvers, policy edits; route, worker and one approver may crash | types, exclusive execution, at most one firing, egress, resumability, complete evidence, preserved checkpoint, refinement of `RunProtocol` |
| `run_fork` | two branches with a containment each, joining at a decision whose branches end, name an unknown step or lead nowhere; two approvers, fairness | consent holds although branches share the context, and a run that is being executed comes to rest, whichever way it fails |
| `run_redelivery` | the job redelivered after its worker died, late broker answers, fairness | what still holds then: no containment in a run no human approved anything of, no audit record of an execution that did not happen, and a first rest of the run |
| `autonomy_policy` | ids of the repository's connectors and tools, valid and invalid edits, drifted rows | containment gated in both tiers, autonomy monotone, both tiers agree on ids both know |
| `task_serial` | three tasks, four requests one after the other, failing writes and commits, one restart, the agents package there or not | the running task is registered, no dead entry, quiet when paused or stopped, stop is final |
| `task_live` | two overlapping requests, one restart, the agents package there or not, fairness | every request is answered; a restart that can load the package recovers an active case |
| `hub` | from before the listener has subscribed, three scenarios: a fast global and a slow investigation socket that change subscriptions; two sockets of one user with a refused event, its alert and another tenant's event; failing Redis, sockets and server. Queue of two | bounded queues, the connection limit, each event once and in order, tenants apart, critical events yield only to critical ones, fast sockets are served |
| `containment_race` | four requests at once, in four mixes: actions on an account that others protect and remove, on a baseline address and on a host, approved or not; any may fail, after its commit as well | unforked chain, an append-only log (refinement of `AuditLog`), races lost only to committed rows, truthful rows for what was answered, protected targets untouched, every request and transaction ends |
| `playbook_gates` | two gates, three decisions, overlapping or not, up to two edits to definitions with other gates, a crash, writes of walks and decisions that raise | no step before its gate, one walk at a time, work kept; a run comes to rest unless the walk or the decision that had it in hand was lost |

### Violations (findings)

Each states what a comment or a doc of the repository says and shows the code doing
something else; the quotation is in `findings`.

| Run | What the counterexample is |
|---|---|
| `run_fork_refire` | one branch pauses while its sibling is inside `Node.run`; the outcome is captured without the sibling, which completes, and the resume runs it again |
| `run_redelivery_rerun` | worker dies after its commit, an approver claims (`running` again), the redelivered job passes the `status = running` guard and executes from the entry |
| `task_untracked` | a task's `finally` pops the entry of its successor |

`FiredAtMostOnce` and `RunningIsRegistered` are checked as passing where they hold (no
forks; requests that do not overlap) and as violated where they do not.

Behaviour of the code that the modelling brought up and that has no run of its own:

- After a redelivered job has run beside an approver, both sessions write only their
  changed columns. The row can end `paused` with no `paused_node_id`, which the comment in
  `resume_run` calls impossible, and the row an approver refreshes after the claim can be
  paused at another step than the one the claim matched (`PausedIsResumable` and
  `GateConsent` fail in the instance of `run_redelivery`).
- `_enforce_step_cap` compares `len(nodes_executed)`, and `record` adds a step once, so a
  cycle in a stored definition never reaches the cap. The compiler's definitions are
  acyclic.
- The engine's token map has `greynoise` and `shodan`, the agents' map has not:
  `PoliciesMirrored` is restricted to ids whose tokens both maps know.
- With overlapping requests a status write that is still in flight can replace
  `cancelled` (`StopIsFinal` fails when `Serial = FALSE`), and two resumes can start two
  tasks.
- A resume whose configuration or graph cannot be loaded, or that finds no agents package,
  starts no task, and the route's commit still stores `investigating`.
- A resume whose own status write is swallowed (`task_manager.py:967`) and whose commit then
  fails is answered with a 500: the row still says `paused`, its task runs, and a pause is
  answered 400. `RestIsQuiet` admits this row and no other.
- A boot that cannot load the agents package skips every active row with the database
  healthy (`task_manager.py:447`): they stay active and nobody works on them.
- With a pause or a stop under way the registry is empty before the cancelled task has
  ended, and a resume that comes in meanwhile starts another: `RestIsQuiet` is about
  requests that follow each other.
- A run whose route dies between its commit and the enqueue, or whose process dies after a
  claim, stays `running`: nothing looks for such rows. When the enqueue raises although
  the broker took the job, the row says `failed` while the worker executes it.
- The graph's nodes set no final status, so a completed investigation keeps an active one
  and `auto_resume` runs it again. Every graph is compiled with a `MemorySaver` of its own,
  so a resumed investigation starts over, although `pause_investigation` says it continues
  from the last checkpoint.
- In the mixed row above a resume can be claimed and then refused for want of a paused
  step, which leaves the run `running`: `FirstRestReached` is about the first rest only.
- *Hub.* `protocol.py` says critical events MUST be delivered; `_enqueue` trims the oldest
  of them when a queue holds nothing else. A client that subscribes between the two copies
  of an event gets neither, one that unsubscribes between them gets both. `start` returns
  before the listener has subscribed, and what is published until then is lost. An exception
  ends the listener for good. A handshake that hangs in `ws.accept` holds the lock, and
  every dispatch waits for it.
- *Containment.* "Nothing runs, and nothing is refused, without a row": an action whose
  append or commit fails, or whose process dies after the dispatch, leaves none. `_to_http`
  says a denial commits its row before the 4xx is sent; `CommitBeforeResponseMiddleware`
  commits below 400 only, and the commit of a 403 is the session's teardown, which runs
  after the response and may fail: the client then holds an audit id of no row. Conversely
  a success whose send fails after the commit leaves a row for a request that, for its
  client, was not answered. A host
  target is not screened at all, an entry added after the screen stops nothing, adding an
  entry is not audited, removing one twice is audited twice, and nothing keeps an
  `action_id` from being executed again.
- *Playbooks.* `resolve_hitl_gate` says a double submit cannot resume a run twice. Two that
  overlap both find it paused, and start two walks (`ResumedOnce` is about decisions that
  follow each other). After an edit, gates inserted in front of the decided one are
  skipped, moved steps are repeated, a decided gate that has become another step lets the run past
  the gates in front of it, and a removed one leaves the run running, as do a crash, a
  write of a walk that raises (`playbook_service.py:672`, `694`, `712`, `720`), and a refresh
  or a load that raises, or finds no playbook, after the decision's commit (`919`, `922`).

### Bounds, and why they are enough

- *Executions.* Three approvers: two racing for one pause, and one for the pause after
  it. Two job attempts: the first and its redelivery.
- *Graphs.* `Seq` has two successive gates (so approvals accumulate), a branch, and a
  step that is both gated and refused; `Fork` has a gate in both branches and a lookup
  that fires unattended beside a pause, and after the join a decision that may end, lead to
  a step that does not exist, or answer a branch that has no edge. `Root`, routing and
  gates read the graph through constants; the theorems hold for every graph.
- `MaxFires` bounds the starts of one node and is larger than what the property under
  check allows, so it never hides a violation. `MAX_STEPS` is the code's 500.
- *Policies.* A loose and a strict org level set, so that the lookup is gated under one
  and not under the other.
- *Tasks and requests.* A create, and three of pause, resume and stop, reach every pair
  of overlapping handlers in `task_untracked`; `task_live` has two requests, because
  liveness over a third exceeds two million states; three tasks allow a resume after a resume. `MaxDowns = 1`: the
  state after a restart is again an initial state of the registry. Tasks and requests are interchangeable
  (`SYMMETRY` in the safety runs).
- *Hub.* A queue of two is full after one event and one ack, so every branch of `_enqueue`
  is taken, the trim included; the limit of one socket per user makes two of them race.
  The scenarios keep apart what does not interact, and each ends by itself: an event is
  published once, a socket connects once.
- *Audit and containment.* Four writers lose up to three races each, one fewer than
  `record` forgives; giving up is then a lost connection (`Raise`), which rolls back alike.
- *Playbooks.* Two gates, so that a decision on the first and a walk to the second overlap;
  three decisions, so that two race for one gate and a third comes later; a walk each, and
  the first.
- `Serial`, `DbMayFail`, `MayCrash`, `RouteMayCrash`, `BrokerMayAnswerLate` and
  `Redeliver` choose which part of the environment a run exercises.
- `CHECK_DEADLOCK FALSE`: a finished run, and a case nobody makes requests on, stop.

### Fairness

`WorkflowRun!Fairness`: asyncio schedules every ready coroutine; `Node.run` ends because
connectors have time-outs and a failure is an outcome; arq picks up a queued job; an
enqueue is answered. Nobody is obliged to launch, approve or acknowledge. `ComesToRest`
is checked without crashes only: the code has no reaper for a run whose process died
after its claim.

`TaskManager!Fairness`: tasks, accepted requests and the process's own steps go on, for
the same reasons. Nobody is obliged to make a request or to shut down. `RestartRecovers`
needs a database that answers at boot (`DbMayFail = FALSE`), because `auto_resume` passes
over what it cannot load, and excepts a boot without the agents package.

`WebSocketHub!Fairness`: the event loop dispatches what Redis delivers, a handshake and a
publication end, and a socket that is not slow is sent to. `Slow` sockets, failures and
requests are under no obligation. `ContainmentExecution!FairSpec`: an accepted request goes
on until it ends; the awaits in it are database statements and calls with time-outs.
`PlaybookGates!FairSpec`: tasks and accepted decisions go on; failures and edits are under
no obligation. `ComesToRest` covers every setting, edits and overlap included: the one
exception is `Stranded`, a run whose walk or decision was lost, because nothing in the code
picks it up.

## 4. Proofs

TLAPS proves, for every graph, policy, safelist, set of playbook definitions and set of
executions, tasks, requests, sockets, events and writers, and for every bound of the code
(the queue's, the sockets of a user, the attempts of an append):

| Theorem | Assumes | Argument |
|---|---|---|
| `WorkflowRunProofs!TypeCorrect` | constants' assumptions | `TypeInv` strengthens `TypeOK`: a walker that runs a node stands at one, one that waits at a fork stands at a parallel node, and one that raised carries an exception. Without it the return of a node, the merge and the outcome of an execution have no type. |
| `WorkflowRunProofs!Exclusive` | `Redeliver = FALSE` | `ExclusiveInv`: besides the property, nobody holds a run that is paused, whose job still waits in the queue or is being enqueued. The claim's test of `paused` and the delivery of the job then exclude every other holder. |
| `WorkflowRunProofs!Consent` | `Redeliver = FALSE` | `ConsentInv`: every approval in a context, in the row or in a loaded row is one of the claimed steps, and while a request is between its claim and the refresh the row is paused at a claimed step (which needs `ExclusiveInv`). `GatePassedOnlyApproved` says an always-gated node passes `BeforeRun` only if its stamped step is approved; the stamp precedes the check in the same action, so branches sharing the context cannot leak an approval. |
| `WorkflowRunProofs!Egress` | constants' assumptions | inductive on its own: `BeforeRun` never answers `run` for a refused node. Holds with redelivery, too. |
| `RunRecordProofs!Sound` | constants' assumptions | `SoundInv`: the chain of the row and of every execution holds a step at most as often as it returned. A record is appended in the action in which `Node.run` returns, and every other step only copies a chain. Holds with redelivery and forks. |
| `RunRecordProofs!Unattended` | constants' assumptions | `UnattendedInv`: while nothing has been claimed nobody is between a claim and its refresh, and no approval is in a context, in the row or in a loaded row. Holds with redelivery. |
| `RunRecordProofs!FreshStart` | `Redeliver = FALSE` | `SessionInv`: what a live execution's session has loaded still agrees with the row in everything but the status, the row is a prefix of its memory, and the row is blank (`Blank`) until the job has been executed. It states `JobStartsFresh`, which `run_redelivery_rerun` violates with redelivery. |
| `RunRecordProofs!CheckpointKept` | `Redeliver = FALSE` | from `SessionInv`: `Flush` then writes a memory that extends the row, and every walk extends the memory (`Grows`). |
| `RunRecordProofs!Resumable` | `Redeliver = FALSE` | `AnsweredInv`: a step that paused is not one its execution has run, before the pause or after it, because what the gates answer depends on nothing that changes during an execution (`AnswerFixed`). `PausedInv`: a paused row names a step that is not among its executed ones. `SessionInv` links the two. |
| `RunProtocolProofs!AtMostOnce` | `Redeliver = FALSE`, `Acyclic`, `BranchesRunThrough` | `ForkInv`: the walkers of an execution form a `Tree`, each branch under the walker that forked it, which waits for it, has failed, or has gone on after the branch was done. Every walker only moves up in `Rank`, an order of the acyclic graph, and keeps to its part of it (`Owner`), so the steps it ran are behind it (`OrderedForks`); every step ever fired is in the memory of the execution, unless its walker is inside `Node.run` or has failed (`AccountedForks`). `Settled`: a run that pauses or succeeds has no branch under way, so the row it leaves holds every step fired. `Handover` sums up how an execution passes to the next one, `MoverTable` what a walk does. |
| `RunProtocolProofs!EvidenceKept` | `Redeliver = FALSE`, `BrokerMayAnswerLate = FALSE`, `Sequential` | `HeldInv`: while a job or an approver works on the run the row says `running`. `CompleteInv`: the chain of the live execution, and of a row at rest or claimed, has exactly one record for every return of a step. |
| `RunProtocolProofs!Implements` | `Redeliver = FALSE`, `BrokerMayAnswerLate = FALSE`, `Sequential`, `Acyclic` | step simulation under `HeldInv` and `ForkInv` (without forks the root is the only walker, `SequentialRunsThrough`; `QuietInv`: it walks only while its execution is live): every action of the detailed run is mapped to the action of `RunProtocol` it implements, or to a stutter. |
| `AutonomyPolicyProofs!ContainmentGated` | none, not even on the stored overrides | No invariant is needed: `ContainmentRecognised` finds the destructive entry in any map that ends with `ContainmentEntries`, whatever stands before it, so neither the scan order nor the overrides matter. It holds in every state, reachable or not. |
| `AutonomyPolicyProofs!MoreAutonomyFewerApprovals` | none, not even on the stored overrides | `EffectiveType`: the merge yields a level for every field. `ResolvedLevel`: the first match exists (`FirstExists`) and names a field, so every id resolves to a level. `TableAntitone`: the table only relaxes as the agent's level rises. |
| `AutonomyPolicyProofs!MapsMirrored` | no id has both `siem` and `sentinelone` | `FirstHit` and `NoHit`: what a first-match scan returns depends only on the tokens that occur and their order. The two maps list the tokens they share in the same order but for that one pair (`SameField`), and mark the same ones destructive (`SameDestructive`). |
| `TaskManagerProofs!TypeCorrect` | constants' assumptions | `TypeInv` adds that a closing task has a final status, that a request between its read and its commit has a wanted one, and that a process that is stopping has a restart left. |
| `TaskManagerProofs!RegistryIsLive` | constants' assumptions | `RegistryInv`: outside a shutdown the registered task is live *and uncancelled*, an unused task is uncancelled, and a process that is down has neither entry nor requests. A task that ends by itself pops the entry, whosever it is; one that ends without popping (cancelled before it started, or while unwinding) was cancelled, so it is not the registered one. |
| `TaskManagerProofs!EveryRunIsRegistered` | `Serial` | `SerialInv`: requests follow each other; a live task is registered, or the request that has unregistered and cancelled it waits for its end (`Reached`); a request that is about to start a task, or to store that the case rests, has found the registry empty and nobody fills it (`PlaceOf`). |
| `TaskManagerProofs!PauseAndStopEndTheRun` | `Serial` | from `SerialInv` (`RestOf`, `WantOf`): a case that is stopped has no task, and one that is paused only the task of a resume that is about to store its own status or whose commit has failed (`StartedBy`). |
| `TaskManagerProofs!StoppedForGood` | `Serial` | from `SerialInv`: a cancelled case has no task that could write, any request under way wants `cancelled`, too, and a boot takes up no case at rest. |
| `WebSocketHubProofs!TypeCorrect` | constants' assumptions | `TypeInv` adds to `TypeOK` that Redis holds on a channel only events of that channel, that a client follows only investigations it has access to, and that a socket past the access check of its route may follow the route's investigation. |
| `WebSocketHubProofs!WithinLimit` | constants' assumptions | `ConnInv`: a socket between the check of the limit and its registration holds the lock, so at that moment its user still has room. |
| `WebSocketHubProofs!QueuesBounded` | constants' assumptions | inductive on its own, with lemmas on what a drain, a trim and a refill leave: never more than was there, and one place less than the bound before the new message is put in. |
| `WebSocketHubProofs!Ordered` | constants' assumptions | `OrderInv`: the stream of a client (what it was sent and what it is to be sent) ascends, and no number exceeds the count of dispatches, so that a new event is the last. The order survives an overflow because what a queue keeps is a `Subsequence` of what it held; `ClientMove` sums up what any step does to a client's stream. |
| `WebSocketHubProofs!Isolated` | constants' assumptions | inductive with `TypeInv`: what `_dispatch` adds passed the filter of the channel it came through, and no step changes a client's tenant or access. |
| `WebSocketHubProofs!Exact` | constants' assumptions | `CopiesInv`: each of the two copies is on the wire at most once, the global one follows the other, the transcript is written with the first, and what is unpublished has left no trace; the alert of a refused event waits for the refusal. `DueInv`: a client that is entitled, and has not changed its subscription, is served by one copy, always the same (`Route`), and that copy is still coming, or in the stream once, or dropped, or lost with its publisher. `StartInv`: nothing is due to anybody before the listener has subscribed, so its subscription cannot leave a due event uncarried. |
| `WebSocketHubProofs!CriticalKept` | constants' assumptions | from `TypeInv`: `_enqueue` drops a critical message only where the critical ones alone overflow the queue. |
| `ContainmentProofs!TypeCorrect` | constants' assumptions | `TypeInv` adds that a log that is not empty has a last entry (what `NextSeqAndPrevHash` chooses), that a request about to append has an outcome, and that an open transaction holds at most one row. `AuditMove` sums up what any step does to the log. |
| `ContainmentProofs!AuditChainNeverForks` | constants' assumptions | `ChainInv`: the head a writer has read, and the row it has flushed, stay linked to the committed log, a flushed number is free, and no two open transactions hold the same number. The unique index gives the last two; the fresh read on every attempt gives the first. `StageInv` says that a transaction that holds a row does not start a second append. |
| `ContainmentProofs!LossesAreCommits` | constants' assumptions | `RaceInv`, with `ChainInv` and `TruthInv`: the committed entries bear the numbers 1 to their count (`Numbered`), so a number that is taken was committed after the writer read its head; the losses stay below that head and below the entries of others. Cardinalities are counted with the library's facts on finite sets. |
| `ContainmentProofs!ImplementsAuditLog` | constants' assumptions | step simulation under `ChainInv`, `TruthInv` and `RaceInv` (`LogInductive`): a commit adds exactly one row, whose number is the count of rows plus one (`CommitIsNext`) and whose hash is that of the row before (`CommitAppends`), and nothing else touches committed rows (`StepOfLog`). `LogIsSequence` says that the rows in the order of their numbers are a sequence. |
| `ContainmentProofs!AnswersAreAudited` | constants' assumptions | `TruthInv`: a row is committed only with its request's transaction, whether or not the answer is sent afterwards, says what the request is to answer, and is alone; before the append an action has reached the connector exactly if its outcome is not `denied`. |
| `ContainmentProofs!ProtectedIsUntouched` | constants' assumptions | `ShieldInv`: a request still shielded aims at a target that is protected now, so the screen refuses it, and one that has passed the screen is not shielded any more; a commit of a removal lifts the shields it makes untrue. |
| `PlaybookGatesProofs!TypeCorrect` | constants' assumptions | `TypeInv` adds that a step is finished only if one is pending and that the gate being decided is a step. |
| `PlaybookGatesProofs!GatesHold` | constants' assumptions; decisions may overlap, the playbook may be edited, the process may die, any write may raise | `WalkInv`: what a walk still has to do is a stretch of its definition with a gate at most at the end (`UntilGateStretch`, about `steps_until_gate`), and the way to it is free. `MarkInv`: while nobody has edited the playbook, a gate is marked awaiting, in the row and in every stale copy of its results, only where all gates in front of it are approved. `ApprovalInv`: a walk is resumed only after a stored approval. |
| `PlaybookGatesProofs!NeverResumedTwice` | constants' assumptions; the property is about decisions that follow each other | `TurnInv`: at most one walk or decision has the run in hand, and the status says which; a lost walk or decision has nothing in hand. |
| `PlaybookGatesProofs!NoWorkUndone` | constants' assumptions; the property is about decisions that follow each other on an unedited playbook | `KeptInv`, with `TurnInv` and `GateInv`: who has the run in hand holds the row's results, at most one gate is marked, and nothing behind it, or ahead of the walk, is completed. |

Every theorem has the same last step: the initial states satisfy an inductive invariant,
every step of `Next` and every stutter preserve it, and it implies the property. Type
correctness is proved first and is a conjunct of the hypothesis everywhere else. Where
many actions do the same to what an invariant reads, a lemma sums up what they do
(`WalkTable`, `RootTable`, `MoverTable`, `Handover`, `AuditMove`, `ClientMove`,
`CopyMove`), and the invariant is proved from the summary. TLC finds no violation of any
of the inductive invariants on the instances of the passing runs (those about graphs
without forks with two approvers, and with `Nat` in `Rank` and `Way` cut to the size of the
instance), nor of `ForkInv` on a graph of its own: a fork nested in a branch of another, a
decision in a branch, a gate before and one after the forks, and no branch that pauses.

The hypotheses beyond the assumptions on the constants:

- `Redeliver = FALSE`: arq delivers a job once. `run_redelivery_rerun` and
  `run_redelivery` are what happens when it does not; `Sound`, `Unattended` and `Egress`
  hold nevertheless.
- `Acyclic`: the compiler refuses a cycle (`_detect_cycles`, `compiler.py:302`), but nothing
  checks a stored definition, and a cycle visits a step again because only
  `nodes_executed` at the start of the execution is skipped.
- `BranchesRunThrough`: the steps can be parted among the walkers (branches of different
  forks start at different steps, no step is reached by two of them, a branch leaves its
  part only at its join), and no step of a branch can pause. Gates before, after and
  between forks, nested forks and failing branches are allowed. Both halves are needed:
  `run_fork_refire` is the counterexample when a branch pauses while a sibling is inside
  `Node.run`, and the compiler accepts a step that two branches reach, which both run.
- `Sequential` (no parallel node), for `EvidenceKept` and `Implements`: when one branch
  fails, `gather` raises without stopping the others, so a branch may act after the row
  says `failed`, which no record and no step of `RunProtocol` accounts for.
- `BrokerMayAnswerLate = FALSE`: an enqueue that raised has not queued the job. Otherwise
  the route marks a run `failed` that a worker executes, which is no step of
  `RunProtocol`.
- `Serial`: requests on one investigation follow each other. `task_untracked` is the
  counterexample to `EveryRunIsRegistered` when they overlap.

Only model-checked:

- Liveness (`ComesToRest` of runs and of playbooks, `FirstRestReached`,
  `EveryRequestAnswered`, `RestartRecovers`, `FastClientsServed`, `EveryRequestEnds`):
  fairness is outside what the prover supports.
- What a run does when branches pause or share steps: consent, egress, exclusion and the
  checkpoint are proved for every graph, but a firing at most once only under the
  hypotheses above.

`MapsMirrored` excludes one pair for a reason: the engine's map has `sentinelone` before
`siem` and the agents' map has them the other way round, so an id with both would be
classified differently when the two categories have different levels. No id of the
repository has both.

## 5. Not modelled

- The version a run executes is a constant; editing a draft while a run of it is paused
  is a hazard without a property so far.
- One backend process: several, each with its own registry, share the row.
- What an approver saw when clicking; the resume request names a run, not a step.
- Of the hub, the chat and HITL-response frames its read loop hands on, and heartbeats; of
  containment, how a target matches a safelist entry (an entry names one target) and what
  a connector does with the call; of playbooks, the audit row of a decision and how YAML is
  parsed into steps.
- Cron jobs, list and read routes, notification, formatting, prompts, UI.
- The components marked `not_modelled` in `PROJECT.json`, with their reasons.

## 6. Plan

Written, in order: policy, executor, run and its protocol, autonomy, task manager, hub,
audit trail and containment, playbook gates. Next:

1. `WorkflowVersions` composed with `WorkflowRun`: draft, publish, deprecate, edits while
   a run is paused; at most one published version.
2. `TaskManager` over a set of processes.
3. `CircuitBreaker` (closed, open, half-open) of the MCP tool registry.
4. The workflow compiler's graph checks against a reference definition over small
   playbooks.
5. Theorems for those modules; `EvidenceComplete` for graphs whose branches
   neither pause nor fail.
