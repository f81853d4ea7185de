-------------------------- MODULE WorkflowExecutor --------------------------
(***************************************************************************)
(* The workflow engine's graph walk (btagent_engine/runtime/executor.py):  *)
(* one call of WorkflowExecutor.execute is an execution e \in Execs.  An   *)
(* execution walks the compiled graph from its entry step; a parallel fork *)
(* adds one walker per branch, gathered with asyncio.gather.  A walker is  *)
(* named by the step it starts at.                                         *)
(*                                                                         *)
(* The await that suspends a walker is that of Node.run, so the gate check *)
(* and the start of Node.run (which is when its side effect may happen)    *)
(* are one action, Fire, and the return of Node.run is another, Return.    *)
(***************************************************************************)
EXTENDS WorkflowPolicy, FiniteSets

CONSTANTS
  Execs,         \* calls of WorkflowExecutor.execute
  Steps,         \* step ids that occur in the workflow, as a node or in an edge
  Nodes,         \* the ids that are nodes of it; another id is an unknown step
  NodeOf,        \* [Nodes -> node class]: its kind, and what WorkflowPolicy reads
  Edges,         \* the edges in declaration order: [source, target, label]
  BranchLabels,  \* what a DecisionNode may answer in its branch field
  MAX_STEPS,     \* step cap of the compiler, reused by the executor
  MaxFires,      \* bound on the runs of one node, for graphs with a cycle
  AgentAutonomy, \* the run's autonomy level, snapshotted on its row
  ActiveTlp,     \* the run's TLP, snapshotted on its row
  None           \* no step, no branch, no exception

Kinds == {"action", "gate", "decision", "parallel", "passthrough", "unregistered"}

ForkLabels == {"branch.0", "branch.1", "branch.2"}

Labels == {"next", "join"} \cup ForkLabels \cup BranchLabels

NodeType ==
  [kind : Kinds, integration : BOOLEAN, gate : BOOLEAN, id : SUBSET STRING,
   manifest : {"none", "unresolved", "capability"}, hitl : BOOLEAN, egress : Tlps]

ASSUME GraphAssumption ==
  /\ Steps # {} /\ Nodes \subseteq Steps
  /\ NodeOf \in [Nodes -> NodeType]
  /\ \A n \in Nodes : NodeOf[n].kind = "parallel" =>      \* class ParallelNode
        ~NodeOf[n].integration /\ ~NodeOf[n].gate /\ NodeOf[n].manifest = "none"
  /\ DOMAIN Edges \subseteq Nat
  /\ \A i \in DOMAIN Edges : Edges[i] \in [source : Steps, target : Steps, label : Labels]
  /\ None \notin Steps \cup BranchLabels
  /\ MAX_STEPS \in Nat /\ MaxFires \in Nat

VARIABLES
  mem,      \* mem[e]: WorkflowState, ctx.metadata and the evidence list of e
  walker,   \* walker[e][w]: the walker of e that started at step w
  fired,    \* fired[s]: how often Node.run of step s was started, by anyone
  returned  \* returned[s]: how often Node.run of step s returned an output

execVars == <<mem, walker, fired, returned>>

-----------------------------------------------------------------------------
(* Routing over the graph. *)

OutEdges(s) == {i \in DOMAIN Edges : Edges[i].source = s}

Labelled(s, labels) == {i \in OutEdges(s) : Edges[i].label \in labels}

(* The target of the first edge of a non-empty set of edges. *)
FirstTarget(I) == Edges[CHOOSE i \in I : \A j \in I : i <= j].target

FirstTargetOrNone(I) == IF I = {} THEN None ELSE FirstTarget(I)

(* _next_step: the first "next" edge, else the first edge whatever its label. *)
NextStep(s) ==
  IF Labelled(s, {"next"}) # {} THEN FirstTarget(Labelled(s, {"next"}))
  ELSE FirstTargetOrNone(OutEdges(s))

(* _next_parallel_step *)
NextParallelStep(s) == FirstTargetOrNone(Labelled(s, {"join"}))

BranchTargets(s) == {Edges[i].target : i \in Labelled(s, ForkLabels)}

(* Routing after step s, whose stored output has branch field b (None when *)
(* the node is not a decision); a decision needs an edge labelled b.       *)
Routable(s, b) == NodeOf[s].kind = "decision" => Labelled(s, {b}) # {}

Target(s, b) ==
  CASE NodeOf[s].kind = "decision" -> FirstTarget(Labelled(s, {b}))
    [] NodeOf[s].kind = "parallel" -> NextParallelStep(s)
    [] OTHER -> NextStep(s)

(* _find_entry_id: the one node without an incoming edge. *)
EntryCandidates == {n \in Nodes : \A i \in DOMAIN Edges : Edges[i].target # n}

HasEntry == \E s \in Nodes : EntryCandidates = {s}

(* The root walker's name; arbitrary when execute fails for want of an entry. *)
Root == IF HasEntry THEN CHOOSE s \in Nodes : EntryCandidates = {s}
        ELSE CHOOSE s \in Steps : TRUE

-----------------------------------------------------------------------------
(* Walkers and the exceptions that leave them. *)

Paused(s) == [kind |-> "paused", step |-> s]
Failed(s) == [kind |-> "failed", step |-> s]

Exceptions == [kind : {"paused", "failed"}, step : Steps \cup {None}]

WalkerType ==
  [pc : {"idle", "walk", "run", "fork", "done", "raised"}, at : Steps \cup {None},
   stop : Steps \cup {None}, parent : Steps \cup {None}, exc : Exceptions \cup {None}]

Idle == [pc |-> "idle", at |-> None, stop |-> None, parent |-> None, exc |-> None]

(* The loop test of _walk: a walk ends without a next step or at its join. *)
Arrive(w, t) == [w EXCEPT !.at = t, !.pc = IF t = None \/ t = w.stop THEN "done" ELSE "walk"]

(* An exception ends walker w. asyncio.gather hands the first one of the   *)
(* branches to the waiting parent and leaves the other branches running.   *)
RaiseIn(ws, w, x) ==
  [v \in Steps |->
     IF v = w THEN [ws[w] EXCEPT !.pc = "raised", !.exc = x]
     ELSE IF v = ws[w].parent /\ ws[v].pc = "fork" /\ ws[v].exc = None
       THEN [ws[v] EXCEPT !.exc = x]
     ELSE ws[v]]

Proceed(ws, w, s, b) ==
  IF Routable(s, b) THEN [ws EXCEPT ![w] = Arrive(@, Target(s, b))]
  ELSE RaiseIn(ws, w, Failed(s))

-----------------------------------------------------------------------------
(* WorkflowState, the context and the evidence list of one execution. *)

RangeOf(seq) == {seq[i] : i \in DOMAIN seq}

(* A record of the evidence chain; the hashes and the timestamp in it make *)
(* records of different executions differ, which exec stands for.          *)
Evidence == [exec : Execs, step : Steps]

MemType(Orgs) ==
  [nodes : Seq(Steps),                           \* nodes_executed, keys of outputs
   branch : [Steps -> BranchLabels \cup {None}], \* the branch field of the outputs
   completed : SUBSET Steps,                     \* _completed_steps
   approved : SUBSET Steps,                      \* ctx.metadata["approved_steps"]
   cur : Steps \cup {None},                      \* ctx.metadata["current_step_id"]
   chain : Seq(Evidence),                        \* evidence records, oldest first
   org : Orgs]                                   \* per-category autonomy levels

(* WorkflowState.record: an output is replaced, its place in the order kept. *)
RecordOutput(m, s, b) ==
  [m EXCEPT !.nodes = IF s \in RangeOf(m.nodes) THEN @ ELSE Append(@, s),
            !.branch[s] = b]

(* EvidenceChainMiddleware.after_run: one record per successful node run. *)
AppendEvidence(m, e, s) == [m EXCEPT !.chain = Append(@, [exec |-> e, step |-> s])]

NoBranch == [s \in Steps |-> None]

(* execute: snapshot the completed prefix, seed the approvals, find the    *)
(* entry and start the root walk.                                          *)
Begin(e, nodes, branch, approvedSteps, chain, org) ==
  /\ mem' = [mem EXCEPT ![e] =
       [nodes |-> nodes, branch |-> branch, completed |-> RangeOf(nodes),
        approved |-> approvedSteps, cur |-> None, chain |-> chain, org |-> org]]
  /\ walker' = [walker EXCEPT ![e] =
       [w \in Steps |->
          IF w # Root THEN Idle
          ELSE IF HasEntry THEN [Idle EXCEPT !.pc = "walk", !.at = Root]
          ELSE [Idle EXCEPT !.pc = "raised", !.exc = Failed(None)]]]
  /\ UNCHANGED <<fired, returned>>

-----------------------------------------------------------------------------
(* One iteration of _walk's loop, by walker w of execution e. *)

Here(e, w) == walker[e][w].at

UnderCap(e) == Len(mem[e].nodes) < MAX_STEPS

(* A step completed by the execution this one resumes. *)
NeverReusable(e, s) == FALSE

Reusable(e, s) == s \in mem[e].completed /\ s \in RangeOf(mem[e].nodes)

AtNode(e, w, kinds) ==
  /\ walker[e][w].pc = "walk"
  /\ UnderCap(e)
  /\ Here(e, w) \in Nodes
  /\ ~Reusable(e, Here(e, w))
  /\ NodeOf[Here(e, w)].kind \in kinds

RegularKinds == {"action", "gate", "decision"}

(* _enforce_step_cap and the unknown-step check. *)
WalkAbortsAtCap(e, w) ==
  /\ walker[e][w].pc = "walk"
  /\ ~UnderCap(e)
  /\ walker' = [walker EXCEPT ![e] = RaiseIn(@, w, Failed(Here(e, w)))]
  /\ UNCHANGED <<mem, fired, returned>>

WalkAborts(e, w) ==
  /\ walker[e][w].pc = "walk"
  /\ ~UnderCap(e) \/ Here(e, w) \notin Nodes
  /\ walker' = [walker EXCEPT ![e] = RaiseIn(@, w, Failed(Here(e, w)))]
  /\ UNCHANGED <<mem, fired, returned>>

(* The resume fast path: the stored output is reused and routed forward. *)
ReuseReaudited(e, w) ==
  /\ walker[e][w].pc = "walk"
  /\ UnderCap(e)
  /\ Here(e, w) \in Nodes
  /\ Reusable(e, Here(e, w))
  /\ mem' = [mem EXCEPT ![e] = AppendEvidence(@, e, Here(e, w))]
  /\ walker' = [walker EXCEPT ![e] =
                  Proceed(@, w, Here(e, w), mem[e].branch[Here(e, w)])]
  /\ UNCHANGED <<fired, returned>>

Reuse(e, w) ==
  /\ walker[e][w].pc = "walk"
  /\ UnderCap(e)
  /\ Here(e, w) \in Nodes
  /\ Reusable(e, Here(e, w))
  /\ walker' = [walker EXCEPT ![e] =
                  Proceed(@, w, Here(e, w), mem[e].branch[Here(e, w)])]
  /\ UNCHANGED <<mem, fired, returned>>

(* compiler.join and compiler.end are recorded and not executed. *)
PassThrough(e, w) ==
  /\ AtNode(e, w, {"passthrough"})
  /\ mem' = [mem EXCEPT ![e] = RecordOutput(@, Here(e, w), None)]
  /\ walker' = [walker EXCEPT ![e] = Proceed(@, w, Here(e, w), None)]
  /\ UNCHANGED <<fired, returned>>

(* _resolve_node, _build_input, _apply_condition or the input validation   *)
(* raises before any middleware sees the node.                             *)
PrepareFails(e, w) ==
  /\ AtNode(e, w, RegularKinds \cup {"unregistered"})
  /\ walker' = [walker EXCEPT ![e] = RaiseIn(@, w, Failed(Here(e, w)))]
  /\ UNCHANGED <<mem, fired, returned>>

(* step_is_approved reads the step id the executor stamped. *)
StepIsApprovedByDefault(m) == m.approved = {} \/ m.cur \in m.approved

StepIsApproved(m) == m.cur \in m.approved

StampOnce(m, s) == IF m.cur = None THEN [m EXCEPT !.cur = s] ELSE m

Stamp(m, s) == [m EXCEPT !.cur = s]

GateAnswer(m, s) ==
  BeforeRun(NodeOf[s], AgentAutonomy, m.org, ActiveTlp, StepIsApproved(m))

(* A HITL or connector-policy middleware suspends the run, or the egress   *)
(* policy refuses the node.                                                *)
GateStops(e, w) ==
  LET s == Here(e, w)
      m == Stamp(mem[e], s)
  IN /\ AtNode(e, w, RegularKinds)
     /\ GateAnswer(m, s) # "run"
     /\ mem' = [mem EXCEPT ![e] = m]
     /\ walker' = [walker EXCEPT ![e] =
          RaiseIn(@, w, IF GateAnswer(m, s) = "pause" THEN Paused(s) ELSE Failed(s))]
     /\ UNCHANGED <<fired, returned>>

(* Every gate lets the node through and Node.run starts. *)
Fire(e, w) ==
  LET s == Here(e, w)
      m == Stamp(mem[e], s)
  IN /\ AtNode(e, w, RegularKinds)
     /\ fired[s] < MaxFires
     /\ GateAnswer(m, s) = "run"
     /\ mem' = [mem EXCEPT ![e] = m]
     /\ fired' = [fired EXCEPT ![s] = @ + 1]
     /\ walker' = [walker EXCEPT ![e][w].pc = "run"]
     /\ UNCHANGED returned

(* Node.run returns: evidence, record, route on. *)
Return(e, w) ==
  LET s == Here(e, w)
  IN /\ walker[e][w].pc = "run"
     /\ \E b \in IF NodeOf[s].kind = "decision" THEN BranchLabels ELSE {None} :
          /\ mem' = [mem EXCEPT ![e] = RecordOutput(AppendEvidence(@, e, s), s, b)]
          /\ walker' = [walker EXCEPT ![e] = Proceed(@, w, s, b)]
     /\ returned' = [returned EXCEPT ![s] = @ + 1]
     /\ UNCHANGED fired

(* Every branch that a fork waits for is done. *)
Gathered(e, w) ==
  /\ walker[e][w].pc = "fork"
  /\ walker[e][w].exc = None
  /\ \A v \in BranchTargets(Here(e, w)) : walker[e][v].pc = "done"

(* Node.run, or the validation of its output, raises; or the merge of the   *)
(* gathered branches does, which is a node's run as well, and not counted.  *)
NodeRaises(e, w) ==
  /\ walker[e][w].pc = "run" \/ Gathered(e, w)
  /\ walker' = [walker EXCEPT ![e] = RaiseIn(@, w, Failed(Here(e, w)))]
  /\ UNCHANGED <<mem, fired, returned>>

(* _run_parallel starts one walker per branch and gathers them. *)
Fork(e, w) ==
  LET s == Here(e, w)
      join == NextParallelStep(s)
  IN /\ AtNode(e, w, {"parallel"})
     /\ walker' = [walker EXCEPT ![e] =
          [v \in Steps |->
             IF v = w THEN [walker[e][w] EXCEPT !.pc = "fork"]
             ELSE IF v \in BranchTargets(s)
               THEN Arrive([Idle EXCEPT !.stop = join, !.parent = w], v)
             ELSE walker[e][v]]]
     /\ UNCHANGED <<mem, fired, returned>>

(* Every branch is done: the ParallelNode merges. It is not an integration *)
(* node and has no manifest, so no gate applies; the step id stamped last  *)
(* stays in the context.                                                   *)
Merge(e, w) ==
  LET s == Here(e, w)
  IN /\ Gathered(e, w)
     /\ mem' = [mem EXCEPT ![e] = RecordOutput(AppendEvidence(@, e, s), s, None)]
     /\ walker' = [walker EXCEPT ![e][w] = Arrive(@, NextParallelStep(s))]
     /\ fired' = [fired EXCEPT ![s] = @ + 1]
     /\ returned' = [returned EXCEPT ![s] = @ + 1]

(* The gather raises in the parent. *)
Propagate(e, w) ==
  /\ walker[e][w].pc = "fork"
  /\ walker[e][w].exc # None
  /\ walker' = [walker EXCEPT ![e] = RaiseIn(@, w, walker[e][w].exc)]
  /\ UNCHANGED <<mem, fired, returned>>

WalkStep(e, w) ==
  \/ WalkAborts(e, w)
  \/ Reuse(e, w)
  \/ PassThrough(e, w)
  \/ PrepareFails(e, w)
  \/ GateStops(e, w)
  \/ Fire(e, w)
  \/ Return(e, w)
  \/ NodeRaises(e, w)
  \/ Fork(e, w)
  \/ Merge(e, w)
  \/ Propagate(e, w)

(* The process of an execution is gone, and all of its walkers with it. *)
Kill(e) == walker' = [walker EXCEPT ![e] = [w \in Steps |-> Idle]]

ExecInit(org) ==
  /\ mem = [e \in Execs |->
       [nodes |-> << >>, branch |-> NoBranch, completed |-> {}, approved |-> {},
        cur |-> None, chain |-> << >>, org |-> org]]
  /\ walker = [e \in Execs |-> [w \in Steps |-> Idle]]
  /\ fired = [s \in Steps |-> 0]
  /\ returned = [s \in Steps |-> 0]

ExecTypeOK(Orgs) ==
  /\ mem \in [Execs -> MemType(Orgs)]
  /\ walker \in [Execs -> [Steps -> WalkerType]]
  /\ fired \in [Steps -> Nat]
  /\ returned \in [Steps -> Nat]

=============================================================================
