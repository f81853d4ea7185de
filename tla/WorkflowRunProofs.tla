-------------------------- MODULE WorkflowRunProofs --------------------------
(***************************************************************************)
(* Theorems about WorkflowRun for every workflow graph, every set of       *)
(* executions and every autonomy policy.                                   *)
(***************************************************************************)
EXTENDS WorkflowRun, TLAPS, SequenceTheorems, WellFoundedInduction

-----------------------------------------------------------------------------
(* Routing stays inside the graph. *)

(* A non-empty set of edge positions has a first one. *)
LEMMA FirstEdgeExists ==
  ASSUME NEW I \in SUBSET Nat, I # {}
  PROVE  \E i \in I : \A j \in I : i <= j
<1>1. PICK x \in I : \A y \in I : ~(<<y, x>> \in OpToRel(<, Nat))
  BY WFMin, NatLessThanWellFounded
<1>2. \A y \in I : ~(y < x)
  BY <1>1 DEF OpToRel
<1> QED  BY <1>2

(* FirstTarget picks the target of an edge of the graph. *)
LEMMA FirstTargetType ==
  ASSUME NEW I \in SUBSET DOMAIN Edges, I # {}
  PROVE  FirstTarget(I) \in Steps
<1>1. I \subseteq Nat  BY GraphAssumption
<1>2. \E i \in I : \A j \in I : i <= j  BY <1>1, FirstEdgeExists
<1>3. (CHOOSE i \in I : \A j \in I : i <= j) \in DOMAIN Edges  BY <1>2
<1> QED  BY <1>3, GraphAssumption DEF FirstTarget

LEMMA NextParallelStepType ==
  ASSUME NEW s \in Steps
  PROVE  NextParallelStep(s) \in Steps \cup {None}
BY FirstTargetType DEF NextParallelStep, FirstTargetOrNone, Labelled, OutEdges

(* Wherever a walker is routed, it is to a step of the graph or to the end. *)
LEMMA TargetType ==
  ASSUME NEW s \in Nodes, NEW b, Routable(s, b)
  PROVE  Target(s, b) \in Steps \cup {None}
<1>1. Labelled(s, {b}) \subseteq DOMAIN Edges /\ Labelled(s, {"next"}) \subseteq DOMAIN Edges
      /\ OutEdges(s) \subseteq DOMAIN Edges
  BY DEF Labelled, OutEdges
<1>2. NextStep(s) \in Steps \cup {None}
  BY <1>1, FirstTargetType DEF NextStep, FirstTargetOrNone
<1>3. NextParallelStep(s) \in Steps \cup {None}
  BY GraphAssumption, NextParallelStepType
<1>4. NodeOf[s].kind = "decision" => FirstTarget(Labelled(s, {b})) \in Steps
  BY <1>1, FirstTargetType DEF Routable
<1> QED  BY <1>2, <1>3, <1>4 DEF Target

-----------------------------------------------------------------------------
(* Walkers: one that runs a node or waits at a fork stands at a node.      *)

GoodWalker ==
  {wk \in WalkerType :
     /\ wk.pc \in {"run", "fork"} => wk.at \in Nodes
     /\ wk.pc = "fork" => NodeOf[wk.at].kind = "parallel"
     /\ wk.pc = "raised" => wk.exc \in Exceptions}

LEMMA IdleGood == Idle \in GoodWalker
BY DEF Idle, GoodWalker, WalkerType

LEMMA ArriveGood ==
  ASSUME NEW wk \in WalkerType, NEW t \in Steps \cup {None}
  PROVE  Arrive(wk, t) \in GoodWalker
BY DEF Arrive, GoodWalker, WalkerType

LEMMA RaiseInGood ==
  ASSUME NEW ws \in [Steps -> GoodWalker], NEW w \in Steps, NEW x \in Exceptions
  PROVE  RaiseIn(ws, w, x) \in [Steps -> GoodWalker]
<1>1. [ws[w] EXCEPT !.pc = "raised", !.exc = x] \in GoodWalker
  BY DEF GoodWalker, WalkerType
<1>2. ASSUME NEW v \in Steps, ws[v].pc = "fork"
      PROVE  [ws[v] EXCEPT !.exc = x] \in GoodWalker
  BY <1>2 DEF GoodWalker, WalkerType
<1> QED  BY <1>1, <1>2 DEF RaiseIn

LEMMA FailedType ==
  ASSUME NEW s \in Steps \cup {None}
  PROVE  Failed(s) \in Exceptions /\ Paused(s) \in Exceptions
BY DEF Failed, Paused, Exceptions

LEMMA ProceedGood ==
  ASSUME NEW ws \in [Steps -> GoodWalker], NEW w \in Steps, NEW s \in Nodes, NEW b
  PROVE  Proceed(ws, w, s, b) \in [Steps -> GoodWalker]
<1>1. CASE Routable(s, b)
  <2>1. Arrive(ws[w], Target(s, b)) \in GoodWalker
    BY <1>1, TargetType, ArriveGood DEF GoodWalker
  <2> QED  BY <1>1, <2>1 DEF Proceed
<1>2. CASE ~Routable(s, b)
  BY <1>2, RaiseInGood, FailedType, GraphAssumption DEF Proceed
<1> QED  BY <1>1, <1>2

LEMMA RootType == Root \in Steps
BY GraphAssumption DEF Root, HasEntry

-----------------------------------------------------------------------------
(* Types. *)

ExecTypeInv ==
  /\ mem \in [Execs -> MemType(Orgs)]
  /\ walker \in [Execs -> [Steps -> GoodWalker]]
  /\ fired \in [Steps -> Nat]
  /\ returned \in [Steps -> Nat]

RunTypeInv ==
  /\ row \in RowType
  /\ seen \in [Execs -> RowType]
  /\ actor \in [Execs -> {"idle", "claimed", "live", "committed", "ended", "gone"}]
  /\ route \in {"idle", "enqueuing", "done"}
  /\ job \in {"none", "queued", "taken", "acked"}
  /\ org \in Orgs
  /\ consented \subseteq Steps \cup {None}

TypeInv == ExecTypeInv /\ RunTypeInv

LEMMA TypeInvImpliesTypeOK == TypeInv => TypeOK
BY DEF TypeInv, ExecTypeInv, RunTypeInv, TypeOK, ExecTypeOK, GoodWalker

LEMMA RecordOutputType ==
  ASSUME NEW m \in MemType(Orgs), NEW s \in Steps, NEW b \in BranchLabels \cup {None}
  PROVE  RecordOutput(m, s, b) \in MemType(Orgs)
<1>1. Append(m.nodes, s) \in Seq(Steps)
  BY AppendProperties DEF MemType
<1> QED  BY <1>1 DEF RecordOutput, MemType

LEMMA AppendEvidenceType ==
  ASSUME NEW m \in MemType(Orgs), NEW e \in Execs, NEW s \in Steps
  PROVE  AppendEvidence(m, e, s) \in MemType(Orgs)
<1>1. [exec |-> e, step |-> s] \in Evidence  BY DEF Evidence
<1>2. Append(m.chain, [exec |-> e, step |-> s]) \in Seq(Evidence)
  BY <1>1, AppendProperties DEF MemType
<1> QED  BY <1>2 DEF AppendEvidence, MemType

LEMMA StampType ==
  ASSUME NEW m \in MemType(Orgs), NEW s \in Steps
  PROVE  Stamp(m, s) \in MemType(Orgs)
BY DEF Stamp, MemType

(* One iteration of the walk, of any walker of any execution. *)
LEMMA WalkStepType ==
  ASSUME ExecTypeInv, NEW e \in Execs, NEW w \in Steps, WalkStep(e, w)
  PROVE  ExecTypeInv'
<1> DEFINE s == Here(e, w)
<1> USE DEF ExecTypeInv
<1>0. /\ Nodes \subseteq Steps
      /\ walker[e] \in [Steps -> GoodWalker]
      /\ walker[e][w] \in GoodWalker
      /\ s \in Steps \cup {None}
      /\ mem[e] \in MemType(Orgs)
  BY GraphAssumption DEF GoodWalker, WalkerType, Here
<1>1. \A t \in Steps \cup {None} :
        /\ RaiseIn(walker[e], w, Failed(t)) \in [Steps -> GoodWalker]
        /\ RaiseIn(walker[e], w, Paused(t)) \in [Steps -> GoodWalker]
  BY <1>0, FailedType, RaiseInGood
<1>2. CASE WalkAborts(e, w)
  BY <1>0, <1>1, <1>2 DEF WalkAborts
<1>3. CASE Reuse(e, w)
  <2>1. Proceed(walker[e], w, s, mem[e].branch[s]) \in [Steps -> GoodWalker]
    BY <1>0, <1>3, ProceedGood DEF Reuse
  <2> QED  BY <1>3, <2>1 DEF Reuse
<1>4. CASE PassThrough(e, w)
  <2>1. s \in Nodes  BY <1>4 DEF PassThrough, AtNode
  <2>2. Proceed(walker[e], w, s, None) \in [Steps -> GoodWalker]
    BY <1>0, <2>1, ProceedGood
  <2>3. RecordOutput(mem[e], s, None) \in MemType(Orgs)
    BY <1>0, <2>1, RecordOutputType
  <2> QED  BY <1>4, <2>2, <2>3 DEF PassThrough
<1>5. CASE PrepareFails(e, w)
  BY <1>0, <1>1, <1>5 DEF PrepareFails
<1>6. CASE GateStops(e, w)
  <2>1. s \in Steps  BY <1>0, <1>6 DEF GateStops, AtNode
  <2>2. Stamp(mem[e], s) \in MemType(Orgs)  BY <1>0, <2>1, StampType
  <2>3. mem' \in [Execs -> MemType(Orgs)]  BY <1>6, <2>2 DEF GateStops
  <2>4. walker' \in [Execs -> [Steps -> GoodWalker]]  BY <1>0, <1>1, <1>6 DEF GateStops
  <2> QED  BY <1>6, <2>3, <2>4 DEF GateStops
<1>7. CASE Fire(e, w)
  <2>1. s \in Nodes /\ NodeOf[s].kind \in RegularKinds  BY <1>7 DEF Fire, AtNode
  <2>2. Stamp(mem[e], s) \in MemType(Orgs)  BY <1>0, <2>1, StampType
  <2>3. mem' \in [Execs -> MemType(Orgs)]  BY <1>7, <2>2 DEF Fire
  <2>4. [walker[e][w] EXCEPT !.pc = "run"] \in GoodWalker
    BY <1>0, <2>1 DEF GoodWalker, WalkerType, Here
  <2>5. walker' \in [Execs -> [Steps -> GoodWalker]]  BY <1>0, <1>7, <2>4 DEF Fire
  <2>6. fired' \in [Steps -> Nat]  BY <1>0, <2>1, <1>7 DEF Fire
  <2> QED  BY <1>7, <2>3, <2>5, <2>6 DEF Fire
<1>8. CASE Return(e, w)
  <2>1. s \in Nodes  BY <1>0, <1>8 DEF Return, GoodWalker, Here
  <2>2. PICK b \in BranchLabels \cup {None} :
          /\ mem' = [mem EXCEPT ![e] = RecordOutput(AppendEvidence(mem[e], e, s), s, b)]
          /\ walker' = [walker EXCEPT ![e] = Proceed(walker[e], w, s, b)]
    BY <1>8 DEF Return
  <2>3. RecordOutput(AppendEvidence(mem[e], e, s), s, b) \in MemType(Orgs)
    BY <1>0, <2>1, AppendEvidenceType, RecordOutputType
  <2>4. Proceed(walker[e], w, s, b) \in [Steps -> GoodWalker]
    BY <1>0, <2>1, ProceedGood
  <2>5. returned' \in [Steps -> Nat]  BY <1>0, <1>8, <2>1 DEF Return
  <2> QED  BY <1>8, <2>2, <2>3, <2>4, <2>5 DEF Return
<1>9. CASE NodeRaises(e, w)
  BY <1>0, <1>1, <1>9 DEF NodeRaises
<1>10. CASE Fork(e, w)
  <2>1. s \in Nodes /\ NodeOf[s].kind = "parallel"  BY <1>10 DEF Fork, AtNode
  <2>2. NextParallelStep(s) \in Steps \cup {None}  BY <1>0, <2>1, NextParallelStepType
  <2>3. [walker[e][w] EXCEPT !.pc = "fork"] \in GoodWalker
    BY <1>0, <2>1 DEF GoodWalker, WalkerType, Here
  <2>4. [Idle EXCEPT !.stop = NextParallelStep(s), !.parent = w] \in WalkerType
    BY <2>2 DEF Idle, WalkerType
  <2>5. \A v \in Steps :
          Arrive([Idle EXCEPT !.stop = NextParallelStep(s), !.parent = w], v) \in GoodWalker
    BY <2>4, ArriveGood
  <2> QED  BY <1>0, <1>10, <2>3, <2>5 DEF Fork
<1>11. CASE Merge(e, w)
  <2>1. s \in Nodes  BY <1>0, <1>11 DEF Gathered, Merge, GoodWalker, Here
  <2>2. RecordOutput(AppendEvidence(mem[e], e, s), s, None) \in MemType(Orgs)
    BY <1>0, <2>1, AppendEvidenceType, RecordOutputType
  <2>3. Arrive(walker[e][w], NextParallelStep(s)) \in GoodWalker
    BY <1>0, <2>1, NextParallelStepType, ArriveGood DEF GoodWalker
  <2>4. walker' \in [Execs -> [Steps -> GoodWalker]]  BY <1>0, <1>11, <2>3 DEF Gathered, Merge
  <2>5. fired' \in [Steps -> Nat] /\ returned' \in [Steps -> Nat]
    BY <1>0, <1>11, <2>1 DEF Gathered, Merge
  <2> QED  BY <1>11, <2>2, <2>4, <2>5 DEF Gathered, Merge
<1>12. CASE Propagate(e, w)
  <2>1. walker[e][w].exc \in Exceptions
    BY <1>0, <1>12 DEF Propagate, GoodWalker, WalkerType
  <2>2. RaiseIn(walker[e], w, walker[e][w].exc) \in [Steps -> GoodWalker]
    BY <1>0, <2>1, RaiseInGood
  <2> QED  BY <1>12, <2>2 DEF Propagate
<1> QED
  BY <1>2, <1>3, <1>4, <1>5, <1>6, <1>7, <1>8, <1>9, <1>10, <1>11, <1>12 DEF WalkStep

LEMMA BeginType ==
  ASSUME ExecTypeInv, NEW e \in Execs, NEW nodes \in Seq(Steps),
         NEW branch \in [Steps -> BranchLabels \cup {None}],
         NEW ok \in SUBSET Steps, NEW chain \in Seq(Evidence), NEW o \in Orgs,
         Begin(e, nodes, branch, ok, chain, o)
  PROVE  ExecTypeInv'
<1>1. RangeOf(nodes) \subseteq Steps
  BY ElementOfSeq DEF RangeOf
<1>2. [nodes |-> nodes, branch |-> branch, completed |-> RangeOf(nodes), approved |-> ok,
       cur |-> None, chain |-> chain, org |-> o] \in MemType(Orgs)
  BY <1>1 DEF MemType
<1>3. mem' \in [Execs -> MemType(Orgs)]
  BY <1>2 DEF Begin, ExecTypeInv
<1>4. /\ Idle \in GoodWalker
      /\ [Idle EXCEPT !.pc = "walk", !.at = Root] \in GoodWalker
      /\ [Idle EXCEPT !.pc = "raised", !.exc = Failed(None)] \in GoodWalker
  BY RootType, FailedType DEF Idle, GoodWalker, WalkerType
<1>5. walker' \in [Execs -> [Steps -> GoodWalker]]
  BY <1>4 DEF Begin, ExecTypeInv
<1> QED  BY <1>3, <1>5 DEF Begin, ExecTypeInv

(* What an execution hands back to the service can be stored on the row. *)
LEMMA OutcomeType ==
  ASSUME TypeInv, NEW e \in Execs, RootDone(e)
  PROVE  /\ FreshRow(e) \in RowType
         /\ ResumedRow(e) \in RowType
<1>1. walker[e][Root] \in GoodWalker /\ mem[e] \in MemType(Orgs) /\ seen[e] \in RowType
  BY RootType DEF TypeInv, ExecTypeInv, RunTypeInv
<1>2. OutcomeStatus(e) \in {"succeeded", "paused", "failed"}
  BY <1>1 DEF OutcomeStatus, RootDone, GoodWalker, Exceptions
<1>3. OutcomePaused(e) \in Steps \cup {None}
  BY <1>1 DEF OutcomePaused, OutcomeStatus, RootDone, GoodWalker, Exceptions
<1>4. NoBranch \in [Steps -> BranchLabels \cup {None}]
  BY DEF NoBranch
<1>5. /\ OutcomeNodes(e) \in Seq(Steps)
      /\ OutcomeBranch(e) \in [Steps -> BranchLabels \cup {None}]
  BY <1>1, <1>4 DEF OutcomeNodes, OutcomeBranch, MemType
<1>6. FreshRow(e) \in RowType
  BY <1>1, <1>2, <1>3, <1>5 DEF FreshRow, RowType, Statuses, MemType
<1> QED  BY <1>1, <1>6 DEF ResumedRow, RowType, MemType

LEMMA FlushType ==
  ASSUME TypeInv, NEW e \in Execs, NEW new \in RowType, NEW rewritten
  PROVE  Flush(e, new, rewritten) \in RowType
BY DEF Flush, TypeInv, RunTypeInv, RowType

LEMMA NoRowType == NoRow \in RowType
BY DEF NoRow, RowType, NoBranch, Statuses

(* The type invariant is inductive. *)
LEMMA TypeInvInit == Init => TypeInv
<1> SUFFICES ASSUME Init PROVE TypeInv  OBVIOUS
<1>1. RunTypeInv  BY NoRowType DEF Init, RunTypeInv
<1>2. [nodes |-> << >>, branch |-> NoBranch, completed |-> {}, approved |-> {},
       cur |-> None, chain |-> << >>, org |-> org] \in MemType(Orgs)
  BY DEF Init, MemType, NoBranch
<1>3. ExecTypeInv  BY <1>2, IdleGood DEF Init, ExecInit, ExecTypeInv
<1> QED  BY <1>1, <1>3 DEF TypeInv

LEMMA TypeInvStep == TypeInv /\ [Next]_vars => TypeInv'
<1> SUFFICES ASSUME TypeInv, [Next]_vars PROVE TypeInv'  OBVIOUS
<1>0. ExecTypeInv /\ RunTypeInv  BY DEF TypeInv
<1>1. CASE UNCHANGED vars
  BY <1>0, <1>1 DEF vars, execVars, runVars, TypeInv, ExecTypeInv, RunTypeInv
<1>2. ASSUME NEW e \in Execs, NEW w \in Steps, Walk(e, w) PROVE TypeInv'
  <2>1. ExecTypeInv'  BY <1>0, <1>2, WalkStepType DEF Walk
  <2>2. RunTypeInv'  BY <1>0, <1>2 DEF Walk, runVars, RunTypeInv
  <2> QED  BY <2>1, <2>2 DEF TypeInv
<1>3. ASSUME NEW e \in Execs, Service(e) PROVE TypeInv'
  <2>0. /\ << >> \in Seq(Steps) /\ << >> \in Seq(Evidence)
        /\ NoBranch \in [Steps -> BranchLabels \cup {None}]
    BY DEF NoBranch
  <2>1. CASE RunInline(e) \/ ExecutePendingRun(e)
    <3>1. ExecTypeInv'  BY <1>0, <2>0, <2>1, BeginType DEF RunInline, ExecutePendingRun, RunTypeInv
    <3>2. RunTypeInv'  BY <1>0, <2>1 DEF RunInline, ExecutePendingRun, RunTypeInv
    <3> QED  BY <3>1, <3>2 DEF TypeInv
  <2>2. CASE InsertRun(e)
    BY <1>0, <2>2, OutcomeType DEF InsertRun, TypeInv, ExecTypeInv, RunTypeInv, execVars
  <2>3. CASE SkipRun(e) \/ FailRun(e) \/ Ack(e) \/ ClaimRefused(e) \/ ResumeRefused(e)
    BY <1>0, <2>3 DEF SkipRun, FailRun, Ack, ClaimRefused, ResumeRefused, TypeInv,
                      ExecTypeInv, RunTypeInv, execVars, RowType, Statuses
  <2>4. CASE PersistPendingRun(e)
    BY <1>0, <2>4, OutcomeType, FlushType
       DEF PersistPendingRun, TypeInv, ExecTypeInv, RunTypeInv, execVars
  <2>5. CASE Claim(e)
    BY <1>0, <2>5 DEF Claim, TypeInv, ExecTypeInv, RunTypeInv, execVars, RowType, Statuses
  <2>6. CASE ResumeRun(e)
    <3>1. /\ row.nodes \in Seq(Steps) /\ row.chain \in Seq(Evidence)
          /\ row.branch \in [Steps -> BranchLabels \cup {None}]
          /\ ApprovedSteps \in SUBSET Steps
      BY <1>0, <2>6 DEF ResumeRun, RunTypeInv, RowType, ApprovedSteps
    <3>2. ExecTypeInv'
      BY <1>0, <2>6, <3>1, BeginType DEF ResumeRun, RunTypeInv, PriorEvidence
    <3>3. RunTypeInv'  BY <1>0, <2>6 DEF ResumeRun, RunTypeInv
    <3> QED  BY <3>2, <3>3 DEF TypeInv
  <2>7. CASE PersistResumedRun(e)
    BY <1>0, <2>7, OutcomeType, FlushType
       DEF PersistResumedRun, TypeInv, ExecTypeInv, RunTypeInv, execVars
  <2> QED
    BY <1>3, <2>1, <2>2, <2>3, <2>4, <2>5, <2>6, <2>7 DEF Service
<1>4. CASE Route
  <2>1. ExecTypeInv'
    BY <1>0, <1>4 DEF Route, CreatePendingRun, Accept, Enqueued, EnqueueRaises, RouteCrashes,
                      ExecTypeInv, execVars
  <2>2. RunTypeInv'
    BY <1>0, <1>4, NoRowType
       DEF Route, CreatePendingRun, Accept, Enqueued, EnqueueRaises, RouteCrashes,
           RunTypeInv, RowType, Statuses
  <2> QED  BY <2>1, <2>2 DEF TypeInv
<1>5. ASSUME NEW e \in Execs, Crash(e) PROVE TypeInv'
  <2>1. ExecTypeInv'  BY <1>0, <1>5, IdleGood DEF Crash, Kill, ExecTypeInv
  <2>2. RunTypeInv'  BY <1>0, <1>5 DEF Crash, RunTypeInv
  <2> QED  BY <2>1, <2>2 DEF TypeInv
<1>6. CASE SetAutonomy
  BY <1>0, <1>6 DEF SetAutonomy, TypeInv, ExecTypeInv, RunTypeInv, execVars
<1> QED  BY <1>1, <1>2, <1>3, <1>4, <1>5, <1>6 DEF Next

(* Every variable of the run and of its executions keeps its type, for     *)
(* every workflow graph: no walker leaves the graph, and what a row stores *)
(* is always something a later session can load and resume.                *)
THEOREM TypeCorrect == Spec => []TypeOK
<1>1. Spec => []TypeInv  BY TypeInvInit, TypeInvStep, PTL DEF Spec
<1> QED  BY <1>1, TypeInvImpliesTypeOK, PTL

-----------------------------------------------------------------------------
(* Mutual exclusion, when no job is delivered twice.  ExclusiveExecution   *)
(* alone is not inductive: a claim excludes the others only because a      *)
(* paused row has no holder, and a job because nobody holds a run whose    *)
(* job still waits in the queue.                                           *)

Unheld == \A e \in Execs : ~Holding(e)

ExclusiveInv ==
  /\ ExclusiveExecution
  /\ row.status = "paused" => Unheld
  /\ job = "queued" => Unheld /\ row.status # "paused"
  /\ route = "enqueuing" /\ job = "none" => Unheld /\ row.status # "paused"
  /\ route = "idle" => job = "none" /\ \A e \in JobExecs : actor[e] = "idle"

LEMMA ExclusiveInvInit == Init => ExclusiveInv
BY RunAssumption DEF Init, ExclusiveInv, ExclusiveExecution, Unheld, Holding, NoRow

LEMMA ExclusiveInvStep ==
  ASSUME Redeliver = FALSE, TypeInv, ExclusiveInv, [Next]_vars
  PROVE  ExclusiveInv'
<1> USE DEF ExclusiveInv, ExclusiveExecution, Unheld, Holding
<1>0. actor \in [Execs -> {"idle", "claimed", "live", "committed", "ended", "gone"}]
      /\ row \in RowType
      /\ JobExecs \subseteq Execs
      /\ InlineExecs \cap JobExecs = {} /\ JobExecs \cap Approvers = {}
  BY RunAssumption DEF TypeInv, RunTypeInv
<1>1. CASE UNCHANGED vars
  BY <1>1 DEF vars, runVars
<1>2. ASSUME NEW e \in Execs, NEW w \in Steps, Walk(e, w) PROVE ExclusiveInv'
  BY <1>2 DEF Walk, runVars
<1>3. ASSUME NEW e \in Execs, Service(e) PROVE ExclusiveInv'
  <2>1. CASE RunInline(e)
    BY <1>0, <2>1 DEF RunInline, Untouched
  <2>2. CASE InsertRun(e)
    BY <1>0, <2>2 DEF InsertRun
  <2>3. CASE SkipRun(e)
    BY <1>0, <2>3 DEF SkipRun, JobDelivered
  <2>4. CASE FailRun(e)
    BY <1>0, <2>4 DEF FailRun, JobDelivered, RowType
  <2>5. CASE ExecutePendingRun(e)
    BY <1>0, <2>5 DEF ExecutePendingRun, JobDelivered
  <2>6. CASE PersistPendingRun(e)
    BY <1>0, <2>6 DEF PersistPendingRun
  <2>7. CASE Ack(e)
    BY <1>0, <2>7 DEF Ack
  <2>8. CASE Claim(e)
    BY <1>0, <2>8 DEF Claim, Claimable, RowType
  <2>9. CASE ClaimRefused(e)
    BY <1>0, <2>9 DEF ClaimRefused
  <2>10. CASE ResumeRefused(e)
    BY <1>0, <2>10 DEF ResumeRefused
  <2>11. CASE ResumeRun(e)
    BY <1>0, <2>11 DEF ResumeRun
  <2>12. CASE PersistResumedRun(e)
    BY <1>0, <2>12 DEF PersistResumedRun
  <2> QED
    BY <1>3, <2>1, <2>2, <2>3, <2>4, <2>5, <2>6, <2>7, <2>8, <2>9, <2>10, <2>11, <2>12
       DEF Service
<1>4. CASE Route
  <2>1. CASE CreatePendingRun
    BY <1>0, <2>1 DEF CreatePendingRun, Untouched, NoRow
  <2>2. CASE Accept \/ Enqueued \/ RouteCrashes
    BY <1>0, <2>2 DEF Accept, Enqueued, RouteCrashes
  <2>3. CASE EnqueueRaises
    BY <1>0, <2>3 DEF EnqueueRaises, RowType
  <2> QED  BY <1>4, <2>1, <2>2, <2>3 DEF Route
<1>5. ASSUME NEW e \in Execs, Crash(e) PROVE ExclusiveInv'
  BY <1>0, <1>5 DEF Crash
<1>6. CASE SetAutonomy
  BY <1>6 DEF SetAutonomy
<1> QED  BY <1>1, <1>2, <1>3, <1>4, <1>5, <1>6 DEF Next

(* Whatever the graph, however many approvers race and whoever crashes, at *)
(* most one request or job works on a run at any time, as long as the      *)
(* queue delivers its job once: the conditional UPDATE of resume_run is    *)
(* all it takes.                                                           *)
THEOREM Exclusive ==
  ASSUME Redeliver = FALSE
  PROVE  Spec => []ExclusiveExecution
<1>1. Init => TypeInv /\ ExclusiveInv
  BY TypeInvInit, ExclusiveInvInit
<1>2. (TypeInv /\ ExclusiveInv) /\ [Next]_vars => (TypeInv /\ ExclusiveInv)'
  BY TypeInvStep, ExclusiveInvStep
<1>3. TypeInv /\ ExclusiveInv => ExclusiveExecution
  BY DEF ExclusiveInv
<1> QED  BY <1>1, <1>2, <1>3, PTL DEF Spec

-----------------------------------------------------------------------------
(* Consent.  What an execution may run without pausing was consented to:   *)
(* approvals flow from the claimed pause to the execution, to the row and  *)
(* on to the next execution, and the step a claim consents to is the one   *)
(* the resumed execution reads, because nobody else writes the row between *)
(* the claim and the refresh.                                              *)

(* A node that always needs a human passes the gates only as approved. *)
LEMMA GatePassedOnlyApproved ==
  ASSUME NEW s \in Nodes, NEW m, GateAnswer(m, s) = "run", AlwaysGated(NodeOf[s])
  PROVE  StepIsApproved(m)
BY DEF GateAnswer, BeforeRun, AlwaysGated, HitlPauses, GatePauses, PolicyPauses,
       RequiresApproval

LEMMA ParallelNotGated ==
  ASSUME NEW s \in Nodes, NodeOf[s].kind = "parallel"
  PROVE  ~AlwaysGated(NodeOf[s])
BY GraphAssumption DEF AlwaysGated

ConsentInv ==
  /\ GateConsent
  /\ \A e \in Execs : mem[e].approved \subseteq consented
  /\ \A e \in Execs : seen[e].approved \subseteq consented
  /\ row.approved \subseteq consented
  /\ \A e \in Execs : actor[e] = "claimed" => row.paused \in consented

LEMMA ConsentInvInit == Init => ConsentInv
BY GraphAssumption DEF Init, ExecInit, NoRow, ConsentInv, GateConsent

(* What the executor does to its memory leaves the approvals alone. *)
LEMMA ApprovalsKept ==
  ASSUME NEW m \in MemType(Orgs), NEW e, NEW s, NEW b
  PROVE  /\ RecordOutput(m, s, b).approved = m.approved
         /\ RecordOutput(AppendEvidence(m, e, s), s, b).approved = m.approved
         /\ Stamp(m, s).approved = m.approved
BY DEF RecordOutput, AppendEvidence, Stamp, MemType

(* A walk step fires at most the step its walker stands at, and never      *)
(* touches an approval.                                                    *)
LEMMA WalkConsent ==
  ASSUME TypeInv, ConsentInv, NEW e \in Execs, NEW w \in Steps, WalkStep(e, w)
  PROVE  /\ \A f \in Execs : mem'[f].approved = mem[f].approved
         /\ \A s \in Nodes :
              fired'[s] > 0 /\ AlwaysGated(NodeOf[s]) => s \in consented
<1>0. /\ Nodes \subseteq Steps
      /\ walker[e][w] \in GoodWalker
      /\ mem \in [Execs -> MemType(Orgs)] /\ fired \in [Steps -> Nat]
      /\ mem[e].approved \subseteq consented
      /\ GateConsent
  BY GraphAssumption DEF TypeInv, ExecTypeInv, ConsentInv
<1>1. CASE UNCHANGED <<mem, fired>>
  BY <1>0, <1>1 DEF GateConsent
<1>2. CASE PassThrough(e, w) \/ GateStops(e, w) \/ Return(e, w)
  <2>1. fired' = fired  BY <1>2 DEF PassThrough, GateStops, Return
  <2>2. \A f \in Execs : mem'[f].approved = mem[f].approved
    BY <1>0, <1>2, ApprovalsKept DEF PassThrough, GateStops, Return
  <2> QED  BY <1>0, <2>1, <2>2 DEF GateConsent
<1>3. CASE Fire(e, w)
  <2> DEFINE s == Here(e, w)
             m == Stamp(mem[e], s)
  <2>1. s \in Nodes /\ GateAnswer(m, s) = "run"  BY <1>3 DEF Fire, AtNode
  <2>2. mem[e] \in MemType(Orgs)  BY <1>0
  <2>3. m.cur = s /\ m.approved = mem[e].approved  BY <2>2 DEF Stamp, MemType
  <2>4. AlwaysGated(NodeOf[s]) => s \in consented
    BY <1>0, <2>1, <2>3, GatePassedOnlyApproved DEF StepIsApproved
  <2>5. \A t \in Nodes : t # s => fired'[t] = fired[t]
    BY <1>0, <1>3 DEF Fire
  <2>6. \A f \in Execs : mem'[f].approved = mem[f].approved
    BY <1>0, <1>3, <2>3 DEF Fire
  <2> QED  BY <1>0, <2>4, <2>5, <2>6 DEF GateConsent
<1>4. CASE Merge(e, w)
  <2> DEFINE s == Here(e, w)
  <2>1. s \in Nodes /\ NodeOf[s].kind = "parallel"
    BY <1>0, <1>4 DEF Gathered, Merge, GoodWalker, Here
  <2>2. ~AlwaysGated(NodeOf[s])  BY <2>1, ParallelNotGated
  <2>3. \A t \in Nodes : t # s => fired'[t] = fired[t]
    BY <1>0, <1>4 DEF Gathered, Merge
  <2>4. \A f \in Execs : mem'[f].approved = mem[f].approved
    BY <1>0, <1>4, ApprovalsKept DEF Gathered, Merge
  <2> QED  BY <1>0, <2>2, <2>3, <2>4 DEF GateConsent
<1> QED
  BY <1>1, <1>2, <1>3, <1>4
     DEF WalkStep, WalkAborts, Reuse, PrepareFails, NodeRaises, Fork, Propagate

LEMMA ConsentInvStep ==
  ASSUME TypeInv, ExclusiveInv, ConsentInv, [Next]_vars
  PROVE  ConsentInv'
<1> USE DEF ConsentInv
<1>0. /\ actor \in [Execs -> {"idle", "claimed", "live", "committed", "ended", "gone"}]
      /\ row \in RowType /\ seen \in [Execs -> RowType]
      /\ mem \in [Execs -> MemType(Orgs)]
  BY DEF TypeInv, RunTypeInv, ExecTypeInv
<1>1. CASE UNCHANGED vars
  BY <1>1 DEF vars, execVars, runVars, GateConsent
<1>2. ASSUME NEW e \in Execs, NEW w \in Steps, Walk(e, w) PROVE ConsentInv'
  <2>1. UNCHANGED <<row, seen, actor, consented>>  BY <1>2 DEF Walk, runVars
  <2> QED  BY <1>2, <2>1, WalkConsent DEF Walk, GateConsent
<1>3. ASSUME NEW e \in Execs, Service(e) PROVE ConsentInv'
  <2>1. CASE RunInline(e) \/ ExecutePendingRun(e)
    <3>1. UNCHANGED <<row, consented, fired>>  BY <2>1 DEF RunInline, ExecutePendingRun, Begin
    <3>2. \A f \in Execs : mem'[f].approved \subseteq consented
      BY <1>0, <2>1 DEF RunInline, ExecutePendingRun, Begin
    <3>3. \A f \in Execs : seen'[f].approved \subseteq consented
      BY <1>0, <2>1 DEF RunInline, ExecutePendingRun
    <3>4. \A f \in Execs : actor'[f] = "claimed" => actor[f] = "claimed"
      BY <1>0, <2>1 DEF RunInline, ExecutePendingRun
    <3> QED  BY <3>1, <3>2, <3>3, <3>4 DEF GateConsent
  <2>2. CASE InsertRun(e) \/ PersistPendingRun(e) \/ PersistResumedRun(e)
    <3>1. UNCHANGED <<mem, fired, seen, consented>>
      BY <2>2 DEF InsertRun, PersistPendingRun, PersistResumedRun, execVars
    <3>2. actor[e] = "live"
      BY <2>2 DEF InsertRun, PersistPendingRun, PersistResumedRun
    <3>3. \A f \in Execs : actor'[f] # "claimed"
      BY <1>0, <2>2, <3>2 DEF InsertRun, PersistPendingRun, PersistResumedRun,
                              ExclusiveInv, ExclusiveExecution, Holding
    <3>4. /\ FreshRow(e).approved \subseteq consented
          /\ ResumedRow(e).approved \subseteq consented
      BY DEF FreshRow, ResumedRow
    <3>5. \A r, x : Flush(e, r, x).approved \in {r.approved, row.approved}
      BY <1>0 DEF Flush, RowType
    <3>6. row'.approved \subseteq consented
      BY <2>2, <3>4, <3>5 DEF InsertRun, PersistPendingRun, PersistResumedRun
    <3> QED  BY <3>1, <3>3, <3>6 DEF GateConsent
  <2>3. CASE SkipRun(e) \/ Ack(e) \/ ClaimRefused(e) \/ ResumeRefused(e)
    <3>1. UNCHANGED <<mem, fired, row, seen, consented>>
      BY <2>3 DEF SkipRun, Ack, ClaimRefused, ResumeRefused, execVars
    <3>2. \A f \in Execs : actor'[f] = "claimed" => actor[f] = "claimed"
      BY <1>0, <2>3 DEF SkipRun, Ack, ClaimRefused, ResumeRefused
    <3> QED  BY <3>1, <3>2 DEF GateConsent
  <2>4. CASE FailRun(e)
    <3>1. UNCHANGED <<mem, fired, seen, consented>>  BY <2>4 DEF FailRun, execVars
    <3>2. row'.paused = row.paused /\ row'.approved = row.approved
      BY <1>0, <2>4 DEF FailRun, RowType
    <3>3. \A f \in Execs : actor'[f] = "claimed" => actor[f] = "claimed"
      BY <1>0, <2>4 DEF FailRun
    <3> QED  BY <3>1, <3>2, <3>3 DEF GateConsent
  <2>5. CASE Claim(e)
    <3>1. UNCHANGED <<mem, fired, seen>>  BY <2>5 DEF Claim, execVars
    <3>2. row'.paused = row.paused /\ row'.approved = row.approved
      BY <1>0, <2>5 DEF Claim, RowType
    <3>3. consented' = consented \cup {row.paused}  BY <2>5 DEF Claim
    <3> QED  BY <3>1, <3>2, <3>3 DEF GateConsent
  <2>6. CASE ResumeRun(e)
    <3>1. UNCHANGED <<row, consented, fired>>  BY <2>6 DEF ResumeRun, Begin
    <3>2. row.paused \in consented  BY <2>6 DEF ResumeRun
    <3>3. \A f \in Execs : mem'[f].approved \subseteq consented
      BY <1>0, <2>6, <3>2 DEF ResumeRun, Begin, ApprovedSteps
    <3>4. \A f \in Execs : seen'[f].approved \subseteq consented
      BY <1>0, <2>6 DEF ResumeRun
    <3>5. \A f \in Execs : actor'[f] = "claimed" => actor[f] = "claimed"
      BY <1>0, <2>6 DEF ResumeRun
    <3> QED  BY <3>1, <3>3, <3>4, <3>5 DEF GateConsent
  <2> QED  BY <1>3, <2>1, <2>2, <2>3, <2>4, <2>5, <2>6 DEF Service
<1>4. CASE Route
  <2>1. UNCHANGED <<mem, fired, seen, actor, consented>>
    BY <1>4 DEF Route, CreatePendingRun, Accept, Enqueued, EnqueueRaises, RouteCrashes, execVars
  <2>2. CASE CreatePendingRun
    BY <1>0, <2>1, <2>2 DEF CreatePendingRun, Untouched, NoRow, GateConsent
  <2>3. CASE Accept \/ Enqueued \/ RouteCrashes
    BY <2>1, <2>3 DEF Accept, Enqueued, RouteCrashes, GateConsent
  <2>4. CASE EnqueueRaises
    <3>1. row'.paused = row.paused /\ row'.approved = row.approved
      BY <1>0, <2>4 DEF EnqueueRaises, RowType
    <3> QED  BY <2>1, <3>1 DEF GateConsent
  <2> QED  BY <1>4, <2>2, <2>3, <2>4 DEF Route
<1>5. ASSUME NEW e \in Execs, Crash(e) PROVE ConsentInv'
  <2>1. UNCHANGED <<mem, fired, row, seen, consented>>  BY <1>5 DEF Crash
  <2>2. \A f \in Execs : actor'[f] = "claimed" => actor[f] = "claimed"
    BY <1>0, <1>5 DEF Crash
  <2> QED  BY <2>1, <2>2 DEF GateConsent
<1>6. CASE SetAutonomy
  BY <1>6 DEF SetAutonomy, execVars, GateConsent
<1> QED  BY <1>1, <1>2, <1>3, <1>4, <1>5, <1>6 DEF Next

(* In every graph, under every autonomy policy and every edit of it, with  *)
(* any number of racing approvers and with crashes of any process, a gate, *)
(* a containment node and a hitl_required capability run only when an      *)
(* approver claimed the run paused at that very step, as long as the queue *)
(* delivers the job once.                                                  *)
THEOREM Consent ==
  ASSUME Redeliver = FALSE
  PROVE  Spec => []GateConsent
<1>1. Init => TypeInv /\ ExclusiveInv /\ ConsentInv
  BY TypeInvInit, ExclusiveInvInit, ConsentInvInit
<1>2. (TypeInv /\ ExclusiveInv /\ ConsentInv) /\ [Next]_vars
        => (TypeInv /\ ExclusiveInv /\ ConsentInv)'
  BY TypeInvStep, ExclusiveInvStep, ConsentInvStep
<1>3. TypeInv /\ ExclusiveInv /\ ConsentInv => GateConsent
  BY DEF ConsentInv
<1> QED  BY <1>1, <1>2, <1>3, PTL DEF Spec

-----------------------------------------------------------------------------
(* Egress needs no such assumption: no gate lets a refused node through. *)

LEMMA EgressStep == TypeInv /\ EgressRespected /\ [Next]_vars => EgressRespected'
<1> SUFFICES ASSUME TypeInv, EgressRespected, [Next]_vars PROVE EgressRespected'
  OBVIOUS
<1>0. /\ Nodes \subseteq Steps /\ fired \in [Steps -> Nat]
      /\ walker \in [Execs -> [Steps -> GoodWalker]]
  BY GraphAssumption DEF TypeInv, ExecTypeInv
<1>1. CASE UNCHANGED fired
  BY <1>1 DEF EgressRespected
<1>2. ASSUME NEW e \in Execs, NEW w \in Steps, Fire(e, w) PROVE EgressRespected'
  <2> DEFINE s == Here(e, w)
  <2>1. s \in Nodes /\ GateAnswer(Stamp(mem[e], s), s) = "run"  BY <1>2 DEF Fire, AtNode
  <2>2. ~PolicyRefuses(NodeOf[s], ActiveTlp)  BY <2>1 DEF GateAnswer, BeforeRun
  <2>3. \A t \in Nodes : t # s => fired'[t] = fired[t]  BY <1>0, <1>2 DEF Fire
  <2> QED  BY <2>2, <2>3 DEF EgressRespected
<1>3. ASSUME NEW e \in Execs, NEW w \in Steps, Merge(e, w) PROVE EgressRespected'
  <2> DEFINE s == Here(e, w)
  <2>1. s \in Nodes /\ NodeOf[s].kind = "parallel"
    BY <1>0, <1>3 DEF Gathered, Merge, GoodWalker, Here
  <2>2. ~PolicyRefuses(NodeOf[s], ActiveTlp)  BY <2>1, GraphAssumption DEF PolicyRefuses
  <2>3. \A t \in Nodes : t # s => fired'[t] = fired[t]  BY <1>0, <1>3 DEF Gathered, Merge
  <2> QED  BY <2>2, <2>3 DEF EgressRespected
<1>4. ASSUME NEW e \in Execs, NEW w \in Steps, Walk(e, w) PROVE EgressRespected'
  BY <1>1, <1>2, <1>3, <1>4
     DEF Walk, WalkStep, WalkAborts, Reuse, PassThrough, PrepareFails, GateStops, Return,
         NodeRaises, Fork, Propagate
<1>5. ASSUME NEW e \in Execs, Service(e) PROVE UNCHANGED fired
  BY <1>5 DEF Service, RunInline, InsertRun, SkipRun, FailRun, ExecutePendingRun,
      PersistPendingRun, Ack, Claim, ClaimRefused, ResumeRefused, ResumeRun,
      PersistResumedRun, Begin, execVars
<1>6. ASSUME Route PROVE UNCHANGED fired
  BY <1>6 DEF Route, CreatePendingRun, Accept, Enqueued, EnqueueRaises, RouteCrashes, execVars
<1> QED
  BY <1>1, <1>4, <1>5, <1>6 DEF Next, Crash, SetAutonomy, vars, execVars

(* Under every delivery of the job, every crash and every approval, a step *)
(* whose connector manifest refuses the run's TLP, or resolves to no       *)
(* capability, is never run: no approval bypasses the egress policy.       *)
THEOREM Egress == Spec => []EgressRespected
<1>1. Init => EgressRespected
  BY GraphAssumption DEF Init, ExecInit, EgressRespected
<1>2. (TypeInv /\ EgressRespected) /\ [Next]_vars => (TypeInv /\ EgressRespected)'
  BY TypeInvStep, EgressStep
<1> QED  BY <1>1, <1>2, TypeInvInit, PTL DEF Spec
=============================================================================
