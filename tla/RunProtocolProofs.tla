--------------------------- MODULE RunProtocolProofs ---------------------------
(***************************************************************************)
(* Each effect of a run happens once at most, also when the workflow forks *)
(* into branches that do not pause.  For workflows without parallel steps: *)
(* the evidence is complete whenever the run rests, and WorkflowRun        *)
(* implements RunProtocol; a branch that goes on after its run has failed  *)
(* breaks both.                                                            *)
(***************************************************************************)
EXTENDS RunRecordProofs

-----------------------------------------------------------------------------
(* A graph without parallel nodes: the root walks alone, and only while    *)
(* its execution is live.                                                  *)

Sequential == \A s \in Nodes : NodeOf[s].kind # "parallel"

EdgeTo(s, t) == \E i \in DOMAIN Edges : Edges[i].source = s /\ Edges[i].target = t

LEMMA FirstTargetEdge ==
  ASSUME NEW s, NEW I \in SUBSET OutEdges(s), I # {}
  PROVE  EdgeTo(s, FirstTarget(I))
<1>1. I \subseteq Nat /\ I \subseteq DOMAIN Edges  BY GraphAssumption DEF OutEdges
<1>2. \E i \in I : \A j \in I : i <= j  BY <1>1, FirstEdgeExists
<1>3. (CHOOSE i \in I : \A j \in I : i <= j) \in I  BY <1>2
<1> QED  BY <1>1, <1>3 DEF FirstTarget, EdgeTo, OutEdges

(* A walker is routed along an edge of the step it leaves, or to the end.  *)
LEMMA TargetEdge ==
  ASSUME NEW s \in Nodes, NEW b, Routable(s, b), Target(s, b) # None
  PROVE  EdgeTo(s, Target(s, b))
<1>1. /\ Labelled(s, {b}) \subseteq OutEdges(s) /\ Labelled(s, {"next"}) \subseteq OutEdges(s)
      /\ Labelled(s, {"join"}) \subseteq OutEdges(s)
  BY DEF Labelled
<1>2. CASE NodeOf[s].kind = "decision"
  BY <1>1, <1>2, FirstTargetEdge DEF Target, Routable
<1>3. CASE NodeOf[s].kind = "parallel"
  BY <1>1, <1>3, FirstTargetEdge DEF Target, NextParallelStep, FirstTargetOrNone
<1>4. CASE NodeOf[s].kind \notin {"decision", "parallel"}
  BY <1>1, <1>4, FirstTargetEdge DEF Target, NextStep, FirstTargetOrNone
<1> QED  BY <1>2, <1>3, <1>4

Alone(ws) == \A v \in Steps : v # Root => ws[v] = Idle

(* Walker k has failed. *)
Fails(k) == k.pc = "raised" /\ k.exc.kind = "failed"

(* Walker k has left step s. *)
MovedOn(s, k) == Fails(k) \/ k.pc = "done" \/ (k.pc = "walk" /\ k.at \in Steps /\ EdgeTo(s, k.at))

LEMMA RaiseAlone ==
  ASSUME NEW ws \in [Steps -> GoodWalker], Alone(ws), NEW x \in Exceptions
  PROVE  /\ Alone(RaiseIn(ws, Root, x))
         /\ RaiseIn(ws, Root, x)[Root].pc = "raised"
         /\ RaiseIn(ws, Root, x)[Root].exc = x
<1>1. /\ [ws[Root] EXCEPT !.pc = "raised", !.exc = x].pc = "raised"
      /\ [ws[Root] EXCEPT !.pc = "raised", !.exc = x].exc = x
  BY RootType DEF GoodWalker, WalkerType
<1>2. \A v \in Steps : v # Root => ws[v].pc # "fork"
  BY DEF Alone, Idle
<1> QED  BY <1>1, <1>2, RootType DEF RaiseIn, Alone

LEMMA ProceedAlone ==
  ASSUME NEW ws \in [Steps -> GoodWalker], Alone(ws), NEW s \in Nodes, NEW b
  PROVE  Alone(Proceed(ws, Root, s, b)) /\ MovedOn(s, Proceed(ws, Root, s, b)[Root])
<1>1. CASE Routable(s, b)
  <2> DEFINE t == Target(s, b)
             k == Arrive(ws[Root], t)
  <2>1. Proceed(ws, Root, s, b) = [ws EXCEPT ![Root] = k]
    BY <1>1 DEF Proceed
  <2>2. t \in Steps \cup {None} /\ (t # None => EdgeTo(s, t))
    BY <1>1, TargetType, TargetEdge
  <2>3. ws[Root] \in WalkerType  BY RootType DEF GoodWalker
  <2> HIDE DEF t
  <2>4. k.pc = "done" \/ (k.pc = "walk" /\ k.at = t /\ t # None)
    BY <2>3 DEF Arrive, WalkerType
  <2> HIDE DEF k
  <2> QED  BY <2>1, <2>2, <2>4, RootType DEF Alone, MovedOn
<1>2. CASE ~Routable(s, b)
  <2>1. Proceed(ws, Root, s, b) = RaiseIn(ws, Root, Failed(s)) /\ Failed(s) \in Exceptions
    BY <1>2, FailedType, GraphAssumption DEF Proceed
  <2>2. Failed(s).kind = "failed"  BY DEF Failed
  <2> QED  BY <2>1, <2>2, RaiseAlone DEF MovedOn, Fails
<1> QED  BY <1>1, <1>2

(* What a walk of the root does, seen from its execution: it fails, stops  *)
(* at a gate, moves on along an edge, or starts or ends a Node.run.        *)
RootTable(e) ==
  LET s == Here(e, Root)
      k == walker[e][Root]
      l == walker'[e][Root]
      m == mem[e]
      n == mem'[e]
  IN \/ /\ Fails(l) /\ Keeps(m, n) /\ UNCHANGED <<fired, returned>>
     \/ /\ k.pc = "walk" /\ l.pc = "raised" /\ Keeps(m, n) /\ UNCHANGED <<fired, returned>>
     \/ /\ k.pc = "walk" /\ s \in m.completed /\ MovedOn(s, l)
        /\ Keeps(m, n) /\ UNCHANGED <<fired, returned>>
     \/ /\ k.pc = "walk" /\ MovedOn(s, l)
        /\ Records(m, n, s) /\ n.chain = m.chain /\ UNCHANGED <<fired, returned>>
     \/ /\ k.pc = "walk" /\ l.pc = "run" /\ l.at = s /\ s \in Nodes
        /\ s \notin m.completed
        /\ Keeps(m, n) /\ fired' = [fired EXCEPT ![s] = @ + 1] /\ UNCHANGED returned
     \/ /\ k.pc = "run" /\ MovedOn(s, l) /\ s \in Nodes
        /\ Records(m, n, s) /\ Attests(m, n, e, s)
        /\ UNCHANGED fired /\ returned' = [returned EXCEPT ![s] = @ + 1]

LEMMA RootWalks ==
  ASSUME Sequential, TypeInv, AnsweredInv, NEW e \in Execs, Alone(walker[e]),
         NEW w \in Steps, WalkStep(e, w)
  PROVE  /\ w = Root /\ walker[e][Root].pc \in {"walk", "run"}
         /\ Alone(walker'[e]) /\ walker'[e][Root].pc # "idle"
         /\ RootTable(e)
<1> DEFINE s == Here(e, Root)
           k == walker[e][Root]
           l == walker'[e][Root]
           m == mem[e]
           n == mem'[e]
           ws == walker[e]
           vs == walker'[e]
<1>0. /\ ws \in [Steps -> GoodWalker] /\ ws[Root] \in GoodWalker /\ ws[w] \in GoodWalker
      /\ walker \in [Execs -> [Steps -> GoodWalker]]
      /\ Nodes \subseteq Steps /\ s \in Steps \cup {None} /\ MemAnswered(m)
  BY RootType, GraphAssumption
     DEF TypeInv, ExecTypeInv, GoodWalker, WalkerType, Here, AnsweredInv
<1>1. w = Root
  <2>1. ws[w].pc # "idle"
    BY DEF WalkStep, WalkAborts, Reuse, PassThrough, PrepareFails, GateStops, Fire, Return,
           NodeRaises, Fork, Gathered, Merge, Propagate, AtNode
  <2> QED  BY <2>1 DEF Alone, Idle
<1>2. ws[Root].pc # "fork"  BY <1>0 DEF GoodWalker, Sequential
<1>3. ~Fork(e, Root) /\ ~Merge(e, Root) /\ ~Propagate(e, Root)
  BY <1>2 DEF Fork, AtNode, Gathered, Merge, Propagate, Sequential
<1>4. k.pc \in {"walk", "run"}
  BY <1>1, <1>2, <1>3 DEF WalkStep, WalkAborts, Reuse, PassThrough, PrepareFails, GateStops, Fire,
       Return, NodeRaises, Gathered, AtNode
<1>5. CASE WalkAborts(e, Root) \/ PrepareFails(e, Root) \/ NodeRaises(e, Root)
  <2>1. vs = RaiseIn(ws, Root, Failed(s)) /\ UNCHANGED <<mem, fired, returned>>
    BY <1>0, <1>5 DEF WalkAborts, PrepareFails, NodeRaises
  <2>2. Failed(s) \in Exceptions /\ Failed(s).kind = "failed"
    BY <1>0, FailedType DEF Failed
  <2>3. Alone(vs) /\ Fails(l)  BY <1>0, <2>1, <2>2, RaiseAlone DEF Fails
  <2>4. Keeps(m, n)  BY <2>1 DEF Keeps
  <2> QED  BY <1>1, <1>4, <2>1, <2>3, <2>4 DEF RootTable, Fails
<1>6. CASE GateStops(e, Root)
  <2>1. /\ \E x \in Exceptions : vs = RaiseIn(ws, Root, x)
        /\ k.pc = "walk" /\ UNCHANGED <<fired, returned>>
    BY <1>0, <1>6, FailedType DEF GateStops, AtNode
  <2>2. Alone(vs) /\ l.pc = "raised"  BY <1>0, <2>1, RaiseAlone
  <2>3. Keeps(m, n)
    <3>1. n = Stamp(m, s) /\ m \in MemType(Orgs) /\ s \in Steps
      BY <1>0, <1>6 DEF GateStops, AtNode, TypeInv, ExecTypeInv
    <3> QED  BY <3>1, Stamped
  <2> QED  BY <1>1, <1>4, <2>1, <2>2, <2>3 DEF RootTable
<1>7. CASE Reuse(e, Root)
  <2>1. /\ s \in Nodes /\ s \in m.completed /\ k.pc = "walk"
        /\ vs = Proceed(ws, Root, s, m.branch[s]) /\ UNCHANGED <<mem, fired, returned>>
    BY <1>0, <1>7 DEF Reuse, Reusable
  <2>2. Alone(vs) /\ MovedOn(s, l)  BY <1>0, <2>1, ProceedAlone
  <2>3. Keeps(m, n)  BY <2>1 DEF Keeps
  <2> QED  BY <1>1, <1>4, <2>1, <2>2, <2>3 DEF RootTable, MovedOn, Fails
<1>8. CASE PassThrough(e, Root)
  <2>1. /\ s \in Nodes /\ k.pc = "walk"
        /\ vs = Proceed(ws, Root, s, None) /\ UNCHANGED <<fired, returned>>
        /\ n = RecordOutput(m, s, None)
    BY <1>0, <1>8 DEF PassThrough, AtNode, TypeInv, ExecTypeInv
  <2>2. Alone(vs) /\ MovedOn(s, l)  BY <1>0, <2>1, ProceedAlone
  <2>3. Records(m, n, s) /\ n.chain = m.chain
    BY <1>0, <2>1, Recorded DEF TypeInv, ExecTypeInv
  <2> QED  BY <1>1, <1>4, <2>1, <2>2, <2>3 DEF RootTable, MovedOn, Fails
<1>9. CASE Fire(e, Root)
  <2>1. /\ s \in Nodes /\ ~Reusable(e, s) /\ k.pc = "walk"
        /\ vs = [ws EXCEPT ![Root] = [ws[Root] EXCEPT !.pc = "run"]]
        /\ fired' = [fired EXCEPT ![s] = @ + 1] /\ UNCHANGED returned
    BY <1>0, <1>9 DEF Fire, AtNode
  <2>2. s \notin m.completed  BY <1>0, <2>1 DEF Reusable, MemAnswered
  <2>3. l.pc = "run" /\ l.at = s /\ Alone(vs)
    BY <1>0, <2>1, RootType DEF Alone, GoodWalker, WalkerType, Here
  <2>4. Keeps(m, n)
    <3>1. n = Stamp(m, s) /\ m \in MemType(Orgs)
      BY <1>9 DEF Fire, TypeInv, ExecTypeInv
    <3> QED  BY <1>0, <2>1, <3>1, Stamped
  <2> QED  BY <1>1, <1>4, <2>1, <2>2, <2>3, <2>4 DEF RootTable
<1>10. CASE Return(e, Root)
  <2>1. /\ s \in Nodes /\ k.pc = "run"
        /\ \E b : vs = Proceed(ws, Root, s, b)
        /\ UNCHANGED fired
    BY <1>0, <1>10 DEF Return, GoodWalker, Here
  <2>2. Alone(vs) /\ MovedOn(s, l)  BY <1>0, <2>1, ProceedAlone
  <2>3. /\ Records(m, n, s) /\ Attests(m, n, e, s)
        /\ returned' = [returned EXCEPT ![s] = @ + 1]
    <3>1. /\ \E b : n = RecordOutput(AppendEvidence(m, e, s), s, b)
          /\ returned' = [returned EXCEPT ![s] = @ + 1]
          /\ m \in MemType(Orgs) /\ s \in Steps
      BY <1>0, <1>10, <2>1 DEF Return, TypeInv, ExecTypeInv
    <3> QED  BY <3>1, Evidenced
  <2> QED  BY <1>1, <1>4, <2>1, <2>2, <2>3 DEF RootTable, MovedOn, Fails
<1> QED
  BY <1>1, <1>3, <1>5, <1>6, <1>7, <1>8, <1>9, <1>10 DEF WalkStep

QuietInv ==
  \A e \in Execs :
    /\ Alone(walker[e])
    /\ actor[e] # "live" => walker[e][Root].pc \in {"idle", "done", "raised"}
    /\ actor[e] = "live" => walker[e][Root].pc # "idle"

LEMMA QuietInvInit == Init => QuietInv
BY RootType DEF Init, ExecInit, QuietInv, Alone, Idle

(* An execution that begins walks from the root, or has failed for want of *)
(* an entry; it has no step of its own yet.                                *)
Started(e) ==
  /\ Alone(walker'[e])
  /\ LET k == walker'[e][Root]
     IN /\ Fails(k) \/ (k.pc = "walk" /\ k.at = Root /\ k.exc = None)
        /\ k.parent = None
  /\ mem'[e].completed = RangeOf(mem'[e].nodes)

LEMMA BeginStarts ==
  ASSUME TypeInv, NEW e \in Execs, RunInline(e) \/ ExecutePendingRun(e) \/ ResumeRun(e)
  PROVE  Started(e)
<1>1. \A v \in Steps :
        walker'[e][v] = IF v # Root THEN Idle
                        ELSE IF HasEntry THEN [Idle EXCEPT !.pc = "walk", !.at = Root]
                        ELSE [Idle EXCEPT !.pc = "raised", !.exc = Failed(None)]
  BY DEF RunInline, ExecutePendingRun, ResumeRun, Begin, TypeInv, ExecTypeInv
<1>2. mem'[e].completed = RangeOf(mem'[e].nodes)
  BY DEF RunInline, ExecutePendingRun, ResumeRun, Begin, TypeInv, ExecTypeInv
<1> DEFINE Ready(k) == /\ Fails(k) \/ (k.pc = "walk" /\ k.at = Root /\ k.exc = None)
                       /\ k.parent = None
<1>3. /\ Ready([Idle EXCEPT !.pc = "walk", !.at = Root])
      /\ Ready([Idle EXCEPT !.pc = "raised", !.exc = Failed(None)])
  BY DEF Idle, Fails, Failed
<1>4. Ready(walker'[e][Root])
  <2>1. walker'[e][Root] = IF HasEntry THEN [Idle EXCEPT !.pc = "walk", !.at = Root]
                           ELSE [Idle EXCEPT !.pc = "raised", !.exc = Failed(None)]
    BY <1>1, RootType
  <2> HIDE DEF Ready
  <2> QED  BY <1>3, <2>1
<1> QED  BY <1>1, <1>2, <1>4 DEF Started, Alone

LEMMA QuietInvStep ==
  ASSUME Sequential, TypeInv, AnsweredInv, QuietInv, [Next]_vars
  PROVE  QuietInv'
<1>0. actor \in [Execs -> {"idle", "claimed", "live", "committed", "ended", "gone"}]
  BY DEF TypeInv, RunTypeInv
<1>1. CASE UNCHANGED <<walker, actor>>
  BY <1>1 DEF QuietInv
<1>2. ASSUME NEW e \in Execs, NEW w \in Steps, Walk(e, w) PROVE QuietInv'
  <2>1. UNCHANGED actor /\ WalkStep(e, w)  BY <1>2 DEF Walk, runVars
  <2>2. \A f \in Execs : f # e => walker'[f] = walker[f]  BY <2>1, WalkFrame
  <2>3. /\ walker[e][Root].pc \in {"walk", "run"}
        /\ Alone(walker'[e]) /\ walker'[e][Root].pc # "idle"
    BY <2>1, RootWalks DEF QuietInv
  <2>4. actor[e] = "live"  BY <2>3 DEF QuietInv
  <2> QED  BY <2>1, <2>2, <2>3, <2>4 DEF QuietInv
<1>3. ASSUME NEW e \in Execs, RunInline(e) \/ ExecutePendingRun(e) \/ ResumeRun(e)
      PROVE  QuietInv'
  <2>1. /\ \A f \in Execs : f # e => walker'[f] = walker[f] /\ actor'[f] = actor[f]
        /\ actor'[e] = "live"
    BY <1>0, <1>3 DEF RunInline, ExecutePendingRun, ResumeRun, Begin, TypeInv, ExecTypeInv
  <2>2. Started(e)  BY <1>3, BeginStarts
  <2>3. Alone(walker'[e]) /\ walker'[e][Root].pc # "idle"
    BY <2>2 DEF Started, Fails
  <2> QED  BY <2>1, <2>3 DEF QuietInv
<1>4. ASSUME NEW e \in Execs, InsertRun(e) \/ PersistPendingRun(e) \/ PersistResumedRun(e)
      PROVE  QuietInv'
  <2>1. /\ UNCHANGED walker /\ walker[e][Root].pc \in {"done", "raised"}
        /\ \A f \in Execs : f # e => actor'[f] = actor[f]
        /\ actor'[e] # "live"
    BY <1>0, <1>4 DEF InsertRun, PersistPendingRun, PersistResumedRun, RootDone, execVars
  <2> QED  BY <2>1 DEF QuietInv
<1>5. ASSUME NEW e \in Execs,
             SkipRun(e) \/ FailRun(e) \/ Ack(e) \/ Claim(e) \/ ClaimRefused(e) \/ ResumeRefused(e)
      PROVE  QuietInv'
  <2>1. /\ UNCHANGED walker /\ actor[e] # "live" /\ actor'[e] # "live"
        /\ \A f \in Execs : f # e => actor'[f] = actor[f]
    BY <1>0, <1>5
       DEF SkipRun, FailRun, Ack, Claim, ClaimRefused, ResumeRefused, JobDelivered, execVars
  <2> QED  BY <2>1 DEF QuietInv
<1>6. ASSUME NEW e \in Execs, Crash(e) PROVE QuietInv'
  <2>1. /\ \A f \in Execs : f # e => actor'[f] = actor[f] /\ walker'[f] = walker[f]
        /\ actor'[e] = "gone" /\ \A v \in Steps : walker'[e][v] = Idle
    BY <1>0, <1>6 DEF Crash, Kill, TypeInv, ExecTypeInv
  <2>2. Alone(walker'[e]) /\ walker'[e][Root].pc = "idle"
    BY <2>1, RootType DEF Alone, Idle
  <2> QED  BY <2>1, <2>2 DEF QuietInv
<1>7. CASE Route \/ SetAutonomy \/ UNCHANGED vars
  BY <1>1, <1>7 DEF Route, CreatePendingRun, Accept, Enqueued, EnqueueRaises, RouteCrashes,
                    SetAutonomy, vars, execVars, runVars
<1> QED
  BY <1>2, <1>3, <1>4, <1>5, <1>6, <1>7 DEF Next, Service

-----------------------------------------------------------------------------
(* How an execution is handed from one request or job to the next, and     *)
(* what the row carries over in between.                                   *)

(* Nobody has worked on the run yet. *)
Fresh == Untouched \/ JobWaits

(* The next execution goes on from the row. *)
Carried == row.status = "paused" \/ \E e \in Execs : actor[e] = "claimed"

AtRest == row.status \in {"paused", "succeeded", "failed"} \/ \E e \in Execs : actor[e] = "claimed"

(* Execution f is live after a step that is not a walk: it was, or it      *)
(* begins, as the first of its run or from the row's checkpoint.           *)
TakesOver(f) ==
  \/ actor[f] = "live" /\ mem'[f] = mem[f] /\ walker'[f] = walker[f]
  \/ Fresh /\ Started(f) /\ mem'[f].nodes = << >> /\ mem'[f].chain = << >>
  \/ /\ actor[f] = "claimed" /\ Started(f)
     /\ mem'[f].nodes = row.nodes /\ mem'[f].chain = row.chain

(* Execution e hands its outcome back to the row. *)
HandsBack(e) ==
  /\ actor[e] = "live" /\ RootDone(e)
  /\ row'.status = OutcomeStatus(e) /\ row'.chain = mem[e].chain
  /\ OutcomeStatus(e) = "paused" => row'.nodes = mem[e].nodes

Handover ==
  /\ UNCHANGED <<fired, returned>>
  /\ Fresh' => Fresh
  /\ \A f \in Execs : actor'[f] = "live" => TakesOver(f)
  /\ Carried' => \/ Carried /\ row'.nodes = row.nodes
                 \/ \E e \in Execs : HandsBack(e) /\ OutcomeStatus(e) = "paused"
  /\ BrokerMayAnswerLate = FALSE /\ AtRest' =>
       \/ AtRest /\ row'.chain = row.chain
       \/ Fresh /\ row'.chain = << >>
       \/ \E e \in Execs : HandsBack(e)

LEMMA HandoverStep ==
  ASSUME Redeliver = FALSE, TypeInv, ExclusiveInv, SessionInv,
         \/ \E e \in Execs : Service(e) \/ Crash(e)
         \/ Route \/ SetAutonomy
  PROVE  Handover
<1>0. /\ actor \in [Execs -> {"idle", "claimed", "live", "committed", "ended", "gone"}]
      /\ row \in RowType
      /\ InlineExecs \subseteq Execs /\ JobExecs \subseteq Execs /\ Approvers \subseteq Execs
      /\ InlineExecs \cap JobExecs = {} /\ JobExecs \cap Approvers = {}
  BY RunAssumption DEF TypeInv, RunTypeInv
<1>1. UNCHANGED <<fired, returned>>
  BY ServiceFrame, RestFrame
<1>2. JobWaits => Unheld /\ row.status # "paused" /\ Blank(row)
  BY DEF ExclusiveInv, JobWaits, SessionInv
<1>3. CASE \E e \in Execs : RunInline(e) \/ ExecutePendingRun(e)
  <2>1. PICK e \in Execs : RunInline(e) \/ ExecutePendingRun(e)  BY <1>3
  <2>0. Begin(e, << >>, NoBranch, {}, << >>, org)
    BY <2>1 DEF RunInline, ExecutePendingRun
  <2>2. /\ Started(e) /\ UNCHANGED row
        /\ mem'[e].nodes = << >> /\ mem'[e].chain = << >>
        /\ actor'[e] = "live"
        /\ \A f \in Execs : f # e => mem'[f] = mem[f] /\ walker'[f] = walker[f]
                                     /\ actor'[f] = actor[f]
    <3>1. Started(e)  BY <2>1, BeginStarts
    <3>2. /\ mem'[e].nodes = << >> /\ mem'[e].chain = << >>
          /\ \A f \in Execs : f # e => mem'[f] = mem[f] /\ walker'[f] = walker[f]
      BY <2>0 DEF Begin, TypeInv, ExecTypeInv
    <3>3. UNCHANGED row /\ actor' = [actor EXCEPT ![e] = "live"]
      BY <2>1 DEF RunInline, ExecutePendingRun
    <3> QED  BY <1>0, <3>1, <3>2, <3>3
  <2>3. Fresh  BY <2>1 DEF RunInline, ExecutePendingRun, JobDelivered, Fresh, JobWaits
  <2>4. \A f \in Execs : actor'[f] = "live" => TakesOver(f)
    BY <2>2, <2>3 DEF TakesOver
  <2>5. Carried' => Carried  BY <2>2 DEF Carried
  <2>6. AtRest' => AtRest  BY <2>2 DEF AtRest
  <2> QED  BY <1>1, <2>2, <2>3, <2>4, <2>5, <2>6 DEF Handover
<1>4. CASE \E e \in Execs : ResumeRun(e)
  <2>1. PICK e \in Execs : ResumeRun(e)  BY <1>4
  <2>2. /\ Started(e) /\ UNCHANGED <<row, route, job>>
        /\ mem'[e].nodes = row.nodes /\ mem'[e].chain = row.chain
        /\ actor[e] = "claimed" /\ actor'[e] = "live"
        /\ \A f \in Execs : f # e => mem'[f] = mem[f] /\ walker'[f] = walker[f]
                                     /\ actor'[f] = actor[f]
    BY <1>0, <2>1, BeginStarts
       DEF ResumeRun, Begin, PriorEvidence, TypeInv, ExecTypeInv
  <2>3. Fresh' => Fresh  BY <2>2 DEF Fresh, Untouched, JobWaits
  <2>4. \A f \in Execs : actor'[f] = "live" => TakesOver(f)
    BY <2>2 DEF TakesOver
  <2>5. Carried' => Carried  BY <2>2 DEF Carried
  <2>6. AtRest' => AtRest  BY <2>2 DEF AtRest
  <2> QED  BY <1>1, <2>2, <2>3, <2>4, <2>5, <2>6 DEF Handover
<1>5. CASE \E e \in Execs : InsertRun(e) \/ PersistPendingRun(e) \/ PersistResumedRun(e)
  <2>1. PICK e \in Execs : InsertRun(e) \/ PersistPendingRun(e) \/ PersistResumedRun(e)
    BY <1>5
  <2>2. /\ UNCHANGED <<mem, walker, route, job>> /\ RootDone(e) /\ actor[e] = "live"
        /\ actor'[e] \in {"ended", "committed"}
        /\ \A f \in Execs : f # e => actor'[f] = actor[f]
    BY <1>0, <2>1 DEF InsertRun, PersistPendingRun, PersistResumedRun, execVars
  <2>3. HandsBack(e)  BY <2>1, <2>2, Persisted DEF HandsBack
  <2>4. \A f \in Execs : actor'[f] \notin {"live", "claimed"}
    BY <2>2 DEF ExclusiveInv, ExclusiveExecution, Holding
  <2>5. ~Fresh'
    BY <1>2, <2>2 DEF Fresh, Untouched, JobWaits, Unheld, Holding
  <2>6. Carried' => OutcomeStatus(e) = "paused"
    BY <2>3, <2>4 DEF Carried, HandsBack
  <2> QED  BY <1>1, <2>3, <2>4, <2>5, <2>6 DEF Handover
<1>6. CASE \E e \in Execs : SkipRun(e) \/ Ack(e) \/ ClaimRefused(e) \/ ResumeRefused(e) \/ Crash(e)
  <2>1. PICK e \in Execs :
          SkipRun(e) \/ Ack(e) \/ ClaimRefused(e) \/ ResumeRefused(e) \/ Crash(e)
    BY <1>6
  <2>2. /\ UNCHANGED <<mem, row, route>> /\ job' \in {job, "acked"}
        /\ actor'[e] \in {"ended", "gone"}
        /\ \A f \in Execs : f # e => actor'[f] = actor[f] /\ walker'[f] = walker[f]
    BY <1>0, <2>1
       DEF SkipRun, Ack, ClaimRefused, ResumeRefused, Crash, Kill, execVars, TypeInv, ExecTypeInv
  <2>3. Fresh' => Fresh  BY <2>2 DEF Fresh, Untouched, JobWaits
  <2>4. \A f \in Execs : actor'[f] = "live" => TakesOver(f)
    BY <2>2 DEF TakesOver
  <2>5. Carried' => Carried  BY <2>2 DEF Carried
  <2>6. AtRest' => AtRest  BY <2>2 DEF AtRest
  <2> QED  BY <1>1, <2>2, <2>3, <2>4, <2>5, <2>6 DEF Handover
<1>7. CASE \E e \in Execs : FailRun(e)
  <2>1. PICK e \in Execs : FailRun(e)  BY <1>7
  <2>2. /\ UNCHANGED <<mem, walker, route>> /\ job' = "acked" /\ JobWaits
        /\ actor'[e] = "ended" /\ row'.status = "failed" /\ row'.chain = row.chain
        /\ \A f \in Execs : f # e => actor'[f] = actor[f]
    BY <1>0, <2>1, OtherColumns
       DEF FailRun, JobDelivered, JobWaits, execVars, RowType
  <2>3. \A f \in Execs : actor'[f] \notin {"live", "claimed"}
    BY <1>2, <2>2 DEF Unheld, Holding
  <2>4. ~Fresh' /\ ~Carried' /\ Fresh /\ row'.chain = << >>
    BY <1>2, <2>2, <2>3 DEF Fresh, Untouched, JobWaits, Carried, Blank
  <2> QED  BY <1>1, <2>3, <2>4 DEF Handover
<1>8. CASE \E e \in Execs : Claim(e)
  <2>1. PICK e \in Execs : Claim(e)  BY <1>8
  <2>2. /\ UNCHANGED <<mem, walker, route, job>> /\ row.status = "paused"
        /\ actor'[e] = "claimed"
        /\ row'.chain = row.chain /\ row'.nodes = row.nodes
        /\ \A f \in Execs : f # e => actor'[f] = actor[f]
    BY <1>0, <2>1, OtherColumns DEF Claim, Claimable, execVars
  <2>3. Fresh' => Fresh  BY <2>2 DEF Fresh, Untouched, JobWaits
  <2>4. \A f \in Execs : actor'[f] = "live" => TakesOver(f)
    BY <2>2 DEF TakesOver
  <2>5. Carried /\ AtRest  BY <2>2 DEF Carried, AtRest
  <2> QED  BY <1>1, <2>2, <2>3, <2>4, <2>5 DEF Handover
<1>9. CASE CreatePendingRun
  <2>1. /\ row'.status = "running" /\ Fresh
        /\ \A f \in Execs : actor'[f] = "idle"
    BY <1>9 DEF CreatePendingRun, Untouched, NoRow, Fresh
  <2> QED  BY <1>1, <2>1 DEF Handover, Carried, AtRest
<1>10. CASE EnqueueRaises
  <2>1. /\ UNCHANGED <<mem, walker, actor, job>>
        /\ row'.status = "failed" /\ row'.chain = row.chain /\ row'.nodes = row.nodes
        /\ route = "enqueuing" /\ route' = "done"
        /\ BrokerMayAnswerLate = FALSE => JobWaits
    BY <1>0, <1>10, OtherColumns DEF EnqueueRaises, execVars, RowType, JobWaits
  <2>2. Fresh' => Fresh  BY <2>1 DEF Fresh, Untouched, JobWaits
  <2>3. \A f \in Execs : actor'[f] = "live" => TakesOver(f)
    BY <2>1 DEF TakesOver
  <2>4. Carried' => Carried  BY <2>1 DEF Carried
  <2>5. JobWaits => Fresh /\ row.chain = << >>  BY <1>2 DEF Fresh, Blank
  <2> QED  BY <1>1, <2>1, <2>2, <2>3, <2>4, <2>5 DEF Handover
<1>11. CASE Accept \/ Enqueued \/ RouteCrashes \/ SetAutonomy
  <2>1. /\ UNCHANGED <<mem, walker, row, actor>>
        /\ JobWaits' => JobWaits
        /\ Untouched' => Untouched
    BY <1>11 DEF Accept, Enqueued, RouteCrashes, SetAutonomy, execVars, JobWaits, Untouched
  <2>2. Fresh' => Fresh  BY <2>1 DEF Fresh
  <2>3. \A f \in Execs : actor'[f] = "live" => TakesOver(f)
    BY <2>1 DEF TakesOver
  <2>4. Carried' => Carried  BY <2>1 DEF Carried
  <2>5. AtRest' => AtRest  BY <2>1 DEF AtRest
  <2> QED  BY <1>1, <2>1, <2>2, <2>3, <2>4, <2>5 DEF Handover
<1> QED
  BY <1>3, <1>4, <1>5, <1>6, <1>7, <1>8, <1>9, <1>10, <1>11 DEF Service, Route

-----------------------------------------------------------------------------
(* At most once. In a graph without cycles a walk only moves up in Rank,   *)
(* so the steps an execution ran itself are all behind its walkers.        *)

Ascends(r) == \A i \in DOMAIN Edges : r[Edges[i].source] < r[Edges[i].target]

Acyclic == \E r \in [Steps -> Nat] : Ascends(r)

Rank == CHOOSE r \in [Steps -> Nat] : Ascends(r)

LEMMA RankAscends ==
  ASSUME Acyclic
  PROVE  /\ Rank \in [Steps -> Nat]
         /\ \A s, t \in Steps : EdgeTo(s, t) => Rank[s] < Rank[t]
BY DEF Acyclic, Rank, Ascends, EdgeTo

Retained(r, runs) == \A s \in Steps : runs[s] > 0 => s \in RangeOf(r.nodes)

-----------------------------------------------------------------------------
(* Forks whose branches run through. The steps are parted among the        *)
(* walkers: the branches of different forks start at different steps, a    *)
(* step is walked by one walker only, and a branch leaves its part at the  *)
(* join of its fork, where it stops. No step of a branch waits for a       *)
(* human; then a run that pauses has no branch under way.                  *)

Forks == {f \in Nodes : NodeOf[f].kind = "parallel"}

(* Walker v meets step t in its part of the graph, or stops there.         *)
Leads(own, v, t) ==
  own[t] = v \/ \E f \in Forks : v \in BranchTargets(f) /\ t = NextParallelStep(f)

Parted(own) ==
  /\ own[Root] = Root
  /\ \A f \in Forks : \A v \in BranchTargets(f) : own[v] = v /\ v # Root
  /\ \A f, g \in Forks : BranchTargets(f) \cap BranchTargets(g) # {} => f = g
  /\ \A f \in Forks : NextParallelStep(f) # None => Leads(own, own[f], NextParallelStep(f))
  /\ \A s \in Nodes \ Forks, t \in Steps : EdgeTo(s, t) => Leads(own, own[s], t)

NeverPauses(s) ==
  \A o \in Orgs, ok \in BOOLEAN :
    BeforeRun(NodeOf[s], AgentAutonomy, o, ActiveTlp, ok) # "pause"

RunsThrough(own) == Parted(own) /\ \A s \in Nodes : own[s] # Root => NeverPauses(s)

BranchesRunThrough == \E own \in [Steps -> Steps] : RunsThrough(own)

Owner == CHOOSE own \in [Steps -> Steps] : RunsThrough(own)

Busy(k) == k.pc \in {"walk", "run", "fork"}

(* Walker k has left fork f behind. *)
Past(k, f) == (Busy(k) /\ Rank[f] < Rank[k.at]) \/ k.pc \in {"done", "raised"}

(* Walker w of a branch of fork f, seen from the walker that forked: it    *)
(* waits for the branch, has failed, or has gone on after the branch ended. *)
Under(ws, w, f) ==
  LET p == ws[Owner[f]]
  IN Fails(p) \/ (p.pc = "fork" /\ p.at = f) \/ (Past(p, f) /\ ws[w].pc = "done")

Branch(ws, w, f) ==
  /\ w \in BranchTargets(f)
  /\ ws[w].parent = Owner[f] /\ ws[w].stop = NextParallelStep(f)
  /\ Rank[Owner[f]] < Rank[w]
  /\ Under(ws, w, f)

InTree(ws, completed, w) ==
  /\ Busy(ws[w]) => /\ ws[w].at \in Steps /\ Owner[ws[w].at] = w
                    /\ Rank[w] <= Rank[ws[w].at]
                    /\ ws[w].exc # None => ws[w].exc.kind = "failed"
  /\ ws[w].pc = "fork" => ws[w].at \notin completed
  /\ w # Root /\ ws[w].pc = "raised" => Fails(ws[w])
  /\ w # Root /\ ws[w].pc # "idle" => \E f \in Forks : Branch(ws, w, f)

Tree(ws, completed) ==
  ws[Root].parent = None /\ \A w \in Steps : InTree(ws, completed, w)

(* Each walker has run steps behind it only, and knows of every Node.run   *)
(* of a step of its part, unless it has failed.                            *)
OrderedForks(ws, m) ==
  \A s \in RangeOf(m.nodes) \ m.completed :
    LET k == ws[Owner[s]] IN k.pc # "idle" /\ (Busy(k) => Rank[s] < Rank[k.at])

AccountedForks(ws, m, runs) ==
  \A s \in Steps :
    LET k == ws[Owner[s]]
    IN runs[s] > 0 => s \in RangeOf(m.nodes) \/ (k.pc = "run" /\ k.at = s) \/ Fails(k)

(* A branch may go on after its run has failed: gather does not stop it.   *)
Keeper(e) == actor[e] = "live" \/ \E w \in Steps : Busy(walker[e][w])

ForkInv ==
  /\ FiredAtMostOnce
  /\ Fresh => \A s \in Steps : fired[s] = 0
  /\ Carried => Retained(row, fired)
  /\ \A e \in Execs : Keeper(e) =>
       /\ ~Fresh /\ ~Carried /\ \A f \in Execs : Keeper(f) => f = e
       /\ Tree(walker[e], mem[e].completed)
       /\ OrderedForks(walker[e], mem[e]) /\ AccountedForks(walker[e], mem[e], fired)

LEMMA OwnerParts ==
  ASSUME BranchesRunThrough
  PROVE  Owner \in [Steps -> Steps] /\ RunsThrough(Owner)
BY DEF BranchesRunThrough, Owner

LEMMA BranchEdge ==
  ASSUME Acyclic, NEW f \in Forks, NEW v \in BranchTargets(f)
  PROVE  v \in Steps /\ f \in Steps /\ Rank[f] < Rank[v]
<1>1. v \in Steps /\ f \in Steps /\ EdgeTo(f, v)
  BY GraphAssumption DEF BranchTargets, Labelled, OutEdges, EdgeTo, Forks
<1> QED  BY <1>1, RankAscends

(* What a step of walker w does, seen from its execution: it raises, goes  *)
(* on along an edge of its part, starts a Node.run, or forks.              *)
Raises(e, w) ==
  \E x \in Exceptions :
    /\ walker'[e] = RaiseIn(walker[e], w, x)
    /\ x.kind = "failed" \/ (w = Root /\ walker[e][w].pc = "walk")

GoesOn(e, w, t) ==
  /\ walker'[e] = [walker[e] EXCEPT ![w] = Arrive(@, t)]
  /\ t # None => EdgeTo(Here(e, w), t) /\ Leads(Owner, w, t)
  /\ walker[e][w].pc = "fork" =>
       walker[e][w].exc = None /\ \A v \in BranchTargets(Here(e, w)) : walker[e][v].pc = "done"

Spread(ws, w, s) ==
  [v \in Steps |->
     IF v = w THEN [ws[w] EXCEPT !.pc = "fork"]
     ELSE IF v \in BranchTargets(s)
       THEN Arrive([Idle EXCEPT !.stop = NextParallelStep(s), !.parent = w], v)
     ELSE ws[v]]

Moves(e, w) == Raises(e, w) \/ \E t \in Steps \cup {None} : GoesOn(e, w, t)

ForkTable(e, w) ==
  LET k == walker[e][w]
      s == Here(e, w)
      m == mem[e]
      n == mem'[e]
      Same == RangeOf(n.nodes) = RangeOf(m.nodes)
  IN \/ (Raises(e, w) \/ (k.pc = "walk" /\ Moves(e, w))) /\ Same /\ UNCHANGED fired
     \/ k.pc \in {"walk", "run"} /\ Moves(e, w) /\ Records(m, n, s) /\ UNCHANGED fired
     \/ /\ k.pc = "fork" /\ (\E t \in Steps \cup {None} : GoesOn(e, w, t)) /\ Records(m, n, s)
        /\ fired' = [fired EXCEPT ![s] = @ + 1]
     \/ /\ k.pc = "walk" /\ s \notin m.completed
        /\ walker'[e] = [walker[e] EXCEPT ![w] = [@ EXCEPT !.pc = "run"]]
        /\ Same /\ fired' = [fired EXCEPT ![s] = @ + 1]
     \/ /\ k.pc = "walk" /\ s \notin m.completed /\ s \in Forks
        /\ walker'[e] = Spread(walker[e], w, s)
        /\ Same /\ UNCHANGED fired

(* A walker that is routed on goes along an edge of its part.              *)
LEMMA ProceedMoves ==
  ASSUME BranchesRunThrough, TypeInv, NEW e \in Execs, NEW w \in Steps, NEW b,
         Here(e, w) \in Nodes \ Forks, Owner[Here(e, w)] = w, walker[e][w].pc # "fork",
         walker'[e] = Proceed(walker[e], w, Here(e, w), b)
  PROVE  Moves(e, w)
<1> DEFINE s == Here(e, w)
           t == Target(s, b)
<1>1. CASE Routable(s, b)
  <2>1. walker'[e] = [walker[e] EXCEPT ![w] = Arrive(walker[e][w], t)]
    BY <1>1 DEF Proceed
  <2>2. t \in Steps \cup {None} /\ (t # None => EdgeTo(s, t))
    BY <1>1, TargetType, TargetEdge
  <2>3. t # None => Leads(Owner, w, t)
    BY <2>2, OwnerParts, GraphAssumption DEF RunsThrough, Parted
  <2> QED  BY <2>1, <2>2, <2>3 DEF GoesOn, Moves
<1>2. CASE ~Routable(s, b)
  <2>1. walker'[e] = RaiseIn(walker[e], w, Failed(s)) /\ Failed(s) \in Exceptions
    BY <1>2, FailedType, GraphAssumption DEF Proceed
  <2>2. Failed(s).kind = "failed"  BY DEF Failed
  <2> QED  BY <2>1, <2>2 DEF Raises, Moves
<1> QED  BY <1>1, <1>2

LEMMA WalkerBusy ==
  ASSUME NEW e \in Execs, NEW w \in Steps, WalkStep(e, w)
  PROVE  Busy(walker[e][w])
BY DEF WalkStep, WalkAborts, Reuse, PassThrough, PrepareFails, GateStops, Fire, Return,
       NodeRaises, Fork, Gathered, Merge, Propagate, AtNode, Busy

LEMMA ForkWalks ==
  ASSUME BranchesRunThrough, TypeInv, AnsweredInv, NEW e \in Execs, NEW w \in Steps,
         WalkStep(e, w), Tree(walker[e], mem[e].completed)
  PROVE  ForkTable(e, w)
<1> DEFINE s == Here(e, w)
           k == walker[e][w]
           m == mem[e]
           n == mem'[e]
<1>0. /\ walker \in [Execs -> [Steps -> GoodWalker]] /\ k \in GoodWalker
      /\ mem \in [Execs -> MemType(Orgs)] /\ m \in MemType(Orgs)
      /\ Nodes \subseteq Steps /\ s \in Steps \cup {None} /\ s = k.at
      /\ m.completed \subseteq RangeOf(m.nodes)
  BY GraphAssumption
     DEF TypeInv, ExecTypeInv, GoodWalker, WalkerType, Here, AnsweredInv, MemAnswered
<1>1. Busy(k)  BY WalkerBusy
<1>2. s \in Steps /\ Owner[s] = w /\ (k.exc # None => k.exc.kind = "failed")
  BY <1>0, <1>1 DEF Tree, InTree
<1>3. CASE WalkAborts(e, w) \/ PrepareFails(e, w) \/ NodeRaises(e, w)
  <2>1. walker'[e] = RaiseIn(walker[e], w, Failed(s)) /\ UNCHANGED <<mem, fired>>
    BY <1>0, <1>3 DEF WalkAborts, PrepareFails, NodeRaises
  <2>2. Failed(s) \in Exceptions /\ Failed(s).kind = "failed"
    BY <1>2, FailedType DEF Failed
  <2>3. Raises(e, w)  BY <2>1, <2>2 DEF Raises
  <2> QED  BY <1>1, <2>1, <2>3 DEF ForkTable
<1>4. CASE Propagate(e, w)
  <2>1. /\ walker'[e] = RaiseIn(walker[e], w, k.exc) /\ UNCHANGED <<mem, fired>>
        /\ k.exc # None
    BY <1>0, <1>4 DEF Propagate
  <2>2. k.exc \in Exceptions  BY <1>0, <2>1 DEF GoodWalker, WalkerType
  <2>3. Raises(e, w)  BY <1>2, <2>1, <2>2 DEF Raises
  <2> QED  BY <1>1, <2>1, <2>3 DEF ForkTable
<1>5. CASE GateStops(e, w)
  <2> DEFINE x == IF GateAnswer(Stamp(m, s), s) = "pause" THEN Paused(s) ELSE Failed(s)
  <2>1. /\ walker'[e] = RaiseIn(walker[e], w, x) /\ n = Stamp(m, s) /\ UNCHANGED fired
        /\ k.pc = "walk" /\ s \in Nodes
    BY <1>0, <1>5 DEF GateStops, AtNode
  <2>2. x \in Exceptions /\ (x.kind = "failed" \/ GateAnswer(Stamp(m, s), s) = "pause")
    BY <1>2, FailedType DEF Failed
  <2>3. GateAnswer(Stamp(m, s), s) = "pause" => w = Root
    <3>1. Stamp(m, s).org \in Orgs  BY <1>0 DEF Stamp, MemType
    <3>2. StepIsApproved(Stamp(m, s)) \in BOOLEAN  BY DEF StepIsApproved
    <3> QED  BY <1>2, <2>1, <3>1, <3>2, OwnerParts DEF GateAnswer, RunsThrough, NeverPauses
  <2>4. RangeOf(n.nodes) = RangeOf(m.nodes)
    BY <1>0, <1>2, <2>1, Stamped DEF Keeps
  <2> HIDE DEF x
  <2>5. Raises(e, w)  BY <2>1, <2>2, <2>3 DEF Raises
  <2> QED  BY <1>1, <2>1, <2>4, <2>5 DEF ForkTable
<1>6. CASE Reuse(e, w)
  <2>1. /\ s \in Nodes /\ k.pc = "walk" /\ UNCHANGED <<mem, fired>>
        /\ walker'[e] = Proceed(walker[e], w, s, m.branch[s])
    BY <1>0, <1>6 DEF Reuse
  <2>2. Moves(e, w)
    <3>1. CASE s \notin Forks  BY <1>2, <2>1, <3>1, ProceedMoves
    <3>2. CASE s \in Forks
      <4>1. Routable(s, m.branch[s]) /\ Target(s, m.branch[s]) = NextParallelStep(s)
        BY <3>2 DEF Forks, Routable, Target
      <4>2. NextParallelStep(s) \in Steps \cup {None}  BY <1>2, NextParallelStepType
      <4>3. walker'[e] = [walker[e] EXCEPT ![w] = Arrive(k, NextParallelStep(s))]
        BY <2>1, <4>1 DEF Proceed
      <4>4. NextParallelStep(s) # None =>
              EdgeTo(s, NextParallelStep(s)) /\ Leads(Owner, w, NextParallelStep(s))
        BY <1>2, <2>1, <3>2, <4>1, TargetEdge, OwnerParts DEF RunsThrough, Parted
      <4> QED  BY <2>1, <4>2, <4>3, <4>4 DEF GoesOn, Moves
    <3> QED  BY <3>1, <3>2
  <2> QED  BY <1>1, <2>1, <2>2 DEF ForkTable
<1>7. CASE PassThrough(e, w)
  <2>1. /\ s \in Nodes \ Forks /\ k.pc = "walk" /\ n = RecordOutput(m, s, None) /\ UNCHANGED fired
        /\ walker'[e] = Proceed(walker[e], w, s, None)
    BY <1>0, <1>7 DEF PassThrough, AtNode, Forks
  <2>2. Moves(e, w)  BY <1>2, <2>1, ProceedMoves
  <2>3. Records(m, n, s)  BY <1>0, <1>2, <2>1, Recorded
  <2> QED  BY <1>1, <2>1, <2>2, <2>3 DEF ForkTable
<1>8. CASE Return(e, w)
  <2>1. /\ s \in Nodes /\ k.pc = "run" /\ UNCHANGED fired
        /\ \E b : /\ n = RecordOutput(AppendEvidence(m, e, s), s, b)
                  /\ walker'[e] = Proceed(walker[e], w, s, b)
    BY <1>0, <1>8 DEF Return, GoodWalker
  <2>2. s \notin Forks
    BY <1>0, <2>1 DEF AnsweredInv, AllAnswered, WalkerAnswered, RegularNode, RegularKinds, Forks
  <2>3. Moves(e, w)  BY <1>2, <2>1, <2>2, ProceedMoves
  <2>4. Records(m, n, s)  BY <1>0, <1>2, <2>1, Evidenced
  <2> QED  BY <1>1, <2>1, <2>3, <2>4 DEF ForkTable
<1>9. CASE Fire(e, w)
  <2>1. /\ s \in Nodes /\ ~Reusable(e, s) /\ k.pc = "walk" /\ n = Stamp(m, s)
        /\ walker'[e] = [walker[e] EXCEPT ![w] = [k EXCEPT !.pc = "run"]]
        /\ fired' = [fired EXCEPT ![s] = @ + 1]
    BY <1>0, <1>9 DEF Fire, AtNode
  <2>2. s \notin m.completed  BY <1>0, <2>1 DEF Reusable
  <2>3. RangeOf(n.nodes) = RangeOf(m.nodes)
    BY <1>0, <1>2, <2>1, Stamped DEF Keeps
  <2> QED  BY <1>1, <2>1, <2>2, <2>3 DEF ForkTable
<1>10. CASE Fork(e, w)
  <2>1. /\ s \in Forks /\ ~Reusable(e, s) /\ k.pc = "walk" /\ UNCHANGED <<mem, fired>>
        /\ walker'[e] = Spread(walker[e], w, s)
    BY <1>0, <1>10 DEF Fork, AtNode, Forks, Spread
  <2>2. s \notin m.completed  BY <1>0, <2>1 DEF Reusable
  <2> QED  BY <1>1, <2>1, <2>2 DEF ForkTable
<1>11. CASE Merge(e, w)
  <2> DEFINE j == NextParallelStep(s)
  <2>1. /\ s \in Forks /\ k.pc = "fork" /\ k.exc = None
        /\ \A v \in BranchTargets(s) : walker[e][v].pc = "done"
        /\ n = RecordOutput(AppendEvidence(m, e, s), s, None)
        /\ walker'[e] = [walker[e] EXCEPT ![w] = Arrive(k, j)]
        /\ fired' = [fired EXCEPT ![s] = @ + 1]
    BY <1>0, <1>11 DEF Gathered, Merge, GoodWalker, Forks
  <2>2. j \in Steps \cup {None}  BY <1>2, NextParallelStepType
  <2>3. j # None => EdgeTo(s, j) /\ Leads(Owner, w, j)
    <3>1. s \in Nodes /\ Routable(s, None) /\ Target(s, None) = j
      BY <2>1 DEF Forks, Routable, Target
    <3> QED  BY <1>2, <2>1, <3>1, TargetEdge, OwnerParts DEF RunsThrough, Parted
  <2>4. GoesOn(e, w, j)  BY <2>1, <2>3 DEF GoesOn
  <2>5. Records(m, n, s)  BY <1>0, <1>2, <2>1, Evidenced
  <2> QED  BY <1>1, <2>1, <2>2, <2>4, <2>5 DEF ForkTable
<1> QED
  BY <1>3, <1>4, <1>5, <1>6, <1>7, <1>8, <1>9, <1>10, <1>11 DEF WalkStep

-----------------------------------------------------------------------------
(* Each effect of a step keeps the tree of walkers.                        *)

LEMMA BranchOf ==
  ASSUME BranchesRunThrough, NEW f \in Forks, NEW v \in BranchTargets(f)
  PROVE  /\ v # Root /\ Owner[v] = v
         /\ \A g \in Forks : v \in BranchTargets(g) => g = f
BY OwnerParts DEF RunsThrough, Parted

(* The walker that waits for a branch is another one.                      *)
LEMMA ParentIsAnother ==
  ASSUME BranchesRunThrough, Acyclic, NEW ws \in [Steps -> GoodWalker], NEW w \in Steps,
         NEW f \in Forks, Branch(ws, w, f)
  PROVE  Owner[f] \in Steps /\ Owner[f] # w
<1>1. f \in Steps  BY GraphAssumption DEF Forks
<1>2. Owner[f] \in Steps  BY <1>1, OwnerParts
<1> QED  BY <1>2, RankAscends DEF Branch

LEMMA TreeGoes ==
  ASSUME BranchesRunThrough, Acyclic, NEW ws \in [Steps -> GoodWalker], NEW C,
         Tree(ws, C), NEW w \in Steps, Busy(ws[w]), NEW t \in Steps \cup {None},
         t # None => EdgeTo(ws[w].at, t) /\ Leads(Owner, w, t),
         ws[w].pc = "fork" => \A v \in BranchTargets(ws[w].at) : ws[v].pc = "done"
  PROVE  Tree([ws EXCEPT ![w] = Arrive(ws[w], t)], C)
<1> DEFINE k == ws[w]
           l == Arrive(k, t)
           s == k.at
           vs == [ws EXCEPT ![w] = l]
<1>1. /\ s \in Steps /\ Owner[s] = w /\ Rank[w] <= Rank[s]
      /\ (k.exc # None => k.exc.kind = "failed")
  BY DEF Tree, InTree
<1>2. /\ l.stop = k.stop /\ l.parent = k.parent /\ l.exc = k.exc
      /\ l.pc = "done" \/ (l.pc = "walk" /\ l.at = t /\ t # None /\ t # k.stop)
  BY DEF Arrive, GoodWalker, WalkerType
<1>3. Rank \in [Steps -> Nat] /\ (t # None => Rank[s] < Rank[t])
  BY <1>1, RankAscends
<1>4. \A v \in Steps : vs[v] = IF v = w THEN l ELSE ws[v]
  OBVIOUS
<1> HIDE DEF l, vs
<1>5. ASSUME NEW v \in Steps \ {w}, NEW f \in Forks, Branch(ws, v, f)
      PROVE  Branch(vs, v, f)
  <2>0. Owner[f] \in Steps /\ f \in Steps
    BY <1>5, ParentIsAnother, GraphAssumption DEF Forks
  <2>1. CASE Owner[f] # w
    BY <1>4, <1>5, <2>0, <2>1 DEF Branch, Under
  <2>2. CASE Owner[f] = w
    <3>1. k.pc = "fork" /\ s = f => ws[v].pc = "done"
      BY <1>5 DEF Branch
    <3>2. (k.pc = "fork" /\ s = f) \/ (Rank[f] < Rank[s] /\ ws[v].pc = "done")
      BY <1>5, <2>2 DEF Branch, Under, Past, Fails, Busy
    <3>3. ws[v].pc = "done" /\ Rank[f] <= Rank[s]
      BY <1>1, <1>3, <2>0, <3>1, <3>2
    <3>4. Past(l, f)
      BY <1>1, <1>2, <1>3, <2>0, <3>3 DEF Past, Busy
    <3> QED  BY <1>4, <1>5, <2>0, <2>2, <3>3, <3>4 DEF Branch, Under
  <2> QED  BY <2>1, <2>2
<1>6. ASSUME NEW v \in Steps \ {w} PROVE InTree(vs, C, v)
  BY <1>4, <1>5 DEF Tree, InTree
<1>7. ASSUME NEW g \in Forks, Branch(ws, w, g) PROVE Branch(vs, w, g)
  <2>1. Owner[g] \in Steps /\ Owner[g] # w  BY <1>7, ParentIsAnother
  <2>2. Fails(ws[Owner[g]]) \/ (ws[Owner[g]].pc = "fork" /\ ws[Owner[g]].at = g)
    BY <1>7 DEF Branch, Under, Busy
  <2> QED  BY <1>2, <1>4, <1>7, <2>1, <2>2 DEF Branch, Under
<1>8. w # Root => \E g \in Forks : Branch(ws, w, g)
  BY DEF Tree, InTree, Busy
<1>9. ASSUME l.pc = "walk"
      PROVE  l.at \in Steps /\ Owner[l.at] = w /\ Rank[w] <= Rank[l.at]
  <2>1. l.at = t /\ t \in Steps /\ t # None /\ t # k.stop /\ Leads(Owner, w, t)  BY <1>2, <1>9
  <2>2. ASSUME NEW f \in Forks, w \in BranchTargets(f), t = NextParallelStep(f)
        PROVE  FALSE
    <3>1. PICK g \in Forks : Branch(ws, w, g)  BY <1>8, <2>2, BranchOf
    <3>2. g = f  BY <2>2, <3>1, BranchOf DEF Branch
    <3> QED  BY <2>1, <2>2, <3>1, <3>2 DEF Branch
  <2>3. Owner[t] = w  BY <2>1, <2>2 DEF Leads
  <2> QED  BY <1>1, <1>3, <2>1, <2>3
<1>10. InTree(vs, C, w)
  BY <1>1, <1>2, <1>4, <1>7, <1>8, <1>9 DEF InTree, Busy
<1>11. vs[Root].parent = None
  BY <1>2, <1>4, RootType DEF Tree
<1> QED  BY <1>6, <1>10, <1>11 DEF Tree, vs, l

LEMMA TreeRaises ==
  ASSUME BranchesRunThrough, Acyclic, NEW ws \in [Steps -> GoodWalker], NEW C,
         Tree(ws, C), NEW w \in Steps, Busy(ws[w]), NEW x \in Exceptions,
         x.kind = "failed" \/ (w = Root /\ ws[w].pc = "walk")
  PROVE  Tree(RaiseIn(ws, w, x), C)
<1> DEFINE vs == RaiseIn(ws, w, x)
           p == ws[w].parent
<1>1. vs[w].pc = "raised" /\ vs[w].exc = x
      /\ vs[w].stop = ws[w].stop /\ vs[w].parent = ws[w].parent
  BY DEF RaiseIn, GoodWalker, WalkerType
<1>2. ASSUME NEW v \in Steps \ {w}
      PROVE  /\ vs[v].pc = ws[v].pc /\ vs[v].at = ws[v].at
             /\ vs[v].stop = ws[v].stop /\ vs[v].parent = ws[v].parent
             /\ \/ vs[v] = ws[v]
                \/ v = p /\ ws[v].pc = "fork" /\ vs[v].exc = x
  BY DEF RaiseIn, GoodWalker, WalkerType
<1> HIDE DEF vs
<1>3. ASSUME NEW v \in Steps \ {w} PROVE Fails(ws[v]) => Fails(vs[v])
  BY <1>2 DEF Fails
<1>4. ASSUME NEW v \in Steps \ {w}, NEW f \in Forks, Branch(ws, v, f)
      PROVE  Branch(vs, v, f)
  <2>0. Owner[f] \in Steps  BY <1>4, ParentIsAnother
  <2>1. CASE Owner[f] # w
    <3>1. Under(vs, v, f)
      BY <1>2, <1>3, <1>4, <2>0, <2>1 DEF Branch, Under, Past, Busy
    <3> QED  BY <1>2, <1>4, <3>1 DEF Branch
  <2>2. CASE Owner[f] = w
    <3>1. CASE x.kind = "failed"
      <4>1. Fails(vs[w])  BY <1>1, <3>1 DEF Fails
      <4> QED  BY <1>2, <1>4, <2>2, <4>1 DEF Branch, Under
    <3>2. CASE ws[w].pc = "walk"
      <4>1. ws[v].pc = "done"  BY <1>4, <2>2, <3>2 DEF Branch, Under, Fails
      <4>2. Past(vs[w], f)  BY <1>1 DEF Past
      <4> QED  BY <1>2, <1>4, <2>2, <4>1, <4>2 DEF Branch, Under
    <3> QED  BY <3>1, <3>2
  <2> QED  BY <2>1, <2>2
<1>5. ASSUME NEW v \in Steps \ {w} PROVE InTree(vs, C, v)
  <2>1. Busy(ws[v]) /\ vs[v].exc # ws[v].exc => x.kind = "failed"
    <3>1. vs[v].exc # ws[v].exc => v = p  BY <1>2
    <3>2. w = Root => p = None  BY DEF Tree
    <3>3. v # None  BY GraphAssumption
    <3> QED  BY <3>1, <3>2, <3>3
  <2>2. vs[v].exc = ws[v].exc \/ vs[v].exc = x  BY <1>2
  <2>3. Busy(vs[v]) <=> Busy(ws[v])  BY <1>2 DEF Busy
  <2>4. InTree(ws, C, v)  BY DEF Tree
  <2>5. Busy(vs[v]) /\ vs[v].exc # None => vs[v].exc.kind = "failed"
    BY <2>1, <2>2, <2>3, <2>4 DEF InTree
  <2> QED  BY <1>2, <1>3, <1>4, <2>3, <2>4, <2>5 DEF InTree
<1>6. ASSUME NEW g \in Forks, Branch(ws, w, g) PROVE Branch(vs, w, g)
  <2>1. Owner[g] \in Steps /\ Owner[g] # w  BY <1>6, ParentIsAnother
  <2>2. Fails(ws[Owner[g]]) \/ (ws[Owner[g]].pc = "fork" /\ ws[Owner[g]].at = g)
    BY <1>6 DEF Branch, Under, Busy
  <2>3. Under(vs, w, g)  BY <1>2, <1>3, <2>1, <2>2 DEF Under
  <2> QED  BY <1>1, <1>6, <2>3 DEF Branch
<1>7. InTree(vs, C, w)
  <2>1. w # Root => Fails(vs[w])  BY <1>1 DEF Fails
  <2>2. w # Root => \E g \in Forks : Branch(ws, w, g)
    BY DEF Tree, InTree, Busy
  <2> QED  BY <1>1, <1>6, <2>1, <2>2 DEF InTree, Busy
<1>8. vs[Root].parent = None  BY <1>1, <1>2, RootType DEF Tree
<1> QED  BY <1>5, <1>7, <1>8 DEF Tree, vs

LEMMA TreeRuns ==
  ASSUME BranchesRunThrough, Acyclic, NEW ws \in [Steps -> GoodWalker], NEW C,
         Tree(ws, C), NEW w \in Steps, ws[w].pc = "walk"
  PROVE  Tree([ws EXCEPT ![w] = [ws[w] EXCEPT !.pc = "run"]], C)
<1> DEFINE vs == [ws EXCEPT ![w] = [ws[w] EXCEPT !.pc = "run"]]
<1>1. ASSUME NEW v \in Steps
      PROVE  /\ vs[v].at = ws[v].at /\ vs[v].stop = ws[v].stop
             /\ vs[v].parent = ws[v].parent /\ vs[v].exc = ws[v].exc
             /\ vs[v].pc = IF v = w THEN "run" ELSE ws[v].pc
  BY DEF GoodWalker, WalkerType
<1> HIDE DEF vs
<1>2. ASSUME NEW v \in Steps, NEW f \in Forks, Branch(ws, v, f) PROVE Branch(vs, v, f)
  <2>1. Owner[f] \in Steps  BY <1>2, ParentIsAnother
  <2> QED  BY <1>1, <1>2, <2>1 DEF Branch, Under, Past, Busy, Fails
<1>3. ASSUME NEW v \in Steps PROVE InTree(vs, C, v)
  <2>1. InTree(ws, C, v)  BY DEF Tree
  <2> QED  BY <1>1, <1>2, <2>1 DEF InTree, Busy, Fails
<1>4. vs[Root].parent = None  BY <1>1, RootType DEF Tree
<1> QED  BY <1>3, <1>4 DEF Tree, vs

(* When a fork runs, its branches have not been walked yet.                *)
LEMMA BranchesIdle ==
  ASSUME BranchesRunThrough, Acyclic, NEW ws \in [Steps -> GoodWalker], NEW C,
         Tree(ws, C), NEW w \in Steps, ws[w].pc = "walk", ws[w].at \in Forks,
         NEW v \in BranchTargets(ws[w].at)
  PROVE  v \in Steps /\ v # w /\ v # Root /\ ws[v].pc = "idle"
<1> DEFINE s == ws[w].at
<1>1. /\ v \in Steps /\ s \in Steps /\ Rank[s] < Rank[v] /\ v # Root
      /\ Owner[s] = w /\ Rank[w] <= Rank[s]
  BY BranchEdge, BranchOf DEF Tree, InTree, Busy
<1>2. v # w  BY <1>1, RankAscends
<1>3. ASSUME NEW f \in Forks, Branch(ws, v, f) PROVE FALSE
  <2>1. f = s  BY <1>3, BranchOf DEF Branch
  <2>2. Under(ws, v, f) /\ Owner[f] = w /\ ~(Rank[f] < Rank[s])
    BY <1>1, <1>3, <2>1, RankAscends DEF Branch
  <2> QED  BY <2>2 DEF Under, Fails, Past, Busy
<1> QED  BY <1>1, <1>2, <1>3 DEF Tree, InTree

LEMMA TreeSpreads ==
  ASSUME BranchesRunThrough, Acyclic, NEW ws \in [Steps -> GoodWalker], NEW C,
         Tree(ws, C), NEW w \in Steps, ws[w].pc = "walk",
         ws[w].at \in Forks, ws[w].at \notin C
  PROVE  Tree(Spread(ws, w, ws[w].at), C)
<1> DEFINE s == ws[w].at
           vs == Spread(ws, w, s)
           B == BranchTargets(s)
           j == NextParallelStep(s)
           Child(v) == Arrive([Idle EXCEPT !.stop = j, !.parent = w], v)
<1>1. /\ s \in Steps /\ Owner[s] = w /\ Rank[w] <= Rank[s]
      /\ (ws[w].exc # None => ws[w].exc.kind = "failed")
      /\ Rank \in [Steps -> Nat]
  BY RankAscends DEF Tree, InTree, Busy
<1>2. ASSUME NEW v \in B
      PROVE  /\ v \in Steps /\ v # w /\ v # Root /\ ws[v].pc = "idle"
             /\ Owner[v] = v /\ Rank[w] < Rank[v]
  BY <1>1, BranchesIdle, BranchEdge, BranchOf
<1>3. ASSUME NEW v \in B
      PROVE  /\ vs[v].pc \in {"walk", "done"} /\ vs[v].at = v
             /\ vs[v].stop = j /\ vs[v].parent = w /\ vs[v].exc = None
  <2>1. vs[v] = Child(v)  BY <1>2 DEF Spread
  <2> QED  BY <2>1 DEF Arrive, Idle
<1>4. ASSUME NEW v \in Steps \ ({w} \cup B) PROVE vs[v] = ws[v]
  BY DEF Spread
<1>5. /\ vs[w].pc = "fork" /\ vs[w].at = s /\ vs[w].exc = ws[w].exc
      /\ vs[w].stop = ws[w].stop /\ vs[w].parent = ws[w].parent
  BY DEF Spread, GoodWalker, WalkerType
<1> HIDE DEF vs, B, Child
<1>6. ASSUME NEW v \in Steps \ B, NEW f \in Forks, Branch(ws, v, f)
      PROVE  Branch(vs, v, f)
  <2>0. Owner[f] \in Steps  BY <1>6, ParentIsAnother
  <2>1. vs[v].stop = ws[v].stop /\ vs[v].parent = ws[v].parent
        /\ (vs[v].pc = ws[v].pc \/ v = w)
    BY <1>4, <1>5
  <2>2. CASE Owner[f] = w
    <3>1. v # w  BY <1>6, <2>2, ParentIsAnother
    <3>2. Rank[f] < Rank[s] /\ ws[v].pc = "done"
      BY <1>6, <2>2 DEF Branch, Under, Fails, Past
    <3>3. Past(vs[w], f)  BY <1>5, <3>2 DEF Past, Busy
    <3> QED  BY <1>6, <2>1, <2>2, <3>1, <3>2, <3>3 DEF Branch, Under
  <2>3. CASE Owner[f] # w
    <3>1. ws[Owner[f]].pc # "idle"  BY <1>6 DEF Branch, Under, Fails, Past, Busy
    <3>2. vs[Owner[f]] = ws[Owner[f]]  BY <1>2, <1>4, <2>0, <2>3, <3>1
    <3>3. v = w => Fails(ws[Owner[f]]) \/ (ws[Owner[f]].pc = "fork" /\ ws[Owner[f]].at = f)
      BY <1>6 DEF Branch, Under
    <3>4. Under(vs, v, f)  BY <1>6, <2>1, <3>2, <3>3 DEF Branch, Under
    <3> QED  BY <1>6, <2>1, <3>4 DEF Branch
  <2> QED  BY <2>2, <2>3
<1>7. ASSUME NEW v \in Steps \ B PROVE InTree(vs, C, v)
  <2>1. InTree(ws, C, v)  BY DEF Tree
  <2>2. CASE v = w
    BY <1>1, <1>5, <1>6, <2>1, <2>2 DEF InTree, Busy
  <2>3. CASE v # w
    BY <1>4, <1>6, <2>1, <2>3 DEF InTree
  <2> QED  BY <2>2, <2>3
<1>8. ASSUME NEW v \in B PROVE InTree(vs, C, v)
  <2>1. Under(vs, v, s)  BY <1>1, <1>5 DEF Under
  <2>2. Branch(vs, v, s)  BY <1>1, <1>2, <1>3, <2>1 DEF Branch, B
  <2> QED  BY <1>1, <1>2, <1>3, <2>2 DEF InTree, Busy, Fails
<1>9. vs[Root].parent = None
  <2>1. Root \notin B  BY <1>2
  <2> QED  BY <1>4, <1>5, <2>1, RootType DEF Tree
<1>10. \A v \in Steps : InTree(vs, C, v)
  BY <1>7, <1>8
<1> QED  BY <1>9, <1>10 DEF Tree, vs

(* The execution that begins has its root walker only.                     *)
LEMMA TreeStarts ==
  ASSUME BranchesRunThrough, Acyclic, NEW e \in Execs, Started(e)
  PROVE  Tree(walker'[e], mem'[e].completed)
<1> DEFINE vs == walker'[e]
<1>1. ASSUME NEW v \in Steps PROVE InTree(vs, mem'[e].completed, v)
  <2>1. CASE v # Root
    BY <2>1 DEF Started, Alone, Idle, InTree, Busy
  <2>2. CASE v = Root
    <3>1. Owner[Root] = Root /\ Rank[Root] <= Rank[Root]
      BY OwnerParts, RankAscends, RootType DEF RunsThrough, Parted
    <3>2. Fails(vs[v]) \/ (vs[v].pc = "walk" /\ vs[v].at = Root /\ vs[v].exc = None)
      BY <2>2 DEF Started
    <3> QED  BY <2>2, <3>1, <3>2, RootType DEF InTree, Busy, Fails
  <2> QED  BY <2>1, <2>2
<1>2. vs[Root].parent = None  BY DEF Started
<1> QED  BY <1>1, <1>2 DEF Tree

(* Once the root has ended and not failed, every walker is done: a branch  *)
(* that were not would have a waiting parent of smaller rank, and so on    *)
(* down to the root.                                                       *)
LEMMA Settled ==
  ASSUME BranchesRunThrough, Acyclic, NEW ws \in [Steps -> GoodWalker], NEW C,
         Tree(ws, C), ws[Root].pc # "fork", ~Fails(ws[Root])
  PROVE  \A v \in Steps : v # Root => ws[v].pc \in {"idle", "done"}
<1> DEFINE Open == {v \in Steps : v # Root /\ ws[v].pc \notin {"idle", "done"}}
           I == {Rank[v] : v \in Open}
<1>1. SUFFICES ASSUME Open # {} PROVE FALSE
  OBVIOUS
<1>2. Rank \in [Steps -> Nat]  BY RankAscends
<1>3. I \subseteq Nat /\ I # {}  BY <1>1, <1>2
<1>4. PICK v \in Open : \A u \in Open : Rank[v] <= Rank[u]
  <2>1. PICK i \in I : \A j \in I : i <= j  BY <1>3, FirstEdgeExists
  <2> QED  BY <2>1
<1>5. PICK f \in Forks : Branch(ws, v, f)  BY <1>4 DEF Tree, InTree
<1>6. Owner[f] \in Steps /\ Rank[Owner[f]] < Rank[v]  BY <1>5, ParentIsAnother DEF Branch
<1>7. Fails(ws[Owner[f]]) \/ ws[Owner[f]].pc = "fork"
  BY <1>4, <1>5 DEF Branch, Under
<1>8. Owner[f] \in Open  BY <1>6, <1>7 DEF Fails
<1> QED  BY <1>2, <1>4, <1>6, <1>8

(* A step of a walker keeps the tree.                                      *)
LEMMA TreeWalk ==
  ASSUME BranchesRunThrough, Acyclic, TypeInv, NEW e \in Execs, NEW w \in Steps,
         ForkTable(e, w), Busy(walker[e][w]), Tree(walker[e], mem[e].completed)
  PROVE  Tree(walker'[e], mem[e].completed)
<1> DEFINE ws == walker[e]
           s == Here(e, w)
           C == mem[e].completed
<1>0. ws \in [Steps -> GoodWalker] /\ s = ws[w].at
  BY DEF TypeInv, ExecTypeInv, Here
<1>1. CASE Raises(e, w)
  BY <1>0, <1>1, TreeRaises DEF Raises
<1>2. ASSUME NEW t \in Steps \cup {None}, GoesOn(e, w, t) PROVE Tree(walker'[e], C)
  <2>1. /\ walker'[e] = [ws EXCEPT ![w] = Arrive(ws[w], t)]
        /\ t # None => EdgeTo(ws[w].at, t) /\ Leads(Owner, w, t)
        /\ ws[w].pc = "fork" => \A v \in BranchTargets(ws[w].at) : ws[v].pc = "done"
    BY <1>0, <1>2 DEF GoesOn
  <2> QED  BY <1>0, <2>1, TreeGoes
<1>3. CASE /\ ws[w].pc = "walk"
           /\ walker'[e] = [ws EXCEPT ![w] = [@ EXCEPT !.pc = "run"]]
  BY <1>0, <1>3, TreeRuns
<1>4. CASE /\ ws[w].pc = "walk" /\ s \notin C /\ s \in Forks
           /\ walker'[e] = Spread(ws, w, s)
  BY <1>0, <1>4, TreeSpreads
<1> QED  BY <1>1, <1>2, <1>3, <1>4 DEF ForkTable, Moves

(* The other walkers, seen from a step of walker w: they stay where they   *)
(* are, but for the branches that a fork starts.                           *)
LEMMA OthersStay ==
  ASSUME BranchesRunThrough, Acyclic, TypeInv, NEW e \in Execs, NEW w \in Steps,
         ForkTable(e, w), Busy(walker[e][w]), Tree(walker[e], mem[e].completed),
         NEW v \in Steps \ {w}
  PROVE  \/ walker[e][v].pc = "idle"
         \/ /\ walker'[e][v].pc = walker[e][v].pc /\ walker'[e][v].at = walker[e][v].at
            /\ Fails(walker[e][v]) => Fails(walker'[e][v])
<1> DEFINE ws == walker[e]
           s == Here(e, w)
<1>0. ws \in [Steps -> GoodWalker] /\ s = ws[w].at
  BY DEF TypeInv, ExecTypeInv, Here
<1>1. CASE Raises(e, w)
  <2>1. PICK x \in Exceptions : walker'[e] = RaiseIn(ws, w, x)  BY <1>1 DEF Raises
  <2> QED  BY <1>0, <2>1 DEF RaiseIn, GoodWalker, WalkerType, Fails
<1>2. CASE \E t \in Steps \cup {None} : GoesOn(e, w, t)
  BY <1>0, <1>2 DEF GoesOn
<1>3. CASE walker'[e] = [ws EXCEPT ![w] = [@ EXCEPT !.pc = "run"]]
  BY <1>0, <1>3
<1>4. CASE ws[w].pc = "walk" /\ s \in Forks /\ walker'[e] = Spread(ws, w, s)
  <2>1. CASE v \in BranchTargets(s)
    BY <1>0, <1>4, <2>1, BranchesIdle
  <2>2. CASE v \notin BranchTargets(s)
    BY <1>0, <1>4, <2>2 DEF Spread
  <2> QED  BY <2>1, <2>2
<1> QED  BY <1>1, <1>2, <1>3, <1>4 DEF ForkTable, Moves

(* The moving walker: it ends, or goes on along an edge, or stays.         *)
Leaves(s, l) ==
  l.pc \in {"raised", "done"} \/ (l.pc = "walk" /\ l.at \in Steps /\ EdgeTo(s, l.at))

LEMMA RaisesLeaves ==
  ASSUME TypeInv, NEW e \in Execs, NEW w \in Steps, Raises(e, w)
  PROVE  /\ walker'[e][w].pc = "raised"
         /\ Fails(walker'[e][w]) \/ walker[e][w].pc = "walk"
<1>0. walker[e] \in [Steps -> GoodWalker]  BY DEF TypeInv, ExecTypeInv
<1>1. PICK x \in Exceptions : /\ walker'[e] = RaiseIn(walker[e], w, x)
                              /\ x.kind = "failed" \/ walker[e][w].pc = "walk"
  BY DEF Raises
<1>2. walker'[e][w].pc = "raised" /\ walker'[e][w].exc = x
  BY <1>0, <1>1 DEF RaiseIn, GoodWalker, WalkerType
<1> QED  BY <1>1, <1>2 DEF Fails

LEMMA GoesOnLeaves ==
  ASSUME TypeInv, NEW e \in Execs, NEW w \in Steps, NEW t \in Steps \cup {None}, GoesOn(e, w, t)
  PROVE  Leaves(Here(e, w), walker'[e][w])
<1>0. walker[e] \in [Steps -> GoodWalker]  BY DEF TypeInv, ExecTypeInv
<1>1. /\ walker'[e][w] = Arrive(walker[e][w], t)
      /\ t # None => EdgeTo(Here(e, w), t)
  BY <1>0 DEF GoesOn
<1>2. \/ walker'[e][w].pc = "done"
      \/ walker'[e][w].pc = "walk" /\ walker'[e][w].at = t /\ t # None
  BY <1>0, <1>1 DEF Arrive, GoodWalker, WalkerType
<1> QED  BY <1>1, <1>2 DEF Leaves

MoverTable(e, w) ==
  LET s == Here(e, w)
      k == walker[e][w]
      l == walker'[e][w]
      m == mem[e]
      n == mem'[e]
      Same == RangeOf(n.nodes) = RangeOf(m.nodes)
  IN \/ Same /\ UNCHANGED fired /\ Leaves(s, l) /\ (Fails(l) \/ k.pc = "walk")
     \/ Records(m, n, s) /\ UNCHANGED fired /\ Leaves(s, l)
     \/ /\ Records(m, n, s) /\ k.pc = "fork" /\ Leaves(s, l)
        /\ fired' = [fired EXCEPT ![s] = @ + 1]
     \/ /\ Same /\ k.pc = "walk" /\ s \notin m.completed /\ l.pc = "run" /\ l.at = s
        /\ fired' = [fired EXCEPT ![s] = @ + 1]
     \/ Same /\ UNCHANGED fired /\ k.pc = "walk" /\ l.pc = "fork" /\ l.at = s

LEMMA MoverMoves ==
  ASSUME TypeInv, NEW e \in Execs, NEW w \in Steps, ForkTable(e, w)
  PROVE  MoverTable(e, w)
<1> DEFINE s == Here(e, w)
           k == walker[e][w]
           l == walker'[e][w]
<1>0. k \in GoodWalker /\ walker[e] \in [Steps -> GoodWalker] /\ s = k.at
  BY DEF TypeInv, ExecTypeInv, Here
<1>1. Raises(e, w) => Leaves(s, l) /\ (Fails(l) \/ k.pc = "walk")
  BY RaisesLeaves DEF Leaves
<1>2. Moves(e, w) => Leaves(s, l)
  BY <1>1, GoesOnLeaves DEF Moves
<1>3. walker'[e] = [walker[e] EXCEPT ![w] = [@ EXCEPT !.pc = "run"]] => l.pc = "run" /\ l.at = s
  BY <1>0 DEF GoodWalker, WalkerType
<1>4. walker'[e] = Spread(walker[e], w, s) => l.pc = "fork" /\ l.at = s
  BY <1>0 DEF GoodWalker, WalkerType, Spread
<1>5. (\E t \in Steps \cup {None} : GoesOn(e, w, t)) => Leaves(s, l)
  BY GoesOnLeaves
<1> HIDE DEF k, l, s
<1> QED  BY <1>1, <1>2, <1>3, <1>4, <1>5 DEF ForkTable, MoverTable, k, l, s

(* One step of a walker, for its execution alone.                          *)
LEMMA OnceForks ==
  ASSUME BranchesRunThrough, Acyclic, TypeInv, NEW e \in Execs, NEW w \in Steps,
         ForkTable(e, w), Busy(walker[e][w]), Tree(walker[e], mem[e].completed),
         Grows(mem[e], mem'[e]), FiredAtMostOnce,
         OrderedForks(walker[e], mem[e]), AccountedForks(walker[e], mem[e], fired)
  PROVE  /\ OrderedForks(walker'[e], mem'[e])
         /\ AccountedForks(walker'[e], mem'[e], fired')
         /\ FiredAtMostOnce'
<1> DEFINE k == walker[e][w]
           l == walker'[e][w]
           m == mem[e]
           n == mem'[e]
           s == Here(e, w)
           M == RangeOf(m.nodes)
           N == RangeOf(n.nodes)
           C == m.completed
<1>0. /\ fired \in [Steps -> Nat] /\ s = k.at /\ n.completed = C
      /\ s \in Steps /\ Owner[s] = w /\ Busy(k)
      /\ k.pc = "fork" => s \notin C
      /\ Owner \in [Steps -> Steps] /\ Rank \in [Steps -> Nat]
  BY OwnerParts, RankAscends
     DEF TypeInv, ExecTypeInv, Here, Grows, Tree, InTree
<1>1. M \subseteq Steps
  BY ElementOfSeq DEF RangeOf, TypeInv, ExecTypeInv, MemType
<1>2. \A t \in M \ C : Owner[t] = w => Rank[t] < Rank[s]
  BY <1>0 DEF OrderedForks
<1>3. s \notin C => s \notin M /\ (k.pc # "run" => fired[s] = 0)
  <2>1. s \notin C => s \notin M  BY <1>0, <1>2
  <2>2. k.pc # "run" /\ s \notin M => ~(fired[s] > 0)
    BY <1>0 DEF AccountedForks, Fails, Busy
  <2> QED  BY <1>0, <2>1, <2>2
<1>4. MoverTable(e, w)  BY MoverMoves
<1>5. N = M \/ N = M \cup {s}  BY <1>4 DEF MoverTable, Records
<1>6. l.pc # "idle" /\ (Busy(l) => l.at \in Steps /\ (EdgeTo(s, l.at) \/ (l.at = s /\ N = M)))
  BY <1>0, <1>4 DEF MoverTable, Leaves, Busy, Fails
<1>7. Busy(l) => Rank[s] < Rank[l.at] \/ (l.at = s /\ N = M)
  BY <1>0, <1>6, RankAscends
<1>8. ASSUME NEW v \in Steps \ {w}
      PROVE  \/ walker[e][v].pc = "idle"
             \/ /\ walker'[e][v].pc = walker[e][v].pc /\ walker'[e][v].at = walker[e][v].at
                /\ Fails(walker[e][v]) => Fails(walker'[e][v])
  BY OthersStay
<1>9. OrderedForks(walker'[e], n)
  <2> SUFFICES ASSUME NEW t \in N \ C
               PROVE  LET h == walker'[e][Owner[t]]
                      IN h.pc # "idle" /\ (Busy(h) => Rank[t] < Rank[h.at])
    BY <1>0 DEF OrderedForks
  <2>1. t \in Steps  BY <1>0, <1>1, <1>5
  <2>2. CASE Owner[t] = w
    <3>1. t = s \/ Rank[t] < Rank[s]  BY <1>2, <1>5, <2>2
    <3>2. Busy(l) => Rank[t] < Rank[l.at]
      <4>1. CASE N = M /\ l.at = s  BY <1>2, <2>2, <4>1
      <4>2. CASE Busy(l) /\ Rank[s] < Rank[l.at]
        BY <1>0, <1>6, <2>1, <3>1, <4>2
      <4> QED  BY <1>7, <4>1, <4>2
    <3> QED  BY <1>6, <2>2, <3>2
  <2>3. CASE Owner[t] # w
    <3>1. t \in M \ C  BY <1>0, <1>5, <2>3
    <3>2. /\ walker[e][Owner[t]].pc # "idle"
          /\ Busy(walker[e][Owner[t]]) => Rank[t] < Rank[walker[e][Owner[t]].at]
      BY <3>1 DEF OrderedForks
    <3>3. Owner[t] \in Steps \ {w}  BY <1>0, <2>1, <2>3
    <3> QED  BY <1>8, <3>2, <3>3 DEF Busy
  <2> QED  BY <2>2, <2>3
<1>10. ASSUME NEW t \in Steps
       PROVE  fired'[t] = fired[t] \/ (t = s /\ fired[s] = 0 /\ fired'[s] = 1)
  BY <1>0, <1>3, <1>4 DEF MoverTable
<1>11. FiredAtMostOnce'
  BY <1>0, <1>10 DEF FiredAtMostOnce
<1>12. \/ s \in N \/ Fails(l)
       \/ l.pc = "run" /\ l.at = s
       \/ k.pc = "walk" /\ UNCHANGED fired
  BY <1>4 DEF MoverTable, Records
<1>13. AccountedForks(walker'[e], n, fired')
  <2> SUFFICES ASSUME NEW t \in Steps, fired'[t] > 0
               PROVE  LET h == walker'[e][Owner[t]]
                      IN t \in N \/ (h.pc = "run" /\ h.at = t) \/ Fails(h)
    BY DEF AccountedForks
  <2>1. CASE t = s
    <3>1. k.pc = "walk" /\ UNCHANGED fired => t \in M
      BY <1>0, <2>1 DEF AccountedForks, Fails
    <3> QED  BY <1>0, <1>5, <1>12, <2>1, <3>1
  <2>2. CASE t # s /\ Owner[t] = w
    <3>1. fired[t] > 0  BY <1>10, <2>2
    <3>2. t \in M  BY <1>0, <2>2, <3>1 DEF AccountedForks, Fails, Busy
    <3> QED  BY <1>5, <3>2
  <2>3. CASE Owner[t] # w
    <3>1. fired[t] > 0 /\ Owner[t] \in Steps \ {w}  BY <1>0, <1>10, <2>3
    <3>2. \/ t \in M
          \/ walker[e][Owner[t]].pc = "run" /\ walker[e][Owner[t]].at = t
          \/ Fails(walker[e][Owner[t]])
      BY <3>1 DEF AccountedForks
    <3>3. Fails(walker[e][Owner[t]]) => walker[e][Owner[t]].pc = "raised"  BY DEF Fails
    <3> QED  BY <1>5, <1>8, <3>1, <3>2, <3>3
  <2> QED  BY <2>1, <2>2, <2>3
<1> QED  BY <1>9, <1>11, <1>13

LEMMA ForkInvInit == Init => ForkInv
<1> SUFFICES ASSUME Init PROVE ForkInv  OBVIOUS
<1>1. FiredAtMostOnce /\ (\A s \in Steps : fired[s] = 0) /\ ~Carried
  BY DEF Init, ExecInit, NoRow, FiredAtMostOnce, Carried
<1>2. \A e \in Execs : ~Keeper(e)
  BY DEF Init, ExecInit, Keeper, Busy, Idle
<1> QED  BY <1>1, <1>2 DEF ForkInv

(* Whoever does not work on the run after a step of the service keeps its  *)
(* walkers, or loses them with its process.                                *)
LEMMA BystandersStay ==
  ASSUME TypeInv, \/ \E e \in Execs : Service(e) \/ Crash(e)
                  \/ Route \/ SetAutonomy,
         NEW f \in Execs, actor'[f] # "live"
  PROVE  \/ walker'[f] = walker[f] /\ mem'[f] = mem[f]
         \/ \A w \in Steps : walker'[f][w] = Idle
<1>0. /\ actor \in [Execs -> {"idle", "claimed", "live", "committed", "ended", "gone"}]
      /\ mem \in [Execs -> MemType(Orgs)] /\ walker \in [Execs -> [Steps -> GoodWalker]]
  BY DEF TypeInv, ExecTypeInv, RunTypeInv
<1>1. CASE Route \/ SetAutonomy
  BY <1>1 DEF Route, CreatePendingRun, Accept, Enqueued, EnqueueRaises, RouteCrashes,
       SetAutonomy, execVars
<1>2. ASSUME NEW e \in Execs, Crash(e)
      PROVE  \/ walker'[f] = walker[f] /\ mem'[f] = mem[f]
             \/ \A w \in Steps : walker'[f][w] = Idle
  BY <1>0, <1>2 DEF Crash, Kill
<1>3. ASSUME NEW e \in Execs, RunInline(e) \/ ExecutePendingRun(e) \/ ResumeRun(e)
      PROVE  walker'[f] = walker[f] /\ mem'[f] = mem[f]
  <2>1. actor'[e] = "live"
    BY <1>0, <1>3 DEF RunInline, ExecutePendingRun, ResumeRun
  <2>2. f # e  BY <2>1
  <2> QED  BY <1>0, <1>3, <2>2 DEF RunInline, ExecutePendingRun, ResumeRun, Begin
<1>4. ASSUME NEW e \in Execs, Service(e), ~(RunInline(e) \/ ExecutePendingRun(e) \/ ResumeRun(e))
      PROVE  walker'[f] = walker[f] /\ mem'[f] = mem[f]
  BY <1>4 DEF Service, InsertRun, SkipRun, FailRun, PersistPendingRun, Ack, Claim,
       ClaimRefused, ResumeRefused, PersistResumedRun, execVars
<1> QED  BY <1>1, <1>2, <1>3, <1>4

LEMMA ForkInvHandover ==
  ASSUME BranchesRunThrough, Acyclic, TypeInv, ExclusiveInv, ExclusiveInv', ForkInv, Handover,
         \A f \in Execs : actor'[f] # "live" =>
           \/ walker'[f] = walker[f] /\ mem'[f] = mem[f]
           \/ \A w \in Steps : walker'[f][w] = Idle
  PROVE  ForkInv'
<1>1. UNCHANGED fired /\ (Fresh' => Fresh) /\ FiredAtMostOnce'
  BY DEF Handover, ForkInv, FiredAtMostOnce
<1>2. ASSUME NEW f \in Execs, (Keeper(f))', actor'[f] # "live"
      PROVE  walker'[f] = walker[f] /\ mem'[f] = mem[f] /\ Keeper(f)
  BY <1>2 DEF Keeper, Busy, Idle
<1>3. ASSUME NEW f \in Execs, actor'[f] = "live"
      PROVE  \/ Keeper(f) /\ mem'[f] = mem[f] /\ walker'[f] = walker[f]
             \/ Fresh /\ Started(f)
             \/ Carried /\ Started(f) /\ mem'[f].nodes = row.nodes
  BY <1>3 DEF Handover, TakesOver, Keeper, Carried
<1>4. ASSUME NEW e \in Execs, HandsBack(e), OutcomeStatus(e) = "paused"
      PROVE  /\ Retained(row', fired)
             /\ \A w \in Steps : ~Busy(walker[e][w])
  <2>1. Keeper(e) /\ row'.nodes = mem[e].nodes  BY <1>4 DEF HandsBack, Keeper
  <2>2. /\ Tree(walker[e], mem[e].completed) /\ AccountedForks(walker[e], mem[e], fired)
    BY <2>1 DEF ForkInv
  <2>3. walker[e][Root].pc \in {"done", "raised"} /\ ~Fails(walker[e][Root])
    BY <1>4 DEF OutcomeStatus, HandsBack, RootDone, Fails
  <2>4. walker[e] \in [Steps -> GoodWalker]  BY DEF TypeInv, ExecTypeInv
  <2>5. ASSUME NEW v \in Steps
        PROVE  walker[e][v].pc \in {"idle", "done", "raised"} /\ ~Fails(walker[e][v])
    BY <2>2, <2>3, <2>4, Settled DEF Fails
  <2>6. \A s \in Steps : Owner[s] \in Steps  BY OwnerParts
  <2> QED  BY <2>1, <2>2, <2>5, <2>6 DEF Retained, AccountedForks, Busy
<1>5. Carried' => Retained(row', fired)
  BY <1>4 DEF Handover, ForkInv, Retained
<1>6. ASSUME NEW f \in Execs, (Keeper(f))'
      PROVE  ~Fresh' /\ ~Carried' /\ \A g \in Execs : (Keeper(g))' => g = f
  <2>1. CASE actor'[f] = "live"
    <3>1. ~Fresh' /\ ~Carried'
      BY <2>1 DEF ExclusiveInv, ExclusiveExecution, Unheld, Holding, Fresh, Carried,
         Untouched, JobWaits
    <3>2. ASSUME NEW g \in Execs, (Keeper(g))' PROVE g = f
      <4>1. CASE actor'[g] = "live"
        BY <2>1, <4>1 DEF ExclusiveInv, ExclusiveExecution, Holding
      <4>2. CASE actor'[g] # "live"
        <5>1. Keeper(g)  BY <1>2, <3>2, <4>2
        <5>2. ~Fresh /\ ~Carried  BY <5>1 DEF ForkInv
        <5>3. Keeper(f)  BY <1>3, <2>1, <5>2
        <5> QED  BY <5>1, <5>3 DEF ForkInv
      <4> QED  BY <4>1, <4>2
    <3> QED  BY <3>1, <3>2
  <2>2. CASE actor'[f] # "live"
    <3>1. Keeper(f) /\ walker'[f] = walker[f]  BY <1>2, <1>6, <2>2
    <3>2. ~Fresh /\ ~Carried /\ \A g \in Execs : Keeper(g) => g = f
      BY <3>1 DEF ForkInv
    <3>3. \E w \in Steps : Busy(walker[f][w])
      BY <1>6, <2>2, <3>1 DEF Keeper
    <3>4. ~Carried'
      <4>1. ASSUME NEW e \in Execs, HandsBack(e), OutcomeStatus(e) = "paused" PROVE FALSE
        <5>1. Keeper(e)  BY <4>1 DEF HandsBack, Keeper
        <5>2. e = f  BY <3>2, <5>1
        <5> QED  BY <1>4, <3>3, <4>1, <5>2
      <4> QED  BY <3>2, <4>1 DEF Handover
    <3>5. ASSUME NEW g \in Execs, (Keeper(g))' PROVE g = f
      <4>1. Keeper(g)  BY <1>2, <1>3, <3>2, <3>5
      <4> QED  BY <3>2, <4>1
    <3> QED  BY <1>1, <3>2, <3>4, <3>5
  <2> QED  BY <2>1, <2>2
<1>7. ASSUME NEW f \in Execs, (Keeper(f))'
      PROVE  /\ Tree(walker'[f], mem'[f].completed)
             /\ OrderedForks(walker'[f], mem'[f])
             /\ AccountedForks(walker'[f], mem'[f], fired)
  <2>1. CASE Keeper(f) /\ mem'[f] = mem[f] /\ walker'[f] = walker[f]
    BY <2>1 DEF ForkInv
  <2>2. ASSUME Started(f), \A s \in Steps : fired[s] > 0 => s \in RangeOf(mem'[f].nodes)
        PROVE  /\ Tree(walker'[f], mem'[f].completed)
               /\ OrderedForks(walker'[f], mem'[f])
               /\ AccountedForks(walker'[f], mem'[f], fired)
    <3>1. Tree(walker'[f], mem'[f].completed)  BY <2>2, TreeStarts
    <3>2. mem'[f].completed = RangeOf(mem'[f].nodes)  BY <2>2 DEF Started
    <3> QED  BY <2>2, <3>1, <3>2 DEF OrderedForks, AccountedForks
  <2>3. CASE Fresh /\ Started(f)
    <3>1. \A s \in Steps : fired[s] = 0  BY <2>3 DEF ForkInv
    <3> QED  BY <2>2, <2>3, <3>1
  <2>4. CASE Carried /\ Started(f) /\ mem'[f].nodes = row.nodes
    <3>1. Retained(row, fired)  BY <2>4 DEF ForkInv
    <3> QED  BY <2>2, <2>4, <3>1 DEF Retained
  <2> QED  BY <1>2, <1>3, <1>7, <2>1, <2>3, <2>4
<1>8. Fresh' => \A s \in Steps : fired'[s] = 0
  BY <1>1 DEF ForkInv
<1> QED  BY <1>1, <1>5, <1>6, <1>7, <1>8 DEF ForkInv

LEMMA ForkInvStep ==
  ASSUME Redeliver = FALSE, BranchesRunThrough, Acyclic,
         TypeInv, ExclusiveInv, SessionInv, AnsweredInv, ForkInv, [Next]_vars
  PROVE  ForkInv'
<1>1. CASE UNCHANGED vars
  BY <1>1 DEF vars, execVars, runVars, ForkInv, FiredAtMostOnce, Fresh, Untouched,
     JobWaits, Carried, Keeper
<1>2. ASSUME NEW e \in Execs, NEW w \in Steps, Walk(e, w) PROVE ForkInv'
  <2>1. UNCHANGED <<row, actor, route, job>> /\ WalkStep(e, w)  BY <1>2 DEF Walk, runVars
  <2>2. Busy(walker[e][w]) /\ Keeper(e)  BY <2>1, WalkerBusy DEF Keeper
  <2>3. /\ ~Fresh /\ ~Carried /\ \A f \in Execs : Keeper(f) => f = e
        /\ Tree(walker[e], mem[e].completed) /\ FiredAtMostOnce
        /\ OrderedForks(walker[e], mem[e]) /\ AccountedForks(walker[e], mem[e], fired)
    BY <2>2 DEF ForkInv
  <2>4. ForkTable(e, w)  BY <2>1, <2>3, ForkWalks
  <2>5. /\ Grows(mem[e], mem'[e])
        /\ \A f \in Execs : f # e => walker'[f] = walker[f]
    BY <2>1, WalkFrame
  <2>6. Tree(walker'[e], mem'[e].completed)
    BY <2>2, <2>3, <2>4, <2>5, TreeWalk DEF Grows
  <2>7. /\ OrderedForks(walker'[e], mem'[e])
        /\ AccountedForks(walker'[e], mem'[e], fired') /\ FiredAtMostOnce'
    BY <2>2, <2>3, <2>4, <2>5, OnceForks
  <2>8. ~Fresh' /\ ~Carried'
    BY <2>1, <2>3 DEF Fresh, Untouched, JobWaits, Carried
  <2>9. ASSUME NEW f \in Execs, (Keeper(f))' PROVE f = e
    BY <2>1, <2>3, <2>5, <2>9 DEF Keeper
  <2> QED  BY <2>6, <2>7, <2>8, <2>9 DEF ForkInv
<1>3. ASSUME \/ \E e \in Execs : Service(e) \/ Crash(e)
             \/ Route \/ SetAutonomy
      PROVE  ForkInv'
  <2>1. Handover  BY <1>3, HandoverStep
  <2>2. ExclusiveInv'  BY ExclusiveInvStep
  <2>3. \A f \in Execs : actor'[f] # "live" =>
           \/ walker'[f] = walker[f] /\ mem'[f] = mem[f]
           \/ \A w \in Steps : walker'[f][w] = Idle
    BY <1>3, BystandersStay
  <2> QED  BY <2>1, <2>2, <2>3, ForkInvHandover
<1> QED  BY <1>1, <1>2, <1>3 DEF Next

(* What holds of a run whose job is delivered once, whatever its graph.    *)
LEMMA RunInductive ==
  ASSUME Redeliver = FALSE
  PROVE  Spec => [](TypeInv /\ ExclusiveInv /\ SessionInv /\ AnsweredInv)
<1> DEFINE Inv == TypeInv /\ ExclusiveInv /\ SessionInv /\ AnsweredInv
<1>1. Init => Inv
  BY TypeInvInit, ExclusiveInvInit, SessionInvInit, AnsweredInvInit
<1>2. Inv /\ [Next]_vars => Inv'
  BY TypeInvStep, ExclusiveInvStep, SessionInvStep, AnsweredInvStep
<1> QED  BY <1>1, <1>2, PTL DEF Spec

(* The promise of the resume fast path and of the claim, for every acyclic *)
(* workflow whose forks are run through: however often the run is paused,  *)
(* whoever approves it, crashes or answers late, and although the branches *)
(* of a fork interleave, outlive the failure of a sibling and outlive the  *)
(* run, the Node.run of a step is started once at most.  It needs the      *)
(* queue to deliver the job once, and branches that do not pause; the runs *)
(* redelivery_rerun and fork_refire show what happens without.             *)
THEOREM AtMostOnce ==
  ASSUME Redeliver = FALSE, Acyclic, BranchesRunThrough
  PROVE  Spec => []FiredAtMostOnce
<1> DEFINE Inv == TypeInv /\ ExclusiveInv /\ SessionInv /\ AnsweredInv
<1>1. Init => ForkInv  BY ForkInvInit
<1>2. Inv /\ ForkInv /\ [Next]_vars => ForkInv'
  BY ForkInvStep
<1>3. ForkInv => FiredAtMostOnce  BY DEF ForkInv
<1> QED  BY <1>1, <1>2, <1>3, RunInductive, PTL DEF Spec

(* A graph without forks has no branches at all.                           *)
LEMMA SequentialRunsThrough == Sequential => BranchesRunThrough
<1> SUFFICES ASSUME Sequential PROVE BranchesRunThrough  OBVIOUS
<1>1. Forks = {}  BY DEF Forks, Sequential
<1> DEFINE own == [s \in Steps |-> Root]
<1>2. own \in [Steps -> Steps] /\ \A s \in Steps : own[s] = Root  BY RootType
<1> HIDE DEF own
<1>3. Nodes \subseteq Steps  BY GraphAssumption
<1>4. Parted(own)  BY <1>1, <1>2, <1>3, RootType DEF Parted, Leads
<1>5. RunsThrough(own)  BY <1>2, <1>3, <1>4 DEF RunsThrough
<1> QED  BY <1>2, <1>5 DEF BranchesRunThrough

-----------------------------------------------------------------------------
(* What the sequential theorems below share. *)
SequentialInv ==
  TypeInv /\ ExclusiveInv /\ SessionInv /\ AnsweredInv /\ QuietInv

LEMMA SequentialInductive ==
  ASSUME Redeliver = FALSE, Sequential
  PROVE  Spec => []SequentialInv
<1>1. Init => SequentialInv
  BY TypeInvInit, ExclusiveInvInit, SessionInvInit, AnsweredInvInit, QuietInvInit
     DEF SequentialInv
<1>2. SequentialInv /\ [Next]_vars => SequentialInv'
  BY TypeInvStep, ExclusiveInvStep, SessionInvStep, AnsweredInvStep, QuietInvStep
     DEF SequentialInv
<1> QED  BY <1>1, <1>2, PTL DEF Spec

-----------------------------------------------------------------------------
(* While someone works on the run its row says so, unless the broker       *)
(* answered late: then the route marks a run failed that is under way.     *)

HeldInv ==
  /\ \A e \in JobExecs \cup Approvers : actor[e] \in {"live", "claimed"} => row.status = "running"
  /\ JobWaits => row.status # "none"
  /\ route = "enqueuing" => row.status # "none"
  /\ route = "enqueuing" /\ job = "none" => row.status = "running"

LEMMA HeldInvInit == Init => HeldInv
BY RunAssumption DEF Init, HeldInv, JobWaits

LEMMA HeldInvStep ==
  ASSUME Redeliver = FALSE, BrokerMayAnswerLate = FALSE,
         TypeInv, ExclusiveInv, SessionInv, HeldInv, [Next]_vars
  PROVE  HeldInv'
<1>0. /\ actor \in [Execs -> {"idle", "claimed", "live", "committed", "ended", "gone"}]
      /\ row \in RowType
      /\ InlineExecs \subseteq Execs /\ JobExecs \subseteq Execs /\ Approvers \subseteq Execs
      /\ InlineExecs \cap JobExecs = {} /\ InlineExecs \cap Approvers = {}
      /\ JobExecs \cap Approvers = {}
  BY RunAssumption DEF TypeInv, RunTypeInv
<1>1. ASSUME UNCHANGED <<row, route>>, JobWaits' => JobWaits,
             job = "none" <=> job' = "none",
             \A e \in Execs : actor'[e] \in {"live", "claimed"} => actor[e] \in {"live", "claimed"}
      PROVE  HeldInv'
  BY <1>0, <1>1 DEF HeldInv
<1>2. CASE UNCHANGED vars \/ SetAutonomy \/ \E e \in Execs, w \in Steps : Walk(e, w)
  BY <1>1, <1>2 DEF vars, runVars, SetAutonomy, Walk, JobWaits
<1>3. ASSUME NEW e \in Execs, InsertRun(e) \/ PersistPendingRun(e) \/ PersistResumedRun(e)
      PROVE  HeldInv'
  <2>1. /\ UNCHANGED <<route, job>> /\ actor[e] = "live"
        /\ \A f \in Execs : actor'[f] \notin {"live", "claimed"}
    BY <1>0, <1>3
       DEF InsertRun, PersistPendingRun, PersistResumedRun, ExclusiveInv, ExclusiveExecution, Holding
  <2>2. row'.status # "none"
    <3>1. RootDone(e)  BY <1>3 DEF InsertRun, PersistPendingRun, PersistResumedRun
    <3> QED  BY <1>3, <3>1, Persisted, OutcomeCases
  <2>3. ~JobWaits
    BY <2>1 DEF JobWaits, ExclusiveInv, Unheld, Holding
  <2> QED  BY <1>0, <2>1, <2>2, <2>3 DEF HeldInv, JobWaits
<1>4. ASSUME NEW e \in Execs, RunInline(e) PROVE HeldInv'
  <2>1. /\ UNCHANGED <<row, route, job>> /\ e \in InlineExecs /\ route = "idle"
        /\ \A f \in Execs : f # e => actor'[f] = "idle"
    BY <1>0, <1>4 DEF RunInline, Untouched
  <2>2. job = "none"  BY <2>1 DEF ExclusiveInv
  <2> QED  BY <1>0, <2>1, <2>2 DEF HeldInv, JobWaits
<1>5. ASSUME NEW e \in Execs, ExecutePendingRun(e) PROVE HeldInv'
  <2>1. /\ UNCHANGED <<row, route>> /\ row.status = "running" /\ job' = "taken"
    BY <1>5 DEF ExecutePendingRun
  <2> QED  BY <2>1 DEF HeldInv
<1>6. ASSUME NEW e \in Execs, FailRun(e) PROVE HeldInv'
  <2>1. /\ UNCHANGED route /\ job = "queued" /\ job' = "acked" /\ row'.status = "failed"
    BY <1>0, <1>6 DEF FailRun, JobDelivered, RowType
  <2>2. \A f \in Execs : actor'[f] \notin {"live", "claimed"}
    BY <1>0, <1>6, <2>1 DEF FailRun, ExclusiveInv, Unheld, Holding
  <2> QED  BY <1>0, <2>1, <2>2 DEF HeldInv, JobWaits
<1>7. ASSUME NEW e \in Execs, Claim(e) PROVE HeldInv'
  <2>1. row'.status = "running"
    BY <1>0, <1>7 DEF Claim, Claimable, RowType
  <2> QED  BY <2>1 DEF HeldInv
<1>8. ASSUME NEW e \in Execs, ResumeRun(e) PROVE HeldInv'
  <2>1. /\ UNCHANGED <<row, route, job>> /\ actor[e] = "claimed" /\ e \in Approvers
        /\ \A f \in Execs : actor'[f] \in {"live", "claimed"} => actor[f] \in {"live", "claimed"}
    BY <1>0, <1>8 DEF ResumeRun, SessionInv
  <2> QED  BY <1>1, <2>1 DEF JobWaits
<1>9. ASSUME NEW e \in Execs,
             SkipRun(e) \/ Ack(e) \/ ClaimRefused(e) \/ ResumeRefused(e) \/ Crash(e)
      PROVE  HeldInv'
  <2>1. /\ UNCHANGED <<row, route>> /\ job' \in {job, "acked"}
        /\ \A f \in Execs : actor'[f] \in {"live", "claimed"} => actor[f] \in {"live", "claimed"}
    BY <1>0, <1>9 DEF SkipRun, Ack, ClaimRefused, ResumeRefused, Crash
  <2>2. JobWaits' => JobWaits  BY <2>1 DEF JobWaits
  <2> QED  BY <1>0, <2>1, <2>2 DEF HeldInv
<1>10. CASE CreatePendingRun
  <2>1. row'.status = "running"  BY <1>10 DEF CreatePendingRun, NoRow
  <2> QED  BY <2>1 DEF HeldInv
<1>11. CASE EnqueueRaises
  <2>1. /\ UNCHANGED <<actor, job>> /\ route' = "done" /\ row'.status = "failed" /\ JobWaits
    BY <1>0, <1>11 DEF EnqueueRaises, RowType, JobWaits
  <2>2. \A f \in Execs : actor'[f] \notin {"live", "claimed"}
    BY <2>1 DEF ExclusiveInv, JobWaits, Unheld, Holding
  <2> QED  BY <1>0, <2>1, <2>2 DEF HeldInv, JobWaits
<1>12. CASE Accept \/ Enqueued \/ RouteCrashes
  <2>1. /\ UNCHANGED <<row, actor>> /\ route = "enqueuing"
    BY <1>12 DEF Accept, Enqueued, RouteCrashes
  <2>2. row.status # "none"  BY <2>1 DEF HeldInv
  <2>3. route' = "enqueuing" /\ job' = "none" => row.status = "running"
    BY <1>12 DEF Accept, Enqueued, RouteCrashes
  <2> QED  BY <1>0, <2>1, <2>2, <2>3 DEF HeldInv
<1> QED
  BY <1>2, <1>3, <1>4, <1>5, <1>6, <1>7, <1>8, <1>9, <1>10, <1>11, <1>12
     DEF Next, Service, Route

(* The chain q holds one record per node run. *)
Complete(q, runs) == \A s \in Steps : Occurrences(q, s) = runs[s]

CompleteInv ==
  /\ Fresh => \A s \in Steps : returned[s] = 0
  /\ \A e \in Execs : actor[e] = "live" => Complete(mem[e].chain, returned)
  /\ AtRest => Complete(row.chain, returned)

LEMMA CompleteInvInit == Init => CompleteInv
BY NoOccurrence DEF Init, ExecInit, NoRow, CompleteInv, AtRest

LEMMA CompleteInvStep ==
  ASSUME Redeliver = FALSE, BrokerMayAnswerLate = FALSE, Sequential,
         SequentialInv, HeldInv, CompleteInv, [Next]_vars
  PROVE  CompleteInv'
<1> USE DEF SequentialInv
<1>1. CASE UNCHANGED vars
  BY <1>1 DEF vars, execVars, runVars, CompleteInv, Complete, Fresh, Untouched, JobWaits, AtRest
<1>2. ASSUME NEW e \in Execs, NEW w \in Steps, Walk(e, w) PROVE CompleteInv'
  <2> DEFINE s == Here(e, Root)
             q == mem[e].chain
             r == mem'[e].chain
  <2>1. UNCHANGED <<row, actor, route, job>> /\ WalkStep(e, w)  BY <1>2 DEF Walk, runVars
  <2>2. walker[e][Root].pc \in {"walk", "run"} /\ RootTable(e)
    BY <2>1, RootWalks DEF QuietInv
  <2>3. actor[e] = "live"  BY <2>2 DEF QuietInv
  <2>4. \A f \in Execs : actor'[f] \in {"live", "claimed"} => f = e /\ actor'[f] = "live"
    BY <2>1, <2>3 DEF ExclusiveInv, ExclusiveExecution, Holding
  <2>5. ~AtRest'
    <3>1. e \in InlineExecs => row.status = "none"  BY <2>3 DEF SessionInv
    <3>2. e \notin InlineExecs => row.status = "running"
      BY <2>3, RunAssumption DEF HeldInv
    <3> QED  BY <2>1, <2>4, <3>1, <3>2 DEF AtRest
  <2>6. ~Fresh'
    BY <2>1, <2>3 DEF Fresh, Untouched, JobWaits, ExclusiveInv, Unheld, Holding
  <2>7. Complete(r, returned')
    <3>0. /\ q \in Seq(Evidence) /\ returned \in [Steps -> Nat] /\ Nodes \subseteq Steps
          /\ \A t \in Steps : Occurrences(q, t) = returned[t]
      BY <2>3, GraphAssumption
         DEF TypeInv, ExecTypeInv, MemType, CompleteInv, Complete
    <3>1. CASE r = q /\ UNCHANGED returned
      BY <3>0, <3>1 DEF Complete
    <3>2. CASE /\ s \in Nodes /\ r = Append(q, [exec |-> e, step |-> s])
               /\ returned' = [returned EXCEPT ![s] = @ + 1]
      <4>1. [exec |-> e, step |-> s] \in Evidence /\ s \in Steps
        BY <3>0, <3>2 DEF Evidence
      <4>2. \A t \in Steps :
              Occurrences(r, t) = IF s = t THEN Occurrences(q, t) + 1 ELSE Occurrences(q, t)
        BY <3>0, <3>2, <4>1, OccurrencesAppend
      <4>3. \A t \in Steps : returned'[t] = IF s = t THEN returned[t] + 1 ELSE returned[t]
        BY <3>0, <3>2, <4>1
      <4> HIDE DEF q, r, s
      <4> QED  BY <3>0, <4>2, <4>3 DEF Complete
    <3> QED  BY <2>2, <3>1, <3>2 DEF RootTable, Keeps, Attests
  <2> QED  BY <2>4, <2>5, <2>6, <2>7 DEF CompleteInv
<1>3. ASSUME Handover PROVE CompleteInv'
  <2>1. UNCHANGED returned /\ (Fresh' => Fresh)  BY <1>3 DEF Handover
  <2>2. Fresh => Complete(<< >>, returned)  BY NoOccurrence DEF CompleteInv, Complete
  <2>3. \A f \in Execs : actor'[f] = "live" => Complete(mem'[f].chain, returned)
    <3>1. \A f \in Execs : actor[f] = "claimed" => Complete(row.chain, returned)
      BY DEF CompleteInv, AtRest
    <3> QED  BY <1>3, <2>2, <3>1 DEF Handover, TakesOver, CompleteInv
  <2>4. AtRest' => Complete(row'.chain, returned)
    BY <1>3, <2>2 DEF Handover, HandsBack, CompleteInv
  <2> QED  BY <2>1, <2>2, <2>3, <2>4 DEF CompleteInv
<1> QED  BY <1>1, <1>2, <1>3, HandoverStep DEF Next

(* The audit trail of a workflow without forks is complete at every rest:  *)
(* one record per Node.run that returned, whoever ran it, pauses, claims,  *)
(* crashes and failed resumes included.  It needs a job delivered once and *)
(* an enqueue error that means the job was not accepted.                   *)
THEOREM EvidenceKept ==
  ASSUME Redeliver = FALSE, BrokerMayAnswerLate = FALSE, Sequential
  PROVE  Spec => []EvidenceComplete
<1>1. Init => HeldInv /\ CompleteInv  BY HeldInvInit, CompleteInvInit
<1>2. SequentialInv /\ (HeldInv /\ CompleteInv) /\ [Next]_vars => (HeldInv /\ CompleteInv)'
  BY HeldInvStep, CompleteInvStep DEF SequentialInv
<1>3. CompleteInv => EvidenceComplete
  BY DEF CompleteInv, EvidenceComplete, AtRest, Complete
<1> QED  BY <1>1, <1>2, <1>3, SequentialInductive, PTL DEF Spec

-----------------------------------------------------------------------------
(* The run keeps the promise of RunProtocol: every step of WorkflowRun is  *)
(* one of its steps, or is not visible to the people outside.              *)

AllIdle == \A e \in Execs : actor[e] = "idle"

LEMMA PhaseCases ==
  ASSUME TypeInv
  PROVE  /\ row.status = "none" /\ AllIdle <=> Phase = "new"
         /\ row.status = "none" /\ ~AllIdle => Phase = "held"
         /\ row.status = "running" => Phase = "held"
         /\ row.status = "paused" <=> Phase = "waiting"
         /\ row.status \in {"succeeded", "failed"} <=> Phase = "over"
BY DEF TypeInv, RunTypeInv, RowType, Statuses, Phase, AllIdle

LEMMA PhaseHeld ==
  ASSUME TypeInv, SessionInv, HeldInv, NEW e \in Execs, actor[e] = "live"
  PROVE  Phase = "held"
<1>1. CASE e \in InlineExecs
  <2>1. row.status = "none" /\ ~AllIdle  BY <1>1 DEF SessionInv, AllIdle
  <2> QED  BY <2>1, PhaseCases
<1>2. CASE e \notin InlineExecs
  <2>1. row.status = "running"  BY <1>2, RunAssumption DEF HeldInv
  <2> QED  BY <2>1, PhaseCases
<1> QED  BY <1>1, <1>2

LEMMA PhaseKept ==
  ASSUME UNCHANGED row, row.status = "none" => (AllIdle' <=> AllIdle)
  PROVE  Phase' = Phase
BY DEF Phase, AllIdle

LEMMA ProtocolInit == Init => Protocol!Init
BY DEF Init, ExecInit, NoRow, Protocol!Init, Phase

LEMMA ProtocolWalk ==
  ASSUME Sequential, SequentialInv, HeldInv, FiredAtMostOnce',
         NEW e \in Execs, NEW w \in Steps, Walk(e, w)
  PROVE  [Protocol!Next]_(Protocol!vars)
<1> USE DEF SequentialInv
<1>1. UNCHANGED <<row, actor>> /\ WalkStep(e, w)  BY DEF Walk, runVars
<1>2. walker[e][Root].pc \in {"walk", "run"} /\ RootTable(e)
  BY <1>1, RootWalks DEF QuietInv
<1>3. Phase = "held"
  BY <1>2, PhaseHeld DEF QuietInv
<1>4. Phase' = Phase  BY <1>1, PhaseKept DEF AllIdle
<1>5. CASE UNCHANGED fired
  BY <1>4, <1>5 DEF Protocol!vars
<1>6. ASSUME NEW s \in Nodes, fired' = [fired EXCEPT ![s] = @ + 1]
      PROVE  Protocol!Effect(s) /\ s \in Steps
  <2>1. s \in Steps /\ fired \in [Steps -> Nat]
    BY GraphAssumption DEF TypeInv, ExecTypeInv
  <2>2. fired[s] = 0 /\ fired' = [fired EXCEPT ![s] = 1]
    <3>1. fired'[s] <= 1  BY <2>1 DEF FiredAtMostOnce
    <3>2. fired'[s] = fired[s] + 1 /\ fired[s] \in Nat  BY <1>6, <2>1
    <3>3. fired[s] = 0  BY <3>1, <3>2
    <3> QED  BY <1>6, <3>3
  <2> QED  BY <1>3, <1>4, <2>1, <2>2 DEF Protocol!Effect
<1> QED  BY <1>2, <1>5, <1>6 DEF RootTable, Protocol!Next

LEMMA ProtocolStep ==
  ASSUME Redeliver = FALSE, BrokerMayAnswerLate = FALSE, Sequential, Acyclic,
         SequentialInv, HeldInv, ForkInv, [Next]_vars
  PROVE  [Protocol!Next]_(Protocol!vars)
<1> USE DEF SequentialInv
<1>0. /\ actor \in [Execs -> {"idle", "claimed", "live", "committed", "ended", "gone"}]
      /\ row \in RowType
      /\ InlineExecs \subseteq Execs /\ JobExecs \subseteq Execs /\ Approvers \subseteq Execs
  BY RunAssumption DEF TypeInv, RunTypeInv
<1>00. TypeInv' /\ ForkInv'
  BY TypeInvStep, ForkInvStep, SequentialRunsThrough
<1>000. /\ row'.status = "none" /\ AllIdle' <=> Phase' = "new"
        /\ row'.status = "none" /\ ~AllIdle' => Phase' = "held"
        /\ row'.status = "running" => Phase' = "held"
        /\ row'.status = "paused" => Phase' = "waiting"
        /\ row'.status \in {"succeeded", "failed"} => Phase' = "over"
  BY <1>00 DEF TypeInv, RunTypeInv, RowType, Statuses, Phase, AllIdle
<1>1. ASSUME UNCHANGED <<row, fired>>, row.status = "none" => (AllIdle' <=> AllIdle)
      PROVE  [Protocol!Next]_(Protocol!vars)
  BY <1>1, PhaseKept DEF Protocol!vars
<1>2. CASE UNCHANGED vars \/ SetAutonomy
  BY <1>1, <1>2 DEF vars, execVars, runVars, SetAutonomy, AllIdle
<1>3. ASSUME NEW e \in Execs, NEW w \in Steps, Walk(e, w)
      PROVE  [Protocol!Next]_(Protocol!vars)
  BY <1>3, <1>00, ProtocolWalk DEF ForkInv
<1>4. ASSUME NEW e \in Execs, RunInline(e) PROVE Protocol!Launch
  <2>1. /\ UNCHANGED <<row, fired>> /\ row.status = "none" /\ AllIdle
        /\ actor'[e] = "live"
    BY <1>0, <1>4 DEF RunInline, Begin, Untouched, AllIdle
  <2>2. ~AllIdle'  BY <2>1 DEF AllIdle
  <2> QED  BY <1>000, <2>1, <2>2, PhaseCases DEF Protocol!Launch
<1>5. CASE CreatePendingRun
  <2>1. /\ UNCHANGED fired /\ row.status = "none" /\ AllIdle /\ row'.status = "running"
    BY <1>5 DEF CreatePendingRun, Untouched, AllIdle, NoRow, execVars
  <2>2. Protocol!Launch
    BY <1>000, <2>1, PhaseCases DEF Protocol!Launch
  <2> QED  BY <2>2 DEF Protocol!Next
<1>6. ASSUME NEW e \in Execs, InsertRun(e) \/ PersistPendingRun(e) \/ PersistResumedRun(e)
      PROVE  Protocol!AskHuman \/ Protocol!Conclude
  <2>1. UNCHANGED fired /\ actor[e] = "live" /\ RootDone(e)
    BY <1>6 DEF InsertRun, PersistPendingRun, PersistResumedRun, execVars
  <2>2. row'.status \in {"succeeded", "paused", "failed"}
    BY <1>6, <2>1, Persisted, OutcomeCases
  <2>3. Phase = "held"  BY <2>1, PhaseHeld
  <2> QED  BY <1>000, <2>1, <2>2, <2>3 DEF Protocol!AskHuman, Protocol!Conclude
<1>7. CASE EnqueueRaises \/ \E e \in Execs : FailRun(e)
  <2>1. UNCHANGED fired /\ row.status = "running" /\ row'.status = "failed"
    BY <1>0, <1>7 DEF EnqueueRaises, FailRun, HeldInv, execVars, RowType
  <2>2. Protocol!Conclude
    BY <1>000, <2>1, PhaseCases DEF Protocol!Conclude
  <2> QED  BY <2>2 DEF Protocol!Next
<1>8. ASSUME NEW e \in Execs, Claim(e) PROVE Protocol!Approve
  <2>1. UNCHANGED fired /\ row.status = "paused" /\ row'.status = "running"
    BY <1>0, <1>8 DEF Claim, Claimable, execVars, RowType
  <2> QED  BY <1>000, <2>1, PhaseCases DEF Protocol!Approve
<1>9. ASSUME NEW e \in Execs, SkipRun(e) \/ ExecutePendingRun(e) \/ ClaimRefused(e)
      PROVE  [Protocol!Next]_(Protocol!vars)
  <2>1. UNCHANGED <<row, fired>> /\ row.status # "none"
    BY <1>9
       DEF SkipRun, ExecutePendingRun, ClaimRefused, JobDelivered, Begin, execVars, HeldInv, JobWaits
  <2> QED  BY <1>1, <2>1
<1>10. ASSUME NEW e \in Execs, Ack(e) \/ ResumeRefused(e) \/ ResumeRun(e) \/ Crash(e)
       PROVE  [Protocol!Next]_(Protocol!vars)
  <2>1. UNCHANGED <<row, fired>> /\ actor[e] # "idle" /\ actor'[e] # "idle"
    BY <1>0, <1>10 DEF Ack, ResumeRefused, ResumeRun, Crash, Begin, execVars
  <2> QED  BY <1>1, <2>1 DEF AllIdle
<1>11. CASE Accept \/ Enqueued \/ RouteCrashes
  <2>1. UNCHANGED <<row, fired, actor>>
    BY <1>11 DEF Accept, Enqueued, RouteCrashes, execVars
  <2> QED  BY <1>1, <2>1 DEF AllIdle
<1> QED
  BY <1>2, <1>3, <1>4, <1>5, <1>6, <1>7, <1>8, <1>9, <1>10, <1>11
     DEF Next, Service, Route, Protocol!Next

(* For every acyclic workflow without a parallel step, any number of       *)
(* approvers and any edits of the autonomy policy: the rows, sessions,     *)
(* queue and crashes of WorkflowRun implement RunProtocol, in which one    *)
(* holder at a time carries out each effect once at most, nothing happens  *)
(* while a human is asked, and a run that is over stays over.              *)
THEOREM Implements ==
  ASSUME Redeliver = FALSE, BrokerMayAnswerLate = FALSE, Sequential, Acyclic
  PROVE  Spec => ImplementsProtocol
<1>1. Init => HeldInv /\ ForkInv  BY HeldInvInit, ForkInvInit
<1>2. SequentialInv /\ (HeldInv /\ ForkInv) /\ [Next]_vars => (HeldInv /\ ForkInv)'
  BY HeldInvStep, ForkInvStep, SequentialRunsThrough DEF SequentialInv
<1>3. SequentialInv /\ HeldInv /\ ForkInv /\ [Next]_vars => [Protocol!Next]_(Protocol!vars)
  BY ProtocolStep
<1> QED
  BY <1>1, <1>2, <1>3, ProtocolInit, SequentialInductive, PTL
     DEF Spec, ImplementsProtocol, Protocol!Spec
=============================================================================
