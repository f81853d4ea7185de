---------------------------- MODULE RunRecordProofs ----------------------------
(***************************************************************************)
(* What the row of a run records, for every workflow graph, forks and      *)
(* cycles included: evidence of nothing that did not happen, a checkpoint  *)
(* that is never lost and a pause at which the next approver can act.      *)
(***************************************************************************)
EXTENDS WorkflowRunProofs, FiniteSetTheorems

-----------------------------------------------------------------------------
(* What the executor's helpers do to its memory. *)

LEMMA AppendRange ==
  ASSUME NEW S, NEW q \in Seq(S), NEW x \in S
  PROVE  /\ RangeOf(Append(q, x)) = RangeOf(q) \cup {x}
         /\ IsPrefixOf(q, Append(q, x))
<1>1. /\ Append(q, x) \in Seq(S) /\ Len(Append(q, x)) = Len(q) + 1
      /\ \A i \in 1..Len(q) : Append(q, x)[i] = q[i]
      /\ Append(q, x)[Len(q) + 1] = x
      /\ DOMAIN q = 1..Len(q) /\ DOMAIN Append(q, x) = 1..(Len(q) + 1)
      /\ Len(q) \in Nat
  BY AppendProperties, LenProperties
<1>2. 1..(Len(q) + 1) = 1..Len(q) \cup {Len(q) + 1}
  BY <1>1
<1>3. RangeOf(Append(q, x)) = RangeOf(q) \cup {x}
  BY <1>1, <1>2 DEF RangeOf
<1>4. IsPrefixOf(q, Append(q, x))
  BY <1>1 DEF IsPrefixOf
<1> QED  BY <1>3, <1>4

LEMMA PrefixReflexive ==
  ASSUME NEW S, NEW q \in Seq(S)
  PROVE  IsPrefixOf(q, q)
BY LenProperties DEF IsPrefixOf

LEMMA PrefixTransitive ==
  ASSUME NEW S, NEW p \in Seq(S), NEW q \in Seq(S), NEW r \in Seq(S),
         IsPrefixOf(p, q), IsPrefixOf(q, r)
  PROVE  IsPrefixOf(p, r)
<1>1. /\ Len(p) \in Nat /\ Len(q) \in Nat /\ Len(r) \in Nat
      /\ DOMAIN p = 1..Len(p) /\ DOMAIN q = 1..Len(q)
  BY LenProperties
<1>2. \A i \in DOMAIN p : i \in DOMAIN q
  BY <1>1 DEF IsPrefixOf
<1> QED  BY <1>1, <1>2 DEF IsPrefixOf

LEMMA EmptyIsPrefix ==
  ASSUME NEW q, Len(q) \in Nat
  PROVE  IsPrefixOf(<< >>, q)
BY DEF IsPrefixOf

(* How a memory may go on: r comes from m by some steps of its execution.  *)
Grows(m, r) ==
  /\ IsPrefixOf(m.nodes, r.nodes) /\ IsPrefixOf(m.chain, r.chain)
  /\ r.completed = m.completed /\ r.approved = m.approved /\ r.org = m.org

Keeps(m, r) == r.nodes = m.nodes /\ r.chain = m.chain

Records(m, r, s) == RangeOf(r.nodes) = RangeOf(m.nodes) \cup {s}

Attests(m, r, e, s) == r.chain = Append(m.chain, [exec |-> e, step |-> s])

LEMMA GrowsReflexive ==
  ASSUME NEW m \in MemType(Orgs)
  PROVE  Grows(m, m) /\ Keeps(m, m)
<1>1. m.nodes \in Seq(Steps) /\ m.chain \in Seq(Evidence)  BY DEF MemType
<1> QED  BY <1>1, PrefixReflexive DEF Grows, Keeps

LEMMA Stamped ==
  ASSUME NEW m \in MemType(Orgs), NEW s \in Steps
  PROVE  Grows(m, Stamp(m, s)) /\ Keeps(m, Stamp(m, s))
<1>1. Stamp(m, s) \in MemType(Orgs)  BY StampType
<1>2. /\ Stamp(m, s).nodes = m.nodes /\ Stamp(m, s).chain = m.chain
      /\ Stamp(m, s).completed = m.completed
      /\ Stamp(m, s).approved = m.approved /\ Stamp(m, s).org = m.org
  BY DEF Stamp, MemType
<1> QED  BY <1>2, GrowsReflexive DEF Grows, Keeps

(* Recording a step adds it to the steps executed and forgets none. *)
LEMMA Recorded ==
  ASSUME NEW m \in MemType(Orgs), NEW s \in Steps, NEW b
  PROVE  /\ Grows(m, RecordOutput(m, s, b)) /\ Records(m, RecordOutput(m, s, b), s)
         /\ RecordOutput(m, s, b).chain = m.chain
<1>1. m.nodes \in Seq(Steps) /\ m.chain \in Seq(Evidence)  BY DEF MemType
<1> DEFINE r == RecordOutput(m, s, b)
<1>2. /\ r.nodes = IF s \in RangeOf(m.nodes) THEN m.nodes ELSE Append(m.nodes, s)
      /\ r.chain = m.chain /\ r.completed = m.completed
      /\ r.approved = m.approved /\ r.org = m.org
  BY DEF RecordOutput, MemType
<1> HIDE DEF r
<1>3. RangeOf(r.nodes) = RangeOf(m.nodes) \cup {s} /\ IsPrefixOf(m.nodes, r.nodes)
  <2>1. CASE s \in RangeOf(m.nodes)
    BY <1>1, <1>2, <2>1, PrefixReflexive
  <2>2. CASE s \notin RangeOf(m.nodes)
    BY <1>1, <1>2, <2>2, AppendRange
  <2> QED  BY <2>1, <2>2
<1>4. IsPrefixOf(m.chain, r.chain)  BY <1>1, <1>2, PrefixReflexive
<1>5. Grows(m, r) /\ Records(m, r, s) /\ r.chain = m.chain
  BY <1>2, <1>3, <1>4 DEF Grows, Records
<1> QED  BY <1>5 DEF r

LEMMA Evidenced ==
  ASSUME NEW m \in MemType(Orgs), NEW e \in Execs, NEW s \in Steps, NEW b
  PROVE  LET r == RecordOutput(AppendEvidence(m, e, s), s, b)
         IN  Grows(m, r) /\ Records(m, r, s) /\ Attests(m, r, e, s)
<1> DEFINE a == AppendEvidence(m, e, s)
           x == [exec |-> e, step |-> s]
           r == RecordOutput(a, s, b)
<1>1. x \in Evidence /\ m.nodes \in Seq(Steps) /\ m.chain \in Seq(Evidence)
  BY DEF Evidence, MemType
<1>2. /\ a.chain = Append(m.chain, x) /\ a.nodes = m.nodes
      /\ a.completed = m.completed /\ a.approved = m.approved /\ a.org = m.org
  BY DEF AppendEvidence, MemType
<1>3. a \in MemType(Orgs)  BY AppendEvidenceType
<1> HIDE DEF a
<1>4. Grows(a, r) /\ Records(a, r, s) /\ r.chain = a.chain
  BY <1>3, Recorded
<1>5. IsPrefixOf(m.chain, Append(m.chain, x))
  <2> HIDE DEF x
  <2> QED  BY <1>1, AppendRange
<1> HIDE DEF r
<1>6. Grows(m, r) /\ Records(m, r, s) /\ Attests(m, r, e, s)
  BY <1>2, <1>4, <1>5 DEF Grows, Records, Attests
<1> QED  BY <1>6 DEF a, r

(* One step of a walk: what it may change in the memory of its execution,  *)
(* by the kind of step. Every proof below starts from this table.          *)
WalkTable(e, w) ==
  LET s == Here(e, w)
  IN \/ Keeps(mem[e], mem'[e]) /\ UNCHANGED <<fired, returned>>
     \/ /\ PassThrough(e, w) /\ s \in Nodes
        /\ Records(mem[e], mem'[e], s) /\ mem'[e].chain = mem[e].chain
        /\ UNCHANGED <<fired, returned>>
     \/ /\ Fire(e, w) /\ s \in Nodes
        /\ Keeps(mem[e], mem'[e]) /\ UNCHANGED returned
     \/ /\ Return(e, w) \/ Merge(e, w)
        /\ s \in Nodes
        /\ Records(mem[e], mem'[e], s) /\ Attests(mem[e], mem'[e], e, s)
        /\ returned' = [returned EXCEPT ![s] = @ + 1]

LEMMA WalkFrame ==
  ASSUME TypeInv, NEW e \in Execs, NEW w \in Steps, WalkStep(e, w)
  PROVE  /\ \A f \in Execs : f # e => mem'[f] = mem[f] /\ walker'[f] = walker[f]
         /\ Grows(mem[e], mem'[e])
         /\ WalkTable(e, w)
<1> DEFINE s == Here(e, w)
<1>0. /\ Nodes \subseteq Steps
      /\ walker \in [Execs -> [Steps -> GoodWalker]]
      /\ walker[e][w] \in GoodWalker
      /\ mem \in [Execs -> MemType(Orgs)] /\ mem[e] \in MemType(Orgs)
  BY GraphAssumption DEF TypeInv, ExecTypeInv
<1>00. Grows(mem[e], mem[e]) /\ Keeps(mem[e], mem[e])
  BY <1>0, GrowsReflexive
<1>1. CASE WalkAborts(e, w) \/ Reuse(e, w) \/ PrepareFails(e, w) \/ NodeRaises(e, w)
           \/ Fork(e, w) \/ Propagate(e, w)
  <2>1. /\ UNCHANGED <<mem, fired, returned>>
        /\ \A f \in Execs : f # e => walker'[f] = walker[f]
    BY <1>0, <1>1 DEF WalkAborts, Reuse, PrepareFails, NodeRaises, Fork, Propagate
  <2> QED  BY <1>00, <2>1 DEF WalkTable
<1>2. CASE GateStops(e, w) \/ Fire(e, w)
  <2>1. /\ \A f \in Execs : f # e => mem'[f] = mem[f] /\ walker'[f] = walker[f]
        /\ mem'[e] = Stamp(mem[e], s)
        /\ UNCHANGED returned
        /\ s \in Nodes
    BY <1>0, <1>2 DEF GateStops, Fire, AtNode
  <2>2. Grows(mem[e], mem'[e]) /\ Keeps(mem[e], mem'[e])
    BY <1>0, <2>1, Stamped
  <2>3. GateStops(e, w) => UNCHANGED fired  BY DEF GateStops
  <2> QED  BY <1>2, <2>1, <2>2, <2>3 DEF WalkTable
<1>3. CASE PassThrough(e, w)
  <2>1. s \in Nodes  BY <1>3 DEF PassThrough, AtNode
  <2>2. /\ mem'[e] = RecordOutput(mem[e], s, None)
        /\ \A f \in Execs : f # e => mem'[f] = mem[f] /\ walker'[f] = walker[f]
        /\ UNCHANGED <<fired, returned>>
    BY <1>0, <1>3 DEF PassThrough
  <2>3. /\ Grows(mem[e], mem'[e]) /\ Records(mem[e], mem'[e], s)
        /\ mem'[e].chain = mem[e].chain
    BY <1>0, <2>1, <2>2, Recorded
  <2> QED  BY <1>3, <2>1, <2>2, <2>3 DEF WalkTable
<1>4. CASE Return(e, w) \/ Merge(e, w)
  <2>1. s \in Nodes  BY <1>0, <1>4 DEF Return, Gathered, Merge, GoodWalker, Here
  <2>2. /\ \E b \in BranchLabels \cup {None} :
             mem'[e] = RecordOutput(AppendEvidence(mem[e], e, s), s, b)
        /\ \A f \in Execs : f # e => mem'[f] = mem[f] /\ walker'[f] = walker[f]
        /\ returned' = [returned EXCEPT ![s] = @ + 1]
    BY <1>0, <1>4 DEF Return, Gathered, Merge
  <2>3. PICK b \in BranchLabels \cup {None} :
          mem'[e] = RecordOutput(AppendEvidence(mem[e], e, s), s, b)
    BY <2>2
  <2>4. /\ Grows(mem[e], mem'[e]) /\ Records(mem[e], mem'[e], s)
        /\ Attests(mem[e], mem'[e], e, s)
    BY <1>0, <2>1, <2>3, Evidenced
  <2> QED  BY <1>4, <2>1, <2>2, <2>4 DEF WalkTable
<1> QED  BY <1>1, <1>2, <1>3, <1>4 DEF WalkStep
-----------------------------------------------------------------------------
(* Outside the walks nothing is fired, and no memory goes on: a request or *)
(* job may only begin an execution.                                        *)

Begun(e) ==
  \/ RunInline(e) /\ mem'[e].approved = {} /\ mem'[e].chain = << >>
  \/ ExecutePendingRun(e) /\ mem'[e].approved = {} /\ mem'[e].chain = << >>
  \/ ResumeRun(e) /\ mem'[e].approved = ApprovedSteps /\ mem'[e].chain = row.chain

LEMMA ServiceFrame ==
  ASSUME TypeInv, NEW e \in Execs, Service(e)
  PROVE  /\ UNCHANGED <<fired, returned>>
         /\ \A f \in Execs : f # e => mem'[f] = mem[f] /\ walker'[f] = walker[f]
         /\ UNCHANGED <<mem, walker>> \/ Begun(e)
<1>0. mem \in [Execs -> MemType(Orgs)] /\ walker \in [Execs -> [Steps -> GoodWalker]]
  BY DEF TypeInv, ExecTypeInv
<1>1. CASE RunInline(e) \/ ExecutePendingRun(e) \/ ResumeRun(e)
  <2>1. /\ UNCHANGED <<fired, returned>>
        /\ \A f \in Execs : f # e => mem'[f] = mem[f] /\ walker'[f] = walker[f]
    BY <1>0, <1>1 DEF RunInline, ExecutePendingRun, ResumeRun, Begin
  <2>2. Begun(e)
    BY <1>0, <1>1 DEF Begun, RunInline, ExecutePendingRun, ResumeRun, Begin, PriorEvidence
  <2> QED  BY <2>1, <2>2
<1>2. CASE ~(RunInline(e) \/ ExecutePendingRun(e) \/ ResumeRun(e))
  BY <1>2 DEF Service, InsertRun, SkipRun, FailRun, PersistPendingRun, Ack, Claim,
              ClaimRefused, ResumeRefused, PersistResumedRun, execVars
<1> QED  BY <1>1, <1>2

LEMMA RestFrame ==
  ASSUME Route \/ SetAutonomy \/ \E e \in Execs : Crash(e)
  PROVE  UNCHANGED <<mem, fired, returned, seen>>
BY DEF Route, CreatePendingRun, Accept, Enqueued, EnqueueRaises, RouteCrashes,
       SetAutonomy, Crash, execVars

(* What a persisted outcome may write into a column of the row. *)
LEMMA PersistedColumns ==
  ASSUME TypeInv, NEW e \in Execs,
         InsertRun(e) \/ PersistPendingRun(e) \/ PersistResumedRun(e)
  PROVE  /\ row'.chain \in {row.chain, mem[e].chain}
         /\ row'.approved \in {row.approved, seen[e].approved, mem[e].approved}
<1>1. \A r \in RowType : \A x :
        /\ Flush(e, r, x).chain \in {r.chain, row.chain}
        /\ Flush(e, r, x).approved \in {r.approved, row.approved}
  BY DEF Flush, TypeInv, RunTypeInv, RowType
<1>2. RootDone(e)
  BY DEF InsertRun, PersistPendingRun, PersistResumedRun
<1>3. FreshRow(e) \in RowType /\ ResumedRow(e) \in RowType
  BY <1>2, OutcomeType
<1>4. /\ FreshRow(e).chain = mem[e].chain /\ FreshRow(e).approved = seen[e].approved
      /\ ResumedRow(e).chain = mem[e].chain /\ ResumedRow(e).approved = mem[e].approved
  BY DEF FreshRow, ResumedRow
<1> QED  BY <1>1, <1>3, <1>4 DEF InsertRun, PersistPendingRun, PersistResumedRun

(* The columns of the row that the other actions leave alone. *)
LEMMA OtherColumns ==
  ASSUME TypeInv,
         \/ \E e \in Execs : FailRun(e) \/ Claim(e)
         \/ EnqueueRaises
  PROVE  /\ row'.chain = row.chain /\ row'.nodes = row.nodes
         /\ row'.approved = row.approved /\ row'.paused = row.paused
         /\ row'.branch = row.branch
BY DEF FailRun, Claim, EnqueueRaises, TypeInv, RunTypeInv, RowType

-----------------------------------------------------------------------------
(* The evidence chain never claims a run that did not happen: no chain, in *)
(* a memory or in the row, is ahead of the node runs.                      *)

LEMMA OccurrencesAppend ==
  ASSUME NEW q \in Seq(Evidence), NEW x \in Evidence, NEW s \in Steps
  PROVE  /\ Occurrences(q, s) \in Nat
         /\ Occurrences(Append(q, x), s) =
              IF x.step = s THEN Occurrences(q, s) + 1 ELSE Occurrences(q, s)
<1> DEFINE I == {i \in DOMAIN q : q[i].step = s}
           J == {i \in DOMAIN Append(q, x) : Append(q, x)[i].step = s}
<1>1. /\ Len(q) \in Nat /\ DOMAIN q = 1..Len(q)
      /\ DOMAIN Append(q, x) = 1..(Len(q) + 1)
      /\ \A i \in 1..Len(q) : Append(q, x)[i] = q[i]
      /\ Append(q, x)[Len(q) + 1] = x
  BY AppendProperties, LenProperties
<1>2. I \subseteq 1..Len(q) /\ IsFiniteSet(1..Len(q))
  BY <1>1, FS_Interval
<1>3. IsFiniteSet(I) /\ Cardinality(I) \in Nat
  BY <1>2, FS_Subset, FS_CardinalityType
<1>4. 1..(Len(q) + 1) = 1..Len(q) \cup {Len(q) + 1} /\ Len(q) + 1 \notin 1..Len(q)
  BY <1>1
<1>5. J = IF x.step = s THEN I \cup {Len(q) + 1} ELSE I
  BY <1>1, <1>4
<1>6. Len(q) + 1 \notin I  BY <1>2, <1>4
<1> HIDE DEF I, J
<1>7. Cardinality(J) = IF x.step = s THEN Cardinality(I) + 1 ELSE Cardinality(I)
  BY <1>3, <1>5, <1>6, FS_AddElement
<1> QED  BY <1>3, <1>7 DEF Occurrences, I, J

LEMMA NoOccurrence == \A s : Occurrences(<< >>, s) = 0
<1>1. \A s : {i \in DOMAIN << >> : << >>[i].step = s} = {}  OBVIOUS
<1> QED  BY <1>1, FS_EmptySet DEF Occurrences

Covered(q, runs) == \A s \in Steps : Occurrences(q, s) <= runs[s]

LEMMA NothingCovered ==
  ASSUME NEW runs \in [Steps -> Nat]
  PROVE  Covered(<< >>, runs)
BY NoOccurrence DEF Covered

(* A chain stays covered when a node returns, and the record appended for  *)
(* that return is covered by it.                                           *)
LEMMA CoveredAppend ==
  ASSUME NEW q \in Seq(Evidence), NEW runs \in [Steps -> Nat], NEW e \in Execs,
         NEW s \in Steps, Covered(q, runs)
  PROVE  /\ Covered(q, [runs EXCEPT ![s] = @ + 1])
         /\ Covered(Append(q, [exec |-> e, step |-> s]), [runs EXCEPT ![s] = @ + 1])
<1>1. [exec |-> e, step |-> s] \in Evidence  BY DEF Evidence
<1>2. \A t \in Steps :
        /\ Occurrences(q, t) \in Nat
        /\ Occurrences(Append(q, [exec |-> e, step |-> s]), t) =
             IF s = t THEN Occurrences(q, t) + 1 ELSE Occurrences(q, t)
  BY <1>1, OccurrencesAppend
<1> QED  BY <1>2 DEF Covered

SoundInv ==
  /\ Covered(row.chain, returned)
  /\ \A e \in Execs : Covered(mem[e].chain, returned)

LEMMA SoundInvStep ==
  ASSUME TypeInv, SoundInv, [Next]_vars
  PROVE  SoundInv'
<1> USE DEF SoundInv
<1>0. /\ row.chain \in Seq(Evidence) /\ returned \in [Steps -> Nat]
      /\ \A f \in Execs : mem[f].chain \in Seq(Evidence)
      /\ Nodes \subseteq Steps
  BY GraphAssumption DEF TypeInv, RunTypeInv, ExecTypeInv, RowType, MemType
<1>1. CASE UNCHANGED vars
  BY <1>1 DEF vars, execVars, runVars
<1>2. ASSUME NEW e \in Execs, NEW w \in Steps, Walk(e, w) PROVE SoundInv'
  <2> DEFINE s == Here(e, w)
  <2>1. UNCHANGED row /\ WalkStep(e, w)  BY <1>2 DEF Walk, runVars
  <2>2. /\ \A f \in Execs : f # e => mem'[f] = mem[f]
        /\ WalkTable(e, w)
    BY <2>1, WalkFrame
  <2>3. CASE UNCHANGED returned /\ mem'[e].chain = mem[e].chain
    BY <2>1, <2>2, <2>3
  <2>4. CASE /\ s \in Nodes /\ Attests(mem[e], mem'[e], e, s)
             /\ returned' = [returned EXCEPT ![s] = @ + 1]
    <3>1. s \in Steps  BY <1>0, <2>4
    <3>2. \A q \in Seq(Evidence) : Covered(q, returned) =>
            /\ Covered(q, returned')
            /\ Covered(Append(q, [exec |-> e, step |-> s]), returned')
      BY <1>0, <2>4, <3>1, CoveredAppend
    <3>3. mem'[e].chain = Append(mem[e].chain, [exec |-> e, step |-> s])
      BY <2>4 DEF Attests
    <3> QED  BY <1>0, <2>1, <2>2, <3>2, <3>3
  <2> QED  BY <2>2, <2>3, <2>4 DEF WalkTable, Keeps
<1>3. ASSUME NEW e \in Execs, Service(e) PROVE SoundInv'
  <2>1. UNCHANGED returned  BY <1>3, ServiceFrame
  <2>2. \A f \in Execs : mem'[f].chain \in {mem[f].chain, row.chain, << >>}
    BY <1>3, ServiceFrame DEF Begun
  <2>3. row'.chain \in {row.chain, mem[e].chain}
    <3>1. CASE InsertRun(e) \/ PersistPendingRun(e) \/ PersistResumedRun(e)
      BY <3>1, PersistedColumns
    <3>2. CASE FailRun(e) \/ Claim(e)
      BY <3>2, OtherColumns
    <3>3. CASE UNCHANGED row
      BY <3>3
    <3> QED
      BY <1>3, <3>1, <3>2, <3>3
         DEF Service, RunInline, SkipRun, ExecutePendingRun, Ack, ClaimRefused,
             ResumeRefused, ResumeRun
  <2> QED  BY <1>0, <2>1, <2>2, <2>3, NothingCovered
<1>4. CASE Route
  <2>1. UNCHANGED <<mem, returned>>  BY <1>4, RestFrame
  <2>2. row'.chain \in {row.chain, << >>}
    <3>1. CASE EnqueueRaises  BY <3>1, OtherColumns
    <3>2. CASE ~EnqueueRaises
      BY <1>4, <3>2 DEF Route, CreatePendingRun, Accept, Enqueued, RouteCrashes, NoRow
    <3> QED  BY <3>1, <3>2
  <2> QED  BY <1>0, <2>1, <2>2, NothingCovered
<1>5. CASE SetAutonomy \/ \E e \in Execs : Crash(e)
  <2>1. UNCHANGED <<mem, returned>>  BY <1>5, RestFrame
  <2>2. UNCHANGED row  BY <1>5 DEF SetAutonomy, Crash
  <2> QED  BY <2>1, <2>2
<1> QED  BY <1>1, <1>2, <1>3, <1>4, <1>5 DEF Next

(* Whatever is forked, redelivered, resumed or crashes, and whoever writes *)
(* the row over whom: the audit trail holds no more records of a step than *)
(* its Node.run returned.                                                  *)
THEOREM Sound == Spec => []EvidenceSound
<1>1. Init => SoundInv
  <2> SUFFICES ASSUME Init PROVE SoundInv  OBVIOUS
  <2>1. returned \in [Steps -> Nat]  BY TypeInvInit DEF TypeInv, ExecTypeInv
  <2> QED  BY <2>1, NothingCovered DEF Init, ExecInit, NoRow, SoundInv
<1>2. (TypeInv /\ SoundInv) /\ [Next]_vars => (TypeInv /\ SoundInv)'
  BY TypeInvStep, SoundInvStep
<1>3. SoundInv => EvidenceSound  BY DEF SoundInv, Covered, EvidenceSound
<1> QED  BY <1>1, <1>2, <1>3, TypeInvInit, PTL DEF Spec

-----------------------------------------------------------------------------
(* Without a human nothing gated runs, even if the queue redelivers: the   *)
(* first approval of a run is a claim.                                     *)

UnattendedInv ==
  consented = {} =>
    /\ \A s \in Nodes : fired[s] > 0 => ~AlwaysGated(NodeOf[s])
    /\ \A e \in Execs :
         mem[e].approved = {} /\ seen[e].approved = {} /\ actor[e] # "claimed"
    /\ row.approved = {}

LEMMA UnattendedInvStep ==
  ASSUME TypeInv, UnattendedInv, [Next]_vars
  PROVE  UnattendedInv'
<1> SUFFICES ASSUME consented' = {} PROVE UnattendedInv'
  BY DEF UnattendedInv
<1>0. /\ Nodes \subseteq Steps /\ fired \in [Steps -> Nat]
      /\ actor \in [Execs -> {"idle", "claimed", "live", "committed", "ended", "gone"}]
      /\ seen \in [Execs -> RowType]
      /\ mem \in [Execs -> MemType(Orgs)]
      /\ walker \in [Execs -> [Steps -> GoodWalker]]
  BY GraphAssumption DEF TypeInv, RunTypeInv, ExecTypeInv
<1>1. CASE UNCHANGED vars
  BY <1>1 DEF vars, execVars, runVars, UnattendedInv
<1>2. ASSUME NEW e \in Execs, NEW w \in Steps, Walk(e, w) PROVE UnattendedInv'
  <2>1. UNCHANGED <<row, seen, actor, consented>> /\ WalkStep(e, w)
    BY <1>2 DEF Walk, runVars
  <2>2. \A f \in Execs : mem'[f].approved = mem[f].approved
    BY <2>1, WalkFrame DEF Grows
  <2>3. \A s \in Nodes : fired'[s] > 0 => ~AlwaysGated(NodeOf[s])
    <3>1. \A s \in Nodes : fired[s] > 0 => ~AlwaysGated(NodeOf[s])
      BY <2>1 DEF UnattendedInv
    <3>2. CASE Fire(e, w)
      <4> DEFINE s == Here(e, w)
      <4>1. s \in Nodes /\ GateAnswer(Stamp(mem[e], s), s) = "run"
        BY <3>2 DEF Fire, AtNode
      <4>2. mem[e].approved = {}  BY <2>1 DEF UnattendedInv
      <4>3. Stamp(mem[e], s).approved = {}
        BY <1>0, <4>2, ApprovalsKept
      <4>4. ~StepIsApproved(Stamp(mem[e], s))
        BY <4>3 DEF StepIsApproved
      <4>5. ~AlwaysGated(NodeOf[s])
        BY <4>1, <4>4, GatePassedOnlyApproved
      <4>6. \A t \in Nodes : t # s => fired'[t] = fired[t]
        BY <1>0, <3>2 DEF Fire
      <4> QED  BY <3>1, <4>5, <4>6
    <3>3. CASE Merge(e, w)
      <4> DEFINE s == Here(e, w)
      <4>1. s \in Nodes /\ NodeOf[s].kind = "parallel"
        BY <1>0, <3>3 DEF Gathered, Merge, GoodWalker, Here
      <4>2. \A t \in Nodes : t # s => fired'[t] = fired[t]
        BY <1>0, <3>3 DEF Gathered, Merge
      <4> QED  BY <3>1, <4>1, <4>2, ParallelNotGated
    <3>4. CASE ~Fire(e, w) /\ ~Merge(e, w)
      <4>1. UNCHANGED fired
        BY <2>1, <3>4 DEF WalkStep, WalkAborts, Reuse, PassThrough, PrepareFails, GateStops,
                          Return, NodeRaises, Fork, Propagate
      <4> QED  BY <3>1, <4>1
    <3> QED  BY <3>2, <3>3, <3>4
  <2> QED  BY <2>1, <2>2, <2>3 DEF UnattendedInv
<1>3. ASSUME NEW e \in Execs, Service(e) PROVE UnattendedInv'
  <2>1. ~Claim(e)
    BY DEF Claim
  <2>2. consented = {}
    BY <1>3, <2>1 DEF Service, RunInline, InsertRun, SkipRun, FailRun, ExecutePendingRun,
          PersistPendingRun, Ack, ClaimRefused, ResumeRefused, ResumeRun, PersistResumedRun
  <2>3. /\ \A s \in Nodes : fired[s] > 0 => ~AlwaysGated(NodeOf[s])
        /\ \A f \in Execs :
             mem[f].approved = {} /\ seen[f].approved = {} /\ actor[f] # "claimed"
        /\ row.approved = {}
    BY <2>2 DEF UnattendedInv
  <2>4. ~ResumeRun(e)  BY <2>3 DEF ResumeRun
  <2>5. UNCHANGED fired /\ \A f \in Execs : mem'[f].approved = {}
    BY <1>3, <2>3, <2>4, ServiceFrame DEF Begun
  <2>6. \A f \in Execs : seen'[f].approved = {}
    BY <1>0, <1>3, <2>1, <2>3, <2>4
       DEF Service, RunInline, InsertRun, SkipRun, FailRun, ExecutePendingRun,
           PersistPendingRun, Ack, ClaimRefused, ResumeRefused, PersistResumedRun
  <2>7. \A f \in Execs : actor'[f] # "claimed"
    BY <1>0, <1>3, <2>1, <2>3, <2>4
       DEF Service, RunInline, InsertRun, SkipRun, FailRun, ExecutePendingRun,
           PersistPendingRun, Ack, ClaimRefused, ResumeRefused, PersistResumedRun
  <2>8. row'.approved = {}
    <3>1. CASE InsertRun(e) \/ PersistPendingRun(e) \/ PersistResumedRun(e)
      BY <2>3, <3>1, PersistedColumns
    <3>2. CASE FailRun(e)
      BY <2>3, <3>2, OtherColumns
    <3>3. CASE UNCHANGED row
      BY <2>3, <3>3
    <3> QED
      BY <1>3, <2>1, <2>4, <3>1, <3>2, <3>3
         DEF Service, RunInline, SkipRun, ExecutePendingRun, Ack, ClaimRefused, ResumeRefused
  <2> QED  BY <2>3, <2>5, <2>6, <2>7, <2>8 DEF UnattendedInv
<1>4. CASE Route
  <2>1. UNCHANGED <<mem, fired, seen>>  BY <1>4, RestFrame
  <2>2. UNCHANGED <<actor, consented>>
    BY <1>4 DEF Route, CreatePendingRun, Accept, Enqueued, EnqueueRaises, RouteCrashes
  <2>3. row'.approved \in {row.approved, {}}
    <3>1. CASE EnqueueRaises  BY <3>1, OtherColumns
    <3>2. CASE ~EnqueueRaises
      BY <1>4, <3>2 DEF Route, CreatePendingRun, Accept, Enqueued, RouteCrashes, NoRow
    <3> QED  BY <3>1, <3>2
  <2> QED  BY <2>1, <2>2, <2>3 DEF UnattendedInv
<1>5. CASE SetAutonomy \/ \E e \in Execs : Crash(e)
  <2>1. UNCHANGED <<mem, fired, seen>>  BY <1>5, RestFrame
  <2>2. UNCHANGED <<row, consented>>  BY <1>5 DEF SetAutonomy, Crash
  <2>3. \A f \in Execs : actor'[f] = "claimed" => actor[f] = "claimed"
    BY <1>0, <1>5 DEF SetAutonomy, Crash
  <2> QED  BY <2>1, <2>2, <2>3 DEF UnattendedInv
<1> QED  BY <1>1, <1>2, <1>3, <1>4, <1>5 DEF Next

(* In every graph, under every autonomy policy, delivery of the job and    *)
(* crash: as long as no approver has claimed the run, no gate, containment *)
(* node or hitl_required capability has been run in it.                    *)
THEOREM Unattended == Spec => []NoUnattendedContainment
<1>1. Init => UnattendedInv
  BY GraphAssumption DEF Init, ExecInit, NoRow, UnattendedInv
<1>2. (TypeInv /\ UnattendedInv) /\ [Next]_vars => (TypeInv /\ UnattendedInv)'
  BY TypeInvStep, UnattendedInvStep
<1>3. UnattendedInv => NoUnattendedContainment
  BY DEF UnattendedInv, NoUnattendedContainment
<1> QED  BY <1>1, <1>2, <1>3, TypeInvInit, PTL DEF Spec
-----------------------------------------------------------------------------
(* Sessions. While an execution of a job or an approver works, its session *)
(* still agrees with the row in everything but the status, and its memory  *)
(* extends the row's checkpoint; so what it persists becomes the row.      *)

Blank(r) == r.paused = None /\ r.nodes = << >> /\ r.chain = << >> /\ r.approved = {}

(* No attempt of the job has been delivered. *)
JobWaits == job = "queued" \/ (route = "enqueuing" /\ job = "none")

(* Only a late enqueue error may write under an execution: a failed status. *)
SessionFresh(e) ==
  /\ \A f \in DOMAIN row : f # "status" => seen[e][f] = row[f]
  /\ seen[e].status = "running" \/ (seen[e].status = "failed" /\ row.status = "failed")

(* The row r is a checkpoint of the memory m. *)
Checkpoints(r, m) ==
  /\ IsPrefixOf(r.chain, m.chain) /\ IsPrefixOf(r.nodes, m.nodes)
  /\ r.approved \subseteq m.approved

SessionInv ==
  /\ row.status = "none" => row = NoRow /\ route = "idle"
  /\ \A e \in InlineExecs : actor[e] = "live" => row.status = "none"
  /\ JobWaits => Blank(row)
  /\ \A e \in JobExecs \cup Approvers :
       actor[e] = "live" => SessionFresh(e) /\ Checkpoints(row, mem[e])
  /\ \A e \in JobExecs : actor[e] = "live" => Blank(row)
  /\ \A e \in Execs :
       actor[e] = "claimed" => e \in Approvers /\ row.status \in {"running", "failed"}

LEMMA SessionInvInit == Init => SessionInv
BY RunAssumption DEF Init, SessionInv, NoRow, JobWaits

LEMMA CheckpointsReflexive ==
  ASSUME TypeInv, NEW m, m.chain = row.chain, m.nodes = row.nodes,
         row.approved \subseteq m.approved
  PROVE  Checkpoints(row, m)
<1>1. row.chain \in Seq(Evidence) /\ row.nodes \in Seq(Steps)
  BY DEF TypeInv, RunTypeInv, RowType
<1> QED  BY <1>1, PrefixReflexive DEF Checkpoints

(* A walk only moves the memory further from the checkpoint. *)
LEMMA CheckpointsGrow ==
  ASSUME NEW r \in RowType, NEW m \in MemType(Orgs), NEW n \in MemType(Orgs),
         Checkpoints(r, m), Grows(m, n)
  PROVE  Checkpoints(r, n)
<1>1. /\ r.chain \in Seq(Evidence) /\ m.chain \in Seq(Evidence) /\ n.chain \in Seq(Evidence)
      /\ r.nodes \in Seq(Steps) /\ m.nodes \in Seq(Steps) /\ n.nodes \in Seq(Steps)
  BY DEF RowType, MemType
<1>2. IsPrefixOf(r.chain, n.chain)
  BY <1>1, PrefixTransitive DEF Checkpoints, Grows
<1>3. IsPrefixOf(r.nodes, n.nodes)
  BY <1>1, PrefixTransitive DEF Checkpoints, Grows
<1> QED  BY <1>2, <1>3 DEF Checkpoints, Grows

(* An outcome is never "running", so a flush against a fresh session that  *)
(* was loaded from a running row writes every column it means to.          *)
LEMMA OutcomeCases ==
  ASSUME TypeInv, NEW e \in Execs, RootDone(e)
  PROVE  OutcomeStatus(e) \in {"succeeded", "paused", "failed"}
<1>1. walker[e][Root] \in GoodWalker  BY RootType DEF TypeInv, ExecTypeInv
<1> QED  BY <1>1 DEF OutcomeStatus, RootDone, GoodWalker, Exceptions

LEMMA FlushIsNew ==
  ASSUME TypeInv, NEW e \in Execs, SessionFresh(e), NEW new \in RowType,
         new.status \in {"succeeded", "paused", "failed"}, NEW x
  PROVE  Flush(e, new, x) = new
<1>1. /\ row \in RowType /\ seen[e] \in RowType
      /\ DOMAIN row = {"status", "paused", "nodes", "branch", "chain", "approved"}
      /\ DOMAIN new = DOMAIN row
      /\ new = [f \in DOMAIN row |-> new[f]]
  BY DEF TypeInv, RunTypeInv, RowType
<1>2. \A f \in DOMAIN row :
        (IF new[f] # seen[e][f] \/ f \in x THEN new[f] ELSE row[f]) = new[f]
  <2> SUFFICES ASSUME NEW f \in DOMAIN row, new[f] = seen[e][f]
               PROVE  row[f] = new[f]
    OBVIOUS
  <2>1. CASE f # "status"  BY <2>1 DEF SessionFresh
  <2>2. CASE f = "status"
    BY <2>2 DEF SessionFresh
  <2> QED  BY <2>1, <2>2
<1> QED  BY <1>1, <1>2 DEF Flush

(* What the live execution of a session persists becomes the row. *)
LEMMA Persisted ==
  ASSUME TypeInv, SessionInv, NEW e \in Execs,
         InsertRun(e) \/ PersistPendingRun(e) \/ PersistResumedRun(e)
  PROVE  /\ InsertRun(e) => row' = FreshRow(e)
         /\ PersistPendingRun(e) => row' = FreshRow(e)
         /\ PersistResumedRun(e) => row' = ResumedRow(e)
         /\ row' \in RowType
         /\ row'.status = OutcomeStatus(e) /\ row'.paused = OutcomePaused(e)
         /\ row'.chain = mem[e].chain
         /\ OutcomeStatus(e) # "failed" => row'.nodes = mem[e].nodes
<1>1. RootDone(e)  BY DEF InsertRun, PersistPendingRun, PersistResumedRun
<1>2. FreshRow(e) \in RowType /\ ResumedRow(e) \in RowType
  BY <1>1, OutcomeType
<1>3. /\ FreshRow(e).status = OutcomeStatus(e) /\ ResumedRow(e).status = OutcomeStatus(e)
      /\ FreshRow(e).paused = OutcomePaused(e) /\ ResumedRow(e).paused = OutcomePaused(e)
      /\ FreshRow(e).chain = mem[e].chain /\ ResumedRow(e).chain = mem[e].chain
      /\ OutcomeStatus(e) # "failed" =>
           FreshRow(e).nodes = mem[e].nodes /\ ResumedRow(e).nodes = mem[e].nodes
  BY DEF FreshRow, ResumedRow, OutcomeNodes
<1>4. OutcomeStatus(e) \in {"succeeded", "paused", "failed"}
  BY <1>1, OutcomeCases
<1>5. PersistPendingRun(e) \/ PersistResumedRun(e) => SessionFresh(e)
  BY DEF PersistPendingRun, PersistResumedRun, SessionInv
<1>6. ASSUME PersistPendingRun(e) PROVE row' = FreshRow(e)
  <2>1. \A x : Flush(e, FreshRow(e), x) = FreshRow(e)
    BY <1>2, <1>3, <1>4, <1>5, <1>6, FlushIsNew
  <2> QED  BY <1>6, <2>1 DEF PersistPendingRun
<1>7. ASSUME PersistResumedRun(e) PROVE row' = ResumedRow(e)
  <2>1. \A x : Flush(e, ResumedRow(e), x) = ResumedRow(e)
    BY <1>2, <1>3, <1>4, <1>5, <1>7, FlushIsNew
  <2> QED  BY <1>7, <2>1 DEF PersistResumedRun
<1>8. InsertRun(e) => row' = FreshRow(e)  BY DEF InsertRun
<1> QED  BY <1>2, <1>3, <1>6, <1>7, <1>8

LEMMA SessionInvStep ==
  ASSUME Redeliver = FALSE, TypeInv, ExclusiveInv, SessionInv, [Next]_vars
  PROVE  SessionInv'
<1>0. /\ actor \in [Execs -> {"idle", "claimed", "live", "committed", "ended", "gone"}]
      /\ row \in RowType /\ seen \in [Execs -> RowType]
      /\ mem \in [Execs -> MemType(Orgs)]
      /\ InlineExecs \subseteq Execs /\ JobExecs \subseteq Execs /\ Approvers \subseteq Execs
      /\ InlineExecs \cap JobExecs = {} /\ InlineExecs \cap Approvers = {}
      /\ JobExecs \cap Approvers = {}
  BY RunAssumption DEF TypeInv, RunTypeInv, ExecTypeInv
<1>00. TypeInv'  BY TypeInvStep
<1>1. CASE UNCHANGED vars
  BY <1>1 DEF vars, execVars, runVars, SessionInv, SessionFresh, JobWaits
<1>2. ASSUME NEW e \in Execs, NEW w \in Steps, Walk(e, w) PROVE SessionInv'
  <2>1. UNCHANGED <<row, seen, actor, route, job>> /\ WalkStep(e, w)
    BY <1>2 DEF Walk, runVars
  <2>2. /\ \A f \in Execs : f # e => mem'[f] = mem[f]
        /\ Grows(mem[e], mem'[e])
    BY <2>1, WalkFrame
  <2>3. mem[e] \in MemType(Orgs) /\ mem'[e] \in MemType(Orgs)
    BY <1>0, <1>00 DEF TypeInv, ExecTypeInv
  <2>4. \A f \in Execs : Checkpoints(row, mem[f]) => Checkpoints(row, mem'[f])
    BY <1>0, <2>2, <2>3, CheckpointsGrow
  <2>5. SessionFresh(e)' = SessionFresh(e) /\ JobWaits' = JobWaits
    BY <2>1 DEF SessionFresh, JobWaits
  <2>6. \A f \in Execs : SessionFresh(f) => SessionFresh(f)'
    BY <2>1 DEF SessionFresh
  <2> QED  BY <1>0, <2>1, <2>4, <2>5, <2>6 DEF SessionInv
<1>3. ASSUME NEW e \in Execs, Service(e) PROVE SessionInv'
  <2>0. /\ \A f \in Execs : f # e => mem'[f] = mem[f]
        /\ UNCHANGED mem \/ Begun(e)
    BY <1>3, ServiceFrame
  <2>1. CASE RunInline(e)
    <3>1. /\ UNCHANGED <<row, seen, route, job>> /\ e \in InlineExecs
          /\ row.status = "none" /\ route = "idle"
          /\ \A f \in Execs : actor'[f] \in {"live", "idle"} /\ (actor'[f] = "live" => f = e)
      BY <1>0, <2>1 DEF RunInline, Untouched
    <3>2. job = "none"  BY <3>1 DEF ExclusiveInv
    <3> QED  BY <1>0, <3>1, <3>2 DEF SessionInv, JobWaits
  <2>2. CASE InsertRun(e) \/ PersistPendingRun(e) \/ PersistResumedRun(e)
    <3>1. RootDone(e) /\ actor[e] = "live"
      BY <2>2 DEF InsertRun, PersistPendingRun, PersistResumedRun
    <3>2. row'.status \in {"succeeded", "paused", "failed"}
      BY <2>2, <3>1, Persisted, OutcomeCases
    <3>3. /\ UNCHANGED <<route, job>>
          /\ \A f \in Execs : actor'[f] \notin {"live", "claimed"}
      BY <1>0, <2>2, <3>1
         DEF InsertRun, PersistPendingRun, PersistResumedRun, ExclusiveInv, ExclusiveExecution,
             Holding
    <3>4. ~JobWaits
      BY <3>1 DEF JobWaits, ExclusiveInv, Unheld, Holding
    <3> QED  BY <1>0, <3>2, <3>3, <3>4 DEF SessionInv, JobWaits
  <2>3. CASE SkipRun(e) \/ Ack(e) \/ ClaimRefused(e) \/ ResumeRefused(e)
    <3>1. /\ UNCHANGED <<mem, row, seen, route>>
          /\ \A f \in Execs : actor'[f] \in {"live", "claimed"} => actor'[f] = actor[f]
          /\ job' \in {job, "acked"}
      BY <1>0, <2>3 DEF SkipRun, Ack, ClaimRefused, ResumeRefused, execVars
    <3>2. JobWaits' => JobWaits
      BY <3>1 DEF JobWaits
    <3>3. \A f \in Execs : SessionFresh(f) => SessionFresh(f)'
      BY <3>1 DEF SessionFresh
    <3> QED  BY <1>0, <3>1, <3>2, <3>3 DEF SessionInv
  <2>4. CASE FailRun(e)
    <3>1. /\ UNCHANGED route /\ job = "queued" /\ job' = "acked"
          /\ row'.status = "failed"
      BY <1>0, <2>4 DEF FailRun, JobDelivered, RowType
    <3>2. \A f \in Execs : actor'[f] \notin {"live", "claimed"}
      BY <1>0, <2>4, <3>1 DEF FailRun, ExclusiveInv, Unheld, Holding
    <3> QED  BY <1>0, <3>1, <3>2 DEF SessionInv, JobWaits
  <2>5. CASE ExecutePendingRun(e)
    <3>1. /\ UNCHANGED <<row, route>> /\ job = "queued" /\ job' = "taken"
          /\ row.status = "running" /\ e \in JobExecs /\ seen'[e] = row
          /\ mem'[e] = [nodes |-> << >>, branch |-> NoBranch, completed |-> RangeOf(<< >>),
                        approved |-> {}, cur |-> None, chain |-> << >>, org |-> org]
      BY <1>0, <2>5 DEF ExecutePendingRun, JobDelivered, Begin
    <3>2. \A f \in Execs : actor'[f] \notin {"live", "claimed"} \/ (f = e /\ actor'[f] = "live")
      BY <1>0, <2>5, <3>1 DEF ExecutePendingRun, ExclusiveInv, Unheld, Holding
    <3>3. Blank(row)  BY <3>1 DEF SessionInv, JobWaits
    <3>4. Checkpoints(row, mem'[e])
      BY <3>1, <3>3, CheckpointsReflexive DEF Blank
    <3>5. SessionFresh(e)'  BY <3>1 DEF SessionFresh
    <3> QED  BY <1>0, <3>1, <3>2, <3>3, <3>4, <3>5 DEF SessionInv, JobWaits
  <2>6. CASE Claim(e)
    <3>1. /\ UNCHANGED <<route, job>> /\ e \in Approvers
          /\ row.status = "paused" /\ row'.status = "running"
      BY <1>0, <2>6 DEF Claim, Claimable, RowType
    <3>2. \A f \in Execs : actor'[f] \notin {"live", "claimed"} \/ (f = e /\ actor'[f] = "claimed")
      BY <1>0, <2>6, <3>1 DEF Claim, ExclusiveInv, Unheld, Holding
    <3>3. ~JobWaits  BY <3>1 DEF ExclusiveInv, JobWaits
    <3> QED  BY <1>0, <3>1, <3>2, <3>3 DEF SessionInv, JobWaits
  <2>7. CASE ResumeRun(e)
    <3>1. /\ UNCHANGED <<row, route, job>> /\ actor[e] = "claimed"
          /\ seen'[e] = row
          /\ mem'[e].nodes = row.nodes /\ mem'[e].chain = row.chain
          /\ row.approved \subseteq mem'[e].approved
      BY <1>0, <2>7 DEF ResumeRun, Begin, PriorEvidence, ApprovedSteps
    <3>2. e \in Approvers /\ row.status \in {"running", "failed"}
      BY <3>1 DEF SessionInv
    <3>3. \A f \in Execs : actor'[f] \notin {"live", "claimed"} \/ (f = e /\ actor'[f] = "live")
      BY <1>0, <2>7, <3>1 DEF ResumeRun, ExclusiveInv, ExclusiveExecution, Holding
    <3>4. Checkpoints(row, mem'[e])
      BY <3>1, CheckpointsReflexive
    <3>5. SessionFresh(e)'  BY <3>1, <3>2 DEF SessionFresh
    <3>6. ~JobWaits  BY <3>1 DEF ExclusiveInv, JobWaits, Unheld, Holding
    <3> QED  BY <1>0, <3>1, <3>2, <3>3, <3>4, <3>5, <3>6 DEF SessionInv, JobWaits
  <2> QED
    BY <1>3, <2>1, <2>2, <2>3, <2>4, <2>5, <2>6, <2>7 DEF Service
<1>4. CASE Route
  <2>0. UNCHANGED <<mem, seen>>  BY <1>4, RestFrame
  <2>1. CASE CreatePendingRun
    <3>1. /\ Blank(row') /\ row'.status = "running"
          /\ \A f \in Execs : actor'[f] = "idle"
      BY <1>0, <2>1 DEF CreatePendingRun, Untouched, NoRow, Blank
    <3> QED  BY <1>0, <3>1 DEF SessionInv
  <2>2. CASE Accept \/ Enqueued \/ RouteCrashes
    <3>1. UNCHANGED <<row, actor>> /\ route # "idle"
      BY <2>2 DEF Accept, Enqueued, RouteCrashes
    <3>2. JobWaits' => JobWaits
      BY <2>2 DEF Accept, Enqueued, RouteCrashes, JobWaits
    <3>3. \A f \in Execs : SessionFresh(f) => SessionFresh(f)'
      BY <2>0, <3>1 DEF SessionFresh
    <3> QED  BY <1>0, <2>0, <3>1, <3>2, <3>3 DEF SessionInv
  <2>3. CASE EnqueueRaises
    <3>1. /\ UNCHANGED <<actor, job>> /\ route = "enqueuing"
          /\ row'.status = "failed" /\ DOMAIN row' = DOMAIN row
          /\ \A f \in DOMAIN row : f # "status" => row'[f] = row[f]
          /\ row'.chain = row.chain /\ row'.nodes = row.nodes
          /\ row'.approved = row.approved /\ row'.paused = row.paused
      BY <1>0, <2>3 DEF EnqueueRaises, RowType
    <3>2. row.status # "none"  BY <3>1 DEF SessionInv
    <3>3. JobWaits' => JobWaits
      BY <2>3 DEF EnqueueRaises, JobWaits
    <3>4. \A f \in Execs : SessionFresh(f) => SessionFresh(f)'
      BY <1>0, <2>0, <3>1 DEF SessionFresh
    <3>5. \A m : Checkpoints(row, m) => Checkpoints(row', m)
      BY <3>1 DEF Checkpoints
    <3>6. Blank(row) => Blank(row')
      BY <3>1 DEF Blank
    <3> QED  BY <1>0, <2>0, <3>1, <3>2, <3>3, <3>4, <3>5, <3>6 DEF SessionInv
  <2> QED  BY <1>4, <2>1, <2>2, <2>3 DEF Route
<1>5. ASSUME NEW e \in Execs, Crash(e) PROVE SessionInv'
  <2>1. /\ UNCHANGED <<mem, row, seen, route>> /\ job' \in {job, "acked"}
        /\ \A f \in Execs : actor'[f] \in {"live", "claimed"} => actor'[f] = actor[f]
    BY <1>0, <1>5 DEF Crash
  <2>2. JobWaits' => JobWaits  BY <2>1 DEF JobWaits
  <2>3. \A f \in Execs : SessionFresh(f) => SessionFresh(f)'
    BY <2>1 DEF SessionFresh
  <2> QED  BY <1>0, <2>1, <2>2, <2>3 DEF SessionInv
<1>6. CASE SetAutonomy
  BY <1>6 DEF SetAutonomy, execVars, SessionInv, SessionFresh, JobWaits
<1> QED  BY <1>1, <1>2, <1>3, <1>4, <1>5, <1>6 DEF Next

(* The executions of jobs and approvers, and their rows, start from the    *)
(* invariants that exclude one another and the one of sessions.            *)
LEMMA SessionsInductive ==
  ASSUME Redeliver = FALSE
  PROVE  Spec => [](TypeInv /\ ExclusiveInv /\ SessionInv)
<1>1. Init => TypeInv /\ ExclusiveInv /\ SessionInv
  BY TypeInvInit, ExclusiveInvInit, SessionInvInit
<1>2. (TypeInv /\ ExclusiveInv /\ SessionInv) /\ [Next]_vars
        => (TypeInv /\ ExclusiveInv /\ SessionInv)'
  BY TypeInvStep, ExclusiveInvStep, SessionInvStep
<1> QED  BY <1>1, <1>2, PTL DEF Spec

(* When the queue delivers the job once, execute_pending_run never enters  *)
(* the engine on a row an earlier attempt has an outcome on: redelivery is *)
(* all that breaks the idempotence its docstring promises.                 *)
THEOREM FreshStart ==
  ASSUME Redeliver = FALSE
  PROVE  Spec => []JobStartsFresh
<1>1. TypeInv /\ SessionInv => JobStartsFresh
  <2> SUFFICES ASSUME TypeInv, SessionInv, NEW e \in JobExecs, actor[e] = "live"
               PROVE  seen[e].paused = None /\ seen[e].chain = << >>
    BY DEF JobStartsFresh
  <2>1. SessionFresh(e) /\ Blank(row)  BY DEF SessionInv
  <2>2. {"paused", "chain"} \subseteq DOMAIN row
    BY DEF TypeInv, RunTypeInv, RowType
  <2> QED  BY <2>1, <2>2 DEF SessionFresh, Blank
<1> QED  BY <1>1, SessionsInductive, PTL

(* What a step does to the checkpoint stored on the row. *)
CheckpointGrows ==
  /\ IsPrefixOf(row.chain, row'.chain)
  /\ IsPrefixOf(row.nodes, row'.nodes)
  /\ row.approved \subseteq row'.approved

LEMMA PersistGrows ==
  ASSUME TypeInv, SessionInv, NEW e \in Execs,
         InsertRun(e) \/ PersistPendingRun(e) \/ PersistResumedRun(e)
  PROVE  CheckpointGrows
<1>0. /\ row.chain \in Seq(Evidence) /\ row.nodes \in Seq(Steps)
      /\ row'.chain \in Seq(Evidence) /\ row'.nodes \in Seq(Steps)
      /\ row' \in RowType
  BY Persisted DEF TypeInv, RunTypeInv, RowType
<1>00. Len(row'.chain) \in Nat /\ Len(row'.nodes) \in Nat
  BY <1>0, LenProperties
<1>1. CASE InsertRun(e)
  <2>1. row = NoRow
    BY <1>1 DEF InsertRun, SessionInv
  <2>2. row.chain = << >> /\ row.nodes = << >> /\ row.approved = {}
    BY <2>1 DEF NoRow
  <2> QED  BY <1>00, <2>2, EmptyIsPrefix DEF CheckpointGrows
<1>2. CASE PersistPendingRun(e)
  <2>1. Blank(row)  BY <1>2 DEF PersistPendingRun, SessionInv
  <2> QED  BY <1>00, <2>1, EmptyIsPrefix DEF CheckpointGrows, Blank
<1>3. CASE PersistResumedRun(e)
  <2>1. SessionFresh(e) /\ Checkpoints(row, mem[e]) /\ row' = ResumedRow(e)
    BY <1>3, Persisted DEF PersistResumedRun, SessionInv
  <2>2. /\ row'.chain = mem[e].chain /\ row'.approved = mem[e].approved
        /\ row'.nodes = IF OutcomeStatus(e) = "failed" THEN seen[e].nodes ELSE mem[e].nodes
    BY <2>1 DEF ResumedRow, FreshRow, OutcomeNodes
  <2>3. seen[e].nodes = row.nodes
    BY <2>1 DEF SessionFresh, TypeInv, RunTypeInv, RowType
  <2>4. IsPrefixOf(row.nodes, row.nodes)  BY <1>0, PrefixReflexive
  <2> QED  BY <2>1, <2>2, <2>3, <2>4 DEF Checkpoints, CheckpointGrows
<1> QED  BY <1>1, <1>2, <1>3

LEMMA CheckpointStep ==
  ASSUME TypeInv, SessionInv, Next
  PROVE  CheckpointGrows
<1>0. IsPrefixOf(row.chain, row.chain) /\ IsPrefixOf(row.nodes, row.nodes)
  BY PrefixReflexive DEF TypeInv, RunTypeInv, RowType
<1>1. CASE /\ row'.chain = row.chain /\ row'.nodes = row.nodes
           /\ row'.approved = row.approved
  BY <1>0, <1>1 DEF CheckpointGrows
<1>2. ASSUME NEW e \in Execs, Service(e) PROVE CheckpointGrows
  <2>1. CASE InsertRun(e) \/ PersistPendingRun(e) \/ PersistResumedRun(e)
    BY <2>1, PersistGrows
  <2>2. CASE FailRun(e) \/ Claim(e)
    BY <1>1, <2>2, OtherColumns
  <2>3. CASE UNCHANGED row
    BY <1>1, <2>3
  <2> QED
    BY <1>2, <2>1, <2>2, <2>3
       DEF Service, RunInline, SkipRun, ExecutePendingRun, Ack, ClaimRefused,
           ResumeRefused, ResumeRun
<1>3. CASE Route
  <2>1. CASE CreatePendingRun
    <3>1. row = NoRow
      BY <2>1 DEF CreatePendingRun, Untouched, SessionInv
    <3>2. row'.chain = row.chain /\ row'.nodes = row.nodes /\ row'.approved = row.approved
      BY <2>1, <3>1 DEF CreatePendingRun, NoRow
    <3> QED  BY <1>1, <3>2
  <2>2. CASE EnqueueRaises
    BY <1>1, <2>2, OtherColumns
  <2>3. CASE UNCHANGED row
    BY <1>1, <2>3
  <2> QED
    BY <1>3, <2>1, <2>2, <2>3 DEF Route, Accept, Enqueued, RouteCrashes
<1>4. CASE UNCHANGED row
  BY <1>1, <1>4
<1> QED
  BY <1>2, <1>3, <1>4 DEF Next, Walk, runVars, Crash, SetAutonomy

(* In every graph, with any number of approvers and crashes and under late *)
(* enqueue errors: evidence, completed steps and approvals recorded on the *)
(* row are never lost by anyone, failed resumes included, as long as the   *)
(* queue delivers the job once.                                            *)
THEOREM CheckpointKept ==
  ASSUME Redeliver = FALSE
  PROVE  Spec => CheckpointPreserved
<1>1. (TypeInv /\ SessionInv) /\ [Next]_vars
        => [/\ IsPrefixOf(row.chain, row'.chain)
            /\ IsPrefixOf(row.nodes, row'.nodes)
            /\ row.approved \subseteq row'.approved]_vars
  BY CheckpointStep DEF CheckpointGrows
<1> QED  BY <1>1, SessionsInductive, PTL DEF Spec, CheckpointPreserved

-----------------------------------------------------------------------------
(* Where a run waits. The gates' answer for a step depends on what does    *)
(* not change during an execution, so a step that paused the run is not    *)
(* one the same execution ran, before the pause or after it.               *)

RegularNode(s) == s \in Nodes /\ NodeOf[s].kind \in RegularKinds

Answer(m, s) == GateAnswer(Stamp(m, s), s)

ExceptionAnswered(m, x) ==
  x.kind = "paused" =>
    RegularNode(x.step) /\ x.step \notin m.completed /\ Answer(m, x.step) = "pause"

WalkerAnswered(m, wk) ==
  /\ wk.pc = "run" =>
       RegularNode(wk.at) /\ wk.at \notin m.completed /\ Answer(m, wk.at) = "run"
  /\ wk.pc = "raised" \/ wk.exc # None => ExceptionAnswered(m, wk.exc)

MemAnswered(m) ==
  /\ m.completed \subseteq RangeOf(m.nodes)
  /\ \A s \in RangeOf(m.nodes) \ m.completed : RegularNode(s) => Answer(m, s) = "run"

AllAnswered(m, ws) == \A v \in Steps : WalkerAnswered(m, ws[v])

AnsweredInv == \A e \in Execs : MemAnswered(mem[e]) /\ AllAnswered(mem[e], walker[e])

LEMMA AnswerFixed ==
  ASSUME NEW m \in MemType(Orgs), NEW n \in MemType(Orgs), Grows(m, n)
  PROVE  n.completed = m.completed /\ \A s : Answer(n, s) = Answer(m, s)
<1>1. n.completed = m.completed /\ n.approved = m.approved /\ n.org = m.org
  BY DEF Grows
<1>2. \A s : /\ Stamp(m, s).cur = s /\ Stamp(m, s).approved = m.approved
             /\ Stamp(m, s).org = m.org
             /\ Stamp(n, s).cur = s /\ Stamp(n, s).approved = n.approved
             /\ Stamp(n, s).org = n.org
  BY DEF Stamp, MemType
<1> QED  BY <1>1, <1>2 DEF Answer, GateAnswer, StepIsApproved

LEMMA WalkerStaysAnswered ==
  ASSUME NEW m \in MemType(Orgs), NEW n \in MemType(Orgs), Grows(m, n),
         NEW wk, WalkerAnswered(m, wk)
  PROVE  WalkerAnswered(n, wk)
BY AnswerFixed DEF WalkerAnswered, ExceptionAnswered

LEMMA AllStayAnswered ==
  ASSUME NEW m \in MemType(Orgs), NEW n \in MemType(Orgs), Grows(m, n),
         NEW ws, AllAnswered(m, ws)
  PROVE  AllAnswered(n, ws)
BY WalkerStaysAnswered DEF AllAnswered

LEMMA RaiseInAnswered ==
  ASSUME NEW m, NEW ws \in [Steps -> GoodWalker], NEW w \in Steps, NEW x \in Exceptions,
         AllAnswered(m, ws), ExceptionAnswered(m, x)
  PROVE  AllAnswered(m, RaiseIn(ws, w, x))
<1>1. \A wk \in GoodWalker : /\ [wk EXCEPT !.pc = "raised", !.exc = x].pc = "raised"
                            /\ [wk EXCEPT !.pc = "raised", !.exc = x].exc = x
                            /\ [wk EXCEPT !.exc = x].pc = wk.pc
                            /\ [wk EXCEPT !.exc = x].at = wk.at
                            /\ [wk EXCEPT !.exc = x].exc = x
  BY DEF GoodWalker, WalkerType
<1>2. WalkerAnswered(m, [ws[w] EXCEPT !.pc = "raised", !.exc = x])
  BY <1>1 DEF WalkerAnswered
<1>3. ASSUME NEW v \in Steps, ws[v].pc = "fork"
      PROVE  WalkerAnswered(m, [ws[v] EXCEPT !.exc = x])
  BY <1>1, <1>3 DEF WalkerAnswered
<1> QED  BY <1>2, <1>3 DEF RaiseIn, AllAnswered

LEMMA FailedAnswered == \A m, s : ExceptionAnswered(m, Failed(s))
BY DEF ExceptionAnswered, Failed

LEMMA ArriveAnswered ==
  ASSUME NEW m, NEW wk \in WalkerType, NEW t, WalkerAnswered(m, wk), wk.pc # "raised"
  PROVE  WalkerAnswered(m, Arrive(wk, t))
<1>1. Arrive(wk, t).pc \in {"done", "walk"} /\ Arrive(wk, t).exc = wk.exc
  BY DEF Arrive, WalkerType
<1> QED  BY <1>1 DEF WalkerAnswered

LEMMA ProceedAnswered ==
  ASSUME NEW m, NEW ws \in [Steps -> GoodWalker], NEW w \in Steps, NEW s \in Steps, NEW b,
         AllAnswered(m, ws), ws[w].pc # "raised"
  PROVE  AllAnswered(m, Proceed(ws, w, s, b))
<1>1. CASE Routable(s, b)
  <2>1. WalkerAnswered(m, Arrive(ws[w], Target(s, b)))
    BY ArriveAnswered DEF GoodWalker, AllAnswered
  <2> QED  BY <1>1, <2>1 DEF Proceed, AllAnswered
<1>2. CASE ~Routable(s, b)
  BY <1>2, RaiseInAnswered, FailedAnswered, FailedType DEF Proceed
<1> QED  BY <1>1, <1>2

(* The walkers after walker w forked into the branches I that meet at j. *)
Forked(ws, w, j, I) ==
  [v \in Steps |->
     IF v = w THEN [ws[w] EXCEPT !.pc = "fork"]
     ELSE IF v \in I THEN Arrive([Idle EXCEPT !.stop = j, !.parent = w], v)
     ELSE ws[v]]

LEMMA ForkAnswered ==
  ASSUME NEW m, NEW ws \in [Steps -> GoodWalker], NEW w \in Steps, NEW j, NEW I,
         AllAnswered(m, ws)
  PROVE  AllAnswered(m, Forked(ws, w, j, I))
<1>1. WalkerAnswered(m, [ws[w] EXCEPT !.pc = "fork"])
  <2>1. /\ [ws[w] EXCEPT !.pc = "fork"].pc = "fork"
        /\ [ws[w] EXCEPT !.pc = "fork"].exc = ws[w].exc
        /\ ws[w].pc = "raised" \/ ws[w].exc # None => ExceptionAnswered(m, ws[w].exc)
    BY DEF GoodWalker, WalkerType, AllAnswered, WalkerAnswered
  <2> QED  BY <2>1 DEF WalkerAnswered
<1>2. ASSUME NEW v
      PROVE  WalkerAnswered(m, Arrive([Idle EXCEPT !.stop = j, !.parent = w], v))
  <2>1. LET wk == Arrive([Idle EXCEPT !.stop = j, !.parent = w], v)
        IN  wk.pc \in {"done", "walk"} /\ wk.exc = None
    BY DEF Arrive, Idle
  <2> QED  BY <2>1 DEF WalkerAnswered
<1> QED  BY <1>1, <1>2 DEF Forked, AllAnswered

LEMMA WalkAnswered ==
  ASSUME TypeInv, AnsweredInv, NEW e \in Execs, NEW w \in Steps, WalkStep(e, w)
  PROVE  AllAnswered(mem[e], walker'[e])
<1> DEFINE s == Here(e, w)
           m == mem[e]
           ws == walker[e]
           vs == walker'[e]
<1> SUFFICES AllAnswered(m, vs)  OBVIOUS
<1>0. /\ Nodes \subseteq Steps
      /\ ws \in [Steps -> GoodWalker] /\ ws[w] \in GoodWalker /\ ws[w] \in WalkerType
      /\ s \in Steps \cup {None} /\ s = ws[w].at
      /\ AllAnswered(m, ws) /\ WalkerAnswered(m, ws[w])
      /\ MemAnswered(m)
  BY GraphAssumption
     DEF TypeInv, ExecTypeInv, AnsweredInv, AllAnswered, GoodWalker, WalkerType, Here
<1>2. CASE WalkAborts(e, w) \/ PrepareFails(e, w) \/ NodeRaises(e, w)
  <2>1. vs = RaiseIn(ws, w, Failed(s))
    BY <1>2 DEF WalkAborts, PrepareFails, NodeRaises, TypeInv, ExecTypeInv
  <2> HIDE DEF s, m, ws, vs
  <2> QED  BY <1>0, <2>1, RaiseInAnswered, FailedAnswered, FailedType
<1>3. CASE Reuse(e, w) \/ PassThrough(e, w) \/ Return(e, w)
  <2>1. s \in Nodes /\ ws[w].pc # "raised"
    BY <1>0, <1>3 DEF Reuse, PassThrough, Return, AtNode, GoodWalker
  <2>2. \E b : vs = Proceed(ws, w, s, b)
    BY <1>3 DEF Reuse, PassThrough, Return, TypeInv, ExecTypeInv
  <2> HIDE DEF s, m, ws, vs
  <2> QED  BY <1>0, <2>1, <2>2, ProceedAnswered
<1>4. CASE GateStops(e, w)
  <2>1. RegularNode(s) /\ ~Reusable(e, s)
    BY <1>4 DEF GateStops, AtNode, RegularNode
  <2>2. s \notin m.completed
    BY <1>0, <2>1 DEF Reusable, MemAnswered
  <2>3. vs = RaiseIn(ws, w, IF Answer(m, s) = "pause" THEN Paused(s) ELSE Failed(s))
    BY <1>4 DEF GateStops, Answer, TypeInv, ExecTypeInv
  <2> HIDE DEF s, m, ws, vs
  <2>4. Answer(m, s) = "pause" => ExceptionAnswered(m, Paused(s))
    BY <2>1, <2>2 DEF ExceptionAnswered, Paused
  <2> QED  BY <1>0, <2>3, <2>4, RaiseInAnswered, FailedAnswered, FailedType
<1>5. CASE Fire(e, w)
  <2>1. RegularNode(s) /\ ~Reusable(e, s) /\ Answer(m, s) = "run" /\ ws[w].pc = "walk"
    BY <1>5 DEF Fire, AtNode, RegularNode, Answer
  <2>2. s \notin m.completed
    BY <1>0, <2>1 DEF Reusable, MemAnswered
  <2>3. vs = [ws EXCEPT ![w] = [ws[w] EXCEPT !.pc = "run"]]
    BY <1>5 DEF Fire, TypeInv, ExecTypeInv
  <2> HIDE DEF s, m, ws, vs
  <2>4. /\ vs[w].pc = "run" /\ vs[w].at = s /\ vs[w].exc = ws[w].exc
        /\ \A v \in Steps : v # w => vs[v] = ws[v]
    BY <1>0, <2>3 DEF WalkerType
  <2>5. WalkerAnswered(m, vs[w])
    BY <1>0, <2>1, <2>2, <2>4 DEF WalkerAnswered
  <2> QED  BY <1>0, <2>4, <2>5 DEF AllAnswered
<1>6. CASE Fork(e, w)
  <2>1. vs = Forked(ws, w, NextParallelStep(s), BranchTargets(s))
    BY <1>6 DEF Fork, Forked, TypeInv, ExecTypeInv
  <2> HIDE DEF s, m, ws, vs
  <2> QED  BY <1>0, <2>1, ForkAnswered
<1>7. CASE Merge(e, w)
  <2>1. ws[w].pc = "fork" /\ \E t : vs = [ws EXCEPT ![w] = Arrive(ws[w], t)]
    BY <1>7 DEF Gathered, Merge, TypeInv, ExecTypeInv
  <2> HIDE DEF s, m, ws, vs
  <2>2. \A t : WalkerAnswered(m, Arrive(ws[w], t))
    BY <1>0, <2>1, ArriveAnswered
  <2> QED  BY <1>0, <2>1, <2>2 DEF AllAnswered
<1>8. CASE Propagate(e, w)
  <2>1. ws[w].exc # None /\ vs = RaiseIn(ws, w, ws[w].exc)
    BY <1>8 DEF Propagate, TypeInv, ExecTypeInv
  <2> HIDE DEF s, m, ws, vs
  <2>2. ws[w].exc \in Exceptions /\ ExceptionAnswered(m, ws[w].exc)
    BY <1>0, <2>1 DEF WalkerType, WalkerAnswered
  <2> QED  BY <1>0, <2>1, <2>2, RaiseInAnswered
<1> QED  BY <1>2, <1>3, <1>4, <1>5, <1>6, <1>7, <1>8 DEF WalkStep

LEMMA MemStaysAnswered ==
  ASSUME TypeInv, AnsweredInv, NEW e \in Execs, NEW w \in Steps, WalkStep(e, w)
  PROVE  MemAnswered(mem'[e])
<1> DEFINE s == Here(e, w)
           m == mem[e]
           n == mem'[e]
<1>0. /\ m \in MemType(Orgs) /\ n \in MemType(Orgs)
      /\ walker[e][w] \in GoodWalker
      /\ MemAnswered(m) /\ WalkerAnswered(m, walker[e][w])
  <2>1. ExecTypeInv'
    BY WalkStepType DEF TypeInv
  <2> QED  BY <2>1 DEF TypeInv, ExecTypeInv, AnsweredInv, AllAnswered
<1>1. Grows(m, n) /\ WalkTable(e, w)
  BY WalkFrame
<1>2. n.completed = m.completed /\ \A t : Answer(n, t) = Answer(m, t)
  BY <1>0, <1>1, AnswerFixed
<1>3. \/ n.nodes = m.nodes
      \/ Records(m, n, s) /\ (RegularNode(s) => Answer(m, s) = "run")
  <2>1. CASE PassThrough(e, w) /\ Records(m, n, s)
    BY <2>1 DEF PassThrough, AtNode, RegularNode, RegularKinds
  <2>2. CASE Return(e, w) /\ Records(m, n, s)
    BY <1>0, <2>2 DEF Return, WalkerAnswered, Here
  <2>3. CASE Merge(e, w) /\ Records(m, n, s)
    BY <1>0, <2>3 DEF Gathered, Merge, GoodWalker, Here, RegularNode, RegularKinds
  <2> QED  BY <1>1, <2>1, <2>2, <2>3 DEF WalkTable, Keeps
<1> HIDE DEF m, n, s
<1>4. MemAnswered(n)
  BY <1>0, <1>2, <1>3 DEF MemAnswered, Records
<1> QED  BY <1>4 DEF n

LEMMA AnsweredInvInit == Init => AnsweredInv
<1> SUFFICES ASSUME Init PROVE AnsweredInv  OBVIOUS
<1>1. RangeOf(<< >>) = {}  BY DEF RangeOf
<1>2. \A e \in Execs : /\ mem[e].nodes = << >> /\ mem[e].completed = {}
                       /\ \A w \in Steps : walker[e][w] = Idle
  BY DEF Init, ExecInit
<1>3. \A m : WalkerAnswered(m, Idle)
  BY DEF WalkerAnswered, Idle
<1> QED  BY <1>1, <1>2, <1>3 DEF AnsweredInv, MemAnswered, AllAnswered

(* An execution that begins has no step of its own, and its walkers wait.  *)
LEMMA BeginAnswered ==
  ASSUME TypeInv, NEW e \in Execs, RunInline(e) \/ ExecutePendingRun(e) \/ ResumeRun(e)
  PROVE  MemAnswered(mem'[e]) /\ AllAnswered(mem'[e], walker'[e])
<1>1. mem'[e].completed = RangeOf(mem'[e].nodes)
  BY DEF RunInline, ExecutePendingRun, ResumeRun, Begin, TypeInv, ExecTypeInv
<1>2. \A v \in Steps :
        walker'[e][v] \in {Idle, [Idle EXCEPT !.pc = "walk", !.at = Root],
                           [Idle EXCEPT !.pc = "raised", !.exc = Failed(None)]}
  BY DEF RunInline, ExecutePendingRun, ResumeRun, Begin, TypeInv, ExecTypeInv
<1>3. \A m : /\ WalkerAnswered(m, Idle)
             /\ WalkerAnswered(m, [Idle EXCEPT !.pc = "walk", !.at = Root])
             /\ WalkerAnswered(m, [Idle EXCEPT !.pc = "raised", !.exc = Failed(None)])
  BY FailedAnswered DEF WalkerAnswered, Idle
<1>4. MemAnswered(mem'[e])  BY <1>1 DEF MemAnswered
<1> DEFINE n == mem'[e]
           vs == walker'[e]
<1> SUFFICES AllAnswered(n, vs)  BY <1>4
<1>5. \A v \in Steps : WalkerAnswered(n, vs[v])
  BY <1>2, <1>3
<1> HIDE DEF n, vs
<1> QED  BY <1>5 DEF AllAnswered

LEMMA AnsweredInvStep ==
  ASSUME TypeInv, AnsweredInv, [Next]_vars
  PROVE  AnsweredInv'
<1>1. ASSUME UNCHANGED <<mem, walker>> PROVE AnsweredInv'
  BY <1>1 DEF AnsweredInv
<1>2. ASSUME NEW e \in Execs, NEW w \in Steps, WalkStep(e, w) PROVE AnsweredInv'
  <2>1. MemAnswered(mem'[e])  BY <1>2, MemStaysAnswered
  <2>2. AllAnswered(mem[e], walker'[e])  BY <1>2, WalkAnswered
  <2>3. ExecTypeInv'  BY <1>2, WalkStepType DEF TypeInv
  <2>4. mem[e] \in MemType(Orgs) /\ mem'[e] \in MemType(Orgs)
    BY <2>3 DEF TypeInv, ExecTypeInv
  <2>5. /\ Grows(mem[e], mem'[e])
        /\ \A f \in Execs : f # e => mem'[f] = mem[f] /\ walker'[f] = walker[f]
    BY <1>2, WalkFrame
  <2>6. AllAnswered(mem'[e], walker'[e])
    BY <2>2, <2>4, <2>5, AllStayAnswered
  <2> QED  BY <2>1, <2>5, <2>6 DEF AnsweredInv
<1>3. ASSUME NEW e \in Execs, Service(e) PROVE AnsweredInv'
  <2>1. /\ \A f \in Execs : f # e => mem'[f] = mem[f] /\ walker'[f] = walker[f]
        /\ UNCHANGED <<mem, walker>> \/ Begun(e)
    BY <1>3, ServiceFrame
  <2>2. Begun(e) => MemAnswered(mem'[e]) /\ AllAnswered(mem'[e], walker'[e])
    BY BeginAnswered DEF Begun
  <2> QED  BY <1>1, <2>1, <2>2 DEF AnsweredInv
<1>4. ASSUME NEW e \in Execs, Crash(e) PROVE AnsweredInv'
  <2>1. /\ UNCHANGED mem
        /\ \A f \in Execs : f # e => walker'[f] = walker[f]
        /\ \A v \in Steps : walker'[e][v] = Idle
    BY <1>4 DEF Crash, Kill, TypeInv, ExecTypeInv
  <2>2. \A m : WalkerAnswered(m, Idle)
    BY DEF WalkerAnswered, Idle
  <2> QED  BY <2>1, <2>2 DEF AnsweredInv, AllAnswered
<1>5. CASE Route \/ SetAutonomy \/ UNCHANGED vars
  <2>1. UNCHANGED <<mem, walker>>
    BY <1>5 DEF Route, CreatePendingRun, Accept, Enqueued, EnqueueRaises, RouteCrashes,
                SetAutonomy, vars, execVars
  <2> QED  BY <1>1, <2>1
<1> QED  BY <1>2, <1>3, <1>4, <1>5 DEF Next, Walk

PausedInv ==
  row.status = "paused" => row.paused \in Steps /\ row.paused \notin RangeOf(row.nodes)

LEMMA PausedInvStep ==
  ASSUME TypeInv, SessionInv, AnsweredInv, PausedInv, [Next]_vars
  PROVE  PausedInv'
<1>1. CASE UNCHANGED row
  BY <1>1 DEF PausedInv
<1>2. ASSUME NEW e \in Execs, InsertRun(e) \/ PersistPendingRun(e) \/ PersistResumedRun(e)
      PROVE  PausedInv'
  <2> DEFINE x == walker[e][Root].exc
             m == mem[e]
  <2>1. CASE OutcomeStatus(e) = "paused"
    <3>1. /\ row'.paused = x.step /\ row'.nodes = m.nodes
          /\ walker[e][Root].pc = "raised" /\ x.kind = "paused"
      BY <1>2, <2>1, Persisted
         DEF OutcomePaused, OutcomeStatus, InsertRun, PersistPendingRun, PersistResumedRun,
             RootDone
    <3>2. ExceptionAnswered(m, x) /\ MemAnswered(m)
      BY <3>1, RootType DEF AnsweredInv, AllAnswered, WalkerAnswered
    <3>3. /\ RegularNode(x.step) /\ x.step \notin m.completed /\ Answer(m, x.step) = "pause"
      BY <3>1, <3>2 DEF ExceptionAnswered
    <3>4. x.step \in Steps  BY <3>3, GraphAssumption DEF RegularNode
    <3>5. x.step \notin RangeOf(m.nodes)
      <4> HIDE DEF x, m
      <4> QED  BY <3>2, <3>3 DEF MemAnswered
    <3> QED  BY <3>1, <3>4, <3>5 DEF PausedInv
  <2>2. CASE OutcomeStatus(e) # "paused"
    BY <1>2, <2>2, Persisted DEF PausedInv
  <2> QED  BY <2>1, <2>2
<1>3. ASSUME NEW e \in Execs, FailRun(e) \/ Claim(e) PROVE PausedInv'
  BY <1>3 DEF FailRun, Claim, PausedInv, TypeInv, RunTypeInv, RowType
<1>4. CASE CreatePendingRun \/ EnqueueRaises
  BY <1>4 DEF CreatePendingRun, EnqueueRaises, PausedInv, TypeInv, RunTypeInv, RowType, NoRow
<1>5. CASE UNCHANGED vars  BY <1>1, <1>5 DEF vars, runVars
<1> QED
  BY <1>1, <1>2, <1>3, <1>4, <1>5
     DEF Next, Walk, runVars, Service, Route, RunInline, SkipRun, ExecutePendingRun, Ack,
         ClaimRefused, ResumeRefused, ResumeRun, Accept, Enqueued, RouteCrashes, Crash,
         SetAutonomy

(* In every graph, forks included, under every autonomy policy: a run that *)
(* is paused waits at a step that has not completed, with nobody inside    *)
(* the engine, so the next approver can act on it and no earlier one is    *)
(* still at work.  It needs the queue to deliver the job once.             *)
THEOREM Resumable ==
  ASSUME Redeliver = FALSE
  PROVE  Spec => []PausedIsResumable
<1>1. Init => AnsweredInv /\ PausedInv
  BY AnsweredInvInit DEF Init, NoRow, PausedInv
<1>2. (TypeInv /\ SessionInv) /\ (AnsweredInv /\ PausedInv) /\ [Next]_vars
        => (AnsweredInv /\ PausedInv)'
  BY AnsweredInvStep, PausedInvStep
<1>3. TypeInv /\ ExclusiveInv /\ PausedInv => PausedIsResumable
  BY DEF PausedInv, PausedIsResumable, ExclusiveInv, Unheld
<1> QED  BY <1>1, <1>2, <1>3, SessionsInductive, PTL DEF Spec
=============================================================================
