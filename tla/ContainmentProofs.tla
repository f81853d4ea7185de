--------------------------- MODULE ContainmentProofs ---------------------------
(***************************************************************************)
(* Type correctness of ContainmentExecution, and: the audit chain never    *)
(* forks, no writer loses more races than others have committed entries,   *)
(* what is answered is on the chain truthfully, a target protected         *)
(* throughout is not touched, and the racing transactions implement the    *)
(* append-only log of AuditLog, for any number of requests and whatever    *)
(* they ask for.                                                           *)
(***************************************************************************)
EXTENDS ContainmentExecution, Sequences, TLAPS, FiniteSetTheorems

(* TypeOK is not inductive: the number a writer reads is one only if the   *)
(* log has a last entry, and the outcome it inserts is one only because an *)
(* earlier step has set it.                                                *)
TypeInv ==
  /\ TypeOK
  /\ ledger = {} \/ \E e \in ledger : IsLast(e)
  /\ \A w \in Writers :
       /\ pc[w] \in {"link", "audit"} => outcome[w] \in Outcomes
       /\ \A e, f \in flushed[w] : e = f

(* The stages of a request and of its transaction go together.             *)
Early == {"new", "screen", "dispatch", "link", "write", "edit"}
StageInv ==
  \A w \in Writers :
    /\ pc[w] \in Early => tx[w] = "open"
    /\ pc[w] = "audit" => tx[w] \in {"append", "insert", "flushed"}
    /\ pc[w] = "sending" => tx[w] = "committed"
    /\ pc[w] = "raised" => tx[w] \in {"committed", "rolled_back"}
    /\ pc[w] = "answered" => tx[w] \in {"flushed", "committed", "rolled_back"}
    /\ flushed[w] # {} <=> tx[w] = "flushed"

(* An entry fits the committed log: its hash is that of the entry before. *)
Linked(seq, prev) ==
  \/ seq = 1 /\ prev = GENESIS
  \/ \E f \in ledger : f.seq + 1 = seq /\ prev = f.by

(* ChainLinked is preserved by a commit because the entry has been linked  *)
(* to the log since its head was read, its number is free, and no other    *)
(* open transaction holds that number.                                     *)
ChainInv ==
  /\ ChainLinked
  /\ \A w \in Writers :
       /\ tx[w] = "insert" => Linked(head[w].seq, head[w].prev)
       /\ \A e \in flushed[w] : Linked(e.seq, e.prev) /\ ~Taken(e.seq)
  /\ \A v, w \in Writers :
       v # w => \A e \in flushed[v], f \in flushed[w] : e.seq # f.seq

(* What a request has been answered, has done, and has written.            *)
TruthInv ==
  \A w \in Writers :
    /\ \A e \in flushed[w] : e.by = w /\ e.outcome = outcome[w]
    /\ \A e \in Rows(w) : tx[w] = "committed" /\ e.outcome = outcome[w]
    /\ \A e, f \in Rows(w) : e = f
    /\ tx[w] = "committed" =>
         /\ pc[w] \in {"sending", "answered", "raised"}
         /\ Kind(w) # "protect" => Rows(w) # {}
    /\ pc[w] = "answered" /\ Kind(w) # "protect" /\ tx[w] # "committed" => outcome[w] = "denied"
    /\ pc[w] = "edit" => Kind(w) = "protect"
    /\ Executes(w) =>
         /\ pc[w] \in {"new", "screen", "dispatch"} => w \notin effects
         /\ pc[w] \in {"link", "audit", "answered"} \/ tx[w] = "committed"
              => (outcome[w] = "denied" <=> w \notin effects)

(* A request that is still shielded aims at a target protected now, and a  *)
(* screened one that has passed the screen is not shielded any more.       *)
ShieldInv ==
  \A w \in Writers :
    /\ w \in shielded => Protected(Target(w))
    /\ pc[w] = "dispatch" /\ Screened(w) => w \notin shielded

-----------------------------------------------------------------------------
(* What a step of a request does to the log and its writers.               *)

Step(w) == Arrive(w) \/ Work(w) \/ Fail(w)

Begin(w) ==
  /\ pc[w] \in Early
  /\ tx' = [tx EXCEPT ![w] = "append"]
  /\ UNCHANGED <<ledger, head, flushed, lost>>

AddCommits(w) ==
  /\ pc[w] = "edit"
  /\ tx' = [tx EXCEPT ![w] = "committed"]
  /\ UNCHANGED <<ledger, head, flushed, lost>>

AuditMove(w) ==
  \/ UNCHANGED auditVars \/ Begin(w) \/ AddCommits(w)
  \/ ReadHead(w) \/ LoseRace(w) \/ CommitTx(w) \/ RollbackTx(w)
  \/ pc[w] = "audit" /\ Insert(w, outcome[w])

LEMMA StepIsAuditMove ==
  ASSUME NEW r \in Writers, Step(r)
  PROVE  AuditMove(r)
<1> USE DEF AuditMove, CallRecord, Begin, Early
<1>1. CASE Arrive(r)
  BY <1>1 DEF Arrive, Approve, AddEntry, RemoveEntry, EntryNotFound
<1>2. CASE Screen(r) \/ Dispatch(r) \/ DispatchRefused(r) \/ AttachChangeRecord(r)
  BY <1>2 DEF Screen, Dispatch, DispatchRefused, AttachChangeRecord
<1>3. CASE InsertEntry(r) \/ InsertEntryFails(r) \/ AddEntryCommits(r) \/ DeleteEntry(r)
  BY <1>3 DEF InsertEntry, InsertEntryFails, AddEntryCommits, DeleteEntry, AddCommits
<1>4. CASE RecordStep(r) \/ CommitBeforeAnswer(r) \/ Answer(r) \/ Refuse(r) \/ Teardown(r)
  BY <1>4 DEF RecordStep, CommitBeforeAnswer, Answer, Refuse, Teardown
<1>5. CASE Fail(r)
  BY <1>5 DEF Fail, Raise, AnswerFails, TeardownFails
<1> QED  BY <1>1, <1>2, <1>3, <1>4, <1>5 DEF Step, Work

LEMMA NextHeadType ==
  ASSUME TypeInv
  PROVE  /\ NextSeqAndPrevHash \in [seq : Nat, prev : Writers \cup {GENESIS}]
         /\ Linked(NextSeqAndPrevHash.seq, NextSeqAndPrevHash.prev)
<1>1. CASE ledger = {}
  BY <1>1 DEF NextSeqAndPrevHash, Linked
<1>2. CASE ledger # {}
  <2> DEFINE last == CHOOSE e \in ledger : IsLast(e)
  <2>1. last \in ledger
    BY <1>2 DEF TypeInv
  <2>2. last \in Entry
    BY <2>1 DEF TypeInv, TypeOK, AuditTypeOK
  <2>3. NextSeqAndPrevHash = [seq |-> last.seq + 1, prev |-> last.by]
    BY <1>2 DEF NextSeqAndPrevHash
  <2> HIDE DEF last
  <2> QED  BY <2>1, <2>2, <2>3 DEF Entry, Linked
<1> QED  BY <1>1, <1>2

(* The log and its writers keep their types, and the log a last entry.     *)
LEMMA AuditMoveType ==
  ASSUME TypeInv, NEW w \in Writers, AuditMove(w)
  PROVE  /\ AuditTypeOK'
         /\ ledger' = {} \/ \E e \in ledger' : \A f \in ledger' : f.seq <= e.seq
         /\ \A v \in Writers : \A e, f \in flushed'[v] : e = f
<1> USE DEF TypeInv, TypeOK, AuditTypeOK, IsLast, TxStates
<1>1. CASE UNCHANGED auditVars
  BY <1>1 DEF auditVars
<1>2. CASE Begin(w) \/ AddCommits(w)
  BY <1>2 DEF Begin, AddCommits
<1>3. CASE ReadHead(w)
  BY <1>3, NextHeadType DEF ReadHead
<1>4. CASE LoseRace(w)
  <2>1. lost[w] + 1 \in Nat
    OBVIOUS
  <2>2. lost' \in [Writers -> Nat]
    BY <1>4, <2>1 DEF LoseRace
  <2>3. tx' \in [Writers -> TxStates] /\ UNCHANGED <<ledger, head, flushed>>
    BY <1>4 DEF LoseRace
  <2> QED  BY <2>2, <2>3
<1>5. CASE pc[w] = "audit" /\ Insert(w, outcome[w])
  <2>1. outcome[w] \in Outcomes /\ head[w] \in [seq : Nat, prev : Writers \cup {GENESIS}]
    BY <1>5
  <2> QED  BY <1>5, <2>1 DEF Insert, Entry
<1>6. CASE CommitTx(w)
  <2>1. AuditTypeOK' /\ \A v \in Writers : \A e, f \in flushed'[v] : e = f
    BY <1>6 DEF CommitTx
  <2>2. ledger' = ledger \cup flushed[w] /\ flushed[w] \subseteq Entry /\ ledger \subseteq Entry
    BY <1>6 DEF CommitTx
  <2>3. CASE flushed[w] = {}
    BY <2>1, <2>2, <2>3
  <2>4. CASE flushed[w] # {}
    <3>1. PICK x \in flushed[w] : flushed[w] = {x}
      BY <2>4
    <3>2. x \in Entry /\ \A f \in ledger : f.seq \in Nat
      BY <2>2, <3>1 DEF Entry
    <3>3. x.seq \in Nat
      BY <3>2 DEF Entry
    <3>4. CASE ledger = {}
      BY <2>1, <2>2, <3>1, <3>3, <3>4
    <3>5. CASE ledger # {}
      <4>1. PICK l \in ledger : \A f \in ledger : f.seq <= l.seq
        BY <3>5
      <4>2. CASE l.seq <= x.seq
        <5>1. \A f \in ledger' : f.seq <= x.seq
          BY <2>2, <3>1, <3>2, <3>3, <4>1, <4>2
        <5> QED  BY <2>1, <2>2, <3>1, <5>1
      <4>3. CASE x.seq <= l.seq
        <5>1. \A f \in ledger' : f.seq <= l.seq
          BY <2>2, <3>1, <3>2, <3>3, <4>1, <4>3
        <5> QED  BY <2>1, <2>2, <4>1, <5>1
      <4> QED  BY <3>2, <3>3, <4>1, <4>2, <4>3
    <3> QED  BY <3>4, <3>5
  <2> QED  BY <2>3, <2>4
<1>7. CASE RollbackTx(w)
  BY <1>7 DEF RollbackTx
<1> QED  BY <1>1, <1>2, <1>3, <1>4, <1>5, <1>6, <1>7 DEF AuditMove

-----------------------------------------------------------------------------
(* Type correctness.                                                       *)

LEMMA InitTypes ==
  Init => TypeInv /\ StageInv
<1> SUFFICES ASSUME Init PROVE TypeInv /\ StageInv
  OBVIOUS
<1> USE DEF Init, AuditInit
<1>1. AuditTypeOK
  BY DEF AuditTypeOK, TxStates, NoHead
<1>2. TypeOK
  BY <1>1, ContainmentAssumption DEF TypeOK, PcStates
<1> QED  BY <1>2 DEF TypeInv, StageInv, Early

LEMMA StepTypes ==
  ASSUME TypeInv, NEW r \in Writers, Step(r)
  PROVE  TypeInv'
<1> DEFINE Answers == \A w \in Writers : pc'[w] \in {"link", "audit"} => outcome'[w] \in Outcomes
           Rest == /\ ask' \in [Writers -> RequestType]
                   /\ safelist' \subseteq Targets
                   /\ locked' \in [Writers -> SUBSET Targets]
                   /\ found' \in [Writers -> SUBSET Targets]
                   /\ pc' \in [Writers -> PcStates]
                   /\ outcome' \in [Writers -> Outcomes \cup {None}]
                   /\ effects' \subseteq Writers
                   /\ change' \in [Writers -> BOOLEAN]
                   /\ shielded' \subseteq Writers
<1>1. Rest /\ Answers
  <2> USE DEF TypeInv, TypeOK, PcStates, Goto, workVars
  <2>1. Target(r) \in Targets
    BY DEF Target, RequestType
  <2>2. CASE Approve(r) \/ Screen(r) \/ Dispatch(r) \/ DispatchRefused(r) \/ AttachChangeRecord(r)
    BY <2>2 DEF Approve, Screen, Dispatch, DispatchRefused, AttachChangeRecord, CallRecord,
                OutcomeFor, Outcomes
  <2>3. CASE AddEntry(r) \/ RemoveEntry(r) \/ EntryNotFound(r)
    BY <2>1, <2>3 DEF AddEntry, RemoveEntry, EntryNotFound
  <2>4. CASE InsertEntry(r) \/ InsertEntryFails(r) \/ AddEntryCommits(r) \/ DeleteEntry(r)
    BY <2>1, <2>4 DEF InsertEntry, InsertEntryFails, AddEntryCommits, DeleteEntry, CallRecord,
                      Outcomes
  <2>5. CASE RecordStep(r) \/ CommitBeforeAnswer(r) \/ Answer(r) \/ Refuse(r) \/ Teardown(r)
    BY <2>5 DEF RecordStep, CommitBeforeAnswer, Answer, Refuse, Teardown
  <2>6. CASE Fail(r)
    BY <2>6 DEF Fail, Raise, AnswerFails, TeardownFails
  <2> QED  BY <2>2, <2>3, <2>4, <2>5, <2>6 DEF Step, Arrive, Work
<1>2. AuditMove(r)
  BY StepIsAuditMove
<1> QED  BY <1>1, <1>2, AuditMoveType DEF TypeInv, TypeOK, IsLast

(* Every behaviour keeps the types of ContainmentExecution and its log.    *)
THEOREM TypeCorrect == Spec => []TypeOK
<1>1. TypeInv /\ [Next]_vars => TypeInv'
  <2> SUFFICES ASSUME TypeInv, [Next]_vars PROVE TypeInv'
    OBVIOUS
  <2>1. CASE Next
    BY <2>1, StepTypes DEF Next, Step
  <2>2. CASE UNCHANGED vars
    BY <2>2 DEF vars, auditVars, TypeInv, TypeOK, AuditTypeOK, IsLast
  <2> QED  BY <2>1, <2>2
<1>2. TypeInv => TypeOK
  BY DEF TypeInv
<1> QED  BY <1>1, <1>2, InitTypes, PTL DEF Spec

-----------------------------------------------------------------------------
(* The stages.                                                             *)

LEMMA StepStages ==
  ASSUME TypeInv, StageInv, NEW r \in Writers, Step(r)
  PROVE  StageInv'
<1> USE DEF TypeInv, TypeOK, AuditTypeOK, StageInv, Early, Goto, workVars, auditVars
<1>1. CASE Approve(r) \/ Screen(r) \/ Dispatch(r) \/ DispatchRefused(r) \/ AttachChangeRecord(r)
  BY <1>1 DEF Approve, Screen, Dispatch, DispatchRefused, AttachChangeRecord, CallRecord
<1>2. CASE AddEntry(r) \/ RemoveEntry(r) \/ EntryNotFound(r)
  BY <1>2 DEF AddEntry, RemoveEntry, EntryNotFound, RollbackTx
<1>3. CASE InsertEntry(r) \/ InsertEntryFails(r) \/ AddEntryCommits(r) \/ DeleteEntry(r)
  BY <1>3 DEF InsertEntry, InsertEntryFails, AddEntryCommits, DeleteEntry, CallRecord, RollbackTx
<1>4. CASE RecordStep(r)
  <2>1. pc[r] = "audit" /\ (pc' = pc \/ pc' = [pc EXCEPT ![r] = "raised"])
    BY <1>4 DEF RecordStep
  <2>2. pc' = [pc EXCEPT ![r] = "raised"] <=> tx'[r] = "rolled_back"
    BY <1>4, <2>1 DEF RecordStep
  <2>3. CASE ReadHead(r)
    BY <2>1, <2>2, <2>3 DEF ReadHead
  <2>4. CASE Insert(r, outcome[r])
    BY <2>1, <2>2, <2>4 DEF Insert
  <2>5. CASE LoseRace(r)
    BY <2>1, <2>2, <2>5 DEF LoseRace
  <2> QED  BY <1>4, <2>3, <2>4, <2>5 DEF RecordStep
<1>5. CASE CommitBeforeAnswer(r) \/ Answer(r) \/ Refuse(r) \/ Teardown(r)
  BY <1>5 DEF CommitBeforeAnswer, Answer, Refuse, Teardown, CommitTx
<1>6. CASE Fail(r)
  BY <1>6 DEF Fail, Raise, AnswerFails, TeardownFails, RollbackTx, Ended, PcStates
<1> QED  BY <1>1, <1>2, <1>3, <1>4, <1>5, <1>6 DEF Step, Arrive, Work

(* The types and the stages, on which the other invariants rest.           *)
LEMMA Stages == Spec => [](TypeInv /\ StageInv)
<1>1. TypeInv /\ StageInv /\ [Next]_vars => TypeInv' /\ StageInv'
  <2> SUFFICES ASSUME TypeInv, StageInv, [Next]_vars PROVE TypeInv' /\ StageInv'
    OBVIOUS
  <2>1. CASE Next
    BY <2>1, StepTypes, StepStages DEF Next, Step
  <2>2. CASE UNCHANGED vars
    BY <2>2 DEF vars, auditVars, TypeInv, TypeOK, AuditTypeOK, IsLast, StageInv
  <2> QED  BY <2>1, <2>2
<1> QED  BY <1>1, InitTypes, PTL DEF Spec

-----------------------------------------------------------------------------
(* The chain.                                                              *)

LEMMA StepChain ==
  ASSUME TypeInv, StageInv, ChainInv, NEW r \in Writers, AuditMove(r)
  PROVE  ChainInv'
<1> USE DEF TypeInv, TypeOK, AuditTypeOK, ChainInv, ChainLinked, Linked, Taken
<1>1. CASE UNCHANGED auditVars
  BY <1>1 DEF auditVars
<1>2. CASE Begin(r) \/ AddCommits(r)
  BY <1>2 DEF Begin, AddCommits
<1>3. CASE ReadHead(r)
  <2>1. /\ head' = [head EXCEPT ![r] = NextSeqAndPrevHash]
        /\ tx' = [tx EXCEPT ![r] = "insert"] /\ ledger' = ledger /\ flushed' = flushed
    BY <1>3 DEF ReadHead
  <2>2. Linked(NextSeqAndPrevHash.seq, NextSeqAndPrevHash.prev)
    BY NextHeadType
  <2>3. \A w \in Writers : tx'[w] = "insert" => Linked(head'[w].seq, head'[w].prev)
    BY <2>1, <2>2
  <2> QED  BY <2>1, <2>3
<1>4. CASE LoseRace(r) \/ RollbackTx(r)
  <2>1. /\ ledger' = ledger /\ head' = head
        /\ flushed' = flushed \/ flushed' = [flushed EXCEPT ![r] = {}]
    BY <1>4 DEF LoseRace, RollbackTx
  <2>2. \A w \in Writers : tx'[w] = "insert" => tx[w] = "insert"
    BY <1>4 DEF LoseRace, RollbackTx
  <2>3. \A w \in Writers : flushed'[w] = flushed[w] \/ flushed'[w] = {}
    BY <2>1
  <2>4. \A w \in Writers : \A e \in flushed'[w] : Linked(e.seq, e.prev) /\ ~Taken(e.seq)
    BY <2>3
  <2>5. \A v, w \in Writers :
          v # w => \A e \in flushed'[v], f \in flushed'[w] : e.seq # f.seq
    <3> SUFFICES ASSUME NEW v \in Writers, NEW w \in Writers, v # w,
                        NEW e \in flushed'[v], NEW f \in flushed'[w]
                 PROVE  e.seq # f.seq
      OBVIOUS
    <3>1. e \in flushed[v] /\ f \in flushed[w]
      BY <2>3
    <3> QED  BY <3>1
  <2> QED  BY <2>1, <2>2, <2>4, <2>5
<1>5. CASE pc[r] = "audit" /\ Insert(r, outcome[r])
  (* The number is free and held by nobody: that is what the insert waits for. *)
  <2> DEFINE row == [seq |-> head[r].seq, prev |-> head[r].prev, by |-> r, outcome |-> outcome[r]]
  <2>1. /\ flushed' = [flushed EXCEPT ![r] = {row}] /\ ledger' = ledger /\ head' = head
        /\ tx' = [tx EXCEPT ![r] = "flushed"]
    BY <1>5 DEF Insert
  <2>2. /\ row.seq = head[r].seq /\ row.prev = head[r].prev
        /\ Linked(row.seq, row.prev) /\ ~Taken(row.seq)
    BY <1>5 DEF Insert
  <2>3. \A v \in Writers \ {r} : \A e \in flushed[v] : e.seq # row.seq
    BY <1>5 DEF Insert, HeldByAnother
  <2> HIDE DEF row
  <2>4. ChainLinked'
    BY <2>1
  <2>5. \A w \in Writers :
          /\ tx'[w] = "insert" => Linked(head[w].seq, head[w].prev)
          /\ \A e \in flushed'[w] : Linked(e.seq, e.prev) /\ ~Taken(e.seq)
    BY <2>1, <2>2
  <2>6. \A v, w \in Writers :
          v # w => \A e \in flushed'[v], f \in flushed'[w] : e.seq # f.seq
    BY <2>1, <2>3
  <2> QED  BY <2>1, <2>4, <2>5, <2>6
<1>6. CASE CommitTx(r)
  <2>1. /\ ledger' = ledger \cup flushed[r] /\ flushed' = [flushed EXCEPT ![r] = {}]
        /\ tx' = [tx EXCEPT ![r] = "committed"] /\ head' = head
    BY <1>6 DEF CommitTx
  <2>2. ChainLinked'
    <3>1. \A e, f \in ledger' : e.seq = f.seq => e = f
      BY <2>1
    <3>2. \A e \in ledger' : Linked(e.seq, e.prev)
      BY <2>1
    <3> QED  BY <2>1, <3>1, <3>2
  <2>3. \A w \in Writers : tx'[w] = "insert" => Linked(head[w].seq, head[w].prev)'
    BY <2>1
  <2>4. \A w \in Writers : \A e \in flushed'[w] : Linked(e.seq, e.prev)' /\ ~Taken(e.seq)'
    BY <2>1
  <2>5. \A v, w \in Writers :
          v # w => \A e \in flushed'[v], f \in flushed'[w] : e.seq # f.seq
    BY <2>1
  <2> QED  BY <2>1, <2>2, <2>3, <2>4, <2>5
<1> QED  BY <1>1, <1>2, <1>3, <1>4, <1>5, <1>6 DEF AuditMove

(* The committed audit entries are numbered without a gap or a fork, and   *)
(* each carries the hash of the one before, for any number of writers.     *)
THEOREM AuditChainNeverForks == Spec => []ChainLinked
<1>1. Init => ChainInv
  BY DEF Init, AuditInit, ChainInv, ChainLinked
<1>2. TypeInv /\ StageInv /\ ChainInv /\ [Next]_vars => ChainInv'
  <2> SUFFICES ASSUME TypeInv, StageInv, ChainInv, [Next]_vars PROVE ChainInv'
    OBVIOUS
  <2>1. CASE Next
    BY <2>1, StepIsAuditMove, StepChain DEF Next, Step
  <2>2. CASE UNCHANGED vars
    BY <2>2 DEF vars, auditVars, ChainInv, ChainLinked, Linked, Taken
  <2> QED  BY <2>1, <2>2
<1>3. ChainInv => ChainLinked
  BY DEF ChainInv
<1> QED  BY <1>1, <1>2, <1>3, Stages, PTL DEF Spec

-----------------------------------------------------------------------------
(* The protected targets.                                                  *)

LEMMA StepShield ==
  ASSUME TypeInv, ShieldInv, NEW r \in Writers, Step(r)
  PROVE  /\ ShieldInv'
         /\ \A w \in Writers : Screened(w) /\ w \in effects' \ effects => w \notin shielded
<1> USE DEF TypeInv, TypeOK, ShieldInv, Protected, Target, Screened, Kind, Goto, workVars
<1>1. CASE Approve(r) \/ Screen(r)
  BY <1>1 DEF Approve, Screen, CallRecord
<1>2. CASE Dispatch(r) \/ DispatchRefused(r) \/ AttachChangeRecord(r)
  BY <1>2 DEF Dispatch, DispatchRefused, AttachChangeRecord, CallRecord
<1>3. CASE AddEntry(r) \/ RemoveEntry(r) \/ EntryNotFound(r)
  BY <1>3 DEF AddEntry, RemoveEntry, EntryNotFound
<1>4. CASE InsertEntry(r) \/ InsertEntryFails(r) \/ AddEntryCommits(r) \/ DeleteEntry(r)
  BY <1>4 DEF InsertEntry, InsertEntryFails, AddEntryCommits, DeleteEntry, CallRecord
<1>5. CASE RecordStep(r)
  BY <1>5 DEF RecordStep
<1>6. CASE CommitBeforeAnswer(r) \/ Answer(r) \/ Refuse(r) \/ Teardown(r)
  BY <1>6 DEF CommitBeforeAnswer, Answer, Refuse, Teardown
<1>7. CASE Fail(r)
  BY <1>7 DEF Fail, Raise, AnswerFails, TeardownFails
<1> QED  BY <1>1, <1>2, <1>3, <1>4, <1>5, <1>6, <1>7 DEF Step, Arrive, Work

(* A target protected from the arrival of a screened request to its        *)
(* dispatch is not acted on, whatever others add and remove meanwhile.     *)
THEOREM ProtectedIsUntouched == Spec => ProtectedUntouched
<1>1. Init => ShieldInv
  BY DEF Init, ShieldInv
<1>2. TypeInv /\ ShieldInv /\ [Next]_vars =>
        /\ ShieldInv'
        /\ [\A r \in Writers : Screened(r) /\ r \in effects' \ effects => r \notin shielded]_vars
  <2> SUFFICES ASSUME TypeInv, ShieldInv, [Next]_vars
               PROVE  /\ ShieldInv'
                      /\ \A r \in Writers :
                           Screened(r) /\ r \in effects' \ effects => r \notin shielded
    OBVIOUS
  <2>1. CASE Next
    BY <2>1, StepShield DEF Next, Step
  <2>2. CASE UNCHANGED vars
    BY <2>2 DEF vars, ShieldInv, Protected, Target, Screened, Kind
  <2> QED  BY <2>1, <2>2
<1> QED  BY <1>1, <1>2, Stages, PTL DEF Spec, ProtectedUntouched

-----------------------------------------------------------------------------
(* The truth of the record.                                                *)

(* A commit adds the one row of its writer, and no row of another.         *)
LEMMA CommitRows ==
  ASSUME TypeInv, StageInv, TruthInv, NEW r \in Writers, CommitTx(r)
  PROVE  /\ \A w \in Writers \ {r} : Rows(w)' = Rows(w)
         /\ Rows(r)' = flushed[r] /\ flushed[r] # {}
         /\ \A e, f \in flushed[r] : e = f
         /\ tx' = [tx EXCEPT ![r] = "committed"]
         /\ flushed' = [flushed EXCEPT ![r] = {}]
<1>1. tx[r] = "flushed" /\ ledger' = ledger \cup flushed[r]
  BY DEF CommitTx
<1>2. \A e \in flushed[r] : e.by = r
  BY DEF TruthInv
<1>3. Rows(r) = {}
  BY <1>1 DEF TruthInv
<1> QED  BY <1>1, <1>2, <1>3 DEF Rows, CommitTx, StageInv, TypeInv

(* A step before the append writes nothing and commits at most an entry of *)
(* the safelist; if it ends in the append, it has set the outcome.         *)
OthersKept(r) ==
  \A w \in Writers \ {r} : /\ pc'[w] = pc[w] /\ tx'[w] = tx[w]
                           /\ outcome'[w] = outcome[w]
                           /\ w \in effects' <=> w \in effects

EarlyMove(r) ==
  /\ pc[r] \in Early
  /\ ledger' = ledger /\ flushed' = flushed /\ ask' = ask /\ OthersKept(r)
  /\ \/ pc'[r] \in Early /\ tx'[r] = tx[r]
     \/ pc'[r] = "raised" /\ tx'[r] = "rolled_back"
     \/ pc'[r] = "audit" /\ tx'[r] = "append"
     \/ pc'[r] = "sending" /\ tx'[r] = "committed" /\ Kind(r) = "protect"
  /\ pc'[r] = "edit" => Kind(r) = "protect"
  /\ Executes(r) =>
       /\ pc'[r] # "sending"
       /\ pc'[r] \in {"new", "screen", "dispatch"} => r \notin effects'
       /\ pc'[r] \in {"link", "audit"} => (outcome'[r] = "denied" <=> r \notin effects')

LEMMA EarlyTruth ==
  ASSUME TypeInv, StageInv, TruthInv, NEW r \in Writers, EarlyMove(r)
  PROVE  TruthInv'
<1> USE DEF EarlyMove, OthersKept
<1>1. flushed[r] = {} /\ Rows(r) = {} /\ tx[r] = "open"
  BY DEF StageInv, TruthInv
<1>2. \A w \in Writers : Rows(w)' = Rows(w)
  BY DEF Rows
<1>3. \A w \in Writers : (Executes(w)' <=> Executes(w)) /\ (Kind(w)' = Kind(w))
  BY DEF Executes, Kind
<1> QED  BY <1>1, <1>2, <1>3 DEF TruthInv, Early, Executes

LEMMA StepIsEarlyMove ==
  ASSUME TypeInv, StageInv, TruthInv, NEW r \in Writers, Step(r), pc[r] \in Early
  PROVE  EarlyMove(r)
<1> USE DEF TypeInv, TypeOK, AuditTypeOK, EarlyMove, OthersKept, Executes, Kind, Early,
            Goto, workVars, auditVars
<1>1. flushed[r] = {} /\ tx[r] = "open"
  BY DEF StageInv
<1>2. Executes(r) => /\ pc[r] \in {"new", "screen", "dispatch"} => r \notin effects
                     /\ pc[r] = "link" => (outcome[r] = "denied" <=> r \notin effects)
  BY DEF TruthInv
<1>3. CASE Approve(r) \/ Screen(r) \/ DispatchRefused(r)
  BY <1>1, <1>2, <1>3 DEF Approve, Screen, DispatchRefused, CallRecord
<1>4. CASE Dispatch(r)
  BY <1>1, <1>2, <1>4 DEF Dispatch, CallRecord, OutcomeFor
<1>5. CASE AttachChangeRecord(r)
  BY <1>1, <1>2, <1>5 DEF AttachChangeRecord, CallRecord
<1>6. CASE AddEntry(r) \/ RemoveEntry(r)
  BY <1>1, <1>2, <1>6 DEF AddEntry, RemoveEntry
<1>7. CASE EntryNotFound(r) \/ InsertEntryFails(r)
  <2>1. /\ tx' = [tx EXCEPT ![r] = "rolled_back"] /\ pc' = [pc EXCEPT ![r] = "raised"]
        /\ flushed' = [flushed EXCEPT ![r] = {}] /\ ledger' = ledger
        /\ UNCHANGED <<ask, outcome, effects>>
    BY <1>7 DEF EntryNotFound, InsertEntryFails, RollbackTx
  <2> QED  BY <1>1, <2>1
<1>8. CASE InsertEntry(r) \/ AddEntryCommits(r)
  BY <1>1, <1>2, <1>8 DEF InsertEntry, AddEntryCommits, TruthInv
<1>9. CASE DeleteEntry(r)
  BY <1>1, <1>2, <1>9 DEF DeleteEntry, CallRecord
<1>10. CASE Raise(r)
  BY <1>1, <1>2, <1>10 DEF Raise, RollbackTx
<1> QED  BY <1>3, <1>4, <1>5, <1>6, <1>7, <1>8, <1>9, <1>10
         DEF Step, Arrive, Work, Fail, RecordStep, CommitBeforeAnswer, Answer, Refuse, Teardown,
             AnswerFails, TeardownFails

LEMMA StepTruth ==
  ASSUME TypeInv, StageInv, TruthInv, NEW r \in Writers, Step(r)
  PROVE  TruthInv'
<1> USE DEF TypeInv, TypeOK, AuditTypeOK, Executes, Kind, Rows, Goto, workVars, auditVars
<1>1. CASE pc[r] \in Early
  BY <1>1, StepIsEarlyMove, EarlyTruth
<1>2. CASE RecordStep(r)
  <2>1. /\ pc[r] = "audit" /\ UNCHANGED <<ask, outcome, effects>>
        /\ pc' = pc \/ pc' = [pc EXCEPT ![r] = "raised"]
    BY <1>2 DEF RecordStep
  <2>2. CASE ReadHead(r)
    BY <2>1, <2>2 DEF ReadHead, TruthInv
  <2>3. CASE LoseRace(r)
    BY <2>1, <2>3 DEF LoseRace, TruthInv
  <2>4. CASE Insert(r, outcome[r])
    BY <2>1, <2>4 DEF Insert, TruthInv
  <2> QED  BY <1>2, <2>2, <2>3, <2>4 DEF RecordStep
<1>3. CASE CommitBeforeAnswer(r) \/ Teardown(r)
  <2>1. /\ CommitTx(r) /\ UNCHANGED <<ask, outcome, effects>>
        /\ pc[r] \in {"audit", "answered"}
        /\ \/ pc' = [pc EXCEPT ![r] = "sending"]
           \/ pc[r] = "answered" /\ pc' = pc
    BY <1>3 DEF CommitBeforeAnswer, Teardown
  <2>2. /\ \A w \in Writers \ {r} : Rows(w)' = Rows(w)
        /\ Rows(r)' = flushed[r] /\ flushed[r] # {}
        /\ \A e, f \in flushed[r] : e = f
        /\ tx' = [tx EXCEPT ![r] = "committed"]
        /\ flushed' = [flushed EXCEPT ![r] = {}]
    BY <2>1, CommitRows
  <2> HIDE DEF Rows
  <2> QED  BY <2>1, <2>2 DEF TruthInv
<1>4. CASE Refuse(r)
  BY <1>4 DEF Refuse, TruthInv
<1>5. CASE TeardownFails(r)
  BY <1>5 DEF TeardownFails, RollbackTx, Ended, StageInv, TruthInv
<1>6. CASE Raise(r) /\ pc[r] = "audit"
  BY <1>6 DEF Raise, RollbackTx, Ended, StageInv, TruthInv
<1>7. CASE Answer(r) \/ AnswerFails(r)
  <2>1. /\ pc[r] = "sending" /\ UNCHANGED <<ask, auditVars, outcome, effects>>
        /\ \/ pc' = [pc EXCEPT ![r] = "answered"]
           \/ pc' = [pc EXCEPT ![r] = "raised"]
    BY <1>7 DEF Answer, AnswerFails
  <2>2. tx[r] = "committed"  BY <2>1 DEF StageInv
  <2> QED  BY <2>1, <2>2 DEF TruthInv
<1> QED
  BY <1>1, <1>2, <1>3, <1>4, <1>5, <1>6, <1>7
  DEF Step, Arrive, Work, Fail, Early, Approve, Screen, Dispatch, DispatchRefused, AttachChangeRecord,
      AddEntry, RemoveEntry, EntryNotFound, InsertEntry, InsertEntryFails, AddEntryCommits,
      DeleteEntry, Raise, PcStates

(* A request whose transaction was committed, and so one answered with     *)
(* success, has exactly one row, one whose transaction was not has none,   *)
(* and the row says denied if and only if the connector was not reached.   *)
THEOREM AnswersAreAudited == Spec => []AnsweredIsAudited
<1>1. Init => TruthInv
  BY DEF Init, AuditInit, TruthInv, Rows
<1>2. TypeInv /\ StageInv /\ TruthInv /\ [Next]_vars => TruthInv'
  <2> SUFFICES ASSUME TypeInv, StageInv, TruthInv, [Next]_vars PROVE TruthInv'
    OBVIOUS
  <2>1. CASE Next
    BY <2>1, StepTruth DEF Next, Step
  <2>2. CASE UNCHANGED vars
    BY <2>2 DEF vars, auditVars, TruthInv, Rows, Executes, Kind
  <2> QED  BY <2>1, <2>2
<1>3. TypeInv /\ StageInv /\ TruthInv => AnsweredIsAudited
  <2> SUFFICES ASSUME TypeInv, StageInv, TruthInv, NEW r \in Writers
               PROVE  /\ tx[r] # "committed" => Rows(r) = {}
                      /\ (/\ Kind(r) # "protect"
                          /\ tx[r] = "committed" \/ (pc[r] = "answered" /\ outcome[r] # "denied")) =>
                           \E e \in ledger :
                             /\ Rows(r) = {e}
                             /\ Executes(r) => (e.outcome = "denied" <=> r \notin effects)
    BY DEF AnsweredIsAudited
  <2>1. tx[r] # "committed" => Rows(r) = {}  BY DEF TruthInv
  <2>2. ASSUME Kind(r) # "protect",
               tx[r] = "committed" \/ (pc[r] = "answered" /\ outcome[r] # "denied")
        PROVE  \E e \in ledger : /\ Rows(r) = {e}
                                 /\ Executes(r) => (e.outcome = "denied" <=> r \notin effects)
    <3>1. tx[r] = "committed"  BY <2>2 DEF TruthInv
    <3>2. Rows(r) # {}  BY <2>2, <3>1 DEF TruthInv
    <3>3. PICK e \in Rows(r) : e.outcome = outcome[r]  BY <3>2 DEF TruthInv
    <3>4. Rows(r) = {e} /\ e \in ledger  BY <3>3 DEF TruthInv, Rows
    <3>5. Executes(r) => (outcome[r] = "denied" <=> r \notin effects)  BY <3>1 DEF TruthInv
    <3> QED  BY <3>3, <3>4, <3>5
  <2> QED  BY <2>1, <2>2
<1> QED  BY <1>1, <1>2, <1>3, Stages, PTL DEF Spec

-----------------------------------------------------------------------------
(* The races. The committed entries are numbered up to their number, so a  *)
(* writer whose number is taken has been overtaken since it read its head: *)
(* each race it loses it loses to an entry more.                           *)

OthersOf(w) == {e \in ledger : e.by # w}

Numbered ==
  /\ IsFiniteSet(ledger)
  /\ \A e \in ledger : e.seq \in 1..Cardinality(ledger)
  /\ \A n \in 1..Cardinality(ledger) : Taken(n)

RaceInv ==
  /\ Numbered
  /\ \A w \in Writers :
       /\ lost[w] <= Cardinality(OthersOf(w))
       /\ tx[w] = "insert" => lost[w] < head[w].seq

LEMMA OthersFinite ==
  ASSUME Numbered, NEW w \in Writers
  PROVE  /\ IsFiniteSet(OthersOf(w)) /\ Cardinality(OthersOf(w)) \in Nat
         /\ Cardinality(ledger) \in Nat
BY FS_Subset, FS_CardinalityType DEF Numbered, OthersOf

(* Until it commits, all the entries are another's. *)
LEMMA OthersAll ==
  ASSUME TruthInv, NEW w \in Writers, tx[w] # "committed"
  PROVE  OthersOf(w) = ledger
BY DEF TruthInv, Rows, OthersOf

(* The number that is read is the one behind them all.                     *)
LEMMA NextIsCount ==
  ASSUME TypeInv, Numbered
  PROVE  NextSeqAndPrevHash.seq = Cardinality(ledger) + 1
<1>1. Cardinality(ledger) \in Nat  BY FS_CardinalityType DEF Numbered
<1>2. CASE ledger = {}
  BY <1>1, <1>2, FS_EmptySet DEF NextSeqAndPrevHash
<1>3. CASE ledger # {}
  <2> DEFINE last == CHOOSE e \in ledger : IsLast(e)
  <2>1. last \in ledger /\ IsLast(last)  BY <1>3 DEF TypeInv
  <2>2. NextSeqAndPrevHash.seq = last.seq + 1  BY <1>3 DEF NextSeqAndPrevHash
  <2> HIDE DEF last
  <2>3. last.seq \in 1..Cardinality(ledger)  BY <2>1 DEF Numbered
  <2>4. PICK e \in ledger : e.seq = Cardinality(ledger)
    BY <1>1, <2>3 DEF Numbered, Taken
  <2>5. e.seq <= last.seq  BY <2>1, <2>4 DEF IsLast
  <2> QED  BY <1>1, <2>2, <2>3, <2>4, <2>5
<1> QED  BY <1>2, <1>3

(* A commit adds one row, and the row is the next one.                     *)
LEMMA CommitIsNext ==
  ASSUME TypeInv, StageInv, ChainInv, TruthInv, Numbered, NEW r \in Writers, CommitTx(r)
  PROVE  \E x \in flushed[r] :
           /\ x \in Entry /\ x \notin ledger /\ ledger' = ledger \cup {x}
           /\ x.seq = Cardinality(ledger) + 1 /\ Linked(x.seq, x.prev)
<1>1. /\ ledger' = ledger \cup flushed[r] /\ flushed[r] # {} /\ flushed[r] \subseteq Entry
      /\ \A e, f \in flushed[r] : e = f
      /\ \A e \in flushed[r] : Linked(e.seq, e.prev) /\ ~Taken(e.seq)
  BY DEF CommitTx, StageInv, TypeInv, TypeOK, AuditTypeOK, ChainInv
<1>2. PICK x \in flushed[r] : flushed[r] = {x}  BY <1>1
<1>3. /\ ledger' = ledger \cup {x} /\ x \notin ledger /\ x \in Entry /\ x.seq \in Nat
      /\ Linked(x.seq, x.prev) /\ ~Taken(x.seq)
  BY <1>1, <1>2 DEF Taken, Entry
<1> DEFINE n == Cardinality(ledger)
<1>4. n \in Nat  BY FS_CardinalityType DEF Numbered
<1>5. \A f \in ledger : f.seq \in 1..n  BY DEF Numbered
<1>6. \A k \in 1..n : Taken(k)  BY DEF Numbered
<1> HIDE DEF n
<1>7. x.seq = n + 1
  <2>1. x.seq \notin 1..n  BY <1>3, <1>6
  <2>2. CASE x.seq = 1  BY <1>4, <2>1, <2>2
  <2>3. ASSUME NEW f \in ledger, f.seq + 1 = x.seq PROVE x.seq = n + 1
    BY <1>3, <1>4, <1>5, <2>1, <2>3
  <2> QED  BY <1>3, <2>2, <2>3 DEF Linked
<1> QED  BY <1>3, <1>7 DEF n

LEMMA CommitNumbers ==
  ASSUME TypeInv, StageInv, ChainInv, TruthInv, Numbered, NEW r \in Writers, CommitTx(r)
  PROVE  Numbered'
<1> DEFINE n == Cardinality(ledger)
<1>1. PICK x \in flushed[r] : ledger' = ledger \cup {x} /\ x \notin ledger /\ x.seq = n + 1
  BY CommitIsNext
<1>2. n \in Nat /\ IsFiniteSet(ledger)  BY FS_CardinalityType DEF Numbered
<1>3. IsFiniteSet(ledger') /\ Cardinality(ledger') = n + 1
  BY <1>1, <1>2, FS_AddElement
<1>4. \A f \in ledger : f.seq \in 1..n  BY DEF Numbered
<1>5. \A k \in 1..n : Taken(k)  BY DEF Numbered
<1> HIDE DEF n
<1>6. \A e \in ledger' : e.seq \in 1..(n + 1)  BY <1>1, <1>2, <1>4
<1>7. \A k \in 1..(n + 1) : \E e \in ledger' : e.seq = k
  <2> SUFFICES ASSUME NEW k \in 1..(n + 1) PROVE \E e \in ledger' : e.seq = k  OBVIOUS
  <2>1. CASE k = n + 1  BY <1>1, <2>1
  <2>2. CASE k # n + 1
    <3>1. k \in 1..n  BY <1>2, <2>2
    <3> QED  BY <1>1, <1>5, <3>1 DEF Taken
  <2> QED  BY <2>1, <2>2
<1> QED  BY <1>3, <1>6, <1>7 DEF Numbered, Taken

LEMMA StepRaces ==
  ASSUME TypeInv, StageInv, ChainInv, TruthInv, RaceInv, NEW r \in Writers, AuditMove(r)
  PROVE  RaceInv'
<1>0. /\ tx \in [Writers -> TxStates] /\ lost \in [Writers -> Nat]
      /\ head \in [Writers -> [seq : Nat, prev : Writers \cup {GENESIS}]]
      /\ Numbered
  BY DEF TypeInv, TypeOK, AuditTypeOK, RaceInv
<1>1. ASSUME ledger' = ledger, NEW w \in Writers, lost'[w] = lost[w],
             tx'[w] = "insert" => tx[w] = "insert" /\ head'[w] = head[w]
      PROVE  /\ lost'[w] <= Cardinality(OthersOf(w)')
             /\ tx'[w] = "insert" => lost'[w] < head'[w].seq
  BY <1>1 DEF RaceInv, OthersOf
<1>2. ledger' = ledger => Numbered'  BY <1>0 DEF Numbered, Taken
<1>3. CASE UNCHANGED auditVars \/ Begin(r) \/ AddCommits(r) \/ RollbackTx(r)
           \/ (pc[r] = "audit" /\ Insert(r, outcome[r]))
  <2>1. /\ UNCHANGED <<ledger, head, lost>>
        /\ \A w \in Writers : tx'[w] = "insert" => tx[w] = "insert"
    BY <1>0, <1>3 DEF auditVars, Begin, AddCommits, RollbackTx, Insert
  <2> QED  BY <1>1, <1>2, <2>1 DEF RaceInv
<1>4. CASE ReadHead(r)
  <2>1. /\ UNCHANGED <<ledger, lost>> /\ tx[r] = "append" /\ tx' = [tx EXCEPT ![r] = "insert"]
        /\ head' = [head EXCEPT ![r] = NextSeqAndPrevHash]
    BY <1>4 DEF ReadHead
  <2>2. lost[r] < head'[r].seq
    <3>1. OthersOf(r) = ledger  BY <2>1, OthersAll
    <3>2. lost[r] <= Cardinality(ledger)  BY <3>1 DEF RaceInv
    <3>3. head'[r].seq = Cardinality(ledger) + 1  BY <1>0, <2>1, NextIsCount
    <3>4. Cardinality(ledger) \in Nat  BY <1>0, OthersFinite
    <3> QED  BY <1>0, <3>2, <3>3, <3>4
  <2>3. \A w \in Writers : w # r => head'[w] = head[w] /\ tx'[w] = tx[w]
    BY <1>0, <2>1
  <2>4. lost'[r] <= Cardinality(OthersOf(r)')  BY <2>1 DEF RaceInv, OthersOf
  <2> QED  BY <1>1, <1>2, <2>1, <2>2, <2>3, <2>4 DEF RaceInv
<1>5. CASE LoseRace(r)
  <2>1. /\ UNCHANGED <<ledger, head>> /\ tx[r] = "insert" /\ Taken(head[r].seq)
        /\ lost' = [lost EXCEPT ![r] = @ + 1]
        /\ \A w \in Writers : tx'[w] = "insert" => tx[w] = "insert" /\ w # r
    BY <1>0, <1>5 DEF LoseRace
  <2>2. lost[r] + 1 <= Cardinality(OthersOf(r))
    <3>1. OthersOf(r) = ledger  BY <2>1, OthersAll
    <3>2. head[r].seq \in 1..Cardinality(ledger)  BY <1>0, <2>1 DEF Numbered, Taken
    <3>3. lost[r] < head[r].seq  BY <2>1 DEF RaceInv
    <3>4. Cardinality(ledger) \in Nat  BY <1>0, OthersFinite
    <3>5. lost[r] \in Nat /\ head[r].seq \in Nat  BY <1>0
    <3> QED  BY <3>1, <3>2, <3>3, <3>4, <3>5
  <2>3. lost'[r] <= Cardinality(OthersOf(r)')  BY <1>0, <2>1, <2>2 DEF OthersOf
  <2>4. \A w \in Writers : w # r => lost'[w] = lost[w]  BY <1>0, <2>1
  <2> QED  BY <1>1, <1>2, <2>1, <2>3, <2>4 DEF RaceInv
<1>6. CASE CommitTx(r)
  <2>1. /\ ledger' = ledger \cup flushed[r] /\ UNCHANGED <<head, lost>>
        /\ tx' = [tx EXCEPT ![r] = "committed"]
        /\ \A e \in flushed[r] : e.by = r
    BY <1>6 DEF CommitTx, TruthInv
  <2>2. Numbered'  BY <1>0, <1>6, CommitNumbers
  <2>3. ASSUME NEW w \in Writers PROVE lost[w] <= Cardinality(OthersOf(w)')
    <3>1. OthersOf(w) \subseteq OthersOf(w)'  BY <2>1 DEF OthersOf
    <3>2. IsFiniteSet(OthersOf(w)')
      <4>1. OthersOf(w)' \subseteq ledger' /\ IsFiniteSet(ledger')
        BY <2>2 DEF OthersOf, Numbered
      <4> QED  BY <4>1, FS_Subset
    <3>3. /\ Cardinality(OthersOf(w)) <= Cardinality(OthersOf(w)')
          /\ Cardinality(OthersOf(w)') \in Nat
      BY <3>1, <3>2, FS_Subset, FS_CardinalityType
    <3>4. lost[w] \in Nat /\ Cardinality(OthersOf(w)) \in Nat /\ lost[w] <= Cardinality(OthersOf(w))
      BY <1>0, OthersFinite DEF RaceInv
    <3> QED  BY <3>3, <3>4
  <2>4. \A w \in Writers : tx'[w] = "insert" => tx[w] = "insert"  BY <1>0, <2>1
  <2> QED  BY <2>1, <2>2, <2>3, <2>4 DEF RaceInv
<1> QED  BY <1>3, <1>4, <1>5, <1>6 DEF AuditMove

LEMMA LogInductive == Spec => [](ChainInv /\ TruthInv /\ RaceInv)
<1>1. Init => ChainInv /\ TruthInv /\ RaceInv
  <2> SUFFICES ASSUME Init PROVE ChainInv /\ TruthInv /\ RaceInv  OBVIOUS
  <2>1. ledger = {} /\ \A w \in Writers : lost[w] = 0 /\ tx[w] = "open"
    BY DEF Init, AuditInit
  <2>2. Numbered  BY <2>1, FS_EmptySet DEF Numbered
  <2>3. RaceInv
    BY <2>1, <2>2, OthersFinite DEF RaceInv
  <2> QED  BY <2>3 DEF Init, AuditInit, ChainInv, ChainLinked, TruthInv, Rows
<1>2. TypeInv /\ StageInv /\ (ChainInv /\ TruthInv /\ RaceInv) /\ [Next]_vars
        => (ChainInv /\ TruthInv /\ RaceInv)'
  <2> SUFFICES ASSUME TypeInv, StageInv, ChainInv, TruthInv, RaceInv, [Next]_vars
               PROVE  ChainInv' /\ TruthInv' /\ RaceInv'
    OBVIOUS
  <2>1. CASE Next
    BY <2>1, StepIsAuditMove, StepChain, StepTruth, StepRaces DEF Next, Step
  <2>2. CASE UNCHANGED vars
    BY <2>2 DEF vars, auditVars, ChainInv, ChainLinked, Linked, Taken, TruthInv, Rows, Executes,
                Kind, RaceInv, Numbered, OthersOf
  <2> QED  BY <2>1, <2>2
<1> QED  BY <1>1, <1>2, Stages, PTL DEF Spec

(* A writer never loses more races for a number than other writers have    *)
(* entries in the log, whoever retries, rolls back or dies: contention of  *)
(* fewer writers than _MAX_APPEND_ATTEMPTS costs no entry, whatever that   *)
(* bound is.                                                               *)
THEOREM LossesAreCommits == Spec => []RacesLostToCommits
<1>1. RaceInv => RacesLostToCommits
  BY DEF RaceInv, RacesLostToCommits, OthersOf
<1> QED  BY <1>1, LogInductive, PTL

-----------------------------------------------------------------------------
(* The log. The committed rows, in the order of their numbers, are the     *)
(* append-only log of AuditLog: a commit appends, and nothing else touches *)
(* them.                                                                   *)

LogRow == [prev : Writers \cup {GENESIS}, by : Writers, outcome : Outcomes]

LogIsRows ==
  /\ CommittedLog \in Seq(LogRow) /\ Len(CommittedLog) = Cardinality(ledger)
  /\ \A e \in ledger : CommittedLog[e.seq] = LogEntry(e)
  /\ \A n \in 1..Len(CommittedLog) : \E e \in ledger : e.seq = n

LEMMA LogIsSequence == TypeInv /\ ChainInv /\ Numbered => LogIsRows
<1> SUFFICES ASSUME TypeInv, ChainInv, Numbered PROVE LogIsRows  OBVIOUS
<1> DEFINE n == Cardinality(ledger)
<1>1. n \in Nat  BY FS_CardinalityType DEF Numbered
<1>2. /\ \A e \in ledger : e.seq \in 1..n
      /\ \A k \in 1..n : \E e \in ledger : e.seq = k
  BY DEF Numbered, Taken
<1>3. ledger \subseteq Entry /\ \A e, f \in ledger : e.seq = f.seq => e = f
  BY DEF TypeInv, TypeOK, AuditTypeOK, ChainInv, ChainLinked
<1>4. \A k \in 1..n : (CHOOSE e \in ledger : e.seq = k) \in ledger
  BY <1>2
<1>5. \A e \in ledger : (CHOOSE f \in ledger : f.seq = e.seq) = e
  BY <1>3
<1>6. \A e \in ledger : LogEntry(e) \in LogRow
  BY <1>3 DEF LogEntry, LogRow, Entry
<1>7. CommittedLog = [k \in 1..n |-> LogEntry(CHOOSE e \in ledger : e.seq = k)]
  BY DEF CommittedLog
<1> HIDE DEF n
<1>8. CommittedLog \in [1..n -> LogRow]
  BY <1>4, <1>6, <1>7
<1>9. CommittedLog \in Seq(LogRow) /\ Len(CommittedLog) = n
  BY <1>1, <1>8
<1>10. \A e \in ledger : CommittedLog[e.seq] = LogEntry(e)
  BY <1>2, <1>5, <1>7
<1> QED  BY <1>2, <1>9, <1>10 DEF n, LogIsRows

LEMMA CommitAppends ==
  ASSUME TypeInv, StageInv, ChainInv, TruthInv, Numbered, TypeInv', ChainInv', Numbered',
         NEW r \in Writers, CommitTx(r)
  PROVE  Log!Next
<1> DEFINE n == Cardinality(ledger)
<1>1. PICK x \in flushed[r] :
         /\ x \in Entry /\ x \notin ledger /\ ledger' = ledger \cup {x}
         /\ x.seq = n + 1 /\ Linked(x.seq, x.prev)
  BY CommitIsNext
<1>2. /\ n \in Nat /\ Cardinality(ledger') = n + 1
      /\ \A e \in ledger : e.seq \in 1..n
  <2>1. IsFiniteSet(ledger) /\ n \in Nat  BY FS_CardinalityType DEF Numbered
  <2> QED  BY <1>1, <2>1, FS_AddElement DEF Numbered
<1>3. /\ CommittedLog \in Seq(LogRow) /\ Len(CommittedLog) = n
      /\ \A e \in ledger : CommittedLog[e.seq] = LogEntry(e)
      /\ \A k \in 1..n : \E e \in ledger : e.seq = k
  BY LogIsSequence DEF LogIsRows
<1>4. /\ CommittedLog' \in Seq(LogRow) /\ Len(CommittedLog') = n + 1
      /\ \A e \in ledger' : CommittedLog'[e.seq] = LogEntry(e)
  <2>1. (TypeInv /\ ChainInv /\ Numbered)' => LogIsRows'
    BY LogIsSequence, PTL
  <2>2. LogIsRows'  BY <2>1
  <2> QED  BY <1>2, <2>2 DEF LogIsRows, LogRow, LogEntry
<1> HIDE DEF n
<1>5. x.by = r /\ Rows(r) = {}
  BY <1>1 DEF TruthInv, CommitTx
<1>6. CommittedLog' = Append(CommittedLog, LogEntry(x))
  <2> DEFINE longer == Append(CommittedLog, LogEntry(x))
  <2>1. LogEntry(x) \in LogRow
    BY <1>1 DEF LogEntry, LogRow, Entry
  <2>2. longer \in Seq(LogRow) /\ Len(longer) = n + 1
    BY <1>3, <2>1
  <2>3. ASSUME NEW k \in 1..(n + 1) PROVE CommittedLog'[k] = longer[k]
    <3>1. CASE k = n + 1
      <4>1. longer[n + 1] = LogEntry(x)  BY <1>2, <1>3, <2>1
      <4> QED  BY <1>1, <1>4, <3>1, <4>1
    <3>2. CASE k # n + 1
      <4>1. k \in 1..n  BY <1>2, <3>2
      <4>2. longer[k] = CommittedLog[k]  BY <1>2, <1>3, <2>1, <4>1
      <4>3. PICK e \in ledger : e.seq = k  BY <1>3, <4>1
      <4> QED  BY <1>1, <1>3, <1>4, <4>2, <4>3
    <3> QED  BY <3>1, <3>2
  <2> HIDE DEF longer
  <2>4. CommittedLog' = longer
    BY <1>4, <2>2, <2>3
  <2> QED  BY <2>4 DEF longer
<1>7. x.prev = Log!Tip
  <2>1. CASE n = 0
    <3>1. CommittedLog = <<>>  BY <1>3, <2>1
    <3>2. ledger = {}  BY <1>2, <2>1
    <3> QED  BY <1>1, <3>1, <3>2 DEF Log!Tip, Linked
  <2>2. CASE n # 0
    <3>1. CommittedLog # <<>>  BY <1>3, <2>2
    <3>2. PICK f \in ledger : f.seq + 1 = x.seq /\ x.prev = f.by
      BY <1>1, <1>2, <2>2 DEF Linked
    <3>3. f.seq = n
      <4>1. f.seq \in 1..n  BY <1>2
      <4> QED  BY <1>1, <1>2, <3>2, <4>1
    <3>4. CommittedLog[Len(CommittedLog)] = LogEntry(f)  BY <1>3, <3>3
    <3>5. LogEntry(f).by = f.by  BY DEF LogEntry
    <3>6. Log!Tip = LogEntry(f).by  BY <3>1, <3>4 DEF Log!Tip
    <3> QED  BY <3>2, <3>5, <3>6
  <2> QED  BY <2>1, <2>2
<1>8. \A k \in 1..Len(CommittedLog) : CommittedLog[k].by # r
  <2> SUFFICES ASSUME NEW k \in 1..n PROVE CommittedLog[k].by # r
    BY <1>3
  <2>1. PICK e \in ledger : e.seq = k  BY <1>3
  <2>2. CommittedLog[k] = LogEntry(e)  BY <1>3, <2>1
  <2>3. LogEntry(e).by = e.by  BY DEF LogEntry
  <2> QED  BY <1>5, <2>2, <2>3 DEF Rows
<1>9. LogEntry(x) = [prev |-> Log!Tip, by |-> r, outcome |-> x.outcome] /\ x.outcome \in Outcomes
  BY <1>1, <1>5, <1>7 DEF LogEntry, Entry
<1> QED  BY <1>6, <1>8, <1>9 DEF Log!Next, Log!Record

(* Only a commit changes the committed rows.                               *)
LEMMA StepOfLog ==
  ASSUME TypeInv, StageInv, ChainInv, TruthInv, RaceInv, TypeInv', ChainInv', RaceInv', [Next]_vars
  PROVE  [Log!Next]_CommittedLog
<1>1. ledger' = ledger => [Log!Next]_CommittedLog
  BY DEF CommittedLog, LogEntry
<1>2. CASE Next
  <2>1. PICK r \in Writers : AuditMove(r)
    BY <1>2, StepIsAuditMove DEF Next, Step
  <2>2. CASE CommitTx(r)
    BY <2>2, CommitAppends DEF RaceInv
  <2>3. CASE ~CommitTx(r)
    BY <1>1, <2>1, <2>3
    DEF AuditMove, auditVars, Begin, AddCommits, ReadHead, LoseRace, RollbackTx, Insert
  <2> QED  BY <2>2, <2>3
<1>3. CASE UNCHANGED vars
  BY <1>1, <1>3 DEF vars, auditVars
<1> QED  BY <1>2, <1>3

(* The racing transactions implement the append-only log of AuditLog:      *)
(* every step of the system appends one linked entry at its end or leaves  *)
(* it as it is, for any number of requests, retries, rollbacks and crashes.*)
THEOREM ImplementsAuditLog == Spec => ImplementsLog
<1>1. Init => Log!Init
  <2> SUFFICES ASSUME Init PROVE CommittedLog = <<>>
    BY DEF Log!Init
  <2>1. ledger = {}  BY DEF Init, AuditInit
  <2>2. Cardinality(ledger) = 0  BY <2>1, FS_EmptySet
  <2> QED  BY <2>2 DEF CommittedLog
<1>2. TypeInv /\ StageInv /\ ChainInv /\ TruthInv /\ RaceInv
      /\ TypeInv' /\ ChainInv' /\ RaceInv' /\ [Next]_vars
        => [Log!Next]_CommittedLog
  BY StepOfLog
<1> QED  BY <1>1, <1>2, Stages, LogInductive, PTL DEF Spec, ImplementsLog, Log!Spec
=============================================================================
