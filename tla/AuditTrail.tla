------------------------------ MODULE AuditTrail ------------------------------
(***************************************************************************)
(* The hash-chained audit log and the transactions that append to it.      *)
(*                                                                         *)
(* A writer is a request with a database transaction of its own (READ      *)
(* COMMITTED): it sees committed rows only, and an INSERT whose seq is     *)
(* taken by a row of an open transaction waits for that transaction to     *)
(* end. Each writer appends one entry. A hash stands for the entry it is   *)
(* the hash of, and prev_hash is modelled by the writer of that entry.     *)
(***************************************************************************)
EXTENDS Naturals, FiniteSets

CONSTANTS
  Writers,               \* requests that append an entry
  MAX_APPEND_ATTEMPTS,   \* _MAX_APPEND_ATTEMPTS
  GENESIS                \* the prev_hash of the first entry

ASSUME AuditAssumption ==
  /\ MAX_APPEND_ATTEMPTS \in Nat \ {0}
  /\ GENESIS \notin Writers

Outcomes == {"success", "failure", "denied"}
Entry == [seq : Nat, prev : Writers \cup {GENESIS}, by : Writers, outcome : Outcomes]

VARIABLES
  ledger,    \* the committed rows of audit_logs
  tx,        \* where a writer's transaction is
  head,      \* what a writer read of the head of the chain
  flushed,   \* the rows a writer has inserted and not committed
  lost       \* races a writer has lost for a seq

auditVars == <<ledger, tx, head, flushed, lost>>

TxStates == {"open", "append", "insert", "flushed", "committed", "rolled_back"}
NoHead == [seq |-> 0, prev |-> GENESIS]

AuditInit ==
  /\ ledger = {}
  /\ tx = [w \in Writers |-> "open"]
  /\ head = [w \in Writers |-> NoHead]
  /\ flushed = [w \in Writers |-> {}]
  /\ lost = [w \in Writers |-> 0]

Ended(w) == tx[w] \in {"committed", "rolled_back"}

IsLast(e) == \A f \in ledger : f.seq <= e.seq

(* _next_seq_and_prev_hash: the step that races. *)
NextSeqAndPrevHash ==
  IF ledger = {} THEN [seq |-> 1, prev |-> GENESIS]
  ELSE LET last == CHOOSE e \in ledger : IsLast(e)
       IN [seq |-> last.seq + 1, prev |-> last.by]

ReadHeadSeqOnly(w) ==
  /\ tx[w] = "append"
  /\ head' = [head EXCEPT ![w] = IF lost[w] = 0 THEN NextSeqAndPrevHash
                                 ELSE [@ EXCEPT !.seq = NextSeqAndPrevHash.seq]]
  /\ tx' = [tx EXCEPT ![w] = "insert"]
  /\ UNCHANGED <<ledger, flushed, lost>>
ReadHeadOnce(w) ==
  /\ tx[w] = "append"
  /\ head' = [head EXCEPT ![w] = IF lost[w] = 0 THEN NextSeqAndPrevHash ELSE @]
  /\ tx' = [tx EXCEPT ![w] = "insert"]
  /\ UNCHANGED <<ledger, flushed, lost>>

(* Every attempt reads the head again. *)
ReadHead(w) ==
  /\ tx[w] = "append"
  /\ head' = [head EXCEPT ![w] = NextSeqAndPrevHash]
  /\ tx' = [tx EXCEPT ![w] = "insert"]
  /\ UNCHANGED <<ledger, flushed, lost>>

Taken(seq) == \E e \in ledger : e.seq = seq
HeldByAnother(w, seq) ==
  \E v \in Writers \ {w} : \E e \in flushed[v] : e.seq = seq

(* UNIQUE(seq): the insert waits for a transaction that holds the number,  *)
(* and goes through when nobody has committed it.                          *)
Insert(w, outcome) ==
  /\ tx[w] = "insert"
  /\ ~HeldByAnother(w, head[w].seq) /\ ~Taken(head[w].seq)
  /\ flushed' = [flushed EXCEPT ![w] = {[seq |-> head[w].seq, prev |-> head[w].prev,
                                         by |-> w, outcome |-> outcome]}]
  /\ tx' = [tx EXCEPT ![w] = "flushed"]
  /\ UNCHANGED <<ledger, head, lost>>

(* IntegrityError: the savepoint undoes the insert alone, and record tries *)
(* again or, after the last attempt, raises to the request.                *)
LoseRaceSilently(w) ==
  /\ tx[w] = "insert" /\ Taken(head[w].seq)
  /\ lost' = [lost EXCEPT ![w] = @ + 1]
  /\ tx' = [tx EXCEPT ![w] = "flushed"]
  /\ UNCHANGED <<ledger, head, flushed>>

LoseRace(w) ==
  /\ tx[w] = "insert" /\ Taken(head[w].seq)
  /\ lost' = [lost EXCEPT ![w] = @ + 1]
  /\ tx' = [tx EXCEPT ![w] = IF lost'[w] < MAX_APPEND_ATTEMPTS THEN "append"
                             ELSE "rolled_back"]
  /\ UNCHANGED <<ledger, head, flushed>>

(* The request's transaction ends after the handler has returned. *)
CommitTx(w) ==
  /\ tx[w] = "flushed"
  /\ ledger' = ledger \cup flushed[w]
  /\ flushed' = [flushed EXCEPT ![w] = {}]
  /\ tx' = [tx EXCEPT ![w] = "committed"]
  /\ UNCHANGED <<head, lost>>

(* The handler raises, the process dies, or the commit fails. *)
RollbackTxKeepsLock(w) ==
  /\ ~Ended(w)
  /\ tx' = [tx EXCEPT ![w] = "rolled_back"]
  /\ UNCHANGED <<ledger, head, flushed, lost>>
RollbackTx(w) ==
  /\ ~Ended(w)
  /\ flushed' = [flushed EXCEPT ![w] = {}]
  /\ tx' = [tx EXCEPT ![w] = "rolled_back"]
  /\ UNCHANGED <<ledger, head, lost>>

-----------------------------------------------------------------------------
(* Types of the log and its writers. *)
AuditTypeOK ==
  /\ ledger \subseteq Entry
  /\ tx \in [Writers -> TxStates]
  /\ head \in [Writers -> [seq : Nat, prev : Writers \cup {GENESIS}]]
  /\ flushed \in [Writers -> SUBSET Entry]
  /\ lost \in [Writers -> Nat]

(* What verify_chain demands, and more: the committed entries are numbered *)
(* without a gap or a fork from 1, and each one carries the hash of the    *)
(* one before it, whoever raced, lost, rolled back or died.                *)
ChainLinked ==
  /\ \A e, f \in ledger : e.seq = f.seq => e = f
  /\ \A e \in ledger :
       \/ e.seq = 1 /\ e.prev = GENESIS
       \/ \E f \in ledger : f.seq + 1 = e.seq /\ e.prev = f.by

(* Every lost race is lost to another entry that was committed: a writer   *)
(* cannot lose more of them than there are, so that contention of fewer    *)
(* writers than _MAX_APPEND_ATTEMPTS never costs an entry.                 *)
RacesLostToCommits ==
  \A w \in Writers : lost[w] <= Cardinality({e \in ledger : e.by # w})

(* The committed rows in the order of their numbers.                       *)
LogEntry(e) == [prev |-> e.prev, by |-> e.by, outcome |-> e.outcome]
CommittedLog ==
  [n \in 1..Cardinality(ledger) |-> LogEntry(CHOOSE e \in ledger : e.seq = n)]

Log == INSTANCE AuditLog WITH log <- CommittedLog

(* The racing transactions, with their savepoints, retries, rollbacks and  *)
(* crashes, implement the append-only log: rows become visible in the      *)
(* order of their numbers, each at the end of the chain, one for each      *)
(* request, and none is changed, moved or taken back afterwards.           *)
ImplementsLog == Log!Spec
===============================================================================
