------------------------- MODULE ContainmentExecution -------------------------
(***************************************************************************)
(* Approved containment actions, executed and recorded, and the safelist   *)
(* of targets never to touch, which others edit meanwhile. Every request   *)
(* is a writer of the audit trail.                                         *)
(***************************************************************************)
EXTENDS AuditTrail

CONSTANTS
  Targets,      \* addresses, principals, hosts
  Baseline,     \* targets of the safelist that is code
  Listed,       \* org safelist entries at the start
  Asks,         \* what the requests of a behaviour ask for
  None

(* respond: execute_response_action of a screened type. isolate: of a type *)
(* the safelist cannot screen, through an MCP server. block: bulk block.   *)
(* protect, expose: add and remove a safelist entry.                       *)
RequestType ==
  [kind : {"respond", "isolate", "block", "protect", "expose"},
   target : Targets, approved : BOOLEAN]

ASSUME ContainmentAssumption ==
  /\ Baseline \subseteq Targets /\ Listed \subseteq Targets
  /\ Asks \subseteq [Writers -> RequestType]

VARIABLES
  ask,          \* what each request asks for
  safelist,     \* the org's committed safelist entries
  locked,       \* safelist rows inserted or deleted and not committed, by whom
  found,        \* the row a removal has loaded, for as long as it exists
  pc,           \* where a request is
  outcome,      \* what its audit row will say, or None
  effects,      \* ghost: requests whose action reached the connector
  change,       \* whether the change record of a block was linked
  shielded      \* ghost: protected at every moment of the request so far

vars == <<ask, auditVars, safelist, locked, found, pc, outcome, effects, change, shielded>>
workVars == <<effects, change>>

Kind(r) == ask[r].kind
Target(r) == ask[r].target

PcStates == {"new", "screen", "dispatch", "link", "write", "edit", "audit", "sending",
             "answered", "raised"}

Init ==
  /\ AuditInit
  /\ ask \in Asks
  /\ safelist = Listed
  /\ locked = [r \in Writers |-> {}]
  /\ found = [r \in Writers |-> {}]
  /\ pc = [r \in Writers |-> "new"]
  /\ outcome = [r \in Writers |-> None]
  /\ effects = {}
  /\ change = [r \in Writers |-> FALSE]
  /\ shielded = {}

Executes(r) == Kind(r) \in {"respond", "isolate", "block"}
Screened(r) == Kind(r) \in {"respond", "block"}
Protected(t) == t \in Baseline \cup safelist

Goto(r, where) == pc' = [pc EXCEPT ![r] = where]

(* The call of record: the transaction goes on to append. *)
CallRecord(r, what) ==
  /\ outcome' = [outcome EXCEPT ![r] = what]
  /\ Goto(r, "audit")
  /\ tx' = [tx EXCEPT ![r] = "append"]
  /\ UNCHANGED <<ledger, head, flushed, lost>>

(* The request arrives; an unapproved action is denied at once. *)
Approve(r) ==
  /\ pc[r] = "new" /\ Executes(r)
  /\ shielded' = IF Protected(Target(r)) THEN shielded \cup {r} ELSE shielded
  /\ IF ~ask[r].approved THEN CallRecord(r, "denied")
     ELSE /\ Goto(r, IF Screened(r) THEN "screen" ELSE "dispatch")
          /\ UNCHANGED <<auditVars, outcome>>
  /\ UNCHANGED <<ask, safelist, locked, found, workVars>>

(* load_policy, then the screen. *)
ScreenOrgOnly(r) ==
  /\ pc[r] = "screen"
  /\ IF Target(r) \in safelist THEN CallRecord(r, "denied")
     ELSE Goto(r, "dispatch") /\ UNCHANGED <<auditVars, outcome>>
  /\ UNCHANGED <<ask, safelist, locked, found, workVars, shielded>>

Screen(r) ==
  /\ pc[r] = "screen"
  /\ IF Protected(Target(r)) THEN CallRecord(r, "denied")
     ELSE Goto(r, "dispatch") /\ UNCHANGED <<auditVars, outcome>>
  /\ UNCHANGED <<ask, safelist, locked, found, workVars, shielded>>

OutcomeFor(status) == IF status = "success" THEN status ELSE "failure"

(* The connector acts, and answers with a status of its own. *)
Dispatch(r) ==
  /\ pc[r] = "dispatch"
  /\ effects' = effects \cup {r}
  /\ \E status \in {"success", "error"} :
       IF Kind(r) = "block"
       THEN /\ outcome' = [outcome EXCEPT ![r] = OutcomeFor(status)]
            /\ Goto(r, "link") /\ UNCHANGED auditVars
       ELSE CallRecord(r, OutcomeFor(status))
  /\ UNCHANGED <<ask, safelist, locked, found, change, shielded>>

(* LiveDispatchDisabled, or the manifest policy of the MCP server refuses. *)
DispatchRefused(r) ==
  /\ pc[r] = "dispatch"
  /\ CallRecord(r, "denied")
  /\ UNCHANGED <<ask, safelist, locked, found, workVars, shielded>>

(* _attach_change_record never raises: the link is best effort. *)
AttachChangeRecord(r) ==
  /\ pc[r] = "link"
  /\ \E linked \in BOOLEAN : change' = [change EXCEPT ![r] = linked]
  /\ CallRecord(r, outcome[r])
  /\ UNCHANGED <<ask, safelist, locked, found, effects, shielded>>

-----------------------------------------------------------------------------
(* Edits of the safelist. A row that another transaction holds makes the   *)
(* statement wait for that transaction.                                    *)

Free(r) == \A q \in Writers \ {r} : Target(r) \notin locked[q]

(* An entry that exists already is returned as it is. *)
AddEntry(r) ==
  /\ pc[r] = "new" /\ Kind(r) = "protect"
  /\ Goto(r, IF Target(r) \in safelist THEN "edit" ELSE "write")
  /\ UNCHANGED <<ask, auditVars, safelist, locked, found, outcome, workVars, shielded>>

InsertEntry(r) ==
  /\ pc[r] = "write" /\ Kind(r) = "protect" /\ Free(r) /\ Target(r) \notin safelist
  /\ locked' = [locked EXCEPT ![r] = {Target(r)}]
  /\ Goto(r, "edit")
  /\ UNCHANGED <<ask, auditVars, safelist, found, outcome, workVars, shielded>>

(* UNIQUE(org_id, entry_type, value): somebody else has added it meanwhile. *)
InsertEntryFails(r) ==
  /\ pc[r] = "write" /\ Kind(r) = "protect" /\ Target(r) \in safelist
  /\ Goto(r, "raised")
  /\ RollbackTx(r)
  /\ UNCHANGED <<ask, safelist, locked, found, outcome, workVars, shielded>>

AddEntryCommits(r) ==
  /\ pc[r] = "edit"
  /\ safelist' = safelist \cup locked[r]
  /\ locked' = [locked EXCEPT ![r] = {}]
  /\ tx' = [tx EXCEPT ![r] = "committed"]
  /\ Goto(r, "sending")
  /\ UNCHANGED <<ask, ledger, head, flushed, lost, found, outcome, workVars, shielded>>

(* Only rows of the org are found: the baseline is not data. *)
RemoveEntry(r) ==
  /\ pc[r] = "new" /\ Kind(r) = "expose" /\ Target(r) \in safelist
  /\ found' = [found EXCEPT ![r] = {Target(r)}]
  /\ Goto(r, "write")
  /\ UNCHANGED <<ask, auditVars, safelist, locked, outcome, workVars, shielded>>

EntryNotFound(r) ==
  /\ pc[r] = "new" /\ Kind(r) = "expose" /\ Target(r) \notin safelist
  /\ Goto(r, "raised")
  /\ RollbackTx(r)
  /\ UNCHANGED <<ask, safelist, locked, found, outcome, workVars, shielded>>

(* The row found is deleted. One that another removal has deleted meanwhile *)
(* is not missed: the DELETE matches nothing, and is recorded all the same. *)
DeleteEntry(r) ==
  /\ pc[r] = "write" /\ Kind(r) = "expose" /\ Free(r)
  /\ locked' = [locked EXCEPT ![r] = found[r]]
  /\ CallRecord(r, "success")
  /\ UNCHANGED <<ask, safelist, found, workVars, shielded>>

-----------------------------------------------------------------------------
(* The append, and the end of the request.                                 *)

RecordStep(r) ==
  /\ pc[r] = "audit"
  /\ ReadHead(r) \/ Insert(r, outcome[r]) \/ LoseRace(r)
  /\ IF tx'[r] = "rolled_back"
     THEN Goto(r, "raised") /\ locked' = [locked EXCEPT ![r] = {}]
     ELSE UNCHANGED <<pc, locked>>
  /\ UNCHANGED <<ask, safelist, found, outcome, workVars, shielded>>

(* The commit a 2xx waits for: the safelist route's own, or the one of     *)
(* CommitBeforeResponse.                                                   *)
CommitBeforeAnswer(r) ==
  /\ pc[r] = "audit" /\ outcome[r] # "denied"
  /\ CommitTx(r)
  /\ Goto(r, "sending")
  /\ safelist' = safelist \ locked[r]
  /\ locked' = [locked EXCEPT ![r] = {}]
  /\ found' = [q \in Writers |-> found[q] \ locked[r]]
  /\ shielded' = {q \in shielded : Target(q) \in Baseline \cup safelist'}
  /\ UNCHANGED <<ask, outcome, workVars>>

Answer(r) ==
  /\ pc[r] = "sending"
  /\ Goto(r, "answered")
  /\ UNCHANGED <<ask, auditVars, safelist, locked, found, outcome, workVars, shielded>>

(* The send fails, or the process dies before it: what was committed       *)
(* stays, and the client has no answer.                                    *)
AnswerFails(r) ==
  /\ pc[r] = "sending"
  /\ Goto(r, "raised")
  /\ UNCHANGED <<ask, auditVars, safelist, locked, found, outcome, workVars, shielded>>

(* A 403 is not committed before it is sent: the session's teardown does   *)
(* that afterwards, or fails to.                                           *)
Refuse(r) ==
  /\ pc[r] = "audit" /\ outcome[r] = "denied" /\ tx[r] = "flushed"
  /\ Goto(r, "answered")
  /\ UNCHANGED <<ask, auditVars, safelist, locked, found, outcome, workVars, shielded>>

Teardown(r) ==
  /\ pc[r] = "answered" /\ CommitTx(r)
  /\ UNCHANGED <<ask, safelist, locked, found, pc, outcome, workVars, shielded>>

TeardownFails(r) ==
  /\ pc[r] = "answered" /\ RollbackTx(r)
  /\ UNCHANGED <<ask, safelist, locked, found, pc, outcome, workVars, shielded>>

(* The connector or the database raises, or the process dies, before the   *)
(* commit: the request is answered with an error or not at all, and        *)
(* nothing it wrote remains.                                               *)
(* The connector may have acted.                                           *)
Raise(r) ==
  /\ pc[r] \notin {"new", "sending", "answered", "raised"}
  /\ RollbackTx(r)
  /\ Goto(r, "raised")
  /\ locked' = [locked EXCEPT ![r] = {}]
  /\ effects' \in {effects, effects \cup {q \in {r} : pc[q] = "dispatch"}}
  /\ UNCHANGED <<ask, safelist, found, outcome, change, shielded>>

-----------------------------------------------------------------------------
Arrive(r) == Approve(r) \/ AddEntry(r) \/ RemoveEntry(r) \/ EntryNotFound(r)
Work(r) ==
  \/ Screen(r) \/ Dispatch(r) \/ DispatchRefused(r) \/ AttachChangeRecord(r)
  \/ InsertEntry(r) \/ InsertEntryFails(r) \/ AddEntryCommits(r) \/ DeleteEntry(r)
  \/ RecordStep(r) \/ CommitBeforeAnswer(r) \/ Answer(r) \/ Refuse(r) \/ Teardown(r)
Fail(r) == Raise(r) \/ AnswerFails(r) \/ TeardownFails(r)

Next == \E r \in Writers : Arrive(r) \/ Work(r) \/ Fail(r)

Spec == Init /\ [][Next]_vars

(* An accepted request goes on; nobody is obliged to make one. *)
FairSpec == Spec /\ \A r \in Writers : WF_vars(Work(r))

-----------------------------------------------------------------------------
(* Types of all variables. *)
TypeOK ==
  /\ AuditTypeOK
  /\ ask \in [Writers -> RequestType]
  /\ safelist \subseteq Targets
  /\ locked \in [Writers -> SUBSET Targets]
  /\ found \in [Writers -> SUBSET Targets]
  /\ pc \in [Writers -> PcStates]
  /\ outcome \in [Writers -> Outcomes \cup {None}]
  /\ effects \subseteq Writers
  /\ change \in [Writers -> BOOLEAN]
  /\ shielded \subseteq Writers

Rows(r) == {e \in ledger : e.by = r}

(* A request whose transaction was committed, and so one that was answered *)
(* with success, has exactly one row, through every race and retry, and    *)
(* the row tells the truth: denied if and only if the connector was not    *)
(* reached.  One whose transaction was not committed has none, although    *)
(* its connector may have acted: it is not answered with success.  A row   *)
(* may belong to a request whose answer was never sent, and a refusal is   *)
(* answered before its row is committed, or lost.                          *)
AnsweredIsAudited ==
  \A r \in Writers :
    /\ tx[r] # "committed" => Rows(r) = {}
    /\ (/\ Kind(r) # "protect"
        /\ tx[r] = "committed" \/ (pc[r] = "answered" /\ outcome[r] # "denied")) =>
         \E e \in ledger :
           /\ Rows(r) = {e}
           /\ Executes(r) => (e.outcome = "denied" <=> r \notin effects)

(* A target that was protected from the moment a screened request arrived  *)
(* until its dispatch is not acted on, whatever is added or removed        *)
(* meanwhile, and the baseline cannot be removed at all.                   *)
ProtectedUntouched ==
  [][\A r \in Writers : Screened(r) /\ r \in effects' \ effects => r \notin shielded]_vars

(* Every request that is made is answered or fails, and its transaction    *)
(* ends: nobody waits for ever for a number or a row that another holds.   *)
EveryRequestEnds ==
  \A r \in Writers : pc[r] # "new" ~> pc[r] \in {"answered", "raised"} /\ Ended(r)
===============================================================================
