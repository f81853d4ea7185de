---------------------------- MODULE PlaybookGates ----------------------------
(***************************************************************************)
(* One execution of a playbook: the row, the background walks that run its *)
(* steps up to the next HITL gate, and the human decisions that resume it. *)
(*                                                                         *)
(* Every walk is a task of its own with its own copy of the step results,  *)
(* and writes all of them each time. A decision is a request that loads    *)
(* the row, writes it back, and starts the next walk from the playbook as  *)
(* it is stored by then.                                                   *)
(***************************************************************************)
EXTENDS Naturals, Sequences, FiniteSets

CONSTANTS
  Steps,        \* step ids
  Definitions,  \* the definitions the playbook may be given
  Walks,        \* background tasks
  Decisions,    \* requests to the decision route
  Settings,     \* what a behaviour's environment may do
  None

(* A definition runs from top to bottom; no id occurs twice. *)
Step == [id : Steps, gate : BOOLEAN]

ASSUME PlaybookAssumption ==
  /\ Definitions \subseteq Seq(Step)
  /\ \A d \in Definitions : \A j, k \in DOMAIN d : d[j].id = d[k].id => j = k
  /\ Settings \subseteq [overlap : BOOLEAN, edits : Nat, faults : BOOLEAN]
  /\ None \notin Steps

RunStatuses == {"none", "running", "paused_hitl", "completed", "failed"}
StepStatuses == {"none", "running", "awaiting", "completed", "rejected"}
Results == [Steps -> StepStatuses]
WalkType == [pc : {"unused", "begin", "step", "ended", "lost"}, def : Definitions \cup {<<>>},
             pending : Seq(Step), results : Results]
DecisionType == [pc : {"new", "loaded", "written", "answered", "refused", "lost"},
                 gate : Steps \cup {None}, approved : BOOLEAN, results : Results]

VARIABLES
  setting,      \* whether decisions overlap, how many edits, whether things fail
  edited,       \* edits made so far
  crashed,
  yaml,         \* playbooks.yaml_content
  status,       \* playbook_executions.status
  steps,        \* playbook_executions.step_results
  walk,         \* the background tasks
  decision,     \* the decision requests
  approved      \* ghost: gates an approval was stored for

vars == <<setting, edited, crashed, yaml, status, steps, walk, decision, approved>>

NoResults == [s \in Steps |-> "none"]

Init ==
  /\ setting \in Settings /\ edited = 0 /\ crashed = FALSE
  /\ yaml \in Definitions
  /\ status = "none"
  /\ steps = NoResults
  /\ walk = [w \in Walks |-> [pc |-> "unused", def |-> <<>>, pending |-> <<>>,
                              results |-> NoResults]]
  /\ decision = [d \in Decisions |-> [pc |-> "new", gate |-> None, approved |-> FALSE,
                                      results |-> NoResults]]
  /\ approved = {}

-----------------------------------------------------------------------------
(* What may run next. *)

PositionOf(def, id) == CHOOSE k \in DOMAIN def : def[k].id = id
Names(def) == {def[k].id : k \in DOMAIN def}

After(def, id) ==
  IF id = None THEN def ELSE SubSeq(def, PositionOf(def, id) + 1, Len(def))

(* The steps after resume_after, up to and including the next gate. *)
StepsUntilGate(def, id) ==
  LET rest == After(def, id)
      gates == {k \in DOMAIN rest : rest[k].gate}
  IN IF gates = {} THEN rest
     ELSE SubSeq(rest, 1, CHOOSE k \in gates : \A j \in gates : k <= j)

(* A task is created for the next walk; one that cannot find the step it   *)
(* is to resume after returns at once and leaves the row running.          *)
Unused == {w \in Walks : walk[w].pc = "unused"}

Spawn(def, id, results) ==
  LET w == CHOOSE x \in Unused : TRUE
  IN /\ Unused # {}
     /\ walk' = [walk EXCEPT ![w] =
          IF id = None \/ id \in Names(def)
          THEN [pc |-> "begin", def |-> def, pending |-> StepsUntilGate(def, id),
                results |-> results]
          ELSE [@ EXCEPT !.pc = "lost"]]

(* The row is committed as running, then the task is created. *)
ExecutePlaybook ==
  /\ status = "none"
  /\ status' = "running"
  /\ Spawn(yaml, None, NoResults)
  /\ UNCHANGED <<setting, edited, crashed, yaml, steps, decision, approved>>

-----------------------------------------------------------------------------
(* A walk. Every write is a statement and a session of its own, and looks  *)
(* at nothing that is in the row.                                          *)

Live(w) == walk[w].pc \in {"begin", "step"}

Upcoming(w) == Head(walk[w].pending)
Resulted(w, outcome) == [walk[w].results EXCEPT ![Upcoming(w).id] = outcome]

BeginStep(w) ==
  /\ walk[w].pc = "begin" /\ walk[w].pending # <<>> /\ ~Upcoming(w).gate
  /\ walk' = [walk EXCEPT ![w].pc = "step", ![w].results = Resulted(w, "running")]
  /\ steps' = Resulted(w, "running")
  /\ UNCHANGED <<setting, edited, crashed, yaml, status, decision, approved>>

FinishStep(w) ==
  /\ walk[w].pc = "step"
  /\ walk' = [walk EXCEPT ![w].pc = "begin", ![w].pending = Tail(@),
                          ![w].results = Resulted(w, "completed")]
  /\ steps' = Resulted(w, "completed")
  /\ UNCHANGED <<setting, edited, crashed, yaml, status, decision, approved>>

Pause(w) ==
  /\ walk[w].pc = "begin" /\ walk[w].pending # <<>> /\ Upcoming(w).gate
  /\ walk' = [walk EXCEPT ![w].pc = "ended", ![w].results = Resulted(w, "awaiting")]
  /\ steps' = Resulted(w, "awaiting")
  /\ status' = "paused_hitl"
  /\ UNCHANGED <<setting, edited, crashed, yaml, decision, approved>>

CompleteSilently(w) ==
  /\ walk[w].pc = "begin" /\ walk[w].pending = <<>>
  /\ walk' = [walk EXCEPT ![w].pc = "ended"]
  /\ UNCHANGED <<setting, edited, crashed, yaml, status, steps, decision, approved>>
Complete(w) ==
  /\ walk[w].pc = "begin" /\ walk[w].pending = <<>>
  /\ walk' = [walk EXCEPT ![w].pc = "ended"]
  /\ status' = "completed"
  /\ UNCHANGED <<setting, edited, crashed, yaml, steps, decision, approved>>

(* A write raises. Nothing catches it: the task is over, nobody awaits it,  *)
(* and the row is as the write before has left it.                         *)
WalkRaises(w) ==
  /\ setting.faults /\ Live(w)
  /\ walk' = [walk EXCEPT ![w].pc = "lost"]
  /\ UNCHANGED <<setting, edited, crashed, yaml, status, steps, decision, approved>>

-----------------------------------------------------------------------------
(* A decision. *)

Busy(d) == decision[d].pc \in {"loaded", "written"}
MayDecide == setting.overlap \/ ~\E d \in Decisions : Busy(d)

(* resolve_hitl_gate up to its first await: the run must be paused and a   *)
(* step be marked; else 409.                                               *)
Marked == {s \in Steps : steps[s] = "awaiting"}
Answerable == status = "paused_hitl" /\ Marked # {}

Load(d) ==
  /\ decision[d].pc = "new" /\ status # "none" /\ MayDecide
  /\ IF Answerable
     THEN \E gate \in Marked, ok \in BOOLEAN :
            decision' = [decision EXCEPT ![d] =
              [pc |-> "loaded", gate |-> gate, approved |-> ok, results |-> steps]]
     ELSE decision' = [decision EXCEPT ![d].pc = "refused"]
  /\ UNCHANGED <<setting, edited, crashed, yaml, status, steps, walk, approved>>

Decided(d) ==
  [decision[d].results EXCEPT
     ![decision[d].gate] = IF decision[d].approved THEN "completed" ELSE "rejected"]

WriteStaysPaused(d) ==
  /\ decision[d].pc = "loaded"
  /\ steps' = Decided(d)
  /\ status' = IF decision[d].approved THEN "paused_hitl" ELSE "failed"
  /\ approved' = IF decision[d].approved THEN approved \cup {decision[d].gate} ELSE approved
  /\ decision' = [decision EXCEPT ![d].pc = IF decision[d].approved THEN "written" ELSE "answered"]
  /\ UNCHANGED <<setting, edited, crashed, yaml, walk>>
WriteRejectionResumes(d) ==
  /\ decision[d].pc = "loaded"
  /\ steps' = Decided(d)
  /\ status' = IF decision[d].approved THEN "running" ELSE "failed"
  /\ approved' = IF decision[d].approved THEN approved \cup {decision[d].gate} ELSE approved
  /\ decision' = [decision EXCEPT ![d].pc = "written"]
  /\ UNCHANGED <<setting, edited, crashed, yaml, walk>>

(* The commit writes status and results, whatever the row holds by now. *)
Write(d) ==
  /\ decision[d].pc = "loaded"
  /\ steps' = Decided(d)
  /\ status' = IF decision[d].approved THEN "running" ELSE "failed"
  /\ approved' = IF decision[d].approved THEN approved \cup {decision[d].gate} ELSE approved
  /\ decision' = [decision EXCEPT ![d].pc = IF decision[d].approved THEN "written" ELSE "answered"]
  /\ UNCHANGED <<setting, edited, crashed, yaml, walk>>

ResumeAfresh(d) ==
  /\ decision[d].pc = "written"
  /\ Spawn(yaml, decision[d].gate, NoResults)
  /\ decision' = [decision EXCEPT ![d].pc = "answered"]
  /\ UNCHANGED <<setting, edited, crashed, yaml, status, steps, approved>>

(* The playbook is loaded again, and a task walks on from the gate. *)
Resume(d) ==
  /\ decision[d].pc = "written"
  /\ Spawn(yaml, decision[d].gate, Decided(d))
  /\ decision' = [decision EXCEPT ![d].pc = "answered"]
  /\ UNCHANGED <<setting, edited, crashed, yaml, status, steps, approved>>

(* The commit raises, and the row is as it was; or what comes after it does *)
(* (the refresh, the loading of a playbook that may be gone by now), and no *)
(* walk is started.                                                        *)
DecisionRaises(d) ==
  /\ setting.faults /\ Busy(d)
  /\ decision' = [decision EXCEPT
       ![d].pc = IF decision[d].pc = "written" THEN "lost" ELSE "refused"]
  /\ UNCHANGED <<setting, edited, crashed, yaml, status, steps, walk, approved>>

-----------------------------------------------------------------------------
(* update_playbook, while an execution runs or waits. *)
UpdatePlaybook ==
  /\ edited < setting.edits
  /\ edited' = edited + 1
  /\ yaml' \in Definitions \ {yaml}
  /\ UNCHANGED <<setting, crashed, status, steps, walk, decision, approved>>

(* Tasks and requests die with the process; nothing restarts a walk. *)
Crash ==
  /\ setting.faults /\ ~crashed
  /\ crashed' = TRUE
  /\ walk' = [w \in Walks |-> IF Live(w) THEN [walk[w] EXCEPT !.pc = "lost"] ELSE walk[w]]
  /\ decision' = [d \in Decisions |->
       CASE decision[d].pc = "written" -> [decision[d] EXCEPT !.pc = "lost"]
         [] decision[d].pc = "loaded"  -> [decision[d] EXCEPT !.pc = "refused"]
         [] OTHER                      -> decision[d]]
  /\ UNCHANGED <<setting, edited, yaml, status, steps, approved>>

Walking(w) == BeginStep(w) \/ FinishStep(w) \/ Pause(w) \/ Complete(w)

Next ==
  \/ ExecutePlaybook \/ UpdatePlaybook \/ Crash
  \/ \E w \in Walks : Walking(w) \/ WalkRaises(w)
  \/ \E d \in Decisions : Load(d) \/ Write(d) \/ Resume(d) \/ DecisionRaises(d)

Spec == Init /\ [][Next]_vars

(* Tasks and accepted requests go on; nobody is obliged to decide. *)
FairSpec ==
  /\ Spec
  /\ \A w \in Walks : WF_vars(Walking(w))
  /\ \A d \in Decisions : WF_vars(Write(d) \/ Resume(d))

-----------------------------------------------------------------------------
(* Types of the row, the definition, the walks and the requests: the status *)
(* is one of the five that PlaybookStatus and its readers know.             *)
TypeOK ==
  /\ setting \in Settings /\ edited \in 0..setting.edits /\ crashed \in BOOLEAN
  /\ yaml \in Definitions
  /\ status \in RunStatuses /\ steps \in Results
  /\ walk \in [Walks -> WalkType]
  /\ decision \in [Decisions -> DecisionType]
  /\ approved \subseteq Steps

Serial == ~setting.overlap

GatesBefore(def, k) == {j \in 1..(k - 1) : def[j].gate}

(* No gate between step k and an approved one in front of it, or the top. *)
Released(def, k) ==
  \E j \in 0..(k - 1) :
    /\ j = 0 \/ def[j].id \in approved
    /\ GatesBefore(def, k) \subseteq 1..j

(* steps_until_gate: no step runs unless the way to it from the last step a  *)
(* human has approved, or from the top, is free of gates, through overlapping *)
(* decisions, edits of the playbook while the run is paused, lost walks and  *)
(* requests, and a crash;                                                    *)
(* and unless every gate in front of it has been approved, when the playbook *)
(* was not edited (a gate that an edit inserts in front of the one being     *)
(* decided is skipped, and the decided one may be a gate no more).           *)
GateHolds ==
  \A w \in Walks : walk[w].pc = "step" =>
    LET def == walk[w].def
        here == PositionOf(def, Upcoming(w).id)
    IN /\ Released(def, here)
       /\ edited = 0 => \A k \in GatesBefore(def, here) : def[k].id \in approved

(* resolve_hitl_gate: decisions made one after the other never resume a run *)
(* twice: there is one walk, and none while the run waits for a decision or *)
(* has ended.                                                               *)
ResumedOnce ==
  Serial =>
    /\ Cardinality({w \in Walks : Live(w)}) <= 1
    /\ \A w \in Walks : Live(w) => status = "running"

(* A walk carries on from the results it was given: while nobody edits the  *)
(* playbook, a completed step stays completed and an approved gate open.    *)
WorkKept ==
  [][Serial /\ edited = 0 =>
       \A s \in Steps : steps[s] = "completed" => steps'[s] = "completed"]_vars

(* Nobody has the run in hand, and somebody who had it was lost: a walk or  *)
(* an approving request that died with the process, whose write or reload   *)
(* of the row raised, that found the playbook gone, or that was to resume   *)
(* after a step the playbook has no more.                                  *)
Stranded ==
  /\ \A w \in Walks : ~Live(w)
  /\ \A d \in Decisions : ~Busy(d)
  /\ (\E w \in Walks : walk[w].pc = "lost") \/ (\E d \in Decisions : decision[d].pc = "lost")

(* _run_execution_stub, resolve_hitl_gate: a run comes to rest even when    *)
(* decisions overlap and the playbook is edited. It stays running only when *)
(* the walk or the request that should have written it was lost; nothing    *)
(* restarts a walk then.                                                   *)
ComesToRest == (status = "running") ~> (status # "running" \/ Stranded)
===============================================================================
