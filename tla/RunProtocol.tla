---------------------------- MODULE RunProtocol ----------------------------
(***************************************************************************)
(* What a workflow run promises to the people who launch and approve it,   *)
(* with no mention of rows, processes or graph walks: side effects happen  *)
(* only while one executor holds the run, each step's at most once, none   *)
(* while the run waits for a human and none after it is over.              *)
(***************************************************************************)
EXTENDS Naturals

CONSTANT Steps

VARIABLES
  phase,    \* "new", "held", "waiting" or "over"
  effects   \* effects[s]: how often the side effect of step s has happened

vars == <<phase, effects>>

TypeOK == phase \in {"new", "held", "waiting", "over"} /\ effects \in [Steps -> 0..1]

Init == phase = "new" /\ effects = [s \in Steps |-> 0]

Launch == phase = "new" /\ phase' = "held" /\ UNCHANGED effects

Effect(s) ==
  /\ phase = "held"
  /\ effects[s] = 0
  /\ effects' = [effects EXCEPT ![s] = 1]
  /\ UNCHANGED phase

AskHuman == phase = "held" /\ phase' = "waiting" /\ UNCHANGED effects

Approve == phase = "waiting" /\ phase' = "held" /\ UNCHANGED effects

Conclude == phase = "held" /\ phase' = "over" /\ UNCHANGED effects

Next == Launch \/ (\E s \in Steps : Effect(s)) \/ AskHuman \/ Approve \/ Conclude

Spec == Init /\ [][Next]_vars
=============================================================================
