---------------------------- MODULE MCPlaybookGates ----------------------------
(* One execution of a playbook with two gates, of one that edits it while   *)
(* it is paused, and of decisions that overlap.                             *)
EXTENDS PlaybookGates

CONSTANTS a, b, g1, g2

Plain(s) == [id |-> s, gate |-> FALSE]
Gate(s)  == [id |-> s, gate |-> TRUE]

MCSteps == {a, b, g1, g2}

(* The second definition has its gates in the other order, so that a resume *)
(* after g1 skips g2 and one after g2 repeats g1 and b; the third has lost  *)
(* g1, so that a resume after it finds nothing; in the fourth it is a gate  *)
(* no more.                                                                 *)
MCDefinitions ==
  { <<Plain(a), Gate(g1), Plain(b), Gate(g2)>>,
    <<Gate(g2), Gate(g1), Plain(b), Plain(a)>>,
    <<Plain(a), Gate(g2), Plain(b)>>,
    <<Gate(g2), Plain(g1), Plain(b)>> }

Setting(o, e, f) == [overlap |-> o, edits |-> e, faults |-> f]
MCSettings ==
  { Setting(FALSE, 0, FALSE), Setting(TRUE, 0, FALSE),
    Setting(FALSE, 2, TRUE),  Setting(TRUE, 1, TRUE) }
===============================================================================
