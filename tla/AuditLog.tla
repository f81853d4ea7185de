------------------------------- MODULE AuditLog -------------------------------
(***************************************************************************)
(* What the audit log promises to those who read it, with no mention of    *)
(* transactions, sequence numbers or retries: it only grows, by one entry  *)
(* at a time at its end, each entry carries the hash of the one before it, *)
(* and no request appends more than one. The hash of an entry is modelled  *)
(* by the request that wrote it.                                           *)
(***************************************************************************)
EXTENDS Naturals, Sequences

CONSTANTS Writers, Outcomes, GENESIS

VARIABLE log

Init == log = <<>>

Tip == IF log = <<>> THEN GENESIS ELSE log[Len(log)].by

Record(w, o) ==
  /\ \A i \in 1..Len(log) : log[i].by # w
  /\ log' = Append(log, [prev |-> Tip, by |-> w, outcome |-> o])

Next == \E w \in Writers, o \in Outcomes : Record(w, o)

Spec == Init /\ [][Next]_log
===============================================================================
