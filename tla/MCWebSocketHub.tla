---------------------------- MODULE MCWebSocketHub ----------------------------
(***************************************************************************)
(* An instance of WebSocketHub for TLC. watcher and second are sockets of  *)
(* one user on the global stream; analyst is on an investigation and may   *)
(* stop reading. All are of org A.                                         *)
(***************************************************************************)
EXTENDS WebSocketHub

CONSTANTS watcher, second, analyst, checkpoint, answer, secret, alert, foreign,
          inv, other, A, B

MCUserOf == [c \in Clients |-> IF c = analyst THEN "ann" ELSE "bob"]
MCOrgOf == [c \in Clients |-> A]
MCRouteOf == [c \in Clients |-> IF c = analyst THEN inv ELSE Global]
MCAccess == [c \in Clients |-> {inv}]

Base == [inv |-> inv, org |-> A, critical |-> FALSE, red |-> FALSE, exempt |-> FALSE,
         output |-> FALSE, via |-> "hub", alert |-> None]
MCEventOf ==
  [e \in Events |->
     CASE e = checkpoint -> [Base EXCEPT !.critical = TRUE]
       [] e = answer -> [Base EXCEPT !.output = TRUE]
       [] e = secret -> [Base EXCEPT !.red = TRUE, !.via = "emitter", !.alert = alert]
       [] e = alert -> [Base EXCEPT !.inv = other, !.org = None, !.red = TRUE,
                                    !.exempt = TRUE, !.via = "sink", !.alert = alert]
       [] e = foreign -> [Base EXCEPT !.inv = other, !.org = B, !.critical = TRUE]]

Scenario(cs, es, ns, ch, f) ==
  [clients |-> cs, events |-> es, notifications |-> ns, changes |-> ch, faults |-> f]

(* Backpressure and the two copies; the limit, the tenants and the alert;  *)
(* the failures of Redis, the sockets and the server.                      *)
MCScenarios ==
  { Scenario({watcher, analyst}, {checkpoint, answer}, 0, 1, FALSE),
    Scenario({watcher, second}, {secret, alert, foreign}, 0, 0, FALSE),
    Scenario({watcher}, {checkpoint, answer}, 1, 0, TRUE) }

(* Criticals is SelectSeq written by positions. *)
Sample == {Event(checkpoint, 1), Event(answer, 2), Event(checkpoint, 3), Ack(inv)}
ASSUME CriticalsSelects ==
  \A q \in UNION {[1..n -> Sample] : n \in 0..4} : Criticals(q) = SelectSeq(q, IsCritical)
===============================================================================
