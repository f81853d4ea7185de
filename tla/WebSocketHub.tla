---------------------------- MODULE WebSocketHub ----------------------------
(***************************************************************************)
(* The WebSocket hub: connections, subscriptions, the two Redis copies of  *)
(* a published event, the one listener that fans messages out, and each    *)
(* connection's bounded queue and sender.                                  *)
(*                                                                         *)
(* Code between two awaits that can suspend is one action. _enqueue never  *)
(* suspends, and taking a free asyncio lock does not either, so one        *)
(* dispatch is one action; only connect holds the lock across an await     *)
(* (ws.accept), and everybody who needs the lock waits for it.             *)
(***************************************************************************)
EXTENDS Naturals, Sequences, FiniteSets

CONSTANTS
  Clients,               \* sockets, each connecting at most once
  UserOf,                \* the user of a socket
  OrgOf,                 \* org_id recorded on the client, or None
  RouteOf,               \* the investigation of /ws/investigations/{id}, or Global
  Slow,                  \* sockets that may stop reading
  Invs,                  \* investigation ids
  Access,                \* the investigations a socket's user may subscribe to
  Events,                \* envelopes, each published at most once
  EventOf,               \* what the hub reads of an envelope
  Global,                \* the global channel
  LIMIT,                 \* BACKPRESSURE_QUEUE_LIMIT
  MAX_PER_USER,          \* max_connections_per_user
  Scenarios,             \* the sockets and events that meet, the bounds on
                         \* notifications and subscription requests, and
                         \* whether Redis, a socket or the server may fail
  None

Orgs == {OrgOf[c] : c \in Clients} \cup {EventOf[e].org : e \in Events} \cup {None}
Users == {UserOf[c] : c \in Clients}
Channels == Invs \cup {Global}

(* alert: the tlp.violation_attempt event raised when this one is refused. *)
(* exempt: the event is such an alert. via: hub.publish or a RedisEmitter. *)
EventType ==
  [inv : Invs, org : Orgs, critical : BOOLEAN, red : BOOLEAN, exempt : BOOLEAN,
   output : BOOLEAN, via : {"hub", "emitter", "sink"}, alert : Events \cup {None}]

ASSUME HubAssumption ==
  /\ LIMIT \in Nat \ {0} /\ MAX_PER_USER \in Nat \ {0}
  /\ Slow \subseteq Clients
  /\ Access \in [Clients -> SUBSET Invs]
  /\ RouteOf \in [Clients -> Channels]
  /\ EventOf \in [Events -> EventType]
  /\ \A e \in Events : EventOf[e].red => EventOf[e].alert \in Events
  (* The sink makes a new envelope of an exempt type for every refusal. *)
  /\ LET Refused == {e \in Events : EventOf[e].red /\ ~EventOf[e].exempt} IN
     /\ \A e \in Refused : /\ EventOf[EventOf[e].alert].exempt
                           /\ EventOf[EventOf[e].alert].via = "sink"
     /\ \A e, f \in Refused : EventOf[e].alert = EventOf[f].alert => e = f
  /\ Scenarios \subseteq [clients : SUBSET Clients, events : SUBSET Events,
                           notifications : Nat, changes : Nat, faults : BOOLEAN]
  /\ None \notin Clients \cup Events /\ Global \notin Invs
  /\ "notification" \notin Channels

VARIABLES
  hub,          \* the hub and its listener: starting, running, crashed or stopped
  lock,         \* the client whose connect holds _lock, or None
  conn,         \* where the socket of a client is
  subs,         \* client.subscriptions, which mirror _investigation_clients
  queue,        \* client.queue
  sender,       \* whether the sender loop still runs
  received,     \* the events the client was sent
  pub,          \* how far the publication of an event is
  wire,         \* messages Redis holds for the listener, in order
  dispatched,   \* number of messages the listener has dispatched
  transcript,   \* assistant outputs persisted, per event
  notifications,\* notifications that may still be sent
  faults,       \* whether something may fail
  changes,      \* subscription requests that may still be made
  due,          \* ghost: events a client was entitled to when published
  dropped       \* ghost: events backpressure took from a client

connVars == <<lock, conn, subs>>
queueVars == <<queue, sender, received, dropped>>
tallies == <<dispatched, transcript, notifications>>
pubVars == <<pub, wire, tallies>>
vars == <<hub, connVars, queueVars, pubVars, changes, due, faults>>

Event(e, n) == [type |-> "event", event |-> e, n |-> n]
Ack(i) == [type |-> "ack", event |-> i, n |-> 0]
Notification(u) == [type |-> "notification", event |-> u, n |-> 0]
Item == [type : {"event"}, event : Events, n : Nat]
        \cup [type : {"ack"}, event : Invs, n : {0}]
        \cup [type : {"notification"}, event : Users, n : {0}]
Message == [channel : Channels, of : Events] \cup [channel : {"notification"}, of : Users]

Init ==
  /\ hub = "starting" /\ lock = None
  /\ \E s \in Scenarios :
       /\ conn = [c \in Clients |-> IF c \in s.clients THEN "new" ELSE "gone"]
       /\ pub = [e \in Events |-> IF e \in s.events THEN "unpublished" ELSE "dropped"]
       /\ notifications = s.notifications /\ changes = s.changes /\ faults = s.faults
  /\ subs = [c \in Clients |-> {}]
  /\ queue = [c \in Clients |-> <<>>]
  /\ sender = [c \in Clients |-> "none"]
  /\ received = [c \in Clients |-> <<>>]
  /\ wire = <<>> /\ dispatched = 0
  /\ transcript = [e \in Events |-> 0]
  /\ due = [c \in Clients |-> {}]
  /\ dropped = [c \in Clients |-> {}]

-----------------------------------------------------------------------------
(* The backpressure queue. *)

IsCritical(item) == item.type = "event" => EventOf[item.event].critical

(* The newest LIMIT items: the trim of GH #395. *)
Newest(keep) ==
  IF Len(keep) > LIMIT THEN SubSeq(keep, Len(keep) - LIMIT + 1, Len(keep)) ELSE keep

CriticalAt(q) == {k \in DOMAIN q : IsCritical(q[k])}
Rank(S, k) == Cardinality({j \in S : j <= k})
Nth(S, n) == CHOOSE k \in S : Rank(S, k) = n

(* The critical items in their order, SelectSeq(q, IsCritical). It is      *)
(* written by positions because the prover knows nothing of SelectSeq.     *)
Criticals(q) == [n \in 1..Cardinality(CriticalAt(q)) |-> q[Nth(CriticalAt(q), n)]]

EnqueueUntrimmed(q, item) ==
  IF Len(q) < LIMIT THEN Append(q, item)
  ELSE IF IsCritical(item) THEN Append(Criticals(q), item) ELSE q
EnqueueDropsOldest(q, item) == Newest(Append(q, item))
EnqueueFront(q, item) ==
  IF Len(q) < LIMIT THEN (IF IsCritical(item) THEN <<item>> \o q ELSE Append(q, item))
  ELSE IF IsCritical(item) THEN Newest(Append(Criticals(q), item)) ELSE q

(* A full queue refuses a plain event; for a critical one everything plain *)
(* is thrown out, and then the oldest of the rest if there is still no     *)
(* room.                                                                   *)
Enqueue(q, item) ==
  IF Len(q) < LIMIT THEN Append(q, item)
  ELSE IF IsCritical(item) THEN Newest(Append(Criticals(q), item))
  ELSE q

EventsIn(q) == {q[k].event : k \in {j \in DOMAIN q : q[j].type = "event"}}

(* Every client of targets gets the item. *)
EnqueueAll(targets, item) ==
  /\ queue' = [c \in Clients |->
                 IF c \in targets THEN Enqueue(queue[c], item) ELSE queue[c]]
  /\ dropped' = [c \in Clients |->
                   IF c \in targets
                   THEN dropped[c] \cup (EventsIn(Append(queue[c], item)) \ EventsIn(queue'[c]))
                   ELSE dropped[c]]

-----------------------------------------------------------------------------
(* Connections. _user_connections holds the sockets that were accepted,    *)
(* _global_clients the open ones of /ws/events.                            *)

Registered(u) == {c \in Clients : UserOf[c] = u /\ conn[c] \in {"accepted", "open"}}
GlobalClients == {c \in Clients : conn[c] = "open" /\ RouteOf[c] = Global}
Subscribers(i) == {c \in Clients : conn[c] = "open" /\ i \in subs[c]}

UnderLimit(c) == Cardinality(Registered(UserOf[c])) < MAX_PER_USER

ConnectUnlocked(c) ==
  /\ conn[c] = "new" /\ hub # "stopped"
  /\ RouteOf[c] = Global \/ RouteOf[c] \in Access[c]
  /\ conn' = [conn EXCEPT ![c] = IF UnderLimit(c) THEN "accepting" ELSE "refusing"]
  /\ UNCHANGED <<faults, hub, lock, subs, queueVars, pubVars, changes, due>>

(* The route has checked access; connect takes the lock, checks the limit  *)
(* and awaits ws.accept() with the lock held.                              *)
Connect(c) ==
  /\ conn[c] = "new" /\ lock = None /\ hub # "stopped"
  /\ RouteOf[c] = Global \/ RouteOf[c] \in Access[c]
  /\ lock' = c
  /\ conn' = [conn EXCEPT ![c] = IF UnderLimit(c) THEN "accepting" ELSE "refusing"]
  /\ UNCHANGED <<faults, hub, subs, queueVars, pubVars, changes, due>>

Accepted(c) ==
  /\ conn[c] = "accepting"
  /\ lock' = None
  /\ conn' = [conn EXCEPT ![c] = "accepted"]
  /\ sender' = [sender EXCEPT ![c] = "running"]
  /\ UNCHANGED <<faults, hub, subs, queue, received, dropped, pubVars, changes, due>>

(* Over the limit, or ws.accept() raised. *)
NotAccepted(c) ==
  /\ conn[c] \in {"accepting", "refusing"}
  /\ lock' = None
  /\ conn' = [conn EXCEPT ![c] = "gone"]
  /\ UNCHANGED <<faults, hub, subs, queueVars, pubVars, changes, due>>

(* The second half of connect: subscribe, or join the global stream. *)
Register(c) ==
  /\ conn[c] = "accepted" /\ lock = None
  /\ conn' = [conn EXCEPT ![c] = "open"]
  /\ IF RouteOf[c] = Global
     THEN UNCHANGED <<subs, queue, dropped>>
     ELSE /\ subs' = [subs EXCEPT ![c] = {RouteOf[c]}]
          /\ EnqueueAll({c}, Ack(RouteOf[c]))
  /\ UNCHANGED <<faults, hub, lock, sender, received, pubVars, changes, due>>

OfInv(i) == {e \in Events : EventOf[e].inv = i}

(* A later subscribe or unsubscribe message, with its access check. *)
Subscribe(c, i) ==
  /\ conn[c] = "open" /\ lock = None /\ i \in Access[c]
  /\ changes > 0 /\ changes' = changes - 1
  /\ subs' = [subs EXCEPT ![c] = @ \cup {i}]
  /\ EnqueueAll({c}, Ack(i))
  /\ due' = [due EXCEPT ![c] = @ \ OfInv(i)]
  /\ UNCHANGED <<faults, hub, lock, conn, sender, received, pubVars>>

Unsubscribe(c, i) ==
  /\ conn[c] = "open" /\ lock = None
  /\ changes > 0 /\ changes' = changes - 1
  /\ subs' = [subs EXCEPT ![c] = @ \ {i}]
  /\ EnqueueAll({c}, Ack(i))
  /\ due' = [due EXCEPT ![c] = @ \ OfInv(i)]
  /\ UNCHANGED <<faults, hub, lock, conn, sender, received, pubVars>>

(* The reader notices that the peer is gone: the socket is unregistered,   *)
(* its sender cancelled, and its queue discarded.                          *)
Disconnect(c) ==
  /\ conn[c] = "open" /\ lock = None
  /\ conn' = [conn EXCEPT ![c] = "gone"]
  /\ subs' = [subs EXCEPT ![c] = {}]
  /\ queue' = [queue EXCEPT ![c] = <<>>]
  /\ sender' = [sender EXCEPT ![c] = "ended"]
  /\ received' = [received EXCEPT ![c] = <<>>]
  /\ due' = [due EXCEPT ![c] = {}]
  /\ dropped' = [dropped EXCEPT ![c] = {}]
  /\ UNCHANGED <<faults, hub, lock, pubVars, changes>>

-----------------------------------------------------------------------------
(* Publishing. hub.publish sends two copies, to the investigation's        *)
(* channel and then to the global one; a RedisEmitter sends the first.     *)

ShouldDropForTlp(e) == EventOf[e].red /\ ~EventOf[e].exempt

(* The alert sink creates a task that will publish the alert. *)
RaiseAlert(p, e) == [p EXCEPT ![EventOf[e].alert] = "raised"]

PassesOrgFilterLenient(c, e, strict) ==
  \/ EventOf[e].org = None
  \/ OrgOf[c] \in {None, EventOf[e].org}

PassesOrgFilter(c, e, strict) ==
  IF EventOf[e].org = None THEN ~strict \/ OrgOf[c] = None
                           ELSE OrgOf[c] \in {None, EventOf[e].org}

(* Who is to get an event, given the subscriptions of now. *)
Entitled(e) ==
  {c \in Subscribers(EventOf[e].inv) : PassesOrgFilter(c, e, FALSE)}
  \cup {c \in GlobalClients : EventOf[e].via # "emitter" /\ PassesOrgFilter(c, e, TRUE)
                              /\ EventOf[e].inv \notin subs[c]}

(* Whom an event is due to: nobody as long as nothing listens at all.      *)
Due(e) == IF hub = "starting" THEN {} ELSE Entitled(e)

(* Redis keeps nothing for a listener that is not there. *)
Send(channel, x) ==
  wire' = IF hub = "running" THEN Append(wire, [channel |-> channel, of |-> x]) ELSE wire

(* RedisEmitter: straight to the investigation's channel, no TLP gate. *)
Emit(e) ==
  /\ EventOf[e].via = "emitter" /\ pub[e] = "unpublished"
  /\ pub' = [pub EXCEPT ![e] = "done"]
  /\ Send(EventOf[e].inv, e)
  /\ due' = [c \in Clients |-> IF c \in Due(e) /\ ~ShouldDropForTlp(e)
                               THEN due[c] \cup {e} ELSE due[c]]
  /\ UNCHANGED <<faults, hub, connVars, queueVars, tallies, changes>>

Publishable(e) ==
  \/ EventOf[e].via = "hub" /\ pub[e] = "unpublished"
  \/ EventOf[e].via = "sink" /\ pub[e] = "raised"

(* publish up to its first await: the send-side gate, the hub that is not  *)
(* started any more, and the copy for the investigation's channel.         *)
Publish(e) ==
  /\ Publishable(e)
  /\ IF ShouldDropForTlp(e)
     THEN pub' = RaiseAlert([pub EXCEPT ![e] = "dropped"], e) /\ UNCHANGED <<wire, due>>
     ELSE IF hub = "stopped"
     THEN pub' = [pub EXCEPT ![e] = "dropped"] /\ UNCHANGED <<wire, due>>
     ELSE /\ pub' = [pub EXCEPT ![e] = "half"]
          /\ Send(EventOf[e].inv, e)
          /\ due' = [c \in Clients |-> IF c \in Due(e) THEN due[c] \cup {e} ELSE due[c]]
  /\ UNCHANGED <<faults, hub, connVars, queueVars, tallies, changes>>

PublishGlobal(e) ==
  /\ pub[e] = "half" /\ hub # "stopped"
  /\ pub' = [pub EXCEPT ![e] = "done"]
  /\ Send(Global, e)
  /\ UNCHANGED <<faults, hub, connVars, queueVars, tallies, changes, due>>

(* Redis fails, or the hub closes its client, between the two copies. *)
PublishGlobalFails(e) ==
  /\ faults /\ pub[e] = "half"
  /\ pub' = [pub EXCEPT ![e] = "lost"]
  /\ UNCHANGED <<faults, hub, connVars, queueVars, wire, tallies, changes, due>>

(* NotificationService.send_inapp publishes for one user. *)
SendInapp(u) ==
  /\ notifications > 0 /\ notifications' = notifications - 1
  /\ Send("notification", u)
  /\ UNCHANGED <<faults, hub, connVars, queueVars, pub, dispatched, transcript, changes, due>>

-----------------------------------------------------------------------------
(* The listener: one message at a time, in the order Redis delivers them.  *)

TargetsOfBothCopies(e, channel) ==
  IF channel = Global THEN {c \in GlobalClients : PassesOrgFilter(c, e, TRUE)}
  ELSE {c \in Subscribers(channel) : PassesOrgFilter(c, e, FALSE)}

(* The global copy skips clients that follow the investigation itself. *)
Targets(e, channel) ==
  IF channel = Global
  THEN {c \in GlobalClients : EventOf[e].inv \notin subs[c] /\ PassesOrgFilter(c, e, TRUE)}
  ELSE {c \in Subscribers(channel) : PassesOrgFilter(c, e, FALSE)}

Persists(m) == EventOf[m.of].output /\ m.channel # Global

Listening == hub = "running" /\ wire # <<>> /\ lock = None

DispatchNotification ==
  /\ Listening /\ Head(wire).channel = "notification"
  /\ EnqueueAll(Registered(Head(wire).of), Notification(Head(wire).of))
  /\ UNCHANGED <<pub, transcript>>

DispatchDrops ==
  /\ Listening /\ Head(wire).channel # "notification" /\ ShouldDropForTlp(Head(wire).of)
  /\ pub' = RaiseAlert(pub, Head(wire).of)
  /\ UNCHANGED <<queue, dropped, transcript>>

DispatchEvent ==
  /\ Listening /\ Head(wire).channel # "notification" /\ ~ShouldDropForTlp(Head(wire).of)
  /\ LET m == Head(wire) IN
     /\ EnqueueAll(Targets(m.of, m.channel), Event(m.of, dispatched + 1))
     /\ transcript' = [transcript EXCEPT ![m.of] = IF Persists(m) THEN @ + 1 ELSE @]
  /\ UNCHANGED pub

DispatchBlocking ==
  /\ DispatchNotification \/ DispatchDrops \/ DispatchEvent
  /\ \A c \in Clients : Len(queue[c]) < LIMIT
  /\ wire' = Tail(wire) /\ dispatched' = dispatched + 1
  /\ UNCHANGED <<faults, hub, connVars, sender, received, notifications, changes, due>>

Dispatch ==
  /\ DispatchNotification \/ DispatchDrops \/ DispatchEvent
  /\ wire' = Tail(wire) /\ dispatched' = dispatched + 1
  /\ UNCHANGED <<faults, hub, connVars, sender, received, notifications, changes, due>>

(* start() returns before the listener's task has subscribed: what is sent *)
(* until then reaches nobody.                                              *)
ListenerSubscribes ==
  /\ hub = "starting" /\ hub' = "running"
  /\ UNCHANGED <<faults, connVars, queueVars, pubVars, changes, due>>

(* Any exception ends the listener, and nothing starts it again. *)
ListenerCrashes ==
  /\ faults /\ hub \in {"starting", "running"} /\ hub' = "crashed" /\ wire' = <<>>
  /\ UNCHANGED <<faults, connVars, queueVars, pub, tallies, changes, due>>

Stop ==
  /\ faults /\ hub # "stopped" /\ hub' = "stopped" /\ wire' = <<>>
  /\ UNCHANGED <<faults, connVars, queueVars, pub, tallies, changes, due>>

-----------------------------------------------------------------------------
(* The sender loop of a client. What it took from the queue nobody else    *)
(* touches any more, so that taking and sending are one step.              *)

Sent(c) ==
  /\ sender[c] = "running" /\ queue[c] # <<>>
  /\ queue' = [queue EXCEPT ![c] = Tail(@)]
  /\ received' = [received EXCEPT ![c] = IF Head(queue[c]).type = "event"
                                        THEN Append(@, Head(queue[c])) ELSE @]
  /\ UNCHANGED <<faults, hub, connVars, sender, dropped, pubVars, changes, due>>

(* send_text raises: the loop ends, and the client stays registered until  *)
(* its reader notices.                                                     *)
SendFails(c) ==
  /\ faults /\ sender[c] = "running" /\ queue[c] # <<>>
  /\ queue' = [queue EXCEPT ![c] = Tail(@)]
  /\ sender' = [sender EXCEPT ![c] = "ended"]
  /\ UNCHANGED <<faults, hub, connVars, received, dropped, pubVars, changes, due>>

-----------------------------------------------------------------------------
Next ==
  \/ \E c \in Clients :
       \/ Connect(c) \/ Accepted(c) \/ NotAccepted(c) \/ Register(c) \/ Disconnect(c)
       \/ Sent(c) \/ SendFails(c)
       \/ \E i \in Invs : Subscribe(c, i) \/ Unsubscribe(c, i)
  \/ \E e \in Events : Emit(e) \/ Publish(e) \/ PublishGlobal(e) \/ PublishGlobalFails(e)
  \/ \E u \in Users : SendInapp(u)
  \/ Dispatch \/ ListenerSubscribes \/ ListenerCrashes \/ Stop

Spec == Init /\ [][Next]_vars

(* The event loop runs what is ready. A slow socket need not read. *)
Fairness ==
  /\ WF_vars(Dispatch)
  /\ \A e \in Events : WF_vars(PublishGlobal(e) \/ PublishGlobalFails(e))
  /\ \A c \in Clients : WF_vars(Accepted(c) \/ NotAccepted(c)) /\ WF_vars(Register(c))
  /\ \A c \in Clients \ Slow : WF_vars(Sent(c) \/ SendFails(c))
FairSpec == Spec /\ Fairness

-----------------------------------------------------------------------------
(* Types of all variables. *)
TypeOK ==
  /\ faults \in BOOLEAN
  /\ hub \in {"starting", "running", "crashed", "stopped"}
  /\ lock \in Clients \cup {None}
  /\ conn \in [Clients -> {"new", "accepting", "refusing", "accepted", "open", "gone"}]
  /\ subs \in [Clients -> SUBSET Invs]
  /\ queue \in [Clients -> Seq(Item)]
  /\ sender \in [Clients -> {"none", "running", "ended"}]
  /\ received \in [Clients -> Seq(Item)]
  /\ pub \in [Events -> {"unpublished", "raised", "half", "done", "lost", "dropped"}]
  /\ wire \in Seq(Message)
  /\ dispatched \in Nat
  /\ notifications \in Nat /\ changes \in Nat
  /\ transcript \in [Events -> Nat]
  /\ due \in [Clients -> SUBSET Events]
  /\ dropped \in [Clients -> SUBSET Events]

(* A client's queue never outgrows its bound, so put_nowait cannot raise   *)
(* QueueFull inside the shared listener (GH #395).                         *)
QueueBound == \A c \in Clients : Len(queue[c]) <= LIMIT

(* No user has more registered sockets than max_connections_per_user,      *)
(* however many connect at once.                                           *)
ConnectionLimit == \A u \in Users : Cardinality(Registered(u)) <= MAX_PER_USER

(* What the client was sent and what it is to be sent. *)
Stream(c) == received[c] \o queue[c]
Positions(c, e) ==
  {k \in DOMAIN Stream(c) : Stream(c)[k].type = "event" /\ Stream(c)[k].event = e}

Settled(e) == hub = "running" /\ pub[e] = "done" /\ \A k \in DOMAIN wire : wire[k].of # e

(* The two copies of an event are one: it enters the transcript at most    *)
(* once, and whoever was entitled to it when it was published (after the   *)
(* listener had subscribed), and has not changed its subscription to the   *)
(* investigation since, gets it exactly once unless backpressure took it,  *)
(* though copies and clients are matched at two different moments.         *)
ExactlyOnce ==
  /\ \A e \in Events : transcript[e] <= 1
  /\ \A c \in Clients : \A e \in due[c] :
       /\ Cardinality(Positions(c, e)) <= 1
       /\ (Settled(e) /\ sender[c] # "ended")
            => (Positions(c, e) # {} \/ e \in dropped[c])

(* A client sees events in the order the listener dispatched them, through *)
(* every drain and refill of its queue.                                    *)
InOrder ==
  \A c \in Clients : \A j, k \in DOMAIN Stream(c) :
    (j < k /\ Stream(c)[j].type = "event" /\ Stream(c)[k].type = "event")
      => Stream(c)[j].n < Stream(c)[k].n

(* An org-scoped client is sent an event only of its own org, or, when the *)
(* event names none, of an investigation it was let subscribe to.          *)
TenantIsolation ==
  \A c \in Clients : \A e \in EventsIn(Stream(c)) :
    OrgOf[c] # None =>
      \/ EventOf[e].org = OrgOf[c]
      \/ EventOf[e].org = None /\ EventOf[e].inv \in Access[c]

(* Backpressure takes a critical event only when the queue is full of      *)
(* newer messages that must be kept as well.                               *)
CriticalYieldsToCritical ==
  [][\A c \in Clients : \A e \in Events :
       (e \in dropped'[c] \ dropped[c] /\ EventOf[e].critical)
         => /\ Len(queue'[c]) = LIMIT
            /\ \A k \in DOMAIN queue'[c] : IsCritical(queue'[c][k])]_vars

(* A socket that stops reading does not hold up the others: an event due   *)
(* to a client whose socket reads is sent, unless backpressure took it,    *)
(* the client changed its subscription or left, or Redis failed.           *)
FastClientsServed ==
  \A c \in Clients \ Slow : \A e \in Events :
    e \in due[c] ~> \/ \E k \in DOMAIN received[c] : received[c][k].event = e
                    \/ e \in dropped[c] \/ e \notin due[c]
                    \/ hub # "running" \/ sender[c] = "ended" \/ pub[e] = "lost"
=============================================================================
