------------------------------ MODULE EventBus ------------------------------
(***************************************************************************)
(* events.NATSBus: core NATS as the services use it, one connection per    *)
(* service that publishes and one for the consumer.  Publish only fills    *)
(* the connection's buffer; the client library writes it out later.  The   *)
(* broker keeps nothing: a message that finds no subscription is gone.     *)
(* Each subscription has its own queue and its own callback goroutine.     *)
(*                                                                         *)
(* published, handled and lost record the fate of every message.           *)
(***************************************************************************)
EXTENDS Integers, Sequences, Functions

CONSTANTS
    Service,        \* the publishing connections
    Consumer,       \* the subscribing connection
    Subject, Message, SubjectOf,
    MaxPending      \* the client library's limit on a subscription's queue

VARIABLES
    linked,     \* connections that have the broker at the other end
    draining,   \* services whose connection has been told to drain
    buffer,     \* per service, messages published and not yet written out
    subs,       \* the consumer's subscriptions
    inbox,      \* per subject, messages received and not yet handled
    published,  \* per service, every message Publish accepted, in order
    handled,    \* the messages given to the handler, in order
    lost,       \* the messages nobody will handle
    overflow    \* whether a subscription's queue has been full

bus == <<linked, draining, buffer, subs, inbox, published, handled, lost,
         overflow>>

TypeOK ==
    /\ linked \subseteq Service \cup {Consumer}
    /\ draining \subseteq Service
    /\ buffer \in [Service -> Seq(Message)]
    /\ subs \subseteq Subject
    /\ inbox \in [Subject -> Seq(Message)]
    /\ published \in [Service -> Seq(Message)]
    /\ handled \in Seq(Message)
    /\ lost \subseteq Message
    /\ overflow \in BOOLEAN

(* Connect by every service and the consumer.                              *)
Init ==
    /\ linked = Service \cup {Consumer}
    /\ draining = {}
    /\ buffer = [p \in Service |-> <<>>]
    /\ subs = {}
    /\ inbox = [s \in Subject |-> <<>>]
    /\ published = [p \in Service |-> <<>>]
    /\ handled = <<>>
    /\ lost = {}
    /\ overflow = FALSE

(* Publish, whose error every caller discards: it fails on a draining      *)
(* connection and, in an outage, when the reconnect buffer is full.        *)
Publish(p, m) ==
    \/ /\ p \notin draining
       /\ buffer' = [buffer EXCEPT ![p] = Append(@, m)]
       /\ published' = [published EXCEPT ![p] = Append(@, m)]
       /\ UNCHANGED <<linked, draining, subs, inbox, handled, lost, overflow>>
    \/ /\ p \in draining \/ p \notin linked
       /\ lost' = lost \cup {m}
       /\ UNCHANGED <<linked, draining, buffer, subs, inbox, published, handled, overflow>>

(* Mutant: what was written out stays in the buffer.                       *)
Flush_Resends(p) ==
    /\ p \in linked
    /\ buffer[p] # <<>>
    /\ LET m == Head(buffer[p])
           s == SubjectOf[m]
           taken == Consumer \in linked /\ s \in subs
           fits == Len(inbox[s]) < MaxPending
       IN  /\ IF taken /\ fits
              THEN inbox' = [inbox EXCEPT ![s] = Append(@, m)] /\ UNCHANGED lost
              ELSE lost' = lost \cup {m} /\ UNCHANGED inbox
           /\ overflow' = (overflow \/ (taken /\ ~fits))
    /\ UNCHANGED <<linked, draining, buffer, subs, published, handled>>

(* One message leaves the buffer and passes through the broker.            *)
Flush(p) ==
    /\ p \in linked
    /\ buffer[p] # <<>>
    /\ LET m == Head(buffer[p])
           s == SubjectOf[m]
           taken == Consumer \in linked /\ s \in subs
           fits == Len(inbox[s]) < MaxPending
       IN  /\ IF taken /\ fits
              THEN inbox' = [inbox EXCEPT ![s] = Append(@, m)] /\ UNCHANGED lost
              ELSE lost' = lost \cup {m} /\ UNCHANGED inbox
           /\ overflow' = (overflow \/ (taken /\ ~fits))
    /\ buffer' = [buffer EXCEPT ![p] = Tail(@)]
    /\ UNCHANGED <<linked, draining, subs, published, handled>>

(* Mutant: no message decodes as an Event.                                 *)
Deliver_Discards(s) ==
    /\ inbox[s] # <<>>
    /\ inbox' = [inbox EXCEPT ![s] = Tail(@)]
    /\ UNCHANGED <<linked, draining, buffer, subs, published, handled, lost, overflow>>

(* The callback of a subscription: decode, then the handler.               *)
Deliver(s) ==
    /\ inbox[s] # <<>>
    /\ handled' = Append(handled, Head(inbox[s]))
    /\ inbox' = [inbox EXCEPT ![s] = Tail(@)]
    /\ UNCHANGED <<linked, draining, buffer, subs, published, lost, overflow>>

Subscribe(s) ==
    /\ subs' = subs \cup {s}
    /\ UNCHANGED <<linked, draining, buffer, inbox, published, handled, lost, overflow>>

(* The consumer unsubscribes from everything and ends, which drops what    *)
(* its callbacks have not run; a new one connects.                         *)
Unsubscribe ==
    /\ subs' = {}
    /\ inbox' = [s \in Subject |-> <<>>]
    /\ lost' = lost \cup UNION {Range(inbox[s]) : s \in Subject}
    /\ linked' = linked \cup {Consumer}
    /\ UNCHANGED <<draining, buffer, published, handled, overflow>>

(* Close: Drain only starts to drain.                                      *)
Close(p) ==
    /\ draining' = draining \cup {p}
    /\ UNCHANGED <<linked, buffer, subs, inbox, published, handled, lost, overflow>>

(* The process of a service ends, and its buffer with it; a new one        *)
(* connects.                                                               *)
Exit(p) ==
    /\ lost' = lost \cup Range(buffer[p])
    /\ buffer' = [buffer EXCEPT ![p] = <<>>]
    /\ draining' = draining \ {p}
    /\ linked' = linked \cup {p}
    /\ UNCHANGED <<subs, inbox, published, handled, overflow>>

(* The broker restarts.  What a service had written out and the broker had *)
(* not read is gone; the rest waits in the buffer.  The broker is back at  *)
(* once, the connections when their clients notice.                        *)
Outage ==
    /\ linked' = {}
    /\ \E n \in [Service -> UNION {0..Len(buffer[p]) : p \in Service}] :
        /\ \A p \in Service : n[p] <= Len(buffer[p])
        /\ buffer' = [p \in Service |-> SubSeq(buffer[p], n[p] + 1, Len(buffer[p]))]
        /\ lost' = lost \cup UNION {Range(SubSeq(buffer[p], 1, n[p])) : p \in Service}
    /\ UNCHANGED <<draining, subs, inbox, published, handled, overflow>>

(* MaxReconnects(-1): every connection comes back, in any order, and the   *)
(* consumer's renews its subscriptions.                                    *)
Reconnect(c) ==
    /\ c \notin linked
    /\ linked' = linked \cup {c}
    /\ UNCHANGED <<draining, buffer, subs, inbox, published, handled, lost, overflow>>

=============================================================================
