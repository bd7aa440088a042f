---------------------------- MODULE WalletEvents ----------------------------
(***************************************************************************)
(* The wallet service, the notification consumer and the bus between them. *)
(* Every Create is a goroutine of its own, List another; server.Run stops  *)
(* the wallet process on a signal and waits at most ten seconds for the    *)
(* requests it has.  A second service publishes on another subject.        *)
(*                                                                         *)
(* An account stands for the Create that makes it and for the event that   *)
(* announces it.  times is the set of addresses in Service.created.        *)
(***************************************************************************)
EXTENDS Integers, Sequences, FiniteSets

CONSTANTS
    Account,
    ChainEvent,         \* what the other service publishes
    MaxPending,         \* as in EventBus
    MaxRestarts         \* bound: ends of the wallet process, outages,
                        \* stops of the consumer, all together

ASSUME RestartsAssumption == MaxRestarts \in Nat

ASSUME EventsAssumption == Account \cap ChainEvent = {}

VARIABLES
    linked, draining, buffer, subs, inbox, published, handled, lost, overflow,
    keystore,   \* accounts on disk
    times,      \* addresses with a creation time, in memory
    pc,         \* per account, where its Create is
    answered,   \* accounts whose Create has been answered with 201 ...
    fresh,      \* ... by the present process
    proc,       \* the wallet process
    list,       \* the List call: what is left to read, and what it has
    consumer,   \* the notification process
    restarts,
    heard       \* events published while the consumer was subscribed

Service == {"wallet", "chainmonitor"}
Subjects == <<"wallet.created", "chain.reorg">>   \* Consumer.Start, in order
Subject == {Subjects[i] : i \in DOMAIN Subjects}
Message == Account \cup ChainEvent
SubjectOf == [m \in Message |->
                 IF m \in Account THEN "wallet.created" ELSE "chain.reorg"]

Bus == INSTANCE EventBus WITH Consumer <- "notification"

bus == <<linked, draining, buffer, subs, inbox, published, handled, lost, overflow>>
wallet == <<keystore, times, pc, answered, fresh, proc, list>>
vars == <<bus, wallet, consumer, restarts, heard>>

NoList == [todo |-> {}, seen |-> {}, timed |-> {}, known |-> {}, fresh |-> {},
           on |-> FALSE]

Listing == [todo : SUBSET Account, seen : SUBSET Account, timed : SUBSET Account,
            known : SUBSET Account, fresh : SUBSET Account, on : BOOLEAN]
Place == {"none", "failed", "account", "announced", "end"}

WalletType ==
    /\ keystore \subseteq Account /\ times \subseteq Account
    /\ pc \in [Account -> Place]
    /\ answered \subseteq Account /\ fresh \subseteq Account
    /\ proc \in {"up", "stopping", "closing"}
    /\ list \in Listing

OtherType ==
    /\ consumer \in {"starting", "running"}
    /\ restarts \in 0..MaxRestarts
    /\ heard \subseteq Message

TypeOK == Bus!TypeOK /\ WalletType /\ OtherType

(* NewService and Connect on an empty keystore.                            *)
Init ==
    /\ Bus!Init
    /\ keystore = {} /\ times = {}
    /\ pc = [a \in Account |-> "none"]
    /\ answered = {} /\ fresh = {}
    /\ proc = "up"
    /\ list = NoList
    /\ consumer = "starting"
    /\ restarts = 0
    /\ heard = {}

-----------------------------------------------------------------------------
(* The wallet service                                                      *)

(* ks.NewAccount: the key is on disk and in the keystore's cache, or there *)
(* is an error and no account, which the handler answers with 500.  The    *)
(* listener is closed once the process is stopping.                        *)
NewAccount(a) ==
    /\ pc[a] = "none" /\ proc = "up"
    /\ \/ /\ keystore' = keystore \cup {a}
          /\ pc' = [pc EXCEPT ![a] = "account"]
       \/ /\ pc' = [pc EXCEPT ![a] = "failed"]
          /\ UNCHANGED keystore
    /\ UNCHANGED <<bus, times, answered, fresh, proc, list, consumer, restarts, heard>>

(* Mutant: the answer comes before the creation time.                      *)
Record_Late(a) ==
    /\ pc[a] = "account"
    /\ times' = times \cup fresh
    /\ Bus!Publish("wallet", a)
    /\ heard' = IF "wallet.created" \in subs THEN heard \cup {a} ELSE heard
    /\ pc' = [pc EXCEPT ![a] = "announced"]
    /\ UNCHANGED <<keystore, answered, fresh, proc, list, consumer, restarts>>

(* Mutant: nothing is published in an outage.                              *)
Record_Silent(a) ==
    /\ pc[a] = "account"
    /\ times' = times \cup {a}
    /\ IF "wallet" \in linked THEN Bus!Publish("wallet", a) ELSE UNCHANGED bus
    /\ heard' = heard
    /\ pc' = [pc EXCEPT ![a] = "announced"]
    /\ UNCHANGED <<keystore, answered, fresh, proc, list, consumer, restarts>>

(* The write of created[address] under the lock, and the publish of        *)
(* wallet.created, its error discarded.                                    *)
Record(a) ==
    /\ pc[a] = "account"
    /\ times' = times \cup {a}
    /\ Bus!Publish("wallet", a)
    /\ heard' = IF "wallet.created" \in subs THEN heard \cup {a} ELSE heard
    /\ pc' = [pc EXCEPT ![a] = "announced"]
    /\ UNCHANGED <<keystore, answered, fresh, proc, list, consumer, restarts>>

(* The 201 of POST /wallets.                                               *)
Respond(a) ==
    /\ pc[a] = "announced"
    /\ answered' = answered \cup {a}
    /\ fresh' = fresh \cup {a}
    /\ pc' = [pc EXCEPT ![a] = "end"]
    /\ UNCHANGED <<bus, keystore, times, proc, list, consumer, restarts, heard>>

Create(a) == Record(a) \/ Respond(a)

(* List: the accounts first, then the creation time of each one under its  *)
(* own read lock.  known and fresh remember what was answered before.      *)
Accounts ==
    /\ proc = "up" /\ ~list.on
    /\ list' = [NoList EXCEPT !.todo = keystore, !.known = answered,
                              !.fresh = fresh, !.on = TRUE]
    /\ UNCHANGED <<bus, keystore, times, pc, answered, fresh, proc, consumer,
                   restarts, heard>>

CreationTime(a) ==
    /\ a \in list.todo
    /\ list' = [list EXCEPT !.todo = @ \ {a}, !.seen = @ \cup {a},
                            !.timed = IF a \in times THEN @ \cup {a} ELSE @]
    /\ UNCHANGED <<bus, keystore, times, pc, answered, fresh, proc, consumer,
                   restarts, heard>>

ListEnds ==
    /\ list.on /\ list.todo = {}
    /\ list' = NoList
    /\ UNCHANGED <<bus, keystore, times, pc, answered, fresh, proc, consumer,
                   restarts, heard>>

-----------------------------------------------------------------------------
(* server.Run and the end of the process                                   *)

(* SIGTERM: Shutdown closes the listener.                                  *)
Signal ==
    /\ proc = "up" /\ restarts < MaxRestarts
    /\ proc' = "stopping"
    /\ restarts' = restarts + 1
    /\ UNCHANGED <<bus, keystore, times, pc, answered, fresh, list, consumer, heard>>

InFlight == {a \in Account : pc[a] \in {"account", "announced"}}

(* Mutant: Shutdown has no deadline.                                       *)
Shutdown_Patient ==
    /\ proc = "stopping" /\ InFlight = {} /\ ~list.on
    /\ proc' = "closing"
    /\ Bus!Close("wallet")
    /\ UNCHANGED <<keystore, times, pc, answered, fresh, list, consumer, restarts, heard>>

(* Shutdown returns, when the requests are done or at the deadline with    *)
(* some still running, and main's deferred bus.Close runs.                 *)
Shutdown ==
    /\ proc = "stopping"
    /\ proc' = "closing"
    /\ Bus!Close("wallet")
    /\ UNCHANGED <<keystore, times, pc, answered, fresh, list, consumer, restarts, heard>>

(* The process is gone, and the next one starts with an empty created map  *)
(* on the same keystore: KEYSTORE_DIR is taken to outlive the process, as  *)
(* on the volume docker-compose.yml mounts.                                *)
Restarted ==
    /\ Bus!Exit("wallet")
    /\ proc' = "up"
    /\ times' = {} /\ fresh' = {}
    /\ list' = NoList
    /\ pc' = [a \in Account |-> IF a \in InFlight THEN "end" ELSE pc[a]]
    /\ UNCHANGED <<keystore, answered, consumer, heard>>

(* main returns.                                                           *)
Exit ==
    /\ proc = "closing"
    /\ Restarted
    /\ UNCHANGED restarts

(* The process is killed.                                                  *)
Crash ==
    /\ restarts < MaxRestarts
    /\ restarts' = restarts + 1
    /\ Restarted

-----------------------------------------------------------------------------
(* The consumer and the rest                                               *)

(* Start: one subscription after the other.                                *)
Start ==
    /\ consumer = "starting"
    /\ \E i \in DOMAIN Subjects :
        /\ \A j \in DOMAIN Subjects : Subjects[j] \in subs <=> j < i
        /\ Bus!Subscribe(Subjects[i])
        /\ consumer' = IF i = Len(Subjects) THEN "running" ELSE "starting"
    /\ UNCHANGED <<wallet, restarts, heard>>

(* Stop and the end of the process, or its end while Start is under way.   *)
Stop ==
    /\ restarts < MaxRestarts
    /\ restarts' = restarts + 1
    /\ Bus!Unsubscribe
    /\ consumer' = "starting"
    /\ UNCHANGED <<wallet, heard>>

(* The other service announces something.                                  *)
PublishChain(m) ==
    /\ \A i \in DOMAIN published["chainmonitor"] : published["chainmonitor"][i] # m
    /\ m \notin lost
    /\ Bus!Publish("chainmonitor", m)
    /\ heard' = IF "chain.reorg" \in subs THEN heard \cup {m} ELSE heard
    /\ UNCHANGED <<wallet, consumer, restarts>>

Outage ==
    /\ restarts < MaxRestarts
    /\ restarts' = restarts + 1
    /\ Bus!Outage
    /\ UNCHANGED <<wallet, consumer, heard>>

BusStep ==
    /\ \/ \E p \in Service : Bus!Flush(p)
       \/ \E s \in subs : Bus!Deliver(s)
       \/ \E c \in Service \cup {"notification"} : Bus!Reconnect(c)
    /\ UNCHANGED <<wallet, consumer, restarts, heard>>

Next ==
    \/ \E a \in Account : NewAccount(a) \/ Create(a) \/ CreationTime(a)
    \/ Accounts \/ ListEnds
    \/ Signal \/ Shutdown \/ Exit \/ Crash
    \/ Start \/ Stop
    \/ \E m \in ChainEvent : PublishChain(m)
    \/ Outage \/ BusStep

Spec == Init /\ [][Next]_vars

(* The client library's flusher and callbacks run, and a shutdown that has *)
(* begun goes on to its deadline at the latest.                            *)
FairSpec == Spec /\ WF_vars(BusStep) /\ WF_vars(Shutdown \/ Exit)

-----------------------------------------------------------------------------

(* When List returns, every wallet whose Create had been answered before   *)
(* List was called is in it, and with its creation time if the same        *)
(* process created it (Create, List).                                      *)
ListIsCurrent ==
    list.on /\ list.todo = {} =>
        list.known \subseteq list.seen /\ list.fresh \subseteq list.timed

(* What makes ListIsCurrent inductive, with the facts about Create it      *)
(* rests on: answered wallets are on disk, and this process knows the time *)
(* of those it answered.                                                   *)
CreateInv ==
    /\ \A a \in Account : pc[a] \notin {"none", "failed"} => a \in keystore
    /\ \A a \in Account : pc[a] = "announced" => a \in times
    /\ answered \subseteq keystore
    /\ fresh \subseteq times /\ fresh \subseteq answered

ListInv ==
    list.on =>
        /\ list.known \subseteq list.seen \cup list.todo
        /\ list.fresh \subseteq list.known /\ list.fresh \subseteq times
        /\ list.fresh \subseteq list.timed \cup list.todo

WInv == TypeOK /\ CreateInv /\ ListInv

InOrder(seq, m, n) ==
    \E k, l \in DOMAIN seq : k < l /\ seq[k] = m /\ seq[l] = n

(* The consumer handles an event once, in the order its publisher          *)
(* published on that subject, and an announced wallet is on disk for good  *)
(* (Create, Publish, Subscribe's callbacks).                               *)
NoticesAreFaithful ==
    /\ \A i, j \in DOMAIN handled :
        /\ i < j => handled[i] # handled[j]
        /\ i < j /\ SubjectOf[handled[i]] = SubjectOf[handled[j]] =>
            \E p \in Service : InOrder(published[p], handled[i], handled[j])
    /\ \A i \in DOMAIN handled : handled[i] \in Account => handled[i] \in keystore

Reported(a) ==
    a \in lost \cup Bus!Range(handled) \cup Bus!Range(buffer["wallet"])
           \cup Bus!Range(inbox["wallet.created"])

(* Every wallet answered with 201 was announced, and its event is handled, *)
(* on its way, or known to be lost: no path of Create leaves it out.       *)
AnsweredIsAnnounced == \A a \in answered : Reported(a)

(* What makes the two inductive.  The way of a service's events leads from *)
(* its buffer through the subject's queue to the handler: the events on it *)
(* were published, each once, and those further on before those behind.    *)
Follow(pub, subject, ahead, behind) ==
    \A k \in DOMAIN ahead, l \in DOMAIN behind :
        SubjectOf[ahead[k]] = subject => InOrder(pub, ahead[k], behind[l])

Sorted(pub, subject, seq) ==
    \A k, l \in DOMAIN seq :
        k < l /\ SubjectOf[seq[k]] = subject /\ SubjectOf[seq[l]] = subject =>
            InOrder(pub, seq[k], seq[l])

Way(pub, subject, done, queue, out) ==
    /\ \A k \in DOMAIN pub : SubjectOf[pub[k]] = subject
    /\ \A k, l \in DOMAIN pub : k < l => pub[k] # pub[l]
    /\ \A k \in DOMAIN done :
        SubjectOf[done[k]] = subject => done[k] \in Bus!Range(pub)
    /\ \A k \in DOMAIN queue : queue[k] \in Bus!Range(pub)
    /\ \A k \in DOMAIN out : out[k] \in Bus!Range(pub)
    /\ Sorted(pub, subject, done)
    /\ Sorted(pub, subject, queue)
    /\ Sorted(pub, subject, out)
    /\ Follow(pub, subject, done, queue)
    /\ Follow(pub, subject, done, out)
    /\ Follow(pub, subject, queue, out)

Topic(p) == IF p = "wallet" THEN "wallet.created" ELSE "chain.reorg"

Ways ==
    \A p \in Service :
        Way(published[p], Topic(p), handled, inbox[Topic(p)], buffer[p])

NoticeInv ==
    /\ Ways
    /\ \A a \in Bus!Range(published["wallet"]) : pc[a] \in {"announced", "end"}
    /\ \A a \in Account : pc[a] = "announced" \/ a \in answered => Reported(a)

(* An event published while the consumer is subscribed is handled, unless  *)
(* a process ended, the broker failed or the subscription's queue was      *)
(* full: nothing else loses it (Publish, Subscribe).                       *)
NoticesArrive ==
    \A m \in Message :
        m \in heard ~> \/ restarts > 0 \/ overflow
                      \/ \E i \in DOMAIN handled : handled[i] = m

(* A stopped wallet process ends, whatever its requests do.                *)
ShutdownEnds == proc = "stopping" ~> proc = "up"

=============================================================================
