------------------------- MODULE WalletEventsProofs -------------------------
(***************************************************************************)
(* The wallet service's List is current, and its events reach the handler  *)
(* in order or are known to be lost, for any accounts, events, queue limit *)
(* and number of restarts, whatever the bus does.                          *)
(***************************************************************************)
EXTENDS WalletEvents, TLAPS

LEMMA SubjectFacts ==
    /\ \A m \in Message : SubjectOf[m] \in Subject
    /\ "wallet" \in Service /\ "chainmonitor" \in Service
    /\ Account \subseteq Message /\ ChainEvent \subseteq Message
    /\ \A i \in DOMAIN Subjects : Subjects[i] \in Subject
  BY DEF SubjectOf, Subject, Subjects, Message, Service

LEMMA PublishType ==
    ASSUME Bus!TypeOK, NEW p \in Service, NEW m \in Message, Bus!Publish(p, m)
    PROVE  Bus!TypeOK'
  <1>1. CASE UNCHANGED <<linked, draining, subs, inbox, handled, lost, overflow>>
             /\ buffer' = [buffer EXCEPT ![p] = Append(@, m)]
             /\ published' = [published EXCEPT ![p] = Append(@, m)]
    <2>1. Append(buffer[p], m) \in Seq(Message) /\ Append(published[p], m) \in Seq(Message)
      BY DEF Bus!TypeOK
    <2> QED BY <1>1, <2>1 DEF Bus!TypeOK
  <1>2. CASE UNCHANGED <<linked, draining, buffer, subs, inbox, published, handled, overflow>>
             /\ lost' = lost \cup {m}
    BY <1>2 DEF Bus!TypeOK
  <1> QED BY <1>1, <1>2 DEF Bus!Publish

LEMMA FlushType ==
    ASSUME Bus!TypeOK, NEW p \in Service, Bus!Flush(p)
    PROVE  Bus!TypeOK'
  <1> DEFINE m == Head(buffer[p])
  <1>1. m \in Message /\ Tail(buffer[p]) \in Seq(Message)
    BY DEF Bus!TypeOK, Bus!Flush
  <1>2. SubjectOf[m] \in Subject
    BY <1>1, SubjectFacts
  <1>3. Append(inbox[SubjectOf[m]], m) \in Seq(Message)
    BY <1>1, <1>2 DEF Bus!TypeOK
  <1>4. inbox' \in [Subject -> Seq(Message)] /\ lost' \subseteq Message /\ overflow' \in BOOLEAN
    BY <1>1, <1>2, <1>3, ZenonT(30) DEF Bus!TypeOK, Bus!Flush
  <1>5. buffer' \in [Service -> Seq(Message)]
    BY <1>1, Zenon DEF Bus!TypeOK, Bus!Flush
  <1> QED BY <1>4, <1>5, ZenonT(60) DEF Bus!TypeOK, Bus!Flush

LEMMA DeliverType ==
    ASSUME Bus!TypeOK, NEW s \in Subject, Bus!Deliver(s)
    PROVE  Bus!TypeOK'
  <1>1. /\ Head(inbox[s]) \in Message /\ Tail(inbox[s]) \in Seq(Message)
        /\ inbox[s] \in Seq(Message)
    BY DEF Bus!TypeOK, Bus!Deliver
  <1>2. handled' \in Seq(Message) /\ inbox' \in [Subject -> Seq(Message)]
    BY <1>1 DEF Bus!TypeOK, Bus!Deliver
  <1> QED BY <1>2 DEF Bus!TypeOK, Bus!Deliver

LEMMA UnsubscribeType ==
    ASSUME Bus!TypeOK, Bus!Unsubscribe
    PROVE  Bus!TypeOK'
  <1>1. <<>> \in Seq(Message)
    OBVIOUS
  <1>2. inbox' \in [Subject -> Seq(Message)]
    BY <1>1 DEF Bus!TypeOK, Bus!Unsubscribe
  <1>3. \A s \in Subject : Bus!Range(inbox[s]) \subseteq Message
    BY DEF Bus!TypeOK, Bus!Range
  <1>4. lost' \subseteq Message
    BY <1>3 DEF Bus!TypeOK, Bus!Unsubscribe
  <1> QED BY <1>2, <1>4 DEF Bus!TypeOK, Bus!Unsubscribe

LEMMA ExitType ==
    ASSUME Bus!TypeOK, NEW p \in Service, Bus!Exit(p)
    PROVE  Bus!TypeOK'
  <1>1. <<>> \in Seq(Message)
    OBVIOUS
  <1>2. Bus!Range(buffer[p]) \subseteq Message
    BY DEF Bus!TypeOK, Bus!Range
  <1>3. buffer' \in [Service -> Seq(Message)] /\ lost' \subseteq Message
    BY <1>1, <1>2 DEF Bus!TypeOK, Bus!Exit
  <1> QED BY <1>3 DEF Bus!TypeOK, Bus!Exit

(* What the broker had not read is the beginning of what was written.      *)
LEMMA RangeSplit ==
    ASSUME NEW seq \in Seq(Message), NEW n \in Nat, n <= Len(seq)
    PROVE  /\ SubSeq(seq, n + 1, Len(seq)) \in Seq(Message)
           /\ Bus!Range(SubSeq(seq, 1, n)) \subseteq Message
           /\ Bus!Range(seq) \subseteq Bus!Range(SubSeq(seq, 1, n))
                                      \cup Bus!Range(SubSeq(seq, n + 1, Len(seq)))
  <1> DEFINE front == SubSeq(seq, 1, n)
             back == SubSeq(seq, n + 1, Len(seq))
  <1>1. back \in Seq(Message) /\ front \in Seq(Message)
    OBVIOUS
  <1>2. ASSUME NEW k \in DOMAIN seq
        PROVE  \/ k \in DOMAIN front /\ front[k] = seq[k]
               \/ k - n \in DOMAIN back /\ back[k - n] = seq[k]
    OBVIOUS
  <1>3. \A k \in DOMAIN front : front[k] \in Message
    BY <1>1
  <1> HIDE DEF front, back
  <1>4. Bus!Range(front) \subseteq Message
    BY <1>3, Zenon DEF Bus!Range
  <1>5. Bus!Range(seq) \subseteq Bus!Range(front) \cup Bus!Range(back)
    BY <1>2, Zenon DEF Bus!Range
  <1> QED BY <1>1, <1>4, <1>5, Zenon DEF front, back

LEMMA OutageCut ==
    ASSUME Bus!TypeOK, Bus!Outage
    PROVE  \E n :
             /\ \A p \in Service : n[p] \in Nat /\ n[p] <= Len(buffer[p])
             /\ buffer' = [p \in Service |-> SubSeq(buffer[p], n[p] + 1, Len(buffer[p]))]
             /\ lost' = lost \cup UNION {Bus!Range(SubSeq(buffer[p], 1, n[p])) : p \in Service}
  <1> DEFINE lengths == UNION {0..Len(buffer[p]) : p \in Service}
  <1>1. PICK n \in [Service -> lengths] :
          /\ \A p \in Service : n[p] <= Len(buffer[p])
          /\ buffer' = [p \in Service |-> SubSeq(buffer[p], n[p] + 1, Len(buffer[p]))]
          /\ lost' = lost \cup UNION {Bus!Range(SubSeq(buffer[p], 1, n[p])) : p \in Service}
    BY ZenonT(30) DEF Bus!Outage
  <1>2. ASSUME NEW x \in lengths PROVE x \in Nat
    <2>1. PICK q \in Service : x \in 0..Len(buffer[q])
      BY Zenon
    <2>2. Len(buffer[q]) \in Nat
      <3>1. buffer[q] \in Seq(Message)
        BY Zenon DEF Bus!TypeOK
      <3> QED BY <3>1
    <2> QED BY <2>1, <2>2
  <1> HIDE DEF lengths
  <1>3. \A p \in Service : n[p] \in Nat
    BY <1>2, Zenon
  <1> QED BY <1>1, <1>3, Zenon

LEMMA OutageType ==
    ASSUME Bus!TypeOK, Bus!Outage
    PROVE  Bus!TypeOK'
  <1>1. PICK n :
          /\ \A p \in Service : n[p] \in Nat /\ n[p] <= Len(buffer[p])
          /\ buffer' = [p \in Service |-> SubSeq(buffer[p], n[p] + 1, Len(buffer[p]))]
          /\ lost' = lost \cup UNION {Bus!Range(SubSeq(buffer[p], 1, n[p])) : p \in Service}
    BY OutageCut, Zenon
  <1>2. ASSUME NEW p \in Service
        PROVE  /\ SubSeq(buffer[p], n[p] + 1, Len(buffer[p])) \in Seq(Message)
               /\ Bus!Range(SubSeq(buffer[p], 1, n[p])) \subseteq Message
    <2>1. buffer[p] \in Seq(Message) /\ n[p] \in Nat /\ n[p] <= Len(buffer[p])
      BY <1>1, Zenon DEF Bus!TypeOK
    <2> QED BY <2>1, RangeSplit, Zenon
  <1>3. buffer' \in [Service -> Seq(Message)] /\ lost' \subseteq Message
    BY <1>1, <1>2, Zenon DEF Bus!TypeOK
  <1> QED BY <1>3 DEF Bus!TypeOK, Bus!Outage

(* A step of the bus or of the consumer leaves the wallet service alone.   *)
LEMMA BusSideKeepsInv ==
    ASSUME WInv, Bus!TypeOK', OtherType', UNCHANGED wallet
    PROVE  WInv'
  BY Zenon DEF WInv, TypeOK, WalletType, CreateInv, ListInv, wallet

(* The end of the wallet process: no Create and no List survives, and what *)
(* was answered is on disk.                                                *)
LEMMA RestartKeepsInv ==
    ASSUME WInv, Restarted, restarts' \in 0..MaxRestarts
    PROVE  WInv'
  <1>0. WalletType /\ CreateInv /\ Bus!TypeOK /\ OtherType
    BY DEF WInv, TypeOK
  <1>1. Bus!TypeOK'
    BY <1>0, SubjectFacts, ExitType DEF Restarted
  <1>2. {} \in SUBSET Account
    OBVIOUS
  <1>3. list' \in Listing /\ list'.on = FALSE
    BY <1>2 DEF Restarted, NoList, Listing
  <1>4. pc' \in [Account -> Place]
    BY <1>0 DEF Restarted, WalletType, Place
  <1>5. WalletType'
    BY <1>0, <1>3, <1>4 DEF WalletType, Restarted
  <1>6. \A a \in Account : pc'[a] \notin {"none", "failed"} => pc[a] \notin {"none", "failed"}
    BY <1>0 DEF Restarted, WalletType, InFlight
  <1>7. \A a \in Account : pc'[a] # "announced"
    BY <1>0 DEF Restarted, WalletType, InFlight
  <1>8. CreateInv'
    BY <1>0, <1>6, <1>7 DEF CreateInv, Restarted
  <1>9. OtherType'
    BY <1>0 DEF OtherType, Restarted
  <1> QED BY <1>1, <1>3, <1>5, <1>8, <1>9 DEF WInv, TypeOK, ListInv

LEMMA WalletStep ==
    ASSUME WInv, [Next]_vars
    PROVE  WInv'
  <1>0. WalletType /\ CreateInv /\ ListInv /\ Bus!TypeOK /\ OtherType
    BY Zenon DEF WInv, TypeOK
  <1>a. ASSUME UNCHANGED bus PROVE Bus!TypeOK'
    BY <1>0, <1>a DEF bus, Bus!TypeOK
  <1>b. ASSUME UNCHANGED <<consumer, restarts, heard>> PROVE OtherType'
    BY <1>0, <1>b DEF OtherType
  <1>c. "account" \in Place /\ "failed" \in Place /\ "announced" \in Place /\ "end" \in Place
    BY DEF Place
  <1>1. CASE UNCHANGED vars
    BY <1>1, <1>a, <1>b, BusSideKeepsInv DEF vars
  <1>2. ASSUME NEW a \in Account, NewAccount(a) PROVE WInv'
    <2>1. WalletType'
      BY <1>0, <1>2, <1>c, Zenon DEF WalletType, NewAccount
    <2>2. CreateInv' /\ ListInv'
      BY <1>0, <1>2, Zenon DEF WalletType, CreateInv, ListInv, NewAccount
    <2> QED BY <1>2, <1>a, <1>b, <2>1, <2>2, Zenon DEF WInv, TypeOK, NewAccount
  <1>3. ASSUME NEW a \in Account, Record(a) PROVE WInv'
    <2>0. Bus!TypeOK'
      BY <1>0, <1>3, SubjectFacts, PublishType, Zenon DEF Record
    <2>1. WalletType'
      BY <1>0, <1>3, <1>c, Zenon DEF WalletType, Record
    <2>2. CreateInv' /\ ListInv'
      BY <1>0, <1>3, Zenon DEF WalletType, CreateInv, ListInv, Record
    <2>3. heard' \subseteq Message
      BY <1>0, <1>3, SubjectFacts, Zenon DEF OtherType, Record
    <2>4. OtherType'
      BY <1>0, <1>3, <2>3, Zenon DEF OtherType, Record
    <2> QED BY <2>0, <2>1, <2>2, <2>4 DEF WInv, TypeOK
  <1>4. ASSUME NEW a \in Account, Respond(a) PROVE WInv'
    <2>1. WalletType'
      BY <1>0, <1>4, <1>c, Zenon DEF WalletType, Respond
    <2>2. CreateInv' /\ ListInv'
      BY <1>0, <1>4, Zenon DEF WalletType, CreateInv, ListInv, Respond
    <2> QED BY <1>4, <1>a, <1>b, <2>1, <2>2, Zenon DEF WInv, TypeOK, Respond
  <1>5. CASE Accounts
    <2>1. /\ list' \in Listing /\ list'.todo = keystore /\ list'.known = answered
          /\ list'.fresh = fresh
      BY <1>0, <1>5, ZenonT(30) DEF Accounts, NoList, Listing, WalletType
    <2>2. WalletType'
      BY <1>0, <1>5, <2>1 DEF WalletType, Accounts
    <2>3. CreateInv' /\ ListInv'
      BY <1>0, <1>5, <2>1 DEF CreateInv, ListInv, Accounts
    <2> QED BY <1>5, <1>a, <1>b, <2>2, <2>3 DEF WInv, TypeOK, Accounts
  <1>6. ASSUME NEW a \in Account, CreationTime(a) PROVE WInv'
    <2>1. /\ list' \in Listing
          /\ list'.todo = list.todo \ {a} /\ list'.seen = list.seen \cup {a}
          /\ list'.timed = (IF a \in times THEN list.timed \cup {a} ELSE list.timed)
          /\ list'.known = list.known /\ list'.fresh = list.fresh /\ list'.on = list.on
      BY <1>0, <1>6, ZenonT(30) DEF CreationTime, Listing, WalletType
    <2>2. WalletType'
      BY <1>0, <1>6, <2>1 DEF WalletType, CreationTime
    <2>3. CreateInv' /\ ListInv'
      BY <1>0, <1>6, <2>1 DEF CreateInv, ListInv, CreationTime
    <2> QED BY <1>6, <1>a, <1>b, <2>2, <2>3 DEF WInv, TypeOK, CreationTime
  <1>7. CASE ListEnds
    <2>0. {} \in SUBSET Account
      OBVIOUS
    <2>1. list' \in Listing /\ list'.on = FALSE
      BY <1>7, <2>0, Zenon DEF ListEnds, NoList, Listing
    <2>2. WalletType'
      BY <1>0, <1>7, <2>1, Zenon DEF WalletType, ListEnds
    <2>3. CreateInv' /\ ListInv'
      BY <1>0, <1>7, <2>1, Zenon DEF CreateInv, ListInv, ListEnds
    <2> QED BY <1>7, <1>a, <1>b, <2>2, <2>3, Zenon DEF WInv, TypeOK, ListEnds
  <1>8. CASE Signal
    <2>1. restarts' \in 0..MaxRestarts
      BY <1>0, <1>8, RestartsAssumption DEF OtherType, Signal
    <2>2. OtherType' /\ WalletType'
      BY <1>0, <1>8, <2>1, Zenon DEF OtherType, WalletType, Signal
    <2>3. CreateInv' /\ ListInv'
      BY <1>0, <1>8, Zenon DEF CreateInv, ListInv, Signal
    <2> QED BY <1>8, <1>a, <2>2, <2>3 DEF WInv, TypeOK, Signal
  <1>9. CASE Shutdown
    <2>1. Bus!TypeOK'
      BY <1>0, <1>9, SubjectFacts, Zenon DEF Shutdown, Bus!Close, Bus!TypeOK
    <2>2. WalletType' /\ CreateInv' /\ ListInv'
      BY <1>0, <1>9, Zenon DEF WalletType, CreateInv, ListInv, Shutdown
    <2> QED BY <1>9, <1>b, <2>1, <2>2 DEF WInv, TypeOK, Shutdown
  <1>10. CASE Exit
    BY <1>0, <1>10, RestartKeepsInv DEF Exit, OtherType
  <1>11. CASE Crash
    <2>1. restarts' \in 0..MaxRestarts
      BY <1>0, <1>11, RestartsAssumption DEF OtherType, Crash
    <2> QED BY <1>11, <2>1, RestartKeepsInv DEF Crash
  <1>12. CASE Start
    <2>1. Bus!TypeOK'
      BY <1>0, <1>12, SubjectFacts, Zenon DEF Start, Bus!Subscribe, Bus!TypeOK
    <2>2. OtherType'
      BY <1>0, <1>12 DEF OtherType, Start
    <2> QED BY <1>12, <2>1, <2>2, BusSideKeepsInv DEF Start
  <1>13. CASE Stop
    <2>1. Bus!TypeOK'
      BY <1>0, <1>13, UnsubscribeType, Zenon DEF Stop, Bus!TypeOK
    <2>2. OtherType'
      BY <1>0, <1>13, RestartsAssumption DEF OtherType, Stop
    <2> QED BY <1>13, <2>1, <2>2, BusSideKeepsInv DEF Stop
  <1>14. ASSUME NEW m \in ChainEvent, PublishChain(m) PROVE WInv'
    <2>1. Bus!TypeOK'
      BY <1>0, <1>14, SubjectFacts, PublishType, Zenon DEF PublishChain
    <2>2. OtherType'
      BY <1>0, <1>14, SubjectFacts, Zenon DEF OtherType, PublishChain
    <2> QED BY <1>14, <2>1, <2>2, BusSideKeepsInv, Zenon DEF PublishChain
  <1>15. CASE Outage
    <2>1. Bus!TypeOK'
      BY <1>0, <1>15, OutageType DEF Outage
    <2>2. OtherType'
      BY <1>0, <1>15, RestartsAssumption DEF OtherType, Outage
    <2> QED BY <1>15, <2>1, <2>2, BusSideKeepsInv DEF Outage
  <1>16. CASE BusStep
    <2>1. ASSUME NEW p \in Service, Bus!Flush(p) PROVE Bus!TypeOK'
      BY <1>0, <2>1, FlushType, Zenon
    <2>2. ASSUME NEW s \in subs, Bus!Deliver(s) PROVE Bus!TypeOK'
      BY <1>0, <2>2, DeliverType, Zenon DEF Bus!TypeOK
    <2>3. ASSUME NEW c \in Service \cup {"notification"}, Bus!Reconnect(c) PROVE Bus!TypeOK'
      BY <1>0, <2>3, Zenon DEF Bus!Reconnect, Bus!TypeOK
    <2>4. Bus!TypeOK'
      BY <1>16, <2>1, <2>2, <2>3 DEF BusStep
    <2> QED BY <1>16, <1>b, <2>4, BusSideKeepsInv DEF BusStep
  <1> QED BY <1>1, <1>2, <1>3, <1>4, <1>5, <1>6, <1>7, <1>8, <1>9, <1>10, <1>11,
             <1>12, <1>13, <1>14, <1>15, <1>16 DEF Next, Create

LEMMA WalletInit == Init => WInv
  <1> SUFFICES ASSUME Init PROVE WInv
    OBVIOUS
  <1>1. <<>> \in Seq(Message) /\ {} \in SUBSET Account
    OBVIOUS
  <1>2. Bus!TypeOK
    BY <1>1, ZenonT(30) DEF Init, Bus!Init, Bus!TypeOK
  <1>3. NoList \in Listing /\ NoList.on = FALSE
    BY <1>1, Zenon DEF NoList, Listing
  <1>4. WalletType
    BY <1>3 DEF Init, WalletType, Place
  <1>5. OtherType
    BY RestartsAssumption DEF Init, OtherType
  <1>6. CreateInv /\ ListInv
    BY <1>3, Zenon DEF Init, CreateInv, ListInv
  <1> QED BY <1>2, <1>4, <1>5, <1>6 DEF WInv, TypeOK

(* WInv holds in every state of the wallet service, the bus and the        *)
(* consumer (Create, List, Run, Publish): an answered wallet is on disk    *)
(* through every restart.                                                  *)
THEOREM WalletInvariant == Spec => []WInv
  BY WalletInit, WalletStep, PTL DEF Spec

(* List returns every wallet answered before it was called, with its       *)
(* creation time when the same process created it.                         *)
THEOREM ListStaysCurrent == Spec => []ListIsCurrent
  <1>1. WInv => ListIsCurrent
    <2> SUFFICES ASSUME WInv, list.on, list.todo = {}
                 PROVE  list.known \subseteq list.seen /\ list.fresh \subseteq list.timed
      BY DEF ListIsCurrent
    <2> QED BY Zenon DEF WInv, ListInv
  <1> QED BY <1>1, WalletInvariant, PTL

-----------------------------------------------------------------------------
(***************************************************************************)
(* The events of one service on their way to the handler.  The lemmas say  *)
(* what each step of the bus makes of the way.                             *)
(***************************************************************************)

(* Publishing puts an event behind all the earlier ones.                   *)
LEMMA OrderGrows ==
    ASSUME NEW pub \in Seq(Message), NEW x \in Message
    PROVE  /\ \A m, n : InOrder(pub, m, n) => InOrder(Append(pub, x), m, n)
           /\ \A m \in Bus!Range(pub) : InOrder(Append(pub, x), m, x)
           /\ Bus!Range(Append(pub, x)) = Bus!Range(pub) \cup {x}
  <1> DEFINE new == Append(pub, x)
  <1>1. /\ DOMAIN pub = 1..Len(pub) /\ DOMAIN new = 1..(Len(pub) + 1)
        /\ Len(pub) \in Nat /\ new[Len(pub) + 1] = x
        /\ \A k \in DOMAIN pub : k \in DOMAIN new /\ new[k] = pub[k]
    OBVIOUS
  <1>2. ASSUME NEW m, NEW n, InOrder(pub, m, n) PROVE InOrder(new, m, n)
    <2>1. PICK k, l \in DOMAIN pub : k < l /\ pub[k] = m /\ pub[l] = n
      BY <1>2 DEF InOrder
    <2>2. k \in DOMAIN new /\ l \in DOMAIN new /\ new[k] = m /\ new[l] = n
      BY <1>1, <2>1
    <2> HIDE DEF new
    <2> QED BY <2>1, <2>2, Zenon DEF InOrder
  <1>3. ASSUME NEW m \in Bus!Range(pub) PROVE InOrder(new, m, x)
    <2>1. PICK k \in DOMAIN pub : pub[k] = m
      BY DEF Bus!Range
    <2>2. /\ k \in DOMAIN new /\ Len(pub) + 1 \in DOMAIN new /\ k < Len(pub) + 1
          /\ new[k] = m /\ new[Len(pub) + 1] = x
      BY <1>1, <2>1
    <2> HIDE DEF new
    <2> QED BY <2>2 DEF InOrder
  <1>4. Bus!Range(new) = Bus!Range(pub) \cup {x}
    <2>1. \A k \in DOMAIN new : k \in DOMAIN pub \/ k = Len(pub) + 1
      BY <1>1
    <2>2. Len(pub) + 1 \in DOMAIN new
      BY <1>1
    <2> HIDE DEF new
    <2> QED BY <1>1, <2>1, <2>2, Zenon DEF Bus!Range
  <1> QED BY <1>2, <1>3, <1>4

(* Publish: the event joins the end of the buffer.                         *)
LEMMA WayPublish ==
    ASSUME NEW pub \in Seq(Message), NEW s, NEW done \in Seq(Message),
           NEW queue \in Seq(Message), NEW out \in Seq(Message),
           Way(pub, s, done, queue, out),
           NEW m \in Message, SubjectOf[m] = s, m \notin Bus!Range(pub)
    PROVE  Way(Append(pub, m), s, done, queue, Append(out, m))
  <1> DEFINE new == Append(pub, m)
             more == Append(out, m)
  <1>1. /\ \A x, y : InOrder(pub, x, y) => InOrder(new, x, y)
        /\ \A x \in Bus!Range(pub) : InOrder(new, x, m)
        /\ Bus!Range(new) = Bus!Range(pub) \cup {m}
    BY OrderGrows, Zenon
  <1>2. /\ DOMAIN more = 1..(Len(out) + 1) /\ DOMAIN out = 1..Len(out)
        /\ Len(out) \in Nat /\ more[Len(out) + 1] = m
        /\ \A k \in DOMAIN out : k \in DOMAIN more /\ more[k] = out[k]
    OBVIOUS
  <1>3. /\ DOMAIN new = 1..(Len(pub) + 1) /\ DOMAIN pub = 1..Len(pub)
        /\ Len(pub) \in Nat /\ new[Len(pub) + 1] = m
        /\ \A k \in DOMAIN pub : k \in DOMAIN new /\ new[k] = pub[k]
    OBVIOUS
  <1> HIDE DEF new, more
  <1>4. \A k \in DOMAIN more : \/ k \in DOMAIN out /\ more[k] = out[k]
                               \/ k = Len(out) + 1 /\ more[k] = m
    BY <1>2
  <1>5. /\ \A k \in DOMAIN new : SubjectOf[new[k]] = s
        /\ \A k, l \in DOMAIN new : k < l => new[k] # new[l]
    <2>1. \A k \in DOMAIN new : \/ k \in DOMAIN pub /\ new[k] = pub[k]
                                \/ k = Len(pub) + 1 /\ new[k] = m
      BY <1>3
    <2>2. \A k \in DOMAIN pub : pub[k] # m
      BY Zenon DEF Bus!Range
    <2>3. ASSUME NEW k \in DOMAIN new, NEW l \in DOMAIN new, k < l PROVE new[k] # new[l]
      <3>1. k \in DOMAIN pub
        BY <1>3, <2>3
      <3> QED BY <1>3, <2>1, <2>2, <2>3, <3>1 DEF Way
    <2> QED BY <2>1, <2>3, Zenon DEF Way
  <1>6. Sorted(new, s, done) /\ Sorted(new, s, queue) /\ Follow(new, s, done, queue)
    BY <1>1, Zenon DEF Way, Sorted, Follow
  <1>7. Follow(new, s, done, more) /\ Follow(new, s, queue, more)
    BY <1>1, <1>4, ZenonT(60) DEF Way, Follow
  <1>8. Sorted(new, s, more)
    <2> SUFFICES ASSUME NEW k \in DOMAIN more, NEW l \in DOMAIN more, k < l
                 PROVE  InOrder(new, more[k], more[l])
      BY Zenon DEF Sorted
    <2>1. k \in DOMAIN out /\ more[k] = out[k] /\ out[k] \in Bus!Range(pub)
      BY <1>2 DEF Way
    <2>2. CASE l \in DOMAIN out
      <3>1. SubjectOf[out[k]] = s /\ SubjectOf[out[l]] = s
        BY <2>1, <2>2 DEF Way, Bus!Range
      <3> QED BY <1>1, <1>2, <2>1, <2>2, <3>1, Zenon DEF Way, Sorted
    <2>3. CASE l \notin DOMAIN out
      BY <1>1, <1>4, <2>1, <2>3, Zenon
    <2> QED BY <2>2, <2>3, Zenon
  <1>9. /\ \A k \in DOMAIN done : SubjectOf[done[k]] = s => done[k] \in Bus!Range(new)
        /\ \A k \in DOMAIN queue : queue[k] \in Bus!Range(new)
        /\ \A k \in DOMAIN more : more[k] \in Bus!Range(new)
    BY <1>1, <1>4, Zenon DEF Way
  <1> QED BY <1>5, <1>6, <1>7, <1>8, <1>9, Zenon DEF Way, new, more

(* What is left of a sequence that has lost events from its head.          *)
Remains(rest, seq) ==
    \E i \in Nat :
        \A k \in DOMAIN rest : k + i \in DOMAIN seq /\ rest[k] = seq[k + i]

LEMMA RemainsFacts ==
    ASSUME NEW seq \in Seq(Message)
    PROVE  /\ Remains(seq, seq)
           /\ Remains(<<>>, seq)
           /\ \A n \in Nat : Remains(SubSeq(seq, n + 1, Len(seq)), seq)
           /\ seq # <<>> => Remains(Tail(seq), seq)
  <1>1. Remains(seq, seq)
    <2>1. \A k \in DOMAIN seq : k + 0 \in DOMAIN seq /\ seq[k] = seq[k + 0]
      OBVIOUS
    <2> QED BY <2>1, ZenonT(30) DEF Remains
  <1>2. Remains(<<>>, seq)
    <2>1. \A k \in DOMAIN <<>> : k + 0 \in DOMAIN seq /\ <<>>[k] = seq[k + 0]
      OBVIOUS
    <2>2. 0 \in Nat
      OBVIOUS
    <2> QED BY <2>1, <2>2 DEF Remains
  <1>3. ASSUME NEW n \in Nat PROVE Remains(SubSeq(seq, n + 1, Len(seq)), seq)
    <2> DEFINE rest == SubSeq(seq, n + 1, Len(seq))
    <2>1. \A k \in DOMAIN rest : k + n \in DOMAIN seq /\ rest[k] = seq[k + n]
      OBVIOUS
    <2> HIDE DEF rest
    <2>2. Remains(rest, seq)
      BY <2>1 DEF Remains
    <2> QED BY <2>2 DEF rest
  <1>4. ASSUME seq # <<>> PROVE Remains(Tail(seq), seq)
    <2>1. \A k \in DOMAIN Tail(seq) : k + 1 \in DOMAIN seq /\ Tail(seq)[k] = seq[k + 1]
      BY <1>4
    <2>2. 1 \in Nat
      OBVIOUS
    <2> QED BY <2>1, <2>2 DEF Remains
  <1> QED BY <1>1, <1>2, <1>3, <1>4, Zenon

(* A queue and a buffer may lose events from their heads.                  *)
LEMMA WayTrim ==
    ASSUME NEW pub \in Seq(Message), NEW s, NEW done \in Seq(Message),
           NEW queue \in Seq(Message), NEW out \in Seq(Message),
           Way(pub, s, done, queue, out),
           NEW queue2 \in Seq(Message), NEW out2 \in Seq(Message),
           Remains(queue2, queue), Remains(out2, out)
    PROVE  Way(pub, s, done, queue2, out2)
  <1>a. PICK i \in Nat :
          \A k \in DOMAIN queue2 : k + i \in DOMAIN queue /\ queue2[k] = queue[k + i]
    BY Zenon DEF Remains
  <1>b. PICK j \in Nat :
          \A k \in DOMAIN out2 : k + j \in DOMAIN out /\ out2[k] = out[k + j]
    BY Zenon DEF Remains
  <1>1. DOMAIN queue2 \subseteq Nat /\ DOMAIN out2 \subseteq Nat
    OBVIOUS
  <1>2. /\ \A k \in DOMAIN queue2 : queue2[k] \in Bus!Range(pub)
        /\ \A k \in DOMAIN out2 : out2[k] \in Bus!Range(pub)
    BY <1>a, <1>b, Zenon DEF Way
  <1>3. Sorted(pub, s, queue2)
    <2> SUFFICES ASSUME NEW k \in DOMAIN queue2, NEW l \in DOMAIN queue2, k < l,
                        SubjectOf[queue2[k]] = s, SubjectOf[queue2[l]] = s
                 PROVE  InOrder(pub, queue2[k], queue2[l])
      BY Zenon DEF Sorted
    <2>1. k + i < l + i
      BY <1>1
    <2> QED BY <1>a, <2>1 DEF Way, Sorted
  <1>4. Sorted(pub, s, out2)
    <2> SUFFICES ASSUME NEW k \in DOMAIN out2, NEW l \in DOMAIN out2, k < l,
                        SubjectOf[out2[k]] = s, SubjectOf[out2[l]] = s
                 PROVE  InOrder(pub, out2[k], out2[l])
      BY Zenon DEF Sorted
    <2>1. k + j < l + j
      BY <1>1
    <2> QED BY <1>b, <2>1 DEF Way, Sorted
  <1>5. /\ Follow(pub, s, done, queue2) /\ Follow(pub, s, done, out2)
        /\ Follow(pub, s, queue2, out2)
    <2>0. Follow(pub, s, done, queue) /\ Follow(pub, s, done, out) /\ Follow(pub, s, queue, out)
      BY Zenon DEF Way
    <2>1. Follow(pub, s, done, queue2)
      BY <1>a, <2>0, Zenon DEF Follow
    <2>2. Follow(pub, s, done, out2)
      BY <1>b, <2>0, Zenon DEF Follow
    <2>3. Follow(pub, s, queue2, out)
      BY <1>a, <2>0, Zenon DEF Follow
    <2>4. Follow(pub, s, queue2, out2)
      BY <1>b, <2>3, Zenon DEF Follow
    <2> QED BY <2>1, <2>2, <2>4, Zenon
  <1> QED BY <1>2, <1>3, <1>4, <1>5, Zenon DEF Way

(* What Head, Tail and Append do to the positions of a sequence.           *)
LEMMA HeadTail ==
    ASSUME NEW seq \in Seq(Message), seq # <<>>
    PROVE  /\ Head(seq) \in Message /\ Tail(seq) \in Seq(Message)
           /\ 1 \in DOMAIN seq /\ Head(seq) = seq[1]
           /\ \A k \in DOMAIN Tail(seq) :
                k + 1 \in DOMAIN seq /\ 1 < k + 1 /\ Tail(seq)[k] = seq[k + 1]
  OBVIOUS

LEMMA AppendAt ==
    ASSUME NEW seq \in Seq(Message), NEW m \in Message
    PROVE  /\ Append(seq, m) \in Seq(Message)
           /\ \A k \in DOMAIN Append(seq, m) :
                \/ k \in DOMAIN seq /\ Append(seq, m)[k] = seq[k]
                \/ k = Len(seq) + 1 /\ Append(seq, m)[k] = m
           /\ \A k \in DOMAIN seq : k < Len(seq) + 1
           /\ Len(seq) + 1 \in Nat
  OBVIOUS

(* Flush: the head of the buffer joins the end of the queue.               *)
LEMMA WayFlush ==
    ASSUME NEW pub \in Seq(Message), NEW s, NEW done \in Seq(Message),
           NEW queue \in Seq(Message), NEW out \in Seq(Message),
           Way(pub, s, done, queue, out), out # <<>>
    PROVE  Way(pub, s, done, Append(queue, Head(out)), Tail(out))
  <1> DEFINE m == Head(out)
             longer == Append(queue, m)
             rest == Tail(out)
  <1>1. /\ m \in Message /\ rest \in Seq(Message) /\ 1 \in DOMAIN out /\ m = out[1]
        /\ \A k \in DOMAIN rest : k + 1 \in DOMAIN out /\ 1 < k + 1 /\ rest[k] = out[k + 1]
    BY HeadTail, Zenon
  <1>2. /\ \A k \in DOMAIN longer : \/ k \in DOMAIN queue /\ longer[k] = queue[k]
                                    \/ k = Len(queue) + 1 /\ longer[k] = m
        /\ \A k \in DOMAIN queue : k < Len(queue) + 1
    BY <1>1, AppendAt, Zenon
  <1>3. DOMAIN longer \subseteq Nat
    BY <1>1
  <1> HIDE DEF m, longer, rest
  <1>4. Way(pub, s, done, queue, rest)
    <2>1. Remains(queue, queue) /\ Remains(rest, out)
      BY RemainsFacts, Zenon DEF rest
    <2> QED BY <1>1, <2>1, WayTrim, Zenon
  <1>5. m \in Bus!Range(pub) /\ SubjectOf[m] = s
    BY <1>1 DEF Way, Bus!Range
  <1>6. \A k \in DOMAIN longer : longer[k] \in Bus!Range(pub)
    BY <1>2, <1>5, Zenon DEF Way
  <1>7. Sorted(pub, s, longer)
    <2> SUFFICES ASSUME NEW k \in DOMAIN longer, NEW l \in DOMAIN longer, k < l,
                        SubjectOf[longer[k]] = s, SubjectOf[longer[l]] = s
                 PROVE  InOrder(pub, longer[k], longer[l])
      BY Zenon DEF Sorted
    <2>1. CASE k \in DOMAIN queue /\ l \in DOMAIN queue
      <3>1. longer[k] = queue[k] /\ longer[l] = queue[l]
        BY <1>2, <2>1
      <3> QED BY <2>1, <3>1, Zenon DEF Way, Sorted
    <2>2. CASE k \in DOMAIN queue /\ longer[l] = m
      <3>1. longer[k] = queue[k]
        BY <1>2, <2>2
      <3> QED BY <1>1, <2>2, <3>1 DEF Way, Follow
    <2>3. CASE k = Len(queue) + 1
      BY <1>2, <1>3, <2>3
    <2> QED BY <1>2, <2>1, <2>2, <2>3, Zenon
  <1>8. Follow(pub, s, done, longer)
    BY <1>1, <1>2, Zenon DEF Way, Follow
  <1>9. Follow(pub, s, longer, rest)
    <2> SUFFICES ASSUME NEW k \in DOMAIN longer, NEW l \in DOMAIN rest,
                        SubjectOf[longer[k]] = s
                 PROVE  InOrder(pub, longer[k], rest[l])
      BY Zenon DEF Follow
    <2>1. CASE k \in DOMAIN queue /\ longer[k] = queue[k]
      BY <1>4, <2>1, Zenon DEF Way, Follow
    <2>2. CASE longer[k] = m
      <3>1. l + 1 \in DOMAIN out /\ 1 < l + 1 /\ rest[l] = out[l + 1]
        BY <1>1, Zenon
      <3>2. SubjectOf[out[l + 1]] = s
        BY <3>1 DEF Way, Bus!Range
      <3> QED BY <1>1, <1>5, <2>2, <3>1, <3>2 DEF Way, Sorted
    <2> QED BY <1>2, <2>1, <2>2, Zenon
  <1>10. Way(pub, s, done, longer, rest)
    BY <1>4, <1>6, <1>7, <1>8, <1>9, Zenon DEF Way
  <1> QED BY <1>10 DEF m, longer, rest

(* Deliver: the head of the queue is handled after all the earlier ones.   *)
LEMMA WayDeliver ==
    ASSUME NEW pub \in Seq(Message), NEW s, NEW done \in Seq(Message),
           NEW queue \in Seq(Message), NEW out \in Seq(Message),
           Way(pub, s, done, queue, out), queue # <<>>
    PROVE  Way(pub, s, Append(done, Head(queue)), Tail(queue), out)
  <1> DEFINE m == Head(queue)
             more == Append(done, m)
             rest == Tail(queue)
  <1>1. /\ m \in Message /\ rest \in Seq(Message) /\ 1 \in DOMAIN queue /\ m = queue[1]
        /\ \A k \in DOMAIN rest :
             k + 1 \in DOMAIN queue /\ 1 < k + 1 /\ rest[k] = queue[k + 1]
    BY HeadTail, Zenon
  <1>2. /\ \A k \in DOMAIN more : \/ k \in DOMAIN done /\ more[k] = done[k]
                                  \/ k = Len(done) + 1 /\ more[k] = m
        /\ \A k \in DOMAIN done : k < Len(done) + 1
    BY <1>1, AppendAt, Zenon
  <1>3. DOMAIN more \subseteq Nat
    BY <1>1
  <1> HIDE DEF m, more, rest
  <1>4. Way(pub, s, done, rest, out)
    <2>1. Remains(rest, queue) /\ Remains(out, out)
      BY RemainsFacts, Zenon DEF rest
    <2> QED BY <1>1, <2>1, WayTrim, Zenon
  <1>5. m \in Bus!Range(pub) /\ SubjectOf[m] = s
    BY <1>1 DEF Way, Bus!Range
  <1>6. \A k \in DOMAIN more : SubjectOf[more[k]] = s => more[k] \in Bus!Range(pub)
    BY <1>2, <1>5, Zenon DEF Way
  <1>7. Sorted(pub, s, more)
    <2> SUFFICES ASSUME NEW k \in DOMAIN more, NEW l \in DOMAIN more, k < l,
                        SubjectOf[more[k]] = s, SubjectOf[more[l]] = s
                 PROVE  InOrder(pub, more[k], more[l])
      BY Zenon DEF Sorted
    <2>1. CASE k \in DOMAIN done /\ l \in DOMAIN done
      <3>1. more[k] = done[k] /\ more[l] = done[l]
        BY <1>2, <2>1
      <3> QED BY <2>1, <3>1, Zenon DEF Way, Sorted
    <2>2. CASE k \in DOMAIN done /\ more[l] = m
      <3>1. more[k] = done[k]
        BY <1>2, <2>2
      <3> QED BY <1>1, <2>2, <3>1 DEF Way, Follow
    <2>3. CASE k = Len(done) + 1
      BY <1>2, <1>3, <2>3
    <2> QED BY <1>2, <2>1, <2>2, <2>3, Zenon
  <1>8. Follow(pub, s, more, rest)
    <2> SUFFICES ASSUME NEW k \in DOMAIN more, NEW l \in DOMAIN rest,
                        SubjectOf[more[k]] = s
                 PROVE  InOrder(pub, more[k], rest[l])
      BY Zenon DEF Follow
    <2>1. CASE k \in DOMAIN done /\ more[k] = done[k]
      BY <1>4, <2>1, Zenon DEF Way, Follow
    <2>2. CASE more[k] = m
      <3>1. l + 1 \in DOMAIN queue /\ 1 < l + 1 /\ rest[l] = queue[l + 1]
        BY <1>1, Zenon
      <3>2. SubjectOf[queue[l + 1]] = s
        BY <3>1 DEF Way, Bus!Range
      <3> QED BY <1>1, <1>5, <2>2, <3>1, <3>2 DEF Way, Sorted
    <2> QED BY <1>2, <2>1, <2>2, Zenon
  <1>9. Follow(pub, s, more, out)
    BY <1>1, <1>2, Zenon DEF Way, Follow
  <1>10. Way(pub, s, more, rest, out)
    BY <1>4, <1>6, <1>7, <1>8, <1>9, Zenon DEF Way
  <1> QED BY <1>10, Zenon DEF m, more, rest

(* An event of another subject is handled.                                 *)
LEMMA WayOther ==
    ASSUME NEW pub \in Seq(Message), NEW s, NEW done \in Seq(Message),
           NEW queue \in Seq(Message), NEW out \in Seq(Message),
           Way(pub, s, done, queue, out), NEW m \in Message, SubjectOf[m] # s
    PROVE  Way(pub, s, Append(done, m), queue, out)
  <1> DEFINE more == Append(done, m)
  <1>1. \A k \in DOMAIN more : \/ k \in DOMAIN done /\ more[k] = done[k]
                               \/ k = Len(done) + 1 /\ more[k] = m
    BY AppendAt, Zenon
  <1> HIDE DEF more
  <1>2. Sorted(pub, s, more)
    BY <1>1, Zenon DEF Way, Sorted
  <1>3. Follow(pub, s, more, queue) /\ Follow(pub, s, more, out)
    BY <1>1, Zenon DEF Way, Follow
  <1>4. \A k \in DOMAIN more : SubjectOf[more[k]] = s => more[k] \in Bus!Range(pub)
    BY <1>1, Zenon DEF Way
  <1>5. Way(pub, s, more, queue, out)
    BY <1>2, <1>3, <1>4, Zenon DEF Way
  <1> QED BY <1>5, Zenon DEF more

(* Each service has the subject the others have not.                       *)
LEMMA TopicFacts ==
    /\ \A p \in Service : Topic(p) \in Subject
    /\ \A p, q \in Service : Topic(p) = Topic(q) => p = q
    /\ \A s \in Subject : \E p \in Service : Topic(p) = s
    /\ Topic("wallet") = "wallet.created"
    /\ \A a \in Account : a \in Message /\ SubjectOf[a] = Topic("wallet")
    /\ \A m \in ChainEvent : m \in Message /\ SubjectOf[m] = Topic("chainmonitor")
  <1>1. \A s \in Subject : s \in {"wallet.created", "chain.reorg"}
    BY DEF Subject, Subjects
  <1>2. "wallet.created" \in Subject /\ "chain.reorg" \in Subject
    <2>1. 1 \in DOMAIN Subjects /\ 2 \in DOMAIN Subjects
      BY DEF Subjects
    <2> QED BY <2>1 DEF Subject, Subjects
  <1>3. \A m \in ChainEvent : m \notin Account
    BY EventsAssumption
  <1> QED BY <1>1, <1>2, <1>3, Zenon DEF Topic, Service, SubjectOf, Message

LEMMA RangeFacts ==
    ASSUME NEW seq \in Seq(Message)
    PROVE  /\ seq # <<>> => Bus!Range(seq) = {Head(seq)} \cup Bus!Range(Tail(seq))
           /\ \A m \in Message : Bus!Range(Append(seq, m)) = Bus!Range(seq) \cup {m}
  <1>1. ASSUME seq # <<>> PROVE Bus!Range(seq) = {Head(seq)} \cup Bus!Range(Tail(seq))
    <2> DEFINE rest == Tail(seq)
    <2>1. /\ 1 \in DOMAIN seq /\ Head(seq) = seq[1]
          /\ \A k \in DOMAIN rest : k + 1 \in DOMAIN seq /\ rest[k] = seq[k + 1]
      BY <1>1, HeadTail, Zenon
    <2>2. \A k \in DOMAIN seq : k = 1 \/ k - 1 \in DOMAIN rest
      BY <1>1
    <2>3. \A k \in DOMAIN seq : k \in Int /\ (k - 1) + 1 = k
      OBVIOUS
    <2> HIDE DEF rest
    <2>4. ASSUME NEW k \in DOMAIN seq PROVE seq[k] \in {Head(seq)} \cup Bus!Range(rest)
      <3>1. CASE k = 1
        BY <2>1, <3>1, Zenon
      <3>2. CASE k - 1 \in DOMAIN rest
        <4>1. rest[k - 1] = seq[k]
          BY <2>1, <2>3, <3>2, Zenon
        <4> QED BY <3>2, <4>1, Zenon DEF Bus!Range
      <3> QED BY <2>2, <3>1, <3>2
    <2>5. {Head(seq)} \cup Bus!Range(rest) \subseteq Bus!Range(seq)
      BY <2>1 DEF Bus!Range
    <2>6. Bus!Range(seq) \subseteq {Head(seq)} \cup Bus!Range(rest)
      BY <2>4, Zenon DEF Bus!Range
    <2> QED BY <2>5, <2>6, Zenon DEF rest
  <1> QED BY <1>1, OrderGrows, Zenon

(* Publish keeps the events of every service on their way.                 *)
LEMMA PublishNotice ==
    ASSUME Bus!TypeOK, Ways, NEW p \in Service, NEW m \in Message,
           SubjectOf[m] = Topic(p), m \notin Bus!Range(published[p]), Bus!Publish(p, m)
    PROVE  /\ Ways'
           /\ \A a \in Account : Reported(a) => Reported(a)'
           /\ p = "wallet" => Reported(m)'
           /\ \A q \in Service \ {p} : published'[q] = published[q]
           /\ Bus!Range(published'[p]) \subseteq Bus!Range(published[p]) \cup {m}
  <1>0. \A q \in Service : /\ published[q] \in Seq(Message) /\ buffer[q] \in Seq(Message)
                           /\ inbox[Topic(q)] \in Seq(Message) /\ handled \in Seq(Message)
    BY TopicFacts, Zenon DEF Bus!TypeOK
  <1>1. CASE /\ buffer' = [buffer EXCEPT ![p] = Append(@, m)]
             /\ published' = [published EXCEPT ![p] = Append(@, m)]
             /\ UNCHANGED <<linked, draining, subs, inbox, handled, lost, overflow>>
    <2>1. /\ buffer'[p] = Append(buffer[p], m) /\ published'[p] = Append(published[p], m)
          /\ \A q \in Service \ {p} : buffer'[q] = buffer[q] /\ published'[q] = published[q]
      BY <1>1, Zenon DEF Bus!TypeOK
    <2>2. Way(published[p], Topic(p), handled, inbox[Topic(p)], buffer[p])
      BY Zenon DEF Ways
    <2>3. Way(Append(published[p], m), Topic(p), handled, inbox[Topic(p)], Append(buffer[p], m))
      BY <1>0, <2>2, WayPublish, Zenon
    <2>4. Ways'
      BY <1>1, <2>1, <2>3, Zenon DEF Ways
    <2>5. /\ Bus!Range(published'[p]) = Bus!Range(published[p]) \cup {m}
          /\ Bus!Range(buffer'[p]) = Bus!Range(buffer[p]) \cup {m}
      BY <1>0, <2>1, RangeFacts
    <2>6. \A a \in Account : Reported(a) => Reported(a)'
      BY <1>1, <2>1, <2>5, SubjectFacts, Zenon DEF Reported
    <2>7. p = "wallet" => Reported(m)'
      BY <2>5, Zenon DEF Reported
    <2> QED BY <2>1, <2>4, <2>5, <2>6, <2>7, Zenon
  <1>2. CASE /\ lost' = lost \cup {m}
             /\ UNCHANGED <<linked, draining, buffer, subs, inbox, published, handled, overflow>>
    BY <1>2, Zenon DEF Ways, Reported
  <1> QED BY <1>1, <1>2, Zenon DEF Bus!Publish

LEMMA FlushNotice ==
    ASSUME Bus!TypeOK, Ways, NEW p \in Service, Bus!Flush(p)
    PROVE  Ways' /\ \A a \in Account : Reported(a) => Reported(a)'
  <1> DEFINE m == Head(buffer[p])
             s == Topic(p)
  <1>0. \A q \in Service : /\ published[q] \in Seq(Message) /\ buffer[q] \in Seq(Message)
                           /\ inbox[Topic(q)] \in Seq(Message) /\ handled \in Seq(Message)
    BY TopicFacts, Zenon DEF Bus!TypeOK
  <1>1. buffer[p] # <<>> /\ UNCHANGED <<published, handled>>
    BY Zenon DEF Bus!Flush
  <1>2. /\ buffer'[p] = Tail(buffer[p])
        /\ \A q \in Service \ {p} : buffer'[q] = buffer[q]
    BY Zenon DEF Bus!Flush, Bus!TypeOK
  <1>3. Way(published[p], s, handled, inbox[s], buffer[p])
    BY ZenonT(60) DEF Ways
  <1>4. m \in Message /\ SubjectOf[m] = s
    <2>1. 1 \in DOMAIN buffer[p] /\ m = buffer[p][1] /\ m \in Message
      BY <1>0, <1>1, HeadTail, Zenon
    <2> QED BY <1>3, <2>1 DEF Way, Bus!Range
  <1>5. Bus!Range(buffer[p]) = {m} \cup Bus!Range(Tail(buffer[p]))
    BY <1>0, <1>1, RangeFacts, Zenon
  <1>6. \A q \in Service \ {p} : Topic(q) # s
    BY TopicFacts, Zenon
  <1>7. CASE inbox' = [inbox EXCEPT ![s] = Append(@, m)] /\ UNCHANGED lost
    <2>1. inbox'[s] = Append(inbox[s], m) /\ \A x \in Subject \ {s} : inbox'[x] = inbox[x]
      BY <1>7, TopicFacts, Zenon DEF Bus!TypeOK
    <2>2. Way(published[p], s, handled, Append(inbox[s], m), Tail(buffer[p]))
      BY <1>0, <1>1, <1>3, WayFlush, Zenon
    <2>3. Ways'
      BY <1>1, <1>2, <1>6, <2>1, <2>2, TopicFacts, ZenonT(60) DEF Ways
    <2>4. Bus!Range(inbox'[s]) = Bus!Range(inbox[s]) \cup {m}
      BY <1>0, <1>4, <2>1, RangeFacts, Zenon
    <2>5. ASSUME NEW a \in Account, Reported(a) PROVE Reported(a)'
      <3>1. CASE p = "wallet"
        <4>1. s = "wallet.created"
          BY <3>1, TopicFacts, Zenon
        <4> HIDE DEF s
        <4> QED BY <1>1, <1>2, <1>5, <1>7, <2>4, <2>5, <3>1, <4>1, Zenon DEF Reported
      <3>2. CASE p # "wallet"
        <4>1. inbox'["wallet.created"] = inbox["wallet.created"] /\ buffer'["wallet"] = buffer["wallet"]
          BY <1>2, <2>1, <3>2, TopicFacts, SubjectFacts, Zenon
        <4> QED BY <1>1, <1>7, <2>5, <4>1, Zenon DEF Reported
      <3> QED BY <3>1, <3>2, Zenon
    <2> QED BY <2>3, <2>5, Zenon
  <1>8. CASE lost' = lost \cup {m} /\ UNCHANGED inbox
    <2>1. Remains(inbox[s], inbox[s]) /\ Remains(Tail(buffer[p]), buffer[p])
      BY <1>0, <1>1, RemainsFacts, Zenon
    <2>2. Tail(buffer[p]) \in Seq(Message)
      BY <1>0, <1>1, HeadTail, Zenon
    <2>3. Way(published[p], s, handled, inbox[s], Tail(buffer[p]))
      BY <1>0, <1>3, <2>1, <2>2, WayTrim, ZenonT(30)
    <2>4. Ways'
      BY <1>1, <1>2, <1>8, <2>3, Zenon DEF Ways
    <2>5. ASSUME NEW a \in Account, Reported(a) PROVE Reported(a)'
      BY <1>1, <1>2, <1>5, <1>8, <2>5, SubjectFacts, Zenon DEF Reported
    <2> QED BY <2>4, <2>5, Zenon
  <1> QED BY <1>4, <1>7, <1>8, Zenon DEF Bus!Flush

LEMMA DeliverNotice ==
    ASSUME Bus!TypeOK, Ways, NEW s \in Subject, Bus!Deliver(s)
    PROVE  Ways' /\ \A a \in Account : Reported(a) => Reported(a)'
  <1> DEFINE m == Head(inbox[s])
  <1>0. \A q \in Service : /\ published[q] \in Seq(Message) /\ buffer[q] \in Seq(Message)
                           /\ inbox[Topic(q)] \in Seq(Message) /\ handled \in Seq(Message)
    BY TopicFacts, Zenon DEF Bus!TypeOK
  <1>1. PICK p \in Service : Topic(p) = s
    BY TopicFacts, Zenon
  <1>2. /\ inbox[s] # <<>> /\ UNCHANGED <<published, buffer, lost>>
        /\ handled' = Append(handled, m)
        /\ inbox'[s] = Tail(inbox[s])
        /\ \A x \in Subject \ {s} : inbox'[x] = inbox[x]
    BY Zenon DEF Bus!Deliver, Bus!TypeOK
  <1>3. Way(published[p], s, handled, inbox[s], buffer[p])
    BY <1>1, Zenon DEF Ways
  <1>4. m \in Message /\ SubjectOf[m] = s
    <2>1. 1 \in DOMAIN inbox[s] /\ m = inbox[s][1] /\ m \in Message
      BY <1>0, <1>1, <1>2, HeadTail, Zenon
    <2> QED BY <1>3, <2>1 DEF Way, Bus!Range
  <1>5. Way(published[p], s, Append(handled, m), Tail(inbox[s]), buffer[p])
    BY <1>0, <1>1, <1>2, <1>3, WayDeliver, Zenon
  <1>6. ASSUME NEW q \in Service, q # p
        PROVE  Way(published[q], Topic(q), Append(handled, m), inbox[Topic(q)], buffer[q])
    <2>1. Way(published[q], Topic(q), handled, inbox[Topic(q)], buffer[q])
      BY Zenon DEF Ways
    <2>2. SubjectOf[m] # Topic(q)
      BY <1>1, <1>4, <1>6, TopicFacts, Zenon
    <2> HIDE DEF m
    <2> QED BY <1>0, <1>4, <2>1, <2>2, WayOther, Zenon
  <1>7. Ways'
    <2> SUFFICES ASSUME NEW q \in Service
                 PROVE  Way(published'[q], Topic(q), handled', inbox'[Topic(q)], buffer'[q])
      BY Zenon DEF Ways
    <2>1. CASE q = p
      BY <1>1, <1>2, <1>5, <2>1, Zenon
    <2>2. CASE q # p
      <3>1. Topic(q) \in Subject \ {s}
        BY <1>1, <2>2, TopicFacts, Zenon
      <3> QED BY <1>2, <1>6, <2>2, <3>1, Zenon
    <2> QED BY <2>1, <2>2, Zenon
  <1>8. ASSUME NEW a \in Account, Reported(a) PROVE Reported(a)'
    <2>1. /\ Bus!Range(inbox[s]) = {m} \cup Bus!Range(Tail(inbox[s]))
          /\ Bus!Range(handled') = Bus!Range(handled) \cup {m}
      <3>1. inbox[s] \in Seq(Message) /\ handled \in Seq(Message)
        BY <1>0, <1>1, Zenon
      <3> QED BY <1>2, <1>4, <3>1, RangeFacts, Zenon
    <2>2. "wallet.created" \in Subject
      BY SubjectFacts, TopicFacts, Zenon
    <2> HIDE DEF m
    <2>3. CASE s = "wallet.created"
      BY <1>2, <1>8, <2>1, <2>3, Zenon DEF Reported
    <2>4. CASE s # "wallet.created"
      BY <1>2, <1>8, <2>1, <2>2, <2>4, Zenon DEF Reported
    <2> QED BY <2>3, <2>4, Zenon
  <1> QED BY <1>7, <1>8, Zenon

LEMMA UnsubscribeNotice ==
    ASSUME Bus!TypeOK, Ways, Bus!Unsubscribe
    PROVE  Ways' /\ \A a \in Account : Reported(a) => Reported(a)'
  <1>1. /\ UNCHANGED <<published, buffer, handled>>
        /\ inbox' = [s \in Subject |-> <<>>]
        /\ lost' = lost \cup UNION {Bus!Range(inbox[s]) : s \in Subject}
    BY Zenon DEF Bus!Unsubscribe
  <1>2. ASSUME NEW q \in Service
        PROVE  Way(published'[q], Topic(q), handled', inbox'[Topic(q)], buffer'[q])
    <2>0. /\ published[q] \in Seq(Message) /\ buffer[q] \in Seq(Message)
          /\ inbox[Topic(q)] \in Seq(Message) /\ handled \in Seq(Message)
          /\ <<>> \in Seq(Message)
      BY TopicFacts DEF Bus!TypeOK
    <2>1. Way(published[q], Topic(q), handled, inbox[Topic(q)], buffer[q])
      BY Zenon DEF Ways
    <2>2. Remains(<<>>, inbox[Topic(q)]) /\ Remains(buffer[q], buffer[q])
      BY <2>0, RemainsFacts, Zenon
    <2>3. Way(published[q], Topic(q), handled, <<>>, buffer[q])
      BY <2>0, <2>1, <2>2, WayTrim, ZenonT(30)
    <2> QED BY <1>1, <2>3, TopicFacts, Zenon
  <1>3. "wallet.created" \in Subject
    BY SubjectFacts, TopicFacts, Zenon
  <1>4. ASSUME NEW a \in Account, Reported(a) PROVE Reported(a)'
    BY <1>1, <1>3, <1>4, Zenon DEF Reported
  <1> QED BY <1>2, <1>4, Zenon DEF Ways

LEMMA ExitNotice ==
    ASSUME Bus!TypeOK, Ways, NEW p \in Service, Bus!Exit(p)
    PROVE  Ways' /\ \A a \in Account : Reported(a) => Reported(a)'
  <1>1. /\ UNCHANGED <<published, inbox, handled>>
        /\ buffer'[p] = <<>> /\ lost' = lost \cup Bus!Range(buffer[p])
        /\ \A q \in Service \ {p} : buffer'[q] = buffer[q]
    BY Zenon DEF Bus!Exit, Bus!TypeOK
  <1>2. ASSUME NEW q \in Service
        PROVE  Way(published'[q], Topic(q), handled', inbox'[Topic(q)], buffer'[q])
    <2>0. /\ published[q] \in Seq(Message) /\ buffer[q] \in Seq(Message)
          /\ inbox[Topic(q)] \in Seq(Message) /\ handled \in Seq(Message)
          /\ <<>> \in Seq(Message)
      BY TopicFacts DEF Bus!TypeOK
    <2>1. Way(published[q], Topic(q), handled, inbox[Topic(q)], buffer[q])
      BY Zenon DEF Ways
    <2>2. Remains(<<>>, buffer[q]) /\ Remains(inbox[Topic(q)], inbox[Topic(q)])
      BY <2>0, RemainsFacts, Zenon
    <2>3. Way(published[q], Topic(q), handled, inbox[Topic(q)], <<>>)
      BY <2>0, <2>1, <2>2, WayTrim, ZenonT(30)
    <2> QED BY <1>1, <2>1, <2>3, Zenon
  <1>3. ASSUME NEW a \in Account, Reported(a) PROVE Reported(a)'
    <2>1. CASE p = "wallet"
      BY <1>1, <1>3, <2>1, Zenon DEF Reported
    <2>2. CASE p # "wallet"
      BY <1>1, <1>3, <2>2, SubjectFacts, Zenon DEF Reported
    <2> QED BY <2>1, <2>2
  <1> QED BY <1>2, <1>3, Zenon DEF Ways

LEMMA OutageNotice ==
    ASSUME Bus!TypeOK, Ways, Bus!Outage
    PROVE  Ways' /\ \A a \in Account : Reported(a) => Reported(a)'
  <1>1. PICK n :
          /\ \A p \in Service : n[p] \in Nat /\ n[p] <= Len(buffer[p])
          /\ buffer' = [p \in Service |-> SubSeq(buffer[p], n[p] + 1, Len(buffer[p]))]
          /\ lost' = lost \cup UNION {Bus!Range(SubSeq(buffer[p], 1, n[p])) : p \in Service}
    BY OutageCut, Zenon
  <1>2. UNCHANGED <<published, inbox, handled>>
    BY Zenon DEF Bus!Outage
  <1>3. ASSUME NEW q \in Service
        PROVE  /\ Way(published'[q], Topic(q), handled', inbox'[Topic(q)], buffer'[q])
               /\ Bus!Range(buffer[q]) \subseteq Bus!Range(buffer'[q]) \cup lost'
    <2>0. /\ published[q] \in Seq(Message) /\ buffer[q] \in Seq(Message)
          /\ inbox[Topic(q)] \in Seq(Message) /\ handled \in Seq(Message)
          /\ n[q] \in Nat /\ n[q] <= Len(buffer[q])
      BY <1>1, TopicFacts, Zenon DEF Bus!TypeOK
    <2>1. Way(published[q], Topic(q), handled, inbox[Topic(q)], buffer[q])
      BY Zenon DEF Ways
    <2> DEFINE left == SubSeq(buffer[q], n[q] + 1, Len(buffer[q]))
    <2>2. Remains(left, buffer[q]) /\ Remains(inbox[Topic(q)], inbox[Topic(q)])
      BY <2>0, RemainsFacts, ZenonT(30)
    <2>3. /\ left \in Seq(Message)
          /\ Bus!Range(buffer[q]) \subseteq Bus!Range(SubSeq(buffer[q], 1, n[q])) \cup Bus!Range(left)
      BY <2>0, RangeSplit, Zenon
    <2>4. buffer'[q] = left
      BY <1>1, Zenon
    <2>5. Bus!Range(SubSeq(buffer[q], 1, n[q])) \subseteq lost'
      BY <1>1, Zenon
    <2> HIDE DEF left
    <2>6. Way(published[q], Topic(q), handled, inbox[Topic(q)], left)
      BY <2>0, <2>1, <2>2, <2>3, WayTrim, Zenon
    <2> QED BY <1>2, <2>3, <2>4, <2>5, <2>6, Zenon
  <1>4. lost \subseteq lost'
    BY <1>1, Zenon
  <1>5. ASSUME NEW a \in Account, Reported(a) PROVE Reported(a)'
    BY <1>2, <1>3, <1>4, <1>5, SubjectFacts, Zenon DEF Reported
  <1> QED BY <1>3, <1>5, Zenon DEF Ways

(* The wallet service publishes accounts only.                             *)
LEMMA WalletPublishes ==
    ASSUME Bus!TypeOK, Ways
    PROVE  Bus!Range(published["wallet"]) \subseteq Account
  <1>1. "wallet" \in Service /\ published["wallet"] \in Seq(Message)
    BY SubjectFacts, Zenon DEF Bus!TypeOK
  <1>2. Way(published["wallet"], Topic("wallet"), handled, inbox[Topic("wallet")],
            buffer["wallet"])
    BY <1>1, Zenon DEF Ways
  <1>3. \A k \in DOMAIN published["wallet"] :
          /\ published["wallet"][k] \in Message
          /\ SubjectOf[published["wallet"][k]] = "wallet.created"
    BY <1>1, <1>2, TopicFacts DEF Way
  <1> QED BY <1>3, ZenonT(30) DEF Bus!Range, SubjectOf, Message

(* A step of the bus alone.                                                *)
LEMMA BusNotice ==
    ASSUME NoticeInv, Ways', UNCHANGED <<pc, answered, published>>,
           \A a \in Account : Reported(a) => Reported(a)'
    PROVE  NoticeInv'
  BY Zenon DEF NoticeInv

(* A step of the wallet service that publishes nothing.                    *)
LEMMA QuietNotice ==
    ASSUME WInv, NoticeInv,
           UNCHANGED <<buffer, inbox, published, handled, lost>>,
           \A a \in Account : /\ pc[a] = "announced" => pc'[a] \in {"announced", "end"}
                              /\ pc[a] = "end" => pc'[a] = "end"
                              /\ pc'[a] = "announced" => pc[a] = "announced"
                              /\ a \in answered' => a \in answered \/ pc[a] = "announced"
    PROVE  NoticeInv'
  <1>1. Ways'
    BY Zenon DEF NoticeInv, Ways
  <1>2. \A a \in Account : Reported(a) => Reported(a)'
    BY Zenon DEF Reported
  <1>3. Bus!Range(published["wallet"]) \subseteq Account
    BY WalletPublishes, Zenon DEF WInv, TypeOK, NoticeInv
  <1>4. \A a \in Bus!Range(published'["wallet"]) : pc'[a] \in {"announced", "end"}
    BY <1>3, Zenon DEF NoticeInv
  <1>5. \A a \in Account : pc'[a] = "announced" \/ a \in answered' => Reported(a)'
    BY <1>2, Zenon DEF NoticeInv
  <1> QED BY <1>1, <1>4, <1>5, Zenon DEF NoticeInv

LEMMA RestartNotice ==
    ASSUME WInv, NoticeInv, Restarted
    PROVE  NoticeInv'
  <1>1. Bus!TypeOK /\ Ways /\ WalletType /\ "wallet" \in Service
    BY SubjectFacts, Zenon DEF WInv, TypeOK, NoticeInv
  <1>2. Ways' /\ \A a \in Account : Reported(a) => Reported(a)'
    BY <1>1, ExitNotice, Zenon DEF Restarted
  <1>3. UNCHANGED <<published, answered>>
    BY Zenon DEF Restarted, Bus!Exit
  <1>4. \A a \in Account : /\ pc'[a] # "announced"
                           /\ pc[a] \in {"announced", "end"} => pc'[a] = "end"
    BY <1>1, Zenon DEF Restarted, InFlight, WalletType
  <1>5. Bus!Range(published["wallet"]) \subseteq Account
    BY <1>1, WalletPublishes, Zenon
  <1> QED BY <1>2, <1>3, <1>4, <1>5, Zenon DEF NoticeInv

LEMMA NoticeStep ==
    ASSUME WInv, NoticeInv, [Next]_vars
    PROVE  NoticeInv'
  <1>0. Bus!TypeOK /\ WalletType /\ Ways
    BY Zenon DEF WInv, TypeOK, NoticeInv
  <1>1. CASE UNCHANGED vars
    BY <1>1, QuietNotice, Zenon DEF vars, bus, wallet
  <1>2. ASSUME NEW a \in Account, NewAccount(a) PROVE NoticeInv'
    <2>1. /\ UNCHANGED <<buffer, inbox, published, handled, lost, answered>>
          /\ pc[a] = "none" /\ pc'[a] \in {"account", "failed"}
          /\ \A x \in Account \ {a} : pc'[x] = pc[x]
      BY <1>0, <1>2, Zenon DEF NewAccount, bus, WalletType
    <2> QED BY <2>1, QuietNotice, Zenon
  <1>3. ASSUME NEW a \in Account, Record(a) PROVE NoticeInv'
    <2>1. /\ pc[a] = "account" /\ pc'[a] = "announced" /\ answered' = answered
          /\ \A x \in Account \ {a} : pc'[x] = pc[x]
      BY <1>0, <1>3, Zenon DEF Record, WalletType
    <2>2. a \notin Bus!Range(published["wallet"])
      BY <2>1, Zenon DEF NoticeInv
    <2>3. a \in Message /\ SubjectOf[a] = Topic("wallet") /\ "wallet" \in Service
      BY TopicFacts, SubjectFacts, Zenon
    <2>4. /\ Ways' /\ Reported(a)'
          /\ \A x \in Account : Reported(x) => Reported(x)'
          /\ Bus!Range(published'["wallet"]) \subseteq Bus!Range(published["wallet"]) \cup {a}
      BY <1>0, <1>3, <2>2, <2>3, PublishNotice, Zenon DEF Record
    <2>5. Bus!Range(published["wallet"]) \subseteq Account
      BY <1>0, WalletPublishes, Zenon
    <2>6. \A x \in Bus!Range(published'["wallet"]) : pc'[x] \in {"announced", "end"}
      BY <2>1, <2>4, <2>5, Zenon DEF NoticeInv
    <2>7. \A x \in Account : pc'[x] = "announced" \/ x \in answered' => Reported(x)'
      BY <2>1, <2>4, Zenon DEF NoticeInv
    <2> QED BY <2>4, <2>6, <2>7, Zenon DEF NoticeInv
  <1>4. ASSUME NEW a \in Account, Respond(a) PROVE NoticeInv'
    <2>1. /\ UNCHANGED <<buffer, inbox, published, handled, lost>>
          /\ pc[a] = "announced" /\ pc'[a] = "end" /\ answered' = answered \cup {a}
          /\ \A x \in Account \ {a} : pc'[x] = pc[x]
      BY <1>0, <1>4, Zenon DEF Respond, bus, WalletType
    <2> QED BY <2>1, QuietNotice, Zenon
  <1>5. CASE Accounts \/ ListEnds \/ Signal \/ \E a \in Account : CreationTime(a)
    <2>1. UNCHANGED <<buffer, inbox, published, handled, lost, pc, answered>>
      BY <1>5, ZenonT(60) DEF Accounts, ListEnds, Signal, CreationTime, bus
    <2> QED BY <2>1, QuietNotice, Zenon
  <1>6. CASE Shutdown \/ Start
    <2>1. UNCHANGED <<buffer, inbox, published, handled, lost, pc, answered>>
      BY <1>6, Zenon DEF Shutdown, Start, Bus!Close, Bus!Subscribe, wallet
    <2> QED BY <2>1, QuietNotice
  <1>7. CASE Exit \/ Crash
    BY <1>7, RestartNotice, Zenon DEF Exit, Crash
  <1>8. CASE Stop
    <2>1. UNCHANGED <<pc, answered, published>>
      BY <1>8, Zenon DEF Stop, Bus!Unsubscribe, wallet
    <2> QED BY <1>0, <1>8, <2>1, UnsubscribeNotice, BusNotice, Zenon DEF Stop
  <1>9. ASSUME NEW m \in ChainEvent, PublishChain(m) PROVE NoticeInv'
    <2>1. m \notin Bus!Range(published["chainmonitor"]) /\ UNCHANGED <<pc, answered>>
      BY <1>9, Zenon DEF PublishChain, Bus!Range, wallet
    <2>2. /\ m \in Message /\ SubjectOf[m] = Topic("chainmonitor")
          /\ "chainmonitor" \in Service /\ "wallet" \in Service \ {"chainmonitor"}
      BY TopicFacts, SubjectFacts, Zenon
    <2>3. /\ Ways' /\ \A x \in Account : Reported(x) => Reported(x)'
          /\ published'["wallet"] = published["wallet"]
      BY <1>0, <1>9, <2>1, <2>2, PublishNotice, Zenon DEF PublishChain
    <2> QED BY <2>1, <2>3, Zenon DEF NoticeInv
  <1>10. CASE Outage
    <2>1. UNCHANGED <<pc, answered, published>>
      BY <1>10, Zenon DEF Outage, Bus!Outage, wallet
    <2> QED BY <1>0, <1>10, <2>1, OutageNotice, BusNotice, Zenon DEF Outage
  <1>11. CASE BusStep
    <2>0. UNCHANGED <<pc, answered>>
      BY <1>11, Zenon DEF BusStep, wallet
    <2>1. ASSUME NEW p \in Service, Bus!Flush(p) PROVE NoticeInv'
      <3>1. UNCHANGED published
        BY <2>1, Zenon DEF Bus!Flush
      <3> QED BY <1>0, <2>0, <2>1, <3>1, FlushNotice, BusNotice, Zenon
    <2>2. ASSUME NEW s \in subs, Bus!Deliver(s) PROVE NoticeInv'
      <3>1. UNCHANGED published /\ s \in Subject
        BY <1>0, <2>2, Zenon DEF Bus!Deliver, Bus!TypeOK
      <3> QED BY <1>0, <2>0, <2>2, <3>1, DeliverNotice, BusNotice, Zenon
    <2>3. ASSUME NEW c \in Service \cup {"notification"}, Bus!Reconnect(c) PROVE NoticeInv'
      BY <2>0, <2>3, QuietNotice, Zenon DEF Bus!Reconnect
    <2> QED BY <1>11, <2>1, <2>2, <2>3, Zenon DEF BusStep
  <1> QED BY <1>1, <1>2, <1>3, <1>4, <1>5, <1>6, <1>7, <1>8, <1>9, <1>10, <1>11, Zenon
          DEF Next, Create

LEMMA NoticeInit == Init => NoticeInv
  <1> SUFFICES ASSUME Init PROVE NoticeInv
    OBVIOUS
  <1>1. Way(<<>>, "wallet.created", <<>>, <<>>, <<>>) /\ Way(<<>>, "chain.reorg", <<>>, <<>>, <<>>)
    BY DEF Way, Sorted, Follow
  <1>2. Ways
    BY <1>1, TopicFacts, Zenon DEF Ways, Init, Bus!Init, Topic
  <1>3. Bus!Range(published["wallet"]) = {}
    BY SubjectFacts DEF Init, Bus!Init, Bus!Range
  <1>4. \A a \in Account : pc[a] # "announced" /\ a \notin answered
    BY Zenon DEF Init
  <1> QED BY <1>2, <1>3, <1>4, Zenon DEF NoticeInv

(* The events of each service stay in order on their way through the bus   *)
(* and to the handler, through every outage, restart and full queue.       *)
THEOREM NoticeInvariant == Spec => []NoticeInv
  BY WalletInvariant, NoticeInit, NoticeStep, PTL DEF Spec

(* The consumer handles an event at most once and in its publisher's       *)
(* order, and an announced wallet is on disk, for any accounts, events,    *)
(* queue limit and number of outages and restarts.                         *)
THEOREM NoticesStayFaithful == Spec => []NoticesAreFaithful
  <1>1. WInv /\ NoticeInv => NoticesAreFaithful
    <2> SUFFICES ASSUME WInv, NoticeInv PROVE NoticesAreFaithful
      BY Zenon
    <2>0. Bus!TypeOK /\ Ways
      BY Zenon DEF WInv, TypeOK, NoticeInv
    <2>1. ASSUME NEW i \in DOMAIN handled
          PROVE  /\ handled[i] \in Message
                 /\ \E p \in Service : SubjectOf[handled[i]] = Topic(p)
      <3>1. handled[i] \in Message
        BY <2>0 DEF Bus!TypeOK
      <3>2. SubjectOf[handled[i]] \in Subject
        BY <3>1, SubjectFacts, Zenon
      <3>3. PICK p \in Service : Topic(p) = SubjectOf[handled[i]]
        BY <3>2, TopicFacts, Zenon
      <3> QED BY <3>1, <3>3, Zenon
    <2>2. ASSUME NEW i \in DOMAIN handled, NEW j \in DOMAIN handled, i < j,
                 SubjectOf[handled[i]] = SubjectOf[handled[j]]
          PROVE  /\ handled[i] # handled[j]
                 /\ \E p \in Service : InOrder(published[p], handled[i], handled[j])
      <3>1. PICK p \in Service : SubjectOf[handled[i]] = Topic(p)
        BY <2>1, Zenon
      <3>2. Way(published[p], Topic(p), handled, inbox[Topic(p)], buffer[p])
        BY <2>0, Zenon DEF Ways
      <3>3. InOrder(published[p], handled[i], handled[j])
        BY <2>2, <3>1, <3>2, ZenonT(60) DEF Way, Sorted
      <3>4. handled[i] # handled[j]
        BY <3>2, <3>3, ZenonT(60) DEF InOrder, Way
      <3> QED BY <3>3, <3>4, Zenon
    <2>3. ASSUME NEW i \in DOMAIN handled, handled[i] \in Account
          PROVE  handled[i] \in keystore
      <3>1. "wallet" \in Service /\ SubjectOf[handled[i]] = Topic("wallet")
        BY <2>3, SubjectFacts, TopicFacts, Zenon
      <3>2. handled[i] \in Bus!Range(published["wallet"])
        <4>1. Way(published["wallet"], Topic("wallet"), handled, inbox[Topic("wallet")],
                  buffer["wallet"])
          BY <2>0, <3>1, Zenon DEF Ways
        <4> QED BY <2>3, <3>1, <4>1, Zenon DEF Way
      <3>3. pc[handled[i]] \notin {"none", "failed"}
        BY <3>2, Zenon DEF NoticeInv
      <3> QED BY <2>3, <3>3, Zenon DEF WInv, CreateInv
    <2> QED BY <2>2, <2>3, Zenon DEF NoticesAreFaithful
  <1> QED BY <1>1, WalletInvariant, NoticeInvariant, PTL

(* Every wallet answered with 201 was announced, and its event is handled, *)
(* on its way or recorded as lost, whatever happens to bus and processes.  *)
THEOREM AnswersAreAnnounced == Spec => []AnsweredIsAnnounced
  <1>1. WInv /\ NoticeInv => AnsweredIsAnnounced
    BY Zenon DEF WInv, TypeOK, WalletType, NoticeInv, AnsweredIsAnnounced
  <1> QED BY <1>1, WalletInvariant, NoticeInvariant, PTL

=============================================================================
