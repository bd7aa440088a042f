------------------------- MODULE ChainMonitorProofs -------------------------
(***************************************************************************)
(* Proofs about ChainMonitor for every block tree, every CONFIRMATIONS,    *)
(* every start block and any number of reorganisations and faults.         *)
(***************************************************************************)
EXTENDS ChainMonitor, TLAPS, NaturalsInduction, WellFoundedInduction

(* A non-empty set of naturals has a least element.                        *)
LEMMA LeastNat ==
    ASSUME NEW S \in SUBSET Nat, S # {}
    PROVE  \E m \in S : \A k \in S : m <= k
<1>1. PICK m \in S : \A k \in S : ~(<<k, m>> \in OpToRel(<, Nat))
  BY NatLessThanWellFounded, WFMin, Zenon
<1>2. \A k \in S : m <= k
  <2> SUFFICES ASSUME NEW k \in S, k < m PROVE FALSE
    OBVIOUS
  <2>1. <<k, m>> \in Nat \X Nat /\ <<k, m>>[1] < <<k, m>>[2]
    OBVIOUS
  <2>2. <<k, m>> \in OpToRel(<, Nat)
    BY <2>1, Zenon DEF OpToRel
  <2> QED
    BY <1>1, <2>2, Zenon
<1> QED
  BY <1>2

(* LastBlock is the highest indexed height (SELECT ... ORDER BY number     *)
(* DESC LIMIT 1), which exists because heights are bounded.                *)
LEMMA LastBlockIsHighest ==
    ASSUME StoreTypeOK, Indexed # {}
    PROVE  /\ LastBlock \in Indexed
           /\ \A n \in Indexed : n <= LastBlock
<1> DEFINE D == {d \in Nat : d <= MaxHeight /\ MaxHeight - d \in Indexed}
<1>0. MaxHeight \in Nat /\ Indexed \subseteq Height
  BY NodeAssumption DEF Indexed
<1>1. PICK n \in Indexed : TRUE
  OBVIOUS
<1>2. MaxHeight - n \in D
  BY <1>0, <1>1 DEF Height
<1>3. PICK d \in D : \A e \in D : d <= e
  BY <1>2, LeastNat, Zenon
<1>4. \A m \in Indexed : m <= MaxHeight - d
  <2> TAKE m \in Indexed
  <2>1. MaxHeight - m \in D
    BY <1>0 DEF Height
  <2>2. d <= MaxHeight - m
    BY <2>1, <1>3, Zenon
  <2>3. d \in Nat /\ m \in Nat
    BY <1>0, <1>3 DEF Height
  <2> QED
    BY <2>2, <2>3, <1>0
<1>5. MaxHeight - d \in Indexed
  BY <1>3
<1> HIDE DEF D
<1> QED
  BY <1>4, <1>5, Zenon DEF LastBlock

(* Two linked runs of headers that agree at one height agree at every      *)
(* lower height: a header commits to its parent.  This is why checking the *)
(* tip alone (canon.Hash() != last.Hash) validates the whole index.        *)
LEMMA AgreeBelow ==
    ASSUME StoreTypeOK, IndexLinked, IsChain(canon, head), head \in Height,
           NEW hi \in Indexed, blocks[hi] = canon[hi]
    PROVE  \A n \in Indexed : n <= hi => blocks[n] = canon[n]
<1> DEFINE Bad == {d \in Nat : /\ d <= hi
                               /\ hi - d \in Indexed
                               /\ blocks[hi - d] # canon[hi - d]}
<1>0. MaxHeight \in Nat /\ Indexed \subseteq Height /\ hi \in Height
  BY NodeAssumption DEF Indexed
<1>1. SUFFICES ASSUME Bad # {} PROVE FALSE
  <2> TAKE n \in Indexed
  <2> HAVE n <= hi
  <2>1. hi - (hi - n) = n /\ hi - n \in Nat /\ hi - n <= hi
    BY <1>0 DEF Height
  <2>2. hi - n \notin Bad
    BY <1>1
  <2> QED
    BY <2>1, <2>2
<1>2. PICK d \in Bad : \A e \in Bad : d <= e
  <2>1. Bad \in SUBSET Nat
    OBVIOUS
  <2> HIDE DEF Bad
  <2> QED
    BY <2>1, <1>1, LeastNat, Zenon
<1>3. d \in Nat /\ d <= hi /\ hi - d \in Indexed /\ blocks[hi - d] # canon[hi - d]
  BY <1>2
<1>4. d > 0
  BY <1>3, <1>0 DEF Height
<1> DEFINE k == hi - d
<1>5. k \in Height /\ k + 1 \in Height /\ k + 1 \in k..hi /\ (k + 1) - 1 = k
  BY <1>0, <1>3, <1>4 DEF Height
<1>6. k + 1 \in Indexed
  BY <1>3, <1>5 DEF IndexLinked
<1>7. blocks[k + 1] = canon[k + 1]
  <2>1. d - 1 \in Nat /\ d - 1 <= hi /\ hi - (d - 1) = k + 1 /\ ~(d <= d - 1)
    BY <1>0, <1>3, <1>4 DEF Height
  <2>2. d - 1 \notin Bad
    BY <1>2, <2>1
  <2> QED
    BY <1>6, <2>1, <2>2
<1>8. Parent[blocks[k + 1]] = blocks[k]
  BY <1>3, <1>5, <1>6 DEF IndexLinked
<1>9. canon[k + 1] # NoHash
  BY <1>6, <1>7, Zenon DEF Indexed
<1>10. k + 1 \in 1..head
  BY <1>5, <1>9, <1>0 DEF IsChain, Height
<1>11. Parent[canon[k + 1]] = canon[k]
  BY <1>5, <1>10, Zenon DEF IsChain
<1> QED
  BY <1>3, <1>7, <1>8, <1>11

-----------------------------------------------------------------------------
(***************************************************************************)
(* What the three store operations do to the index.                        *)
(***************************************************************************)

(* The tables are well typed, the blocks linked, the foreign key holds.    *)
StoreInv ==
    /\ StoreTypeOK
    /\ IndexLinked
    /\ \A r \in transfers : r.block \in Indexed

(* SaveBlock puts its block on top of the index.                           *)
LEMMA SaveExtendsIndex ==
    ASSUME IndexInv, pc = "save", SaveFetched
    PROVE  /\ StoreInv'
           /\ cursor \in Indexed'
           /\ blocks'[cursor] = header
           /\ \A n \in Indexed' : n <= cursor
<1>1. cursor \in Height /\ header \in Hash /\ header # NoHash /\ MaxHeight \in Nat
  BY NodeAssumption DEF IndexInv, TypeOK, Height
<1>2. blocks \in [Height -> Hash \cup {NoHash}] /\ transfers \subseteq Row
  BY DEF IndexInv, TypeOK, StoreTypeOK
<1>3. blocks' = [blocks EXCEPT ![cursor] = header]
  BY DEF SaveFetched, SaveBlock
<1>4. /\ \A n \in Indexed : n < cursor
      /\ Indexed # {} => cursor - 1 \in Indexed
      /\ cursor - 1 \in Indexed => Parent[header] = blocks[cursor - 1]
  BY DEF IndexInv
<1>5. Indexed' = Indexed \cup {cursor}
  BY <1>1, <1>2, <1>3 DEF Indexed
<1>6. Indexed \subseteq Height /\ cursor \notin Indexed
  BY <1>4, <1>1 DEF Indexed, Height
<1>7. StoreTypeOK'
  <2>1. fetched \subseteq Log /\ Deep \in BOOLEAN
    BY MonitorAssumption DEF IndexInv, TypeOK, Deep
  <2>2. \A l \in fetched : [log |-> l, block |-> cursor, confirmed |-> Deep] \in Row
    BY <2>1, <1>1 DEF Row
  <2>3. transfers' \subseteq Row
    BY <1>2, <2>2 DEF SaveFetched, SaveBlock
  <2> QED
    BY <1>1, <1>2, <1>3, <2>3 DEF StoreTypeOK
<1>8. \A m, n \in Indexed' : m..n \subseteq Indexed'
  <2> SUFFICES ASSUME NEW m \in Indexed', NEW n \in Indexed', NEW k \in m..n
               PROVE  k \in Indexed'
    OBVIOUS
  <2>0. m \in Height /\ n \in Height /\ m <= k /\ k <= n /\ k \in Int
    BY <1>1, <1>5, <1>6 DEF Height
  <2>1. CASE n = cursor /\ k # cursor
    <3>1. m \in Indexed /\ cursor - 1 \in Indexed /\ k \in m..(cursor - 1)
      BY <2>0, <2>1, <1>1, <1>4, <1>5 DEF Height
    <3> QED
      BY <3>1, <1>5, Zenon DEF IndexInv, IndexLinked
  <2>2. CASE n # cursor
    <3>1. n \in Indexed /\ m \in Indexed
      BY <2>0, <2>2, <1>1, <1>4, <1>5 DEF Height
    <3> QED
      BY <3>1, <1>5, Zenon DEF IndexInv, IndexLinked
  <2> QED
    BY <2>1, <2>2, <1>5
<1>9. \A n \in Indexed' : n - 1 \in Indexed' => Parent[blocks'[n]] = blocks'[n - 1]
  <2> SUFFICES ASSUME NEW n \in Indexed', n - 1 \in Indexed'
               PROVE  Parent[blocks'[n]] = blocks'[n - 1]
    OBVIOUS
  <2>a. n \in Height /\ n - 1 \in Height /\ n <= cursor
    BY <1>1, <1>4, <1>5, <1>6 DEF Height
  <2>b. n - 1 # cursor
    BY <2>a, <1>1 DEF Height
  <2>0. n \in Height /\ n - 1 \in Indexed /\ blocks'[n - 1] = blocks[n - 1]
    BY <2>a, <2>b, <1>2, <1>3, <1>5
  <2>1. CASE n = cursor
    BY <2>0, <2>1, <1>1, <1>2, <1>3, <1>4, Zenon
  <2>2. CASE n # cursor
    <3>1. n \in Indexed /\ blocks'[n] = blocks[n]
      BY <2>0, <2>2, <1>2, <1>3, <1>5
    <3> QED
      BY <3>1, <2>0, Zenon DEF IndexInv, IndexLinked
  <2> QED
    BY <2>1, <2>2, Zenon
<1>10. \A r \in transfers' : r.block \in Indexed'
  BY <1>5 DEF SaveFetched, SaveBlock, IndexInv
<1> QED
  BY <1>1, <1>2, <1>3, <1>4, <1>5, <1>6, <1>7, <1>8, <1>9, <1>10
     DEF StoreInv, IndexLinked, Height

(* DeleteFrom cuts the index off at a height and cascades to the transfers.*)
LEMMA DeleteCutsIndex ==
    ASSUME IndexInv, cursor \in Height, DeleteFrom(cursor)
    PROVE  StoreInv'
<1>1. blocks \in [Height -> Hash \cup {NoHash}] /\ transfers \subseteq Row
  BY Zenon DEF IndexInv, TypeOK, StoreTypeOK
<1>2. \A n \in Height : blocks'[n] = IF n >= cursor THEN NoHash ELSE blocks[n]
  BY DEF DeleteFrom
<1>3. Indexed' = {n \in Indexed : n < cursor} /\ Indexed \subseteq Height
  BY <1>2, NodeAssumption DEF Indexed, Height
<1>4. StoreTypeOK'
  BY <1>1, Zenon DEF DeleteFrom, StoreTypeOK
<1>5. \A m, n \in Indexed' : m..n \subseteq Indexed'
  <2> SUFFICES ASSUME NEW m \in Indexed', NEW n \in Indexed', NEW k \in m..n
               PROVE  k \in Indexed'
    OBVIOUS
  <2>1. k \in Indexed
    BY <1>3 DEF IndexInv, IndexLinked
  <2> QED
    BY <2>1, <1>3, NodeAssumption DEF Height
<1>6. \A n \in Indexed' : n - 1 \in Indexed' => Parent[blocks'[n]] = blocks'[n - 1]
  BY <1>2, <1>3, NodeAssumption DEF IndexInv, IndexLinked, Height
<1>7. \A r \in transfers' : r.block \in Indexed'
  BY <1>3, Zenon DEF DeleteFrom, IndexInv
<1> QED
  BY <1>4, <1>5, <1>6, <1>7 DEF StoreInv, IndexLinked

(* ConfirmThrough changes only the confirmed column.                       *)
LEMMA ConfirmKeepsIndex ==
    ASSUME IndexInv, NEW h \in Int, ConfirmThrough(h)
    PROVE  StoreInv'
<1>1. \A r \in transfers : r \in Row /\ r.block \in Indexed
  BY Zenon DEF IndexInv, TypeOK, StoreTypeOK
<1>2. \A r \in transfers : LET s == [r EXCEPT !.confirmed = @ \/ r.block <= h]
                           IN  s \in Row /\ s.block = r.block
  BY <1>1, ZenonT(30) DEF Row
<1>3. \A s \in transfers' : s \in Row /\ s.block \in Indexed
  BY <1>1, <1>2, ZenonT(60) DEF ConfirmThrough
<1>4. blocks' = blocks
  BY DEF ConfirmThrough
<1> QED
  BY <1>3, <1>4, Zenon DEF StoreInv, StoreTypeOK, IndexInv, TypeOK, IndexLinked, Indexed

-----------------------------------------------------------------------------
(***************************************************************************)
(* IndexInv is inductive.                                                  *)
(***************************************************************************)

LEMMA IndexInvInit == Init => IndexInv
<1> SUFFICES ASSUME Init PROVE IndexInv
  OBVIOUS
<1>1. Indexed = {}
  BY DEF Init, StoreInit, Indexed
<1>2. NodeTypeOK
  BY NodeAssumption DEF Init, NodeInit, NodeTypeOK, Height
<1>3. StoreTypeOK
  BY DEF Init, StoreInit, StoreTypeOK
<1>4. /\ start \in Height /\ headNum \in Height /\ cursor \in 0..MaxHeight + 1
      /\ faults \in 0..MaxFaults
  BY NodeAssumption, MonitorAssumption DEF Init, Height
<1>5. TypeOK
  BY <1>2, <1>3, <1>4, ZenonT(30) DEF Init, TypeOK
<1> QED
  BY <1>1, <1>5 DEF Init, StoreInit, IndexInv, IndexLinked

(* Leaving Sync keeps the invariant as long as the tables are in order.    *)
LEMMA LeaveSyncKeepsIndexInv ==
    ASSUME IndexInv, StoreInv', NodeTypeOK',
           LeaveSync("idle") \/ LeaveSync("down"),
           start' \in Height,
           view' \in [Height -> Hash \cup {NoHash}],
           announced' \subseteq Row,
           lost' \in BOOLEAN,
           faults' \in 0..MaxFaults
    PROVE  IndexInv'
  BY NodeAssumption
     DEF LeaveSync, StoreInv, IndexInv, TypeOK, Height

(* The node moves the chain only.                                          *)
LEMMA NodeKeepsType ==
    ASSUME NodeTypeOK, Grow \/ Reorg
    PROVE  NodeTypeOK'
<1>1. \A h \in Height : FinalAt(h) \in Height
  BY NodeAssumption DEF NodeTypeOK, FinalAt, Height
<1>2. CASE Grow
  <2>1. head + 1 \in Height
    BY <1>2, NodeAssumption DEF Grow, NodeTypeOK, Height
  <2> QED
    BY <1>1, <1>2, <2>1, Zenon DEF Grow, NodeTypeOK
<1>3. CASE Reorg
  <2>1. PICK b \in Hash, h \in final..MaxHeight :
            /\ IsChain(ChainTo(b, h), h)
            /\ canon' = ChainTo(b, h)
            /\ head' = h
            /\ final' = FinalAt(h)
    BY <1>3, Zenon DEF Reorg
  <2>2. h \in Height /\ canon' \in [Height -> Hash \cup {NoHash}]
    BY <2>1, NodeAssumption DEF IsChain, NodeTypeOK, Height
  <2>3. reorgs' \in 0..MaxReorgs
    BY <1>3, NodeAssumption DEF Reorg, NodeTypeOK
  <2> QED
    BY <1>1, <2>1, <2>2, <2>3, Zenon DEF NodeTypeOK
<1> QED
  BY <1>2, <1>3

(* Publishing an event, delivered or not, touches no table.                *)
LEMMA PublishKeepsIndexInv ==
    ASSUME IndexInv, NEW delivered \in BOOLEAN, Publish(delivered), faults' \in 0..MaxFaults
    PROVE  IndexInv'
<1> USE NodeAssumption, MonitorAssumption
<1>0. TypeOK /\ StoreInv /\ Indexed \subseteq Height
  BY Zenon DEF IndexInv, TypeOK, StoreInv, Indexed
<1>1. CASE PublishBlock(delivered)
  BY <1>0, <1>1, Zenon
     DEF PublishBlock, IndexInv, TypeOK, NodeTypeOK, StoreTypeOK, IndexLinked, Indexed,
         nodeVars, storeVars, syncVars, Calls, Events
<1>2. CASE PublishTransfer(delivered)
  <2>1. PICK l \in fetched :
          /\ fetched' = fetched \ {l}
          /\ announced' = IF delivered
               THEN announced \cup {[log |-> l, block |-> cursor, confirmed |-> Deep]}
               ELSE announced
    BY <1>2, Zenon DEF PublishTransfer
  <2>2. [log |-> l, block |-> cursor, confirmed |-> Deep] \in Row
    BY <1>0, <1>2 DEF PublishTransfer, IndexInv, TypeOK, Row, Deep
  <2>3. fetched' \subseteq Transfer /\ announced' \subseteq Row
    BY <1>0, <2>1, <2>2, Zenon DEF TypeOK
  <2> QED
    BY <1>0, <1>2, <2>3, Zenon
       DEF PublishTransfer, IndexInv, TypeOK, NodeTypeOK, StoreTypeOK, IndexLinked, Indexed,
           nodeVars, storeVars
<1>3. CASE PublishReorg(delivered)
  <2>1. /\ view' \in [Height -> Hash \cup {NoHash}]
        /\ lost' \in BOOLEAN
    BY <1>0, <1>3, Zenon DEF PublishReorg, TypeOK
  <2> QED
    BY <1>0, <1>3, <2>1, LeaveSyncKeepsIndexInv, Zenon
       DEF PublishReorg, Return, TypeOK, NodeTypeOK, StoreTypeOK, StoreInv, IndexLinked,
           Indexed, nodeVars, storeVars
<1> QED
  BY <1>1, <1>2, <1>3, Zenon DEF Publish

(* A step that leaves node and tables alone.                               *)
LEMMA TablesKept ==
    ASSUME StoreInv, NodeTypeOK, UNCHANGED <<nodeVars, storeVars>>
    PROVE  StoreInv' /\ NodeTypeOK' /\ Indexed' = Indexed
  BY Zenon DEF StoreInv, StoreTypeOK, NodeTypeOK, IndexLinked, Indexed, nodeVars, storeVars

LEMMA IndexInvNext == IndexInv /\ [Next]_vars => IndexInv'
<1> SUFFICES ASSUME IndexInv, [Next]_vars PROVE IndexInv'
  BY Zenon
<1> USE NodeAssumption, MonitorAssumption
<1>0. /\ TypeOK /\ NodeTypeOK /\ StoreTypeOK /\ StoreInv
      /\ Indexed \subseteq Height
      /\ faults' = faults => faults' \in 0..MaxFaults
      /\ Fault => faults' \in 0..MaxFaults
  BY DEF IndexInv, TypeOK, StoreInv, Indexed, Fault
<1>1. CASE Boot
  BY <1>1, <1>0 DEF Boot, ResolveStartBlock, IndexInv, TypeOK, NodeTypeOK, StoreTypeOK,
     IndexLinked, Indexed, Height, nodeVars, storeVars, syncVars, busVars, Calls, Events
<1>2. CASE ReadHead
  BY <1>2, <1>0, Zenon DEF ReadHead, IndexInv, TypeOK, NodeTypeOK, StoreTypeOK,
     IndexLinked, Indexed, nodeVars, storeVars, busVars, Calls, Events
<1>3. CASE ReadLastBlock
  <2>1. UNCHANGED <<nodeVars, storeVars, busVars, headNum, fetched, start, faults>>
    BY <1>3, Zenon DEF ReadLastBlock
  <2>2. StoreInv' /\ NodeTypeOK' /\ Indexed' = Indexed
    BY <1>0, <2>1, TablesKept, ZenonT(60)
  <2>3. CASE Indexed = {} /\ cursor' = start /\ pc' = "next" /\ header' = header
    <3>1. TypeOK'
      BY <1>0, <2>1, <2>2, <2>3 DEF StoreInv, TypeOK, Calls, Height, busVars
    <3> QED
      BY <2>2, <2>3, <3>1 DEF IndexInv, StoreInv
  <2>4. CASE /\ Indexed # {} /\ cursor' = LastBlock
             /\ header' = blocks[LastBlock] /\ pc' = "tip"
    <3>1. LastBlock \in Indexed /\ \A n \in Indexed : n <= LastBlock
      BY <1>0, <2>4, LastBlockIsHighest, Zenon
    <3>2. cursor' \in Height /\ header' \in Hash \cup {NoHash}
      BY <1>0, <2>4, <3>1 DEF StoreTypeOK
    <3>3. TypeOK'
      BY <1>0, <2>1, <2>2, <2>4, <3>2 DEF StoreInv, TypeOK, Calls, Height, busVars
    <3>4. blocks' = blocks
      BY <2>1, Zenon DEF storeVars
    <3> QED
      BY <2>2, <2>4, <3>1, <3>3, <3>4 DEF IndexInv, StoreInv
  <2> QED
    BY <1>3, <2>3, <2>4, Zenon DEF ReadLastBlock
<1>4. CASE CheckTip
  <2>1. /\ UNCHANGED <<nodeVars, storeVars, busVars, start, faults>>
        /\ cursor \in Indexed /\ \A n \in Indexed : n <= cursor
    BY <1>4, Zenon DEF CheckTip, IndexInv
  <2>2. StoreInv' /\ NodeTypeOK' /\ Indexed' = Indexed
    BY <1>0, <2>1, TablesKept, Zenon
  <2>3. CASE Return
    BY <1>0, <2>1, <2>2, <2>3, LeaveSyncKeepsIndexInv, Zenon DEF Return, TypeOK, busVars
  <2>4. CASE pc' = "rollback" /\ UNCHANGED syncVars
    <3>1. TypeOK'
      BY <1>0, <2>1, <2>2, <2>4, Zenon DEF StoreInv, TypeOK, syncVars, busVars, Calls, Events
    <3>2. cursor' \in Height
      BY <1>0, <2>1, <2>4, Zenon DEF syncVars
    <3> QED
      BY <2>2, <2>4, <3>1, <3>2, Zenon DEF StoreInv, IndexInv
  <2>5. CASE pc' = "next" /\ cursor' = cursor + 1 /\ UNCHANGED <<headNum, header, fetched>>
    <3>1. cursor \in Height /\ \A n \in Indexed : n \in Int
      BY <1>0, <2>1 DEF Height
    <3>2. TypeOK'
      BY <1>0, <2>1, <2>2, <2>5, <3>1 DEF StoreInv, TypeOK, busVars, Calls, Events, Height
    <3>3. ASSUME NEW n \in Indexed PROVE n < cursor'
      <4>1. n <= cursor /\ n \in Int /\ cursor \in Int /\ cursor' = cursor + 1
        BY <2>1, <2>5, <3>1, <3>3, Zenon DEF Height
      <4> QED
        BY <4>1
    <3>4. cursor' - 1 = cursor
      BY <2>5, <3>1 DEF Height
    <3> QED
      BY <2>1, <2>2, <2>5, <3>2, <3>3, <3>4, Zenon DEF StoreInv, IndexInv
  <2> QED
    BY <1>4, <2>3, <2>4, <2>5, Zenon DEF CheckTip
<1>5. CASE ReadHeader
  <2>1. /\ UNCHANGED <<nodeVars, storeVars, busVars, start, faults>>
        /\ cursor <= headNum /\ \A n \in Indexed : n < cursor
        /\ Indexed # {} => cursor - 1 \in Indexed
    BY <1>5, Zenon DEF ReadHeader, IndexInv
  <2>2. StoreInv' /\ NodeTypeOK' /\ Indexed' = Indexed
    BY <1>0, <2>1, TablesKept, Zenon
  <2>3. CASE Return
    BY <1>0, <2>1, <2>2, <2>3, LeaveSyncKeepsIndexInv, Zenon DEF Return, TypeOK, busVars
  <2>4. CASE /\ HeaderByNumber(cursor) # NoHash /\ header' = HeaderByNumber(cursor)
             /\ pc' = "parent" /\ UNCHANGED <<headNum, cursor, fetched>>
    <3>1. header' \in Hash
      BY <1>0, <2>1, <2>4 DEF HeaderByNumber, TypeOK, NodeTypeOK, Height
    <3>2. TypeOK'
      BY <1>0, <2>1, <2>2, <2>4, <3>1, Zenon DEF StoreInv, TypeOK, busVars, Calls, Events
    <3> QED
      BY <2>1, <2>2, <2>4, <3>1, <3>2, Zenon DEF StoreInv, IndexInv
  <2> QED
    BY <1>5, <2>3, <2>4, Zenon DEF ReadHeader
<1>6. CASE CheckParent
  <2>1. /\ UNCHANGED <<nodeVars, storeVars, busVars, headNum, header, fetched, start, faults>>
        /\ cursor <= headNum /\ header \in Hash /\ \A n \in Indexed : n < cursor
        /\ Indexed # {} => cursor - 1 \in Indexed
    BY <1>6, Zenon DEF CheckParent, IndexInv
  <2>2. StoreInv' /\ NodeTypeOK' /\ Indexed' = Indexed /\ blocks' = blocks
    BY <1>0, <2>1, TablesKept, Zenon DEF storeVars
  <2>3. CASE Diverges /\ cursor' = cursor - 1 /\ pc' = "rollback"
    <3>1. cursor' \in Height
      BY <1>0, <2>1, <2>3 DEF Diverges, TypeOK, Height
    <3>2. TypeOK'
      BY <1>0, <2>1, <2>2, <2>3, <3>1 DEF StoreInv, TypeOK, busVars, Calls, Events, Height
    <3> QED
      BY <2>2, <2>3, <3>1, <3>2, Zenon DEF StoreInv, IndexInv
  <2>4. CASE ~Diverges /\ pc' = "logs" /\ UNCHANGED cursor
    <3>1. TypeOK'
      BY <1>0, <2>1, <2>2, <2>4, Zenon DEF StoreInv, TypeOK, busVars, Calls, Events
    <3>2. cursor - 1 \in Indexed => Parent[header] = blocks[cursor - 1]
      <4>1. cursor - 1 \in Indexed => cursor > 0 /\ blocks[cursor - 1] # NoHash
        BY <1>0 DEF Indexed, Height, TypeOK
      <4> QED
        BY <2>4, <4>1, Zenon DEF Diverges, BlockByNumber
    <3> QED
      BY <2>1, <2>2, <2>4, <3>1, <3>2, Zenon DEF StoreInv, IndexInv
  <2> QED
    BY <1>6, <2>3, <2>4, Zenon DEF CheckParent
<1>7. CASE FetchTransfers
  BY <1>7, <1>0, ZenonT(60) DEF FetchTransfers, Decode, FilterLogs, IndexInv, TypeOK, NodeTypeOK, StoreTypeOK,
     IndexLinked, Indexed, Height, nodeVars, storeVars, busVars, Calls, Events
<1>8. CASE Save
  BY <1>8, <1>0, SaveExtendsIndex, Zenon DEF Save, IndexInv, TypeOK, NodeTypeOK, StoreInv,
     Height, nodeVars, syncVars, busVars, Calls, Events
<1>9. CASE Deliver
  BY <1>9, <1>0, PublishKeepsIndexInv, ZenonT(30) DEF Deliver
<1>10. CASE NextBlock
  <2>1. pc' = "next" /\ cursor' = cursor + 1 /\ Indexed' = Indexed /\ transfers' = transfers
    BY <1>10, Zenon DEF NextBlock, storeVars, Indexed
  <2>2. cursor \in Indexed /\ \A n \in Indexed : n <= cursor
    BY <1>10, ZenonT(60) DEF NextBlock, IndexInv
  <2>3. TypeOK'
    BY <1>10, <1>0, <2>2
       DEF NextBlock, TypeOK, NodeTypeOK, StoreTypeOK, Height, nodeVars, storeVars, busVars,
           Calls, Events
  <2>4. IndexLinked'
    BY <1>10, Zenon DEF NextBlock, IndexInv, IndexLinked, Indexed, storeVars
  <2>5. Indexed' # {} => cursor' - 1 \in Indexed'
    BY <1>0, <2>1, <2>2 DEF Height
  <2>6. \A n \in Indexed' : n < cursor'
    BY <1>0, <2>1, <2>2 DEF Height
  <2> QED
    BY <2>1, <2>3, <2>4, <2>5, <2>6, Zenon DEF IndexInv
<1>11. CASE EndLoop
  <2>1. StoreInv' /\ NodeTypeOK'
    BY <1>11, <1>0, Zenon
       DEF EndLoop, StoreInv, StoreTypeOK, NodeTypeOK, IndexLinked, Indexed, storeVars, nodeVars
  <2>2. CASE pc' = "confirm" /\ UNCHANGED syncVars
    <3>1. TypeOK'
      BY <1>11, <1>0, <2>1, <2>2, Zenon
         DEF EndLoop, StoreInv, TypeOK, syncVars, busVars, Calls, Events
    <3> QED
      BY <2>1, <2>2, <3>1, Zenon DEF StoreInv, IndexInv
  <2>3. CASE Return
    BY <1>11, <1>0, <2>1, <2>3, LeaveSyncKeepsIndexInv, Zenon DEF EndLoop, Return, TypeOK, busVars
  <2> QED
    BY <1>11, <2>2, <2>3, Zenon DEF EndLoop
<1>12. CASE Confirm
  <2>1. StoreInv'
    BY <1>12, <1>0, ConfirmKeepsIndex DEF Confirm, TypeOK, Height
  <2> QED
    BY <2>1, <1>12, <1>0, LeaveSyncKeepsIndexInv, Zenon
       DEF Confirm, Return, TypeOK, NodeTypeOK, nodeVars, busVars
<1>13. CASE Rollback
  <2>1. StoreInv' /\ cursor \in Height
    BY <1>13, <1>0, DeleteCutsIndex, Zenon DEF Rollback, IndexInv
  <2>2. pc' = "reorg" /\ cursor' = cursor
    BY <1>13, Zenon DEF Rollback, syncVars
  <2>3. NodeTypeOK'
    BY <1>13, <1>0, Zenon DEF Rollback, TypeOK, NodeTypeOK, nodeVars
  <2>4. TypeOK'
    BY <2>1, <2>3, <1>13, <1>0, Zenon
       DEF Rollback, StoreInv, TypeOK, syncVars, busVars, Calls, Events
  <2> QED
    BY <2>1, <2>2, <2>4, Zenon DEF StoreInv, IndexInv
<1>14. CASE LoseEvent
  BY <1>14, <1>0, PublishKeepsIndexInv, ZenonT(30) DEF LoseEvent
<1>15. CASE CallFails
  BY <1>15, <1>0, LeaveSyncKeepsIndexInv, Zenon
     DEF CallFails, Return, TypeOK, NodeTypeOK, StoreTypeOK, StoreInv, IndexLinked, Indexed,
         nodeVars, storeVars, busVars
<1>16. CASE CommitUnanswered
  <2>1. StoreInv' /\ lost' \in BOOLEAN
    <3>1. CASE pc = "save" /\ SaveFetched /\ lost' = TRUE
      BY <3>1, SaveExtendsIndex, Zenon
    <3>2. CASE pc = "rollback" /\ DeleteFrom(cursor) /\ lost' = TRUE
      BY <3>2, DeleteCutsIndex, Zenon DEF IndexInv
    <3>3. CASE pc = "confirm" /\ ConfirmThrough(headNum - Confirmations) /\ UNCHANGED lost
      BY <3>3, <1>0, ConfirmKeepsIndex DEF TypeOK, Height
    <3> QED
      BY <3>1, <3>2, <3>3, <1>16, ZenonT(30) DEF CommitUnanswered
  <2> QED
    BY <2>1, <1>16, <1>0, LeaveSyncKeepsIndexInv, Zenon
       DEF CommitUnanswered, Return, TypeOK, NodeTypeOK, nodeVars
<1>17. CASE Crash
  BY <1>17, <1>0, LeaveSyncKeepsIndexInv
     DEF Crash, TypeOK, NodeTypeOK, StoreTypeOK, StoreInv, IndexLinked, Indexed, Height,
         nodeVars, storeVars
<1>18. CASE Node
  <2>1. UNCHANGED <<storeVars, syncVars, busVars, pc, start, faults>> /\ NodeTypeOK'
    BY <1>18, <1>0, NodeKeepsType, Zenon DEF Node
  <2>2. StoreInv' /\ Indexed' = Indexed /\ blocks' = blocks
    BY <1>0, <2>1, Zenon DEF StoreInv, StoreTypeOK, IndexLinked, Indexed, storeVars
  <2>3. TypeOK'
    BY <1>0, <2>1, <2>2, Zenon DEF StoreInv, TypeOK, syncVars, busVars
  <2> QED
    BY <2>1, <2>2, <2>3, Zenon DEF StoreInv, IndexInv, syncVars
<1>19. CASE UNCHANGED vars
  <2>1. UNCHANGED <<nodeVars, storeVars, syncVars, busVars, pc, start, faults>>
    BY <1>19, Zenon DEF vars
  <2>2. StoreInv' /\ NodeTypeOK' /\ Indexed' = Indexed
    BY <1>0, <2>1, TablesKept, Zenon
  <2>3. TypeOK'
    BY <1>0, <2>1, <2>2 DEF StoreInv, TypeOK, syncVars, busVars
  <2>4. /\ blocks' = blocks /\ pc' = pc /\ cursor' = cursor
        /\ header' = header /\ headNum' = headNum
    BY <2>1, Zenon DEF storeVars, syncVars
  <2> QED
    BY <2>2, <2>3, <2>4 DEF IndexInv, StoreInv
<1> QED
  BY <1>1, <1>2, <1>3, <1>4, <1>5, <1>6, <1>7, <1>8, <1>9, <1>10, <1>11, <1>12,
     <1>13, <1>14, <1>15, <1>16, <1>17, <1>18, <1>19, Zenon DEF Next, Sync, Faults

LEMMA IndexInvAlways == Spec => []IndexInv
  BY IndexInvInit, IndexInvNext, PTL DEF Spec

(* Every variable keeps its type: in particular no call of Sync is made    *)
(* with a height outside the chain or a header it has not read.            *)
THEOREM TypeCorrect == Spec => []TypeOK
<1>1. IndexInv => TypeOK
  BY Zenon DEF IndexInv
<1> QED
  BY <1>1, IndexInvAlways, PTL

(* The index is always one unbroken run of linked headers, for any         *)
(* CONFIRMATIONS, through any number of reorganisations, errors and        *)
(* crashes (the parent check in Sync, DeleteFrom in rollback).             *)
THEOREM IndexStaysLinked == Spec => []IndexLinked
<1>1. IndexInv => IndexLinked
  BY Zenon DEF IndexInv
<1> QED
  BY <1>1, IndexInvAlways, PTL

-----------------------------------------------------------------------------
(***************************************************************************)
(* MirrorInv is inductive by itself.                                       *)
(***************************************************************************)

LEMMA MirrorInvInit == Init => MirrorInv
  BY Zenon DEF Init, StoreInit, MirrorInv

LEMMA MirrorInvNext == IndexInv /\ MirrorInv /\ [Next]_vars => MirrorInv'
<1> SUFFICES ASSUME IndexInv, MirrorInv, [Next]_vars PROVE MirrorInv'
  BY Zenon
<1> USE DEF MirrorInv, nodeVars, storeVars, syncVars, busVars
<1>0. /\ blocks \in [Height -> Hash \cup {NoHash}]
      /\ view \in [Height -> Hash \cup {NoHash}]
      /\ lost \in BOOLEAN
  BY Zenon DEF IndexInv, TypeOK, StoreTypeOK
<1>1. CASE Boot
  BY <1>1, Zenon DEF Boot
<1>2. CASE ReadHead \/ ReadLastBlock \/ CheckTip \/ ReadHeader
  BY <1>2, Zenon DEF ReadHead, ReadLastBlock, CheckTip, ReadHeader, Return, LeaveSync
<1>3. CASE CheckParent \/ FetchTransfers \/ NextBlock \/ EndLoop
  BY <1>3, Zenon DEF CheckParent, FetchTransfers, NextBlock, EndLoop, Return, LeaveSync
<1>4. CASE Save
  BY <1>4, Zenon DEF Save, SaveFetched, SaveBlock
<1>5. CASE Rollback
  BY <1>5, Zenon DEF Rollback, DeleteFrom
<1>6. CASE Confirm
  BY <1>6 DEF Confirm, ConfirmThrough, Return, LeaveSync
<1>7. ASSUME NEW delivered \in BOOLEAN, Publish(delivered)
      PROVE  MirrorInv'
  <2>1. CASE PublishBlock(delivered)
    BY <2>1, <1>0, ZenonT(30) DEF PublishBlock
  <2>2. CASE PublishTransfer(delivered)
    BY <2>2, Zenon DEF PublishTransfer
  <2>3. CASE PublishReorg(delivered)
    BY <2>3, <1>0, ZenonT(30) DEF PublishReorg, Return, LeaveSync
  <2> QED
    BY <1>7, <2>1, <2>2, <2>3, Zenon DEF Publish
<1>8. CASE CallFails
  BY <1>8, Zenon DEF CallFails, Return, LeaveSync, Calls
<1>9. CASE CommitUnanswered
  BY <1>9 DEF CommitUnanswered, ConfirmThrough, Return, LeaveSync
<1>10. CASE Crash
  BY <1>10, <1>0, ZenonT(30) DEF Crash, LeaveSync
<1>11. CASE Node
  BY <1>11, Zenon DEF Node
<1>12. CASE UNCHANGED vars
  BY <1>12, Zenon DEF vars
<1> QED
  BY <1>1, <1>2, <1>3, <1>4, <1>5, <1>6, <1>7, <1>8, <1>9, <1>10, <1>11, <1>12, ZenonT(60)
     DEF Next, Sync, Faults, Deliver, LoseEvent

LEMMA MirrorInvAlways == Spec => []MirrorInv
  BY MirrorInvInit, MirrorInvNext, IndexInvAlways, PTL DEF Spec

(* A subscriber that missed no event reconstructs the index exactly from   *)
(* chain.block and chain.reorg, at every moment but the gap between a      *)
(* commit and its event.                                                   *)
THEOREM SubscriberMirrors == Spec => []SubscriberMirrorsIndex
<1>1. MirrorInv => SubscriberMirrorsIndex
  BY Zenon DEF MirrorInv, SubscriberMirrorsIndex
<1> QED
  BY <1>1, MirrorInvAlways, PTL

-----------------------------------------------------------------------------
(***************************************************************************)
(* FinalityInv is inductive when Confirmations >= FinalityDepth.           *)
(***************************************************************************)

(* The node keeps its chain linked and never lets go of a final block.     *)
LEMMA NodeKeepsFinal ==
    ASSUME NodeTypeOK, NodeInv, Grow \/ Reorg
    PROVE  /\ NodeInv'
           /\ final <= final'
           /\ \A n \in 0..final : canon'[n] = canon[n]
<1> USE NodeAssumption DEF Height
<1>1. CASE Grow
  <2>1. PICK h \in Hash : Parent[h] = canon[head] /\ canon' = [canon EXCEPT ![head + 1] = h]
    BY <1>1, ZenonT(30) DEF Grow
  <2>2. /\ head < MaxHeight /\ head' = head + 1 /\ final' = FinalAt(head + 1)
        /\ head \in Nat /\ final \in Nat /\ final <= head
    BY <1>1 DEF Grow, NodeTypeOK, NodeInv
  <2>3. \A n \in Height : canon'[n] = IF n = head + 1 THEN h ELSE canon[n]
    BY <2>1, Zenon DEF NodeTypeOK
  <2>4. IsChain(canon', head')
    <3>1. canon' \in [Height -> Hash \cup {NoHash}]
      BY <2>1, <2>2, Zenon DEF NodeTypeOK
    <3>2. \A n \in Height : canon'[n] # NoHash <=> n <= head'
      BY <2>2, <2>3 DEF NodeInv, IsChain
    <3>3. canon'[0] = Genesis
      BY <2>2, <2>3 DEF NodeInv, IsChain
    <3>4. \A n \in 1..head' : Parent[canon'[n]] = canon'[n - 1]
      BY <2>1, <2>2, <2>3 DEF NodeInv, IsChain
    <3> QED
      BY <3>1, <3>2, <3>3, <3>4, Zenon DEF IsChain
  <2>5. final <= final' /\ final' <= head' /\ head' - FinalityDepth <= final'
    BY <2>2 DEF FinalAt
  <2>6. \A n \in 0..final : canon'[n] = canon[n]
    BY <2>2, <2>3
  <2> QED
    BY <2>4, <2>5, <2>6, Zenon DEF NodeInv
<1>2. CASE Reorg
  <2>1. PICK b \in Hash, h \in final..MaxHeight :
            /\ IsChain(ChainTo(b, h), h)
            /\ \A n \in 0..final : ChainTo(b, h)[n] = canon[n]
            /\ canon' = ChainTo(b, h)
            /\ head' = h
            /\ final' = FinalAt(h)
    BY <1>2, Zenon DEF Reorg
  <2>2. IsChain(canon', head') /\ \A n \in 0..final : canon'[n] = canon[n]
    BY <2>1, Zenon
  <2>3. final <= final' /\ final' <= head' /\ head' - FinalityDepth <= final'
    BY <2>1 DEF FinalAt, NodeTypeOK
  <2> QED
    BY <2>2, <2>3, Zenon DEF NodeInv
<1> QED
  BY <1>1, <1>2, Zenon

LEMMA FinalityInvInit == Init => FinalityInv
<1> SUFFICES ASSUME Init PROVE FinalityInv
  OBVIOUS
<1> USE NodeAssumption, MonitorAssumption
<1>1. NodeInv
  BY DEF Init, NodeInit, NodeInv, IsChain, Height
<1>2. Indexed = {} /\ transfers = {} /\ announced = {} /\ pc = "down" /\ DeepHeight <= final
  BY DEF Init, NodeInit, StoreInit, Indexed, DeepHeight
<1> QED
  BY <1>1, <1>2, Zenon DEF FinalityInv, ConfirmedCanonical, ConfirmedAnnouncements

(* Leaving Sync with no new confirmed row keeps the invariant.             *)
LEMMA LeaveSyncKeepsFinalityInv ==
    ASSUME FinalityInv, NodeTypeOK, UNCHANGED nodeVars,
           LeaveSync("idle") \/ LeaveSync("down"),
           ConfirmedCanonical', UNCHANGED announced
    PROVE  FinalityInv'
<1>1. NodeInv' /\ ConfirmedAnnouncements'
  BY Zenon DEF FinalityInv, NodeInv, IsChain, ConfirmedAnnouncements, nodeVars
<1>2. DeepHeight' <= final'
  BY NodeAssumption, MonitorAssumption
     DEF LeaveSync, DeepHeight, NodeTypeOK, Height, nodeVars
<1>3. pc' \in {"idle", "down"}
  BY Zenon DEF LeaveSync
<1> QED
  BY <1>1, <1>2, <1>3, Zenon DEF FinalityInv

(* The rows that SaveBlock adds as confirmed are final and canonical.      *)
LEMMA SaveConfirmsFinal ==
    ASSUME IndexInv, FinalityInv, pc = "save", SaveFetched, UNCHANGED nodeVars
    PROVE  /\ ConfirmedCanonical'
           /\ \A n \in Indexed' : n <= DeepHeight => blocks'[n] = canon'[n]
<1> USE NodeAssumption, MonitorAssumption
<1>1. /\ cursor \in Height /\ headNum \in Nat /\ cursor \in Nat
      /\ blocks \in [Height -> Hash \cup {NoHash}]
      /\ blocks' = [blocks EXCEPT ![cursor] = header]
      /\ canon' = canon /\ final' = final /\ final \in Nat
  BY DEF IndexInv, TypeOK, NodeTypeOK, StoreTypeOK, SaveFetched, SaveBlock, nodeVars, Height
<1>2. Deep => cursor <= final /\ header = canon[cursor] /\ cursor <= DeepHeight
  BY <1>1 DEF Deep, FinalityInv, DeepHeight
<1>3. \A n \in Indexed : n < cursor /\ blocks'[n] = blocks[n]
  BY <1>1 DEF IndexInv, Indexed, Height
<1>4. Indexed' \subseteq Indexed \cup {cursor}
  BY <1>1, Zenon DEF Indexed
<1>5. ASSUME NEW r \in transfers', r.confirmed
      PROVE  r.block <= final' /\ blocks'[r.block] = canon'[r.block]
  <2>1. CASE r \in transfers
    BY <1>1, <1>3, <1>5, <2>1, Zenon DEF FinalityInv, ConfirmedCanonical, IndexInv
  <2>2. CASE r \notin transfers
    <3>1. r.block = cursor /\ Deep
      BY <1>5, <2>2 DEF SaveFetched, SaveBlock
    <3> QED
      BY <3>1, <1>1, <1>2, Zenon
  <2> QED
    BY <2>1, <2>2, Zenon
<1>6. ASSUME NEW n \in Indexed', n <= DeepHeight
      PROVE  blocks'[n] = canon'[n]
  <2>1. CASE n \in Indexed
    BY <1>1, <1>3, <1>6, <2>1, Zenon DEF FinalityInv
  <2>2. CASE n = cursor
    BY <1>1, <1>6, <2>2, Zenon DEF FinalityInv
  <2> QED
    BY <1>4, <2>1, <2>2, Zenon
<1> QED
  BY <1>5, <1>6, Zenon DEF ConfirmedCanonical

(* The rows that ConfirmThrough promotes are final and canonical.          *)
LEMMA ConfirmConfirmsFinal ==
    ASSUME IndexInv, FinalityInv, pc = "confirm", ConfirmThrough(headNum - Confirmations),
           UNCHANGED nodeVars
    PROVE  ConfirmedCanonical'
<1> SUFFICES ASSUME NEW s \in transfers', s.confirmed
             PROVE  s.block <= final /\ blocks[s.block] = canon[s.block]
  BY Zenon DEF ConfirmedCanonical, ConfirmThrough, nodeVars
<1>1. PICK r \in transfers : s = [r EXCEPT !.confirmed = @ \/ r.block <= headNum - Confirmations]
  BY DEF ConfirmThrough
<1>2. r \in Row /\ r.block \in Indexed
  BY Zenon DEF IndexInv, TypeOK, StoreTypeOK
<1>3. s.block = r.block /\ (r.confirmed \/ r.block <= DeepHeight)
  BY <1>1, <1>2 DEF Row, DeepHeight
<1>4. CASE r.confirmed
  BY <1>3, <1>4 DEF FinalityInv, ConfirmedCanonical
<1>5. CASE r.block <= DeepHeight
  <2>1. r.block \in Int /\ DeepHeight \in Int /\ final \in Int
    BY <1>2, NodeAssumption, MonitorAssumption
       DEF IndexInv, TypeOK, NodeTypeOK, Row, DeepHeight, Height
  <2>2. DeepHeight <= final /\ \A n \in Indexed : n <= DeepHeight => blocks[n] = canon[n]
    BY Zenon DEF FinalityInv
  <2>3. r.block <= final
    BY <2>1, <1>5, <2>2
  <2> QED
    BY <1>2, <1>3, <1>5, <2>2, <2>3, Zenon
<1> QED
  BY <1>3, <1>4, <1>5, Zenon

(* The rows that a rollback deletes are not confirmed.                     *)
LEMMA RollbackSparesConfirmed ==
    ASSUME IndexInv, FinalityInv, pc = "rollback", DeleteFrom(cursor), UNCHANGED nodeVars
    PROVE  /\ ConfirmedCanonical'
           /\ \A r \in transfers : r.confirmed => r \in transfers'
<1>1. \A r \in transfers : r.block \in Height
  BY Zenon DEF IndexInv, Indexed
<1>2. \A n \in Height : n < cursor => blocks'[n] = blocks[n]
  BY NodeAssumption DEF DeleteFrom, IndexInv, TypeOK, Height
<1> QED
  BY <1>1, <1>2, Zenon DEF DeleteFrom, FinalityInv, ConfirmedCanonical, nodeVars

(* What a step that leaves the chain alone keeps, and what one that also   *)
(* leaves the tables alone keeps.                                          *)
LEMMA NodeFrame ==
    ASSUME FinalityInv, UNCHANGED <<canon, head, final, announced>>
    PROVE  NodeInv' /\ ConfirmedAnnouncements'
<1>1. NodeInv'
  BY Zenon DEF FinalityInv, NodeInv, IsChain
<1>2. ConfirmedAnnouncements'
  BY Zenon DEF FinalityInv, ConfirmedAnnouncements
<1> QED
  BY <1>1, <1>2, Zenon

LEMMA FinalityFrame ==
    ASSUME FinalityInv, UNCHANGED <<canon, head, final, blocks, transfers, announced>>
    PROVE  /\ NodeInv' /\ ConfirmedAnnouncements' /\ ConfirmedCanonical'
           /\ Indexed' = Indexed
<1>1. ConfirmedCanonical'
  BY Zenon DEF FinalityInv, ConfirmedCanonical
<1>2. Indexed' = Indexed
  BY Zenon DEF Indexed
<1> QED
  BY <1>1, <1>2, NodeFrame, Zenon

LEMMA FinalityInvNext ==
    ASSUME FinalityCovered
    PROVE  IndexInv /\ FinalityInv /\ [Next]_vars => FinalityInv'
<1> SUFFICES ASSUME IndexInv, FinalityInv, [Next]_vars PROVE FinalityInv'
  BY Zenon
<1>0. /\ TypeOK /\ NodeTypeOK /\ StoreTypeOK /\ IndexLinked /\ NodeInv
      /\ Indexed \subseteq Height
      /\ final \in Nat /\ head \in Nat /\ headNum \in Nat /\ cursor \in Nat
      /\ DeepHeight \in Int /\ DeepHeight <= final
      /\ Confirmations \in Nat /\ FinalityDepth \in Nat /\ MaxHeight \in Nat
  BY NodeAssumption, MonitorAssumption
     DEF IndexInv, FinalityInv, TypeOK, NodeTypeOK, Indexed, Height, DeepHeight
<1>a. \A r \in transfers : r.block \in Indexed /\ r.block \in Nat
  BY <1>0 DEF IndexInv, Indexed, Height
<1>1. CASE Boot
  <2>1. UNCHANGED <<canon, head, final, blocks, transfers, announced, headNum>> /\ pc' = "idle"
    BY <1>1, Zenon DEF Boot, nodeVars, storeVars, syncVars, busVars
  <2> QED
    BY <2>1, FinalityFrame, Zenon DEF FinalityInv, DeepHeight
<1>2. CASE ReadHead
  <2>1. DeepHeight' <= final'
    BY <1>2, <1>0 DEF ReadHead, DeepHeight, FinalityCovered, NodeInv, nodeVars
  <2>2. UNCHANGED <<canon, head, final, blocks, transfers, announced>> /\ pc' = "last"
    BY <1>2, Zenon DEF ReadHead, nodeVars, storeVars, busVars
  <2> QED
    BY <2>1, <2>2, FinalityFrame, Zenon DEF FinalityInv
<1>3. CASE ReadLastBlock
  <2>1. /\ UNCHANGED <<canon, head, final, blocks, transfers, announced, headNum>>
        /\ pc' = "tip" \/ (pc' = "next" /\ Indexed = {})
    BY <1>3, Zenon DEF ReadLastBlock, nodeVars, storeVars, busVars
  <2> QED
    BY <2>1, FinalityFrame, Zenon DEF FinalityInv, DeepHeight
<1>4. CASE CheckTip
  <2> USE DEF nodeVars, storeVars, syncVars, busVars
  <2>0. /\ cursor \in Indexed /\ header = blocks[cursor] /\ UNCHANGED <<nodeVars, storeVars, busVars>>
        /\ \A r \in transfers : r.block \in Indexed
        /\ \A n \in Indexed : n <= cursor
    BY <1>4, Zenon DEF CheckTip, IndexInv
  <2>1. CASE Return
    BY <2>0, <2>1, <1>0, FinalityFrame, LeaveSyncKeepsFinalityInv, Zenon DEF Return
  <2>2. CASE HeaderByNumber(cursor) \notin {NoHash, header} /\ pc' = "rollback" /\ UNCHANGED syncVars
    <3>1. ASSUME NEW r \in transfers, r.confirmed
          PROVE  r.block < cursor
      <4>1. r.block \in Nat /\ r.block <= cursor
        BY <2>0, <1>a, Zenon
      <4>2. cursor <= head => canon[cursor] # blocks[cursor]
        BY <2>0, <2>2, <1>0, Zenon DEF HeaderByNumber, IndexInv, Height
      <4>3. r.block <= head /\ blocks[r.block] = canon[r.block]
        BY <4>1, <3>1, <1>0 DEF FinalityInv, ConfirmedCanonical, NodeInv
      <4> QED
        BY <4>1, <4>2, <4>3, <1>0
    <3> QED
      BY <2>0, <2>2, <3>1, FinalityFrame, Zenon DEF FinalityInv, DeepHeight
  <2>3. CASE HeaderByNumber(cursor) = header /\ pc' = "next" /\ headNum' = headNum
    <3>1. \A n \in Indexed : blocks[n] = canon[n]
      BY <2>0, <2>3, <1>0, AgreeBelow, Zenon DEF HeaderByNumber, NodeInv, NodeTypeOK
    <3> QED
      BY <2>0, <2>3, <3>1, FinalityFrame, Zenon DEF FinalityInv, DeepHeight
  <2> QED
    BY <1>4, <2>1, <2>2, <2>3, Zenon DEF CheckTip
<1>5. CASE ReadHeader
  <2> USE DEF nodeVars, storeVars, busVars
  <2>0. UNCHANGED <<nodeVars, storeVars, busVars>> /\ pc = "next" /\ cursor \in Height
    BY <1>5, <1>0 DEF ReadHeader, Height, TypeOK
  <2>1. CASE Return
    BY <2>0, <2>1, <1>0, FinalityFrame, LeaveSyncKeepsFinalityInv, Zenon DEF Return
  <2>2. CASE /\ HeaderByNumber(cursor) # NoHash /\ header' = HeaderByNumber(cursor)
             /\ pc' = "parent" /\ UNCHANGED <<headNum, cursor, fetched>>
    <3>1. cursor <= head
      BY <2>0, <2>2, <1>0, Zenon DEF HeaderByNumber, NodeInv, IsChain
    <3>2. ASSUME NEW r \in transfers, r.confirmed, r.block = cursor - 1
          PROVE  blocks[cursor - 1] = Parent[canon[cursor]]
      <4>1. blocks[cursor - 1] = canon[cursor - 1] /\ cursor - 1 \in Height
        BY <3>2, <1>0, Zenon DEF FinalityInv, ConfirmedCanonical, IndexInv
      <4> QED
        BY <4>1, <3>1, <1>0 DEF NodeInv, IsChain, Height
    <3> QED
      BY <2>0, <2>2, <3>2, FinalityFrame, Zenon DEF FinalityInv, DeepHeight, HeaderByNumber
  <2> QED
    BY <1>5, <2>1, <2>2, Zenon DEF ReadHeader
<1>6. CASE CheckParent
  <2> USE DEF nodeVars, storeVars, busVars
  <2>0. /\ UNCHANGED <<nodeVars, storeVars, busVars>> /\ pc = "parent"
        /\ \A r \in transfers : r.block \in Indexed
        /\ \A n \in Indexed : n < cursor
    BY <1>6, Zenon DEF CheckParent, IndexInv
  <2>1. CASE Diverges /\ cursor' = cursor - 1 /\ pc' = "rollback" /\ headNum' = headNum
    <3>1. ASSUME NEW r \in transfers, r.confirmed
          PROVE  r.block < cursor - 1
      <4>1. r.block \in Nat /\ r.block < cursor
        BY <2>0, <1>a, Zenon
      <4>2. r.block = cursor - 1 => blocks[cursor - 1] = Parent[header]
        <5>1. \A t \in transfers : t.confirmed /\ t.block = cursor - 1
                => blocks[cursor - 1] = Parent[header]
          BY <2>0, Zenon DEF FinalityInv
        <5> QED
          BY <3>1, <5>1, Zenon
      <4>3. blocks[cursor - 1] # Parent[header]
        BY <2>1, Zenon DEF Diverges, BlockByNumber
      <4> QED
        BY <4>1, <4>2, <4>3, <1>0
    <3> QED
      BY <2>0, <2>1, <3>1, FinalityFrame, Zenon DEF FinalityInv, DeepHeight
  <2>2. CASE pc' = "logs" /\ UNCHANGED <<cursor, headNum, header>>
    BY <2>0, <2>2, FinalityFrame, Zenon DEF FinalityInv, DeepHeight
  <2> QED
    BY <1>6, <2>1, <2>2, Zenon DEF CheckParent
<1>7. CASE FetchTransfers
  <2>1. cursor <= DeepHeight => fetched' \subseteq LogsOf[canon[cursor]]
    <3>1. cursor <= DeepHeight => cursor <= head /\ cursor \in Height
      BY <1>0 DEF NodeInv, NodeTypeOK, Height
    <3> QED
      BY <3>1, <1>7, Zenon DEF FetchTransfers, Decode, FilterLogs, NodeInv, IsChain
  <2>2. /\ UNCHANGED <<canon, head, final, blocks, transfers, announced>>
        /\ UNCHANGED <<headNum, cursor, header>> /\ pc = "logs" /\ pc' = "save"
    BY <1>7, Zenon DEF FetchTransfers, nodeVars, storeVars, busVars
  <2> QED
    BY <2>1, <2>2, FinalityFrame, Zenon DEF FinalityInv, DeepHeight
<1>8. CASE Save
  <2>1. /\ UNCHANGED <<canon, head, final, announced, headNum, cursor, header, fetched>>
        /\ pc = "save" /\ pc' = "block" /\ SaveFetched /\ UNCHANGED nodeVars
    BY <1>8, Zenon DEF Save, nodeVars, syncVars, busVars
  <2>2. /\ ConfirmedCanonical'
        /\ \A n \in Indexed' : n <= DeepHeight => blocks'[n] = canon'[n]
    BY <2>1, SaveConfirmsFinal, Zenon
  <2> QED
    BY <2>1, <2>2, NodeFrame, Zenon DEF FinalityInv, DeepHeight
<1>9. ASSUME NEW delivered \in BOOLEAN, Publish(delivered)
      PROVE  FinalityInv'
  <2> USE DEF nodeVars, storeVars, syncVars
  <2>1. CASE PublishBlock(delivered)
    <3>1. /\ UNCHANGED <<canon, head, final, blocks, transfers, announced>>
          /\ UNCHANGED <<headNum, cursor, header, fetched>> /\ pc = "block" /\ pc' = "announce"
      BY <2>1, Zenon DEF PublishBlock
    <3> QED
      BY <3>1, FinalityFrame, Zenon DEF FinalityInv, DeepHeight
  <2>2. CASE PublishTransfer(delivered)
    <3>1. PICK l \in fetched :
            /\ fetched' = fetched \ {l}
            /\ announced' = IF delivered
                 THEN announced \cup {[log |-> l, block |-> cursor, confirmed |-> Deep]}
                 ELSE announced
      BY <2>2, ZenonT(60) DEF PublishTransfer
    <3>2. Deep => cursor <= final /\ l \in LogsOf[canon[cursor]]
      <4>1. pc = "announce" /\ l \in fetched
        BY <2>2, <3>1, Zenon DEF PublishTransfer
      <4>2. DeepHeight <= final
            /\ (cursor <= DeepHeight => fetched \subseteq LogsOf[canon[cursor]])
        BY <4>1, Zenon DEF FinalityInv
      <4>3. Deep => cursor <= DeepHeight
        BY <1>0 DEF Deep, DeepHeight
      <4>4. DeepHeight \in Int /\ cursor \in Int /\ final \in Int
        BY <1>0 DEF DeepHeight
      <4> QED
        BY <4>1, <4>2, <4>3, <4>4
    <3>3. ConfirmedAnnouncements'
      BY <2>2, <3>1, <3>2 DEF PublishTransfer, FinalityInv, ConfirmedAnnouncements
    <3>4. /\ UNCHANGED <<canon, head, final, blocks, transfers, headNum, cursor>>
          /\ pc = "announce" /\ pc' = "announce"
      BY <2>2, Zenon DEF PublishTransfer
    <3>5. NodeInv' /\ ConfirmedCanonical' /\ Indexed' = Indexed
      BY <3>4, Zenon DEF FinalityInv, NodeInv, IsChain, ConfirmedCanonical, Indexed
    <3> QED
      BY <3>1, <3>3, <3>4, <3>5, Zenon DEF FinalityInv, DeepHeight
  <2>3. CASE PublishReorg(delivered)
    <3>1. /\ UNCHANGED <<canon, head, final, blocks, transfers, announced>>
          /\ UNCHANGED nodeVars /\ LeaveSync("idle")
      BY <2>3, Zenon DEF PublishReorg, Return
    <3> QED
      BY <3>1, <1>0, FinalityFrame, LeaveSyncKeepsFinalityInv, Zenon
  <2> QED
    BY <1>9, <2>1, <2>2, <2>3, Zenon DEF Publish
<1>10. CASE NextBlock
  <2>1. /\ UNCHANGED <<canon, head, final, blocks, transfers, announced, headNum>>
        /\ pc = "announce" /\ pc' = "next"
    BY <1>10, Zenon DEF NextBlock, nodeVars, storeVars, busVars
  <2> QED
    BY <2>1, FinalityFrame, Zenon DEF FinalityInv, DeepHeight
<1>11. CASE EndLoop
  <2>0. /\ UNCHANGED <<canon, head, final, blocks, transfers, announced>>
        /\ UNCHANGED nodeVars /\ pc = "next"
    BY <1>11, Zenon DEF EndLoop, nodeVars, storeVars, busVars
  <2>1. CASE Return
    BY <2>0, <2>1, <1>0, FinalityFrame, LeaveSyncKeepsFinalityInv, Zenon DEF Return
  <2>2. CASE pc' = "confirm" /\ headNum' = headNum
    BY <2>0, <2>2, FinalityFrame, Zenon DEF FinalityInv, DeepHeight
  <2> QED
    BY <1>11, <2>1, <2>2, Zenon DEF EndLoop, syncVars
<1>12. CASE Confirm
  <2>1. /\ pc = "confirm" /\ ConfirmThrough(headNum - Confirmations)
        /\ UNCHANGED nodeVars /\ LeaveSync("idle") /\ UNCHANGED announced
    BY <1>12, Zenon DEF Confirm, Return, busVars
  <2>2. ConfirmedCanonical'
    BY <2>1, ConfirmConfirmsFinal, Zenon
  <2> QED
    BY <2>1, <2>2, <1>0, LeaveSyncKeepsFinalityInv, Zenon
<1>13. CASE Rollback
  <2>1. /\ UNCHANGED <<canon, head, final, announced, headNum>> /\ UNCHANGED nodeVars
        /\ pc = "rollback" /\ DeleteFrom(cursor) /\ pc' = "reorg"
    BY <1>13, Zenon DEF Rollback, nodeVars, syncVars, busVars
  <2>2. ConfirmedCanonical'
    BY <2>1, RollbackSparesConfirmed, Zenon
  <2> QED
    BY <2>1, <2>2, NodeFrame, Zenon DEF FinalityInv, DeepHeight
<1>14. CASE CallFails \/ Crash
  <2>1. /\ UNCHANGED nodeVars /\ UNCHANGED <<blocks, transfers, announced>>
        /\ LeaveSync("idle") \/ LeaveSync("down")
    BY <1>14, Zenon DEF CallFails, Crash, Return, storeVars, busVars
  <2>2. ConfirmedCanonical'
    BY <2>1, Zenon DEF FinalityInv, ConfirmedCanonical, nodeVars
  <2> QED
    BY <2>1, <2>2, <1>0, LeaveSyncKeepsFinalityInv, Zenon
<1>15. CASE CommitUnanswered
  <2>1. UNCHANGED nodeVars /\ Return /\ UNCHANGED announced
    BY <1>15, Zenon DEF CommitUnanswered
  <2>2. ConfirmedCanonical'
    BY <2>1, <1>15, SaveConfirmsFinal, RollbackSparesConfirmed, ConfirmConfirmsFinal
       DEF CommitUnanswered
  <2> QED
    BY <2>1, <2>2, <1>0, LeaveSyncKeepsFinalityInv, Zenon DEF Return
<1>16. CASE Node
  <2>1. /\ NodeInv' /\ final <= final' /\ \A n \in 0..final : canon'[n] = canon[n]
        /\ NodeTypeOK'
    BY <1>16, <1>0, NodeKeepsFinal, NodeKeepsType, Zenon DEF Node
  <2>2. UNCHANGED <<blocks, transfers, headNum, cursor, header, fetched, announced, pc>>
    BY <1>16, Zenon DEF Node, storeVars, syncVars, busVars
  <2>3. final' \in Nat /\ DeepHeight' = DeepHeight /\ DeepHeight <= final' /\ Indexed' = Indexed
    BY <2>1, <2>2, <1>0 DEF NodeTypeOK, Height, DeepHeight, Indexed
  <2>4. ConfirmedCanonical'
    <3> SUFFICES ASSUME NEW r \in transfers, r.confirmed
                 PROVE  r.block <= final' /\ blocks[r.block] = canon'[r.block]
      BY <2>2, Zenon DEF ConfirmedCanonical
    <3>1. r.block \in 0..final /\ blocks[r.block] = canon[r.block]
      BY <1>0, <1>a DEF FinalityInv, ConfirmedCanonical
    <3> QED
      BY <3>1, <2>1, <2>3, <1>0
  <2>5. ConfirmedAnnouncements'
    <3> SUFFICES ASSUME NEW a \in announced, a.confirmed
                 PROVE  a.block <= final' /\ a.log \in LogsOf[canon'[a.block]]
      BY <2>2, Zenon DEF ConfirmedAnnouncements
    <3>1. a.block \in 0..final
      BY <1>0 DEF TypeOK, Row, Height, FinalityInv, ConfirmedAnnouncements
    <3> QED
      BY <3>1, <2>1, <2>3, <1>0 DEF FinalityInv, ConfirmedAnnouncements
  <2>6. \A n \in Height : n <= DeepHeight => canon'[n] = canon[n]
    BY <2>1, <1>0 DEF Height
  <2> QED
    BY <2>1, <2>2, <2>3, <2>4, <2>5, <2>6, <1>0 DEF FinalityInv, IndexInv, Height
<1>17. CASE UNCHANGED vars
  <2>1. /\ UNCHANGED <<canon, head, final, blocks, transfers, announced>>
        /\ UNCHANGED <<headNum, cursor, header, fetched, pc>>
    BY <1>17, Zenon DEF vars, nodeVars, storeVars, syncVars, busVars
  <2> QED
    BY <2>1, FinalityFrame, Zenon DEF FinalityInv, DeepHeight
<1> QED
  BY <1>1, <1>2, <1>3, <1>4, <1>5, <1>6, <1>7, <1>8, <1>9, <1>10, <1>11, <1>12,
     <1>13, <1>14, <1>15, <1>16, <1>17, ZenonT(30) DEF Next, Sync, Faults, Deliver, LoseEvent

LEMMA FinalityInvAlways ==
    ASSUME FinalityCovered
    PROVE  Spec => []FinalityInv
  BY FinalityInvInit, FinalityInvNext, IndexInvAlways, PTL DEF Spec

(* When CONFIRMATIONS covers the chain's finality, IInv holds at every     *)
(* call of Sync: where cursor and header stand relative to the tables, the *)
(* subscriber's view, and what the head that was read makes final.         *)
THEOREM MonitorInvariant ==
    ASSUME FinalityCovered
    PROVE  Spec => []IInv
<1>1. IndexInv /\ MirrorInv /\ FinalityInv => IInv
  BY Zenon DEF IInv
<1> QED
  BY <1>1, IndexInvAlways, MirrorInvAlways, FinalityInvAlways, PTL

(* When CONFIRMATIONS covers the chain's finality, a confirmed transfer    *)
(* belongs to an indexed block that is final and canonical, although the   *)
(* head that decided it was read many calls earlier.                       *)
THEOREM ConfirmedStayCanonical ==
    ASSUME FinalityCovered
    PROVE  Spec => []ConfirmedCanonical
<1>1. FinalityInv => ConfirmedCanonical
  BY Zenon DEF FinalityInv
<1> QED
  BY <1>1, FinalityInvAlways, PTL

(* Likewise every chain.transfer event marked confirmed is about a log of  *)
(* the final canonical block at its height.                                *)
THEOREM AnnouncementsStayTrue ==
    ASSUME FinalityCovered
    PROVE  Spec => []ConfirmedAnnouncements
<1>1. FinalityInv => ConfirmedAnnouncements
  BY Zenon DEF FinalityInv
<1> QED
  BY <1>1, FinalityInvAlways, PTL

(* Likewise no step, a rollback in particular, deletes or demotes a        *)
(* confirmed transfer.                                                     *)
THEOREM ConfirmedAreKept ==
    ASSUME FinalityCovered
    PROVE  Spec => ConfirmedKept
<1>1. ASSUME IndexInv, FinalityInv, [Next]_vars
      PROVE  [\A r \in transfers : r.confirmed => r \in transfers']_vars
  <2> SUFFICES ASSUME NEW r \in transfers, r.confirmed PROVE r \in transfers'
    BY Zenon
  <2>0. r \in Row
    BY <1>1, Zenon DEF IndexInv, TypeOK, StoreTypeOK
  <2>1. CASE transfers' = transfers
    BY <2>1, Zenon
  <2>2. CASE SaveFetched
    BY <2>2, Zenon DEF SaveFetched, SaveBlock
  <2>3. CASE ConfirmThrough(headNum - Confirmations)
    <3>1. r = [r EXCEPT !.confirmed = @ \/ r.block <= headNum - Confirmations]
      BY <2>0, Zenon DEF Row
    <3> QED
      BY <2>3, <3>1, Zenon DEF ConfirmThrough
  <2>4. CASE pc = "rollback" /\ DeleteFrom(cursor) /\ UNCHANGED nodeVars
    BY <2>4, <1>1, RollbackSparesConfirmed, Zenon
  <2>5. CASE UNCHANGED vars
    BY <2>5, Zenon DEF vars, storeVars
  <2>6. CASE Next
    BY <2>6, <2>1, <2>2, <2>3, <2>4, ZenonT(60)
       DEF Next, Sync, Faults, Boot, ReadHead, ReadLastBlock, CheckTip, ReadHeader, CheckParent,
           FetchTransfers, Save, Deliver, LoseEvent, Publish, PublishBlock, PublishTransfer,
           PublishReorg, NextBlock, EndLoop, Confirm, Rollback, CallFails, CommitUnanswered,
           Crash, Node, storeVars
  <2> QED
    BY <1>1, <2>5, <2>6, Zenon
<1> QED
  BY <1>1, IndexInvAlways, FinalityInvAlways, PTL DEF Spec, ConfirmedKept

(***************************************************************************)
(* Refinement: the calls of Sync implement ChainIndex.                     *)
(***************************************************************************)

LEMMA SaveExtends ==
    ASSUME IndexInv, pc = "save", SaveFetched
    PROVE  Index!Next
<1>1. cursor \in Height /\ header \in Hash
  BY NodeAssumption DEF IndexInv, TypeOK, Height
<1>2. Index!Indexed = Indexed
  BY Zenon DEF Index!Indexed, Indexed
<1>3. /\ \A m \in Indexed : m < cursor
      /\ Indexed # {} => cursor - 1 \in Indexed /\ Parent[header] = blocks[cursor - 1]
  BY Zenon DEF IndexInv
<1>4. transfers \subseteq transfers'
  BY Zenon DEF SaveFetched, SaveBlock
<1>5. ASSUME NEW r \in transfers' \ transfers
      PROVE  r.block = cursor /\ \A q \in transfers : q.log # r.log
  <2>1. PICK l \in {l \in fetched : \A q \in transfers : q.log # l} :
          r = [log |-> l, block |-> cursor, confirmed |-> Deep]
    BY <1>5, Zenon DEF SaveFetched, SaveBlock
  <2> QED
    BY <2>1, Zenon
<1>6. blocks' = [blocks EXCEPT ![cursor] = header]
  BY DEF SaveFetched, SaveBlock
<1>7. Index!Extend(cursor, header)
  BY <1>2, <1>3, <1>4, <1>5, <1>6, Zenon DEF Index!Extend
<1> QED
  BY <1>1, <1>7, Zenon DEF Index!Next

LEMMA RollbackCuts ==
    ASSUME IndexInv, FinalityInv, pc = "rollback", DeleteFrom(cursor)
    PROVE  Index!Next
<1>1. cursor \in Height
  BY Zenon DEF IndexInv
<1>2. \A r \in transfers : r.confirmed => r.block < cursor
  BY Zenon DEF FinalityInv
<1>3. blocks' = [m \in Height |-> IF m < cursor THEN blocks[m] ELSE NoHash]
  <2>1. \A m \in Height : m >= cursor <=> ~(m < cursor)
    BY <1>1 DEF Height
  <2> QED
    BY <2>1, Zenon DEF DeleteFrom
<1>4. Index!Cut(cursor)
  BY <1>2, <1>3, Zenon DEF Index!Cut, DeleteFrom
<1> QED
  BY <1>1, <1>4, Zenon DEF Index!Next

LEMMA ConfirmPromotes ==
    ASSUME IndexInv, ConfirmThrough(headNum - Confirmations)
    PROVE  Index!Next \/ UNCHANGED <<blocks, transfers>>
<1>0. headNum - Confirmations \in Int /\ headNum - Confirmations <= MaxHeight
  BY MonitorAssumption, NodeAssumption DEF IndexInv, TypeOK, Height
<1>1. CASE headNum - Confirmations >= 0
  <2>1. headNum - Confirmations \in Height
    BY <1>0, <1>1 DEF Height
  <2>2. Index!Promote(headNum - Confirmations)
    BY Zenon DEF Index!Promote, ConfirmThrough
  <2> QED
    BY <2>1, <2>2, Zenon DEF Index!Next
<1>2. CASE ~(headNum - Confirmations >= 0)
  <2>1. ASSUME NEW r \in transfers
        PROVE  [r EXCEPT !.confirmed = r.confirmed \/ r.block <= headNum - Confirmations] = r
    <3>1. r \in Row
      BY Zenon DEF IndexInv, TypeOK, StoreTypeOK
    <3>2. ~(r.block <= headNum - Confirmations)
      BY <1>0, <1>2, <3>1, NodeAssumption DEF Row, Height
    <3>3. (r.confirmed \/ r.block <= headNum - Confirmations) = r.confirmed
      BY <3>1, <3>2, Zenon DEF Row
    <3> QED
      BY <3>1, <3>3, Zenon DEF Row
  <2>2. transfers' = transfers
    BY <2>1, Zenon DEF ConfirmThrough
  <2> QED
    BY <2>2 DEF ConfirmThrough
<1> QED
  BY <1>1, <1>2, Zenon

(* When CONFIRMATIONS covers the chain's finality, every behaviour of the  *)
(* monitor, its faults and the node's reorganisations included, changes    *)
(* the tables only by linked extension at the top, cuts above everything   *)
(* confirmed, and promotion (SaveBlock, DeleteFrom and ConfirmThrough as   *)
(* Sync calls them).                                                       *)
THEOREM MonitorImplementsIndex ==
    ASSUME FinalityCovered
    PROVE  Spec => ImplementsIndex
<1>1. Init => Index!Init
  BY Zenon DEF Init, StoreInit, Index!Init
<1>2. ASSUME IndexInv, FinalityInv, [Next]_vars
      PROVE  [Index!Next]_(Index!vars)
  <2>1. CASE UNCHANGED <<blocks, transfers>>
    BY <2>1, Zenon DEF Index!vars
  <2>2. CASE pc = "save" /\ SaveFetched
    BY <1>2, <2>2, SaveExtends, Zenon
  <2>3. CASE pc = "rollback" /\ DeleteFrom(cursor)
    BY <1>2, <2>3, RollbackCuts, Zenon
  <2>4. CASE ConfirmThrough(headNum - Confirmations)
    BY <1>2, <2>1, <2>4, ConfirmPromotes, Zenon
  <2>5. CASE UNCHANGED vars
    BY <2>1, <2>5, Zenon DEF vars, storeVars
  <2>6. CASE Next
    BY <2>6, <2>1, <2>2, <2>3, <2>4, ZenonT(60)
       DEF Next, Sync, Faults, Boot, ReadHead, ReadLastBlock, CheckTip, ReadHeader, CheckParent,
           FetchTransfers, Save, Deliver, LoseEvent, Publish, PublishBlock, PublishTransfer,
           PublishReorg, NextBlock, EndLoop, Confirm, Rollback, CallFails, CommitUnanswered,
           Crash, Node, storeVars
  <2> QED
    BY <1>2, <2>5, <2>6, Zenon
<1> QED
  BY <1>1, <1>2, IndexInvAlways, FinalityInvAlways, PTL
  DEF Spec, ImplementsIndex, Index!Spec

=============================================================================
