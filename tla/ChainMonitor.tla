---------------------------- MODULE ChainMonitor ----------------------------
(***************************************************************************)
(* chainmonitor.Monitor: one goroutine that calls Sync on every tick.      *)
(* Sync makes one RPC or one store call at a time; each call is a step, so *)
(* that the chain can move, the call can fail, and the process can die,    *)
(* between any two of them.  pc names the call Sync makes next; headNum,   *)
(* cursor, header and fetched are Sync's locals, reset when it returns.    *)
(*                                                                         *)
(* view and announced are what a subscriber of the bus knows: the blocks   *)
(* it gets by replaying chain.block and chain.reorg in the order they were *)
(* published, and the payloads of chain.transfer that reached it.  An      *)
(* event that NATS buffers and then loses is lost when it is published.    *)
(***************************************************************************)
EXTENDS IndexStore

CONSTANTS
    Transfer,        \* the logs that decode accepts
    Confirmations,   \* CONFIRMATIONS
    StartBlocks,     \* values START_BLOCK may have; {} when it is unset or unparsable
    MaxFaults        \* bound: failed calls, lost events and crashes

ASSUME MonitorAssumption ==
    /\ Transfer \subseteq Log
    /\ Confirmations \in Nat
    /\ StartBlocks \subseteq Height
    /\ MaxFaults \in Nat

VARIABLES
    pc,          \* the call Sync makes next
    start,       \* cfg.StartBlock of the running process
    headNum,     \* height of the head that Sync read first
    cursor,      \* last.Number, then n, then the argument of rollback
    header,      \* hash of last, then of the header read at n
    fetched,     \* transfers of n, then the ones not announced yet
    view,        \* the blocks a subscriber believes indexed
    announced,   \* the chain.transfer payloads a subscriber has received
    lost,        \* a chain.block or chain.reorg was not delivered
    faults       \* number of faults so far

syncVars == <<headNum, cursor, header, fetched>>
busVars == <<view, announced, lost>>
vars == <<nodeVars, storeVars, syncVars, busVars, pc, start, faults>>

(* The calls that return an error, and the points where an event goes out. *)
Calls == {"last", "tip", "next", "parent", "logs", "save", "confirm", "rollback"}
Events == {"block", "announce", "reorg"}

TypeOK ==
    /\ NodeTypeOK
    /\ StoreTypeOK
    /\ pc \in {"down", "idle"} \cup Calls \cup Events
    /\ start \in Height
    /\ headNum \in Height
    /\ cursor \in 0..MaxHeight + 1
    /\ header \in Hash \cup {NoHash}
    /\ fetched \subseteq Transfer
    /\ view \in [Height -> Hash \cup {NoHash}]
    /\ announced \subseteq Row
    /\ lost \in BOOLEAN
    /\ faults \in 0..MaxFaults

Init ==
    /\ NodeInit
    /\ StoreInit
    /\ pc = "down"
    /\ start = 0
    /\ headNum = 0
    /\ cursor = 0
    /\ header = NoHash
    /\ fetched = {}
    /\ view = [n \in Height |-> NoHash]
    /\ announced = {}
    /\ lost = FALSE
    /\ faults = 0

-----------------------------------------------------------------------------

(* Control leaves Sync: its locals are gone and Run waits for a tick, or   *)
(* the process is down.                                                    *)
LeaveSync(next) ==
    /\ pc' = next
    /\ headNum' = 0
    /\ cursor' = 0
    /\ header' = NoHash
    /\ fetched' = {}

Return == LeaveSync("idle")

(* A START_BLOCK that parses wins; otherwise the head, or 0 when the node  *)
(* does not answer within five seconds.                                    *)
ResolveStartBlock == IF StartBlocks # {} THEN StartBlocks ELSE {head, 0}

Boot ==
    /\ pc = "down"
    /\ pc' = "idle"
    /\ start' \in ResolveStartBlock
    /\ UNCHANGED <<nodeVars, storeVars, syncVars, busVars, faults>>

ReadHead ==
    /\ pc = "idle"
    /\ headNum' = head
    /\ pc' = "last"
    /\ UNCHANGED <<nodeVars, storeVars, busVars, cursor, header, fetched, start, faults>>

(* Mutant: Sync starts at StartBlock although the store is not empty.      *)
ReadLastBlock_FromStart ==
    /\ pc = "last"
    /\ cursor' = start
    /\ pc' = "next"
    /\ UNCHANGED <<nodeVars, storeVars, busVars, headNum, header, fetched, start, faults>>

ReadLastBlock ==
    /\ pc = "last"
    /\ \/ /\ Indexed = {}
          /\ cursor' = start
          /\ pc' = "next"
          /\ UNCHANGED header
       \/ /\ Indexed # {}
          /\ cursor' = LastBlock
          /\ header' = blocks[LastBlock]
          /\ pc' = "tip"
    /\ UNCHANGED <<nodeVars, storeVars, busVars, headNum, fetched, start, faults>>

(* Mutant: the tip is not compared with the canonical header.              *)
CheckTip_Unchecked ==
    /\ pc = "tip"
    /\ cursor' = cursor + 1
    /\ pc' = "next"
    /\ UNCHANGED <<nodeVars, storeVars, busVars, headNum, header, fetched, start, faults>>

(* Mutant: the loop starts at last.Number instead of the number after it.  *)
CheckTip_FromLast ==
    /\ pc = "tip"
    /\ HeaderByNumber(cursor) # NoHash
    /\ pc' = IF HeaderByNumber(cursor) = header THEN "next" ELSE "rollback"
    /\ UNCHANGED <<nodeVars, storeVars, syncVars, busVars, start, faults>>

(* The tip must still be canonical.  When the chain is now shorter than    *)
(* the index the node answers NotFound, and Sync returns that error.       *)
CheckTip ==
    /\ pc = "tip"
    /\ \/ /\ HeaderByNumber(cursor) = NoHash
          /\ Return
       \/ /\ HeaderByNumber(cursor) \notin {NoHash, header}
          /\ pc' = "rollback"
          /\ UNCHANGED syncVars
       \/ /\ HeaderByNumber(cursor) = header
          /\ cursor' = cursor + 1
          /\ pc' = "next"
          /\ UNCHANGED <<headNum, header, fetched>>
    /\ UNCHANGED <<nodeVars, storeVars, busVars, start, faults>>

ReadHeader ==
    /\ pc = "next"
    /\ cursor <= headNum
    /\ \/ /\ HeaderByNumber(cursor) = NoHash
          /\ Return
       \/ /\ HeaderByNumber(cursor) # NoHash
          /\ header' = HeaderByNumber(cursor)
          /\ pc' = "parent"
          /\ UNCHANGED <<headNum, cursor, fetched>>
    /\ UNCHANGED <<nodeVars, storeVars, busVars, start, faults>>

(* Mutant: no parent-linkage check.                                        *)
Diverges_Never == FALSE

(* The block below, if it is indexed, must be the parent.                  *)
Diverges ==
    /\ cursor > 0
    /\ BlockByNumber(cursor - 1) \notin {NoHash, Parent[header]}

CheckParent ==
    /\ pc = "parent"
    /\ \/ /\ Diverges
          /\ cursor' = cursor - 1
          /\ pc' = "rollback"
       \/ /\ ~Diverges
          /\ pc' = "logs"
          /\ UNCHANGED cursor
    /\ UNCHANGED <<nodeVars, storeVars, busVars, headNum, header, fetched, start, faults>>

(* decode drops a log with the Transfer topic that is not an ERC-20        *)
(* transfer: indexed arguments missing, or data that does not unpack.      *)
Decode(logs) == logs \cap Transfer

FetchTransfers ==
    /\ pc = "logs"
    /\ fetched' = Decode(FilterLogs(cursor))
    /\ pc' = "save"
    /\ UNCHANGED <<nodeVars, storeVars, busVars, headNum, cursor, header, start, faults>>

(* Mutant: the block itself is counted as one of its confirmations.        *)
Deep_OffByOne == headNum - cursor + 1 >= Confirmations

Deep == headNum - cursor >= Confirmations

SaveFetched == SaveBlock(cursor, header, fetched, Deep)

Save ==
    /\ pc = "save"
    /\ SaveFetched
    /\ pc' = "block"
    /\ UNCHANGED <<nodeVars, syncVars, busVars, start, faults>>

(* ConfirmThrough is skipped on a chain shorter than Confirmations.        *)
EndLoop ==
    /\ pc = "next"
    /\ cursor > headNum
    /\ \/ /\ headNum >= Confirmations
          /\ pc' = "confirm"
          /\ UNCHANGED syncVars
       \/ /\ headNum < Confirmations
          /\ Return
    /\ UNCHANGED <<nodeVars, storeVars, busVars, start, faults>>

(* Mutant: the head is read again instead of using the one Sync began with.*)
Confirm_FreshHead ==
    /\ pc = "confirm"
    /\ ConfirmThrough(head - Confirmations)
    /\ Return
    /\ UNCHANGED <<nodeVars, busVars, start, faults>>

Confirm ==
    /\ pc = "confirm"
    /\ ConfirmThrough(headNum - Confirmations)
    /\ Return
    /\ UNCHANGED <<nodeVars, busVars, start, faults>>

(* Mutant: rollback returns without publishing chain.reorg.                *)
Rollback_Silent ==
    /\ pc = "rollback"
    /\ DeleteFrom(cursor)
    /\ Return
    /\ UNCHANGED <<nodeVars, busVars, start, faults>>

Rollback ==
    /\ pc = "rollback"
    /\ DeleteFrom(cursor)
    /\ pc' = "reorg"
    /\ UNCHANGED <<nodeVars, syncVars, busVars, start, faults>>

-----------------------------------------------------------------------------
(***************************************************************************)
(* Events.  bus.Publish errors are discarded: whether or not the event     *)
(* arrives, Sync goes on.  delivered says which it is.                     *)
(***************************************************************************)
PublishBlock(delivered) ==
    /\ pc = "block"
    /\ view' = IF delivered THEN [view EXCEPT ![cursor] = header] ELSE view
    /\ lost' = (lost \/ ~delivered)
    /\ pc' = "announce"
    /\ UNCHANGED <<nodeVars, storeVars, syncVars, announced, start>>

PublishTransfer(delivered) ==
    /\ pc = "announce"
    /\ \E l \in fetched :
        /\ fetched' = fetched \ {l}
        /\ announced' = IF delivered
             THEN announced \cup {[log |-> l, block |-> cursor, confirmed |-> Deep]}
             ELSE announced
    /\ UNCHANGED <<nodeVars, storeVars, headNum, cursor, header, view, lost, pc, start>>

NextBlock ==
    /\ pc = "announce"
    /\ fetched = {}
    /\ cursor' = cursor + 1
    /\ pc' = "next"
    /\ UNCHANGED <<nodeVars, storeVars, busVars, headNum, header, fetched, start, faults>>

PublishReorg(delivered) ==
    /\ pc = "reorg"
    /\ view' = IF delivered
         THEN [n \in Height |-> IF n >= cursor THEN NoHash ELSE view[n]]
         ELSE view
    /\ lost' = (lost \/ ~delivered)
    /\ Return
    /\ UNCHANGED <<nodeVars, storeVars, announced, start>>

Publish(delivered) ==
    \/ PublishBlock(delivered)
    \/ PublishTransfer(delivered)
    \/ PublishReorg(delivered)

Deliver == Publish(TRUE) /\ UNCHANGED faults

-----------------------------------------------------------------------------

Fault == faults < MaxFaults /\ faults' = faults + 1

LoseEvent == Publish(FALSE) /\ Fault

(* A call fails without effect, or ctx is found cancelled: Sync returns.   *)
CallFails ==
    /\ pc \in Calls
    /\ Return
    /\ Fault
    /\ UNCHANGED <<nodeVars, storeVars, busVars, start>>

(* The database commits but the connection breaks before the answer: Sync  *)
(* returns the error without the events that follow the call.              *)
CommitUnanswered ==
    /\ \/ pc = "save" /\ SaveFetched /\ lost' = TRUE
       \/ pc = "rollback" /\ DeleteFrom(cursor) /\ lost' = TRUE
       \/ pc = "confirm" /\ ConfirmThrough(headNum - Confirmations) /\ UNCHANGED lost
    /\ Return
    /\ Fault
    /\ UNCHANGED <<nodeVars, view, announced, start>>

(* The process ends at any point; main does not wait for the monitor.      *)
Crash ==
    /\ pc # "down"
    /\ LeaveSync("down")
    /\ start' = 0
    /\ lost' = (lost \/ pc \in {"block", "reorg"})
    /\ Fault
    /\ UNCHANGED <<nodeVars, storeVars, view, announced>>

-----------------------------------------------------------------------------

Sync ==
    \/ ReadHead \/ ReadLastBlock \/ CheckTip \/ ReadHeader \/ CheckParent
    \/ FetchTransfers \/ Save \/ Deliver \/ NextBlock \/ EndLoop \/ Confirm
    \/ Rollback

Faults == LoseEvent \/ CallFails \/ CommitUnanswered \/ Crash

Node == (Grow \/ Reorg) /\ UNCHANGED <<storeVars, syncVars, busVars, pc, start, faults>>

Next == Boot \/ Sync \/ Faults \/ Node

Spec == Init /\ [][Next]_vars

(* Run keeps calling Sync, a process that died is restarted, and the chain *)
(* keeps producing blocks; nothing obliges a reorganisation or a fault.    *)
FairSpec ==
    /\ Spec
    /\ WF_vars(Boot \/ Sync)
    /\ WF_vars(Node /\ Grow)

-----------------------------------------------------------------------------
(***************************************************************************)
(* Properties.                                                             *)
(***************************************************************************)

(* The operator's part of the bargain: CONFIRMATIONS is at least as deep   *)
(* as the chain's finality.                                                *)
FinalityCovered == Confirmations >= FinalityDepth

(* The index is one unbroken run of linked headers, whatever reorganisation*)
(* or crash interrupts Sync (the parent check and the rollback in Sync).   *)
IndexLinked ==
    /\ \A m, n \in Indexed : m..n \subseteq Indexed
    /\ \A n \in Indexed : n - 1 \in Indexed => Parent[blocks[n]] = blocks[n - 1]

(* A confirmed transfer belongs to a block that is canonical and can no    *)
(* longer be displaced, although confirmed is computed from a head that    *)
(* Sync read earlier (headNum in SaveBlock's argument and ConfirmThrough). *)
ConfirmedCanonical ==
    \A r \in transfers : r.confirmed =>
        /\ r.block <= final
        /\ blocks[r.block] = canon[r.block]

(* A rollback never deletes, and nothing demotes, a confirmed transfer     *)
(* ("reorgs only ever touch unconfirmed data").                            *)
ConfirmedKept == [][\A r \in transfers : r.confirmed => r \in transfers']_vars

(* A subscriber told that a transfer is confirmed was told the truth: it   *)
(* is in the final canonical block at that height (publishTransfer).       *)
ConfirmedAnnouncements ==
    \A a \in announced : a.confirmed =>
        /\ a.block <= final
        /\ a.log \in LogsOf[canon[a.block]]

(* As long as no event was lost, replaying chain.block and chain.reorg     *)
(* gives exactly the table of blocks, except between a commit and its      *)
(* event (the order of store call and publish in Sync and rollback).       *)
SubscriberMirrorsIndex == ~lost /\ pc \notin {"block", "reorg"} => view = blocks

(* A confirmed transfer is a log of the indexed block it references        *)
(* ("SaveBlock upserts a block and its transfers").                        *)
ConfirmedBelongsToBlock ==
    \A r \in transfers : r.confirmed => r.log \in LogsOf[blocks[r.block]]

(* Once the node stops reorganising and faults stop, the index reaches the *)
(* canonical head and stays on it, with every deep transfer confirmed, by  *)
(* rolling back one block per Sync.                                        *)
Converges ==
    <>[](/\ blocks[head] = canon[head]
         /\ \A r \in transfers : r.block <= head - Confirmations => r.confirmed)

(* The tables change only the way ChainIndex allows, whatever the node and *)
(* the faults do between the calls of Sync: by a child of the top block, a *)
(* cut above every confirmed transfer, or a promotion (the store calls of  *)
(* Sync and rollback).                                                     *)
Index == INSTANCE ChainIndex

ImplementsIndex == Index!Spec

-----------------------------------------------------------------------------
(***************************************************************************)
(* The inductive invariants behind those properties.                       *)
(***************************************************************************)

(* Where cursor and header stand relative to the index, call by call: on   *)
(* the tip, or on the first free height above it with a header that fits.  *)
IndexInv ==
    /\ TypeOK
    /\ IndexLinked
    /\ \A r \in transfers : r.block \in Indexed
    /\ pc \in {"tip", "block", "announce"} =>
        /\ cursor \in Indexed
        /\ header = blocks[cursor]
        /\ \A n \in Indexed : n <= cursor
    /\ pc \in {"next", "parent", "logs", "save"} =>
        /\ \A n \in Indexed : n < cursor
        /\ Indexed # {} => cursor - 1 \in Indexed
    /\ pc \in {"parent", "logs", "save"} =>
        /\ cursor <= headNum
        /\ header \in Hash
    /\ pc \in {"logs", "save"} /\ cursor - 1 \in Indexed =>
        Parent[header] = blocks[cursor - 1]
    /\ pc \in {"rollback", "reorg"} => cursor \in Height

(* How a subscriber's view differs from the index between a commit and the *)
(* event for it.                                                           *)
MirrorInv ==
    ~lost =>
        /\ pc = "block" => blocks = [view EXCEPT ![cursor] = header]
        /\ pc = "reorg" =>
            blocks = [n \in Height |-> IF n >= cursor THEN NoHash ELSE view[n]]
        /\ pc \notin {"block", "reorg"} => blocks = view

(* Once the tip is validated, everything headNum makes deep is final and   *)
(* canonical; no rollback is ever aimed at a confirmed transfer.           *)
DeepHeight == headNum - Confirmations

FinalityInv ==
    /\ NodeInv
    /\ DeepHeight <= final
    /\ ConfirmedCanonical
    /\ ConfirmedAnnouncements
    /\ pc \in {"next", "parent", "logs", "save", "block", "announce", "confirm"} =>
        \A n \in Indexed : n <= DeepHeight => blocks[n] = canon[n]
    /\ pc \in {"parent", "logs", "save"} /\ cursor <= DeepHeight => header = canon[cursor]
    /\ pc \in {"save", "block", "announce"} /\ cursor <= DeepHeight =>
        fetched \subseteq LogsOf[canon[cursor]]
    /\ pc = "parent" =>
        \A r \in transfers : r.confirmed /\ r.block = cursor - 1 =>
            blocks[cursor - 1] = Parent[header]
    /\ pc = "rollback" => \A r \in transfers : r.confirmed => r.block < cursor

(* The three together; every property above but Converges and              *)
(* ConfirmedBelongsToBlock follows from it.                                *)
IInv == IndexInv /\ MirrorInv /\ FinalityInv

=============================================================================
