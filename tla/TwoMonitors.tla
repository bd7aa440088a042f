---------------------------- MODULE TwoMonitors ----------------------------
(***************************************************************************)
(* Two chain monitors on one database.  The Deployment of chainmonitor has *)
(* one replica and the default update strategy, so that during an update   *)
(* the old and the new process both run; nothing in the store keeps the    *)
(* second one out.  Each has the locals of ChainMonitor's Sync to itself;  *)
(* the node, the tables and the bus are shared.                            *)
(***************************************************************************)
EXTENDS IndexStore

CONSTANTS Transfer, Confirmations, StartBlocks, MaxFaults

VARIABLES
    view, announced, lost, faults,
    pc1, start1, headNum1, cursor1, header1, fetched1,
    pc2, start2, headNum2, cursor2, header2, fetched2

old == <<pc1, start1, headNum1, cursor1, header1, fetched1>>
new == <<pc2, start2, headNum2, cursor2, header2, fetched2>>
vars == <<nodeVars, storeVars, view, announced, lost, faults, old, new>>

Old == INSTANCE ChainMonitor WITH
    pc <- pc1, start <- start1, headNum <- headNum1, cursor <- cursor1,
    header <- header1, fetched <- fetched1

New == INSTANCE ChainMonitor WITH
    pc <- pc2, start <- start2, headNum <- headNum2, cursor <- cursor2,
    header <- header2, fetched <- fetched2

Init == Old!Init /\ New!Init

Next ==
    \/ (Old!Boot \/ Old!Sync) /\ UNCHANGED new
    \/ (New!Boot \/ New!Sync) /\ UNCHANGED old
    \/ Old!Node /\ UNCHANGED new

Spec == Init /\ [][Next]_vars

(* "Each block is checked for parent-hash linkage" (README): while two     *)
(* monitors run, the check of one and its SaveBlock are two steps, between *)
(* which the other may roll back or save, and the index need not stay      *)
(* linked (CheckParent, SaveBlock and DeleteFrom of Sync).                 *)
LinkedDuringUpdate == Old!IndexLinked

=============================================================================
