----------------------------- MODULE IndexStore -----------------------------
(***************************************************************************)
(* PostgresStore, the chain monitor's Store: the tables blocks (keyed by   *)
(* number) and transfers (keyed by tx_hash and log_index, each row         *)
(* referencing its block, deleted with it).  Every operation is one        *)
(* statement or one transaction, so each is one atomic action.  The hash   *)
(* of a block stands for its row: parent_hash and block_time are part of   *)
(* the header the hash digests.                                            *)
(***************************************************************************)
EXTENDS EvmNode

VARIABLES
    blocks,      \* blocks[n] is the hash in the row with number n, NoHash if none
    transfers    \* rows of table transfers

storeVars == <<blocks, transfers>>

Row == [log : Log, block : Height, confirmed : BOOLEAN]

StoreTypeOK ==
    /\ blocks \in [Height -> Hash \cup {NoHash}]
    /\ transfers \subseteq Row

Indexed == {n \in Height : blocks[n] # NoHash}

(* LastBlock: the row with the highest number; defined when there is one.  *)
LastBlock == CHOOSE n \in Indexed : \A m \in Indexed : m <= n

BlockByNumber(n) == blocks[n]

StoreInit ==
    /\ blocks = [n \in Height |-> NoHash]
    /\ transfers = {}

(* Mutant: a transfer whose key is in the table is moved to the new block. *)
SaveBlock_Moves(n, hash, logs, confirmed) ==
    /\ blocks' = [blocks EXCEPT ![n] = hash]
    /\ transfers' = {r \in transfers : r.log \notin logs} \cup
         {[log |-> l, block |-> n, confirmed |-> confirmed] : l \in logs}

(* The block is upserted; a transfer whose key is already in the table is  *)
(* skipped (ON CONFLICT DO NOTHING), whatever block that row belongs to.   *)
SaveBlock(n, hash, logs, confirmed) ==
    /\ blocks' = [blocks EXCEPT ![n] = hash]
    /\ transfers' = transfers \cup
         {[log |-> l, block |-> n, confirmed |-> confirmed] :
            l \in {l \in logs : \A r \in transfers : r.log # l}}

(* Deletes the blocks at or above n and, by the cascade, their transfers.  *)
DeleteFrom(n) ==
    /\ blocks' = [m \in Height |-> IF m >= n THEN NoHash ELSE blocks[m]]
    /\ transfers' = {r \in transfers : r.block < n}

ConfirmThrough(n) ==
    /\ transfers' = {[r EXCEPT !.confirmed = @ \/ r.block <= n] : r \in transfers}
    /\ UNCHANGED blocks

=============================================================================
