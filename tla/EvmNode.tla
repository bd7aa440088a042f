------------------------------ MODULE EvmNode ------------------------------
(***************************************************************************)
(* The Ethereum node behind chainmonitor.ChainBackend.  It is outside the  *)
(* repository; it is modelled from the two calls the monitor makes,        *)
(* HeaderByNumber and FilterLogs, and from what the monitor's tests make a *)
(* fake node do (swap its canonical headers between two calls).            *)
(*                                                                         *)
(* A block hash digests the header, so it determines the parent hash, the  *)
(* height and the logs of its block: a hash is an element of Hash, and     *)
(* Parent and LogsOf give what it commits to.  The node's answer at any    *)
(* moment is its canonical chain, which grows and is reorganised whenever  *)
(* the node likes, in particular between two calls of one Sync.            *)
(***************************************************************************)
EXTENDS Integers

CONSTANTS
    Hash,           \* block hashes
    NoHash,         \* what a lookup that finds no block returns
    Genesis,        \* the hash at height 0, the same on every fork
    Parent,         \* Parent[h] is header.ParentHash of the block h
    Log,            \* logs with the Transfer topic, identified by (tx_hash, log_index)
    LogsOf,         \* LogsOf[h] is the set of such logs in the block h
    FinalityDepth,  \* a block that has had this many blocks on top stays canonical
    MaxHeight,      \* bound: the height at which the chain stops growing
    MaxReorgs       \* bound: how many times the node reorganises

ASSUME NodeAssumption ==
    /\ NoHash \notin Hash
    /\ Genesis \in Hash
    /\ Parent \in [Hash -> Hash \cup {NoHash}]
    /\ LogsOf \in [Hash -> SUBSET Log]
    /\ FinalityDepth \in Nat
    /\ MaxHeight \in Nat
    /\ MaxReorgs \in Nat

Height == 0..MaxHeight

VARIABLES
    canon,   \* canon[n] is the canonical hash at height n, NoHash above the head
    head,    \* height of the canonical head
    final,   \* the highest block that finality protects from reorganisation
    reorgs   \* number of reorganisations so far

nodeVars == <<canon, head, final, reorgs>>

(* c is a chain of linked headers from Genesis to height h.                *)
IsChain(c, h) ==
    /\ c \in [Height -> Hash \cup {NoHash}]
    /\ \A n \in Height : c[n] # NoHash <=> n <= h
    /\ c[0] = Genesis
    /\ \A n \in 1..h : Parent[c[n]] = c[n - 1]

(* The block d below b, and the chain whose block at height h is b.        *)
Ancestor[d \in Height, b \in Hash \cup {NoHash}] ==
    IF d = 0 \/ b = NoHash THEN b ELSE Ancestor[d - 1, Parent[b]]

ChainTo(b, h) == [n \in Height |-> IF n <= h THEN Ancestor[h - n, b] ELSE NoHash]

(* Finality only advances, however the head moves.                         *)
FinalAt(h) == IF h - FinalityDepth > final THEN h - FinalityDepth ELSE final

NodeTypeOK ==
    /\ canon \in [Height -> Hash \cup {NoHash}]
    /\ head \in Height
    /\ final \in Height
    /\ reorgs \in 0..MaxReorgs

(***************************************************************************)
(* The calls of ChainBackend.  NoHash stands for ethereum.NotFound.  A log *)
(* query names a height and not a hash: it answers for whatever block is   *)
(* canonical when it arrives, and is empty above the head.                 *)
(***************************************************************************)
HeaderByNumber(n) == canon[n]

FilterLogs(n) == IF canon[n] = NoHash THEN {} ELSE LogsOf[canon[n]]

-----------------------------------------------------------------------------

NodeInit ==
    /\ canon = [n \in Height |-> IF n = 0 THEN Genesis ELSE NoHash]
    /\ head = 0
    /\ final = 0
    /\ reorgs = 0

(* A new block is built on the head.                                       *)
Grow ==
    /\ head < MaxHeight
    /\ \E h \in Hash :
        /\ Parent[h] = canon[head]
        /\ canon' = [canon EXCEPT ![head + 1] = h]
    /\ head' = head + 1
    /\ final' = FinalAt(head + 1)
    /\ UNCHANGED reorgs

(* The node switches to a fork that displaces at least one canonical block *)
(* and no final one.  The fork may be shorter than the chain it replaces.  *)
Reorg ==
    /\ reorgs < MaxReorgs
    /\ \E b \in Hash, h \in final..MaxHeight :
        LET fork == ChainTo(b, h) IN
        /\ IsChain(fork, h)
        /\ \A n \in 0..final : fork[n] = canon[n]
        /\ \E n \in 0..head : fork[n] # canon[n]
        /\ canon' = fork
        /\ head' = h
        /\ final' = FinalAt(h)
    /\ reorgs' = reorgs + 1

-----------------------------------------------------------------------------

(* What the monitor relies on: the canonical chain is linked, and the      *)
(* final block is on it and at most FinalityDepth below the head.          *)
NodeInv ==
    /\ IsChain(canon, head)
    /\ final <= head
    /\ head - FinalityDepth <= final

=============================================================================
