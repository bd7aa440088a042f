----------------------------- MODULE ChainIndex -----------------------------
(***************************************************************************)
(* What the chain monitor promises to whoever reads its tables: a chain of *)
(* linked blocks that changes in three ways only.  It is extended above    *)
(* its top by a child of the top block, it is cut from some height up, and *)
(* its transfers are promoted from below; a cut spares what is confirmed.  *)
(* ChainMonitor, with its calls, crashes and retries, implements this.     *)
(***************************************************************************)
EXTENDS Integers

CONSTANTS Hash, NoHash, Parent, Log, Height

VARIABLES blocks, transfers

vars == <<blocks, transfers>>

Indexed == {n \in Height : blocks[n] # NoHash}

Init ==
    /\ blocks = [n \in Height |-> NoHash]
    /\ transfers = {}

Extend(n, h) ==
    /\ \A m \in Indexed : m < n
    /\ Indexed # {} => n - 1 \in Indexed /\ Parent[h] = blocks[n - 1]
    /\ blocks' = [blocks EXCEPT ![n] = h]
    /\ transfers \subseteq transfers'
    /\ \A r \in transfers' \ transfers : r.block = n /\ \A q \in transfers : q.log # r.log

Cut(n) ==
    /\ \A r \in transfers : r.confirmed => r.block < n
    /\ blocks' = [m \in Height |-> IF m < n THEN blocks[m] ELSE NoHash]
    /\ transfers' = {r \in transfers : r.block < n}

Promote(n) ==
    /\ transfers' = {[r EXCEPT !.confirmed = r.confirmed \/ r.block <= n] : r \in transfers}
    /\ UNCHANGED blocks

Next ==
    \E n \in Height :
        \/ \E h \in Hash : Extend(n, h)
        \/ Cut(n)
        \/ Promote(n)

Spec == Init /\ [][Next]_vars

=============================================================================
