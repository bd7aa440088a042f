--------------------------- MODULE MCChainMonitor ---------------------------
(***************************************************************************)
(* Small block trees for ChainMonitor.                                     *)
(*                                                                         *)
(*         a1 - a2 - a3 - a4          FinalityDepth 2 lets the node switch *)
(*        /       \                   between a1-a2 and b1-b2, and between *)
(*      g           c3 - c4           a3 and c3, but never lets go of a    *)
(*        \                           block with two on top of it.         *)
(*         b1 - b2 - b3 - b4                                               *)
(*                                                                         *)
(* Every branch can reach the top, so the chain never stops growing early. *)
(***************************************************************************)
EXTENDS ChainMonitor, TLC

MCHash == {"g", "a1", "a2", "a3", "a4", "b1", "b2", "b3", "b4", "c3", "c4"}

MCParent ==
    "g" :> NoHash
    @@ "a1" :> "g" @@ "a2" :> "a1" @@ "a3" :> "a2" @@ "a4" :> "a3"
    @@ "b1" :> "g" @@ "b2" :> "b1" @@ "b3" :> "b2" @@ "b4" :> "b3"
    @@ "c3" :> "a2" @@ "c4" :> "c3"

(* x is mined at height 1 on one fork and at height 2 on the other; bad    *)
(* has the Transfer topic but is not an ERC-20 transfer.                   *)
MCLog == {"x", "y", "bad"}

MCTransfer == {"x", "y"}

MCLogsOf ==
    [h \in MCHash |->
        CASE h = "a1" -> {"x"}
          [] h = "b2" -> {"x", "y"}
          [] h = "a3" -> {"y", "bad"}
          [] OTHER -> {}]

(* One fork point, below the two blocks that are not final when the chain  *)
(* has stopped growing: the index must then walk back from the top.        *)
(*                                                                         *)
(*      g - a1 - a2 - a3                                                   *)
(*            \ d2 - d3                                                    *)
MCFork == {"g", "a1", "a2", "a3", "d2", "d3"}

MCForkParent ==
    "g" :> NoHash @@ "a1" :> "g" @@ "a2" :> "a1" @@ "a3" :> "a2"
    @@ "d2" :> "a1" @@ "d3" :> "d2"

(* One transfer, which becomes deep.                                       *)
MCForkLogsOf == [h \in MCFork |-> IF h = "a1" THEN {"x"} ELSE {}]

(* START_BLOCK is not set.                                                 *)
MCUnset == {}
=============================================================================
