--------------------------- MODULE MCTwoMonitors ---------------------------
(* Two forks of two blocks above the genesis block, no transfers.          *)
EXTENDS TwoMonitors, TLC

MCHash == {"g", "a1", "a2", "b1", "b2"}

MCParent == "g" :> NoHash @@ "a1" :> "g" @@ "a2" :> "a1" @@ "b1" :> "g" @@ "b2" :> "b1"

MCLogsOf == [h \in MCHash |-> {}]

=============================================================================
