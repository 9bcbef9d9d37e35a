---------------------------- MODULE MCPropagation ----------------------------
(* A transaction, one that spends its badges, and one that spends those of *)
(* both.                                                                   *)
EXTENDS Propagation, TLC

MCTx == {"t1", "t2", "t3"}
MCAncestors == "t1" :> {} @@ "t2" :> {"t1"} @@ "t3" :> {"t1", "t2"}
=============================================================================
