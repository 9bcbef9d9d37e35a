--------------------------- MODULE MCConfirmations ---------------------------
(* One transaction that spends a badge, or two that spend the same one. *)
EXTENDS Confirmations

OneTx == {"t1"}
OneOut == [t \in OneTx |-> "badge"]
TwoTx == {"t1", "t2"}
TwoOut == [t \in TwoTx |-> "badge"]
=============================================================================
