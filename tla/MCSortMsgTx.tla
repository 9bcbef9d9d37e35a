----------------------------- MODULE MCSortMsgTx -----------------------------
(* All batches of at most MaxLen transactions, duplicates included, over    *)
(* a graph with a diamond and a chain.                                       *)
EXTENDS SortMsgTx

CONSTANT MaxLen

MCTxid == 1 .. 5
(* 4 spends 2 and 3, which both spend 1; 5 spends 3 and 4. *)
MCPre == <<{}, {1}, {1}, {2, 3}, {3, 4}>>
MCBatches == UNION {[1 .. n -> MCTxid] : n \in 0 .. MaxLen}
=============================================================================
