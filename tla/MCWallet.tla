------------------------------ MODULE MCWallet -------------------------------
(* A small instance of Wallet: utxos that suffice alone, together or not at *)
(* all, one of them worth nothing; amounts that are none, nothing, exact or *)
(* beyond int64.                                                            *)
EXTENDS Wallet

MCIssues == {<<1, 2>>, <<0, 1, 1>>}
MCAmounts == {<<>>, <<0, 1>>, <<2>>, <<3, 2>>}
MCBurns == {0, 1}
=============================================================================
