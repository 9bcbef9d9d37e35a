----------------------------- MODULE BadgeLedger -----------------------------
(***************************************************************************)
(* What a Touchstone node promises to those who read its tx_point          *)
(* collection, whatever its workers and its cleaner do in between.         *)
(*                                                                         *)
(* A point is written only if it is what the badge protocol makes of its   *)
(* transaction, only while the badges that the transaction spends are in   *)
(* the collection, and the spending side of a transaction before the badges*)
(* it creates.  A transaction that is settled has all its points; it stops *)
(* being settled before any of them is erased.                             *)
(***************************************************************************)
CONSTANTS
    Tx,           \* the transactions that may reach the node
    Legal,        \* those whose badge vins all spend badges
    Points,       \* Points[t], the points the badge protocol gives to t
    SpentPoints   \* SpentPoints[t], the badges that t spends

VARIABLES
    txPoint,   \* the rows of the tx_point collection
    settled    \* transactions processed to the end and not cleared since

vars == <<txPoint, settled>>

Init == txPoint = {} /\ settled = {}

(* A point of t is written. *)
Record(t, p) ==
    /\ p \in Points[t]
    /\ SpentPoints[t] \subseteq txPoint
    /\ p.type = "vout" => {q \in Points[t] : q.type = "vin"} \subseteq txPoint
    /\ txPoint' = txPoint \cup {p}
    /\ UNCHANGED settled

(* All of t has been written. *)
Settle(t) ==
    /\ t \in Legal
    /\ Points[t] \subseteq txPoint
    /\ settled' = settled \cup {t}
    /\ UNCHANGED txPoint

(* The chain no longer knows t. *)
Void(t) ==
    /\ settled' = settled \ {t}
    /\ UNCHANGED txPoint

Erase(p) ==
    /\ p.txid \notin settled
    /\ txPoint' = txPoint \ {p}
    /\ UNCHANGED settled

Next ==
    \/ \E t \in Tx : \/ \E p \in Points[t] : Record(t, p)
                     \/ Settle(t)
                     \/ Void(t)
    \/ \E p \in txPoint : Erase(p)

Spec == Init /\ [][Next]_vars

-----------------------------------------------------------------------------
(* Only badges, and the vins that spend badges, are ever in the            *)
(* collection, each under one key: what GetTxPoint returns for an outpoint *)
(* is the verdict of the badge protocol on it.                             *)
Sound == txPoint \subseteq UNION {Points[t] : t \in Tx}

(* A settled transaction has all its points: GetTxPoint's "illegal vin" is *)
(* then the verdict on an outpoint of it that is missing.                  *)
SettledComplete == \A t \in settled : t \in Legal /\ Points[t] \subseteq txPoint
=============================================================================
