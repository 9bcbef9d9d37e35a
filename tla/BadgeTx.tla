------------------------------- MODULE BadgeTx -------------------------------
(***************************************************************************)
(* The transactions that may reach a node, and what the badge protocol     *)
(* makes of them.  A transaction is identified with its hash, so the       *)
(* content of a txid never changes and what it amounts to is a constant.   *)
(***************************************************************************)
EXTENDS BadgeRules

CONSTANTS
    Tx,        \* the transactions that may reach the node
    TxIn,      \* TxIn[t][i] = [pre, idx, flag], the i-th vin of t
    TxOut,     \* TxOut[t][i], the badge value of the i-th vout, or NotBadge
    Token      \* Token[t], the vouts of t that are badges (see TokenAssumption)

ASSUME TxAssumption ==
    \A t \in Tx :
        /\ DOMAIN TxIn[t] \subseteq Nat
        /\ DOMAIN TxOut[t] \subseteq Nat
        /\ \A i \in DOMAIN TxIn[t] : TxIn[t][i].flag \in BOOLEAN
        /\ \A i \in DOMAIN TxOut[t] : TxOut[t][i] \in {NotBadge} \cup 0 .. MaxBadge

-----------------------------------------------------------------------------
(* The vins with the badge flag; the loop of ParseMsgTx skips the others.  *)
BadgeVins(t) == {i \in DOMAIN TxIn[t] : TxIn[t][i].flag}

(* The badge that vin i of t spends: a singleton, or {} if the outpoint is *)
(* not a badge.                                                            *)
Spent(t, i) ==
    LET vin == TxIn[t][i]
    IN  IF vin.pre \in Tx THEN FindVout(Token[vin.pre], vin) ELSE {}

(* Every flagged vin spends a badge.  ParseMsgTx gets past its first loop  *)
(* only then: an illegal vin is dereferenced as a nil pointer.             *)
Settles(t) == \A i \in BadgeVins(t) : Spent(t, i) # {}

Legal == {t \in Tx : Settles(t)}

VinPointsOf(t, vins) == UNION {{VinPoint(t, i, p) : p \in Spent(t, i)} : i \in vins}
VinPoints == [t \in Tx |-> VinPointsOf(t, BadgeVins(t))]
SpentPoints == [t \in Tx |-> UNION {Spent(t, i) : i \in BadgeVins(t)}]

(* Badges are what ParseMsgTx makes of the badges the vins spend.  Since a *)
(* txid is the hash of the outpoints it spends, the equation has exactly   *)
(* one solution.                                                           *)
ASSUME TokenAssumption ==
    \A t \in Tx : Token[t] = IF Settles(t) THEN ParseVouts(t, TxOut[t], VinPoints[t]) ELSE {}

(* All the rows that ParseMsgTx may build. *)
Rows == UNION {VinPoints[t] \cup Token[t] : t \in Tx}

(* All the rows that processing t to its end leaves in tx_point. *)
Points == [t \in Tx |-> IF Settles(t) THEN VinPoints[t] \cup Token[t] ELSE {}]
AllPoints == UNION {Points[t] : t \in Tx}
=============================================================================
