----------------------------- MODULE BadgeRules ------------------------------
(***************************************************************************)
(* The badge protocol as services/touchstone_server.go evaluates it.       *)
(*                                                                         *)
(* A transaction is abstracted to what ParseMsgTx looks at: for every vin  *)
(* the outpoint it spends and whether its signature script ends with the   *)
(* badge flag, for every vout the badge value of its script, or NotBadge   *)
(* where ParseBadgeVoutScript fails.  Addresses and timestamps of a TxPoint*)
(* play no part in its validity and are left out.  Vins and vouts are      *)
(* numbered from 1.                                                        *)
(***************************************************************************)
EXTENDS Integers, FiniteSets, FiniteSetsExt

CONSTANT MaxBadge   \* MAX_CREATE_BADGE_VALUE = 2^63 - 1, the largest int64

ASSUME MaxBadgeAssumption == MaxBadge \in Nat

NotBadge == -1              \* the script is not a badge vout
NoPre == <<>>                \* a vout point has PreTxid "" and PreIndex -1

-----------------------------------------------------------------------------
(* Rows of the tx_point collection. *)

(* The row ParseMsgTx builds for a vout that carries v badges. *)
VoutPoint(t, i, v, c) ==
    [txid |-> t, index |-> i, type |-> "vout", value |-> v, pre |-> NoPre, code |-> c]

(* Mutant: the value of a vin point is not negated. *)
VinPointPositive(t, i, p) ==
    [txid |-> t, index |-> i, type |-> "vin", value |-> p.value,
     pre |-> <<p.txid, p.index>>, code |-> p.code]

(* The row ParseMsgTx builds for vin i of t, which spends the point p. *)
VinPoint(t, i, p) ==
    [txid |-> t, index |-> i, type |-> "vin", value |-> -p.value,
     pre |-> <<p.txid, p.index>>, code |-> p.code]

(* The unique index of the collection is (txid, index, type). *)
SameKey(p, q) == p.txid = q.txid /\ p.index = q.index /\ p.type = q.type

(* GetTxPoint(pre, idx, TX_POINT_TYPE_VOUT), as the set of rows found. *)
FindVout(rows, vin) ==
    {p \in rows : p.type = "vout" /\ p.txid = vin.pre /\ p.index = vin.idx}

SumTxPoints(points) == MapThenSumSet(LAMBDA p : p.value, points)

-----------------------------------------------------------------------------
(* ParseMsgTx *)

(* int64 arithmetic wraps around. *)
Int64(v) == ((v + MaxBadge + 1) % (2 * (MaxBadge + 1))) - (MaxBadge + 1)

Codes(vins) == {p.code : p \in vins}

(* badgeValue before the loop over the vouts: what the vins bring in, or   *)
(* everything an issuance may create.                                      *)
BadgeValue(vins) ==
    IF vins = {} THEN MaxBadge
                 ELSE Int64(MapThenSumSet(LAMBDA p : -p.value, vins))

BadgeCode(t, vins) == IF vins = {} THEN t ELSE CHOOSE c \in Codes(vins) : TRUE

(* badgeValue after the k-th round of the loop over the vouts. *)
Remaining(out, vins) ==
    LET rest[k \in Nat] ==
          IF k = 0 THEN BadgeValue(vins)
          ELSE IF out[k] = NotBadge THEN rest[k - 1]
          ELSE Int64(rest[k - 1] - out[k])
    IN  rest

BadgeVouts(out) == {i \in DOMAIN out : out[i] # NotBadge}

(* Mutant: the check comes a vout too late. *)
OverspendsLate(out, vins) ==
    \E k \in BadgeVouts(out) : k + 1 \in DOMAIN out /\ Remaining(out, vins)[k] < 0

(* Mutant: vouts are not limited by what the vins bring in. *)
OverspendsNever(out, vins) == FALSE

(* The vin-less-than-vout return inside the loop over the vouts. *)
Overspends(out, vins) == \E k \in BadgeVouts(out) : Remaining(out, vins)[k] < 0

(* Mutant: different badges are added up. *)
ParseVoutsMixed(t, out, vins) ==
    IF Overspends(out, vins)
      THEN {}
      ELSE {VoutPoint(t, i, out[i], BadgeCode(t, vins)) : i \in BadgeVouts(out)}

(* txInventory.Vouts for the vin points vins. *)
ParseVouts(t, out, vins) ==
    IF Cardinality(Codes(vins)) > 1 \/ Overspends(out, vins)
      THEN {}
      ELSE {VoutPoint(t, i, out[i], BadgeCode(t, vins)) : i \in BadgeVouts(out)}
=============================================================================
