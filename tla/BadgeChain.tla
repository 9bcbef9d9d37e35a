------------------------------ MODULE BadgeChain -----------------------------
(***************************************************************************)
(* The badge economy: a chain that accepts transactions under the utxo     *)
(* rule, and a node that runs ParseMsgTx and ParseAndAddTxPoints on each of *)
(* them, in order and without interference (TouchstoneLedger is about the  *)
(* interference).  The transactions are the inputs: all chains of at most  *)
(* MaxTx transactions are explored.  Coins without a badge, such as the    *)
(* fee, are always to be had and are left out of the vins.                 *)
(***************************************************************************)
EXTENDS BadgeRules, Sequences, SequencesExt

CONSTANTS MaxTx, MaxVin, MaxVout   \* bounds on the chain and its transactions

ASSUME BoundsAssumption == {MaxTx, MaxVin, MaxVout} \subseteq Nat

VARIABLES
    chain,     \* the accepted transactions [vin, out]; a txid is a position
    txPoint    \* the tx_point collection

vars == <<chain, txPoint>>

Txids == 1 .. Len(chain)
OutPoints == UNION {{<<t, i>> : i \in DOMAIN chain[t].out} : t \in Txids}
Spends(t) == {<<v.pre, v.idx>> : v \in Range(chain[t].vin)}
Unspent == OutPoints \ UNION {Spends(t) : t \in Txids}

(* A badge script can only be unlocked with the badge flag; a vin that     *)
(* spends any other script may end with it or not.                         *)
VinOf(o) ==
    {[pre |-> o[1], idx |-> o[2], flag |-> f] :
        f \in IF chain[o[1]].out[o[2]] = NotBadge THEN BOOLEAN ELSE {TRUE}}

(* The sequences of vins that spend each outpoint of os once. *)
VinsOf(os) ==
    LET s == SetToSeq(os)
    IN  {v \in [DOMAIN s -> UNION {VinOf(o) : o \in os}] : \A i \in DOMAIN s : v[i] \in VinOf(s[i])}

BadgeVins(vin) == {i \in DOMAIN vin : vin[i].flag}

(* A vin with the flag whose outpoint has no point.  If the transaction it *)
(* spends from is closed, GetTxPoint says "illegal vin" and the nil point  *)
(* is dereferenced; if that one was never closed, for this same reason,    *)
(* GetTxPoint says "unknow utxo" and the child stays open.  Either way     *)
(* nothing is inserted.                                                    *)
IllegalVin(vin, points) == \E i \in BadgeVins(vin) : FindVout(points, vin[i]) = {}

(* txInventory.Vins *)
ParseVins(t, vin, points) ==
    UNION {{VinPoint(t, i, p) : p \in FindVout(points, vin[i])} : i \in BadgeVins(vin)}

(* Mutant: the vins of different badges are not recorded. *)
ParseAndAddTxPointsOneCode(t, vin, out, points) ==
    LET vins == ParseVins(t, vin, points)
    IN  IF IllegalVin(vin, points) \/ Cardinality(Codes(vins)) > 1 THEN points
        ELSE points \cup vins \cup ParseVouts(t, out, vins)

(* ParseMsgTx panics at an illegal vin and returns an error at an unknown  *)
(* one, and nothing is inserted.                                           *)
ParseAndAddTxPoints(t, vin, out, points) ==
    LET vins == ParseVins(t, vin, points)
    IN  IF IllegalVin(vin, points) THEN points
        ELSE points \cup vins \cup ParseVouts(t, out, vins)

Init == chain = <<>> /\ txPoint = {}

Accept(vin, out) ==
    /\ chain' = Append(chain, [vin |-> vin, out |-> out])
    /\ txPoint' = ParseAndAddTxPoints(Len(chain) + 1, vin, out, txPoint)

Next ==
    /\ Len(chain) < MaxTx
    /\ \E os \in SUBSET Unspent, n \in 1 .. MaxVout :
        /\ Cardinality(os) <= MaxVin
        /\ \E vin \in VinsOf(os), out \in [1 .. n -> {NotBadge} \cup 0 .. MaxBadge] :
              Accept(vin, out)

Spec == Init /\ [][Next]_vars

-----------------------------------------------------------------------------
(* Properties *)

(* All points of a badge code; their sum is what SumTxPoints reports over  *)
(* all addresses.                                                          *)
OfCode(points, c) == {p \in points : p.code = c}
Balance(points, c) == SumTxPoints(OfCode(points, c))

PointsAt(t, type) == {p \in txPoint : p.txid = t /\ p.type = type}

(* After its issuance the number of badges of a code never grows.  This is *)
(* what the checks of ParseMsgTx on badgeValue and on the number of codes  *)
(* are for.                                                                *)
BalanceNeverGrows ==
    [][\A c \in Txids : Balance(txPoint', c) <= Balance(txPoint, c)]_vars

(* No badge is spent twice, and what is not spent is worth the balance: the *)
(* vin points cancel exactly the vout points they name.                    *)
BalanceIsUnspent ==
    \A c \in Txids :
        LET vouts == {p \in OfCode(txPoint, c) : p.type = "vout"}
            gone == {p \in vouts : \E q \in txPoint : q.pre = <<p.txid, p.index>>}
        IN  Balance(txPoint, c) = SumTxPoints(vouts \ gone)

(* The int64 sum of the vins of one code never overflows, so badgeValue is *)
(* what the vins bring in.                                                 *)
NoOverflow ==
    \A t, c \in Txids : -Balance(PointsAt(t, "vin"), c) <= MaxBadge

(* The protocol of README.md, stated over whole transactions: the badge    *)
(* vouts are badges if the vins are of one code and bring in as much, or if *)
(* there is no badge vin.  The running subtraction of ParseMsgTx, with its *)
(* early return, decides the same.                                         *)
FollowsProtocol ==
    \A t \in Txids :
        LET vins == PointsAt(t, "vin")
            out == chain[t].out
            wanted == MapThenSumSet(LAMBDA i : out[i], BadgeVouts(out))
            legal == /\ Cardinality(vins) = Cardinality(BadgeVins(chain[t].vin))
                     /\ Cardinality(Codes(vins)) <= 1
                     /\ wanted <= IF vins = {} THEN MaxBadge ELSE -SumTxPoints(vins)
        IN  {p.index : p \in PointsAt(t, "vout")} = IF legal THEN BadgeVouts(out) ELSE {}

(* The badges that the chain has spent and the node still counts. *)
Stuck(t) ==
    {p \in txPoint : /\ p.type = "vout"
                     /\ <<p.txid, p.index>> \in Spends(t)
                     /\ \A q \in txPoint : q.pre # <<p.txid, p.index>>}

(* A badge that a transaction spends is gone, whatever becomes of the vouts *)
(* of the transaction.                                                     *)
SpentAreGone == \A t \in Txids : Stuck(t) = {}

(* It is gone unless another vin of the transaction is illegal. *)
StuckByIllegalVin ==
    \A t \in Txids : Stuck(t) # {} => IllegalVin(chain[t].vin, {p \in txPoint : p.txid < t})
=============================================================================
