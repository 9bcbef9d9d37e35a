--------------------------- MODULE BadgeChainProofs ---------------------------
(***************************************************************************)
(* The badge economy, proved for chains and transactions of any length and *)
(* for every MaxBadge.                                                     *)
(*                                                                         *)
(* BadgeRulesProofs has what is known of the sums.  The invariant is       *)
(* that the chain keeps the utxo rule (UtxoInv), that the points of every  *)
(* transaction are what ParseMsgTx made of it from the earlier ones        *)
(* (PointInv), and that no code is worth more than one issuance (SumInv),  *)
(* which is why badgeValue cannot overflow.                                *)
(***************************************************************************)
EXTENDS BadgeChain, BadgeRulesProofs

-----------------------------------------------------------------------------
(* The invariant. *)

Vin == [pre : Nat, idx : Nat, flag : BOOLEAN]
Transaction == [vin : Seq(Vin), out : Seq(Values)]

(* The utxo rule of the chain: a vin spends an output of an earlier        *)
(* transaction, which no other vin spends, and a badge with the flag.      *)
UtxoInv ==
    /\ chain \in Seq(Transaction)
    /\ \A t \in Txids : \A k \in DOMAIN chain[t].vin :
          /\ chain[t].vin[k].pre \in 1 .. t - 1
          /\ chain[t].vin[k].idx \in DOMAIN chain[chain[t].vin[k].pre].out
          /\ chain[chain[t].vin[k].pre].out[chain[t].vin[k].idx] # NotBadge => chain[t].vin[k].flag
    /\ \A t, u \in Txids : \A k \in DOMAIN chain[t].vin, l \in DOMAIN chain[u].vin :
          /\ chain[t].vin[k].pre = chain[u].vin[l].pre
          /\ chain[t].vin[k].idx = chain[u].vin[l].idx
          => t = u /\ k = l

(* What ParseMsgTx adds for a transaction. *)
NewPoints(t, vin, out, points) ==
    IF IllegalVin(vin, points) THEN {}
    ELSE ParseVins(t, vin, points) \cup ParseVouts(t, out, ParseVins(t, vin, points))

Before(t) == {p \in txPoint : p.txid < t}
VinsAt(t) == ParseVins(t, chain[t].vin, Before(t))

(* The points of a transaction are what ParseMsgTx made of it when it had  *)
(* those of the earlier transactions.                                      *)
PointInv ==
    /\ IsFiniteSet(txPoint)
    /\ \A p \in txPoint : p.txid \in Txids /\ p.code \in 1 .. p.txid
    /\ \A t \in Txids : {p \in txPoint : p.txid = t} = NewPoints(t, chain[t].vin, chain[t].out, Before(t))

(* The badges of a code that are left are as many as an issuance may have. *)
SumInv == \A c \in Txids : Balance(txPoint, c) <= MaxBadge

BadgeInv == UtxoInv /\ PointInv /\ SumInv /\ NoOverflow

-----------------------------------------------------------------------------
(* What the points in the collection look like. *)

(* The types of the chain. *)
LEMMA ChainFacts ==
    ASSUME UtxoInv
    PROVE  /\ Len(chain) \in Nat
           /\ Txids \subseteq Nat
           /\ \A t \in Txids : /\ chain[t] \in Transaction
                               /\ chain[t].vin \in Seq(Vin)
                               /\ chain[t].out \in Seq(Values)
<1>1. chain \in Seq(Transaction) /\ Txids = 1 .. Len(chain)
  BY DEF UtxoInv, Txids
<1>2. Len(chain) \in Nat /\ Txids \subseteq Nat /\ \A t \in Txids : chain[t] \in Transaction
  BY <1>1
<1>3. \A r \in Transaction : r.vin \in Seq(Vin) /\ r.out \in Seq(Values)
  BY DEF Transaction
<1>4. QED
  BY <1>2, <1>3

(* A new vin point spends a vout point that its vin names. *)
LEMMA VinShape ==
    ASSUME NEW t, NEW vin, NEW points, NEW q \in ParseVins(t, vin, points)
    PROVE  \E k \in BadgeVins(vin) : \E p \in FindVout(points, vin[k]) : q = VinPoint(t, k, p)
BY DEF ParseVins

(* The type of a new point tells where it comes from. *)
LEMMA NewShape ==
    ASSUME NEW t, NEW vin, NEW out, NEW points, NEW p \in NewPoints(t, vin, out, points)
    PROVE  /\ ~IllegalVin(vin, points)
           /\ p.txid = t
           /\ p.type \in {"vin", "vout"}
           /\ p.type = "vin" => p \in ParseVins(t, vin, points)
           /\ p.type = "vout" => p \in ParseVouts(t, out, ParseVins(t, vin, points))
<1> DEFINE vins == ParseVins(t, vin, points)
<1>1. ~IllegalVin(vin, points) /\ (p \in vins \/ p \in ParseVouts(t, out, vins))
  BY DEF NewPoints
<1>2. CASE p \in vins
  <2>1. p.txid = t /\ p.type = "vin"
    BY <1>2, VinShape DEF VinPoint
  <2>2. QED
    BY <1>1, <1>2, <2>1
<1>3. CASE p \in ParseVouts(t, out, vins)
  <2>1. p.txid = t /\ p.type = "vout"
    BY <1>3, VoutShape DEF VoutPoint
  <2>2. QED
    BY <1>1, <1>3, <2>1
<1>4. QED
  BY <1>1, <1>2, <1>3

(* So does that of a point in the collection. *)
LEMMA PointShape ==
    ASSUME PointInv, NEW p \in txPoint
    PROVE  /\ p.txid \in Txids
           /\ p \in NewPoints(p.txid, chain[p.txid].vin, chain[p.txid].out, Before(p.txid))
           /\ p.type \in {"vin", "vout"}
BY NewShape DEF PointInv

(* A vout point is a badge vout of its transaction. *)
LEMMA IsVout ==
    ASSUME UtxoInv, PointInv, NEW p \in txPoint, p.type = "vout"
    PROVE  /\ p.txid \in Txids
           /\ p.index \in BadgeVouts(chain[p.txid].out)
           /\ p = VoutPoint(p.txid, p.index, chain[p.txid].out[p.index], BadgeCode(p.txid, VinsAt(p.txid)))
           /\ p.pre = NoPre
           /\ p.value \in 0 .. MaxBadge /\ p.value \in Nat
<1> DEFINE t == p.txid
           out == chain[t].out
           c == BadgeCode(t, VinsAt(t))
<1>1. t \in Txids /\ p \in ParseVouts(t, out, VinsAt(t))
  BY PointShape, NewShape DEF VinsAt
<1>2. PICK k \in BadgeVouts(out) : p = VoutPoint(t, k, out[k], c)
  BY <1>1, VoutShape
<1> HIDE DEF c
<1>3. p.index = k /\ p.pre = NoPre /\ p.value = out[k]
  BY <1>2 DEF VoutPoint
<1>4. out[k] \in 0 .. MaxBadge
  <2>1. out \in Seq(Values)
    BY <1>1, ChainFacts
  <2> HIDE DEF out
  <2>2. QED
    BY <1>2, <2>1 DEF BadgeVouts, Values
<1>5. p.value \in 0 .. MaxBadge /\ p.value \in Nat
  BY <1>3, <1>4, MaxBadgeAssumption
<1>6. QED
  BY <1>1, <1>2, <1>3, <1>5 DEF c

(* An outpoint has one vout point. *)
LEMMA VoutUnique ==
    ASSUME UtxoInv, PointInv, NEW p \in txPoint, NEW q \in txPoint, p.type = "vout", q.type = "vout",
           p.txid = q.txid, p.index = q.index
    PROVE  p = q
BY IsVout, Zenon

(* A vin point is the opposite of an earlier vout point, which the vin     *)
(* names.                                                                  *)
LEMMA IsVin ==
    ASSUME UtxoInv, PointInv, NEW q \in txPoint, q.type = "vin"
    PROVE  /\ q.txid \in Txids
           /\ q.index \in BadgeVins(chain[q.txid].vin)
           /\ \E p \in txPoint : /\ p.type = "vout"
                                 /\ p.txid = chain[q.txid].vin[q.index].pre
                                 /\ p.index = chain[q.txid].vin[q.index].idx
                                 /\ q = VinPoint(q.txid, q.index, p)
                                 /\ q.pre = <<p.txid, p.index>> /\ q.value = -p.value /\ q.code = p.code
<1> DEFINE t == q.txid
           vin == chain[t].vin
<1>1. t \in Txids /\ q \in ParseVins(t, vin, Before(t))
  BY PointShape, NewShape
<1>2. PICK k \in BadgeVins(vin) : \E p \in FindVout(Before(t), vin[k]) : q = VinPoint(t, k, p)
  BY <1>1, VinShape
<1>3. PICK p \in FindVout(Before(t), vin[k]) : q = VinPoint(t, k, p)
  BY <1>2
<1>4. q.index = k /\ q.pre = <<p.txid, p.index>> /\ q.value = -p.value /\ q.code = p.code
  BY <1>3 DEF VinPoint
<1>5. p \in txPoint /\ p.type = "vout" /\ p.txid = vin[k].pre /\ p.index = vin[k].idx
  BY <1>3 DEF FindVout, Before
<1>6. QED
  BY <1>1, <1>2, <1>3, <1>4, <1>5

(* No badge is spent twice. *)
LEMMA SpentOnce ==
    ASSUME UtxoInv, PointInv, NEW p \in txPoint, NEW q \in txPoint, p.type = "vin", q.type = "vin",
           p.pre = q.pre
    PROVE  p = q
<1>1. PICK a \in txPoint : /\ a.type = "vout"
                           /\ a.txid = chain[p.txid].vin[p.index].pre
                           /\ a.index = chain[p.txid].vin[p.index].idx
                           /\ p = VinPoint(p.txid, p.index, a)
                           /\ p.pre = <<a.txid, a.index>>
  BY IsVin
<1>2. PICK b \in txPoint : /\ b.type = "vout"
                           /\ b.txid = chain[q.txid].vin[q.index].pre
                           /\ b.index = chain[q.txid].vin[q.index].idx
                           /\ q = VinPoint(q.txid, q.index, b)
                           /\ q.pre = <<b.txid, b.index>>
  BY IsVin
<1>3. a.txid = b.txid /\ a.index = b.index
  <2>1. <<a.txid, a.index>> = <<b.txid, b.index>>
    BY <1>1, <1>2, Zenon
  <2>2. QED
    BY <2>1
<1>4. a = b
  BY <1>1, <1>2, <1>3, VoutUnique
<1>5. /\ p.txid \in Txids /\ p.index \in DOMAIN chain[p.txid].vin
      /\ q.txid \in Txids /\ q.index \in DOMAIN chain[q.txid].vin
  BY IsVin DEF BadgeVins
<1>6. p.txid = q.txid /\ p.index = q.index
  <2>1. /\ chain[p.txid].vin[p.index].pre = chain[q.txid].vin[q.index].pre
        /\ chain[p.txid].vin[p.index].idx = chain[q.txid].vin[q.index].idx
    BY <1>1, <1>2, <1>3, Zenon
  <2>2. \A t, u \in Txids : \A k \in DOMAIN chain[t].vin, l \in DOMAIN chain[u].vin :
          /\ chain[t].vin[k].pre = chain[u].vin[l].pre
          /\ chain[t].vin[k].idx = chain[u].vin[l].idx
          => t = u /\ k = l
    BY Zenon DEF UtxoInv
  <2>3. \A k \in DOMAIN chain[p.txid].vin, l \in DOMAIN chain[q.txid].vin :
          /\ chain[p.txid].vin[k].pre = chain[q.txid].vin[l].pre
          /\ chain[p.txid].vin[k].idx = chain[q.txid].vin[l].idx
          => p.txid = q.txid /\ k = l
    BY <1>5, <2>2, Zenon
  <2>4. QED
    BY <1>5, <2>1, <2>3, Zenon
<1>7. QED
  BY <1>1, <1>2, <1>4, <1>6, Zenon

-----------------------------------------------------------------------------
(* Sums of points. *)

Value == [p \in txPoint |-> p.value]

(* Vouts give and vins take. *)
LEMMA ValueInt ==
    ASSUME UtxoInv, PointInv, NEW p \in txPoint
    PROVE  p.value \in Int /\ (p.type = "vout" => p.value \in Nat) /\ (p.type = "vin" => -p.value \in Nat)
<1>1. CASE p.type = "vout"
  <2>1. p.value \in Nat
    BY <1>1, IsVout
  <2>2. QED
    BY <1>1, <2>1
<1>2. CASE p.type = "vin"
  <2>1. PICK q \in txPoint : q.type = "vout" /\ p.value = -q.value
    BY <1>2, IsVin
  <2>2. q.value \in Nat
    BY <2>1, IsVout
  <2>3. QED
    BY <1>2, <2>1, <2>2
<1>3. QED
  BY <1>1, <1>2, PointShape

(* The sum of points in the collection. *)
LEMMA SumPoints ==
    ASSUME UtxoInv, PointInv, NEW P \in SUBSET txPoint
    PROVE  /\ SumTxPoints(P) = Sum(Value, P)
           /\ IsFiniteSet(P)
           /\ \A p \in P : Value[p] = p.value /\ Value[p] \in Int
           /\ Sum(Value, P) \in Int
<1>1. IsFiniteSet(P)
  BY FS_Subset DEF PointInv
<1>2. \A p \in P : Value[p] = p.value /\ p.value \in Int
  BY ValueInt DEF Value
<1> DEFINE f == [p \in P |-> p.value]
<1>3. SumTxPoints(P) = Sum(f, P)
  BY <1>1, <1>2, SumTxPointsIs
<1>4. \A p \in P : Value[p] \in Int /\ f[p] = Value[p]
  BY <1>2
<1> HIDE DEF f
<1>5. Sum(f, P) = Sum(Value, P)
  BY <1>1, <1>4, SumCong
<1>6. Sum(Value, P) \in Int
  BY <1>1, <1>4, SumIs
<1>7. QED
  BY <1>1, <1>2, <1>3, <1>5, <1>6

(* What a set of vin points takes is the sum of the vout points they name. *)
Named(Q) == {p \in txPoint : p.type = "vout" /\ \E q \in Q : q.pre = <<p.txid, p.index>>}

(* The vins Q, if no two name the same, cancel the vouts they name. *)
LEMMA VinsCancel ==
    ASSUME UtxoInv, PointInv, NEW Q, IsFiniteSet(Q),
           \A q \in Q : \E p \in txPoint : p.type = "vout" /\ q.pre = <<p.txid, p.index>> /\ q.value = -p.value,
           \A p, q \in Q : p.pre = q.pre => p = q
    PROVE  /\ Sum(Value, Named(Q)) = -SumTxPoints(Q)
           /\ \A q \in Q : -q.value \in Nat /\ q.value \in Int
           /\ SumTxPoints(Q) \in Int
<1> DEFINE h == [q \in Q |-> CHOOSE p \in txPoint : p.type = "vout" /\ q.pre = <<p.txid, p.index>>]
           v == [q \in Q |-> q.value]
<1>1. \A q \in Q : h[q] \in txPoint /\ h[q].type = "vout" /\ q.pre = <<h[q].txid, h[q].index>>
  <2> SUFFICES ASSUME NEW q \in Q
               PROVE  h[q] \in txPoint /\ h[q].type = "vout" /\ q.pre = <<h[q].txid, h[q].index>>
    OBVIOUS
  <2>1. \E p \in txPoint : p.type = "vout" /\ q.pre = <<p.txid, p.index>>
    OBVIOUS
  <2>2. QED
    BY <2>1, Zenon
<1>2. DOMAIN h = Q /\ h = [q \in Q |-> h[q]]
  OBVIOUS
<1> HIDE DEF h
<1>3. \A q \in Q : q.value = -h[q].value /\ h[q].value \in Nat
  <2> SUFFICES ASSUME NEW q \in Q PROVE q.value = -h[q].value /\ h[q].value \in Nat
    OBVIOUS
  <2>1. PICK p \in txPoint : p.type = "vout" /\ q.pre = <<p.txid, p.index>> /\ q.value = -p.value
    OBVIOUS
  <2>2. p = h[q]
    <3>1. <<p.txid, p.index>> = <<h[q].txid, h[q].index>>
      BY <1>1, <2>1, Zenon
    <3>2. p.txid = h[q].txid /\ p.index = h[q].index
      BY <3>1
    <3>3. QED
      BY <1>1, <2>1, <3>2, VoutUnique
  <2>3. p.value \in Nat
    BY <2>1, ValueInt
  <2>4. QED
    BY <2>1, <2>2, <2>3
<1>4. h \in [Q -> Named(Q)]
  BY <1>1, <1>2 DEF Named
<1>5. \A p, q \in Q : h[p] = h[q] => p = q
  <2> SUFFICES ASSUME NEW p \in Q, NEW q \in Q, h[p] = h[q] PROVE p = q
    OBVIOUS
  <2>1. p.pre = q.pre
    BY <1>1
  <2>2. QED
    BY <2>1
<1>6. \A z \in Named(Q) : \E q \in Q : h[q] = z
  <2> SUFFICES ASSUME NEW z \in Named(Q) PROVE \E q \in Q : h[q] = z
    OBVIOUS
  <2>1. PICK q \in Q : q.pre = <<z.txid, z.index>>
    BY DEF Named
  <2>2. z \in txPoint /\ z.type = "vout" /\ z.txid = h[q].txid /\ z.index = h[q].index
    BY <1>1, <2>1 DEF Named
  <2>3. z = h[q]
    BY <1>1, <2>2, VoutUnique
  <2>4. QED
    BY <2>3
<1>7. \A q \in Q : q.value \in Int /\ -q.value \in Nat /\ h[q].value = -q.value
  BY <1>3
<1>8. \A q \in Q : v[q] \in Int /\ Value[h[q]] = -v[q]
  BY <1>1, <1>7 DEF Value
<1>9. SumTxPoints(Q) = Sum(v, Q)
  BY <1>7, SumTxPointsIs
<1> HIDE DEF v
<1>10. Sum(Value, Named(Q)) = -Sum(v, Q)
  BY <1>4, <1>5, <1>6, <1>8, SumOpposite
<1>11. Sum(v, Q) \in Int
  BY <1>8, SumIs
<1>12. QED
  BY <1>7, <1>9, <1>10, <1>11

(* The vouts of a code that are not spent. *)
VoutsOf(c) == {p \in OfCode(txPoint, c) : p.type = "vout"}
VinsOfCode(c) == {p \in OfCode(txPoint, c) : p.type = "vin"}
GoneOf(c) == {p \in VoutsOf(c) : \E q \in txPoint : q.pre = <<p.txid, p.index>>}

(* What the vins of a code have named is gone from its balance, and no more. *)
LEMMA UnspentBalance ==
    ASSUME UtxoInv, PointInv, NEW c
    PROVE  /\ Balance(txPoint, c) = Sum(Value, VoutsOf(c) \ GoneOf(c))
           /\ SumTxPoints(VoutsOf(c) \ GoneOf(c)) = Sum(Value, VoutsOf(c) \ GoneOf(c))
           /\ Balance(txPoint, c) \in Nat
<1> DEFINE P == OfCode(txPoint, c)
           V == VoutsOf(c)
           W == VinsOfCode(c)
           G == GoneOf(c)
<1>1. P \in SUBSET txPoint /\ V \in SUBSET P /\ W = P \ V /\ G \in SUBSET V
  BY PointShape DEF OfCode, VoutsOf, VinsOfCode, GoneOf
<1>2. W \in SUBSET txPoint /\ \A q \in W : q.type = "vin"
  BY DEF VinsOfCode, OfCode
<1>3. Named(W) = G
  <2>1. ASSUME NEW p \in Named(W) PROVE p \in G
    <3>1. PICK q \in W : q.pre = <<p.txid, p.index>>
      BY DEF Named
    <3>2. p \in txPoint /\ p.type = "vout" /\ q \in txPoint /\ q.code = c /\ q.type = "vin"
      BY DEF Named, VinsOfCode, OfCode
    <3>3. PICK r \in txPoint : r.type = "vout" /\ q.pre = <<r.txid, r.index>> /\ q.code = r.code
      BY <3>2, IsVin
    <3>4. r = p
      BY <3>1, <3>2, <3>3, VoutUnique
    <3>5. QED
      BY <3>1, <3>2, <3>3, <3>4 DEF GoneOf, VoutsOf, OfCode
  <2>2. ASSUME NEW p \in G PROVE p \in Named(W)
    <3>1. p \in txPoint /\ p.type = "vout" /\ p.code = c
      BY DEF GoneOf, VoutsOf, OfCode
    <3>2. PICK q \in txPoint : q.pre = <<p.txid, p.index>>
      BY DEF GoneOf
    <3>3. q.type = "vin"
      <4>1. q.type = "vout" => q.pre = NoPre
        BY IsVout
      <4>2. NoPre # <<p.txid, p.index>>
        BY DEF NoPre
      <4>3. QED
        BY <3>2, <4>1, <4>2, PointShape
    <3>4. PICK r \in txPoint : r.type = "vout" /\ q.pre = <<r.txid, r.index>> /\ q.code = r.code
      BY <3>3, IsVin
    <3>5. r = p
      BY <3>1, <3>2, <3>4, VoutUnique
    <3>6. q \in W
      BY <3>1, <3>3, <3>4, <3>5 DEF VinsOfCode, OfCode
    <3>7. QED
      BY <3>1, <3>2, <3>6 DEF Named
  <2>3. QED
    BY <2>1, <2>2
<1>4. Sum(Value, G) = -Sum(Value, W)
  <2>1. SumTxPoints(W) = Sum(Value, W) /\ IsFiniteSet(W)
    BY <1>2, SumPoints
  <2>2. \A q \in W : \E p \in txPoint : p.type = "vout" /\ q.pre = <<p.txid, p.index>> /\ q.value = -p.value
    BY <1>2, IsVin
  <2>3. \A p, q \in W : p.pre = q.pre => p = q
    BY <1>2, SpentOnce
  <2> HIDE DEF W
  <2>4. Sum(Value, Named(W)) = -SumTxPoints(W)
    BY <2>1, <2>2, <2>3, VinsCancel
  <2>5. QED
    BY <1>3, <2>1, <2>4
<1>5. Balance(txPoint, c) = Sum(Value, P) /\ IsFiniteSet(P) /\ \A p \in P : Value[p] \in Int
  BY <1>1, SumPoints DEF Balance
<1>6. V \in SUBSET txPoint /\ V \ G \in SUBSET txPoint
  BY <1>1
<1>7. IsFiniteSet(V) /\ \A p \in V : Value[p] \in Int
  BY <1>6, SumPoints
<1>8. IsFiniteSet(V \ G) /\ SumTxPoints(V \ G) = Sum(Value, V \ G)
  BY <1>6, SumPoints
<1> HIDE DEF P, V, W, G
<1>9. Sum(Value, P) = Sum(Value, V) + Sum(Value, P \ V) /\ Sum(Value, P \ V) \in Int
  BY <1>1, <1>5, SumParts
<1>10. /\ Sum(Value, V) = Sum(Value, G) + Sum(Value, V \ G)
       /\ Sum(Value, G) \in Int /\ Sum(Value, V \ G) \in Int /\ Sum(Value, V) \in Int
  BY <1>1, <1>7, SumParts
<1>11. Sum(Value, P) = Sum(Value, V \ G)
  BY <1>1, <1>4, <1>9, <1>10
<1>12. Sum(Value, V \ G) \in Nat
  <2>1. \A p \in V \ G : Value[p] \in Nat
    <3> SUFFICES ASSUME NEW p \in V \ G PROVE Value[p] \in Nat
      OBVIOUS
    <3>1. p \in txPoint /\ p.type = "vout"
      BY <1>6 DEF V, VoutsOf
    <3>2. QED
      BY <3>1, ValueInt DEF Value
  <2>2. QED
    BY <1>8, <2>1, SumNat
<1>13. QED
  BY <1>5, <1>8, <1>11, <1>12 DEF V, G

-----------------------------------------------------------------------------
(* What the chain accepts. *)

(* The outputs of a chain are finitely many. *)
LEMMA OutPointsFinite ==
    ASSUME UtxoInv
    PROVE  IsFiniteSet(OutPoints)
<1> DEFINE Of(t) == {<<t, k>> : k \in DOMAIN chain[t].out}
           f == [t \in Txids |-> Of(t)]
<1>1. IsFiniteSet(Txids)
  BY ChainFacts, FS_Interval DEF Txids
<1>2. IsFiniteSet({f[t] : t \in Txids})
  <2>1. DOMAIN f = Txids
    OBVIOUS
  <2> HIDE DEF f
  <2>2. QED
    BY <1>1, <2>1, ImageFinite
<1>3. {f[t] : t \in Txids} = {Of(t) : t \in Txids}
  OBVIOUS
<1>4. ASSUME NEW t \in Txids PROVE IsFiniteSet(Of(t))
  <2> DEFINE n == Len(chain[t].out)
             g == [k \in 1 .. n |-> <<t, k>>]
  <2>1. n \in Nat /\ DOMAIN chain[t].out = 1 .. n
    BY ChainFacts
  <2>2. IsFiniteSet(1 .. n)
    BY <2>1, FS_Interval
  <2>3. IsFiniteSet({g[k] : k \in 1 .. n})
    <3>1. DOMAIN g = 1 .. n
      OBVIOUS
    <3> HIDE DEF g, n
    <3>2. QED
      BY <2>2, <3>1, ImageFinite
  <2>4. Of(t) = {g[k] : k \in 1 .. n}
    BY <2>1
  <2>5. QED
    BY <2>3, <2>4
<1> HIDE DEF Of, f
<1> DEFINE U == {Of(t) : t \in Txids}
<1>5. IsFiniteSet(U) /\ \A s \in U : IsFiniteSet(s)
  BY <1>2, <1>3, <1>4
<1> HIDE DEF U
<1>6. IsFiniteSet(UNION U)
  BY <1>5, FS_UNION
<1>7. QED
  BY <1>6 DEF OutPoints, U, Of

(* SetToSeq lists every member once. *)
LEMMA SeqOfSet ==
    ASSUME NEW S, IsFiniteSet(S)
    PROVE  /\ Cardinality(S) \in Nat
           /\ SetToSeq(S) \in [1 .. Cardinality(S) -> S]
           /\ \A a, b \in 1 .. Cardinality(S) : SetToSeq(S)[a] = SetToSeq(S)[b] => a = b
<1> DEFINE n == Cardinality(S)
<1>1. n \in Nat /\ ExistsBijection(1 .. n, S)
  BY FS_CardinalityType
<1> HIDE DEF n
<1>2. PICK f \in [1 .. n -> S] : IsInjective(f)
  BY <1>1 DEF ExistsBijection, Bijection, Injection
<1> DEFINE g == CHOOSE e \in [1 .. n -> S] : IsInjective(e)
<1>3. g \in [1 .. n -> S] /\ IsInjective(g)
  BY <1>2, Zenon
<1>4. SetToSeq(S) = g
  BY Zenon DEF SetToSeq, n
<1> HIDE DEF g
<1>5. \A a, b \in 1 .. n : g[a] = g[b] => a = b
  BY <1>3 DEF IsInjective
<1>6. QED
  BY <1>1, <1>3, <1>4, <1>5, Zenon DEF n

(* The vins of a transaction that the chain accepts. *)
FreshVins(vin) ==
    /\ vin \in Seq(Vin)
    /\ \A k \in DOMAIN vin :
          /\ vin[k].pre \in Txids
          /\ vin[k].idx \in DOMAIN chain[vin[k].pre].out
          /\ chain[vin[k].pre].out[vin[k].idx] # NotBadge => vin[k].flag
          /\ \A t \in Txids : \A l \in DOMAIN chain[t].vin :
                ~(chain[t].vin[l].pre = vin[k].pre /\ chain[t].vin[l].idx = vin[k].idx)
    /\ \A k, l \in DOMAIN vin : vin[k].pre = vin[l].pre /\ vin[k].idx = vin[l].idx => k = l

(* What Next may choose is fresh. *)
LEMMA AcceptsFresh ==
    ASSUME UtxoInv, NEW os \in SUBSET Unspent, NEW vin \in VinsOf(os)
    PROVE  FreshVins(vin)
<1> DEFINE s == SetToSeq(os)
           n == Cardinality(os)
<1>1. IsFiniteSet(os)
  BY OutPointsFinite, FS_Subset DEF Unspent
<1>2. n \in Nat /\ s \in [1 .. n -> os] /\ \A a, b \in 1 .. n : s[a] = s[b] => a = b
  BY <1>1, SeqOfSet
<1>3. vin \in [DOMAIN s -> UNION {VinOf(o) : o \in os}] /\ \A k \in DOMAIN s : vin[k] \in VinOf(s[k])
  BY Zenon DEF VinsOf
<1> HIDE DEF s, n
<1>4. DOMAIN vin = 1 .. n /\ DOMAIN s = 1 .. n
  BY <1>2, <1>3
<1>5. \A o \in os : \E t \in Txids : \E k \in DOMAIN chain[t].out : o = <<t, k>>
  BY DEF Unspent, OutPoints
<1>6. ASSUME NEW k \in 1 .. n
      PROVE  /\ s[k] = <<vin[k].pre, vin[k].idx>>
             /\ s[k] \in os
             /\ vin[k].pre \in Txids
             /\ vin[k].idx \in DOMAIN chain[vin[k].pre].out
             /\ chain[vin[k].pre].out[vin[k].idx] # NotBadge => vin[k].flag
             /\ vin[k] \in Vin
  <2>1. s[k] \in os
    BY <1>2
  <2>2. PICK t \in Txids : \E j \in DOMAIN chain[t].out : s[k] = <<t, j>>
    BY <1>5, <2>1
  <2>3. PICK j \in DOMAIN chain[t].out : s[k] = <<t, j>>
    BY <2>2
  <2>4. s[k][1] = t /\ s[k][2] = j
    BY <2>3
  <2>5. PICK f \in (IF chain[t].out[j] = NotBadge THEN BOOLEAN ELSE {TRUE}) :
            vin[k] = [pre |-> t, idx |-> j, flag |-> f]
    <3>1. vin[k] \in VinOf(s[k])
      BY <1>3, <1>4
    <3>2. vin[k] \in {[pre |-> s[k][1], idx |-> s[k][2], flag |-> f] :
                        f \in IF chain[s[k][1]].out[s[k][2]] = NotBadge THEN BOOLEAN ELSE {TRUE}}
      BY <3>1, Zenon DEF VinOf
    <3>3. QED
      BY <2>4, <3>2, Zenon
  <2>6. vin[k].pre = t /\ vin[k].idx = j /\ vin[k].flag = f
    BY <2>5
  <2>7. t \in Nat /\ j \in Nat
    <3>1. chain[t].out \in Seq(Values) /\ t \in Nat
      BY ChainFacts
    <3>2. QED
      BY <2>3, <3>1
  <2>8. f \in BOOLEAN
    BY Zenon
  <2>9. vin[k] \in Vin
    <3>1. [pre |-> t, idx |-> j, flag |-> f] \in Vin
      BY <2>7, <2>8 DEF Vin
    <3>2. QED
      BY <2>5, <3>1, Zenon
  <2>10. chain[t].out[j] # NotBadge => f
    BY Zenon
  <2>11. chain[vin[k].pre].out[vin[k].idx] # NotBadge => vin[k].flag
    BY <2>6, <2>10, Zenon
  <2>12. QED
    BY <2>1, <2>3, <2>6, <2>9, <2>11, Zenon
<1>7. vin \in Seq(Vin)
  <2>1. vin = [k \in 1 .. n |-> vin[k]]
    BY <1>3, <1>4
  <2>2. \A k \in 1 .. n : vin[k] \in Vin
    BY <1>6
  <2> HIDE DEF Vin
  <2>3. QED
    BY <1>2, <2>1, <2>2
<1>8. ASSUME NEW k \in 1 .. n, NEW t \in Txids, NEW l \in DOMAIN chain[t].vin,
             chain[t].vin[l].pre = vin[k].pre, chain[t].vin[l].idx = vin[k].idx
      PROVE  FALSE
  <2>1. s[k] = <<chain[t].vin[l].pre, chain[t].vin[l].idx>> /\ s[k] \in os
    BY <1>6, <1>8
  <2>2. chain[t].vin[l] \in Range(chain[t].vin)
    BY DEF Range
  <2>3. s[k] \in Spends(t)
    BY <2>1, <2>2, Zenon DEF Spends
  <2>4. QED
    BY <2>1, <2>3 DEF Unspent
<1>9. ASSUME NEW k \in 1 .. n, NEW l \in 1 .. n, vin[k].pre = vin[l].pre, vin[k].idx = vin[l].idx
      PROVE  k = l
  <2>1. s[k] = s[l]
    BY <1>6, <1>9
  <2>2. QED
    BY <1>2, <2>1
<1>10. QED
  BY <1>4, <1>6, <1>7, <1>8, <1>9, Zenon DEF FreshVins

(* The step of the chain. *)
Grows(vin, out) ==
    /\ FreshVins(vin)
    /\ out \in Seq(Values)
    /\ chain' = Append(chain, [vin |-> vin, out |-> out])
    /\ txPoint' = txPoint \cup NewPoints(Len(chain) + 1, vin, out, txPoint)

(* Every step of Next is one of Grows. *)
LEMMA NextGrows ==
    ASSUME UtxoInv, Next
    PROVE  \E vin, out : Grows(vin, out)
<1>1. PICK os \in SUBSET Unspent, n \in 1 .. MaxVout :
        \E vin \in VinsOf(os), out \in [1 .. n -> Values] : Accept(vin, out)
  BY Zenon DEF Next, Values
<1>2. PICK vin \in VinsOf(os), out \in [1 .. n -> Values] : Accept(vin, out)
  BY <1>1
<1>3. FreshVins(vin)
  BY AcceptsFresh
<1>4. out \in Seq(Values)
  <2>1. n \in Nat
    BY BoundsAssumption
  <2> HIDE DEF Values
  <2>2. QED
    BY <2>1
<1>5. ParseAndAddTxPoints(Len(chain) + 1, vin, out, txPoint)
        = txPoint \cup NewPoints(Len(chain) + 1, vin, out, txPoint)
  BY DEF ParseAndAddTxPoints, NewPoints
<1>6. Grows(vin, out)
  BY <1>2, <1>3, <1>4, <1>5, Zenon DEF Grows, Accept
<1>7. QED
  BY <1>6

(* The earlier transactions stay. *)
LEMMA ChainGrows ==
    ASSUME UtxoInv, NEW vin, NEW out, Grows(vin, out)
    PROVE  /\ Len(chain)' = Len(chain) + 1
           /\ Txids' = Txids \cup {Len(chain) + 1} /\ Len(chain) + 1 \notin Txids
           /\ \A t \in Txids : chain'[t] = chain[t]
           /\ chain'[Len(chain) + 1].vin = vin /\ chain'[Len(chain) + 1].out = out
           /\ chain' \in Seq(Transaction)
<1> DEFINE tx == [vin |-> vin, out |-> out]
           N == Len(chain) + 1
<1>1. tx \in Transaction /\ tx.vin = vin /\ tx.out = out
  BY DEF Grows, FreshVins, Transaction
<1>2. chain \in Seq(Transaction) /\ chain' = Append(chain, tx) /\ Len(chain) \in Nat
  <2>1. chain' = Append(chain, tx)
    BY Zenon DEF Grows
  <2>2. chain \in Seq(Transaction)
    BY Zenon DEF UtxoInv
  <2> HIDE DEF tx
  <2>3. Len(chain) \in Nat
    BY <2>2
  <2>4. QED
    BY <2>1, <2>2, <2>3
<1> HIDE DEF tx
<1>3. /\ chain' \in Seq(Transaction) /\ Len(chain') = N
      /\ \A t \in 1 .. Len(chain) : chain'[t] = chain[t]
      /\ chain'[N] = tx
  <2> HIDE DEF Transaction
  <2>1. QED
    BY <1>1, <1>2
<1>4. Txids = 1 .. Len(chain) /\ Txids' = 1 .. N
  BY <1>3 DEF Txids
<1>5. 1 .. N = (1 .. Len(chain)) \cup {N} /\ N \notin 1 .. Len(chain)
  BY <1>2
<1>6. QED
  BY <1>1, <1>3, <1>4, <1>5, Zenon

(* The utxo rule is kept. *)
LEMMA UtxoStep ==
    ASSUME UtxoInv, NEW vin, NEW out, Grows(vin, out)
    PROVE  UtxoInv'
<1> DEFINE N == Len(chain) + 1
<1>1. /\ Txids' = Txids \cup {N} /\ N \notin Txids /\ Txids = 1 .. Len(chain) /\ Len(chain) \in Nat
      /\ \A t \in Txids : chain'[t] = chain[t]
      /\ chain'[N].vin = vin /\ chain'[N].out = out
      /\ chain' \in Seq(Transaction)
  BY ChainGrows, ChainFacts DEF Txids
<1> HIDE DEF N
<1>2. ASSUME NEW t \in Txids', NEW k \in DOMAIN chain'[t].vin
      PROVE  /\ chain'[t].vin[k].pre \in 1 .. t - 1
             /\ chain'[t].vin[k].idx \in DOMAIN chain'[chain'[t].vin[k].pre].out
             /\ chain'[chain'[t].vin[k].pre].out[chain'[t].vin[k].idx] # NotBadge => chain'[t].vin[k].flag
  <2>1. CASE t \in Txids
    <3>1. chain'[t] = chain[t]
      BY <1>1, <2>1
    <3>2. /\ chain[t].vin[k].pre \in 1 .. t - 1
          /\ chain[t].vin[k].idx \in DOMAIN chain[chain[t].vin[k].pre].out
          /\ chain[chain[t].vin[k].pre].out[chain[t].vin[k].idx] # NotBadge => chain[t].vin[k].flag
      BY <1>2, <2>1, <3>1, Zenon DEF UtxoInv
    <3>3. chain[t].vin[k].pre \in Txids
      <4> DEFINE pre == chain[t].vin[k].pre
      <4>1. pre \in 1 .. t - 1
        BY <3>2, Zenon
      <4> HIDE DEF pre
      <4>2. pre \in Txids
        BY <1>1, <2>1, <4>1
      <4>3. QED
        BY <4>2 DEF pre
    <3>4. chain'[chain[t].vin[k].pre] = chain[chain[t].vin[k].pre]
      BY <1>1, <3>3
    <3>5. QED
      BY <3>1, <3>2, <3>4, Zenon
  <2>2. CASE t = N
    <3>1. k \in DOMAIN vin /\ chain'[t].vin = vin
      BY <1>1, <1>2, <2>2
    <3>2. /\ vin[k].pre \in Txids
          /\ vin[k].idx \in DOMAIN chain[vin[k].pre].out
          /\ chain[vin[k].pre].out[vin[k].idx] # NotBadge => vin[k].flag
      BY <3>1, Zenon DEF Grows, FreshVins
    <3>3. chain'[vin[k].pre] = chain[vin[k].pre]
      BY <1>1, <3>2
    <3>4. vin[k].pre \in 1 .. t - 1
      BY <1>1, <2>2, <3>2 DEF N
    <3>5. QED
      BY <3>1, <3>2, <3>3, <3>4, Zenon
  <2>3. QED
    BY <1>1, <2>1, <2>2
<1>3. ASSUME NEW t \in Txids', NEW u \in Txids', NEW k \in DOMAIN chain'[t].vin, NEW l \in DOMAIN chain'[u].vin,
             chain'[t].vin[k].pre = chain'[u].vin[l].pre, chain'[t].vin[k].idx = chain'[u].vin[l].idx
      PROVE  t = u /\ k = l
  <2>1. CASE t \in Txids /\ u \in Txids
    <3>1. chain'[t] = chain[t] /\ chain'[u] = chain[u]
      BY <1>1, <2>1
    <3>2. /\ k \in DOMAIN chain[t].vin /\ l \in DOMAIN chain[u].vin
          /\ chain[t].vin[k].pre = chain[u].vin[l].pre /\ chain[t].vin[k].idx = chain[u].vin[l].idx
      BY <1>3, <3>1, Zenon
    <3>3. \A a \in DOMAIN chain[t].vin, b \in DOMAIN chain[u].vin :
             /\ chain[t].vin[a].pre = chain[u].vin[b].pre
             /\ chain[t].vin[a].idx = chain[u].vin[b].idx
             => t = u /\ a = b
      BY <2>1, Zenon DEF UtxoInv
    <3>4. QED
      BY <3>2, <3>3, Zenon
  <2>2. CASE t = N /\ u = N
    <3>1. \A a, b \in DOMAIN vin : vin[a].pre = vin[b].pre /\ vin[a].idx = vin[b].idx => a = b
      BY Zenon DEF Grows, FreshVins
    <3>2. QED
      BY <1>1, <1>3, <2>2, <3>1, Zenon
  <2>3. CASE t = N /\ u \in Txids
    <3>1. chain'[u] = chain[u] /\ chain'[t].vin = vin
      BY <1>1, <2>3
    <3>2. \A a \in DOMAIN vin : \A b \in DOMAIN chain[u].vin :
             ~(chain[u].vin[b].pre = vin[a].pre /\ chain[u].vin[b].idx = vin[a].idx)
      BY <2>3, Zenon DEF Grows, FreshVins
    <3>3. QED
      BY <1>3, <3>1, <3>2, Zenon
  <2>4. CASE u = N /\ t \in Txids
    <3>1. chain'[t] = chain[t] /\ chain'[u].vin = vin
      BY <1>1, <2>4
    <3>2. \A a \in DOMAIN vin : \A b \in DOMAIN chain[t].vin :
             ~(chain[t].vin[b].pre = vin[a].pre /\ chain[t].vin[b].idx = vin[a].idx)
      BY <2>4, Zenon DEF Grows, FreshVins
    <3>3. QED
      BY <1>3, <3>1, <3>2, Zenon
  <2>5. QED
    BY <1>1, <2>1, <2>2, <2>3, <2>4
<1>4. /\ \A t \in Txids' : \A k \in DOMAIN chain'[t].vin :
            /\ chain'[t].vin[k].pre \in 1 .. t - 1
            /\ chain'[t].vin[k].idx \in DOMAIN chain'[chain'[t].vin[k].pre].out
            /\ chain'[chain'[t].vin[k].pre].out[chain'[t].vin[k].idx] # NotBadge => chain'[t].vin[k].flag
  BY <1>2, Zenon
<1>5. \A t, u \in Txids' : \A k \in DOMAIN chain'[t].vin, l \in DOMAIN chain'[u].vin :
          /\ chain'[t].vin[k].pre = chain'[u].vin[l].pre
          /\ chain'[t].vin[k].idx = chain'[u].vin[l].idx
          => t = u /\ k = l
  <2> TAKE t, u \in Txids'
  <2> TAKE k \in DOMAIN chain'[t].vin, l \in DOMAIN chain'[u].vin
  <2> HAVE /\ chain'[t].vin[k].pre = chain'[u].vin[l].pre
           /\ chain'[t].vin[k].idx = chain'[u].vin[l].idx
  <2>1. QED
    BY <1>3
<1>6. QED
  BY <1>1, <1>4, <1>5, Zenon DEF UtxoInv

-----------------------------------------------------------------------------
(* What a transaction adds. *)

(* Its vin points are finitely many, and each is the opposite of a vout    *)
(* point that no vin point names yet.                                      *)
LEMMA NewVins ==
    ASSUME UtxoInv, PointInv, NEW t, NEW vin, FreshVins(vin)
    PROVE  /\ IsFiniteSet(ParseVins(t, vin, txPoint))
           /\ \A q \in ParseVins(t, vin, txPoint) :
                 /\ q.txid = t /\ q.type = "vin"
                 /\ \E p \in txPoint : /\ p.type = "vout" /\ q.pre = <<p.txid, p.index>>
                                       /\ q.value = -p.value /\ q.code = p.code
                                       /\ \A r \in txPoint : r.pre # <<p.txid, p.index>>
           /\ \A p, q \in ParseVins(t, vin, txPoint) : p.pre = q.pre => p = q
<1> DEFINE V == ParseVins(t, vin, txPoint)
           B == BadgeVins(vin)
           X == B \X txPoint
           g == [x \in X |-> VinPoint(t, x[1], x[2])]
<1>1. ASSUME NEW q \in V
      PROVE  \E k \in B : \E p \in txPoint : /\ q = VinPoint(t, k, p) /\ p.type = "vout"
                                             /\ p.txid = vin[k].pre /\ p.index = vin[k].idx
  BY VinShape DEF FindVout
<1>2. IsFiniteSet(V)
  <2>1. IsFiniteSet(B)
    <3>1. IsFiniteSet(1 .. Len(vin)) /\ B \subseteq 1 .. Len(vin)
      BY FS_Interval DEF FreshVins, BadgeVins
    <3>2. QED
      BY <3>1, FS_Subset
  <2>2. IsFiniteSet(X)
    <3> HIDE DEF B
    <3>1. QED
      BY <2>1, FS_Product DEF PointInv
  <2>3. IsFiniteSet({g[x] : x \in X})
    <3>1. DOMAIN g = X
      OBVIOUS
    <3> HIDE DEF g, X
    <3>2. QED
      BY <2>2, <3>1, ImageFinite
  <2>4. ASSUME NEW q \in V PROVE q \in {g[x] : x \in X}
    <3>1. PICK k \in B : \E p \in txPoint : q = VinPoint(t, k, p)
      BY <1>1
    <3>2. PICK p \in txPoint : q = VinPoint(t, k, p)
      BY <3>1
    <3>3. <<k, p>> \in X /\ g[<<k, p>>] = q
      BY <3>2
    <3>4. QED
      BY <3>3
  <2>5. V \subseteq {g[x] : x \in X}
    BY <2>4
  <2> HIDE DEF V, g, X
  <2>6. QED
    BY <2>3, <2>5, FS_Subset
<1>3. ASSUME NEW q \in V
      PROVE  /\ q.txid = t /\ q.type = "vin"
             /\ \E p \in txPoint : /\ p.type = "vout" /\ q.pre = <<p.txid, p.index>>
                                   /\ q.value = -p.value /\ q.code = p.code
                                   /\ \A r \in txPoint : r.pre # <<p.txid, p.index>>
  <2>1. PICK k \in B : \E p \in txPoint : /\ q = VinPoint(t, k, p) /\ p.type = "vout"
                                          /\ p.txid = vin[k].pre /\ p.index = vin[k].idx
    BY <1>1
  <2>2. PICK p \in txPoint : /\ q = VinPoint(t, k, p) /\ p.type = "vout"
                             /\ p.txid = vin[k].pre /\ p.index = vin[k].idx
    BY <2>1
  <2>3. q.txid = t /\ q.type = "vin" /\ q.pre = <<p.txid, p.index>> /\ q.value = -p.value /\ q.code = p.code
    BY <2>2 DEF VinPoint
  <2>4. ASSUME NEW r \in txPoint, r.pre = <<p.txid, p.index>> PROVE FALSE
    <3>1. r.type = "vin"
      <4>1. r.type = "vout" => r.pre = NoPre
        BY IsVout
      <4>2. NoPre # <<p.txid, p.index>>
        BY DEF NoPre
      <4>3. QED
        BY <2>4, <4>1, <4>2, PointShape
    <3>2. /\ r.txid \in Txids /\ r.index \in DOMAIN chain[r.txid].vin
      BY <3>1, IsVin DEF BadgeVins
    <3>3. PICK a \in txPoint : /\ a.txid = chain[r.txid].vin[r.index].pre
                               /\ a.index = chain[r.txid].vin[r.index].idx
                               /\ r.pre = <<a.txid, a.index>>
      BY <3>1, IsVin
    <3>4. a.txid = p.txid /\ a.index = p.index
      <4>1. <<a.txid, a.index>> = <<p.txid, p.index>>
        BY <2>4, <3>3, Zenon
      <4>2. QED
        BY <4>1
    <3>5. k \in DOMAIN vin
      BY DEF BadgeVins
    <3>6. \A u \in Txids : \A l \in DOMAIN chain[u].vin :
              ~(chain[u].vin[l].pre = vin[k].pre /\ chain[u].vin[l].idx = vin[k].idx)
      BY <3>5, Zenon DEF FreshVins
    <3>7. ~(chain[r.txid].vin[r.index].pre = vin[k].pre /\ chain[r.txid].vin[r.index].idx = vin[k].idx)
      BY <3>2, <3>6, Zenon
    <3>8. QED
      BY <2>2, <3>3, <3>4, <3>7, Zenon
  <2>5. \A r \in txPoint : r.pre # <<p.txid, p.index>>
    BY <2>4
  <2>6. QED
    BY <2>2, <2>3, <2>5
<1>4. ASSUME NEW p \in V, NEW q \in V, p.pre = q.pre PROVE p = q
  <2>1. PICK k \in B : \E a \in txPoint : /\ p = VinPoint(t, k, a) /\ a.type = "vout"
                                          /\ a.txid = vin[k].pre /\ a.index = vin[k].idx
    BY <1>1
  <2>2. PICK a \in txPoint : /\ p = VinPoint(t, k, a) /\ a.type = "vout"
                             /\ a.txid = vin[k].pre /\ a.index = vin[k].idx
    BY <2>1
  <2>3. PICK l \in B : \E b \in txPoint : /\ q = VinPoint(t, l, b) /\ b.type = "vout"
                                          /\ b.txid = vin[l].pre /\ b.index = vin[l].idx
    BY <1>1
  <2>4. PICK b \in txPoint : /\ q = VinPoint(t, l, b) /\ b.type = "vout"
                             /\ b.txid = vin[l].pre /\ b.index = vin[l].idx
    BY <2>3
  <2>5. p.pre = <<a.txid, a.index>> /\ q.pre = <<b.txid, b.index>>
    BY <2>2, <2>4 DEF VinPoint
  <2>6. a.txid = b.txid /\ a.index = b.index
    <3>1. <<a.txid, a.index>> = <<b.txid, b.index>>
      BY <1>4, <2>5, Zenon
    <3>2. QED
      BY <3>1
  <2>7. a = b
    BY <2>2, <2>4, <2>6, VoutUnique
  <2>8. k = l
    <3>1. k \in DOMAIN vin /\ l \in DOMAIN vin
      BY DEF BadgeVins
    <3>2. \A x, y \in DOMAIN vin : vin[x].pre = vin[y].pre /\ vin[x].idx = vin[y].idx => x = y
      BY Zenon DEF FreshVins
    <3>3. vin[k].pre = vin[l].pre /\ vin[k].idx = vin[l].idx
      BY <2>2, <2>4, <2>6, Zenon
    <3>4. QED
      BY <3>1, <3>2, <3>3, Zenon
  <2>9. QED
    BY <2>2, <2>4, <2>7, <2>8
<1>5. QED
  BY <1>2, <1>3, <1>4, Zenon

(* The vins of a code bring in at most what is left of it. *)
LEMMA VinsWorth ==
    ASSUME UtxoInv, PointInv, NEW t, NEW vin, FreshVins(vin), NEW c
    PROVE  LET Q == OfCode(ParseVins(t, vin, txPoint), c)
           IN  /\ IsFiniteSet(Q)
               /\ \A q \in Q : q.value \in Int
               /\ -SumTxPoints(Q) \in Nat /\ SumTxPoints(Q) \in Int
               /\ -SumTxPoints(Q) <= Balance(txPoint, c)
<1> DEFINE V == ParseVins(t, vin, txPoint)
           Q == OfCode(V, c)
           L == VoutsOf(c) \ GoneOf(c)
<1>1. Q \subseteq V /\ \A q \in Q : q.code = c
  BY DEF OfCode
<1>2. /\ IsFiniteSet(V)
      /\ \A q \in V : \E p \in txPoint : /\ p.type = "vout" /\ q.pre = <<p.txid, p.index>>
                                         /\ q.value = -p.value /\ q.code = p.code
                                         /\ \A r \in txPoint : r.pre # <<p.txid, p.index>>
      /\ \A p, q \in V : p.pre = q.pre => p = q
  <2>1. /\ IsFiniteSet(V)
        /\ \A q \in V :
              /\ q.txid = t /\ q.type = "vin"
              /\ \E p \in txPoint : /\ p.type = "vout" /\ q.pre = <<p.txid, p.index>>
                                    /\ q.value = -p.value /\ q.code = p.code
                                    /\ \A r \in txPoint : r.pre # <<p.txid, p.index>>
        /\ \A p, q \in V : p.pre = q.pre => p = q
    BY NewVins, Zenon
  <2> HIDE DEF V
  <2>2. QED
    BY <2>1, Zenon
<1> HIDE DEF V, Q
<1>3. IsFiniteSet(Q)
  BY <1>1, <1>2, FS_Subset
<1>4. \A q \in Q : \E p \in txPoint : p.type = "vout" /\ q.pre = <<p.txid, p.index>> /\ q.value = -p.value
  BY <1>1, <1>2
<1>5. \A p, q \in Q : p.pre = q.pre => p = q
  BY <1>1, <1>2
<1>6. /\ Sum(Value, Named(Q)) = -SumTxPoints(Q)
      /\ \A q \in Q : -q.value \in Nat /\ q.value \in Int
      /\ SumTxPoints(Q) \in Int
  BY <1>3, <1>4, <1>5, VinsCancel
<1>7. ASSUME NEW p \in Named(Q) PROVE p \in L
  <2>1. PICK q \in Q : q.pre = <<p.txid, p.index>>
    BY DEF Named
  <2>2. p \in txPoint /\ p.type = "vout"
    BY DEF Named
  <2>3. PICK r \in txPoint : /\ r.type = "vout" /\ q.pre = <<r.txid, r.index>> /\ q.code = r.code
                             /\ \A s \in txPoint : s.pre # <<r.txid, r.index>>
    BY <1>1, <1>2
  <2>4. r = p
    <3>1. <<r.txid, r.index>> = <<p.txid, p.index>>
      BY <2>1, <2>3, Zenon
    <3>2. r.txid = p.txid /\ r.index = p.index
      BY <3>1
    <3>3. QED
      BY <2>2, <2>3, <3>2, VoutUnique
  <2>5. p.code = c
    BY <1>1, <2>3, <2>4
  <2>6. QED
    BY <2>2, <2>3, <2>4, <2>5 DEF VoutsOf, GoneOf, OfCode
<1>8. L \in SUBSET txPoint /\ \A p \in L : p.type = "vout"
  BY DEF VoutsOf, OfCode
<1>9. IsFiniteSet(L) /\ (\A p \in L : Value[p] \in Int) /\ \A p \in L : Value[p] \in Nat
  <2>1. IsFiniteSet(L) /\ \A p \in L : Value[p] = p.value /\ Value[p] \in Int
    BY <1>8, SumPoints
  <2>2. \A p \in L : p.value \in Nat
    BY <1>8, ValueInt
  <2>3. QED
    BY <2>1, <2>2
<1>10. Balance(txPoint, c) = Sum(Value, L)
  BY UnspentBalance
<1> DEFINE M == Named(Q)
<1> HIDE DEF L, M
<1>11. M \in SUBSET L
  BY <1>7 DEF M
<1>12. Sum(Value, L) = Sum(Value, M) + Sum(Value, L \ M) /\ Sum(Value, M) \in Int
  BY <1>9, <1>11, SumParts
<1>13. Sum(Value, L \ M) \in Nat /\ Sum(Value, M) \in Nat
  <2>1. IsFiniteSet(L \ M) /\ IsFiniteSet(M)
    BY <1>9, <1>11, FS_Subset
  <2>2. QED
    BY <1>9, <1>11, <2>1, SumNat
<1>14. Sum(Value, M) = -SumTxPoints(Q)
  BY <1>6 DEF M
<1>15. -SumTxPoints(Q) \in Nat /\ -SumTxPoints(Q) <= Balance(txPoint, c)
  BY <1>6, <1>10, <1>12, <1>13, <1>14
<1>16. QED
  BY <1>3, <1>6, <1>15 DEF Q, V

(* The codes of the points, old and new, are txids of the chain. *)
LEMMA VinCodes ==
    ASSUME UtxoInv, PointInv, NEW t, NEW vin, FreshVins(vin)
    PROVE  \A q \in ParseVins(t, vin, txPoint) : q.code \in Txids /\ q.value \in Int
<1> SUFFICES ASSUME NEW q \in ParseVins(t, vin, txPoint) PROVE q.code \in Txids /\ q.value \in Int
  OBVIOUS
<1>1. PICK p \in txPoint : p.type = "vout" /\ q.value = -p.value /\ q.code = p.code
  BY NewVins
<1>2. p.txid \in Txids /\ p.code \in 1 .. p.txid
  BY DEF PointInv
<1>3. p.value \in Int
  BY ValueInt
<1>4. Txids = 1 .. Len(chain) /\ Len(chain) \in Nat
  BY ChainFacts DEF Txids
<1>5. QED
  BY <1>1, <1>2, <1>3, <1>4

(* One code: all vins are of it. *)
LEMMA OneCode ==
    ASSUME NEW vins, IsFiniteSet(vins), vins # {}, ~(Cardinality(Codes(vins)) > 1)
    PROVE  /\ BadgeCode(0, vins) \in Codes(vins)
           /\ \A t : BadgeCode(t, vins) = BadgeCode(0, vins)
           /\ \A p \in vins : p.code = BadgeCode(0, vins)
<1> DEFINE C == Codes(vins)
           c == CHOOSE x \in C : TRUE
           f == [p \in vins |-> p.code]
<1>1. IsFiniteSet(C)
  <2>1. C = {f[p] : p \in vins} /\ DOMAIN f = vins
    BY DEF Codes
  <2> HIDE DEF f, C
  <2>2. QED
    BY <2>1, ImageFinite
<1>2. c \in C
  <2>1. \E x : x \in C
    BY DEF Codes
  <2>2. QED
    BY <2>1, Zenon
<1>3. \A t : BadgeCode(t, vins) = c
  BY Zenon DEF BadgeCode
<1>4. ASSUME NEW p \in vins, p.code # c PROVE FALSE
  <2> DEFINE d == p.code
             n == Cardinality(C)
             m == Cardinality(C \ {c})
             l == Cardinality((C \ {c}) \ {d})
  <2>1. d \in C /\ d \in C \ {c}
    BY <1>4 DEF Codes
  <2> HIDE DEF C, c, d
  <2>2. IsFiniteSet(C \ {c}) /\ m = n - 1
    BY <1>1, <1>2, FS_RemoveElement
  <2>3. IsFiniteSet((C \ {c}) \ {d}) /\ l = m - 1
    BY <2>1, <2>2, FS_RemoveElement
  <2>4. n \in Nat /\ m \in Nat /\ l \in Nat
    BY <1>1, <2>2, <2>3, FS_CardinalityType
  <2>5. ~(n > 1)
    BY DEF C
  <2> HIDE DEF n, m, l
  <2>6. QED
    BY <2>2, <2>3, <2>4, <2>5
<1> HIDE DEF c, C
<1>5. \A p \in vins : p.code = c
  BY <1>4
<1>6. BadgeCode(0, vins) = c
  BY <1>3
<1>7. QED
  BY <1>2, <1>3, <1>5, <1>6 DEF C

(* What ParseMsgTx adds takes as much from a code as it gives, or more; an *)
(* issuance gives at most MaxBadge.                                        *)
LEMMA NewWorth ==
    ASSUME UtxoInv, PointInv, SumInv, NEW vin, FreshVins(vin), NEW out \in Seq(Values)
    PROVE  LET N == Len(chain) + 1
               D == NewPoints(N, vin, out, txPoint)
           IN  /\ IsFiniteSet(D)
               /\ \A p \in D : p.txid = N /\ p.value \in Int /\ p.code \in 1 .. N
               /\ \A c \in Txids : SumTxPoints(OfCode(D, c)) <= 0
               /\ SumTxPoints(OfCode(D, N)) <= MaxBadge
<1> DEFINE N == Len(chain) + 1
           D == NewPoints(N, vin, out, txPoint)
           V == ParseVins(N, vin, txPoint)
           U == ParseVouts(N, out, V)
           b == BadgeValue(V)
<1>1. Txids = 1 .. Len(chain) /\ Len(chain) \in Nat /\ N \notin Txids /\ Txids \subseteq 1 .. N /\ N \in 1 .. N
  BY ChainFacts DEF Txids
<1>2. /\ IsFiniteSet(V)
      /\ \A q \in V : q.txid = N /\ q.type = "vin" /\ q.code \in Txids /\ q.value \in Int
  BY NewVins, VinCodes
<1>3. \A c : /\ IsFiniteSet(OfCode(V, c))
             /\ \A q \in OfCode(V, c) : q.value \in Int
             /\ -SumTxPoints(OfCode(V, c)) \in Nat /\ SumTxPoints(OfCode(V, c)) \in Int
             /\ -SumTxPoints(OfCode(V, c)) <= Balance(txPoint, c)
  BY VinsWorth
<1>4. OfCode(V, N) = {}
  BY <1>1, <1>2 DEF OfCode
<1>5. MaxBadge \in Nat
  BY MaxBadgeAssumption
<1>6. IsFiniteSet({}) /\ \A c : OfCode({}, c) = {}
  BY FS_EmptySet DEF OfCode
<1>7. CASE IllegalVin(vin, txPoint)
  <2>1. D = {}
    BY <1>7 DEF NewPoints
  <2> HIDE DEF D, N
  <2>2. \A c : OfCode(D, c) = {}
    BY <1>6, <2>1
  <2>3. \A c : SumTxPoints(OfCode(D, c)) = 0
    BY <2>2, SumNone
  <2>4. \A c : SumTxPoints(OfCode(D, c)) <= 0 /\ SumTxPoints(OfCode(D, c)) <= MaxBadge
    BY <1>5, <2>3
  <2>5. IsFiniteSet(D) /\ \A p \in D : p.txid = N /\ p.value \in Int /\ p.code \in 1 .. N
    BY <1>6, <2>1
  <2>6. QED
    BY <2>4, <2>5 DEF D, N
<1>8. CASE ~IllegalVin(vin, txPoint) /\ Cardinality(Codes(V)) > 1
  <2>1. D = V
    BY <1>8 DEF NewPoints, ParseVouts
  <2> HIDE DEF D, N, V, U, b
  <2>2. \A c \in Txids : SumTxPoints(OfCode(D, c)) <= 0
    BY <1>3, <2>1
  <2>3. SumTxPoints(OfCode(D, N)) <= MaxBadge
    BY <1>4, <1>5, <2>1, SumNone
  <2>4. QED
    BY <1>1, <1>2, <2>1, <2>2, <2>3 DEF D, N
<1>9. CASE ~IllegalVin(vin, txPoint) /\ ~(Cardinality(Codes(V)) > 1)
  <2>1. D = V \cup U
    BY <1>9 DEF NewPoints
  <2>2. b \in 0 .. MaxBadge /\ b \in Nat /\ b = IF V = {} THEN MaxBadge ELSE -SumTxPoints(V)
    <3>1. CASE V = {}
      <4>1. -SumTxPoints(V) \in 0 .. MaxBadge
        BY <1>5, <3>1, SumNone
      <4> HIDE DEF V, N, D, U
      <4>2. QED
        BY <1>2, <1>5, <3>1, <4>1, BadgeValueIs
    <3>2. CASE V # {}
      <4> DEFINE c == BadgeCode(0, V)
      <4>1. c \in Codes(V) /\ \A p \in V : p.code = c
        <5> HIDE DEF V
        <5>1. QED
          BY <1>2, <1>9, <3>2, OneCode
      <4> HIDE DEF V, N, D, U, c
      <4>2. c \in Txids
        BY <1>2, <4>1 DEF Codes
      <4>3. OfCode(V, c) = V
        BY <4>1 DEF OfCode
      <4>4. Balance(txPoint, c) <= MaxBadge
        BY <4>2 DEF SumInv
      <4>5. Balance(txPoint, c) \in Nat
        BY UnspentBalance
      <4>6. -SumTxPoints(V) \in 0 .. MaxBadge
        <5>1. -SumTxPoints(V) \in Nat /\ -SumTxPoints(V) <= Balance(txPoint, c) /\ SumTxPoints(V) \in Int
          BY <1>3, <4>3
        <5>2. QED
          BY <1>5, <4>4, <4>5, <5>1
      <4>7. BadgeValue(V) = IF V = {} THEN MaxBadge ELSE -SumTxPoints(V)
        BY <1>2, <4>6, BadgeValueIs
      <4>8. QED
        BY <3>2, <4>6, <4>7
    <3>3. QED
      BY <3>1, <3>2
  <2>3. /\ IsFiniteSet(U)
        /\ \A p \in U : p.txid = N /\ p.type = "vout" /\ p.value \in Nat /\ p.code = BadgeCode(N, V)
        /\ SumTxPoints(U) \in Nat
        /\ SumTxPoints(U) <= b
    <3> HIDE DEF V, N
    <3>1. BadgeValue(V) \in 0 .. MaxBadge
      BY <2>2
    <3>2. QED
      BY <3>1, NewVouts
  <2>4. CASE V = {}
    <3>1. BadgeCode(N, V) = N
      BY <2>4 DEF BadgeCode
    <3> HIDE DEF V, N, D, U, b
    <3>2. D = U /\ b = MaxBadge
      BY <2>1, <2>2, <2>4
    <3>3. OfCode(D, N) = D
      BY <2>3, <3>1, <3>2 DEF OfCode
    <3>4. \A c \in Txids : OfCode(D, c) = {}
      BY <1>1, <2>3, <3>1, <3>2 DEF OfCode
    <3>5. \A c \in Txids : SumTxPoints(OfCode(D, c)) <= 0
      BY <3>4, SumNone
    <3>6. SumTxPoints(OfCode(D, N)) <= MaxBadge
      BY <2>3, <3>2, <3>3
    <3>7. QED
      BY <1>1, <2>3, <3>1, <3>2, <3>5, <3>6 DEF D, N
  <2>5. CASE V # {}
    <3> DEFINE c == BadgeCode(0, V)
    <3>1. c \in Codes(V) /\ (\A p \in V : p.code = c) /\ BadgeCode(N, V) = c
      <4> HIDE DEF V, N
      <4>1. QED
        BY <1>2, <1>9, <2>5, OneCode
    <3> HIDE DEF V, N, D, U, b, c
    <3>2. c \in Txids /\ c # N
      BY <1>1, <1>2, <3>1 DEF Codes
    <3>3. \A p \in D : p.code = c /\ p.value \in Int /\ p.txid = N
      BY <1>2, <2>1, <2>3, <3>1
    <3>4. OfCode(D, c) = V \cup U /\ OfCode(V, c) = V /\ \A d : d # c => OfCode(D, d) = {}
      BY <2>1, <3>1, <3>3 DEF OfCode
    <3>5. V \cap U = {}
      BY <1>2, <2>3
    <3>6. SumTxPoints(V \cup U) = SumTxPoints(V) + SumTxPoints(U) /\ SumTxPoints(V) \in Int
      BY <1>2, <2>1, <2>3, <3>3, <3>5, SumUnion
    <3>7. SumTxPoints(OfCode(D, c)) <= 0
      BY <2>2, <2>3, <2>5, <3>4, <3>6
    <3>8. \A d \in Txids : SumTxPoints(OfCode(D, d)) <= 0
      <4>1. \A d : d # c => SumTxPoints(OfCode(D, d)) = 0
        BY <3>4, SumNone
      <4>2. QED
        BY <3>7, <4>1
    <3>9. SumTxPoints(OfCode(D, N)) <= MaxBadge
      BY <1>5, <3>2, <3>4, SumNone
    <3>10. IsFiniteSet(D)
      BY <1>2, <2>1, <2>3, FS_Union
    <3>11. QED
      BY <1>1, <3>2, <3>3, <3>8, <3>9, <3>10 DEF D, N
  <2>6. QED
    BY <2>4, <2>5
<1>10. QED
  BY <1>7, <1>8, <1>9

-----------------------------------------------------------------------------
(* The steps of the invariant. *)

(* The points of a transaction stay what they are. *)
LEMMA PointsAfter ==
    ASSUME UtxoInv, PointInv, SumInv, NEW vin, NEW out, Grows(vin, out)
    PROVE  LET N == Len(chain) + 1
               D == NewPoints(N, vin, out, txPoint)
           IN  /\ txPoint' = txPoint \cup D /\ txPoint \cap D = {}
               /\ \A p \in txPoint : p.txid \in Txids /\ p.txid < N
               /\ \A p \in D : p.txid = N
               /\ \A t \in Txids : {p \in txPoint' : p.txid = t} = {p \in txPoint : p.txid = t}
               /\ {p \in txPoint' : p.txid = N} = D
               /\ \A t \in Txids : Before(t)' = Before(t)
               /\ {p \in txPoint' : p.txid < N} = txPoint
<1> DEFINE N == Len(chain) + 1
           D == NewPoints(N, vin, out, txPoint)
<1>1. Txids = 1 .. Len(chain) /\ Len(chain) \in Nat
  BY ChainFacts DEF Txids
<1>2. \A p \in D : p.txid = N
  BY NewWorth DEF Grows
<1>3. txPoint' = txPoint \cup D
  BY DEF Grows
<1>4. \A p \in txPoint : p.txid \in Txids
  BY DEF PointInv
<1>5. \A t \in Txids : t < N /\ t # N /\ ~(N < t) /\ t \in Int
  BY <1>1
<1>6. ~(N < N)
  BY <1>1
<1> HIDE DEF D, N
<1>7. \A p \in txPoint : p.txid < N
  BY <1>4, <1>5
<1>8. /\ txPoint \cap D = {}
      /\ \A t \in Txids : {p \in txPoint' : p.txid = t} = {p \in txPoint : p.txid = t}
      /\ {p \in txPoint' : p.txid = N} = D
  BY <1>2, <1>3, <1>4, <1>5
<1>9. ASSUME NEW t \in Txids PROVE Before(t)' = Before(t)
  <2>1. {p \in txPoint' : p.txid < t} = {p \in txPoint : p.txid < t}
    BY <1>2, <1>3, <1>5
  <2>2. QED
    BY <2>1 DEF Before
<1>10. {p \in txPoint' : p.txid < N} = txPoint
  BY <1>2, <1>3, <1>6, <1>7
<1>11. QED
  BY <1>2, <1>3, <1>4, <1>7, <1>8, <1>9, <1>10 DEF D, N

(* The points of a chain that grows are those of its transactions. *)
LEMMA PointStep ==
    ASSUME UtxoInv, PointInv, SumInv, NEW vin, NEW out, Grows(vin, out)
    PROVE  PointInv'
<1> DEFINE N == Len(chain) + 1
           D == NewPoints(N, vin, out, txPoint)
<1>1. /\ Txids' = Txids \cup {N} /\ \A t \in Txids : chain'[t] = chain[t]
      /\ chain'[N].vin = vin /\ chain'[N].out = out
  BY ChainGrows
<1>2. IsFiniteSet(D) /\ \A p \in D : p.txid = N /\ p.code \in 1 .. N
  BY NewWorth DEF Grows
<1>3. /\ txPoint' = txPoint \cup D
      /\ \A t \in Txids : {p \in txPoint' : p.txid = t} = {p \in txPoint : p.txid = t}
      /\ {p \in txPoint' : p.txid = N} = D
      /\ \A t \in Txids : Before(t)' = Before(t)
      /\ {p \in txPoint' : p.txid < N} = txPoint
  BY PointsAfter
<1>4. /\ IsFiniteSet(txPoint)
      /\ \A p \in txPoint : p.txid \in Txids /\ p.code \in 1 .. p.txid
      /\ \A t \in Txids : {p \in txPoint : p.txid = t} = NewPoints(t, chain[t].vin, chain[t].out, Before(t))
  BY Zenon DEF PointInv
<1>5. D = NewPoints(N, chain'[N].vin, chain'[N].out, {p \in txPoint' : p.txid < N})
  BY <1>1, <1>3
<1> HIDE DEF D, N
<1>6. IsFiniteSet(txPoint')
  BY <1>2, <1>3, <1>4, FS_Union
<1>7. \A p \in txPoint' : p.txid \in Txids' /\ p.code \in 1 .. p.txid
  BY <1>1, <1>2, <1>3, <1>4
<1>8. ASSUME NEW t \in Txids'
      PROVE  {p \in txPoint' : p.txid = t} = NewPoints(t, chain'[t].vin, chain'[t].out, {p \in txPoint' : p.txid < t})
  <2>1. CASE t \in Txids
    <3>1. {p \in txPoint' : p.txid < t} = Before(t)
      BY <1>3, <2>1 DEF Before
    <3>2. QED
      BY <1>1, <1>3, <1>4, <2>1, <3>1
  <2>2. CASE t = N
    BY <1>3, <1>5, <2>2
  <2>3. QED
    BY <1>1, <2>1, <2>2
<1>9. QED
  BY <1>6, <1>7, <1>8, Zenon DEF PointInv, Before

(* A code only loses badges, and an issuance creates at most MaxBadge. *)
LEMMA BalanceStep ==
    ASSUME UtxoInv, PointInv, SumInv, NEW vin, NEW out, Grows(vin, out)
    PROVE  /\ \A c \in Txids : Balance(txPoint', c) <= Balance(txPoint, c)
           /\ SumInv'
<1> DEFINE N == Len(chain) + 1
           D == NewPoints(N, vin, out, txPoint)
<1>1. Txids' = Txids \cup {N} /\ N \notin Txids
  BY ChainGrows
<1>2. /\ IsFiniteSet(D) /\ \A p \in D : p.txid = N /\ p.value \in Int
      /\ \A c \in Txids : SumTxPoints(OfCode(D, c)) <= 0
      /\ SumTxPoints(OfCode(D, N)) <= MaxBadge
  BY NewWorth DEF Grows
<1>3. txPoint' = txPoint \cup D /\ txPoint \cap D = {}
  BY PointsAfter
<1>4. IsFiniteSet(txPoint) /\ \A p \in txPoint : p.value \in Int
  BY ValueInt DEF PointInv
<1>5. MaxBadge \in Nat
  BY MaxBadgeAssumption
<1>6. \A c \in Txids : Balance(txPoint, c) <= MaxBadge
  BY DEF SumInv
<1>7. OfCode(txPoint, N) = {}
  <2>1. \A p \in txPoint : p.txid \in Txids /\ p.code \in 1 .. p.txid
    BY DEF PointInv
  <2>2. Txids = 1 .. Len(chain) /\ Len(chain) \in Nat
    BY ChainFacts DEF Txids
  <2>3. \A p \in txPoint : p.code # N
    BY <2>1, <2>2
  <2>4. QED
    BY <2>3 DEF OfCode
<1> HIDE DEF D, N
<1>8. ASSUME NEW c
      PROVE  /\ Balance(txPoint', c) = Balance(txPoint, c) + SumTxPoints(OfCode(D, c))
             /\ Balance(txPoint, c) \in Int /\ SumTxPoints(OfCode(D, c)) \in Int
  <2> DEFINE P == OfCode(txPoint, c)
             Q == OfCode(D, c)
  <2>1. OfCode(txPoint', c) = P \cup Q
    BY <1>3 DEF OfCode
  <2>2. P \subseteq txPoint /\ Q \subseteq D
    BY DEF OfCode
  <2> HIDE DEF P, Q
  <2>3. IsFiniteSet(P) /\ IsFiniteSet(Q) /\ P \cap Q = {} /\ \A p \in P \cup Q : p.value \in Int
    BY <1>2, <1>3, <1>4, <2>2, FS_Subset
  <2>4. SumTxPoints(P \cup Q) = SumTxPoints(P) + SumTxPoints(Q) /\ SumTxPoints(P) \in Int /\ SumTxPoints(Q) \in Int
    BY <2>3, SumUnion
  <2>5. QED
    BY <2>1, <2>4 DEF Balance, P, Q
<1>9. \A c \in Txids : Balance(txPoint', c) <= Balance(txPoint, c)
  BY <1>2, <1>8
<1>10. \A c \in Txids : Balance(txPoint', c) <= MaxBadge
  BY <1>2, <1>5, <1>6, <1>8
<1>11. Balance(txPoint', N) <= MaxBadge
  <2>1. Balance(txPoint, N) = 0
    BY <1>7, SumNone DEF Balance
  <2>2. QED
    BY <1>2, <1>5, <1>8, <2>1
<1>12. \A c \in Txids' : Balance(txPoint', c) <= MaxBadge
  BY <1>1, <1>10, <1>11
<1>13. QED
  BY <1>9, <1>12 DEF SumInv

(* The vins of the new transaction fit into an int64. *)
LEMMA OverflowStep ==
    ASSUME UtxoInv, PointInv, SumInv, NoOverflow, NEW vin, NEW out, Grows(vin, out)
    PROVE  NoOverflow'
<1> DEFINE N == Len(chain) + 1
           D == NewPoints(N, vin, out, txPoint)
           V == ParseVins(N, vin, txPoint)
           At(t) == {p \in txPoint' : p.txid = t /\ p.type = "vin"}
<1>1. Txids' = Txids \cup {N} /\ N \notin Txids
  BY ChainGrows
<1>2. /\ \A t \in Txids : {p \in txPoint' : p.txid = t} = {p \in txPoint : p.txid = t}
      /\ {p \in txPoint' : p.txid = N} = D
  BY PointsAfter
<1>3. MaxBadge \in Nat
  BY MaxBadgeAssumption
<1>4. FreshVins(vin)
  BY DEF Grows
<1>5. \A p \in txPoint : p.code # N
  <2>1. \A p \in txPoint : p.txid \in Txids /\ p.code \in 1 .. p.txid
    BY DEF PointInv
  <2>2. Txids = 1 .. Len(chain) /\ Len(chain) \in Nat
    BY ChainFacts DEF Txids
  <2>3. QED
    BY <2>1, <2>2
<1>6. {p \in D : p.type = "vin"} = {} \/ {p \in D : p.type = "vin"} = V
  <2>1. CASE IllegalVin(vin, txPoint)
    BY <2>1 DEF NewPoints
  <2>2. CASE ~IllegalVin(vin, txPoint)
    <3>1. D = V \cup ParseVouts(N, out, V)
      BY <2>2 DEF NewPoints
    <3>2. \A p \in V : p.type = "vin"
      BY <1>4, NewVins
    <3>3. \A p \in D : p.type = "vin" => p \in V
      BY NewShape
    <3> HIDE DEF D, V, N
    <3>4. {p \in D : p.type = "vin"} = V
      BY <3>1, <3>2, <3>3
    <3>5. QED
      BY <3>4
  <2>3. QED
    BY <2>1, <2>2
<1>7. \A c \in Txids : -SumTxPoints(OfCode(V, c)) <= MaxBadge
  <2> SUFFICES ASSUME NEW c \in Txids PROVE -SumTxPoints(OfCode(V, c)) <= MaxBadge
    OBVIOUS
  <2>1. -SumTxPoints(OfCode(V, c)) \in Nat /\ -SumTxPoints(OfCode(V, c)) <= Balance(txPoint, c)
    BY <1>4, VinsWorth
  <2>2. Balance(txPoint, c) <= MaxBadge /\ Balance(txPoint, c) \in Nat
    BY UnspentBalance DEF SumInv
  <2> HIDE DEF V
  <2>3. QED
    BY <1>3, <2>1, <2>2
<1>8. OfCode(V, N) = {}
  <2>1. \A q \in V : q.code \in Txids
    BY <1>4, VinCodes
  <2> HIDE DEF V, N
  <2>2. QED
    BY <1>1, <2>1 DEF OfCode
<1>9. \A P : P = {} => -SumTxPoints(P) <= MaxBadge
  BY <1>3, SumNone
<1> HIDE DEF D, N, V
<1>10. ASSUME NEW t \in Txids', NEW c \in Txids' PROVE -SumTxPoints(OfCode(At(t), c)) <= MaxBadge
  <2>1. CASE t \in Txids /\ c \in Txids
    <3>1. At(t) = PointsAt(t, "vin")
      BY <1>2, <2>1 DEF PointsAt
    <3>2. QED
      BY <2>1, <3>1 DEF NoOverflow, Balance
  <2>2. CASE t \in Txids /\ c = N
    <3>1. At(t) \subseteq txPoint
      BY <1>2, <2>2
    <3>2. OfCode(At(t), c) = {}
      BY <1>5, <2>2, <3>1 DEF OfCode
    <3>3. QED
      BY <1>9, <3>2
  <2>3. CASE t = N
    <3>1. At(t) = {p \in D : p.type = "vin"}
      BY <1>2, <2>3
    <3>2. OfCode(At(t), c) = {} \/ At(t) = V
      BY <1>6, <3>1 DEF OfCode
    <3> HIDE DEF At
    <3>3. QED
      BY <1>1, <1>7, <1>8, <1>9, <3>2
  <2>4. QED
    BY <1>1, <2>1, <2>2, <2>3
<1>11. QED
  BY <1>10, Zenon DEF NoOverflow, Balance, PointsAt

-----------------------------------------------------------------------------

(* The utxo rule, the rules of ParseMsgTx, the bound on the badges of a    *)
(* code and the absence of an overflow hold of every chain.                *)
THEOREM BadgeInvariance == Spec => []BadgeInv
<1>1. Init => BadgeInv
  <2> SUFFICES ASSUME Init PROVE BadgeInv
    OBVIOUS
  <2>1. chain = <<>> /\ txPoint = {} /\ Txids = {}
    BY DEF Init, Txids
  <2>2. UtxoInv
    <3>1. chain \in Seq(Transaction)
      BY <2>1
    <3>2. QED
      BY <2>1, <3>1, Zenon DEF UtxoInv
  <2>3. PointInv
    <3>1. IsFiniteSet(txPoint)
      BY <2>1, FS_EmptySet
    <3>2. QED
      BY <2>1, <3>1, Zenon DEF PointInv
  <2>4. QED
    BY <2>1, <2>2, <2>3, Zenon DEF BadgeInv, SumInv, NoOverflow
<1>2. BadgeInv /\ [Next]_vars => BadgeInv'
  <2> SUFFICES ASSUME BadgeInv, [Next]_vars PROVE BadgeInv'
    OBVIOUS
  <2>1. CASE Next
    <3>1. PICK vin, out : Grows(vin, out)
      BY <2>1, NextGrows DEF BadgeInv
    <3>2. UtxoInv'
      BY <3>1, UtxoStep DEF BadgeInv
    <3>3. PointInv'
      BY <3>1, PointStep DEF BadgeInv
    <3>4. SumInv'
      BY <3>1, BalanceStep DEF BadgeInv
    <3>5. NoOverflow'
      BY <3>1, OverflowStep DEF BadgeInv
    <3>6. QED
      BY <3>2, <3>3, <3>4, <3>5 DEF BadgeInv
  <2>2. CASE UNCHANGED vars
    <3>1. chain' = chain /\ txPoint' = txPoint
      BY <2>2 DEF vars
    <3>2. Txids' = Txids /\ (\A t : Before(t)' = Before(t)) /\ \A t, type : PointsAt(t, type)' = PointsAt(t, type)
      BY <3>1 DEF Txids, Before, PointsAt
    <3>3. UtxoInv'
      <4>1. UtxoInv
        BY DEF BadgeInv
      <4>2. chain' \in Seq(Transaction)
        BY <3>1, <4>1 DEF UtxoInv
      <4>3. \A t \in Txids' : \A k \in DOMAIN chain'[t].vin :
               /\ chain'[t].vin[k].pre \in 1 .. t - 1
               /\ chain'[t].vin[k].idx \in DOMAIN chain'[chain'[t].vin[k].pre].out
               /\ chain'[chain'[t].vin[k].pre].out[chain'[t].vin[k].idx] # NotBadge => chain'[t].vin[k].flag
        BY <3>1, <3>2, <4>1, Zenon DEF UtxoInv
      <4>4. \A t, u \in Txids' : \A k \in DOMAIN chain'[t].vin, l \in DOMAIN chain'[u].vin :
               /\ chain'[t].vin[k].pre = chain'[u].vin[l].pre
               /\ chain'[t].vin[k].idx = chain'[u].vin[l].idx
               => t = u /\ k = l
        <5>1. \A t, u \in Txids : \A k \in DOMAIN chain[t].vin, l \in DOMAIN chain[u].vin :
                 /\ chain[t].vin[k].pre = chain[u].vin[l].pre
                 /\ chain[t].vin[k].idx = chain[u].vin[l].idx
                 => t = u /\ k = l
          BY <4>1, Zenon DEF UtxoInv
        <5> TAKE t, u \in Txids'
        <5> TAKE k \in DOMAIN chain'[t].vin, l \in DOMAIN chain'[u].vin
        <5> HAVE /\ chain'[t].vin[k].pre = chain'[u].vin[l].pre
                 /\ chain'[t].vin[k].idx = chain'[u].vin[l].idx
        <5>2. /\ t \in Txids /\ u \in Txids
              /\ k \in DOMAIN chain[t].vin /\ l \in DOMAIN chain[u].vin
              /\ chain[t].vin[k].pre = chain[u].vin[l].pre
              /\ chain[t].vin[k].idx = chain[u].vin[l].idx
          BY <3>1, <3>2
        <5>3. QED
          BY <5>1, <5>2
      <4>5. QED
        BY <4>2, <4>3, <4>4, Zenon DEF UtxoInv
    <3>4. PointInv'
      BY <3>1, <3>2, Zenon DEF BadgeInv, PointInv
    <3>5. SumInv' /\ NoOverflow'
      BY <3>1, <3>2, Zenon DEF BadgeInv, SumInv, NoOverflow
    <3>6. QED
      BY <3>3, <3>4, <3>5 DEF BadgeInv
  <2>3. QED
    BY <2>1, <2>2
<1>3. QED
  BY <1>1, <1>2, PTL DEF Spec

(* NoOverflow: the int64 sum of the vins of one code never overflows. *)
THEOREM NoOverflowAlways == Spec => []NoOverflow
<1>1. BadgeInv => NoOverflow
  BY DEF BadgeInv
<1>2. QED
  BY <1>1, BadgeInvariance, PTL

(* BalanceIsUnspent: what the vins name is gone and the rest is worth the  *)
(* balance of the code.                                                    *)
THEOREM BalanceIsUnspentAlways == Spec => []BalanceIsUnspent
<1>1. BadgeInv => BalanceIsUnspent
  <2> SUFFICES ASSUME BadgeInv, NEW c \in Txids
               PROVE  Balance(txPoint, c) = SumTxPoints(VoutsOf(c) \ GoneOf(c))
    BY Zenon DEF BalanceIsUnspent, VoutsOf, GoneOf
  <2>1. QED
    BY UnspentBalance DEF BadgeInv
<1>2. QED
  BY <1>1, BadgeInvariance, PTL

(* BalanceNeverGrows: no step adds badges to a code that exists. *)
THEOREM BalanceNeverGrowsAlways == Spec => BalanceNeverGrows
<1> DEFINE Kept == \A c \in Txids : Balance(txPoint', c) <= Balance(txPoint, c)
<1>1. BadgeInv /\ [Next]_vars => [Kept]_vars
  <2> SUFFICES ASSUME BadgeInv, Next PROVE Kept
    OBVIOUS
  <2>1. PICK vin, out : Grows(vin, out)
    BY NextGrows DEF BadgeInv
  <2>2. QED
    BY <2>1, BalanceStep DEF BadgeInv
<1> HIDE DEF Kept
<1>2. Spec => [][Kept]_vars
  BY <1>1, BadgeInvariance, PTL DEF Spec
<1>3. QED
  BY <1>2 DEF BalanceNeverGrows, Kept

(* Every vin with the flag that spends a badge makes a vin point. *)
LEMMA MakesVin ==
    ASSUME NEW t, NEW vin, NEW points, NEW k \in BadgeVins(vin), NEW p \in FindVout(points, vin[k])
    PROVE  VinPoint(t, k, p) \in ParseVins(t, vin, points)
<1> DEFINE F(j) == {VinPoint(t, j, q) : q \in FindVout(points, vin[j])}
<1>1. VinPoint(t, k, p) \in F(k)
  OBVIOUS
<1>2. F(k) \in {F(j) : j \in BadgeVins(vin)}
  OBVIOUS
<1>3. VinPoint(t, k, p) \in UNION {F(j) : j \in BadgeVins(vin)}
  <2> HIDE DEF F
  <2>1. QED
    BY <1>1, <1>2
<1>4. QED
  BY <1>3, Zenon DEF ParseVins

(* A transaction has finitely many vins. *)
LEMMA BadgeVinsFinite ==
    ASSUME NEW vin \in Seq(Vin)
    PROVE  IsFiniteSet(BadgeVins(vin))
<1>1. IsFiniteSet(1 .. Len(vin)) /\ BadgeVins(vin) \subseteq 1 .. Len(vin)
  <2>1. Len(vin) \in Nat /\ DOMAIN vin = 1 .. Len(vin)
    OBVIOUS
  <2>2. BadgeVins(vin) \subseteq DOMAIN vin
    BY DEF BadgeVins
  <2>3. QED
    BY <2>1, <2>2, FS_Interval
<1>2. QED
  BY <1>1, FS_Subset

(* StuckByIllegalVin: a badge that a transaction spends is gone unless     *)
(* another vin of the transaction is illegal.                              *)
THEOREM StuckByIllegalVinAlways == Spec => []StuckByIllegalVin
<1>1. BadgeInv => StuckByIllegalVin
  <2> SUFFICES ASSUME BadgeInv, NEW t \in Txids, Stuck(t) # {}
               PROVE  IllegalVin(chain[t].vin, Before(t))
    BY Zenon DEF StuckByIllegalVin, Before
  <2> DEFINE vin == chain[t].vin
  <2>1. UtxoInv /\ PointInv
    BY DEF BadgeInv
  <2>2. PICK p : p \in Stuck(t)
    OBVIOUS
  <2>3. /\ p \in txPoint /\ p.type = "vout" /\ <<p.txid, p.index>> \in Spends(t)
        /\ \A q \in txPoint : q.pre # <<p.txid, p.index>>
    BY <2>2 DEF Stuck
  <2>4. PICK k \in DOMAIN vin : <<p.txid, p.index>> = <<vin[k].pre, vin[k].idx>>
    BY <2>3 DEF Spends, Range
  <2>5. p.txid = vin[k].pre /\ p.index = vin[k].idx
    BY <2>4
  <2>6. p.txid \in Txids /\ p.index \in BadgeVouts(chain[p.txid].out)
    BY <2>1, <2>3, IsVout
  <2>7. /\ vin[k].pre \in 1 .. t - 1
        /\ chain[vin[k].pre].out[vin[k].idx] # NotBadge => vin[k].flag
    BY <2>1, Zenon DEF UtxoInv
  <2>8. k \in BadgeVins(vin)
    <3>1. chain[vin[k].pre].out[vin[k].idx] # NotBadge
      BY <2>5, <2>6 DEF BadgeVouts
    <3>2. vin[k].flag
      BY <2>7, <3>1, Zenon
    <3>3. QED
      BY <3>2, Zenon DEF BadgeVins
  <2>9. p \in FindVout(Before(t), vin[k])
    <3>1. p.txid < t
      <4>1. t \in Nat
        BY <2>1, ChainFacts
      <4>2. p.txid \in 1 .. t - 1
        BY <2>5, <2>7, Zenon
      <4>3. QED
        BY <4>1, <4>2
    <3>2. QED
      BY <2>3, <2>5, <3>1 DEF FindVout, Before
  <2>10. ASSUME ~IllegalVin(vin, Before(t)) PROVE FALSE
    <3> DEFINE q == VinPoint(t, k, p)
    <3>1. q \in VinsAt(t)
      BY <2>8, <2>9, MakesVin DEF VinsAt
    <3>2. q \in NewPoints(t, chain[t].vin, chain[t].out, Before(t))
      BY <2>10, <3>1 DEF NewPoints, VinsAt
    <3>3. q \in txPoint
      BY <2>1, <3>2 DEF PointInv
    <3>4. q.pre = <<p.txid, p.index>>
      BY DEF VinPoint
    <3> HIDE DEF q
    <3>5. QED
      BY <2>3, <3>3, <3>4
  <2>11. QED
    BY <2>10
<1>2. QED
  BY <1>1, BadgeInvariance, PTL

-----------------------------------------------------------------------------
(* The rules of ParseMsgTx against the protocol. *)

(* A legal transaction has one vin point for each vin with the flag. *)
LEMMA OnePointPerVin ==
    ASSUME UtxoInv, PointInv, NEW t \in Txids, ~IllegalVin(chain[t].vin, Before(t))
    PROVE  /\ IsFiniteSet(VinsAt(t))
           /\ Cardinality(VinsAt(t)) = Cardinality(BadgeVins(chain[t].vin))
<1> DEFINE vin == chain[t].vin
           B == BadgeVins(vin)
           V == VinsAt(t)
           P(k) == CHOOSE p : p \in FindVout(Before(t), vin[k])
           h == [k \in B |-> VinPoint(t, k, P(k))]
<1>1. IsFiniteSet(B)
  <2>1. vin \in Seq(Vin)
    BY ChainFacts
  <2> HIDE DEF vin
  <2>2. QED
    BY <2>1, BadgeVinsFinite
<1>2. \A k \in B : P(k) \in FindVout(Before(t), vin[k])
  <2> SUFFICES ASSUME NEW k \in B PROVE P(k) \in FindVout(Before(t), vin[k])
    OBVIOUS
  <2>1. FindVout(Before(t), vin[k]) # {}
    BY DEF IllegalVin
  <2>2. \E p : p \in FindVout(Before(t), vin[k])
    BY <2>1
  <2>3. QED
    BY <2>2, Zenon
<1>3. \A k \in B : \A p \in FindVout(Before(t), vin[k]) : p = P(k)
  <2> SUFFICES ASSUME NEW k \in B, NEW p \in FindVout(Before(t), vin[k]) PROVE p = P(k)
    OBVIOUS
  <2>1. \A q \in FindVout(Before(t), vin[k]) : /\ q \in txPoint /\ q.type = "vout"
                                               /\ q.txid = vin[k].pre /\ q.index = vin[k].idx
    BY DEF FindVout, Before
  <2>2. P(k) \in FindVout(Before(t), vin[k])
    BY <1>2
  <2> HIDE DEF P
  <2>3. QED
    BY <2>1, <2>2, VoutUnique
<1> HIDE DEF P
<1>4. \A k \in B : h[k] \in V
  BY <1>2, MakesVin DEF VinsAt
<1>5. \A q \in V : \E k \in B : h[k] = q
  <2> SUFFICES ASSUME NEW q \in V PROVE \E k \in B : h[k] = q
    OBVIOUS
  <2>1. PICK k \in B : \E p \in FindVout(Before(t), vin[k]) : q = VinPoint(t, k, p)
    BY VinShape DEF VinsAt
  <2>2. PICK p \in FindVout(Before(t), vin[k]) : q = VinPoint(t, k, p)
    BY <2>1
  <2>3. q = VinPoint(t, k, P(k))
    BY <1>3, <2>2
  <2>4. QED
    BY <2>3
<1>6. \A k \in B : h[k].index = k
  BY DEF VinPoint
<1>7. h \in [B -> V]
  BY <1>4
<1> HIDE DEF h, B, V
<1>8. h \in Bijection(B, V)
  <2>1. \A k, l \in B : h[k] = h[l] => k = l
    BY <1>6
  <2>2. QED
    BY <1>5, <1>7, <2>1, Fun_IsBij
<1>9. IsFiniteSet(V) /\ Cardinality(V) = Cardinality(B)
  <2>1. ExistsBijection(B, V)
    BY <1>8 DEF ExistsBijection
  <2>2. QED
    BY <1>1, <2>1, FS_Bijection
<1>10. QED
  BY <1>9 DEF V, B

(* FollowsProtocol: the running subtraction with its early return makes    *)
(* badges of the vouts exactly when the vins are of one code and bring in  *)
(* as much as all the vouts together, or when there is no badge vin.       *)
THEOREM FollowsProtocolAlways == Spec => []FollowsProtocol
<1>1. ASSUME BadgeInv, NEW t \in Txids
      PROVE  LET vins == PointsAt(t, "vin")
                 out == chain[t].out
                 wanted == MapThenSumSet(LAMBDA k : out[k], BadgeVouts(out))
                 legal == /\ Cardinality(vins) = Cardinality(BadgeVins(chain[t].vin))
                          /\ Cardinality(Codes(vins)) <= 1
                          /\ wanted <= IF vins = {} THEN MaxBadge ELSE -SumTxPoints(vins)
             IN  {p.index : p \in PointsAt(t, "vout")} = IF legal THEN BadgeVouts(out) ELSE {}
  <2> DEFINE vin == chain[t].vin
             out == chain[t].out
             vins == PointsAt(t, "vin")
             V == VinsAt(t)
             X == {p.index : p \in PointsAt(t, "vout")}
             most == IF vins = {} THEN MaxBadge ELSE -SumTxPoints(vins)
             n == Cardinality(vins)
             m == Cardinality(BadgeVins(vin))
             k == Cardinality(Codes(vins))
             wanted == MapThenSumSet(LAMBDA j : out[j], BadgeVouts(out))
  <2>1. UtxoInv /\ PointInv /\ NoOverflow
    BY <1>1 DEF BadgeInv
  <2>2. out \in Seq(Values) /\ vin \in Seq(Vin)
    BY <2>1, ChainFacts
  <2>3. {p \in txPoint : p.txid = t} = NewPoints(t, vin, out, Before(t))
    BY <2>1 DEF PointInv
  <2>4. \A type : PointsAt(t, type) = {p \in NewPoints(t, vin, out, Before(t)) : p.type = type}
    BY <2>3 DEF PointsAt
  <2>5. CASE IllegalVin(vin, Before(t))
    <3>1. NewPoints(t, vin, out, Before(t)) = {}
      BY <2>5 DEF NewPoints
    <3>2. vins = {} /\ X = {}
      BY <2>4, <3>1
    <3>3. n = 0
      BY <3>2, FS_EmptySet
    <3>4. m # 0
      <4> DEFINE B == BadgeVins(vin)
      <4>1. IsFiniteSet(B)
        <5> HIDE DEF vin
        <5>1. QED
          BY <2>2, BadgeVinsFinite
      <4>2. B # {}
        BY <2>5 DEF IllegalVin
      <4> HIDE DEF B
      <4>3. Cardinality(B) # 0
        BY <4>1, <4>2, FS_EmptySet
      <4>4. QED
        BY <4>3 DEF B
    <3>5. n # m
      BY <3>3, <3>4
    <3> HIDE DEF n, m, X, vins
    <3>6. QED
      BY <3>2, <3>5 DEF n, m, X, vins
  <2>6. CASE ~IllegalVin(vin, Before(t))
    <3> DEFINE U == ParseVouts(t, out, V)
    <3>1. NewPoints(t, vin, out, Before(t)) = V \cup U
      BY <2>6 DEF NewPoints, VinsAt
    <3>2. (\A q \in V : q.type = "vin") /\ \A p \in U : p.type = "vout"
      <4>1. \A q \in V : q.type = "vin"
        BY VinShape DEF VinsAt, VinPoint
      <4>2. \A p \in U : p.type = "vout"
        BY VoutShape DEF VoutPoint
      <4>3. QED
        BY <4>1, <4>2
    <3>3. vins = V /\ PointsAt(t, "vout") = U
      <4> HIDE DEF V, U
      <4>1. QED
        BY <2>4, <3>1, <3>2
    <3>4. IsFiniteSet(V) /\ n = m
      BY <2>1, <2>6, <3>3, OnePointPerVin
    <3>5. \A p \in V : p \in txPoint /\ p.value \in Int /\ -p.value \in Nat /\ p.code \in Txids
      <4> SUFFICES ASSUME NEW p \in V PROVE p \in txPoint /\ p.value \in Int /\ -p.value \in Nat /\ p.code \in Txids
        OBVIOUS
      <4>1. p \in txPoint
        BY <3>3 DEF PointsAt
      <4>2. p.type = "vin"
        BY <3>2
      <4>3. p.value \in Int /\ -p.value \in Nat
        BY <2>1, <4>1, <4>2, ValueInt
      <4>4. p.txid \in Txids /\ p.code \in 1 .. p.txid
        BY <2>1, <4>1 DEF PointInv
      <4>5. Txids = 1 .. Len(chain) /\ Len(chain) \in Nat
        BY <2>1, ChainFacts DEF Txids
      <4>6. p.code \in Txids
        BY <4>4, <4>5
      <4>7. QED
        BY <4>1, <4>3, <4>6
    <3>6. k \in Nat
      <4> DEFINE f == [p \in V |-> p.code]
      <4>1. Codes(V) = {f[p] : p \in V} /\ DOMAIN f = V
        BY DEF Codes
      <4> HIDE DEF f, V
      <4>2. IsFiniteSet(Codes(V))
        BY <3>4, <4>1, ImageFinite
      <4>3. QED
        BY <3>3, <4>2, FS_CardinalityType
    <3>7. CASE k > 1
      <4>1. U = {}
        BY <3>3, <3>7 DEF ParseVouts
      <4>2. X = {}
        BY <3>3, <4>1
      <4>3. ~(k <= 1)
        BY <3>6, <3>7
      <4> HIDE DEF k, X, vins
      <4>4. QED
        BY <4>2, <4>3 DEF k, X, vins
    <3>8. CASE ~(k > 1)
      <4>1. k <= 1
        BY <3>6, <3>8
      <4>2. -SumTxPoints(V) \in 0 .. MaxBadge
        <5>1. CASE V = {}
          BY <5>1, SumNone, MaxBadgeAssumption
        <5>2. CASE V # {}
          <6> DEFINE c == BadgeCode(0, V)
          <6>1. c \in Codes(V) /\ \A p \in V : p.code = c
            <7> HIDE DEF V
            <7>1. QED
              BY <3>3, <3>4, <3>8, <5>2, OneCode
          <6> HIDE DEF V, c
          <6>2. c \in Txids
            BY <3>5, <6>1 DEF Codes
          <6>3. OfCode(V, c) = V
            BY <6>1 DEF OfCode
          <6>4. -SumTxPoints(V) <= MaxBadge
            <7>1. -Balance(PointsAt(t, "vin"), c) <= MaxBadge
              BY <2>1, <6>2 DEF NoOverflow
            <7>2. QED
              BY <3>3, <6>3, <7>1 DEF Balance
          <6>5. -SumTxPoints(V) \in Nat
            BY <3>4, <3>5, SpentNat
          <6>6. QED
            BY <6>4, <6>5, MaxBadgeAssumption
        <5>3. QED
          BY <5>1, <5>2
      <4>3. BadgeValue(V) = most
        <5> HIDE DEF V
        <5>1. QED
          BY <3>3, <3>4, <3>5, <4>2, BadgeValueIs
      <4>4. BadgeValue(V) \in 0 .. MaxBadge /\ BadgeValue(V) \in Nat
        BY <3>3, <4>2, <4>3, MaxBadgeAssumption
      <4>5. /\ Overspends(out, V) <=> Sum(out, BadgeVouts(out)) > BadgeValue(V)
            /\ Sum(out, BadgeVouts(out)) \in Nat
        <5> HIDE DEF V, out
        <5>1. QED
          BY <2>2, <4>4, OverspendsIff
      <4>6. wanted = Sum(out, BadgeVouts(out))
        BY WantedIs, Zenon
      <4>7. Overspends(out, V) <=> ~(wanted <= most)
        <5> DEFINE w == Sum(out, BadgeVouts(out))
                   b == BadgeValue(V)
        <5>1. (Overspends(out, V) <=> w > b) /\ w \in Nat /\ b \in Nat /\ wanted = w /\ most = b
          BY <4>3, <4>4, <4>5, <4>6
        <5> HIDE DEF w, b, wanted, most
        <5>2. QED
          BY <5>1
      <4>8. X = IF Overspends(out, V) THEN {} ELSE BadgeVouts(out)
        <5>1. CASE Overspends(out, V)
          <6>1. U = {}
            BY <5>1 DEF ParseVouts
          <6>2. QED
            BY <3>3, <5>1, <6>1
        <5>2. CASE ~Overspends(out, V)
          <6>1. U = {VoutPoint(t, j, out[j], BadgeCode(t, V)) : j \in BadgeVouts(out)}
            BY <3>3, <3>8, <5>2 DEF ParseVouts
          <6>2. \A j \in BadgeVouts(out) : VoutPoint(t, j, out[j], BadgeCode(t, V)).index = j
            BY DEF VoutPoint
          <6> HIDE DEF U, V, out
          <6>3. X = BadgeVouts(out)
            BY <3>3, <6>1, <6>2
          <6>4. QED
            BY <5>2, <6>3
        <5>3. QED
          BY <5>1, <5>2
      <4> HIDE DEF k, n, m, X, vins, wanted, most, out, V
      <4>9. X = IF n = m /\ k <= 1 /\ wanted <= most THEN BadgeVouts(out) ELSE {}
        BY <3>4, <4>1, <4>7, <4>8
      <4>10. QED
        BY <4>9, Zenon DEF k, n, m, X, vins, wanted, most, out
    <3>9. QED
      BY <3>7, <3>8
  <2>7. QED
    BY <2>5, <2>6
<1>2. BadgeInv => FollowsProtocol
  BY <1>1, Zenon DEF FollowsProtocol
<1>3. QED
  BY <1>2, BadgeInvariance, PTL
===============================================================================
