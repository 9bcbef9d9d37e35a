----------------------------- MODULE WalletProofs -----------------------------
(***************************************************************************)
(* Proofs about Wallet, for any number of users, transactions, points and  *)
(* badges.                                                                 *)
(*                                                                         *)
(* The queries of the code filter, join and add up tx_point, and SetSpent  *)
(* changes what the filter leaves.  The inductive invariant says what the  *)
(* collection looks like: a vin point is the opposite of one vout point    *)
(* that no other vin point spends, SetSpent marks the vout before its vin, *)
(* and the badges left of a code are no more than may be issued.  Then     *)
(* whatever SetSpent has marked, the queries return what is left at the    *)
(* addresses (Mine), and all properties are facts about sums over that.    *)
(***************************************************************************)
EXTENDS Wallet, BadgeRulesProofs

-----------------------------------------------------------------------------
(* The sums of SendBadgeToAddress. *)

(* SumSeq is a sum over the positions. *)
LEMMA SumSeqIs == \A s : SumSeq(s) = Sum(s, DOMAIN s)
BY Zenon DEF SumSeq, FoldSeq, FoldFunction, FoldFunctionOnSet, MapThenFoldSet, Sum, IsSum, Pick

(* The sum of the first k values. *)
LEMMA FirstSum ==
    ASSUME NEW k \in Nat, NEW f, \A j \in 1 .. k : f[j] \in Nat
    PROVE  /\ SumSeq([j \in 1 .. k |-> f[j]]) = Sum(f, 1 .. k)
           /\ Sum(f, 1 .. k) \in Nat
<1> DEFINE g == [j \in 1 .. k |-> f[j]]
<1>1. IsFiniteSet(1 .. k)
  BY FS_Interval
<1>2. DOMAIN g = 1 .. k /\ \A j \in 1 .. k : f[j] \in Int /\ g[j] = f[j]
  OBVIOUS
<1> HIDE DEF g
<1>3. Sum(g, 1 .. k) = Sum(f, 1 .. k)
  BY <1>1, <1>2, SumCong
<1>4. Sum(f, 1 .. k) \in Nat
  BY <1>1, SumNat
<1>5. SumSeq(g) = Sum(g, 1 .. k)
  BY <1>2, SumSeqIs
<1>6. QED
  BY <1>3, <1>4, <1>5 DEF g

(* The sum of a sequence of numbers. *)
LEMMA SumSeqNat ==
    ASSUME NEW s \in Seq(Nat)
    PROVE  SumSeq(s) \in Nat /\ SumSeq(s) = Sum(s, 1 .. Len(s))
<1>0. Len(s) \in Nat /\ DOMAIN s = 1 .. Len(s) /\ \A j \in 1 .. Len(s) : s[j] \in Nat
  OBVIOUS
<1>1. DOMAIN s = 1 .. Len(s) /\ IsFiniteSet(1 .. Len(s)) /\ \A j \in 1 .. Len(s) : s[j] \in Nat
  BY <1>0, FS_Interval
<1>2. Sum(s, 1 .. Len(s)) \in Nat
  BY <1>1, SumNat
<1>3. SumSeq(s) = Sum(s, 1 .. Len(s))
  BY <1>1, SumSeqIs, Zenon
<1>4. QED
  BY <1>2, <1>3

(* int64 never leaves its range. *)
LEMMA Int64Range ==
    ASSUME NEW v \in Int
    PROVE  Int64(v) \in Int /\ Int64(v) <= MaxBadge
<1> DEFINE w == 2 * (MaxBadge + 1)
<1>1. w \in Nat /\ w > 0 /\ MaxBadge \in Nat /\ w = MaxBadge + MaxBadge + 2
  BY MaxBadgeAssumption
<1> HIDE DEF w
<1>2. (v + MaxBadge + 1) % w \in 0 .. w - 1
  BY <1>1
<1>3. QED
  BY <1>1, <1>2 DEF Int64, w

(* What the first k of some points are worth. *)
FirstWorth(points, k) == SumSeq([j \in 1 .. k |-> points[j].value])

(* It is a number if the values are. *)
LEMMA FirstWorthNat ==
    ASSUME NEW points, NEW k \in Nat, \A j \in 1 .. k : points[j].value \in Nat
    PROVE  FirstWorth(points, k) \in Nat
<1> DEFINE f == [j \in 1 .. k |-> points[j].value]
<1>1. (\A j \in 1 .. k : f[j] \in Nat) /\ f = [j \in 1 .. k |-> f[j]]
  OBVIOUS
<1> HIDE DEF f
<1>2. SumSeq([j \in 1 .. k |-> f[j]]) \in Nat
  BY <1>1, FirstSum
<1>3. SumSeq(f) \in Nat
  BY <1>1, <1>2
<1>4. QED
  BY <1>3 DEF f, FirstWorth

(* No points are worth nothing. *)
LEMMA FirstWorthEmpty ==
    ASSUME NEW points
    PROVE  FirstWorth(points, 0) = 0
<1> DEFINE f == [j \in 1 .. 0 |-> points[j].value]
<1>1. DOMAIN f = {}
  OBVIOUS
<1> HIDE DEF f
<1>2. SumSeq(f) = 0
  BY <1>1, SumSeqIs, SumEmpty
<1>3. QED
  BY <1>2 DEF f, FirstWorth

(* The loop stops at the first utxo that suffices, or has used all. *)
LEMMA UsedVinsFacts ==
    ASSUME NEW order, Len(order) \in Nat, NEW V \in Int,
           \A j \in 1 .. Len(order) : order[j].value \in Nat
    PROVE  LET m == UsedVins(order, V)
           IN  /\ m \in 0 .. Len(order)
               /\ \/ FirstWorth(order, m) >= V /\ (m > 0 => FirstWorth(order, m - 1) < V)
                  \/ m = Len(order) /\ FirstWorth(order, m) < V
<1> DEFINE L == Len(order)
           enough == {k \in 0 .. L : FirstWorth(order, k) >= V}
           m == UsedVins(order, V)
<1>1. m = IF enough = {} THEN L ELSE Min(enough)
  BY Zenon DEF UsedVins, FirstWorth
<1>2. \A k \in 0 .. L : FirstWorth(order, k) \in Nat
  BY FirstWorthNat
<1>3. CASE enough = {}
  <2>1. m = L /\ L \in 0 .. L
    BY <1>1, <1>3
  <2>2. ~(FirstWorth(order, L) >= V)
    BY <1>3, <2>1
  <2> HIDE DEF m
  <2>3. QED
    BY <1>2, <2>1, <2>2 DEF m
<1>4. CASE enough # {}
  <2>1. enough \in SUBSET Nat
    OBVIOUS
  <2> HIDE DEF enough
  <2>2. PICK x \in enough : \A y \in enough : x <= y
    BY <1>4, <2>1, NatLeast
  <2>3. m \in enough /\ \A y \in enough : m <= y
    BY <1>1, <1>4, <2>2, Zenon DEF Min
  <2> HIDE DEF m
  <2>4. m \in 0 .. L /\ FirstWorth(order, m) >= V
    BY <2>3 DEF enough
  <2>5. ASSUME m > 0 PROVE FirstWorth(order, m - 1) < V
    <3>1. m - 1 \in 0 .. L /\ ~(m <= m - 1)
      BY <2>4, <2>5
    <3>2. ~(FirstWorth(order, m - 1) >= V)
      BY <2>3, <3>1 DEF enough
    <3>3. QED
      BY <1>2, <3>1, <3>2
  <2>6. QED
    BY <2>4, <2>5 DEF m
<1>5. QED
  BY <1>3, <1>4

(* What a transaction of SendBadgeToAddress is made of. *)
Made(tx) ==
    /\ tx.amounts \in Seq(0 .. MaxBadge)
    /\ tx.burn \in 0 .. MaxBadge
    /\ Len(tx.vins) \in Nat
    /\ DOMAIN tx.vins = 1 .. Len(tx.vins)
    /\ LET change == Int64(FirstWorth(tx.vins, Len(tx.vins)) - Int64(Wanted(tx)))
       IN  /\ change >= 0
           /\ tx.out = IF change = 0 THEN tx.amounts ELSE Append(tx.amounts, change)

(* Its vins pay for what is wanted, and without the last they would not. *)
Suffices(tx) ==
    Wanted(tx) <= MaxBadge =>
        LET k == Len(tx.vins)
        IN  FirstWorth(tx.vins, k) >= Wanted(tx) /\ (k > 0 => FirstWorth(tx.vins, k - 1) < Wanted(tx))

(* That is what VinsSuffice asks for: what is worth something takes a vin. *)
LEMMA SufficesIs ==
    ASSUME \A tx \in built : Suffices(tx) /\ Len(tx.vins) \in Nat
    PROVE  VinsSuffice
<1> SUFFICES ASSUME NEW tx \in built, Wanted(tx) \in 1 .. MaxBadge
             PROVE  LET k == Len(tx.vins)
                    IN  /\ FirstWorth(tx.vins, k) >= Wanted(tx)
                        /\ FirstWorth(tx.vins, k - 1) < Wanted(tx)
  BY Zenon DEF VinsSuffice, FirstWorth
<1> DEFINE k == Len(tx.vins)
<1>1. k \in Nat /\ Wanted(tx) >= 1 /\ Wanted(tx) <= MaxBadge
  BY MaxBadgeAssumption
<1>2. FirstWorth(tx.vins, k) >= Wanted(tx) /\ (k > 0 => FirstWorth(tx.vins, k - 1) < Wanted(tx))
  BY <1>1, Zenon DEF Suffices
<1>3. k # 0
  <2>1. FirstWorth(tx.vins, 0) = 0
    BY FirstWorthEmpty
  <2>2. QED
    BY <1>1, <1>2, <2>1
<1>4. QED
  BY <1>1, <1>2, <1>3

(* Amounts are not negative. *)
LEMMA WantedNat ==
    ASSUME NEW amounts \in Seq(0 .. MaxBadge), NEW burn \in 0 .. MaxBadge
    PROVE  burn + SumSeq(amounts) \in Nat /\ SumSeq(amounts) \in Nat
<1>1. burn \in Nat
  BY MaxBadgeAssumption
<1>2. amounts \in Seq(Nat)
  BY MaxBadgeAssumption
<1>3. SumSeq(amounts) \in Nat
  BY <1>2, SumSeqNat
<1>4. QED
  BY <1>1, <1>3

(* Sendable takes the utxos in their order, and gives the change back. *)
LEMMA SendableFacts ==
    ASSUME NEW T, NEW order \in Seq(T),
           \A j \in 1 .. Len(order) : order[j].value \in Nat,
           NEW amounts \in Seq(0 .. MaxBadge), NEW burn \in 0 .. MaxBadge, NEW c,
           NEW tx \in Sendable(order, amounts, burn, c)
    PROVE  /\ tx.code = c
           /\ Len(tx.vins) <= Len(order)
           /\ \A j \in 1 .. Len(tx.vins) : tx.vins[j] = order[j]
           /\ Made(tx)
           /\ Suffices(tx)
<1> DEFINE W == burn + SumSeq(amounts)
           V == VoutValue(amounts, burn)
           m == UsedVins(order, V)
           vins == SubSeq(order, 1, m)
           change == Int64(SumSeq([j \in DOMAIN vins |-> vins[j].value]) - V)
           made == [vins |-> vins, amounts |-> amounts, burn |-> burn, code |-> c,
                    out |-> IF change = 0 THEN amounts ELSE Append(amounts, change)]
<1>1. Len(order) \in Nat
  OBVIOUS
<1>2. /\ change >= 0
      /\ tx.vins = vins /\ tx.amounts = amounts /\ tx.burn = burn /\ tx.code = c
      /\ tx.out = IF change = 0 THEN amounts ELSE Append(amounts, change)
  <2>1. Sendable(order, amounts, burn, c) = {made : ok \in {x \in {change} : x >= 0}}
    BY Zenon DEF Sendable
  <2> HIDE DEF change
  <2>2. change >= 0 /\ tx = made
    <3> HIDE DEF made
    <3>1. QED
      BY <2>1
  <2> HIDE DEF vins
  <2>3. QED
    BY <2>2
<1>3. W \in Nat /\ SumSeq(amounts) \in Nat
  BY WantedNat
<1>4. V = Int64(W)
  BY DEF VoutValue
<1>5. V \in Int
  BY <1>3, <1>4, Int64Range
<1>6. /\ m \in 0 .. Len(order)
      /\ \/ FirstWorth(order, m) >= V /\ (m > 0 => FirstWorth(order, m - 1) < V)
         \/ m = Len(order) /\ FirstWorth(order, m) < V
  <2> HIDE DEF V
  <2>1. QED
    BY <1>1, <1>5, UsedVinsFacts, Zenon
<1>7. m \in Nat /\ m <= Len(order)
  <2> HIDE DEF m
  <2>1. m \in 0 .. Len(order)
    BY <1>6
  <2>2. QED
    BY <1>1, <2>1
<1> HIDE DEF m, V, W
<1>8. Len(vins) = m /\ DOMAIN vins = 1 .. m /\ \A j \in 1 .. m : vins[j] = order[j]
  BY <1>1, <1>7
<1> HIDE DEF vins
<1>9. \A k \in 0 .. m : FirstWorth(vins, k) = FirstWorth(order, k) /\ FirstWorth(order, k) \in Nat
  <2> SUFFICES ASSUME NEW k \in 0 .. m
               PROVE  FirstWorth(vins, k) = FirstWorth(order, k) /\ FirstWorth(order, k) \in Nat
    OBVIOUS
  <2>1. k \in Nat /\ \A j \in 1 .. k : j \in 1 .. m /\ j \in 1 .. Len(order)
    BY <1>1, <1>7
  <2>2. [j \in 1 .. k |-> vins[j].value] = [j \in 1 .. k |-> order[j].value]
    BY <1>8, <2>1
  <2>3. FirstWorth(vins, k) = FirstWorth(order, k)
    BY <2>2 DEF FirstWorth
  <2>4. FirstWorth(order, k) \in Nat
    BY <2>1, FirstWorthNat
  <2>5. QED
    BY <2>3, <2>4
<1>10. change = Int64(FirstWorth(vins, m) - V)
  BY <1>8 DEF FirstWorth
<1>11. Wanted(tx) = W
  BY <1>2 DEF Wanted, W
<1>12. Made(tx)
  <2>1. change = Int64(FirstWorth(tx.vins, Len(tx.vins)) - Int64(Wanted(tx)))
    BY <1>2, <1>4, <1>8, <1>10, <1>11
  <2> HIDE DEF change
  <2>2. m \in Nat
    BY <1>7
  <2>3. QED
    BY <1>2, <1>8, <2>1, <2>2 DEF Made
<1>13. Suffices(tx)
  <2> SUFFICES ASSUME W <= MaxBadge
               PROVE  FirstWorth(vins, m) >= W /\ (m > 0 => FirstWorth(vins, m - 1) < W)
    BY <1>2, <1>8, <1>11 DEF Suffices
  <2>1. V = W
    <3>1. W \in 0 .. MaxBadge
      BY <1>3, MaxBadgeAssumption
    <3>2. QED
      BY <1>4, <3>1, Int64Fits
  <2>2. m \in Nat /\ m \in 0 .. m /\ (m > 0 => m - 1 \in 0 .. m)
    BY <1>7
  <2>3. FirstWorth(vins, m) = FirstWorth(order, m) /\ FirstWorth(order, m) \in Nat
    BY <1>9, <2>2
  <2>4. ~(FirstWorth(order, m) < V)
    <3> SUFFICES ASSUME FirstWorth(order, m) < V PROVE FALSE
      OBVIOUS
    <3> DEFINE d == FirstWorth(order, m) - V
    <3>1. d \in Int /\ d < 0 /\ d >= -(MaxBadge + 1)
      BY <1>3, <2>1, <2>3, MaxBadgeAssumption
    <3>2. change = Int64(d)
      BY <1>10, <2>3
    <3> HIDE DEF d, change
    <3>3. change = d
      BY <3>1, <3>2, Int64Negative
    <3>4. QED
      BY <1>2, <3>1, <3>3
  <2>5. FirstWorth(order, m) >= V /\ (m > 0 => FirstWorth(order, m - 1) < V)
    BY <1>6, <2>4
  <2>6. m > 0 => FirstWorth(vins, m - 1) = FirstWorth(order, m - 1)
    BY <1>9, <2>2
  <2>7. QED
    BY <2>1, <2>3, <2>5, <2>6
<1>14. QED
  BY <1>2, <1>8, <1>12, <1>13, <1>7

-----------------------------------------------------------------------------
(* The invariant. *)

(* Some vin point spends the outpoint. *)
IsSpent(o) == \E q \in txPoint : q.type = "vin" /\ q.pre = o

(* The points are those of the transactions so far; a vin point is the     *)
(* opposite of a vout point, which no other vin point spends.              *)
PointInv ==
    /\ n \in Nat
    /\ IsFiniteSet(txPoint)
    /\ \A p \in txPoint : p.txid \in 1 .. n /\ p.code \in 1 .. n /\ p.type \in {"vin", "vout"}
    /\ \A p \in txPoint : p.type = "vout" => p.value \in 0 .. MaxBadge /\ OutPoint(p) \in DOMAIN owner
    /\ \A p \in txPoint : p.type = "vin" =>
          \E q \in txPoint : /\ q.type = "vout" /\ p.pre = OutPoint(q)
                             /\ p.value = -q.value /\ p.code = q.code
    /\ \A p, q \in txPoint : p.type = "vout" /\ q.type = "vout" /\ OutPoint(p) = OutPoint(q) => p = q
    /\ \A p, q \in txPoint : p.type = "vin" /\ q.type = "vin" /\ p.pre = q.pre => p = q

(* The outpoints of the transactions so far have an address for good. *)
OwnerInv ==
    \A o \in DOMAIN owner : o[1] \in 1 .. n /\ o[2] \in Nat /\ owner[o] \in Addr

(* SetSpent marks what is spent, the vout before the vin. *)
SureInv ==
    /\ sure \subseteq txPoint
    /\ \A p \in sure : p.type = "vout" => IsSpent(OutPoint(p))
    /\ \A p \in sure : p.type = "vin" => \E q \in sure : q.type = "vout" /\ OutPoint(q) = p.pre

(* An address has at most one document. *)
AddrInv ==
    /\ addrInfo \subseteq [addr : OwnAddr, user : User]
    /\ \A d, e \in addrInfo : d.addr = e.addr => d = e

(* A transaction that is built spends badges of one code, each once, that  *)
(* its sender had.                                                         *)
BuiltInv ==
    \A tx \in built :
        /\ Made(tx) /\ Suffices(tx)
        /\ tx.code \in 1 .. n
        /\ \A j \in 1 .. Len(tx.vins) : /\ tx.vins[j] \in txPoint /\ tx.vins[j].type = "vout"
                                        /\ tx.vins[j].code = tx.code
                                        /\ owner[OutPoint(tx.vins[j])] \in OwnAddr
        /\ \A j, k \in 1 .. Len(tx.vins) : tx.vins[j] = tx.vins[k] => j = k

(* The badges of a code that are left. *)
UnspentOf(c) == {p \in txPoint : p.type = "vout" /\ p.code = c /\ ~IsSpent(OutPoint(p))}

(* The badges of a code that are left are as many as an issuance may have. *)
SumInv == \A c \in 1 .. n : SumTxPoints(UnspentOf(c)) <= MaxBadge

(* The inductive invariant of Wallet. *)
WalletInv == PointInv /\ OwnerInv /\ SureInv /\ AddrInv /\ BuiltInv /\ SumInv

-----------------------------------------------------------------------------
(* What a transaction adds. *)

(* h numbers the points of P by the elements of S, and f has their values. *)
Numbers(h, S, P) ==
    /\ \A x \in S : h[x] \in P
    /\ \A p \in P : \E x \in S : h[x] = p
    /\ \A x, y \in S : h[x] = h[y] => x = y
ValuesOf(f, h, S) == \A x \in S : f[x] \in Int /\ h[x].value = f[x]

(* Points that are numbered are worth the sum of their values. *)
LEMMA SumNumbered ==
    ASSUME NEW S, IsFiniteSet(S), NEW P, NEW h, Numbers(h, S, P), NEW f, ValuesOf(f, h, S)
    PROVE  IsFiniteSet(P) /\ SumTxPoints(P) = Sum(f, S) /\ \A p \in P : p.value \in Int
<1> DEFINE g == [p \in P |-> p.value]
           k == [x \in S |-> h[x]]
<1>1. k \in [S -> P] /\ \A x \in S : k[x] = h[x] /\ h[x] \in P
  BY DEF Numbers
<1>2. \A p \in P : p.value \in Int /\ g[p] = p.value
  BY DEF Numbers, ValuesOf
<1> HIDE DEF k, g
<1>3. \A x \in S : f[x] \in Int /\ g[k[x]] = f[x]
  BY <1>1, <1>2 DEF ValuesOf
<1>4. /\ \A x, y \in S : k[x] = k[y] => x = y
      /\ \A z \in P : \E x \in S : k[x] = z
  BY <1>1 DEF Numbers
<1>5. IsFiniteSet(P) /\ Sum(g, P) = Sum(f, S)
  BY <1>1, <1>3, <1>4, SumMatched
<1>6. SumTxPoints(P) = Sum(g, P)
  BY <1>2, <1>5, SumTxPointsIs DEF g
<1>7. QED
  BY <1>2, <1>5, <1>6

(* The vins of a transaction: badges of one code that are there to spend. *)
Takes(vins, c) ==
    /\ Len(vins) \in Nat /\ DOMAIN vins = 1 .. Len(vins)
    /\ \A j \in 1 .. Len(vins) : /\ vins[j] \in txPoint /\ vins[j].type = "vout"
                                 /\ vins[j].code = c /\ ~IsSpent(OutPoint(vins[j]))
    /\ \A j, k \in 1 .. Len(vins) : vins[j] = vins[k] => j = k

(* The vin points of the next transaction. *)
NewVin(vins) == {VinPoint(n + 1, j, vins[j]) : j \in DOMAIN vins}

(* The points of the vins. *)
LEMMA NewVinFacts ==
    ASSUME PointInv, NEW vins, NEW c, Takes(vins, c)
    PROVE  /\ \A q \in NewVin(vins) : \E j \in 1 .. Len(vins) : q = VinPoint(n + 1, j, vins[j])
           /\ \A q \in NewVin(vins) : q.txid = n + 1 /\ q.type = "vin" /\ q.code = c
           /\ \A q \in NewVin(vins) : \E j \in 1 .. Len(vins) :
                  q.pre = OutPoint(vins[j]) /\ q.value = -vins[j].value
           /\ \A p, q \in NewVin(vins) : p.pre = q.pre => p = q
           /\ \A j \in 1 .. Len(vins) : \E q \in NewVin(vins) : q.pre = OutPoint(vins[j])
           /\ NewVin(vins) = {} <=> Len(vins) = 0
<1> DEFINE V == NewVin(vins)
<1>1. \A j \in 1 .. Len(vins) :
        /\ VinPoint(n + 1, j, vins[j]).txid = n + 1
        /\ VinPoint(n + 1, j, vins[j]).type = "vin"
        /\ VinPoint(n + 1, j, vins[j]).code = c
        /\ VinPoint(n + 1, j, vins[j]).pre = OutPoint(vins[j])
        /\ VinPoint(n + 1, j, vins[j]).value = -vins[j].value
  BY DEF VinPoint, Takes, OutPoint
<1>2. /\ \A q \in V : \E j \in 1 .. Len(vins) : q = VinPoint(n + 1, j, vins[j])
      /\ \A j \in 1 .. Len(vins) : VinPoint(n + 1, j, vins[j]) \in V
  BY DEF NewVin, Takes
<1>3. \A q \in V : q.txid = n + 1 /\ q.type = "vin" /\ q.code = c
  BY <1>1, <1>2
<1>4. \A q \in V : \E j \in 1 .. Len(vins) : q.pre = OutPoint(vins[j]) /\ q.value = -vins[j].value
  BY <1>1, <1>2
<1>5. ASSUME NEW p \in V, NEW q \in V, p.pre = q.pre PROVE p = q
  <2>1. PICK j \in 1 .. Len(vins) : p = VinPoint(n + 1, j, vins[j])
    BY <1>2
  <2>2. PICK k \in 1 .. Len(vins) : q = VinPoint(n + 1, k, vins[k])
    BY <1>2
  <2>3. OutPoint(vins[j]) = OutPoint(vins[k])
    BY <1>1, <1>5, <2>1, <2>2
  <2>4. vins[j] = vins[k]
    BY <2>3 DEF Takes, PointInv
  <2>5. j = k
    BY <2>4 DEF Takes
  <2>6. QED
    BY <2>1, <2>2, <2>5
<1>6. \A j \in 1 .. Len(vins) : \E q \in V : q.pre = OutPoint(vins[j])
  BY <1>1, <1>2
<1>7. V = {} <=> Len(vins) = 0
  <2>1. Len(vins) \in Nat
    BY DEF Takes
  <2> HIDE DEF V
  <2>2. ASSUME Len(vins) # 0 PROVE V # {}
    <3>1. 1 \in 1 .. Len(vins)
      BY <2>1, <2>2
    <3>2. QED
      BY <1>2, <3>1
  <2>3. ASSUME Len(vins) = 0 PROVE V = {}
    <3>1. \A j : j \notin 1 .. 0
      OBVIOUS
    <3>2. QED
      BY <1>2, <2>3, <3>1
  <2>4. QED
    BY <2>2, <2>3
<1>8. QED
  BY <1>2, <1>3, <1>4, <1>5, <1>6, <1>7

(* The vouts in the collection have values, and are finitely many. *)
LEMMA VoutsFinite ==
    ASSUME PointInv, NEW P \in SUBSET txPoint, \A p \in P : p.type = "vout"
    PROVE  /\ IsFiniteSet(P)
           /\ \A p \in P : p.value \in Nat /\ p.value \in Int
           /\ SumTxPoints(P) \in Nat
<1>1. IsFiniteSet(P)
  BY FS_Subset DEF PointInv
<1>2. \A p \in P : p.value \in Nat /\ p.value \in Int
  BY MaxBadgeAssumption DEF PointInv
<1> DEFINE g == [p \in P |-> p.value]
<1>3. \A p \in P : g[p] \in Nat
  BY <1>2
<1>4. SumTxPoints(P) = Sum(g, P)
  BY <1>1, <1>2, SumTxPointsIs
<1> HIDE DEF g
<1>5. Sum(g, P) \in Nat
  BY <1>1, <1>3, SumNat
<1>6. QED
  BY <1>1, <1>2, <1>4, <1>5

(* They bring in what they are worth, and that is at most what is left of  *)
(* the code.                                                               *)
LEMMA NewVinWorth ==
    ASSUME PointInv, NEW vins, NEW c, Takes(vins, c)
    PROVE  LET R == {vins[j] : j \in 1 .. Len(vins)}
               worth == FirstWorth(vins, Len(vins))
           IN  /\ worth \in Nat
               /\ IsFiniteSet(NewVin(vins))
               /\ \A q \in NewVin(vins) : q.value \in Int
               /\ SumTxPoints(NewVin(vins)) = -worth
               /\ SumTxPoints(R) = worth
               /\ R \subseteq UnspentOf(c)
               /\ SumTxPoints(UnspentOf(c)) = worth + SumTxPoints(UnspentOf(c) \ R)
               /\ SumTxPoints(UnspentOf(c) \ R) \in Nat
<1> DEFINE L == Len(vins)
           S == 1 .. L
           R == {vins[j] : j \in S}
           V == NewVin(vins)
           f == [j \in S |-> vins[j].value]
           e == [j \in S |-> -vins[j].value]
           h == [j \in S |-> VinPoint(n + 1, j, vins[j])]
           worth == FirstWorth(vins, Len(vins))
<1>1. L \in Nat /\ DOMAIN vins = S /\ IsFiniteSet(S)
  <2>1. L \in Nat /\ DOMAIN vins = S
    BY DEF Takes
  <2> HIDE DEF L
  <2>2. QED
    BY <2>1, FS_Interval
<1>2. \A j \in S : vins[j].value \in Nat /\ vins[j].value \in Int
  BY MaxBadgeAssumption DEF Takes, PointInv
<1>3. worth = Sum(f, S) /\ worth \in Nat
  <2>1. \A j \in S : f[j] \in Nat
    BY <1>2
  <2>2. worth = SumSeq(f) /\ f = [j \in S |-> f[j]]
    BY DEF FirstWorth
  <2> HIDE DEF f, worth
  <2>3. SumSeq([j \in S |-> f[j]]) = Sum(f, S) /\ Sum(f, S) \in Nat
    BY <1>1, <2>1, FirstSum
  <2>4. QED
    BY <2>2, <2>3
<1>4. \A x, y \in S : vins[x] = vins[y] => x = y
  BY DEF Takes
<1>5. SumTxPoints(R) = Sum(f, S)
  <2>1. ValuesOf(f, vins, S)
    BY <1>2 DEF ValuesOf
  <2>2. Numbers(vins, S, R)
    BY <1>4 DEF Numbers
  <2> HIDE DEF S, f, R
  <2>3. QED
    BY <1>1, <2>1, <2>2, SumNumbered
<1>6. /\ IsFiniteSet(V) /\ SumTxPoints(V) = Sum(e, S) /\ \A q \in V : q.value \in Int
  <2>1. (\A x \in S : e[x] \in Int) /\ (\A x \in S : h[x].value = e[x]) /\ DOMAIN h = S
    BY <1>2 DEF VinPoint
  <2>2. \A x, y \in S : h[x] = h[y] => x = y
    <3> SUFFICES ASSUME NEW x \in S, NEW y \in S, h[x] = h[y] PROVE x = y
      OBVIOUS
    <3>1. h[x].index = x /\ h[y].index = y
      BY DEF VinPoint
    <3>2. QED
      BY <3>1
  <2>3. (\A x \in S : h[x] \in V) /\ (\A p \in V : \E x \in S : h[x] = p)
    BY <1>1 DEF NewVin
  <2> HIDE DEF S, e, h, V
  <2>4. Numbers(h, S, V) /\ ValuesOf(e, h, S)
    BY <2>1, <2>2, <2>3 DEF Numbers, ValuesOf
  <2>5. QED
    BY <1>1, <2>4, SumNumbered
<1>7. Sum(e, S) = -Sum(f, S)
  <2>1. (\A x \in S : f[x] \in Int) /\ (\A x \in S : e[x] = -f[x])
    BY <1>2
  <2> HIDE DEF S, e, f
  <2>2. QED
    BY <1>1, <2>1, SumMinus
<1>8. R \subseteq UnspentOf(c)
  BY DEF Takes, UnspentOf
<1> DEFINE Q == UnspentOf(c) \ R
<1>9. /\ IsFiniteSet(R) /\ IsFiniteSet(Q) /\ SumTxPoints(Q) \in Nat
      /\ \A p \in R \cup Q : p.value \in Int
  <2>1. /\ Q \in SUBSET txPoint /\ R \in SUBSET txPoint
        /\ (\A p \in Q : p.type = "vout") /\ (\A p \in R : p.type = "vout")
    BY <1>8 DEF UnspentOf
  <2> HIDE DEF Q, R
  <2>2. QED
    BY <2>1, VoutsFinite
<1>10. R \cap Q = {} /\ UnspentOf(c) = R \cup Q
  <2> HIDE DEF R
  <2>1. QED
    BY <1>8
<1> HIDE DEF L, S, R, V, f, e, h, worth, Q
<1>11. SumTxPoints(R \cup Q) = SumTxPoints(R) + SumTxPoints(Q)
  BY <1>9, <1>10, SumUnion
<1>12. QED
  <2>1. SumTxPoints(UnspentOf(c)) = worth + SumTxPoints(Q)
    BY <1>3, <1>5, <1>10, <1>11
  <2>2. SumTxPoints(V) = -worth
    BY <1>3, <1>6, <1>7
  <2>3. QED
    BY <1>3, <1>5, <1>6, <1>8, <1>9, <2>1, <2>2 DEF L, S, R, V, worth, Q

(* The vout points of the next transaction. *)
NewVout(vins, out) == ParseVouts(n + 1, out, NewVin(vins))

(* The code of a vout: that of the vins, or a new one. *)
CodeFor(vins, c) == IF Len(vins) = 0 THEN n + 1 ELSE c

(* The vins of a transaction are worth no more than a code may be. *)
LEMMA WorthBound ==
    ASSUME PointInv, SumInv, NEW vins, NEW c, Takes(vins, c)
    PROVE  /\ FirstWorth(vins, Len(vins)) \in 0 .. MaxBadge
           /\ Len(vins) # 0 => c \in 1 .. n
<1> DEFINE worth == FirstWorth(vins, Len(vins))
<1>1. /\ worth \in Nat /\ SumTxPoints(NewVin(vins)) = -worth
      /\ SumTxPoints(UnspentOf(c)) = worth + SumTxPoints(UnspentOf(c) \ {vins[j] : j \in 1 .. Len(vins)})
      /\ SumTxPoints(UnspentOf(c) \ {vins[j] : j \in 1 .. Len(vins)}) \in Nat
  BY NewVinWorth
<1> HIDE DEF worth
<1>2. CASE Len(vins) = 0
  <2>1. NewVin(vins) = {}
    BY <1>2, NewVinFacts
  <2>2. SumTxPoints(NewVin(vins)) = 0
    BY <2>1, SumNone
  <2>3. worth = 0
    BY <1>1, <2>2
  <2>4. QED
    BY <1>2, <2>3, MaxBadgeAssumption DEF worth
<1>3. CASE Len(vins) # 0
  <2>1. 1 \in 1 .. Len(vins)
    BY <1>3 DEF Takes
  <2>2. c \in 1 .. n
    BY <2>1 DEF Takes, PointInv
  <2>3. SumTxPoints(UnspentOf(c)) <= MaxBadge
    BY <2>2 DEF SumInv
  <2> DEFINE rest == SumTxPoints(UnspentOf(c) \ {vins[j] : j \in 1 .. Len(vins)})
  <2>4. rest \in Nat /\ worth + rest <= MaxBadge
    BY <1>1, <2>3
  <2> HIDE DEF rest
  <2>5. worth \in 0 .. MaxBadge
    BY <1>1, <2>4, MaxBadgeAssumption
  <2>6. QED
    BY <1>3, <2>2, <2>5 DEF worth
<1>4. QED
  BY <1>2, <1>3

(* badgeValue, and the code, of a transaction. *)
LEMMA BadgeOf ==
    ASSUME PointInv, SumInv, NEW vins, NEW c, Takes(vins, c)
    PROVE  /\ BadgeValue(NewVin(vins)) = IF Len(vins) = 0 THEN MaxBadge ELSE FirstWorth(vins, Len(vins))
           /\ BadgeValue(NewVin(vins)) \in 0 .. MaxBadge
           /\ BadgeCode(n + 1, NewVin(vins)) = CodeFor(vins, c)
           /\ ~(Cardinality(Codes(NewVin(vins))) > 1)
<1> DEFINE V == NewVin(vins)
           worth == FirstWorth(vins, Len(vins))
<1>1. /\ worth \in 0 .. MaxBadge
      /\ IsFiniteSet(V) /\ \A q \in V : q.value \in Int
      /\ SumTxPoints(V) = -worth
  BY NewVinWorth, WorthBound
<1>2. V = {} <=> Len(vins) = 0
  BY NewVinFacts
<1>3. \A q \in V : q.code = c
  BY NewVinFacts
<1> HIDE DEF V, worth
<1>4. -SumTxPoints(V) = worth
  BY <1>1
<1>5. BadgeValue(V) = IF V = {} THEN MaxBadge ELSE -SumTxPoints(V)
  <2>1. -SumTxPoints(V) \in 0 .. MaxBadge
    BY <1>1, <1>4
  <2>2. QED
    BY <1>1, <2>1, BadgeValueIs
<1>6. BadgeValue(V) = (IF Len(vins) = 0 THEN MaxBadge ELSE worth) /\ BadgeValue(V) \in 0 .. MaxBadge
  BY <1>1, <1>2, <1>4, <1>5, MaxBadgeAssumption
<1>7. CASE V = {}
  <2>1. Codes(V) = {}
    BY <1>7 DEF Codes
  <2>2. Cardinality(Codes(V)) = 0
    BY <2>1, FS_EmptySet
  <2>3. BadgeCode(n + 1, V) = n + 1
    BY <1>7 DEF BadgeCode
  <2>4. QED
    BY <1>2, <1>6, <1>7, <2>2, <2>3 DEF CodeFor, V, worth
<1>8. CASE V # {}
  <2>1. Codes(V) = {c}
    BY <1>3, <1>8 DEF Codes
  <2>2. Cardinality(Codes(V)) = 1
    BY <2>1, FS_Singleton
  <2>3. BadgeCode(n + 1, V) = c
    BY <1>8, <2>1 DEF BadgeCode
  <2>4. QED
    BY <1>2, <1>6, <1>8, <2>2, <2>3 DEF CodeFor, V, worth
<1>9. QED
  BY <1>7, <1>8

(* A sequence over a set is one over a larger set. *)
LEMMA SeqOfMore ==
    ASSUME NEW S, NEW T, S \subseteq T, NEW s \in Seq(S)
    PROVE  s \in Seq(T) /\ \A k \in DOMAIN s : s[k] \in S
OBVIOUS

(* The points of the vouts. *)
LEMMA NewVoutFacts ==
    ASSUME PointInv, SumInv, NEW vins, NEW c, Takes(vins, c), NEW out \in Seq(0 .. MaxBadge)
    PROVE  LET U == NewVout(vins, out)
           IN  /\ IsFiniteSet(U)
               /\ \A p \in U : /\ p.txid = n + 1 /\ p.type = "vout" /\ p.code = CodeFor(vins, c)
                               /\ p.index \in DOMAIN out /\ p.value = out[p.index]
                               /\ p.value \in 0 .. MaxBadge
               /\ \A p, q \in U : OutPoint(p) = OutPoint(q) => p = q
               /\ SumTxPoints(U) \in Nat
               /\ SumTxPoints(U) <= IF Len(vins) = 0 THEN MaxBadge ELSE FirstWorth(vins, Len(vins))
<1> DEFINE U == NewVout(vins, out)
           V == NewVin(vins)
<1>1. /\ BadgeValue(V) = IF Len(vins) = 0 THEN MaxBadge ELSE FirstWorth(vins, Len(vins))
      /\ BadgeValue(V) \in 0 .. MaxBadge /\ BadgeValue(V) \in Nat
      /\ BadgeCode(n + 1, V) = CodeFor(vins, c)
  <2>1. BadgeValue(V) \in 0 .. MaxBadge
    BY BadgeOf
  <2>2. BadgeValue(V) \in Nat
    BY <2>1, MaxBadgeAssumption
  <2>3. QED
    BY <2>1, <2>2, BadgeOf
<1>2. out \in Seq(Values) /\ \A k \in DOMAIN out : out[k] \in 0 .. MaxBadge
  <2>1. 0 .. MaxBadge \subseteq Values
    BY DEF Values
  <2>2. QED
    BY <2>1, SeqOfMore
<1>3. U = ParseVouts(n + 1, out, V)
  BY DEF NewVout
<1> HIDE DEF U, V
<1>4. IsFiniteSet(U) /\ SumTxPoints(U) \in Nat /\ SumTxPoints(U) <= BadgeValue(V)
  <2> DEFINE P == ParseVouts(n + 1, out, V)
  <2>1. IsFiniteSet(P) /\ SumTxPoints(P) \in Nat /\ SumTxPoints(P) <= BadgeValue(V)
    BY <1>1, <1>2, NewVouts, Zenon
  <2>2. QED
    BY <1>3, <2>1
<1>5. ASSUME NEW p \in U
      PROVE  /\ p.txid = n + 1 /\ p.type = "vout" /\ p.code = CodeFor(vins, c)
             /\ p.index \in DOMAIN out /\ p.value = out[p.index] /\ p.value \in 0 .. MaxBadge
             /\ p = VoutPoint(n + 1, p.index, out[p.index], CodeFor(vins, c))
  <2>1. PICK k \in BadgeVouts(out) : p = VoutPoint(n + 1, k, out[k], BadgeCode(n + 1, V))
    BY <1>3, VoutShape
  <2>2. k \in DOMAIN out /\ out[k] \in 0 .. MaxBadge
    BY <1>2 DEF BadgeVouts
  <2>3. p = VoutPoint(n + 1, k, out[k], CodeFor(vins, c))
    BY <1>1, <2>1
  <2>4. /\ p.txid = n + 1 /\ p.type = "vout" /\ p.code = CodeFor(vins, c)
        /\ p.index = k /\ p.value = out[k]
    BY <2>3 DEF VoutPoint
  <2>5. QED
    BY <2>2, <2>3, <2>4
<1>6. ASSUME NEW p \in U, NEW q \in U, OutPoint(p) = OutPoint(q) PROVE p = q
  <2>1. p.index = q.index
    BY <1>6 DEF OutPoint
  <2>2. QED
    BY <1>5, <2>1
<1>7. QED
  BY <1>1, <1>4, <1>5, <1>6 DEF U, V

-----------------------------------------------------------------------------
(* The step of a transaction. *)

(* The step of a transaction that spends badges that are there. *)
Adds(vins, out, to, c) ==
    /\ Takes(vins, c)
    /\ out \in Seq(0 .. MaxBadge)
    /\ \A i \in DOMAIN out : to[i] \in Addr
    /\ AddTxPoints(vins, out, to)

(* The points that it spends. *)
Taken(vins) == {vins[j] : j \in 1 .. Len(vins)}

(* What AddTxPoints leaves. *)
LEMMA AddsFacts ==
    ASSUME PointInv, SumInv, OwnerInv, NEW vins, NEW out, NEW to, NEW c, Adds(vins, out, to, c)
    PROVE  /\ n' = n + 1
           /\ txPoint' = txPoint \cup NewVin(vins) \cup NewVout(vins, out)
           /\ UNCHANGED <<addrInfo, sure, sends>>
           /\ \A o \in DOMAIN owner : o \in DOMAIN owner' /\ owner'[o] = owner[o]
           /\ \A p \in NewVout(vins, out) : OutPoint(p) \in DOMAIN owner' /\ owner'[OutPoint(p)] = to[p.index]
           /\ \A o \in DOMAIN owner' : o \in DOMAIN owner \/ (o[1] = n + 1 /\ o[2] \in Nat /\ owner'[o] \in Addr)
<1> DEFINE D == DOMAIN owner \cup {<<n + 1, i>> : i \in DOMAIN out}
<1>1. /\ n' = n + 1
      /\ txPoint' = txPoint \cup NewVin(vins) \cup NewVout(vins, out)
      /\ owner' = [o \in D |-> IF o \in DOMAIN owner THEN owner[o] ELSE to[o[2]]]
      /\ UNCHANGED <<addrInfo, sure, sends>>
  BY Zenon DEF Adds, AddTxPoints, NewVin, NewVout
<1>2. DOMAIN owner' = D
  BY <1>1
<1>3. \A o \in DOMAIN owner : o \in DOMAIN owner' /\ owner'[o] = owner[o]
  BY <1>1, <1>2
<1>4. \A i \in DOMAIN out : /\ <<n + 1, i>> \in DOMAIN owner' /\ <<n + 1, i>> \notin DOMAIN owner
                            /\ owner'[<<n + 1, i>>] = to[i]
  <2> SUFFICES ASSUME NEW i \in DOMAIN out
               PROVE  /\ <<n + 1, i>> \in DOMAIN owner' /\ <<n + 1, i>> \notin DOMAIN owner
                      /\ owner'[<<n + 1, i>>] = to[i]
    OBVIOUS
  <2> DEFINE o == <<n + 1, i>>
  <2>1. o[1] = n + 1 /\ o[2] = i /\ o \in D
    OBVIOUS
  <2>2. n \in Nat /\ ~(n + 1 \in 1 .. n)
    BY DEF PointInv
  <2>3. o \notin DOMAIN owner
    BY <2>1, <2>2 DEF OwnerInv
  <2> HIDE DEF o, D
  <2>4. owner'[o] = to[o[2]]
    BY <1>1, <2>1, <2>3
  <2>5. o \in DOMAIN owner' /\ o \notin DOMAIN owner /\ owner'[o] = to[i]
    BY <1>2, <2>1, <2>3, <2>4
  <2>6. QED
    BY <2>5 DEF o
<1>5. \A p \in NewVout(vins, out) : OutPoint(p) \in DOMAIN owner' /\ owner'[OutPoint(p)] = to[p.index]
  <2> SUFFICES ASSUME NEW p \in NewVout(vins, out)
               PROVE  OutPoint(p) \in DOMAIN owner' /\ owner'[OutPoint(p)] = to[p.index]
    OBVIOUS
  <2>1. p.txid = n + 1 /\ p.index \in DOMAIN out
    BY NewVoutFacts DEF Adds
  <2>2. OutPoint(p) = <<n + 1, p.index>>
    BY <2>1 DEF OutPoint
  <2>3. QED
    BY <1>4, <2>1, <2>2
<1>6. ASSUME NEW o \in DOMAIN owner' PROVE o \in DOMAIN owner \/ (o[1] = n + 1 /\ o[2] \in Nat /\ owner'[o] \in Addr)
  <2>1. o \in D
    BY <1>2
  <2>2. CASE o \in DOMAIN owner
    BY <2>2
  <2>3. CASE o \in {<<n + 1, i>> : i \in DOMAIN out}
    <3>1. PICK i \in DOMAIN out : o = <<n + 1, i>>
      BY <2>3
    <3>2. owner'[o] = to[i] /\ to[i] \in Addr
      BY <1>4, <3>1 DEF Adds
    <3>3. o[1] = n + 1 /\ o[2] = i
      BY <3>1
    <3>4. i \in Nat
      BY DEF Adds
    <3>5. QED
      BY <3>2, <3>3, <3>4
  <2>4. QED
    BY <2>1, <2>2, <2>3
<1>7. QED
  BY <1>1, <1>3, <1>5, <1>6

(* Outpoints of points tell the transactions apart. *)
LEMMA OutPointIs ==
    ASSUME NEW p, NEW q, OutPoint(p) = OutPoint(q)
    PROVE  p.txid = q.txid /\ p.index = q.index
BY DEF OutPoint

(* Afterwards its vins are spent, and nothing else is that was not. *)
LEMMA SpentAfter ==
    ASSUME PointInv, SumInv, OwnerInv, NEW vins, NEW out, NEW to, NEW c, Adds(vins, out, to, c)
    PROVE  \A o : IsSpent(o)' <=> IsSpent(o) \/ \E j \in 1 .. Len(vins) : o = OutPoint(vins[j])
<1>1. txPoint' = txPoint \cup NewVin(vins) \cup NewVout(vins, out)
  BY AddsFacts
<1>2. \A p \in NewVout(vins, out) : p.type = "vout"
  BY NewVoutFacts DEF Adds
<1>3. /\ \A q \in NewVin(vins) : q.type = "vin" /\ \E j \in 1 .. Len(vins) : q.pre = OutPoint(vins[j])
      /\ \A j \in 1 .. Len(vins) : \E q \in NewVin(vins) : q.pre = OutPoint(vins[j])
  BY NewVinFacts DEF Adds
<1> SUFFICES ASSUME NEW o
             PROVE  IsSpent(o)' <=> IsSpent(o) \/ \E j \in 1 .. Len(vins) : o = OutPoint(vins[j])
  OBVIOUS
<1>4. IsSpent(o)' <=> \E q \in txPoint' : q.type = "vin" /\ q.pre = o
  BY DEF IsSpent
<1>5. IsSpent(o) <=> \E q \in txPoint : q.type = "vin" /\ q.pre = o
  BY DEF IsSpent
<1>6. (\E q \in txPoint' : q.type = "vin" /\ q.pre = o)
        <=> (\E q \in txPoint : q.type = "vin" /\ q.pre = o) \/ (\E q \in NewVin(vins) : q.type = "vin" /\ q.pre = o)
  BY <1>1, <1>2
<1>7. (\E q \in NewVin(vins) : q.type = "vin" /\ q.pre = o) <=> \E j \in 1 .. Len(vins) : o = OutPoint(vins[j])
  BY <1>3
<1>8. QED
  BY <1>4, <1>5, <1>6, <1>7

(* What can be spent afterwards: what could be before and has not been     *)
(* taken, and the new vouts.                                               *)
LEMMA UnspentAfter ==
    ASSUME PointInv, SumInv, OwnerInv, NEW vins, NEW out, NEW to, NEW c, Adds(vins, out, to, c), NEW p
    PROVE  (p \in txPoint' /\ p.type = "vout" /\ ~IsSpent(OutPoint(p))')
             <=> \/ p \in txPoint /\ p.type = "vout" /\ ~IsSpent(OutPoint(p)) /\ p \notin Taken(vins)
                 \/ p \in NewVout(vins, out)
<1> DEFINE U == NewVout(vins, out)
           V == NewVin(vins)
           o == OutPoint(p)
<1>1. txPoint' = txPoint \cup V \cup U
  BY AddsFacts
<1>2. \A q \in U : q.type = "vout" /\ q.txid = n + 1
  BY NewVoutFacts DEF Adds
<1>3. \A q \in V : q.type = "vin"
  BY NewVinFacts DEF Adds
<1>4. IsSpent(o)' <=> IsSpent(o) \/ \E j \in 1 .. Len(vins) : o = OutPoint(vins[j])
  BY SpentAfter
<1>5. \A j \in 1 .. Len(vins) : vins[j] \in txPoint /\ vins[j].type = "vout"
  BY DEF Adds, Takes
<1>6. n \in Nat /\ \A q \in txPoint : q.txid \in 1 .. n /\ q.txid # n + 1
  BY DEF PointInv
<1> HIDE DEF U, V
<1>7. CASE p \in U
  <2>1. ~IsSpent(o)
    <3> SUFFICES ASSUME IsSpent(o) PROVE FALSE
      OBVIOUS
    <3>1. PICK q \in txPoint : q.type = "vin" /\ q.pre = o
      BY DEF IsSpent
    <3>2. PICK r \in txPoint : q.pre = OutPoint(r)
      BY <3>1, Zenon DEF PointInv
    <3>3. OutPoint(p) = OutPoint(r)
      BY <3>1, <3>2
    <3>4. p.txid = r.txid
      BY <3>3, OutPointIs, Zenon
    <3>5. QED
      BY <1>2, <1>6, <1>7, <3>4
  <2>2. ~ \E j \in 1 .. Len(vins) : o = OutPoint(vins[j])
    <3> SUFFICES ASSUME NEW j \in 1 .. Len(vins), OutPoint(p) = OutPoint(vins[j]) PROVE FALSE
      OBVIOUS
    <3>1. p.txid = vins[j].txid
      BY OutPointIs, Zenon
    <3>2. QED
      BY <1>2, <1>5, <1>6, <1>7, <3>1
  <2> HIDE DEF o
  <2>3. QED
    BY <1>1, <1>2, <1>4, <1>7, <2>1, <2>2 DEF o, U
<1>8. CASE p \notin U /\ p \in txPoint /\ p.type = "vout"
  <2>1. (\E j \in 1 .. Len(vins) : o = OutPoint(vins[j])) <=> p \in Taken(vins)
    <3>1. ASSUME NEW j \in 1 .. Len(vins), OutPoint(p) = OutPoint(vins[j]) PROVE p = vins[j]
      BY <1>5, <1>8, <3>1, Zenon DEF PointInv
    <3>2. QED
      BY <3>1 DEF Taken
  <2> HIDE DEF o
  <2>2. QED
    BY <1>1, <1>4, <1>8, <2>1 DEF o, U
<1>9. CASE p \notin U /\ ~(p \in txPoint /\ p.type = "vout")
  BY <1>1, <1>3, <1>9 DEF U
<1>10. QED
  BY <1>7, <1>8, <1>9

(* The points stay what they are. *)
LEMMA PointStep ==
    ASSUME PointInv, SumInv, OwnerInv, NEW vins, NEW out, NEW to, NEW c, Adds(vins, out, to, c)
    PROVE  PointInv'
<1> DEFINE U == NewVout(vins, out)
           V == NewVin(vins)
<1>1. n' = n + 1 /\ txPoint' = txPoint \cup V \cup U
  BY AddsFacts
<1>2. /\ IsFiniteSet(U)
      /\ \A p \in U : /\ p.txid = n + 1 /\ p.type = "vout" /\ p.code = CodeFor(vins, c)
                      /\ p.value \in 0 .. MaxBadge
      /\ \A p, q \in U : OutPoint(p) = OutPoint(q) => p = q
  BY NewVoutFacts DEF Adds
<1>3. /\ IsFiniteSet(V)
      /\ \A q \in V : q.txid = n + 1 /\ q.type = "vin" /\ q.code = c
      /\ \A q \in V : \E j \in 1 .. Len(vins) : q.pre = OutPoint(vins[j]) /\ q.value = -vins[j].value
      /\ \A p, q \in V : p.pre = q.pre => p = q
  BY NewVinFacts, NewVinWorth DEF Adds
<1>4. /\ \A j \in 1 .. Len(vins) : /\ vins[j] \in txPoint /\ vins[j].type = "vout"
                                   /\ vins[j].code = c /\ ~IsSpent(OutPoint(vins[j]))
      /\ Len(vins) \in Nat
  BY DEF Adds, Takes
<1>5. n \in Nat /\ n' \in Nat /\ n + 1 \in 1 .. n' /\ \A k \in 1 .. n : k \in 1 .. n' /\ k # n + 1
  BY <1>1 DEF PointInv
<1>6. \A p \in U : OutPoint(p) \in DOMAIN owner'
  BY AddsFacts
<1>7. \A p \in txPoint : p.type = "vout" => OutPoint(p) \in DOMAIN owner'
  BY AddsFacts DEF PointInv
<1>8. Len(vins) # 0 => c \in 1 .. n
  BY WorthBound DEF Adds
<1> HIDE DEF U, V
<1>9. IsFiniteSet(txPoint')
  <2>1. IsFiniteSet(txPoint \cup V)
    BY <1>3, FS_Union DEF PointInv
  <2>2. IsFiniteSet((txPoint \cup V) \cup U)
    BY <1>2, <2>1, FS_Union
  <2>3. QED
    BY <1>1, <2>2
<1>10. ASSUME NEW p \in txPoint' PROVE p.txid \in 1 .. n' /\ p.code \in 1 .. n' /\ p.type \in {"vin", "vout"}
  <2>1. CASE p \in txPoint
    BY <1>5, <2>1 DEF PointInv
  <2>2. CASE p \in V
    <3>1. PICK j \in 1 .. Len(vins) : TRUE
      BY <1>3, <2>2
    <3>2. Len(vins) # 0
      BY <1>4
    <3>3. QED
      BY <1>3, <1>5, <1>8, <2>2, <3>2
  <2>3. CASE p \in U
    <3>1. CodeFor(vins, c) \in 1 .. n'
      BY <1>5, <1>8 DEF CodeFor
    <3>2. QED
      BY <1>2, <1>5, <2>3, <3>1
  <2>4. QED
    BY <1>1, <2>1, <2>2, <2>3
<1>11. ASSUME NEW p \in txPoint', p.type = "vout"
       PROVE  p.value \in 0 .. MaxBadge /\ OutPoint(p) \in DOMAIN owner'
  <2>1. CASE p \in txPoint
    BY <1>7, <1>11, <2>1 DEF PointInv
  <2>2. CASE p \in U
    BY <1>2, <1>6, <2>2
  <2>3. QED
    BY <1>1, <1>3, <1>11, <2>1, <2>2
<1>12. ASSUME NEW p \in txPoint', p.type = "vin"
       PROVE  \E q \in txPoint' : /\ q.type = "vout" /\ p.pre = OutPoint(q)
                                  /\ p.value = -q.value /\ p.code = q.code
  <2>1. CASE p \in txPoint
    <3>1. PICK q \in txPoint : /\ q.type = "vout" /\ p.pre = OutPoint(q)
                               /\ p.value = -q.value /\ p.code = q.code
      BY <1>12, <2>1, Zenon DEF PointInv
    <3>2. q \in txPoint'
      BY <1>1
    <3>3. QED
      BY <3>1, <3>2, Zenon
  <2>2. CASE p \in V
    <3>1. PICK j \in 1 .. Len(vins) : p.pre = OutPoint(vins[j]) /\ p.value = -vins[j].value
      BY <1>3, <2>2
    <3>2. vins[j] \in txPoint'
      BY <1>1, <1>4
    <3>3. vins[j].type = "vout" /\ p.code = vins[j].code
      BY <1>3, <1>4, <2>2
    <3>4. QED
      BY <3>1, <3>2, <3>3, Zenon
  <2>3. QED
    BY <1>1, <1>2, <1>12, <2>1, <2>2
<1>13. ASSUME NEW p \in txPoint', NEW q \in txPoint', p.type = "vout", q.type = "vout", OutPoint(p) = OutPoint(q)
       PROVE  p = q
  <2>1. (p \in txPoint \/ p \in U) /\ (q \in txPoint \/ q \in U)
    BY <1>1, <1>3, <1>13
  <2>2. p.txid = q.txid
    BY <1>13, OutPointIs, Zenon
  <2>3. \A r \in txPoint : r.txid # n + 1
    BY <1>5 DEF PointInv
  <2>4. CASE p \in txPoint /\ q \in txPoint
    BY <1>13, <2>4, Zenon DEF PointInv
  <2>5. CASE p \in U /\ q \in U
    BY <1>2, <1>13, <2>5
  <2>6. QED
    BY <1>2, <2>1, <2>2, <2>3, <2>4, <2>5
<1>14. ASSUME NEW p \in txPoint', NEW q \in txPoint', p.type = "vin", q.type = "vin", p.pre = q.pre
       PROVE  p = q
  <2>1. (p \in txPoint \/ p \in V) /\ (q \in txPoint \/ q \in V)
    BY <1>1, <1>2, <1>14
  <2>2. \A r \in txPoint, s \in V : r.type = "vin" => r.pre # s.pre
    BY <1>3, <1>4 DEF IsSpent
  <2>3. CASE p \in txPoint /\ q \in txPoint
    BY <1>14, <2>3, Zenon DEF PointInv
  <2>4. CASE p \in V /\ q \in V
    BY <1>3, <1>14, <2>4
  <2>5. QED
    BY <1>14, <2>1, <2>2, <2>3, <2>4
<1>15. QED
  BY <1>5, <1>9, <1>10, <1>11, <1>12, <1>13, <1>14, Zenon DEF PointInv

(* So do the addresses, ... *)
LEMMA OwnerStep ==
    ASSUME PointInv, SumInv, OwnerInv, NEW vins, NEW out, NEW to, NEW c, Adds(vins, out, to, c)
    PROVE  OwnerInv'
<1>1. /\ n' = n + 1 /\ n \in Nat
      /\ \A o \in DOMAIN owner : owner'[o] = owner[o]
      /\ \A o \in DOMAIN owner' : o \in DOMAIN owner \/ (o[1] = n + 1 /\ o[2] \in Nat /\ owner'[o] \in Addr)
  BY AddsFacts DEF PointInv
<1>2. n + 1 \in 1 .. n' /\ \A k \in 1 .. n : k \in 1 .. n'
  BY <1>1
<1>3. \A o \in DOMAIN owner : o[1] \in 1 .. n /\ o[2] \in Nat /\ owner[o] \in Addr
  BY DEF OwnerInv
<1>4. \A o \in DOMAIN owner' : o[1] \in 1 .. n' /\ o[2] \in Nat /\ owner'[o] \in Addr
  BY <1>1, <1>2, <1>3
<1>5. QED
  BY <1>4 DEF OwnerInv

(* ... what is marked, ... *)
LEMMA SureStep ==
    ASSUME PointInv, SumInv, OwnerInv, SureInv, NEW vins, NEW out, NEW to, NEW c, Adds(vins, out, to, c)
    PROVE  SureInv'
<1>1. sure' = sure /\ txPoint \subseteq txPoint'
  BY AddsFacts
<1>2. \A o : IsSpent(o) => IsSpent(o)'
  BY SpentAfter
<1>3. /\ sure \subseteq txPoint
      /\ \A p \in sure : p.type = "vout" => IsSpent(OutPoint(p))
      /\ \A p \in sure : p.type = "vin" => \E q \in sure : q.type = "vout" /\ OutPoint(q) = p.pre
  BY DEF SureInv
<1>4. sure' \subseteq txPoint'
  BY <1>1, <1>3
<1>5. \A p \in sure' : p.type = "vout" => IsSpent(OutPoint(p))'
  BY <1>1, <1>2, <1>3
<1>6. \A p \in sure' : p.type = "vin" => \E q \in sure' : q.type = "vout" /\ OutPoint(q) = p.pre
  BY <1>1, <1>3
<1>7. QED
  BY <1>4, <1>5, <1>6, Zenon DEF SureInv

(* ... and what is built. *)
LEMMA BuiltStep ==
    ASSUME PointInv, SumInv, OwnerInv, BuiltInv, NEW vins, NEW out, NEW to, NEW c, Adds(vins, out, to, c),
           built' \subseteq built
    PROVE  BuiltInv'
<1>1. n' = n + 1 /\ n \in Nat /\ txPoint \subseteq txPoint' /\ \A o \in DOMAIN owner : owner'[o] = owner[o]
  BY AddsFacts DEF PointInv
<1>2. \A k \in 1 .. n : k \in 1 .. n'
  BY <1>1
<1> SUFFICES ASSUME NEW tx \in built'
             PROVE  /\ Made(tx) /\ Suffices(tx)
                    /\ tx.code \in 1 .. n'
                    /\ \A j \in 1 .. Len(tx.vins) : /\ tx.vins[j] \in txPoint' /\ tx.vins[j].type = "vout"
                                                    /\ tx.vins[j].code = tx.code
                                                    /\ owner'[OutPoint(tx.vins[j])] \in OwnAddr
                    /\ \A j, k \in 1 .. Len(tx.vins) : tx.vins[j] = tx.vins[k] => j = k
  BY Zenon DEF BuiltInv
<1>3. /\ Made(tx) /\ Suffices(tx)
      /\ tx.code \in 1 .. n
      /\ \A j \in 1 .. Len(tx.vins) : /\ tx.vins[j] \in txPoint /\ tx.vins[j].type = "vout"
                                      /\ tx.vins[j].code = tx.code
                                      /\ owner[OutPoint(tx.vins[j])] \in OwnAddr
      /\ \A j, k \in 1 .. Len(tx.vins) : tx.vins[j] = tx.vins[k] => j = k
  BY Zenon DEF BuiltInv
<1>4. \A j \in 1 .. Len(tx.vins) : OutPoint(tx.vins[j]) \in DOMAIN owner
  BY <1>3 DEF PointInv
<1>5. QED
  BY <1>1, <1>2, <1>3, <1>4

(* Some of the vouts are worth no more than all of them. *)
LEMMA SumPart ==
    ASSUME PointInv, NEW P \in SUBSET txPoint, \A p \in P : p.type = "vout", NEW R
    PROVE  /\ SumTxPoints(P \ R) \in Nat
           /\ SumTxPoints(P \ R) <= SumTxPoints(P)
<1> DEFINE Q == P \ R
           S == P \cap R
<1>1. /\ Q \in SUBSET txPoint /\ S \in SUBSET txPoint
      /\ (\A p \in Q : p.type = "vout") /\ (\A p \in S : p.type = "vout")
      /\ Q \cap S = {} /\ P = Q \cup S
  OBVIOUS
<1> HIDE DEF Q, S
<1>2. IsFiniteSet(Q) /\ (\A p \in Q : p.value \in Int) /\ SumTxPoints(Q) \in Nat
  BY <1>1, VoutsFinite
<1>3. IsFiniteSet(S) /\ (\A p \in S : p.value \in Int) /\ SumTxPoints(S) \in Nat
  BY <1>1, VoutsFinite
<1>4. \A p \in Q \cup S : p.value \in Int
  BY <1>2, <1>3
<1>5. SumTxPoints(Q \cup S) = SumTxPoints(Q) + SumTxPoints(S)
  BY <1>1, <1>2, <1>3, <1>4, SumUnion
<1>6. SumTxPoints(P) = SumTxPoints(Q) + SumTxPoints(S)
  BY <1>1, <1>5
<1>7. SumTxPoints(Q) <= SumTxPoints(P)
  BY <1>2, <1>3, <1>6
<1>8. QED
  BY <1>2, <1>7 DEF Q

(* The badges of a code that are left after a transaction. *)
LEMMA UnspentOfAfter ==
    ASSUME PointInv, SumInv, OwnerInv, NEW vins, NEW out, NEW to, NEW c, Adds(vins, out, to, c), NEW d
    PROVE  UnspentOf(d)' = (UnspentOf(d) \ Taken(vins))
                             \cup (IF d = CodeFor(vins, c) THEN NewVout(vins, out) ELSE {})
<1> DEFINE U == NewVout(vins, out)
<1>1. \A p \in U : p.code = CodeFor(vins, c)
  BY NewVoutFacts DEF Adds
<1>2. \A p : (p \in txPoint' /\ p.type = "vout" /\ ~IsSpent(OutPoint(p))')
             <=> \/ p \in txPoint /\ p.type = "vout" /\ ~IsSpent(OutPoint(p)) /\ p \notin Taken(vins)
                 \/ p \in U
  BY UnspentAfter
<1>3. UnspentOf(d)' = {p \in txPoint' : p.type = "vout" /\ p.code = d /\ ~IsSpent(OutPoint(p))'}
  BY DEF UnspentOf
<1>4. UnspentOf(d) = {p \in txPoint : p.type = "vout" /\ p.code = d /\ ~IsSpent(OutPoint(p))}
  BY DEF UnspentOf
<1> HIDE DEF U
<1>5. \A p : p \in UnspentOf(d)'
          <=> p \in UnspentOf(d) \ Taken(vins) \/ (p \in U /\ d = CodeFor(vins, c))
  BY <1>1, <1>2, <1>3, <1>4
<1>6. QED
  BY <1>5 DEF U

(* A transaction leaves no more badges of a code than there were. *)
LEMMA SumStep ==
    ASSUME PointInv, SumInv, OwnerInv, NEW vins, NEW out, NEW to, NEW c, Adds(vins, out, to, c)
    PROVE  SumInv'
<1> SUFFICES ASSUME NEW d \in 1 .. n' PROVE SumTxPoints(UnspentOf(d)') <= MaxBadge
  BY DEF SumInv
<1> DEFINE U == NewVout(vins, out)
           X == UnspentOf(d)
           R == Taken(vins)
           worth == FirstWorth(vins, Len(vins))
<1>0. Takes(vins, c) /\ out \in Seq(0 .. MaxBadge)
  BY DEF Adds
<1>1. n' = n + 1 /\ n \in Nat
  BY AddsFacts DEF PointInv
<1>2. UnspentOf(d)' = (X \ R) \cup (IF d = CodeFor(vins, c) THEN U ELSE {})
  BY UnspentOfAfter
<1>3. X \in SUBSET txPoint /\ (\A p \in X : p.type = "vout" /\ p.code = d)
  BY DEF UnspentOf
<1>4. /\ IsFiniteSet(U) /\ SumTxPoints(U) \in Nat
      /\ \A p \in U : p.txid = n + 1 /\ p.value \in 0 .. MaxBadge
      /\ SumTxPoints(U) <= IF Len(vins) = 0 THEN MaxBadge ELSE worth
  BY <1>0, NewVoutFacts
<1>5. \A p \in U : p.value \in Int
  BY <1>4, MaxBadgeAssumption
<1>6. d = n + 1 => X = {}
  <2>1. \A p \in txPoint : p.code \in 1 .. n /\ p.code # n + 1
    BY <1>1 DEF PointInv
  <2> HIDE DEF X
  <2>2. QED
    BY <1>3, <2>1
<1>7. d # n + 1 => d \in 1 .. n
  BY <1>1
<1>8. SumTxPoints(X) <= MaxBadge
  <2>1. CASE d = n + 1
    <3>1. SumTxPoints(X) = 0
      BY <1>6, <2>1, SumNone
    <3>2. QED
      BY <3>1, MaxBadgeAssumption
  <2>2. CASE d \in 1 .. n
    BY <2>2 DEF SumInv
  <2>3. QED
    BY <1>7, <2>1, <2>2
<1>9. SumTxPoints(X \ R) \in Nat /\ SumTxPoints(X \ R) <= SumTxPoints(X) /\ SumTxPoints(X) \in Nat
  BY <1>3, SumPart, VoutsFinite
<1>10. CASE d # CodeFor(vins, c)
  <2>1. UnspentOf(d)' = X \ R
    BY <1>2, <1>10
  <2> HIDE DEF X, R
  <2>2. QED
    BY <1>8, <1>9, <2>1, MaxBadgeAssumption
<1>11. CASE d = CodeFor(vins, c)
  <2> DEFINE Q == X \ R
  <2>1. UnspentOf(d)' = Q \cup U
    BY <1>2, <1>11
  <2>2. IsFiniteSet(Q) /\ \A p \in Q : p.value \in Int
    <3>1. Q \in SUBSET txPoint /\ \A p \in Q : p.type = "vout"
      BY <1>3
    <3> HIDE DEF Q
    <3>2. QED
      BY <3>1, VoutsFinite
  <2>3. Q \cap U = {}
    <3>1. \A p \in Q : p.txid \in 1 .. n
      BY <1>3 DEF PointInv
    <3>2. \A p \in Q : p.txid # n + 1
      BY <1>1, <3>1
    <3> HIDE DEF Q, U
    <3>3. QED
      BY <1>4, <3>2
  <2> HIDE DEF Q, U, X
  <2>4. SumTxPoints(Q \cup U) = SumTxPoints(Q) + SumTxPoints(U)
    <3>1. \A p \in Q \cup U : p.value \in Int
      BY <1>5, <2>2
    <3>2. QED
      BY <1>4, <2>2, <2>3, <3>1, SumUnion
  <2>5. SumTxPoints(Q) \in Nat /\ SumTxPoints(Q) <= SumTxPoints(X)
    BY <1>9 DEF Q
  <2>6. CASE Len(vins) = 0
    <3>1. X = {}
      BY <1>6, <1>11, <2>6 DEF CodeFor
    <3>2. SumTxPoints(X) = 0
      BY <3>1, SumNone
    <3>3. SumTxPoints(U) <= MaxBadge
      BY <1>4, <2>6
    <3>4. SumTxPoints(Q) = 0
      BY <2>5, <3>2
    <3>5. QED
      BY <1>4, <2>1, <2>4, <3>3, <3>4, MaxBadgeAssumption
  <2>7. CASE Len(vins) # 0
    <3>1. d = c
      BY <1>11, <2>7 DEF CodeFor
    <3>2. SumTxPoints(X) = worth + SumTxPoints(Q) /\ worth \in Nat
      <4>1. SumTxPoints(UnspentOf(c)) = worth + SumTxPoints(UnspentOf(c) \ Taken(vins)) /\ worth \in Nat
        BY <1>0, NewVinWorth DEF Taken
      <4>2. QED
        BY <3>1, <4>1 DEF Q, X
    <3>3. SumTxPoints(U) <= worth
      BY <1>4, <2>7
    <3> HIDE DEF worth
    <3>4. QED
      BY <1>4, <1>8, <2>1, <2>4, <2>5, <3>2, <3>3, MaxBadgeAssumption
  <2>8. QED
    BY <2>6, <2>7
<1>12. QED
  BY <1>10, <1>11

-----------------------------------------------------------------------------
(* The steps. *)

(* The parts of the invariant that a step disturbs only by its points. *)
LEMMA AddsStep ==
    ASSUME WalletInv, NEW vins, NEW out, NEW to, NEW c, Adds(vins, out, to, c), built' \subseteq built
    PROVE  WalletInv'
<1>1. PointInv /\ OwnerInv /\ SureInv /\ AddrInv /\ BuiltInv /\ SumInv
  BY DEF WalletInv
<1>2. PointInv' /\ OwnerInv' /\ SureInv' /\ BuiltInv' /\ SumInv'
  BY <1>1, PointStep, OwnerStep, SureStep, BuiltStep, SumStep, Zenon
<1>3. AddrInv'
  <2>1. addrInfo' = addrInfo
    BY <1>1, AddsFacts
  <2>2. QED
    BY <1>1, <2>1 DEF AddrInv
<1>4. QED
  BY <1>2, <1>3 DEF WalletInv

(* An issuance takes nothing. *)
LEMMA IssueStep ==
    ASSUME WalletInv, NEW out \in Issues, Issue(out)
    PROVE  WalletInv'
<1> DEFINE to == [i \in DOMAIN out |-> IF i % 2 = 1 THEN "me" ELSE "my"]
<1>1. AddTxPoints(<<>>, out, to) /\ built' = built
  BY DEF Issue
<1>2. out \in Seq(0 .. MaxBadge)
  BY WalletAssumption
<1>3. \A i \in DOMAIN out : to[i] \in Addr
  BY DEF Addr, OwnAddr
<1>4. Takes(<<>>, 0)
  BY DEF Takes
<1> HIDE DEF to
<1>5. Adds(<<>>, out, to, 0)
  BY <1>1, <1>2, <1>3, <1>4, Zenon DEF Adds
<1>6. built' \subseteq built
  BY <1>1
<1>7. QED
  BY <1>5, <1>6, AddsStep

(* The vins of a transaction that the chain takes are there to spend. *)
LEMMA BroadcastAdds ==
    ASSUME WalletInv, NEW tx \in built, Broadcast(tx)
    PROVE  Adds(tx.vins, tx.out,
                [i \in DOMAIN tx.out |-> IF i <= Len(tx.amounts) THEN "you" ELSE "me"], tx.code)
<1> DEFINE to == [i \in DOMAIN tx.out |-> IF i <= Len(tx.amounts) THEN "you" ELSE "me"]
           vins == tx.vins
           change == Int64(FirstWorth(vins, Len(vins)) - Int64(Wanted(tx)))
<1>1. /\ \A j \in DOMAIN vins : \A p \in txPoint : p.pre # OutPoint(vins[j])
      /\ AddTxPoints(vins, tx.out, to)
  BY DEF Broadcast
<1>2. Made(tx)
  BY Zenon DEF WalletInv, BuiltInv
<1>3. /\ \A j \in 1 .. Len(vins) : vins[j] \in txPoint /\ vins[j].type = "vout" /\ vins[j].code = tx.code
      /\ \A j, k \in 1 .. Len(vins) : vins[j] = vins[k] => j = k
  BY Zenon DEF WalletInv, BuiltInv
<1>4. \A i \in DOMAIN tx.out : to[i] \in Addr
  BY DEF Addr, OwnAddr
<1>5. /\ Len(vins) \in Nat /\ DOMAIN vins = 1 .. Len(vins) /\ tx.amounts \in Seq(0 .. MaxBadge)
      /\ tx.burn \in 0 .. MaxBadge
      /\ change >= 0 /\ tx.out = IF change = 0 THEN tx.amounts ELSE Append(tx.amounts, change)
  BY <1>2 DEF Made
<1>6. change \in Int /\ change <= MaxBadge
  <2> DEFINE a == FirstWorth(vins, Len(vins))
             b == Int64(Wanted(tx))
  <2>1. a \in Int
    <3>1. \A j \in 1 .. Len(vins) : vins[j].value \in Nat
      BY <1>3, MaxBadgeAssumption DEF WalletInv, PointInv
    <3>2. a \in Nat
      BY <1>5, <3>1, FirstWorthNat
    <3>3. QED
      BY <3>2
  <2>2. b \in Int
    <3>1. tx.burn + SumSeq(tx.amounts) \in Nat
      BY <1>5, WantedNat
    <3>2. Wanted(tx) \in Int
      BY <3>1 DEF Wanted
    <3>3. QED
      BY <3>2, Int64Range
  <2> HIDE DEF a, b
  <2>3. a - b \in Int
    BY <2>1, <2>2
  <2>4. Int64(a - b) \in Int /\ Int64(a - b) <= MaxBadge
    BY <2>3, Int64Range
  <2>5. QED
    BY <2>4 DEF a, b
<1> HIDE DEF change
<1>7. tx.out \in Seq(0 .. MaxBadge)
  <2> DEFINE S == 0 .. MaxBadge
  <2>1. change \in S
    BY <1>5, <1>6, MaxBadgeAssumption
  <2>2. tx.amounts \in Seq(S)
    BY <1>5
  <2> HIDE DEF S
  <2>3. Append(tx.amounts, change) \in Seq(S)
    BY <2>1, <2>2
  <2>4. tx.out \in Seq(S)
    BY <1>5, <2>2, <2>3
  <2>5. QED
    BY <2>4 DEF S
<1>8. \A j \in 1 .. Len(vins) : ~IsSpent(OutPoint(vins[j]))
  BY <1>1, <1>5 DEF IsSpent
<1>9. Takes(vins, tx.code)
  BY <1>3, <1>5, <1>8, Zenon DEF Takes
<1> HIDE DEF to
<1>10. Adds(vins, tx.out, to, tx.code)
  BY <1>1, <1>4, <1>7, <1>9, Zenon DEF Adds
<1>11. QED
  BY <1>10, Zenon DEF to

(* What a user has to send are vouts of his addresses. *)
LEMMA UtxosFacts ==
    ASSUME PointInv, AddrInv, NEW u, NEW c, NEW p \in GetAllUserUtxos(u, c)
    PROVE  /\ p \in txPoint /\ p.type = "vout" /\ p.code = c
           /\ owner[OutPoint(p)] \in OwnAddr
<1>1. p \in GetUserTxPoints(u, c) /\ p.type = "vout"
  BY DEF GetAllUserUtxos, CalculateUtxos
<1>2. PICK d \in addrInfo : p \in MayBeUnspent(d.addr, c)
  BY <1>1 DEF GetUserTxPoints
<1>3. p \in txPoint /\ p.code = c /\ AddrOf(p) = d.addr
  BY <1>2 DEF MayBeUnspent, AllPoints
<1>4. d.addr \in OwnAddr
  BY DEF AddrInv
<1>5. AddrOf(p) = owner[OutPoint(p)]
  BY <1>1 DEF AddrOf, OutPoint
<1>6. QED
  BY <1>1, <1>3, <1>4, <1>5

(* SendBadgeToAddress builds from them. *)
LEMMA SendStep ==
    ASSUME WalletInv, NEW c \in 1 .. n, NEW amounts \in Amounts, NEW burn \in Burns,
           SendBadgeToAddress(c, amounts, burn)
    PROVE  WalletInv'
<1> DEFINE utxos == GetAllUserUtxos(Sender, c)
<1>1. UNCHANGED <<n, addrInfo, owner, txPoint, sure>>
  BY DEF SendBadgeToAddress
<1>2. PICK order \in SetToSeqs(utxos) : built' = built \cup Sendable(order, amounts, burn, c)
  BY Zenon DEF SendBadgeToAddress
<1>3. PointInv /\ OwnerInv /\ SureInv /\ AddrInv /\ BuiltInv /\ SumInv
  BY DEF WalletInv
<1>4. \A p \in utxos : p \in txPoint /\ p.type = "vout" /\ p.code = c /\ owner[OutPoint(p)] \in OwnAddr
  BY <1>3, UtxosFacts
<1> HIDE DEF utxos
<1>5. Cardinality(utxos) \in Nat
  <2>1. IsFiniteSet(utxos)
    BY <1>3, <1>4, FS_Subset DEF PointInv
  <2>2. QED
    BY <2>1, FS_CardinalityType
<1>6. /\ order \in [1 .. Cardinality(utxos) -> utxos]
      /\ \A i, j \in 1 .. Cardinality(utxos) : i # j => order[i] # order[j]
  BY Zenon DEF SetToSeqs
<1>7. /\ order \in Seq(utxos) /\ Len(order) = Cardinality(utxos)
  <2> DEFINE L == Cardinality(utxos)
  <2> HIDE DEF L
  <2>1. L \in Nat /\ order \in [1 .. L -> utxos]
    BY <1>5, <1>6 DEF L
  <2>2. order \in Seq(utxos) /\ Len(order) = L
    BY <2>1
  <2>3. QED
    BY <2>2 DEF L
<1>8. \A j \in 1 .. Len(order) : order[j] \in utxos
  BY <1>6, <1>7
<1>9. \A j \in 1 .. Len(order) : order[j].value \in Nat
  BY <1>3, <1>4, <1>8, MaxBadgeAssumption DEF PointInv
<1>10. amounts \in Seq(0 .. MaxBadge) /\ burn \in 0 .. MaxBadge
  BY WalletAssumption
<1>11. ASSUME NEW tx \in Sendable(order, amounts, burn, c)
       PROVE  /\ Made(tx) /\ Suffices(tx)
              /\ tx.code \in 1 .. n
              /\ \A j \in 1 .. Len(tx.vins) : /\ tx.vins[j] \in txPoint /\ tx.vins[j].type = "vout"
                                              /\ tx.vins[j].code = tx.code
                                              /\ owner[OutPoint(tx.vins[j])] \in OwnAddr
              /\ \A j, k \in 1 .. Len(tx.vins) : tx.vins[j] = tx.vins[k] => j = k
  <2>1. /\ tx.code = c
        /\ Len(tx.vins) <= Len(order)
        /\ \A j \in 1 .. Len(tx.vins) : tx.vins[j] = order[j]
        /\ Made(tx)
        /\ Suffices(tx)
    BY <1>7, <1>9, <1>10, SendableFacts
  <2>2. Len(tx.vins) \in Nat
    BY <2>1 DEF Made
  <2>3. \A j \in 1 .. Len(tx.vins) : j \in 1 .. Len(order)
    BY <1>5, <1>7, <2>1, <2>2
  <2>4. ASSUME NEW j \in 1 .. Len(tx.vins)
        PROVE  /\ tx.vins[j] \in txPoint /\ tx.vins[j].type = "vout"
               /\ tx.vins[j].code = tx.code /\ owner[OutPoint(tx.vins[j])] \in OwnAddr
    <3>1. tx.vins[j] = order[j] /\ order[j] \in utxos
      BY <1>8, <2>1, <2>3
    <3>2. QED
      BY <1>4, <2>1, <3>1
  <2>5. \A j, k \in 1 .. Len(tx.vins) : tx.vins[j] = tx.vins[k] => j = k
    BY <1>6, <1>7, <2>1, <2>3
  <2>6. QED
    BY <2>1, <2>4, <2>5
<1>12. BuiltInv'
  <2> SUFFICES ASSUME NEW tx \in built'
               PROVE  /\ Made(tx) /\ Suffices(tx)
                      /\ tx.code \in 1 .. n
                      /\ \A j \in 1 .. Len(tx.vins) : /\ tx.vins[j] \in txPoint /\ tx.vins[j].type = "vout"
                                                      /\ tx.vins[j].code = tx.code
                                                      /\ owner[OutPoint(tx.vins[j])] \in OwnAddr
                      /\ \A j, k \in 1 .. Len(tx.vins) : tx.vins[j] = tx.vins[k] => j = k
    BY <1>1, Zenon DEF BuiltInv
  <2>1. CASE tx \in built
    BY <1>3, <2>1, Zenon DEF BuiltInv
  <2>2. CASE tx \in Sendable(order, amounts, burn, c)
    BY <1>11, <2>2, Zenon
  <2>3. QED
    BY <1>2, <2>1, <2>2
<1>13. PointInv' /\ OwnerInv' /\ SureInv' /\ AddrInv' /\ SumInv'
  <2>1. n' = n /\ addrInfo' = addrInfo /\ owner' = owner /\ txPoint' = txPoint /\ sure' = sure
    BY <1>1
  <2>2. PointInv'
    BY <1>3, <2>1, Zenon DEF PointInv
  <2>3. OwnerInv' /\ AddrInv'
    BY <1>3, <2>1 DEF OwnerInv, AddrInv
  <2>4. SureInv'
    BY <1>3, <2>1, Zenon DEF SureInv, IsSpent
  <2>5. SumInv'
    BY <1>3, <2>1, Zenon DEF SumInv, UnspentOf, IsSpent
  <2>6. QED
    BY <2>2, <2>3, <2>4, <2>5
<1>14. QED
  BY <1>12, <1>13 DEF WalletInv

(* The other steps leave the points and their addresses. *)
LEMMA QuietStep ==
    ASSUME WalletInv, UNCHANGED <<n, owner, txPoint>>, built' \subseteq built, SureInv', AddrInv'
    PROVE  WalletInv'
<1>1. n' = n /\ owner' = owner /\ txPoint' = txPoint
  OBVIOUS
<1>2. PointInv'
  BY <1>1, Zenon DEF PointInv, WalletInv
<1>3. OwnerInv'
  BY <1>1 DEF OwnerInv, WalletInv
<1>4. BuiltInv'
  BY <1>1, Zenon DEF BuiltInv, WalletInv
<1>5. SumInv'
  BY <1>1, Zenon DEF SumInv, UnspentOf, IsSpent, WalletInv
<1>6. QED
  BY <1>2, <1>3, <1>4, <1>5 DEF WalletInv

(* The marks stay right when neither they nor the points change. *)
LEMMA SureSame == ASSUME SureInv, UNCHANGED <<txPoint, sure>> PROVE SureInv'
<1>1. txPoint' = txPoint /\ sure' = sure
  OBVIOUS
<1>2. QED
  BY <1>1, Zenon DEF SureInv, IsSpent

(* So do the documents. *)
LEMMA AddrSame == ASSUME AddrInv, UNCHANGED addrInfo PROVE AddrInv'
BY DEF AddrInv

(* SetAddrInfo replaces the document of the address. *)
LEMMA AddrStep ==
    ASSUME AddrInv, NEW addr \in OwnAddr, NEW u \in User, SetAddrInfo(addr, u)
    PROVE  AddrInv'
<1> DEFINE new == [addr |-> addr, user |-> u]
<1>1. addrInfo' = {d \in addrInfo : d.addr # addr} \cup {new}
  BY DEF SetAddrInfo
<1>2. new \in [addr : OwnAddr, user : User] /\ new.addr = addr
  OBVIOUS
<1> HIDE DEF new
<1>3. addrInfo \subseteq [addr : OwnAddr, user : User] /\ \A d, e \in addrInfo : d.addr = e.addr => d = e
  BY DEF AddrInv
<1>4. addrInfo' \subseteq [addr : OwnAddr, user : User]
  BY <1>1, <1>2, <1>3
<1>5. \A d, e \in addrInfo' : d.addr = e.addr => d = e
  BY <1>1, <1>2, <1>3
<1>6. QED
  BY <1>4, <1>5 DEF AddrInv

(* The first half of SetSpent marks vouts that are spent. *)
LEMMA SetVoutStep ==
    ASSUME PointInv, SureInv, NEW p \in txPoint, SetVoutSpent(p)
    PROVE  SureInv'
<1> DEFINE N == {q \in txPoint : q.type = "vout" /\ OutPoint(q) = p.pre}
<1>1. sure' = sure \cup N /\ txPoint' = txPoint /\ p.type = "vin"
  BY DEF SetVoutSpent
<1>2. \A o : IsSpent(o)' <=> IsSpent(o)
  BY <1>1 DEF IsSpent
<1>3. \A q \in N : q \in txPoint /\ q.type = "vout" /\ IsSpent(OutPoint(q))
  BY <1>1 DEF IsSpent
<1> HIDE DEF N
<1>4. /\ sure \subseteq txPoint
      /\ \A r \in sure : r.type = "vout" => IsSpent(OutPoint(r))
      /\ \A r \in sure : r.type = "vin" => \E q \in sure : q.type = "vout" /\ OutPoint(q) = r.pre
  BY Zenon DEF SureInv
<1>5. sure' \subseteq txPoint'
  BY <1>1, <1>3, <1>4
<1>6. \A r \in sure' : r.type = "vout" => IsSpent(OutPoint(r))'
  BY <1>1, <1>2, <1>3, <1>4
<1>7. \A r \in sure' : r.type = "vin" => \E q \in sure' : q.type = "vout" /\ OutPoint(q) = r.pre
  BY <1>1, <1>3, <1>4
<1>8. QED
  BY <1>5, <1>6, <1>7, Zenon DEF SureInv

(* The second half marks a vin whose vout is marked. *)
LEMMA SetVinStep ==
    ASSUME PointInv, SureInv, NEW p \in txPoint, SetVinSpent(p)
    PROVE  SureInv'
<1>1. sure' = sure \cup {p} /\ txPoint' = txPoint /\ p.type = "vin"
  BY DEF SetVinSpent
<1>2. PICK s \in sure : s.type = "vout" /\ OutPoint(s) = p.pre
  BY Zenon DEF SetVinSpent
<1>3. \A o : IsSpent(o)' <=> IsSpent(o)
  BY <1>1 DEF IsSpent
<1>4. /\ sure \subseteq txPoint
      /\ \A r \in sure : r.type = "vout" => IsSpent(OutPoint(r))
      /\ \A r \in sure : r.type = "vin" => \E q \in sure : q.type = "vout" /\ OutPoint(q) = r.pre
  BY Zenon DEF SureInv
<1>5. sure' \subseteq txPoint'
  BY <1>1, <1>4
<1>6. \A r \in sure' : r.type = "vout" => IsSpent(OutPoint(r))'
  BY <1>1, <1>3, <1>4
<1>7. \A r \in sure' : r.type = "vin" => \E q \in sure' : q.type = "vout" /\ OutPoint(q) = r.pre
  BY <1>1, <1>2, <1>4
<1>8. QED
  BY <1>5, <1>6, <1>7, Zenon DEF SureInv

(* Every step keeps the invariant. *)
LEMMA WalletStep ==
    ASSUME WalletInv, [Next]_vars
    PROVE  WalletInv'
<1>0. PointInv /\ SureInv /\ AddrInv
  BY DEF WalletInv
<1>1. ASSUME NEW out \in Issues, Issue(out) PROVE WalletInv'
  BY <1>1, IssueStep
<1>2. ASSUME NEW addr \in OwnAddr, NEW u \in User, SetAddrInfo(addr, u) PROVE WalletInv'
  <2>1. UNCHANGED <<n, owner, txPoint>> /\ UNCHANGED <<txPoint, sure>> /\ built' \subseteq built
    BY <1>2 DEF SetAddrInfo
  <2>2. AddrInv' /\ SureInv'
    BY <1>0, <1>2, <2>1, AddrStep, SureSame
  <2>3. QED
    BY <2>1, <2>2, QuietStep
<1>3. ASSUME NEW c \in 1 .. n, NEW amounts \in Amounts, NEW burn \in Burns,
             SendBadgeToAddress(c, amounts, burn)
      PROVE  WalletInv'
  BY <1>3, SendStep
<1>4. ASSUME NEW tx \in built, Broadcast(tx) PROVE WalletInv'
  <2>1. built' \subseteq built
    BY <1>4 DEF Broadcast
  <2>2. QED
    BY <1>4, <2>1, BroadcastAdds, AddsStep
<1>5. ASSUME NEW tx \in built, Forget(tx) PROVE WalletInv'
  <2>1. /\ UNCHANGED <<n, owner, txPoint>> /\ UNCHANGED <<txPoint, sure>> /\ UNCHANGED addrInfo
        /\ built' \subseteq built
    BY <1>5 DEF Forget
  <2>2. AddrInv' /\ SureInv'
    BY <1>0, <2>1, AddrSame, SureSame
  <2>3. QED
    BY <2>1, <2>2, QuietStep
<1>6. ASSUME NEW p \in txPoint, SetVoutSpent(p) PROVE WalletInv'
  <2>1. UNCHANGED <<n, owner, txPoint>> /\ UNCHANGED addrInfo /\ built' \subseteq built
    BY <1>6 DEF SetVoutSpent
  <2>2. AddrInv' /\ SureInv'
    BY <1>0, <1>6, <2>1, AddrSame, SetVoutStep
  <2>3. QED
    BY <2>1, <2>2, QuietStep
<1>7. ASSUME NEW p \in txPoint, SetVinSpent(p) PROVE WalletInv'
  <2>1. UNCHANGED <<n, owner, txPoint>> /\ UNCHANGED addrInfo /\ built' \subseteq built
    BY <1>7 DEF SetVinSpent
  <2>2. AddrInv' /\ SureInv'
    BY <1>0, <1>7, <2>1, AddrSame, SetVinStep
  <2>3. QED
    BY <2>1, <2>2, QuietStep
<1>8. CASE UNCHANGED vars
  <2>1. /\ UNCHANGED <<n, owner, txPoint>> /\ UNCHANGED <<txPoint, sure>> /\ UNCHANGED addrInfo
        /\ built' \subseteq built
    BY <1>8 DEF vars
  <2>2. AddrInv' /\ SureInv'
    BY <1>0, <2>1, AddrSame, SureSame
  <2>3. QED
    BY <2>1, <2>2, QuietStep
<1>9. QED
  BY <1>1, <1>2, <1>3, <1>4, <1>5, <1>6, <1>7, <1>8, Zenon DEF Next

(* The initial state satisfies it. *)
LEMMA WalletInit == Init => WalletInv
<1> SUFFICES ASSUME Init PROVE WalletInv
  OBVIOUS
<1>1. /\ n = 0 /\ addrInfo = {} /\ DOMAIN owner = {} /\ txPoint = {} /\ sure = {} /\ built = {}
  BY DEF Init
<1>2. PointInv
  BY <1>1, FS_EmptySet DEF PointInv
<1>3. OwnerInv /\ AddrInv /\ BuiltInv
  BY <1>1 DEF OwnerInv, AddrInv, BuiltInv
<1>4. SureInv
  BY <1>1 DEF SureInv
<1>5. SumInv
  BY <1>1 DEF SumInv
<1>6. QED
  BY <1>2, <1>3, <1>4, <1>5 DEF WalletInv

(* The tx_point collection that the queries run on: every vin point spends *)
(* one vout point, once; SetSpent has marked nothing that is unspent; what *)
(* is built still has its vins; and no more badges of a code are left than *)
(* may be issued.                                                          *)
THEOREM WalletInvariance == Spec => []WalletInv
<1>1. WalletInv /\ [Next]_vars => WalletInv'
  BY WalletStep
<1>2. QED
  BY <1>1, WalletInit, PTL DEF Spec

(* The loop over the utxos stops at the first one that suffices, whatever  *)
(* their order.                                                            *)
THEOREM EnoughVins == Spec => []VinsSuffice
<1>1. WalletInv => VinsSuffice
  <2> SUFFICES ASSUME WalletInv PROVE VinsSuffice
    OBVIOUS
  <2>1. \A tx \in built : Suffices(tx) /\ Len(tx.vins) \in Nat
    BY Zenon DEF WalletInv, BuiltInv, Made
  <2>2. QED
    BY <2>1, SufficesIs
<1>2. QED
  BY <1>1, WalletInvariance, PTL

-----------------------------------------------------------------------------
(* What the queries return. *)

(* The badges of a code that are left at some addresses. *)
Mine(addrs, c) == {p \in UnspentOf(c) : owner[OutPoint(p)] \in addrs}

(* The join of some addresses, and the utxos among its points: a vin point *)
(* that is left out of the join leaves out the vout point that it spends.  *)
LEMMA JoinedUtxos ==
    ASSUME PointInv, SureInv, NEW addrs, NEW c
    PROVE  CalculateUtxos(UNION {MayBeUnspent(a, c) : a \in addrs}) = Mine(addrs, c)
<1> DEFINE J == UNION {MayBeUnspent(a, c) : a \in addrs}
           E == {p.pre : p \in {q \in J : q.type = "vin"}}
<1>1. \A p : p \in J <=> p \in txPoint /\ p.code = c /\ AddrOf(p) \in addrs /\ p \notin sure
  BY DEF MayBeUnspent, AllPoints
<1> HIDE DEF J
<1>2. CalculateUtxos(J) = {p \in J : p.type = "vout" /\ OutPoint(p) \notin E}
  BY DEF CalculateUtxos
<1>3. \A o : o \in E <=> \E q \in J : q.type = "vin" /\ q.pre = o
  OBVIOUS
<1> HIDE DEF E
<1>4. ASSUME NEW p \in Mine(addrs, c) PROVE p \in CalculateUtxos(J)
  <2>1. /\ p \in txPoint /\ p.type = "vout" /\ p.code = c /\ ~IsSpent(OutPoint(p))
        /\ owner[OutPoint(p)] \in addrs
    BY DEF Mine, UnspentOf
  <2>2. p \notin sure
    BY <2>1 DEF SureInv
  <2>3. AddrOf(p) \in addrs
    BY <2>1 DEF AddrOf, OutPoint
  <2>4. OutPoint(p) \notin E
    BY <1>1, <1>3, <2>1 DEF IsSpent
  <2>5. QED
    BY <1>1, <1>2, <2>1, <2>2, <2>3, <2>4
<1>5. ASSUME NEW p \in CalculateUtxos(J) PROVE p \in Mine(addrs, c)
  <2>1. /\ p \in txPoint /\ p.code = c /\ AddrOf(p) \in addrs /\ p \notin sure
        /\ p.type = "vout" /\ OutPoint(p) \notin E
    BY <1>1, <1>2
  <2>2. owner[OutPoint(p)] \in addrs
    BY <2>1 DEF AddrOf, OutPoint
  <2>3. ~IsSpent(OutPoint(p))
    <3> SUFFICES ASSUME NEW q \in txPoint, q.type = "vin", q.pre = OutPoint(p) PROVE FALSE
      BY DEF IsSpent
    <3>1. PICK r \in txPoint : r.type = "vout" /\ q.pre = OutPoint(r) /\ q.code = r.code
      BY Zenon DEF PointInv
    <3>2. r = p
      BY <2>1, <3>1, Zenon DEF PointInv
    <3>3. q.code = c
      BY <2>1, <3>1, <3>2
    <3>4. AddrOf(q) \in addrs
      <4>1. AddrOf(q) = owner[q.pre]
        BY DEF AddrOf
      <4>2. QED
        BY <2>2, <4>1
    <3>5. q \notin sure
      <4> SUFFICES ASSUME q \in sure PROVE FALSE
        OBVIOUS
      <4>1. PICK s \in sure : s.type = "vout" /\ OutPoint(s) = q.pre
        BY Zenon DEF SureInv
      <4>2. s \in txPoint
        BY DEF SureInv
      <4>3. OutPoint(s) = OutPoint(p)
        BY <4>1
      <4>4. s = p
        BY <2>1, <4>1, <4>2, <4>3, Zenon DEF PointInv
      <4>5. QED
        BY <2>1, <4>4
    <3>6. q \in J
      BY <1>1, <3>3, <3>4, <3>5
    <3>7. QED
      BY <1>3, <2>1, <3>6
  <2>4. QED
    BY <2>1, <2>2, <2>3 DEF Mine, UnspentOf
<1>6. CalculateUtxos(J) = Mine(addrs, c)
  BY <1>4, <1>5
<1>7. QED
  BY <1>6 DEF J

(* GetAddrBalance is what is left at the address. *)
LEMMA BalanceIs ==
    ASSUME PointInv, SureInv, NEW a, NEW c
    PROVE  GetAddrBalance(a, c) = SumTxPoints(Mine({a}, c))
<1>1. MayBeUnspent(a, c) = UNION {MayBeUnspent(b, c) : b \in {a}}
  OBVIOUS
<1>2. CalculateUtxos(UNION {MayBeUnspent(b, c) : b \in {a}}) = Mine({a}, c)
  BY JoinedUtxos
<1>3. QED
  BY <1>1, <1>2 DEF GetAddrBalance

(* What is spent of an address and a code, and what spends it. *)
LEMMA SpentCancels ==
    ASSUME PointInv, NEW addr, NEW c
    PROVE  SumTxPoints(AllPoints(addr, c)) = SumTxPoints(Mine({addr}, c))
<1> DEFINE A == AllPoints(addr, c)
           L == Mine({addr}, c)
           S == {p \in A : p.type = "vout" /\ IsSpent(OutPoint(p))}
           V == {p \in A : p.type = "vin"}
           By(p) == CHOOSE q \in V : q.pre = OutPoint(p)
           h == [p \in S |-> By(p)]
           f == [p \in S |-> p.value]
           g == [p \in V |-> p.value]
<1>1. A = {p \in txPoint : p.code = c /\ AddrOf(p) = addr}
  BY DEF AllPoints
<1>2. \A p \in txPoint : p.type = "vout" => AddrOf(p) = owner[OutPoint(p)]
  BY DEF AddrOf, OutPoint
<1>3. \A p \in txPoint : p.type = "vin" => AddrOf(p) = owner[p.pre]
  BY DEF AddrOf
<1>4. \A p \in txPoint : p.type \in {"vin", "vout"}
  BY DEF PointInv
<1>5. L = {p \in A : p.type = "vout" /\ ~IsSpent(OutPoint(p))}
  <2>1. \A p : p \in L <=> /\ p \in txPoint /\ p.type = "vout" /\ p.code = c /\ ~IsSpent(OutPoint(p))
                           /\ owner[OutPoint(p)] = addr
    BY DEF Mine, UnspentOf
  <2> HIDE DEF A, L
  <2>2. QED
    BY <1>1, <1>2, <1>4, <2>1
<1> HIDE DEF A, L
<1>6. /\ A = (L \cup S) \cup V /\ L \cap S = {} /\ (L \cup S) \cap V = {}
  <2>1. \A p \in A : p.type \in {"vin", "vout"}
    BY <1>1, <1>4
  <2>2. QED
    BY <1>5, <2>1
<1>7. \A p \in A : p.value \in Int
  <2> SUFFICES ASSUME NEW p \in A PROVE p.value \in Int
    OBVIOUS
  <2>0. p \in txPoint
    BY <1>1
  <2>1. CASE p.type = "vout"
    <3>1. p.value \in 0 .. MaxBadge
      BY <2>0, <2>1 DEF PointInv
    <3>2. QED
      BY <3>1
  <2>2. CASE p.type = "vin"
    <3>1. PICK q \in txPoint : q.type = "vout" /\ p.value = -q.value
      BY <2>0, <2>2, Zenon DEF PointInv
    <3>2. q.value \in 0 .. MaxBadge
      BY <3>1 DEF PointInv
    <3>3. q.value \in Int
      BY <3>2
    <3>4. QED
      BY <3>1, <3>3
  <2>3. QED
    BY <1>4, <2>0, <2>1, <2>2
<1>8. IsFiniteSet(A) /\ IsFiniteSet(L) /\ IsFiniteSet(S) /\ IsFiniteSet(V) /\ IsFiniteSet(L \cup S)
  <2>1. IsFiniteSet(A)
    BY <1>1, FS_Subset DEF PointInv
  <2>2. L \subseteq A /\ S \subseteq A /\ V \subseteq A /\ L \cup S \subseteq A
    BY <1>6
  <2> HIDE DEF S, V
  <2>3. QED
    BY <2>1, <2>2, FS_Subset
<1>9. ASSUME NEW p \in S
      PROVE  By(p) \in V /\ By(p).pre = OutPoint(p) /\ By(p).value = -p.value
  <2>0. p \in txPoint /\ p.code = c /\ AddrOf(p) = addr /\ p.type = "vout"
    BY <1>1
  <2>1. PICK q \in txPoint : q.type = "vin" /\ q.pre = OutPoint(p)
    BY DEF IsSpent
  <2>2. \A r \in txPoint : r.type = "vin" /\ r.pre = OutPoint(p) => r.value = -p.value /\ r.code = p.code
    <3> SUFFICES ASSUME NEW r \in txPoint, r.type = "vin", r.pre = OutPoint(p)
                 PROVE  r.value = -p.value /\ r.code = p.code
      OBVIOUS
    <3>1. PICK s \in txPoint : /\ s.type = "vout" /\ r.pre = OutPoint(s)
                               /\ r.value = -s.value /\ r.code = s.code
      BY Zenon DEF PointInv
    <3>2. \A t, u \in txPoint : t.type = "vout" /\ u.type = "vout" /\ OutPoint(t) = OutPoint(u) => t = u
      BY DEF PointInv
    <3>3. s = p
      BY <2>0, <3>1, <3>2
    <3>4. QED
      BY <3>1, <3>3
  <2>3. AddrOf(q) = addr
    BY <1>2, <1>3, <1>4, <2>0, <2>1
  <2>4. q \in V
    BY <1>1, <2>0, <2>1, <2>2, <2>3
  <2> DEFINE b == By(p)
  <2>5. b \in V /\ b.pre = OutPoint(p)
    <3> HIDE DEF V
    <3>1. QED
      BY <2>1, <2>4, Zenon
  <2> HIDE DEF b
  <2>6. b \in txPoint /\ b.type = "vin"
    BY <1>1, <2>5
  <2>7. b.value = -p.value
    BY <2>2, <2>5, <2>6
  <2>8. QED
    BY <2>5, <2>7 DEF b
<1>10. \A p \in S : h[p] = By(p)
  OBVIOUS
<1>11. h \in [S -> V]
  BY <1>9
<1>12. \A p \in S : f[p] \in Int /\ g[h[p]] = -f[p]
  <2> SUFFICES ASSUME NEW p \in S PROVE f[p] \in Int /\ g[h[p]] = -f[p]
    OBVIOUS
  <2> DEFINE b == By(p)
  <2>1. b \in V /\ b.value = -p.value /\ h[p] = b
    BY <1>9, <1>10
  <2> HIDE DEF b
  <2>2. f[p] = p.value /\ p.value \in Int /\ g[b] = b.value
    BY <1>7, <2>1
  <2>3. QED
    BY <2>1, <2>2
<1>13. \A p, q \in S : h[p] = h[q] => p = q
  <2> SUFFICES ASSUME NEW p \in S, NEW q \in S, h[p] = h[q] PROVE p = q
    OBVIOUS
  <2>1. OutPoint(p) = OutPoint(q)
    <3>1. By(p).pre = OutPoint(p) /\ By(q).pre = OutPoint(q)
      BY <1>9
    <3>2. By(p) = By(q)
      BY <1>10
    <3>3. QED
      BY <3>1, <3>2
  <2>2. p \in txPoint /\ p.type = "vout" /\ q \in txPoint /\ q.type = "vout"
    BY <1>1
  <2>3. QED
    BY <2>1, <2>2, Zenon DEF PointInv
<1>14. \A v \in V : \E p \in S : h[p] = v
  <2> SUFFICES ASSUME NEW v \in V PROVE \E p \in S : h[p] = v
    OBVIOUS
  <2>1. v \in txPoint /\ v.type = "vin" /\ v.code = c /\ AddrOf(v) = addr
    BY <1>1
  <2>2. PICK p \in txPoint : p.type = "vout" /\ v.pre = OutPoint(p) /\ v.code = p.code
    BY <2>1, Zenon DEF PointInv
  <2>3. IsSpent(OutPoint(p))
    BY <2>1, <2>2 DEF IsSpent
  <2>4. AddrOf(p) = addr
    BY <1>2, <1>3, <1>4, <2>1, <2>2
  <2>5. p \in S
    BY <1>1, <2>1, <2>2, <2>3, <2>4
  <2> DEFINE b == By(p)
  <2>6. b \in V /\ b.pre = OutPoint(p) /\ h[p] = b
    BY <1>9, <1>10, <2>5
  <2> HIDE DEF b
  <2>7. b \in txPoint /\ b.type = "vin" /\ b.pre = v.pre
    BY <1>1, <2>2, <2>6
  <2>8. b = v
    BY <2>1, <2>7, Zenon DEF PointInv
  <2>9. QED
    BY <2>5, <2>6, <2>8
<1>15. \A p \in V : p.value \in Int
  BY <1>6, <1>7
<1>16. \A p \in S : p.value \in Int
  BY <1>6, <1>7
<1>17. SumTxPoints(S) = Sum(f, S) /\ SumTxPoints(V) = Sum(g, V)
  <2> HIDE DEF S, V
  <2>1. QED
    BY <1>8, <1>15, <1>16, SumTxPointsIs
<1> HIDE DEF S, V, h, f, g, By
<1>18. Sum(g, V) = -Sum(f, S)
  BY <1>8, <1>11, <1>12, <1>13, <1>14, SumOpposite
<1>19. SumTxPoints(L \cup S) = SumTxPoints(L) + SumTxPoints(S) /\ SumTxPoints(L) \in Int /\ SumTxPoints(S) \in Int
  <2>1. \A p \in L \cup S : p.value \in Int
    BY <1>6, <1>7
  <2>2. QED
    BY <1>6, <1>8, <2>1, SumUnion
<1>20. SumTxPoints(A) = SumTxPoints(L \cup S) + SumTxPoints(V)
  <2>1. \A p \in (L \cup S) \cup V : p.value \in Int
    BY <1>6, <1>7
  <2>2. SumTxPoints((L \cup S) \cup V) = SumTxPoints(L \cup S) + SumTxPoints(V)
    BY <1>6, <1>8, <2>1, SumUnion
  <2>3. QED
    BY <1>6, <2>2
<1>21. SumTxPoints(A) = SumTxPoints(L)
  BY <1>17, <1>18, <1>19, <1>20
<1>22. QED
  BY <1>21 DEF A, L

-----------------------------------------------------------------------------
(* Sums over a family of sets. *)

(* A set is split into finitely many finite parts. *)
Splits(F, K, V) ==
    /\ IsFiniteSet(K)
    /\ \A k \in K : IsFiniteSet(F[k])
    /\ \A j, k \in K : j # k => F[j] \cap F[k] = {}
    /\ \A x : x \in V <=> \E k \in K : x \in F[k]

(* Its sum is that of the sums of the parts. *)
LEMMA SumFamily ==
    ASSUME NEW F, NEW K, NEW V, Splits(F, K, V),
           NEW f, \A x \in V : f[x] \in Int,
           NEW g, \A k \in K : g[k] = Sum(f, F[k])
    PROVE  IsFiniteSet(V) /\ Sum(f, V) = Sum(g, K)
<1> DEFINE U(A) == UNION {F[k] : k \in A}
           T == {A \in SUBSET K : IsFiniteSet(U(A)) /\ Sum(f, U(A)) = Sum(g, A)}
<1>0. /\ IsFiniteSet(K)
      /\ \A k \in K : IsFiniteSet(F[k]) /\ \A x \in F[k] : f[x] \in Int
      /\ \A j, k \in K : j # k => F[j] \cap F[k] = {}
  BY DEF Splits
<1>1. \A k \in K : g[k] = Sum(f, F[k]) /\ g[k] \in Int
  BY <1>0, SumIs
<1>2. ASSUME NEW A \in SUBSET K, \A x \in A : A \ {x} \in T PROVE A \in T
  <2>1. CASE A = {}
    <3>1. U(A) = {}
      BY <2>1
    <3>2. IsFiniteSet(U(A))
      BY <3>1, FS_EmptySet
    <3>3. Sum(f, U(A)) = 0 /\ Sum(g, A) = 0
      BY <2>1, <3>1, SumEmpty
    <3>4. QED
      BY <3>2, <3>3
  <2>2. CASE A # {}
    <3>1. PICK x \in A : TRUE
      BY <2>2
    <3> DEFINE W == U(A)
               B == U(A \ {x})
    <3>2. IsFiniteSet(B) /\ Sum(f, B) = Sum(g, A \ {x})
      BY <1>2, <3>1
    <3>3. x \in K /\ IsFiniteSet(F[x])
      BY <1>0
    <3>4. W = F[x] \cup B
      BY <3>1
    <3>5. F[x] \cap B = {}
      <4>1. \A k \in A \ {x} : F[x] \cap F[k] = {}
        BY <1>0, <3>3
      <4>2. QED
        BY <4>1
    <3>6. \A y \in W : f[y] \in Int
      BY <1>0
    <3>7. IsFiniteSet(A) /\ \A k \in A : g[k] \in Int
      BY <1>0, <1>1, FS_Subset
    <3> HIDE DEF W, B, T, U
    <3>8. IsFiniteSet(W)
      BY <3>2, <3>3, <3>4, FS_Union
    <3>9. F[x] \in SUBSET W /\ W \ F[x] = B
      BY <3>4, <3>5
    <3>10. Sum(f, W) = Sum(f, F[x]) + Sum(f, W \ F[x])
      BY <3>6, <3>8, <3>9, SumParts
    <3>11. Sum(g, A) = g[x] + Sum(g, A \ {x})
      BY <3>1, <3>7, SumTake
    <3>12. Sum(f, W) = Sum(g, A)
      BY <1>1, <3>2, <3>3, <3>9, <3>10, <3>11
    <3>13. QED
      BY <3>8, <3>12 DEF T, W
  <2>3. QED
    BY <2>1, <2>2
<1>3. T \in SUBSET SUBSET K
  OBVIOUS
<1>4. T = SUBSET K
  <2>1. \A A \in SUBSET K : (\A x \in A : A \ {x} \in T) => A \in T
    BY <1>2
  <2> HIDE DEF T
  <2>2. QED
    BY <1>0, <1>3, <2>1, SubsetInduct
<1>5. K \in T
  BY <1>4
<1>6. U(K) = V
  <2>1. \A x : x \in U(K) <=> x \in V
    BY DEF Splits
  <2> HIDE DEF U
  <2>2. QED
    BY <2>1
<1>7. QED
  BY <1>5, <1>6

(* The same for points and their values. *)
LEMMA PointsFamily ==
    ASSUME NEW F, NEW K, NEW W, Splits(F, K, W), \A p \in W : p.value \in Int,
           NEW e, \A k \in K : e[k] = SumTxPoints(F[k])
    PROVE  SumTxPoints(W) = Sum(e, K) /\ \A k \in K : e[k] \in Int
<1> DEFINE f == [p \in W |-> p.value]
           g == [k \in K |-> Sum(f, F[k])]
<1>1. \A p \in W : f[p] = p.value /\ f[p] \in Int
  OBVIOUS
<1>2. IsFiniteSet(K) /\ \A k \in K : IsFiniteSet(F[k]) /\ F[k] \subseteq W
  BY DEF Splits
<1>3. IsFiniteSet(W) /\ Sum(f, W) = Sum(g, K)
  <2> HIDE DEF f
  <2>1. \A k \in K : g[k] = Sum(f, F[k])
    OBVIOUS
  <2> HIDE DEF g
  <2>2. QED
    BY <1>1, <2>1, SumFamily
<1>4. SumTxPoints(W) = Sum(f, W)
  BY <1>3, SumTxPointsIs
<1>5. ASSUME NEW k \in K PROVE SumTxPoints(F[k]) = Sum(f, F[k]) /\ Sum(f, F[k]) \in Int
  <2> DEFINE v == [p \in F[k] |-> p.value]
  <2>1. \A p \in F[k] : v[p] = f[p] /\ f[p] \in Int /\ p.value \in Int
    BY <1>1, <1>2
  <2>2. IsFiniteSet(F[k])
    BY <1>2
  <2>3. SumTxPoints(F[k]) = Sum(v, F[k])
    BY <2>1, <2>2, SumTxPointsIs
  <2> HIDE DEF v, f
  <2>4. Sum(v, F[k]) = Sum(f, F[k]) /\ Sum(f, F[k]) \in Int
    BY <2>1, <2>2, SumCong, SumIs
  <2>5. QED
    BY <2>3, <2>4
<1> HIDE DEF f
<1>6. \A k \in K : g[k] \in Int /\ e[k] = g[k]
  BY <1>5
<1>7. Sum(e, K) = Sum(g, K)
  <2> HIDE DEF g
  <2>1. QED
    BY <1>2, <1>6, SumCong
<1>8. QED
  BY <1>3, <1>4, <1>6, <1>7

(* One inventory per transaction adds up to its points. *)
LEMMA InventorySum ==
    ASSUME NEW P, IsFiniteSet(P), \A p \in P : p.value \in Int
    PROVE  SumTxPoints(TxPoints2AddrInventory(P)) = SumTxPoints(P)
<1> DEFINE K == {p.txid : p \in P}
           F == [t \in K |-> {p \in P : p.txid = t}]
           e == [t \in K |-> SumTxPoints(F[t])]
           h == [t \in K |-> [txid |-> t, value |-> e[t]]]
<1>1. IsFiniteSet(K)
  <2> DEFINE x == [p \in P |-> p.txid]
  <2>1. DOMAIN x = P /\ K = {x[p] : p \in P}
    OBVIOUS
  <2> HIDE DEF x, K
  <2>2. QED
    BY <2>1, ImageFinite
<1>2. /\ DOMAIN F = K /\ UNION {F[t] : t \in K} = P
      /\ \A t \in K : F[t] = {p \in P : p.txid = t}
  <2>1. DOMAIN F = K /\ \A t \in K : F[t] = {p \in P : p.txid = t}
    OBVIOUS
  <2>2. \A p \in P : p.txid \in K
    OBVIOUS
  <2> HIDE DEF F, K
  <2>3. QED
    BY <2>1, <2>2
<1>3. TxPoints2AddrInventory(P) = {[txid |-> t, value |-> SumTxPoints({p \in P : p.txid = t})] : t \in K}
  BY Zenon DEF TxPoints2AddrInventory
<1> HIDE DEF K, F
<1>4. /\ \A t \in K : IsFiniteSet(F[t])
      /\ \A s, t \in K : s # t => F[s] \cap F[t] = {}
      /\ \A t \in K : \A p \in F[t] : p.value \in Int
  <2>1. \A t \in K : F[t] \subseteq P
    BY <1>2
  <2>2. \A t \in K : IsFiniteSet(F[t])
    BY <2>1, FS_Subset
  <2>3. QED
    BY <1>2, <2>2
<1>5. \A t \in K : e[t] = SumTxPoints(F[t])
  OBVIOUS
<1>6. SumTxPoints(P) = Sum(e, K) /\ \A t \in K : e[t] \in Int
  <2>1. \A p : p \in P <=> \E t \in K : p \in F[t]
    BY <1>2
  <2>2. Splits(F, K, P)
    BY <1>1, <1>4, <2>1 DEF Splits
  <2> HIDE DEF e
  <2>3. QED
    BY <1>5, <2>2, PointsFamily
<1>7. DOMAIN h = K /\ \A t \in K : h[t].txid = t /\ h[t].value = e[t]
  <2> HIDE DEF e
  <2>1. QED
    OBVIOUS
<1> DEFINE I == TxPoints2AddrInventory(P)
<1>8. (\A x \in K : h[x] \in I) /\ (\A p \in I : \E x \in K : h[x] = p)
  <2>1. \A t \in K : h[t] = [txid |-> t, value |-> SumTxPoints({p \in P : p.txid = t})]
    BY <1>2, <1>5
  <2> HIDE DEF h
  <2>2. QED
    BY <1>3, <2>1
<1> HIDE DEF h, e, I
<1>9. \A x, y \in K : h[x] = h[y] => x = y
  BY <1>7
<1>10. (\A x \in K : h[x].value = e[x]) /\ (\A x \in K : e[x] \in Int)
  BY <1>6, <1>7
<1>11. SumTxPoints(I) = Sum(e, K)
  <2>1. Numbers(h, K, I) /\ ValuesOf(e, h, K)
    BY <1>8, <1>9, <1>10 DEF Numbers, ValuesOf
  <2>2. QED
    BY <1>1, <2>1, SumNumbered
<1>12. QED
  BY <1>6, <1>11 DEF I

(* The points of the history of an address have values. *)
LEMMA HistoryValues ==
    ASSUME PointInv, NEW addr, NEW c
    PROVE  IsFiniteSet(AllPoints(addr, c)) /\ \A p \in AllPoints(addr, c) : p.value \in Int
<1> DEFINE A == AllPoints(addr, c)
<1>1. A \subseteq txPoint
  BY DEF AllPoints
<1> HIDE DEF A
<1>2. IsFiniteSet(A)
  BY <1>1, FS_Subset DEF PointInv
<1>3. ASSUME NEW p \in A PROVE p.value \in Int
  <2>1. \A q \in txPoint : q.type = "vout" => q.value \in Int
    <3>1. \A q \in txPoint : q.type = "vout" => q.value \in 0 .. MaxBadge
      BY DEF PointInv
    <3>2. QED
      BY <3>1
  <2>2. CASE p.type = "vin"
    <3>1. PICK q \in txPoint : q.type = "vout" /\ p.value = -q.value
      BY <1>1, <2>2, Zenon DEF PointInv
    <3>2. QED
      BY <2>1, <3>1
  <2>3. p.type \in {"vin", "vout"} /\ p \in txPoint
    BY <1>1 DEF PointInv
  <2>4. QED
    BY <2>1, <2>2, <2>3
<1>4. QED
  BY <1>2, <1>3 DEF A

(* GetAddrBalance, which leaves out what SetSpent has marked, however far  *)
(* it has got, is the sum of GetAddrInventory, which leaves out nothing.   *)
THEOREM BalanceHolds == Spec => []BalanceIsHistory
<1>1. WalletInv => BalanceIsHistory
  <2> SUFFICES ASSUME WalletInv, NEW addr \in Addr, NEW c \in 1 .. n
               PROVE  GetAddrBalance(addr, c)
                        = MapThenSumSet(LAMBDA a : a.value, TxPoints2AddrInventory(AllPoints(addr, c)))
    BY Zenon DEF BalanceIsHistory
  <2>1. PointInv /\ SureInv
    BY DEF WalletInv
  <2> DEFINE H == TxPoints2AddrInventory(AllPoints(addr, c))
  <2>2. MapThenSumSet(LAMBDA a : a.value, H) = SumTxPoints(H)
    BY Zenon DEF SumTxPoints, MapThenSumSet, MapThenFoldSet
  <2>3. SumTxPoints(H) = SumTxPoints(AllPoints(addr, c))
    BY <2>1, HistoryValues, InventorySum
  <2>4. SumTxPoints(AllPoints(addr, c)) = SumTxPoints(Mine({addr}, c))
    BY <2>1, SpentCancels
  <2>5. GetAddrBalance(addr, c) = SumTxPoints(Mine({addr}, c))
    BY <2>1, BalanceIs
  <2>6. QED
    BY <2>2, <2>3, <2>4, <2>5, Zenon
<1>2. QED
  BY <1>1, WalletInvariance, PTL

-----------------------------------------------------------------------------
(* The balances of users and addresses. *)

(* A fold over the users is a sum. *)
LEMMA UserSumIs ==
    ASSUME NEW c, NEW P, IsFiniteSet(P), \A u \in P : GetUserBalance(u, c) \in Int
    PROVE  MapThenSumSet(LAMBDA u : GetUserBalance(u, c), P) = Sum([u \in P |-> GetUserBalance(u, c)], P)
<1> DEFINE f == [u \in P |-> GetUserBalance(u, c)]
           Totals(g) == g = [s \in SUBSET P |-> IF s = {} THEN 0 ELSE GetUserBalance(Pick(s), c) + g[s \ {Pick(s)}]]
<1>1. MapThenSumSet(LAMBDA u : GetUserBalance(u, c), P) = (CHOOSE g : Totals(g))[P]
  BY Zenon DEF MapThenSumSet, MapThenFoldSet, Pick
<1>2. \A s \in SUBSET P : s # {} => f[Pick(s)] = GetUserBalance(Pick(s), c)
  BY PickIn
<1>3. \A x \in P : f[x] \in Int
  OBVIOUS
<1> HIDE DEF f
<1>4. \A g : IsSum(g, f, P) <=> Totals(g)
  <2> SUFFICES ASSUME NEW g PROVE IsSum(g, f, P) <=> Totals(g)
    OBVIOUS
  <2>1. [s \in SUBSET P |-> IF s = {} THEN 0 ELSE GetUserBalance(Pick(s), c) + g[s \ {Pick(s)}]]
           = [s \in SUBSET P |-> IF s = {} THEN 0 ELSE f[Pick(s)] + g[s \ {Pick(s)}]]
    BY <1>2
  <2>2. QED
    BY <2>1, Zenon DEF IsSum
<1>5. PICK it : IsSum(it, f, P)
  BY <1>3, SumExists
<1> DEFINE jt == CHOOSE g : Totals(g)
<1>6. Totals(jt)
  <2>1. Totals(it)
    BY <1>4, <1>5
  <2> HIDE DEF Totals
  <2>2. QED
    BY <2>1, Zenon
<1> HIDE DEF jt, Totals
<1>7. IsSum(jt, f, P)
  BY <1>4, <1>6
<1>8. jt[P] = Sum(f, P)
  <2>1. P \subseteq P /\ \A x \in P : f[x] = f[x]
    OBVIOUS
  <2>2. QED
    BY <1>3, <1>7, <2>1, SumIs
<1>9. QED
  BY <1>1, <1>8 DEF jt, f

(* So is BalanceOf, over the addresses. *)
LEMMA BalanceOfIs ==
    ASSUME NEW c, NEW P, IsFiniteSet(P), \A a \in P : GetAddrBalance(a, c) \in Int
    PROVE  BalanceOf(P, c) = Sum([a \in P |-> GetAddrBalance(a, c)], P)
<1> DEFINE f == [a \in P |-> GetAddrBalance(a, c)]
           Totals(g) == g = [s \in SUBSET P |-> IF s = {} THEN 0 ELSE GetAddrBalance(Pick(s), c) + g[s \ {Pick(s)}]]
<1>1. BalanceOf(P, c) = (CHOOSE g : Totals(g))[P]
  BY Zenon DEF BalanceOf, MapThenSumSet, MapThenFoldSet, Pick
<1>2. \A s \in SUBSET P : s # {} => f[Pick(s)] = GetAddrBalance(Pick(s), c)
  BY PickIn
<1>3. \A x \in P : f[x] \in Int
  OBVIOUS
<1> HIDE DEF f
<1>4. \A g : IsSum(g, f, P) <=> Totals(g)
  <2> SUFFICES ASSUME NEW g PROVE IsSum(g, f, P) <=> Totals(g)
    OBVIOUS
  <2>1. [s \in SUBSET P |-> IF s = {} THEN 0 ELSE GetAddrBalance(Pick(s), c) + g[s \ {Pick(s)}]]
           = [s \in SUBSET P |-> IF s = {} THEN 0 ELSE f[Pick(s)] + g[s \ {Pick(s)}]]
    BY <1>2
  <2>2. QED
    BY <2>1, Zenon DEF IsSum
<1>5. PICK it : IsSum(it, f, P)
  BY <1>3, SumExists
<1> DEFINE jt == CHOOSE g : Totals(g)
<1>6. Totals(jt)
  <2>1. Totals(it)
    BY <1>4, <1>5
  <2> HIDE DEF Totals
  <2>2. QED
    BY <2>1, Zenon
<1> HIDE DEF jt, Totals
<1>7. IsSum(jt, f, P)
  BY <1>4, <1>6
<1>8. jt[P] = Sum(f, P)
  <2>1. P \subseteq P /\ \A x \in P : f[x] = f[x]
    OBVIOUS
  <2>2. QED
    BY <1>3, <1>7, <2>1, SumIs
<1>9. QED
  BY <1>1, <1>8 DEF jt, f

(* What is left at some addresses. *)
LEMMA MineFacts ==
    ASSUME PointInv, NEW addrs, NEW c
    PROVE  /\ IsFiniteSet(Mine(addrs, c))
           /\ \A p \in Mine(addrs, c) : p.value \in Int
           /\ SumTxPoints(Mine(addrs, c)) \in Nat
<1>1. Mine(addrs, c) \in SUBSET txPoint /\ \A p \in Mine(addrs, c) : p.type = "vout"
  BY DEF Mine, UnspentOf
<1>2. QED
  BY <1>1, VoutsFinite

(* Groups of addresses that share none share no badges. *)
LEMMA MineFamily ==
    ASSUME PointInv, NEW c, NEW K, IsFiniteSet(K), NEW G, DOMAIN G = K,
           \A j, k \in K : j # k => G[j] \cap G[k] = {},
           NEW A, \A a : a \in A <=> \E k \in K : a \in G[k]
    PROVE  SumTxPoints(Mine(A, c)) = Sum([k \in K |-> SumTxPoints(Mine(G[k], c))], K)
<1> DEFINE F == [k \in K |-> Mine(G[k], c)]
           W == UNION {F[k] : k \in K}
           e == [k \in K |-> SumTxPoints(F[k])]
           g == [k \in K |-> SumTxPoints(Mine(G[k], c))]
<1>1. DOMAIN F = K /\ \A k \in K : F[k] = Mine(G[k], c)
  OBVIOUS
<1>2. e = g
  BY <1>1
<1> HIDE DEF F
<1>3. \A k \in K : IsFiniteSet(F[k]) /\ \A p \in F[k] : p.value \in Int
  BY <1>1, MineFacts
<1>4. \A j, k \in K : j # k => F[j] \cap F[k] = {}
  BY <1>1 DEF Mine
<1>5. SumTxPoints(W) = Sum(e, K)
  <2>1. \A k \in K : IsFiniteSet(F[k])
    BY <1>3
  <2>2. \A k \in K : \A p \in F[k] : p.value \in Int
    BY <1>3
  <2>3. (\A k \in K : e[k] = SumTxPoints(F[k])) /\ \A p : p \in W <=> \E k \in K : p \in F[k]
    OBVIOUS
  <2> HIDE DEF e, W
  <2>4. Splits(F, K, W) /\ \A p \in W : p.value \in Int
    BY <1>4, <2>1, <2>2, <2>3 DEF Splits
  <2>5. QED
    BY <2>3, <2>4, PointsFamily
<1>6. W = Mine(A, c)
  <2>1. \A p : p \in W <=> \E k \in K : p \in Mine(G[k], c)
    BY <1>1
  <2>2. \A p : p \in Mine(A, c) <=> p \in UnspentOf(c) /\ owner[OutPoint(p)] \in A
    BY DEF Mine
  <2>3. \A p : \A k \in K : p \in Mine(G[k], c) <=> p \in UnspentOf(c) /\ owner[OutPoint(p)] \in G[k]
    BY DEF Mine
  <2> HIDE DEF W
  <2>4. \A p : p \in W <=> p \in Mine(A, c)
    BY <2>1, <2>2, <2>3
  <2>5. QED
    BY <2>4
<1>7. QED
  <2> HIDE DEF W, e, g
  <2>1. SumTxPoints(Mine(A, c)) = Sum(g, K)
    BY <1>2, <1>5, <1>6
  <2>2. QED
    BY <2>1 DEF g

(* BalanceOf is what is left at the addresses. *)
LEMMA BalanceOfMine ==
    ASSUME PointInv, SureInv, NEW A, IsFiniteSet(A), NEW c
    PROVE  BalanceOf(A, c) = SumTxPoints(Mine(A, c))
<1> DEFINE f == [a \in A |-> GetAddrBalance(a, c)]
           G == [a \in A |-> {a}]
           g == [a \in A |-> SumTxPoints(Mine(G[a], c))]
<1>1. \A a \in A : GetAddrBalance(a, c) = SumTxPoints(Mine({a}, c)) /\ GetAddrBalance(a, c) \in Int
  BY BalanceIs, MineFacts
<1>2. BalanceOf(A, c) = Sum(f, A)
  BY <1>1, BalanceOfIs
<1>3. \A a \in A : G[a] = {a}
  OBVIOUS
<1>4. DOMAIN G = A
  OBVIOUS
<1> HIDE DEF G
<1>5. f = g
  BY <1>1, <1>3
<1>6. \A a, b \in A : a # b => G[a] \cap G[b] = {}
  BY <1>3
<1>7. \A a : a \in A <=> \E k \in A : a \in G[k]
  BY <1>3
<1>8. SumTxPoints(Mine(A, c)) = Sum(g, A)
  BY <1>4, <1>6, <1>7, MineFamily
<1> HIDE DEF f, g
<1>9. QED
  BY <1>2, <1>5, <1>8

(* There are finitely many addresses that are given to users. *)
LEMMA OwnFinite == IsFiniteSet(OwnAddr)
<1>1. IsFiniteSet({"me"}) /\ IsFiniteSet({"my"})
  BY FS_Singleton
<1>2. IsFiniteSet({"me"} \cup {"my"})
  BY <1>1, FS_Union
<1>3. OwnAddr = {"me"} \cup {"my"}
  BY DEF OwnAddr
<1>4. QED
  BY <1>2, <1>3

(* The addresses of a user. *)
AddrsOf(u) == {d.addr : d \in {e \in addrInfo : e.user = u}}

(* GetUserBalance is what is left at them. *)
LEMMA UserBalanceIs ==
    ASSUME PointInv, SureInv, NEW u, NEW c
    PROVE  GetUserBalance(u, c) = SumTxPoints(Mine(AddrsOf(u), c))
<1>1. GetUserTxPoints(u, c) = UNION {MayBeUnspent(a, c) : a \in AddrsOf(u)}
  BY DEF GetUserTxPoints, AddrsOf
<1>2. CalculateUtxos(UNION {MayBeUnspent(a, c) : a \in AddrsOf(u)}) = Mine(AddrsOf(u), c)
  BY JoinedUtxos
<1>3. QED
  BY <1>1, <1>2 DEF GetUserBalance, GetAllUserUtxos

(* The balances of the users add up to those of the addresses that have a  *)
(* document: SetAddrInfo never makes an address count for two users.       *)
THEOREM SharesHold == Spec => []UsersShareBalances
<1>1. WalletInv => UsersShareBalances
  <2> DEFINE A == {d.addr : d \in addrInfo}
  <2> SUFFICES ASSUME WalletInv, NEW c \in 1 .. n
               PROVE  MapThenSumSet(LAMBDA u : GetUserBalance(u, c), User) = BalanceOf(A, c)
    BY Zenon DEF UsersShareBalances
  <2> DEFINE f == [u \in User |-> GetUserBalance(u, c)]
             G == [u \in User |-> AddrsOf(u)]
             g == [u \in User |-> SumTxPoints(Mine(G[u], c))]
  <2>1. PointInv /\ SureInv /\ AddrInv
    BY DEF WalletInv
  <2>2. IsFiniteSet(User)
    BY WalletAssumption
  <2>3. \A u \in User : /\ GetUserBalance(u, c) = SumTxPoints(Mine(AddrsOf(u), c))
                        /\ GetUserBalance(u, c) \in Int
    BY <2>1, UserBalanceIs, MineFacts
  <2>4. MapThenSumSet(LAMBDA u : GetUserBalance(u, c), User) = Sum(f, User)
    BY <2>2, <2>3, UserSumIs
  <2>5. DOMAIN G = User /\ \A u \in User : G[u] = AddrsOf(u)
    OBVIOUS
  <2> HIDE DEF G
  <2>6. f = g
    BY <2>3, <2>5
  <2>7. \A u, v \in User : u # v => G[u] \cap G[v] = {}
    <3> SUFFICES ASSUME NEW u \in User, NEW v \in User, NEW a \in G[u], a \in G[v] PROVE u = v
      OBVIOUS
    <3>1. PICK d \in addrInfo : d.user = u /\ d.addr = a
      BY <2>5 DEF AddrsOf
    <3>2. PICK e \in addrInfo : e.user = v /\ e.addr = a
      BY <2>5 DEF AddrsOf
    <3>3. d = e
      BY <2>1, <3>1, <3>2 DEF AddrInv
    <3>4. QED
      BY <3>1, <3>2, <3>3
  <2>8. \A a : a \in A <=> \E u \in User : a \in G[u]
    <3>1. \A d \in addrInfo : d.user \in User
      BY <2>1 DEF AddrInv
    <3>2. \A a : \A u \in User : a \in G[u] <=> \E d \in addrInfo : d.user = u /\ d.addr = a
      BY <2>5 DEF AddrsOf
    <3>3. QED
      BY <3>1, <3>2
  <2>9. IsFiniteSet(A)
    <3>1. A \subseteq OwnAddr
      BY <2>1 DEF AddrInv
    <3> HIDE DEF A
    <3>2. QED
      BY <3>1, OwnFinite, FS_Subset
  <2> HIDE DEF A
  <2>10. SumTxPoints(Mine(A, c)) = Sum(g, User)
    BY <2>1, <2>2, <2>5, <2>7, <2>8, MineFamily
  <2>11. BalanceOf(A, c) = SumTxPoints(Mine(A, c))
    BY <2>1, <2>9, BalanceOfMine
  <2> HIDE DEF f, g
  <2>12. QED
    BY <2>4, <2>6, <2>10, <2>11, Zenon
<1>2. QED
  BY <1>1, WalletInvariance, PTL

-----------------------------------------------------------------------------
(* What a transaction of SendBadgeToAddress does. *)

(* The amounts and, if there is some, the change after them. *)
WithChange(amounts, ch) == IF ch = 0 THEN amounts ELSE Append(amounts, ch)
ChangeAt(amounts, ch) == IF ch = 0 THEN {} ELSE {Len(amounts) + 1}

(* The vouts of a transaction with change. *)
LEMMA OutShape ==
    ASSUME NEW amounts \in Seq(Nat), NEW ch \in Nat, NEW out, out = WithChange(amounts, ch)
    PROVE  LET L == Len(amounts)
               E == ChangeAt(amounts, ch)
           IN  /\ L \in Nat /\ DOMAIN out = (1 .. L) \cup E /\ (1 .. L) \cap E = {}
               /\ \A i \in DOMAIN out : out[i] \in Nat
               /\ Sum(out, 1 .. L) = SumSeq(amounts)
               /\ Sum(out, E) = ch
               /\ Sum(out, DOMAIN out) = SumSeq(amounts) + ch
<1> DEFINE L == Len(amounts)
           E == ChangeAt(amounts, ch)
           D == DOMAIN out
           A == 1 .. L
<1>0. out = (IF ch = 0 THEN amounts ELSE Append(amounts, ch)) /\ E = IF ch = 0 THEN {} ELSE {L + 1}
  BY Zenon DEF WithChange, ChangeAt
<1> HIDE DEF E
<1>1. L \in Nat /\ DOMAIN amounts = A /\ \A i \in A : amounts[i] \in Nat /\ amounts[i] \in Int
  OBVIOUS
<1>2. D = A \cup E /\ (\A i \in A : out[i] = amounts[i]) /\ (\A i \in E : out[i] = ch)
  <2>1. CASE ch = 0
    BY <1>0, <1>1, <2>1
  <2>2. CASE ch # 0
    <3>1. out = Append(amounts, ch)
      BY <1>0, <2>2
    <3>2. DOMAIN out = 1 .. L + 1 /\ out[L + 1] = ch /\ \A i \in 1 .. L : out[i] = amounts[i]
      BY <3>1
    <3>3. 1 .. L + 1 = (1 .. L) \cup {L + 1}
      BY <1>1
    <3>4. QED
      BY <1>0, <2>2, <3>2, <3>3
  <2>3. QED
    BY <2>1, <2>2
<1>3. A \cap E = {}
  BY <1>0, <1>1
<1>4. IsFiniteSet(A) /\ IsFiniteSet(E)
  <2> HIDE DEF L
  <2>1. IsFiniteSet(A)
    BY <1>1, FS_Interval
  <2>2. IsFiniteSet({L + 1}) /\ IsFiniteSet({})
    BY FS_Singleton, FS_EmptySet
  <2>3. QED
    BY <1>0, <2>1, <2>2
<1>5. SumSeq(amounts) = Sum(amounts, A) /\ SumSeq(amounts) \in Nat
  BY SumSeqNat
<1> HIDE DEF D, A, L
<1>6. Sum(out, A) = Sum(amounts, A)
  <2>1. \A x \in A : amounts[x] \in Int /\ out[x] = amounts[x]
    BY <1>1, <1>2
  <2>2. QED
    BY <1>4, <2>1, SumCong, Zenon
<1>7. \A i \in D : out[i] \in Nat /\ out[i] \in Int
  <2>1. ch \in Nat /\ ch \in Int
    OBVIOUS
  <2>2. QED
    BY <1>1, <1>2, <2>1, Zenon
<1>8. Sum(out, E) = ch
  <2>1. CASE ch = 0
    <3>1. E = {}
      BY <1>0, <2>1
    <3>2. Sum(out, {}) = 0
      BY SumEmpty, Zenon
    <3>3. QED
      BY <2>1, <3>1, <3>2, Zenon
  <2>2. CASE ch # 0
    <3> DEFINE B == {L + 1}
    <3>0. E = B /\ L + 1 \in B
      BY <1>0, <2>2
    <3>1. E = B /\ L + 1 \in B /\ out[L + 1] = ch /\ IsFiniteSet(B) /\ \A i \in B : out[i] \in Int
      <4> HIDE DEF B
      <4>1. \A i \in B : i \in D
        BY <1>2, <3>0, Zenon
      <4>2. QED
        BY <1>2, <1>4, <1>7, <3>0, <4>1, Zenon
    <3>2. B \ {L + 1} = {}
      OBVIOUS
    <3> HIDE DEF B
    <3> DEFINE y == L + 1
    <3>3. y \in B /\ IsFiniteSet(B) /\ \A x \in B : out[x] \in Int
      BY <3>1
    <3> HIDE DEF y
    <3>4. Sum(out, B) = out[y] + Sum(out, B \ {y})
      BY <3>3, SumTake, Zenon
    <3>5. Sum(out, B \ {y}) = 0
      BY <3>2, SumEmpty, Zenon DEF y
    <3>6. Sum(out, B) = ch + 0
      BY <3>1, <3>4, <3>5, Zenon DEF y
    <3>7. QED
      BY <3>1, <3>6
  <2>3. QED
    BY <2>1, <2>2
<1>9. Sum(out, D) = Sum(out, A) + Sum(out, E)
  <2>1. IsFiniteSet(D)
    BY <1>2, <1>4, FS_Union
  <2>2. A \in SUBSET D /\ D \ A = E
    BY <1>2, <1>3
  <2>3. Sum(out, D) = Sum(out, A) + Sum(out, D \ A)
    BY <1>7, <2>1, <2>2, SumParts
  <2>4. QED
    BY <2>2, <2>3
<1>10. QED
  BY <1>1, <1>2, <1>3, <1>5, <1>6, <1>7, <1>8, <1>9 DEF D, A, L, E

(* No vout is dropped if together they are worth no more than the vins. *)
LEMMA AllVouts ==
    ASSUME PointInv, SumInv, NEW vins, NEW c, Takes(vins, c), Len(vins) # 0,
           NEW out \in Seq(0 .. MaxBadge), Sum(out, DOMAIN out) <= FirstWorth(vins, Len(vins))
    PROVE  NewVout(vins, out) = {VoutPoint(n + 1, i, out[i], c) : i \in DOMAIN out}
<1> DEFINE V == NewVin(vins)
<1>1. /\ BadgeValue(V) = FirstWorth(vins, Len(vins))
      /\ BadgeValue(V) \in 0 .. MaxBadge /\ BadgeValue(V) \in Nat
      /\ BadgeCode(n + 1, V) = c
      /\ ~(Cardinality(Codes(V)) > 1)
  <2>1. BadgeValue(V) \in 0 .. MaxBadge
    BY BadgeOf
  <2>2. BadgeValue(V) \in Nat
    BY <2>1, MaxBadgeAssumption
  <2>3. BadgeCode(n + 1, V) = CodeFor(vins, c) /\ BadgeValue(V) = FirstWorth(vins, Len(vins))
    BY BadgeOf
  <2>4. CodeFor(vins, c) = c
    BY DEF CodeFor
  <2>5. ~(Cardinality(Codes(V)) > 1)
    BY BadgeOf
  <2>6. QED
    BY <2>1, <2>2, <2>3, <2>4, <2>5
<1>2. out \in Seq(Values) /\ BadgeVouts(out) = DOMAIN out
  <2>1. 0 .. MaxBadge \subseteq Values
    BY DEF Values
  <2>2. out \in Seq(Values) /\ \A k \in DOMAIN out : out[k] \in 0 .. MaxBadge
    BY <2>1, SeqOfMore
  <2>3. \A k \in DOMAIN out : out[k] # NotBadge
    BY <2>2 DEF NotBadge
  <2>4. QED
    BY <2>2, <2>3 DEF BadgeVouts
<1> HIDE DEF V
<1>3. Overspends(out, V) <=> Sum(out, BadgeVouts(out)) > BadgeValue(V)
  BY <1>1, <1>2, OverspendsIff
<1>4. Sum(out, BadgeVouts(out)) \in Nat
  BY <1>1, <1>2, OverspendsIff
<1>5. ~Overspends(out, V)
  BY <1>1, <1>2, <1>3, <1>4
<1>6. ParseVouts(n + 1, out, V) = {VoutPoint(n + 1, i, out[i], BadgeCode(n + 1, V)) : i \in BadgeVouts(out)}
  BY <1>1, <1>5, Zenon DEF ParseVouts
<1>7. QED
  BY <1>1, <1>2, <1>6 DEF NewVout, V

(* What some of the vouts are worth. *)
LEMMA VoutsWorth ==
    ASSUME PointInv, SumInv, NEW vins, NEW c, Takes(vins, c), Len(vins) # 0,
           NEW out \in Seq(0 .. MaxBadge), Sum(out, DOMAIN out) <= FirstWorth(vins, Len(vins)),
           NEW D \in SUBSET DOMAIN out
    PROVE  /\ SumTxPoints({p \in NewVout(vins, out) : p.index \in D}) = Sum(out, D)
           /\ IsFiniteSet({p \in NewVout(vins, out) : p.index \in D})
           /\ \A p \in NewVout(vins, out) : p.value \in Int
<1> DEFINE U == NewVout(vins, out)
           P == {p \in U : p.index \in D}
           h == [i \in D |-> VoutPoint(n + 1, i, out[i], c)]
           e == [i \in D |-> out[i]]
<1>1. U = {VoutPoint(n + 1, i, out[i], c) : i \in DOMAIN out}
  BY AllVouts
<1>2. IsFiniteSet(U) /\ \A p \in U : p.value \in 0 .. MaxBadge
  BY NewVoutFacts
<1>3. \A p \in U : p.value \in Int
  <2> HIDE DEF U
  <2>1. QED
    BY <1>2
<1>4. IsFiniteSet(D) /\ \A x \in D : out[x] \in Int
  <2>0. \A s, S : s \in Seq(S) => Len(s) \in Nat /\ DOMAIN s = 1 .. Len(s) /\ \A x \in DOMAIN s : s[x] \in S
    OBVIOUS
  <2>1. Len(out) \in Nat /\ DOMAIN out = 1 .. Len(out) /\ \A x \in DOMAIN out : out[x] \in 0 .. MaxBadge
    BY <2>0, Zenon
  <2>2. IsFiniteSet(1 .. Len(out))
    BY <2>1, FS_Interval
  <2>3. IsFiniteSet(D)
    BY <2>1, <2>2, FS_Subset
  <2>4. QED
    BY <2>1, <2>3
<1>5. \A i \in DOMAIN out : /\ VoutPoint(n + 1, i, out[i], c).index = i
                            /\ VoutPoint(n + 1, i, out[i], c).value = out[i]
  BY DEF VoutPoint
<1>6. /\ DOMAIN h = D
      /\ \A x \in D : h[x] = VoutPoint(n + 1, x, out[x], c)
      /\ \A x \in D : h[x].index = x /\ h[x].value = out[x]
  <2>1. DOMAIN h = D /\ \A x \in D : h[x] = VoutPoint(n + 1, x, out[x], c)
    OBVIOUS
  <2> HIDE DEF h
  <2>2. QED
    BY <1>5, <2>1
<1>7. (\A x \in D : h[x] \in P) /\ (\A p \in P : \E x \in D : h[x] = p)
  <2> HIDE DEF U, h
  <2>1. \A p \in P : \E x \in D : h[x] = p
    BY <1>1, <1>5, <1>6
  <2>2. \A x \in D : h[x] \in P
    BY <1>1, <1>6
  <2>3. QED
    BY <2>1, <2>2
<1>8. (\A x \in D : e[x] \in Int) /\ (\A x \in D : e[x] = out[x])
  BY <1>4
<1> HIDE DEF h, e
<1>9. \A x, y \in D : h[x] = h[y] => x = y
  BY <1>6
<1>10. \A x \in D : h[x].value = e[x]
  BY <1>6, <1>8
<1>11. SumTxPoints(P) = Sum(e, D)
  <2> HIDE DEF P
  <2>1. Numbers(h, D, P) /\ ValuesOf(e, h, D)
    BY <1>7, <1>8, <1>9, <1>10 DEF Numbers, ValuesOf
  <2>2. QED
    BY <1>4, <2>1, SumNumbered
<1>12. Sum(e, D) = Sum(out, D)
  BY <1>4, <1>8, SumCong
<1>13. IsFiniteSet(P)
  <2>1. P \subseteq U
    OBVIOUS
  <2> HIDE DEF P, U
  <2>2. QED
    BY <1>2, <2>1, FS_Subset
<1>14. QED
  BY <1>3, <1>11, <1>12, <1>13

(* What is left at some addresses after a transaction. *)
LEMMA MineAfter ==
    ASSUME PointInv, SumInv, OwnerInv, NEW vins, NEW out, NEW to, NEW c, Adds(vins, out, to, c),
           Len(vins) # 0, NEW A
    PROVE  Mine(A, c)' = (Mine(A, c) \ Taken(vins)) \cup {p \in NewVout(vins, out) : to[p.index] \in A}
<1> DEFINE U == NewVout(vins, out)
<1>1. UnspentOf(c)' = (UnspentOf(c) \ Taken(vins)) \cup U
  <2>1. CodeFor(vins, c) = c
    BY DEF CodeFor
  <2>2. UnspentOf(c)' = (UnspentOf(c) \ Taken(vins)) \cup (IF c = CodeFor(vins, c) THEN U ELSE {})
    BY UnspentOfAfter
  <2>3. QED
    BY <2>1, <2>2
<1>2. \A p \in U : owner'[OutPoint(p)] = to[p.index]
  BY AddsFacts
<1>3. \A p \in UnspentOf(c) : owner'[OutPoint(p)] = owner[OutPoint(p)]
  <2>1. \A p \in UnspentOf(c) : OutPoint(p) \in DOMAIN owner
    BY DEF UnspentOf, PointInv
  <2>2. QED
    BY <2>1, AddsFacts
<1>4. Mine(A, c)' = {p \in UnspentOf(c)' : owner'[OutPoint(p)] \in A}
  BY DEF Mine, OutPoint
<1>5. Mine(A, c) = {p \in UnspentOf(c) : owner[OutPoint(p)] \in A}
  BY DEF Mine
<1> HIDE DEF U
<1>6. \A p : p \in Mine(A, c)' <=> \/ p \in Mine(A, c) \ Taken(vins)
                                   \/ p \in U /\ to[p.index] \in A
  BY <1>1, <1>2, <1>3, <1>4, <1>5
<1>7. QED
  BY <1>6 DEF U

(* Who gets the vouts of a transaction of SendBadgeToAddress. *)
Receivers(tx) == [i \in DOMAIN tx.out |-> IF i <= Len(tx.amounts) THEN "you" ELSE "me"]

(* The change is exact, and the vins pay for all vouts. *)
LEMMA ChangeIs ==
    ASSUME WalletInv, NEW tx \in built, Broadcast(tx), Wanted(tx) \in 1 .. MaxBadge
    PROVE  LET worth == FirstWorth(tx.vins, Len(tx.vins))
               ch == worth - Wanted(tx)
           IN  /\ worth \in Nat /\ ch \in Nat /\ Len(tx.vins) # 0
               /\ Wanted(tx) = tx.burn + SumSeq(tx.amounts)
               /\ tx.burn \in Nat /\ SumSeq(tx.amounts) \in Nat
               /\ tx.amounts \in Seq(Nat)
               /\ tx.out = WithChange(tx.amounts, ch)
               /\ Sum(tx.out, DOMAIN tx.out) <= worth
<1> DEFINE worth == FirstWorth(tx.vins, Len(tx.vins))
           W == Wanted(tx)
           ch == worth - W
<1>1. Adds(tx.vins, tx.out, Receivers(tx), tx.code)
  BY BroadcastAdds DEF Receivers
<1>2. Takes(tx.vins, tx.code)
  BY <1>1 DEF Adds
<1>3. PointInv /\ SumInv /\ BuiltInv
  BY DEF WalletInv
<1>4. Made(tx) /\ Suffices(tx)
  BY <1>3, Zenon DEF BuiltInv
<1>5. W \in Nat /\ W >= 1 /\ W <= MaxBadge /\ W \in 0 .. MaxBadge
  BY MaxBadgeAssumption
<1>6. worth \in 0 .. MaxBadge
  BY <1>2, <1>3, WorthBound
<1>7. worth >= W
  BY <1>4, <1>5 DEF Suffices
<1>8. Len(tx.vins) # 0
  <2> SUFFICES ASSUME Len(tx.vins) = 0 PROVE FALSE
    OBVIOUS
  <2>1. NewVin(tx.vins) = {}
    BY <1>2, <1>3, NewVinFacts
  <2>2. SumTxPoints(NewVin(tx.vins)) = 0
    BY <2>1, SumNone
  <2>3. SumTxPoints(NewVin(tx.vins)) = -worth
    BY <1>2, <1>3, NewVinWorth
  <2> HIDE DEF worth, W
  <2>4. QED
    BY <1>5, <1>6, <1>7, <2>2, <2>3
<1>9. ch \in Nat /\ ch \in 0 .. MaxBadge /\ worth \in Nat
  <2> HIDE DEF worth, W
  <2>1. QED
    BY <1>5, <1>6, <1>7, MaxBadgeAssumption
<1>10. Int64(worth - Int64(W)) = ch
  <2> HIDE DEF worth, W
  <2>1. Int64(W) = W
    BY <1>5, Int64Fits
  <2>2. QED
    BY <1>9, <2>1, Int64Fits
<1>11. tx.amounts \in Seq(0 .. MaxBadge) /\ tx.burn \in 0 .. MaxBadge
  BY <1>4 DEF Made
<1>12. tx.burn \in Nat /\ SumSeq(tx.amounts) \in Nat /\ tx.amounts \in Seq(Nat)
  <2>1. tx.burn \in Nat
    BY <1>11, MaxBadgeAssumption
  <2>2. SumSeq(tx.amounts) \in Nat
    BY <1>11, WantedNat
  <2>3. 0 .. MaxBadge \subseteq Nat
    BY MaxBadgeAssumption
  <2>4. tx.amounts \in Seq(Nat)
    BY <1>11, <2>3, SeqOfMore
  <2>5. QED
    BY <2>1, <2>2, <2>4
<1>13. W = tx.burn + SumSeq(tx.amounts)
  BY DEF Wanted
<1>14. tx.out = WithChange(tx.amounts, ch)
  <2>1. tx.out = IF Int64(worth - Int64(W)) = 0 THEN tx.amounts ELSE Append(tx.amounts, Int64(worth - Int64(W)))
    BY <1>4, Zenon DEF Made
  <2>2. QED
    BY <1>10, <2>1, Zenon DEF WithChange
<1> HIDE DEF ch, worth, W
<1>15. Sum(tx.out, DOMAIN tx.out) = SumSeq(tx.amounts) + ch
  BY <1>9, <1>12, <1>14, OutShape
<1>16. SumSeq(tx.amounts) + ch <= worth
  BY <1>9, <1>12, <1>13, <1>5 DEF ch
<1>17. Sum(tx.out, DOMAIN tx.out) <= worth
  BY <1>15, <1>16
<1>18. QED
  BY <1>8, <1>9, <1>12, <1>13, <1>14, <1>17 DEF ch, worth, W

(* The vouts go to the receivers, the change back. *)
LEMMA SentTo ==
    ASSUME WalletInv, NEW tx \in built, Broadcast(tx), Wanted(tx) \in 1 .. MaxBadge, NEW A
    PROVE  LET U == NewVout(tx.vins, tx.out)
               S == {p \in U : Receivers(tx)[p.index] \in A}
               ch == FirstWorth(tx.vins, Len(tx.vins)) - Wanted(tx)
           IN  /\ IsFiniteSet(S) /\ \A p \in U : p.value \in Int
               /\ "you" \in A /\ "me" \notin A => SumTxPoints(S) = SumSeq(tx.amounts)
               /\ "you" \notin A /\ "me" \in A => SumTxPoints(S) = ch
<1> DEFINE worth == FirstWorth(tx.vins, Len(tx.vins))
           ch == worth - Wanted(tx)
           vins == tx.vins
           out == tx.out
           to == Receivers(tx)
           U == NewVout(tx.vins, tx.out)
           S == {p \in U : to[p.index] \in A}
           L == Len(tx.amounts)
           E == ChangeAt(tx.amounts, ch)
<1>1. Adds(vins, out, to, tx.code)
  BY BroadcastAdds DEF Receivers
<1>2. Takes(vins, tx.code) /\ out \in Seq(0 .. MaxBadge)
  BY <1>1 DEF Adds
<1>3. PointInv /\ SumInv /\ OwnerInv
  BY DEF WalletInv
<1>4. /\ ch \in Nat /\ Len(vins) # 0 /\ tx.amounts \in Seq(Nat)
      /\ out = WithChange(tx.amounts, ch)
      /\ Sum(out, DOMAIN out) <= worth
  BY ChangeIs
<1> HIDE DEF ch
<1>5. /\ L \in Nat /\ DOMAIN out = (1 .. L) \cup E /\ (1 .. L) \cap E = {}
      /\ Sum(out, 1 .. L) = SumSeq(tx.amounts)
      /\ Sum(out, E) = ch
  <2>1. tx.amounts \in Seq(Nat) /\ ch \in Nat /\ out = WithChange(tx.amounts, ch)
    BY <1>4
  <2> DEFINE a == tx.amounts
  <2>2. a \in Seq(Nat) /\ ch \in Nat /\ out = WithChange(a, ch)
    BY <2>1
  <2> HIDE DEF out, a
  <2>3. /\ Len(a) \in Nat /\ DOMAIN out = (1 .. Len(a)) \cup ChangeAt(a, ch)
        /\ (1 .. Len(a)) \cap ChangeAt(a, ch) = {}
        /\ Sum(out, 1 .. Len(a)) = SumSeq(a)
        /\ Sum(out, ChangeAt(a, ch)) = ch
    BY <2>2, OutShape
  <2>4. QED
    BY <2>3 DEF a
<1>6. \A i \in DOMAIN out : to[i] = IF i <= L THEN "you" ELSE "me"
  BY DEF Receivers
<1>7. (\A i \in 1 .. L : to[i] = "you") /\ (\A i \in E : to[i] = "me")
  <2>1. \A i \in 1 .. L : i <= L /\ i \in DOMAIN out
    BY <1>5
  <2>2. \A i \in E : ~(i <= L) /\ i \in DOMAIN out
    BY <1>5 DEF ChangeAt
  <2> HIDE DEF E, L, to, out
  <2>3. QED
    BY <1>6, <2>1, <2>2
<1>8. \A p \in U : p.index \in DOMAIN out
  BY <1>2, <1>3, NewVoutFacts
<1> HIDE DEF U, E, L, to
<1>9. ASSUME NEW D \in SUBSET DOMAIN out, \A p \in U : to[p.index] \in A <=> p.index \in D
      PROVE  SumTxPoints(S) = Sum(out, D) /\ IsFiniteSet(S)
  <2> DEFINE P == {p \in U : p.index \in D}
  <2>1. S = P
    BY <1>9
  <2>2. SumTxPoints(P) = Sum(out, D) /\ IsFiniteSet(P)
    <3>1. Sum(out, DOMAIN out) <= FirstWorth(vins, Len(vins)) /\ Len(vins) # 0
      BY <1>4
    <3>2. QED
      BY <1>2, <1>3, <3>1, VoutsWorth DEF U
  <2> HIDE DEF P, S
  <2>3. QED
    BY <2>1, <2>2
<1>10. \A p \in U : p.value \in Int
  <2>1. \A p \in U : p.value \in 0 .. MaxBadge
    BY <1>2, <1>3, NewVoutFacts DEF U
  <2>2. QED
    BY <2>1
<1>11. IsFiniteSet(S)
  <2>1. IsFiniteSet(U)
    BY <1>2, <1>3, NewVoutFacts DEF U
  <2>2. S \subseteq U
    OBVIOUS
  <2> HIDE DEF S
  <2>3. QED
    BY <2>1, <2>2, FS_Subset
<1>12. ASSUME "you" \in A, "me" \notin A PROVE SumTxPoints(S) = SumSeq(tx.amounts)
  <2> DEFINE D == 1 .. L
  <2>1. D \in SUBSET DOMAIN out
    BY <1>5
  <2>2. \A p \in U : to[p.index] \in A <=> p.index \in D
    <3> HIDE DEF D
    <3>1. DOMAIN out = D \cup E /\ (\A i \in D : to[i] = "you") /\ (\A i \in E : to[i] = "me")
      BY <1>5, <1>7 DEF D
    <3>2. QED
      BY <1>8, <1>12, <3>1, Zenon
  <2> HIDE DEF D, S
  <2>3. SumTxPoints(S) = Sum(out, D)
    BY <1>9, <2>1, <2>2
  <2>4. QED
    BY <1>5, <2>3 DEF D
<1>13. ASSUME "you" \notin A, "me" \in A PROVE SumTxPoints(S) = ch
  <2>1. E \in SUBSET DOMAIN out
    BY <1>5
  <2>2. \A p \in U : to[p.index] \in A <=> p.index \in E
    BY <1>5, <1>7, <1>8, <1>13, Zenon
  <2> HIDE DEF S
  <2>3. SumTxPoints(S) = Sum(out, E)
    BY <1>9, <2>1, <2>2
  <2>4. QED
    BY <1>5, <2>3
<1>14. QED
  BY <1>10, <1>11, <1>12, <1>13 DEF ch, S, U, to

(* The balances after a step, by what is left after it. *)
LEMMA BalancesAfter ==
    ASSUME NEW c
    PROVE  (WalletInv => /\ GetAddrBalance("you", c) = SumTxPoints(Mine({"you"}, c))
                         /\ BalanceOf(OwnAddr, c) = SumTxPoints(Mine(OwnAddr, c)))'
<1>1. WalletInv => /\ GetAddrBalance("you", c) = SumTxPoints(Mine({"you"}, c))
                   /\ BalanceOf(OwnAddr, c) = SumTxPoints(Mine(OwnAddr, c))
  <2> SUFFICES ASSUME WalletInv
               PROVE  /\ GetAddrBalance("you", c) = SumTxPoints(Mine({"you"}, c))
                      /\ BalanceOf(OwnAddr, c) = SumTxPoints(Mine(OwnAddr, c))
    OBVIOUS
  <2>1. PointInv /\ SureInv
    BY DEF WalletInv
  <2>2. IsFiniteSet(OwnAddr)
    BY OwnFinite
  <2>3. QED
    BY <2>1, <2>2, BalanceIs, BalanceOfMine
<1>2. QED
  BY <1>1, PTL

(* The badges at some addresses: what is not taken, and what is sent there. *)
LEMMA MineSumAfter ==
    ASSUME WalletInv, NEW tx \in built, Broadcast(tx), Wanted(tx) \in 1 .. MaxBadge, NEW A
    PROVE  LET c == tx.code
               S == {p \in NewVout(tx.vins, tx.out) : Receivers(tx)[p.index] \in A}
           IN  SumTxPoints(Mine(A, c)') = SumTxPoints(Mine(A, c) \ Taken(tx.vins)) + SumTxPoints(S)
<1> DEFINE c == tx.code
           U == NewVout(tx.vins, tx.out)
           S == {p \in U : Receivers(tx)[p.index] \in A}
           Q == Mine(A, c) \ Taken(tx.vins)
<1>1. Adds(tx.vins, tx.out, Receivers(tx), c)
  BY BroadcastAdds DEF Receivers
<1>2. Takes(tx.vins, c) /\ tx.out \in Seq(0 .. MaxBadge)
  BY <1>1 DEF Adds
<1>3. PointInv /\ SumInv /\ OwnerInv
  BY DEF WalletInv
<1>4. Len(tx.vins) # 0
  BY ChangeIs
<1>5. Mine(A, c)' = Q \cup S
  BY <1>1, <1>3, <1>4, MineAfter
<1>6. IsFiniteSet(S) /\ \A p \in U : p.value \in Int
  BY SentTo
<1>7. \A p \in U : p.txid = n + 1
  BY <1>2, <1>3, NewVoutFacts
<1>8. Q \subseteq txPoint /\ \A p \in Q : p.type = "vout"
  BY DEF Mine, UnspentOf
<1> HIDE DEF U, Q
<1>9. IsFiniteSet(Q) /\ \A p \in Q : p.value \in Int
  BY <1>3, <1>8, VoutsFinite
<1>10. Q \cap S = {}
  <2>1. n \in Nat /\ \A p \in txPoint : p.txid \in 1 .. n
    BY <1>3 DEF PointInv
  <2>2. \A p \in Q : p.txid # n + 1
    BY <1>8, <2>1
  <2>3. QED
    BY <1>7, <2>2
<1>11. \A p \in Q \cup S : p.value \in Int
  BY <1>6, <1>9
<1> HIDE DEF S
<1>12. SumTxPoints(Q \cup S) = SumTxPoints(Q) + SumTxPoints(S)
  BY <1>6, <1>9, <1>10, <1>11, SumUnion
<1>13. SumTxPoints(Mine(A, c)') = SumTxPoints(Q) + SumTxPoints(S)
  BY <1>5, <1>12
<1>14. QED
  BY <1>13 DEF Q, S, U

(* What is taken comes from the own addresses. *)
LEMMA TakenFrom ==
    ASSUME WalletInv, NEW tx \in built, Broadcast(tx)
    PROVE  LET c == tx.code
           IN  /\ Mine({"you"}, c) \ Taken(tx.vins) = Mine({"you"}, c)
               /\ SumTxPoints(Mine(OwnAddr, c))
                    = FirstWorth(tx.vins, Len(tx.vins)) + SumTxPoints(Mine(OwnAddr, c) \ Taken(tx.vins))
               /\ SumTxPoints(Mine(OwnAddr, c) \ Taken(tx.vins)) \in Nat
<1> DEFINE c == tx.code
           R == Taken(tx.vins)
           M == Mine(OwnAddr, c)
           Q == M \ R
           worth == FirstWorth(tx.vins, Len(tx.vins))
<1>1. Takes(tx.vins, c)
  BY BroadcastAdds DEF Adds
<1>2. PointInv /\ BuiltInv
  BY DEF WalletInv
<1>3. \A p \in R : owner[OutPoint(p)] \in OwnAddr
  <2>1. \A j \in 1 .. Len(tx.vins) : owner[OutPoint(tx.vins[j])] \in OwnAddr
    BY <1>2, Zenon DEF BuiltInv
  <2>2. QED
    BY <2>1 DEF Taken
<1>4. R \subseteq UnspentOf(c) /\ SumTxPoints(R) = worth /\ worth \in Nat
  BY <1>1, <1>2, NewVinWorth DEF Taken
<1>5. R \subseteq M
  BY <1>3, <1>4 DEF Mine
<1>6. Mine({"you"}, c) \cap R = {}
  <2>1. "you" \notin OwnAddr
    BY DEF OwnAddr
  <2>2. \A p \in Mine({"you"}, c) : owner[OutPoint(p)] = "you"
    BY DEF Mine
  <2>3. QED
    BY <1>3, <2>1, <2>2
<1>7. M \in SUBSET txPoint /\ \A p \in M : p.type = "vout"
  BY DEF Mine, UnspentOf
<1> HIDE DEF M, R, worth
<1>8. /\ R \in SUBSET txPoint /\ Q \in SUBSET txPoint
      /\ (\A p \in R : p.type = "vout") /\ (\A p \in Q : p.type = "vout")
      /\ R \cap Q = {} /\ M = R \cup Q
  BY <1>5, <1>7
<1> HIDE DEF Q
<1>9. IsFiniteSet(R) /\ \A p \in R : p.value \in Int
  BY <1>2, <1>8, VoutsFinite
<1>10. IsFiniteSet(Q) /\ (\A p \in Q : p.value \in Int) /\ SumTxPoints(Q) \in Nat
  BY <1>2, <1>8, VoutsFinite
<1>11. SumTxPoints(R \cup Q) = SumTxPoints(R) + SumTxPoints(Q)
  <2>1. \A p \in R \cup Q : p.value \in Int
    BY <1>9, <1>10
  <2>2. QED
    BY <1>8, <1>9, <1>10, <2>1, SumUnion
<1>12. SumTxPoints(M) = worth + SumTxPoints(Q)
  BY <1>4, <1>8, <1>11
<1>13. Mine({"you"}, c) \ R = Mine({"you"}, c)
  BY <1>6
<1>14. QED
  BY <1>10, <1>12, <1>13 DEF M, R, Q, worth

(* A transaction pays exactly. *)
LEMMA PaysExactly ==
    ASSUME WalletInv, WalletInv', NEW tx \in built, Broadcast(tx), Wanted(tx) \in 1 .. MaxBadge
    PROVE  /\ GetAddrBalance("you", tx.code)' = GetAddrBalance("you", tx.code) + SumSeq(tx.amounts)
           /\ BalanceOf(OwnAddr, tx.code)' = BalanceOf(OwnAddr, tx.code) - Wanted(tx)
<1> DEFINE c == tx.code
           worth == FirstWorth(tx.vins, Len(tx.vins))
           Y == {"you"}
           SY == {p \in NewVout(tx.vins, tx.out) : Receivers(tx)[p.index] \in Y}
           SO == {p \in NewVout(tx.vins, tx.out) : Receivers(tx)[p.index] \in OwnAddr}
<1>1. PointInv /\ SureInv
  BY DEF WalletInv
<1>2. GetAddrBalance("you", c) = SumTxPoints(Mine(Y, c)) /\ BalanceOf(OwnAddr, c) = SumTxPoints(Mine(OwnAddr, c))
  BY <1>1, OwnFinite, BalanceIs, BalanceOfMine
<1>3. /\ GetAddrBalance("you", c)' = SumTxPoints(Mine(Y, c)')
      /\ BalanceOf(OwnAddr, c)' = SumTxPoints(Mine(OwnAddr, c)')
  BY BalancesAfter
<1>4. worth \in Nat /\ Wanted(tx) \in Nat
  BY ChangeIs, MaxBadgeAssumption
<1>5. /\ Mine(Y, c) \ Taken(tx.vins) = Mine(Y, c)
      /\ SumTxPoints(Mine(OwnAddr, c)) = worth + SumTxPoints(Mine(OwnAddr, c) \ Taken(tx.vins))
      /\ SumTxPoints(Mine(OwnAddr, c) \ Taken(tx.vins)) \in Nat
  BY TakenFrom
<1>6. SumTxPoints(SY) = SumSeq(tx.amounts)
  <2>1. "you" \in Y /\ "me" \notin Y
    OBVIOUS
  <2>2. QED
    BY <2>1, SentTo
<1>7. SumTxPoints(SO) = worth - Wanted(tx)
  <2>1. "you" \notin OwnAddr /\ "me" \in OwnAddr
    BY DEF OwnAddr
  <2>2. QED
    BY <2>1, SentTo
<1>8. SumTxPoints(Mine(Y, c)') = SumTxPoints(Mine(Y, c) \ Taken(tx.vins)) + SumTxPoints(SY)
  BY MineSumAfter
<1>9. SumTxPoints(Mine(OwnAddr, c)') = SumTxPoints(Mine(OwnAddr, c) \ Taken(tx.vins)) + SumTxPoints(SO)
  BY MineSumAfter
<1> HIDE DEF SY, SO, worth
<1>10. GetAddrBalance("you", c)' = GetAddrBalance("you", c) + SumSeq(tx.amounts)
  BY <1>2, <1>3, <1>5, <1>6, <1>8
<1>11. BalanceOf(OwnAddr, c)' = BalanceOf(OwnAddr, c) - Wanted(tx)
  BY <1>2, <1>3, <1>4, <1>5, <1>7, <1>9
<1>12. QED
  BY <1>10, <1>11

(* When the chain takes a transaction of SendBadgeToAddress, the receiver  *)
(* has the amounts more and the sender what was wanted less: the change    *)
(* comes back, and nothing overflows.                                      *)
THEOREM SendsHold == Spec => SendsExactly
<1> DEFINE Exactly(tx) ==
              /\ GetAddrBalance("you", tx.code)' = GetAddrBalance("you", tx.code) + SumSeq(tx.amounts)
              /\ BalanceOf(OwnAddr, tx.code)' = BalanceOf(OwnAddr, tx.code) - Wanted(tx)
           Step == \A tx \in built \ built' : n' # n /\ Wanted(tx) \in 1 .. MaxBadge => Exactly(tx)
<1>1. WalletInv /\ WalletInv' /\ [Next]_vars => [Step]_vars
  <2> SUFFICES ASSUME WalletInv, WalletInv', Next PROVE Step
    OBVIOUS
  <2> SUFFICES ASSUME NEW tx \in built \ built', n' # n, Wanted(tx) \in 1 .. MaxBadge PROVE Exactly(tx)
    OBVIOUS
  <2>1. Broadcast(tx)
    <3>1. \A out \in Issues : ~Issue(out)
      BY DEF Issue
    <3>2. \A addr \in OwnAddr, u \in User : ~SetAddrInfo(addr, u)
      BY DEF SetAddrInfo
    <3>3. \A c \in 1 .. n, amounts \in Amounts, burn \in Burns : ~SendBadgeToAddress(c, amounts, burn)
      BY DEF SendBadgeToAddress
    <3>4. \A p \in txPoint : ~SetVoutSpent(p) /\ ~SetVinSpent(p)
      BY DEF SetVoutSpent, SetVinSpent
    <3>5. \A ty \in built : ~Forget(ty) /\ (Broadcast(ty) => ty = tx)
      BY DEF Forget, Broadcast
    <3>6. QED
      BY <3>1, <3>2, <3>3, <3>4, <3>5, Zenon DEF Next
  <2>2. QED
    BY <2>1, PaysExactly
<1>2. SendsExactly <=> [][Step]_vars
  BY DEF SendsExactly
<1> HIDE DEF Step
<1>3. QED
  BY <1>1, <1>2, WalletInvariance, PTL DEF Spec

-----------------------------------------------------------------------------
(* Pages. *)

(* The points of P that come before p. *)
Prior(P, p) == {q \in P : Less(q, p)}

(* Points that differ in txid or index. *)
Distinct(P) ==
    /\ IsFiniteSet(P)
    /\ \A p \in P : p.txid \in Int /\ p.index \in Int
    /\ \A p, q \in P : p.txid = q.txid /\ p.index = q.index => p = q

(* How many come before p: fewer than there are, and a different number    *)
(* for each.                                                               *)
LEMMA PriorCount ==
    ASSUME NEW P, Distinct(P)
    PROVE  /\ Cardinality(P) \in Nat
           /\ \A p \in P : Cardinality(Prior(P, p)) \in 0 .. Cardinality(P) - 1
           /\ \A p, q \in P : Cardinality(Prior(P, p)) = Cardinality(Prior(P, q)) => p = q
<1>1. IsFiniteSet(P) /\ Cardinality(P) \in Nat
  BY FS_CardinalityType DEF Distinct
<1>2. \A p \in P : /\ Prior(P, p) \subseteq P \ {p}
                   /\ IsFiniteSet(Prior(P, p)) /\ Cardinality(Prior(P, p)) \in Nat
  <2>1. \A p \in P : Prior(P, p) \subseteq P \ {p}
    BY DEF Prior, Less, Distinct
  <2>2. \A p \in P : Prior(P, p) \in SUBSET P
    BY DEF Prior
  <2>3. \A p \in P : IsFiniteSet(Prior(P, p))
    BY <1>1, <2>2, FS_Subset
  <2>4. QED
    BY <2>1, <2>3, FS_CardinalityType
<1>3. ASSUME NEW p \in P PROVE Cardinality(Prior(P, p)) \in 0 .. Cardinality(P) - 1
  <2>1. IsFiniteSet(P \ {p}) /\ Cardinality(P \ {p}) = Cardinality(P) - 1
    BY <1>1, FS_RemoveElement
  <2>2. Cardinality(Prior(P, p)) <= Cardinality(P \ {p})
    BY <1>2, <2>1, FS_Subset
  <2>3. QED
    BY <1>1, <1>2, <2>1, <2>2
<1>4. ASSUME NEW p \in P, NEW q \in P, Less(p, q)
      PROVE  Cardinality(Prior(P, p)) < Cardinality(Prior(P, q))
  <2>1. Prior(P, p) \cup {p} \subseteq Prior(P, q)
    BY <1>4 DEF Prior, Less, Distinct
  <2>2. /\ IsFiniteSet(Prior(P, p)) /\ p \notin Prior(P, p)
        /\ IsFiniteSet(Prior(P, q)) /\ Cardinality(Prior(P, q)) \in Nat
    BY <1>2
  <2>3. Cardinality(Prior(P, p) \cup {p}) = Cardinality(Prior(P, p)) + 1
    BY <2>2, FS_AddElement
  <2>4. Cardinality(Prior(P, p) \cup {p}) <= Cardinality(Prior(P, q))
    BY <2>1, <2>2, FS_Subset
  <2>5. QED
    BY <1>2, <2>3, <2>4
<1>5. ASSUME NEW p \in P, NEW q \in P, Cardinality(Prior(P, p)) = Cardinality(Prior(P, q))
      PROVE  p = q
  <2>1. ~Less(p, q) /\ ~Less(q, p)
    BY <1>2, <1>4, <1>5
  <2>2. p.txid \in Int /\ p.index \in Int /\ q.txid \in Int /\ q.index \in Int
    BY DEF Distinct
  <2>3. p.txid = q.txid /\ p.index = q.index
    BY <2>1, <2>2 DEF Less
  <2>4. QED
    BY <2>3 DEF Distinct
<1>6. QED
  BY <1>1, <1>3, <1>5

(* Sorting finds a place for every point. *)
LEMMA SortedIs ==
    ASSUME NEW P, Distinct(P)
    PROVE  LET N == Cardinality(P)
               s == SortTxPoints(P)
           IN  /\ N \in Nat /\ s \in [1 .. N -> P]
               /\ \A x, y \in 1 .. N : s[x] = s[y] => x = y
               /\ \A p \in P : \E x \in 1 .. N : s[x] = p
<1> DEFINE N == Cardinality(P)
           T == 0 .. N - 1
           s == SortTxPoints(P)
           f == [p \in P |-> Cardinality(Prior(P, p))]
<1>1. N \in Nat /\ IsFiniteSet(P)
  BY PriorCount DEF Distinct
<1>2. /\ \A p \in P : f[p] = Cardinality(Prior(P, p)) /\ f[p] \in T
      /\ \A p, q \in P : f[p] = f[q] => p = q
      /\ f \in [P -> T]
  BY PriorCount
<1>3. s = [i \in 1 .. N |-> CHOOSE p \in P : Cardinality(Prior(P, p)) = i - 1]
  BY DEF SortTxPoints, Prior
<1> HIDE DEF s, f
<1>4. IsFiniteSet(T) /\ Cardinality(T) = N
  <2>1. 0 \in Int /\ N - 1 \in Int
    BY <1>1
  <2>2. IsFiniteSet(0 .. N - 1) /\ Cardinality(0 .. N - 1) = IF 0 > N - 1 THEN 0 ELSE (N - 1) - 0 + 1
    BY <2>1, FS_Interval
  <2>3. QED
    BY <1>1, <2>2
<1> HIDE DEF T
<1>5. \A x \in T : \E p \in P : f[p] = x
  <2>1. f \in Injection(P, T)
    BY <1>2 DEF Injection, IsInjective
  <2>2. f \in Surjection(P, T)
    BY <1>4, <2>1, FS_Injection DEF N
  <2>3. QED
    BY <2>2 DEF Surjection
<1>6. ASSUME NEW i \in 1 .. N PROVE s[i] \in P /\ f[s[i]] = i - 1
  <2>1. i - 1 \in T
    BY <1>1 DEF T
  <2>2. \E p \in P : Cardinality(Prior(P, p)) = i - 1
    BY <1>2, <1>5, <2>1
  <2>3. s[i] = CHOOSE p \in P : Cardinality(Prior(P, p)) = i - 1
    BY <1>3
  <2>4. s[i] \in P /\ Cardinality(Prior(P, s[i])) = i - 1
    BY <2>2, <2>3
  <2>5. QED
    BY <1>2, <2>4
<1>7. s \in [1 .. N -> P]
  BY <1>3, <1>6
<1>8. \A x, y \in 1 .. N : s[x] = s[y] => x = y
  BY <1>1, <1>6
<1>9. ASSUME NEW p \in P PROVE \E x \in 1 .. N : s[x] = p
  <2>1. f[p] \in 0 .. N - 1
    BY <1>2 DEF T
  <2>2. f[p] + 1 \in 1 .. N /\ (f[p] + 1) - 1 = f[p]
    BY <1>1, <2>1
  <2>3. s[f[p] + 1] \in P /\ f[s[f[p] + 1]] = f[p]
    BY <1>6, <2>2
  <2>4. QED
    BY <1>2, <2>2, <2>3
<1>10. QED
  BY <1>1, <1>7, <1>8, <1>9 DEF s

(* A page shows the points from offset on, at most limit of them. *)
LEMMA PageIs ==
    ASSUME NEW P, Distinct(P), NEW offset \in Nat, NEW limit \in Nat \ {0}
    PROVE  LET N == Cardinality(P)
               s == SortTxPoints(P)
               page == PageTxPoints(P, offset, limit)
           IN  /\ \A k : k \in DOMAIN page <=> k \in 1 .. limit /\ offset + k <= N
               /\ \A k \in DOMAIN page : page[k] = s[offset + k]
<1> DEFINE N == Cardinality(P)
           s == SortTxPoints(P)
           page == PageTxPoints(P, offset, limit)
<1>1. N \in Nat /\ s \in [1 .. N -> P]
  BY SortedIs
<1>2. s \in Seq(P) /\ Len(s) = N
  <2> HIDE DEF s, N
  <2>1. QED
    BY <1>1
<1>3. page = IF Len(s) <= offset THEN <<>>
             ELSE IF Len(s) < limit + offset THEN SubSeq(s, offset + 1, Len(s))
             ELSE SubSeq(s, offset + 1, limit + offset)
  BY Zenon DEF PageTxPoints
<1> HIDE DEF s, N, page
<1>4. ASSUME NEW m \in Nat, offset + 1 <= m, m <= N
      PROVE  /\ DOMAIN SubSeq(s, offset + 1, m) = 1 .. m - offset
             /\ \A k \in 1 .. m - offset : SubSeq(s, offset + 1, m)[k] = s[offset + k]
  BY <1>1, <1>2, <1>4
<1> DEFINE Goal == /\ \A k : k \in DOMAIN page <=> k \in 1 .. limit /\ offset + k <= N
                   /\ \A k \in DOMAIN page : page[k] = s[offset + k]
<1>5. ASSUME N <= offset PROVE Goal
  <2>1. page = <<>>
    BY <1>2, <1>3, <1>5, Zenon
  <2>2. \A k \in 1 .. limit : ~(offset + k <= N)
    BY <1>1, <1>5
  <2>3. QED
    BY <2>1, <2>2
<1>6. ASSUME N > offset, N < limit + offset PROVE Goal
  <2>1. page = SubSeq(s, offset + 1, N)
    BY <1>1, <1>2, <1>3, <1>6
  <2>2. offset + 1 <= N
    BY <1>1, <1>6
  <2>3. DOMAIN page = 1 .. N - offset /\ \A k \in 1 .. N - offset : page[k] = s[offset + k]
    BY <1>1, <1>4, <2>1, <2>2
  <2>4. \A k : k \in 1 .. N - offset <=> k \in 1 .. limit /\ offset + k <= N
    BY <1>1, <1>6
  <2>5. QED
    BY <2>3, <2>4
<1>7. ASSUME N >= limit + offset PROVE Goal
  <2>1. page = SubSeq(s, offset + 1, limit + offset)
    BY <1>1, <1>2, <1>3, <1>7
  <2>2. limit + offset \in Nat /\ offset + 1 <= limit + offset /\ (limit + offset) - offset = limit
    OBVIOUS
  <2>3. DOMAIN page = 1 .. limit /\ \A k \in 1 .. limit : page[k] = s[offset + k]
    BY <1>4, <1>7, <2>1, <2>2
  <2>4. \A k : k \in 1 .. limit <=> k \in 1 .. limit /\ offset + k <= N
    BY <1>1, <1>7
  <2>5. QED
    BY <2>3, <2>4
<1>8. Goal
  <2>1. N <= offset \/ (N > offset /\ N < limit + offset) \/ N >= limit + offset
    BY <1>1
  <2> HIDE DEF Goal
  <2>2. QED
    BY <1>5, <1>6, <1>7, <2>1
<1>9. QED
  BY <1>8 DEF s, N, page

(* Every place lies on one page. *)
LEMMA OnPage ==
    ASSUME NEW limit \in Nat \ {0}, NEW x \in Nat \ {0}
    PROVE  \E i \in 1 .. x : \E k \in 1 .. limit : x = (i - 1) * limit + k
<1> DEFINE T == {i \in Nat : x <= i * limit}
<1>1. x \in T
  BY DEF T
<1>2. PICK i \in T : \A j \in T : i <= j
  <2> HIDE DEF T
  <2>1. T \in SUBSET Nat
    BY DEF T
  <2>2. QED
    BY <1>1, <2>1, NatLeast
<1>3. i \in Nat /\ x <= i * limit /\ i <= x
  BY <1>1, <1>2
<1>4. i # 0
  BY <1>3
<1>5. i - 1 \in Nat /\ i - 1 \notin T
  BY <1>2, <1>3, <1>4
<1>6. (i - 1) * limit < x /\ i * limit = (i - 1) * limit + limit /\ (i - 1) * limit \in Nat
  BY <1>3, <1>5
<1> DEFINE o == (i - 1) * limit
           k == x - o
<1>7. k \in 1 .. limit /\ x = o + k
  <2>1. o \in Nat /\ o < x /\ x <= o + limit
    BY <1>3, <1>6
  <2> HIDE DEF o
  <2>2. QED
    BY <2>1
<1>8. i \in 1 .. x
  BY <1>3, <1>4
<1>9. QED
  BY <1>7, <1>8

(* ... and on no other. *)
LEMMA PageOnce ==
    ASSUME NEW limit \in Nat \ {0}, NEW i \in Nat \ {0}, NEW j \in Nat \ {0},
           NEW k \in 1 .. limit, NEW m \in 1 .. limit,
           (i - 1) * limit + k = (j - 1) * limit + m
    PROVE  i = j /\ k = m
<1>1. ASSUME NEW a \in Nat \ {0}, NEW b \in Nat \ {0}, a < b PROVE (b - 1) * limit >= (a - 1) * limit + limit
  <2> DEFINE d == b - 1 - a
  <2>1. d \in Nat /\ b - 1 = (a - 1) + 1 + d /\ a - 1 \in Nat
    BY <1>1
  <2>2. ((a - 1) + 1 + d) * limit = (a - 1) * limit + limit + d * limit /\ d * limit \in Nat /\ (a - 1) * limit \in Nat
    <3> HIDE DEF d
    <3>1. QED
      BY <2>1
  <2>3. QED
    BY <2>1, <2>2
<1> DEFINE o == (i - 1) * limit
           u == (j - 1) * limit
<1>2. o \in Nat /\ u \in Nat /\ o + k = u + m /\ (i < j => u >= o + limit) /\ (j < i => o >= u + limit)
  <2>1. o \in Nat /\ u \in Nat
    OBVIOUS
  <2>2. QED
    BY <1>1, <2>1
<1>3. i = j
  <2> HIDE DEF o, u
  <2>1. QED
    BY <1>2
<1>4. QED
  BY <1>2, <1>3

(* What is left at some addresses can be sorted. *)
LEMMA MineDistinct ==
    ASSUME PointInv, OwnerInv, NEW addrs, NEW c
    PROVE  Distinct(Mine(addrs, c))
<1> DEFINE P == Mine(addrs, c)
<1>1. IsFiniteSet(P)
  BY MineFacts
<1>2. \A p \in P : p \in txPoint /\ p.type = "vout"
  BY DEF Mine, UnspentOf
<1> HIDE DEF P
<1>3. \A p \in P : OutPoint(p) \in DOMAIN owner
  BY <1>2 DEF PointInv
<1>4. \A p : OutPoint(p)[1] = p.txid /\ OutPoint(p)[2] = p.index
  BY DEF OutPoint
<1>5. \A o \in DOMAIN owner : o[1] \in 1 .. n /\ o[2] \in Nat
  BY DEF OwnerInv
<1>6. \A p \in P : p.txid \in Int /\ p.index \in Int
  <2> SUFFICES ASSUME NEW p \in P PROVE p.txid \in Int /\ p.index \in Int
    OBVIOUS
  <2>1. OutPoint(p)[1] \in 1 .. n /\ OutPoint(p)[2] \in Nat
    BY <1>3, <1>5
  <2>2. p.txid \in 1 .. n /\ p.index \in Nat
    BY <1>4, <2>1
  <2>3. QED
    BY <2>2
<1>7. ASSUME NEW p \in P, NEW q \in P, p.txid = q.txid, p.index = q.index PROVE p = q
  <2>1. OutPoint(p) = OutPoint(q)
    BY <1>7 DEF OutPoint
  <2>2. QED
    BY <1>2, <2>1, Zenon DEF PointInv
<1>8. QED
  BY <1>1, <1>6, <1>7 DEF Distinct, P

(* GetAddrUtxos, asked for one page after the other, shows every utxo      *)
(* once: pages neither overlap nor leave a gap, whatever their size.       *)
THEOREM PagesHold == Spec => []PagesCover
<1>1. WalletInv => PagesCover
  <2> SUFFICES ASSUME WalletInv, NEW addr \in Addr, NEW c \in 1 .. n,
                      NEW limit \in 1 .. Cardinality(CalculateUtxos(MayBeUnspent(addr, c))) + 1
               PROVE  LET utxos == CalculateUtxos(MayBeUnspent(addr, c))
                          page == [i \in 1 .. Cardinality(utxos) + 1 |->
                                     PageTxPoints(utxos, (i - 1) * limit, limit)]
                      IN  /\ \A p \in utxos : \E i \in DOMAIN page : \E k \in DOMAIN page[i] : page[i][k] = p
                          /\ \A i, j \in DOMAIN page : \A k \in DOMAIN page[i], m \in DOMAIN page[j] :
                                page[i][k] \in utxos /\ (page[i][k] = page[j][m] => i = j /\ k = m)
    BY Zenon DEF PagesCover
  <2> DEFINE U == CalculateUtxos(MayBeUnspent(addr, c))
             N == Cardinality(U)
             s == SortTxPoints(U)
             at(i) == PageTxPoints(U, (i - 1) * limit, limit)
             page == [i \in 1 .. N + 1 |-> at(i)]
  <2>1. Distinct(U)
    <3>1. PointInv /\ SureInv /\ OwnerInv
      BY DEF WalletInv
    <3>2. MayBeUnspent(addr, c) = UNION {MayBeUnspent(a, c) : a \in {addr}}
      OBVIOUS
    <3>3. CalculateUtxos(UNION {MayBeUnspent(a, c) : a \in {addr}}) = Mine({addr}, c)
      BY <3>1, JoinedUtxos
    <3>4. QED
      BY <3>1, <3>2, <3>3, MineDistinct
  <2> HIDE DEF U
  <2>2. /\ N \in Nat /\ s \in [1 .. N -> U]
        /\ \A x, y \in 1 .. N : s[x] = s[y] => x = y
        /\ \A p \in U : \E x \in 1 .. N : s[x] = p
    BY <2>1, SortedIs
  <2>3. limit \in Nat \ {0}
    <3>1. limit \in 1 .. N + 1
      BY DEF U
    <3>2. QED
      BY <2>2, <3>1
  <2>4. \A i \in 1 .. N + 1 : (i - 1) * limit \in Nat
    BY <2>2, <2>3
  <2>5. ASSUME NEW i \in 1 .. N + 1
        PROVE  /\ \A k : k \in DOMAIN at(i) <=> k \in 1 .. limit /\ (i - 1) * limit + k <= N
               /\ \A k \in DOMAIN at(i) : at(i)[k] = s[(i - 1) * limit + k]
    <3> DEFINE o == (i - 1) * limit
    <3>1. o \in Nat
      BY <2>4
    <3> HIDE DEF o
    <3>2. /\ \A k : k \in DOMAIN PageTxPoints(U, o, limit) <=> k \in 1 .. limit /\ o + k <= N
          /\ \A k \in DOMAIN PageTxPoints(U, o, limit) : PageTxPoints(U, o, limit)[k] = s[o + k]
      BY <2>1, <2>3, <3>1, PageIs
    <3>3. QED
      BY <3>2 DEF o
  <2>6. DOMAIN page = 1 .. N + 1 /\ \A i \in 1 .. N + 1 : page[i] = at(i)
    OBVIOUS
  <2> HIDE DEF at, page
  <2>7. ASSUME NEW p \in U
        PROVE  \E i \in DOMAIN page : \E k \in DOMAIN page[i] : page[i][k] = p
    <3> HIDE DEF N, s
    <3>1. PICK x \in 1 .. N : s[x] = p
      BY <2>2
    <3>2. x \in Nat \ {0}
      BY <2>2
    <3>3. PICK i \in 1 .. x : \E k \in 1 .. limit : x = (i - 1) * limit + k
      BY <2>3, <3>2, OnPage
    <3>4. PICK k \in 1 .. limit : x = (i - 1) * limit + k
      BY <3>3
    <3>5. i \in 1 .. N + 1 /\ x <= N
      BY <2>2, <3>2
    <3> DEFINE o == (i - 1) * limit
    <3>6. o + k <= N /\ s[o + k] = p
      BY <3>1, <3>4, <3>5
    <3>7. k \in DOMAIN at(i) /\ at(i)[k] = s[o + k]
      BY <2>5, <3>5, <3>6
    <3>8. QED
      BY <2>6, <3>5, <3>6, <3>7
  <2>8. ASSUME NEW i \in DOMAIN page, NEW j \in DOMAIN page,
               NEW k \in DOMAIN page[i], NEW m \in DOMAIN page[j]
        PROVE  page[i][k] \in U /\ (page[i][k] = page[j][m] => i = j /\ k = m)
    <3> HIDE DEF N, s
    <3> DEFINE o == (i - 1) * limit
               u == (j - 1) * limit
    <3>1. i \in 1 .. N + 1 /\ j \in 1 .. N + 1 /\ page[i] = at(i) /\ page[j] = at(j)
      BY <2>6
    <3>2. /\ k \in 1 .. limit /\ o + k <= N /\ page[i][k] = s[o + k]
          /\ m \in 1 .. limit /\ u + m <= N /\ page[j][m] = s[u + m]
      BY <2>5, <3>1
    <3>3. o \in Nat /\ u \in Nat
      BY <2>4, <3>1
    <3>4. o + k \in 1 .. N /\ u + m \in 1 .. N
      <4> HIDE DEF o, u
      <4>1. QED
        BY <2>2, <2>3, <3>2, <3>3
    <3>5. page[i][k] \in U
      BY <2>2, <3>2, <3>4
    <3>6. ASSUME page[i][k] = page[j][m] PROVE i = j /\ k = m
      <4>1. o + k = u + m
        <5> HIDE DEF o, u
        <5>1. QED
          BY <2>2, <3>2, <3>4, <3>6
      <4>2. i \in Nat \ {0} /\ j \in Nat \ {0}
        BY <2>2, <3>1
      <4>3. QED
        BY <2>3, <3>2, <4>1, <4>2, PageOnce
    <3>7. QED
      BY <3>5, <3>6
  <2>9. QED
    BY <2>7, <2>8 DEF page, at, U, N
<1>2. QED
  BY <1>1, WalletInvariance, PTL
=============================================================================
