------------------------------- MODULE Wallet --------------------------------
(***************************************************************************)
(* The queries of a node and SendBadgeToAddress, on top of a tx_point      *)
(* collection that ParseMsgTx fills and SetSpent marks.  A transaction is  *)
(* built from the utxos of one moment and broadcast at a later one, when   *)
(* others may have spent them.                                             *)
(*                                                                         *)
(* The addresses "me" and "my" are given to users, and may be moved from   *)
(* one to the other at any time; "you" is the address of somebody else.    *)
(* The address of a point is that of its vout (ParseMsgTx copies it to the *)
(* vin point), so it is kept per outpoint.  A txid is a number and stands  *)
(* for the timestamp as well.                                              *)
(***************************************************************************)
EXTENDS BadgeRules, Sequences, SequencesExt

CONSTANTS
    MaxTx,     \* bound on the number of transactions
    MaxSends,  \* bound on the number of calls of SendBadgeToAddress
    User,      \* the users, by appid, userid and user_index
    Sender,    \* the one who calls SendBadgeToAddress
    Issues,    \* the badge values of the vouts of an issuance
    Amounts,   \* the amounts a user may ask to send
    Burns      \* the values of amount2burn

ASSUME WalletAssumption ==
    /\ {MaxTx, MaxSends} \subseteq Nat
    /\ IsFiniteSet(User) /\ Sender \in User
    /\ Issues \cup Amounts \subseteq Seq(0 .. MaxBadge)
    /\ Burns \subseteq 0 .. MaxBadge

VARIABLES
    n,         \* the number of transactions so far; txids are 1 .. n
    addrInfo,  \* the documents of the addr_info collection
    owner,     \* the address of an outpoint
    txPoint,   \* the tx_point collection
    sure,      \* the points in TX_POINT_STATE_PRETTY_SURE_SPENT
    built,     \* transactions built and not yet broadcast or given up
    sends      \* number of calls of SendBadgeToAddress so far

vars == <<n, addrInfo, owner, txPoint, sure, built, sends>>

OwnAddr == {"me", "my"}
Addr == OwnAddr \cup {"you"}
AddrOf(p) == IF p.type = "vout" THEN owner[<<p.txid, p.index>>] ELSE owner[p.pre]
OutPoint(p) == <<p.txid, p.index>>

-----------------------------------------------------------------------------
(* Queries *)

(* GetTxPointsByAddr, for TX_POINT_STATE_ALL and for _MAY_BE_UNSPENT. *)
AllPoints(addr, c) == {p \in txPoint : p.code = c /\ AddrOf(p) = addr}
MayBeUnspent(addr, c) == AllPoints(addr, c) \ sure

(* GetUserTxPoints joins addr_info with tx_point by the address. *)
GetUserTxPoints(u, c) ==
    UNION {MayBeUnspent(d.addr, c) : d \in {e \in addrInfo : e.user = u}}

(* Mutant: a vin is taken for what it creates, not for what it spends. *)
CalculateUtxosOwnKey(points) ==
    LET spentUtxoSet == {OutPoint(p) : p \in {q \in points : q.type = "vin"}}
    IN  {p \in points : p.type = "vout" /\ OutPoint(p) \notin spentUtxoSet}

CalculateUtxos(points) ==
    LET spentUtxoSet == {p.pre : p \in {q \in points : q.type = "vin"}}
    IN  {p \in points : p.type = "vout" /\ OutPoint(p) \notin spentUtxoSet}

GetAddrBalance(addr, c) == SumTxPoints(CalculateUtxos(MayBeUnspent(addr, c)))

GetAllUserUtxos(u, c) == CalculateUtxos(GetUserTxPoints(u, c))
GetUserBalance(u, c) == SumTxPoints(GetAllUserUtxos(u, c))

(* One inventory per transaction, with the sum of its points. *)
TxPoints2AddrInventory(points) ==
    {[txid |-> t, value |-> SumTxPoints({p \in points : p.txid = t})]
       : t \in {p.txid : p \in points}}

(* Less compares timestamps; the order of what is equal is some fixed one. *)
Less(p, q) == p.txid < q.txid \/ (p.txid = q.txid /\ p.index < q.index)

(* sort.Sort: the place of a point is the number of those before it. *)
SortTxPoints(points) ==
    [i \in 1 .. Cardinality(points) |->
        CHOOSE p \in points : Cardinality({q \in points : Less(q, p)}) = i - 1]

(* Mutant: the last element of a full page is cut off. *)
PageTxPointsShort(points, offset, limit) ==
    LET s == SortTxPoints(points)
    IN  IF Len(s) <= offset THEN <<>>
        ELSE IF Len(s) < limit + offset THEN SubSeq(s, offset + 1, Len(s))
        ELSE SubSeq(s, offset + 1, limit + offset - 1)

PageTxPoints(points, offset, limit) ==
    LET s == SortTxPoints(points)
    IN  IF Len(s) <= offset THEN <<>>
        ELSE IF Len(s) < limit + offset THEN SubSeq(s, offset + 1, Len(s))
        ELSE SubSeq(s, offset + 1, limit + offset)

-----------------------------------------------------------------------------
(* SendBadgeToAddress *)

SumSeq(s) == FoldSeq(LAMBDA a, b : a + b, 0, s)

(* voutValue; an amount is an int64 that is not negative. *)
VoutValue(amounts, burn) == Int64(burn + SumSeq(amounts))

(* Mutant: the loop goes on when the vins are just enough. *)
UsedVinsMore(order, voutValue) ==
    LET vinValue(k) == SumSeq([j \in 1 .. k |-> order[j].value])
        enough == {k \in 0 .. Len(order) : vinValue(k) > voutValue}
    IN  IF enough = {} THEN Len(order) ELSE Min(enough)

(* The loop over the utxos, in the order the database returns them: how    *)
(* many of them become vins.                                               *)
UsedVins(order, voutValue) ==
    LET vinValue(k) == SumSeq([j \in 1 .. k |-> order[j].value])
        enough == {k \in 0 .. Len(order) : vinValue(k) >= voutValue}
    IN  IF enough = {} THEN Len(order) ELSE Min(enough)

(* Mutant: the change is not given back. *)
SendableNoChange(order, amounts, burn, c) ==
    LET voutValue == VoutValue(amounts, burn)
        vins == SubSeq(order, 1, UsedVins(order, voutValue))
        change == Int64(SumSeq([j \in DOMAIN vins |-> vins[j].value]) - voutValue)
    IN  {[vins |-> vins, amounts |-> amounts, burn |-> burn, code |-> c, out |-> amounts]
           : ok \in {x \in {change} : x >= 0}}

(* The transactions SendBadgeToAddress may return: none if the badges are  *)
(* not enough.  The change is the last vout.                               *)
Sendable(order, amounts, burn, c) ==
    LET voutValue == VoutValue(amounts, burn)
        vins == SubSeq(order, 1, UsedVins(order, voutValue))
        change == Int64(SumSeq([j \in DOMAIN vins |-> vins[j].value]) - voutValue)
    IN  {[vins |-> vins, amounts |-> amounts, burn |-> burn, code |-> c,
          out |-> IF change = 0 THEN amounts ELSE Append(amounts, change)]
           : ok \in {x \in {change} : x >= 0}}

-----------------------------------------------------------------------------
Init ==
    /\ n = 0
    /\ addrInfo = {}
    /\ owner = [o \in {} |-> "me"]
    /\ txPoint = {}
    /\ sure = {}
    /\ built = {}
    /\ sends = 0

(* The vins and vouts that ParseMsgTx makes of transaction n + 1, whose    *)
(* i-th vout goes to to[i].                                                *)
AddTxPoints(vins, out, to) ==
    LET new == {VinPoint(n + 1, j, vins[j]) : j \in DOMAIN vins}
    IN  /\ n' = n + 1
        /\ txPoint' = txPoint \cup new \cup ParseVouts(n + 1, out, new)
        /\ owner' = [o \in DOMAIN owner \cup {<<n + 1, i>> : i \in DOMAIN out} |->
                       IF o \in DOMAIN owner THEN owner[o] ELSE to[o[2]]]
        /\ UNCHANGED <<addrInfo, sure, sends>>

(* The vouts of an issuance go to the two addresses in turn. *)
Issue(out) ==
    /\ n < MaxTx
    /\ AddTxPoints(<<>>, out, [i \in DOMAIN out |-> IF i % 2 = 1 THEN "me" ELSE "my"])
    /\ UNCHANGED built

(* Mutant: addr_info has no unique index on the address. *)
SetAddrInfoTwice(addr, u) ==
    /\ addrInfo' = addrInfo \cup {[addr |-> addr, user |-> u]}
    /\ UNCHANGED <<n, owner, txPoint, sure, built, sends>>

(* AddOrUpdateAddrInfo: the insert of a known address fails, and its       *)
(* document is updated.                                                    *)
SetAddrInfo(addr, u) ==
    /\ addrInfo' = {d \in addrInfo : d.addr # addr} \cup {[addr |-> addr, user |-> u]}
    /\ UNCHANGED <<n, owner, txPoint, sure, built, sends>>

(* The receiver of the amounts is "you", the change address is "me".       *)
SendBadgeToAddress(c, amounts, burn) ==
    /\ sends < MaxSends
    /\ sends' = sends + 1
    /\ \E order \in SetToSeqs(GetAllUserUtxos(Sender, c)) :
          built' = built \cup Sendable(order, amounts, burn, c)
    /\ UNCHANGED <<n, addrInfo, owner, txPoint, sure>>

(* The user signs the transaction, adds the fee and sends it; the chain    *)
(* takes it if its vins are unspent, and the node processes it.            *)
Broadcast(tx) ==
    /\ n < MaxTx
    /\ \A j \in DOMAIN tx.vins : \A p \in txPoint : p.pre # OutPoint(tx.vins[j])
    /\ AddTxPoints(tx.vins, tx.out,
                   [i \in DOMAIN tx.out |-> IF i <= Len(tx.amounts) THEN "you" ELSE "me"])
    /\ built' = built \ {tx}

Forget(tx) ==
    /\ built' = built \ {tx}
    /\ UNCHANGED <<n, addrInfo, owner, txPoint, sure, sends>>

(* SetSpent on the vin point p: first the vout, then p. *)
SetVoutSpent(p) ==
    /\ p.type = "vin"
    /\ p \notin sure
    /\ sure' = sure \cup {q \in txPoint : q.type = "vout" /\ OutPoint(q) = p.pre}
    /\ UNCHANGED <<n, addrInfo, owner, txPoint, built, sends>>

SetVinSpent(p) ==
    /\ p.type = "vin"
    /\ \E q \in sure : q.type = "vout" /\ OutPoint(q) = p.pre
    /\ sure' = sure \cup {p}
    /\ UNCHANGED <<n, addrInfo, owner, txPoint, built, sends>>

Next ==
    \/ \E out \in Issues : Issue(out)
    \/ \E addr \in OwnAddr, u \in User : SetAddrInfo(addr, u)
    \/ \E c \in 1 .. n, amounts \in Amounts, burn \in Burns :
          SendBadgeToAddress(c, amounts, burn)
    \/ \E tx \in built : Broadcast(tx) \/ Forget(tx)
    \/ \E p \in txPoint : SetVoutSpent(p) \/ SetVinSpent(p)

Spec == Init /\ [][Next]_vars

-----------------------------------------------------------------------------
(* Properties *)

(* The balance, computed from the utxos among the points that SetSpent has *)
(* left, is the sum of the whole history of the address: also between the  *)
(* two updates of SetSpent.                                                *)
BalanceIsHistory ==
    \A addr \in Addr, c \in 1 .. n :
        GetAddrBalance(addr, c) =
            MapThenSumSet(LAMBDA a : a.value, TxPoints2AddrInventory(AllPoints(addr, c)))

BalanceOf(addrs, c) == MapThenSumSet(LAMBDA a : GetAddrBalance(a, c), addrs)

(* The balances of the users are those of the addresses they were given,   *)
(* each counted for one user, wherever an address is moved and whatever is *)
(* spent meanwhile: the join never meets a vin of one address without the  *)
(* vout it spends.                                                         *)
UsersShareBalances ==
    \A c \in 1 .. n :
        MapThenSumSet(LAMBDA u : GetUserBalance(u, c), User) =
            BalanceOf({d.addr : d \in addrInfo}, c)

(* What the caller asked for, without overflow. *)
Wanted(tx) == tx.burn + SumSeq(tx.amounts)

(* A transaction of SendBadgeToAddress does what it was built for, however *)
(* late it is broadcast, and to whomever the addresses belong by then: the *)
(* receivers get the amounts, and of the badges of the own addresses       *)
(* exactly the amount to burn is gone besides.  (Wanted = 0 gives a        *)
(* transaction without vins, and a sum beyond int64 one that fails the     *)
(* badge protocol.)                                                        *)
SendsExactly ==
    [][\A tx \in built \ built' :
          n' # n /\ Wanted(tx) \in 1 .. MaxBadge =>
              /\ GetAddrBalance("you", tx.code)' = GetAddrBalance("you", tx.code) + SumSeq(tx.amounts)
              /\ BalanceOf(OwnAddr, tx.code)' = BalanceOf(OwnAddr, tx.code) - Wanted(tx)]_vars

(* The vins of a transaction that sends or burns anything bring in what    *)
(* is wanted, and would not without the last: the loop stops at the first  *)
(* utxo that suffices, whatever the order the database returns them in.    *)
(* (With nothing to send and nothing to burn it takes none.  This is left  *)
(* out: README.md:742 of the code says that such a call collects utxos.)   *)
VinsSuffice ==
    \A tx \in built : Wanted(tx) \in 1 .. MaxBadge =>
        LET value(k) == SumSeq([j \in 1 .. k |-> tx.vins[j].value])
            k == Len(tx.vins)
        IN  value(k) >= Wanted(tx) /\ value(k - 1) < Wanted(tx)

(* The pages of the utxos of an address, one after the other, show every   *)
(* utxo, and each at one place of one page only, for every size of a page. *)
PagesCover ==
    \A addr \in Addr, c \in 1 .. n :
        LET utxos == CalculateUtxos(MayBeUnspent(addr, c))
            count == Cardinality(utxos)
        IN  \A limit \in 1 .. count + 1 :
                LET page == [i \in 1 .. count + 1 |-> PageTxPoints(utxos, (i - 1) * limit, limit)]
                IN  /\ \A p \in utxos : \E i \in DOMAIN page : \E k \in DOMAIN page[i] : page[i][k] = p
                    /\ \A i, j \in DOMAIN page : \A k \in DOMAIN page[i], m \in DOMAIN page[j] :
                          page[i][k] \in utxos /\ (page[i][k] = page[j][m] => i = j /\ k = m)
=============================================================================
