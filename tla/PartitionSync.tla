---------------------------- MODULE PartitionSync ----------------------------
(***************************************************************************)
(* How two nodes come to know the same transactions.  The loop of SyncState *)
(* asks the peer for its unconfirmed transactions, computes the hashes of  *)
(* its own partitions of ten blocks, compares them with those of the peer, *)
(* by position in pages of ten, and asks for the transactions of the       *)
(* partitions that differ.  Each node runs this loop, and answers the      *)
(* requests of the other from whatever its collections hold.               *)
(*                                                                         *)
(* Transactions also arrive by other ways (SendRawTransaction, NotifiedTxs) *)
(* while the loop runs, and CheckTxState moves them from the unconfirmed   *)
(* ones into their partition.  A height is reduced to the partition it is  *)
(* in, the hash of a partition to the set of txids it is computed from.    *)
(* Rows are not deleted here, and a transaction is mined once: that a      *)
(* reorganisation moves its row to another partition, or to the height 0,  *)
(* which is in none, is left to Confirmations.                             *)
(***************************************************************************)
EXTENDS Integers, FiniteSets

CONSTANTS
    Node,        \* two nodes
    Tx,          \* transactions
    Partitions,  \* expectPartitionsCount; the ids are 0 .. Partitions - 1
    Compare,     \* COMPARE_PARTITIONS_COUNT (10)
    MaxEvents    \* bound on the transactions that arrive by other ways and
                 \* the errors of the database and of the peer, together

ASSUME PartitionAssumption ==
    /\ \E a, b \in Node : a # b /\ Node = {a, b}
    /\ {Partitions, Compare} \subseteq Nat \ {0}
    /\ MaxEvents \in Nat

VARIABLES
    chain,     \* the partition a transaction is mined in, or Unconfirm
    state,     \* State of the raw_tx_info row at a node, or "absent"
    height,    \* its Height, as a partition or Unconfirm
    block,     \* its BlockHash, as the partition of the block or Unconfirm
    dirty,     \* NeedRecomputehashPartitionsCache
    hashes,    \* the partition_info collection: id -> hash
    pc,        \* where SyncState is
    offset,    \* its position in the pages of partitions
    todo,      \* the ids it took from the cache
    got,       \* the hash it has computed and not yet written: [id, hash]
    ids,       \* the partitions that differ
    fetch,     \* the txids of the peer that it has not synced yet
    events     \* number of arrivals and errors so far

(* A history variable: the code has no such state. *)
VARIABLE
    calm       \* nothing has disturbed the round of a node since it began

loop == <<pc, offset, todo, got, ids, fetch>>
rows == <<state, height, block>>
vars == <<chain, rows, dirty, hashes, loop, events, calm>>

Unconfirm == -1
Ids == 0 .. Partitions - 1
NoHash == [id |-> Unconfirm, hash |-> {}]

Peer(n) == CHOOSE m \in Node : m # n
Closed(n) == {t \in Tx : state[n][t] = "closed"}

(* GetTxidsByHeightRangeOrderByTxid for TX_STATE_CLOSED. *)
ClosedIn(n, id) == {t \in Closed(n) : height[n][t] = id}

(* AddNeedRecomputehashPartitionByHeight: below GStartHeight nothing is    *)
(* marked.                                                                 *)
Mark(marks, id) == IF id = Unconfirm THEN marks ELSE marks \cup {id}

(* GetPartitionInfos: the rows in the order of their ids, Skip and Limit.  *)
Rank(n, id) == Cardinality({j \in DOMAIN hashes[n] : j < id})

(* Mutant: the first partition of a page is left out. *)
PageNext(n, off) == {id \in DOMAIN hashes[n] : Rank(n, id) \in off + 1 .. off + Compare}

Page(n, off) == {id \in DOMAIN hashes[n] : Rank(n, id) \in off .. off + Compare - 1}

Init ==
    /\ chain \in [Tx -> {Unconfirm} \cup Ids]
    /\ state = [n \in Node |-> [t \in Tx |-> "absent"]]
    /\ height = [n \in Node |-> [t \in Tx |-> Unconfirm]]
    /\ block = [n \in Node |-> [t \in Tx |-> Unconfirm]]
    /\ dirty = [n \in Node |-> {}]
    /\ hashes = [n \in Node |-> [id \in {} |-> {}]]
    /\ pc = [n \in Node |-> "idle"]
    /\ offset = [n \in Node |-> 0]
    /\ todo = [n \in Node |-> {}]
    /\ got = [n \in Node |-> NoHash]
    /\ ids = [n \in Node |-> {}]
    /\ fetch = [n \in Node |-> {}]
    /\ events = 0
    /\ calm = [n \in Node |-> FALSE]

Goto(n, l) == pc' = [pc EXCEPT ![n] = l]

-----------------------------------------------------------------------------
(* What happens besides the loop *)

(* A new block, which is in the last partition, takes a transaction in. *)
Mine(t) ==
    /\ chain[t] = Unconfirm
    /\ chain' = [chain EXCEPT ![t] = Partitions - 1]
    /\ UNCHANGED <<rows, dirty, hashes, loop, events>>

(* AddMsgTxInfo marks the partition before the transaction is closed. *)
AddMsgTxInfo(n, t) ==
    /\ events < MaxEvents
    /\ events' = events + 1
    /\ state[n][t] = "absent"
    /\ state' = [state EXCEPT ![n][t] = "open"]
    /\ height' = [height EXCEPT ![n][t] = chain[t]]
    /\ block' = [block EXCEPT ![n][t] = chain[t]]
    /\ dirty' = [dirty EXCEPT ![n] = Mark(@, chain[t])]
    /\ UNCHANGED <<chain, hashes, loop>>

SetClosed(n, t) ==
    /\ state[n][t] = "open"
    /\ state' = [state EXCEPT ![n][t] = "closed"]
    /\ UNCHANGED <<chain, height, block, dirty, hashes, loop, events>>

(* The old partition is marked, the new one is not.  SetMsgTxHeightHash    *)
(* writes the hash to a field of another name than BlockHash, so a         *)
(* transaction stored before it was mined is found to differ every time.   *)
CheckTxState(n, t) ==
    /\ state[n][t] # "absent"
    /\ block[n][t] # chain[t] \/ height[n][t] # chain[t]
    /\ height' = [height EXCEPT ![n][t] = chain[t]]
    /\ dirty' = [dirty EXCEPT ![n] = Mark(@, height[n][t])]
    /\ UNCHANGED <<chain, state, block, hashes, loop, events>>

-----------------------------------------------------------------------------
(* What a node answers its peer, from its collections as they are *)

GetUnconfirmTxids(n) == ClosedIn(n, Unconfirm)

(* The hashes of a page, by their position. *)
GetPartitionsHash(n, off) ==
    {[rank |-> Rank(n, id), hash |-> hashes[n][id]] : id \in Page(n, off)}

GetPartitionsTxids(n, asked) == UNION {ClosedIn(n, id) : id \in asked}

-----------------------------------------------------------------------------
(* SyncState *)

SyncUnconfirmTx(n) ==
    /\ pc[n] = "idle"
    /\ Goto(n, "unconfirm")
    /\ fetch' = [fetch EXCEPT ![n] = GetUnconfirmTxids(Peer(n))]
    /\ UNCHANGED <<chain, rows, dirty, hashes, offset, todo, got, ids, events>>

(* SyncTxs on one of the txids: stored if it was not, and closed. *)
SyncTx(n, t) ==
    /\ t \in fetch[n]
    /\ fetch' = [fetch EXCEPT ![n] = @ \ {t}]
    /\ state' = [state EXCEPT ![n][t] = "closed"]
    /\ IF state[n][t] = "absent"
         THEN /\ height' = [height EXCEPT ![n][t] = chain[t]]
              /\ block' = [block EXCEPT ![n][t] = chain[t]]
         ELSE UNCHANGED <<height, block>>
    /\ dirty' = IF state[n][t] = "closed" THEN dirty
                ELSE [dirty EXCEPT ![n] = Mark(@, height'[n][t])]
    /\ UNCHANGED <<chain, hashes, pc, offset, todo, got, ids, events>>

(* Mutant: only the last partition is computed again, as with syncAll =    *)
(* false.                                                                  *)
SyncStateLast(n) ==
    /\ pc[n] = "unconfirm"
    /\ fetch[n] = {}
    /\ Goto(n, "clear")
    /\ dirty' = [dirty EXCEPT ![n] = @ \cup {id \in Ids : id >= Cardinality(DOMAIN hashes[n]) - 1}]
    /\ offset' = [offset EXCEPT ![n] = 0]
    /\ UNCHANGED <<chain, rows, hashes, todo, got, ids, fetch, events>>

(* SyncStateLoop always asks for all partitions. *)
SyncState(n) ==
    /\ pc[n] = "unconfirm"
    /\ fetch[n] = {}
    /\ Goto(n, "clear")
    /\ dirty' = [dirty EXCEPT ![n] = @ \cup Ids]
    /\ offset' = [offset EXCEPT ![n] = 0]
    /\ UNCHANGED <<chain, rows, hashes, todo, got, ids, fetch, events>>

(* ClearCacheAndSetHash, before ("clear") and after the sync of a page.    *)
ClearPartitionsCache(n) ==
    /\ pc[n] = "clear" \/ (pc[n] = "sync" /\ fetch[n] = {})
    /\ todo' = [todo EXCEPT ![n] = dirty[n]]
    /\ dirty' = [dirty EXCEPT ![n] = {}]
    /\ Goto(n, IF pc[n] = "clear" THEN "compute" ELSE "compute2")
    /\ UNCHANGED <<chain, rows, hashes, offset, got, ids, fetch, events>>

Computing(n) == pc[n] \in {"compute", "compute2"}

ComputePartitionHash(n, id) ==
    /\ Computing(n)
    /\ got[n] = NoHash
    /\ id \in todo[n]
    /\ todo' = [todo EXCEPT ![n] = @ \ {id}]
    /\ got' = [got EXCEPT ![n] = [id |-> id, hash |-> ClosedIn(n, id)]]
    /\ UNCHANGED <<chain, rows, dirty, hashes, pc, offset, ids, fetch, events>>

(* AddPartitionInfo, then UpdatePartitionInfo. *)
UpdatePartitionInfo(infos, id, hash) ==
    [j \in DOMAIN infos \cup {id} |-> IF j = id THEN hash ELSE infos[j]]

SetPartitionHash(n) ==
    /\ Computing(n)
    /\ got[n] # NoHash
    /\ hashes' = [hashes EXCEPT ![n] = UpdatePartitionInfo(@, got[n].id, got[n].hash)]
    /\ got' = [got EXCEPT ![n] = NoHash]
    /\ UNCHANGED <<chain, rows, dirty, pc, offset, todo, ids, fetch, events>>

Computed(n) == todo[n] = {} /\ got[n] = NoHash

(* The end of the loop body for the page at offset. *)
NextPage(n) ==
    IF offset[n] + Compare <= Partitions
      THEN offset' = [offset EXCEPT ![n] = @ + Compare] /\ Goto(n, "clear")
      ELSE offset' = [offset EXCEPT ![n] = 0] /\ Goto(n, "idle")

(* The ids of the own page whose hash differs from the one at the same     *)
(* place of the page of the peer; what the peer has not is not compared.   *)
Differing(n) ==
    {id \in Page(n, offset[n]) :
        \E other \in GetPartitionsHash(Peer(n), offset[n]) :
            other.rank = Rank(n, id) /\ other.hash # hashes[n][id]}

ComparePage(n) ==
    /\ pc[n] = "compute"
    /\ Computed(n)
    /\ ids' = [ids EXCEPT ![n] = Differing(n)]
    /\ IF Differing(n) = {} THEN NextPage(n) ELSE Goto(n, "ask") /\ UNCHANGED offset
    /\ UNCHANGED <<chain, rows, dirty, hashes, todo, got, fetch, events>>

GetTxidsByPartitions(n) ==
    /\ pc[n] = "ask"
    /\ fetch' = [fetch EXCEPT ![n] = GetPartitionsTxids(Peer(n), ids[n])]
    /\ ids' = [ids EXCEPT ![n] = {}]
    /\ Goto(n, "sync")
    /\ UNCHANGED <<chain, rows, dirty, hashes, offset, todo, got, events>>

PageDone(n) ==
    /\ pc[n] = "compute2"
    /\ Computed(n)
    /\ NextPage(n)
    /\ UNCHANGED <<chain, rows, dirty, hashes, todo, got, ids, fetch, events>>

(* An error of the database: SyncState returns, and what it took from the  *)
(* cache is lost.                                                          *)
ComputeFail(n) ==
    /\ Computing(n)
    /\ events < MaxEvents
    /\ events' = events + 1
    /\ todo' = [todo EXCEPT ![n] = {}]
    /\ got' = [got EXCEPT ![n] = NoHash]
    /\ offset' = [offset EXCEPT ![n] = 0]
    /\ Goto(n, "idle")
    /\ UNCHANGED <<chain, rows, dirty, hashes, ids, fetch>>

(* An error of the peer or in SyncTxs: on to the next step of the loop. *)
PeerFail(n) ==
    /\ pc[n] \in {"unconfirm", "ask", "sync"} \/ (pc[n] = "compute" /\ Computed(n))
    /\ events < MaxEvents
    /\ events' = events + 1
    /\ fetch' = [fetch EXCEPT ![n] = {}]
    /\ ids' = [ids EXCEPT ![n] = {}]
    /\ IF pc[n] = "unconfirm" THEN UNCHANGED <<offset, pc>> ELSE NextPage(n)
    /\ UNCHANGED <<chain, rows, dirty, hashes, todo, got>>

-----------------------------------------------------------------------------
Loop(n) ==
    \/ SyncUnconfirmTx(n) \/ SyncState(n) \/ ClearPartitionsCache(n)
    \/ SetPartitionHash(n) \/ ComparePage(n) \/ GetTxidsByPartitions(n)
    \/ PageDone(n)
    \/ \E t \in Tx : SyncTx(n, t)
    \/ \E id \in Ids : ComputePartitionHash(n, id)

(* The partition_info collection of n is complete and up to date. *)
UpToDate(n) == hashes[n] = [id \in Ids |-> ClosedIn(n, id)]

(* A round is calm if the hashes of the peer are up to date when it begins *)
(* and the peer learns nothing while it lasts.                             *)
LoopNext(n) ==
    /\ Loop(n)
    /\ calm' = [m \in Node |-> IF m = n /\ pc[n] = "idle" THEN UpToDate(Peer(n))
                               ELSE calm[m] /\ (m = n \/ rows' = rows)]

Disturbance ==
    /\ \/ \E t \in Tx : Mine(t)
       \/ \E n \in Node : \/ \E t \in Tx : AddMsgTxInfo(n, t) \/ SetClosed(n, t)
                          \/ ComputeFail(n)
                          \/ PeerFail(n)
    /\ calm' = [n \in Node |-> FALSE]

Check(n, t) ==
    /\ CheckTxState(n, t)
    /\ calm' = [m \in Node |-> calm[m] /\ rows' = rows]

Next ==
    \/ Disturbance
    \/ \E n \in Node : LoopNext(n) \/ \E t \in Tx : Check(n, t)

Spec == Init /\ [][Next]_vars

(* SyncStateLoop and CheckTxStateLoop run for ever, every five minutes and *)
(* every minute; every call returns.                                       *)
FairSpec ==
    /\ Spec
    /\ \A n \in Node : /\ WF_vars(LoopNext(n))
                       /\ \A t \in Tx : WF_vars(Check(n, t) /\ height' # height)

-----------------------------------------------------------------------------
(* Properties *)

(* Rows, partition_infos documents, the cache of marks and the locals of    *)
(* both nodes' loops keep their types.                                      *)
TypeOK ==
    /\ chain \in [Tx -> {Unconfirm} \cup Ids]
    /\ state \in [Node -> [Tx -> {"absent", "open", "closed"}]]
    /\ height \in [Node -> [Tx -> {Unconfirm} \cup Ids]]
    /\ block \in [Node -> [Tx -> {Unconfirm} \cup Ids]]
    /\ dirty \in [Node -> SUBSET Ids]
    /\ hashes \in [Node -> UNION {[known -> SUBSET Tx] : known \in SUBSET Ids}]
    /\ pc \in [Node -> {"idle", "unconfirm", "clear", "compute", "ask", "sync",
                        "compute2"}]
    /\ offset \in [Node -> 0 .. Partitions]
    /\ todo \in [Node -> SUBSET Ids]
    /\ got \in [Node -> [id : Ids, hash : SUBSET Tx] \cup {NoHash}]
    /\ ids \in [Node -> SUBSET Ids]
    /\ fetch \in [Node -> SUBSET Tx]
    /\ events \in 0 .. MaxEvents
    /\ calm \in [Node -> BOOLEAN]

(* One round is enough: a node that ends a calm round knows every closed   *)
(* transaction of its peer, confirmed or not, on whichever page of the     *)
(* partitions it is.                                                       *)
RoundCatchesUp ==
    \A n \in Node : pc[n] = "idle" /\ calm[n] => Closed(Peer(n)) \subseteq Closed(n)

Spread == INSTANCE TxSpread WITH Ancestors <- [t \in Tx |-> {}], state <- state

(* Whatever was lost on the way (notifications, marks of the cache that a  *)
(* failed round dropped, marks set before a transaction was closed), what  *)
(* one node has closed the other closes too, for good: SyncState keeps the *)
(* promise of TxSpread for every single transaction.                       *)
ImplementsTxSpread == Spread!Spec
=============================================================================
