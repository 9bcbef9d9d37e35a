------------------------- MODULE PartitionSyncProofs -------------------------
(***************************************************************************)
(* The synchronisation for any number of transactions, partitions, pages,   *)
(* arrivals and errors.  Type correctness: no step marks, computes, asks    *)
(* for or stores a partition that does not exist, and no offset leaves the  *)
(* pages.  The refinement of TxSpread.  And RoundCatchesUp: after a round   *)
(* without a disturbance a node has what its peer had, although the hashes  *)
(* it compares may be older than the rows.                                  *)
(***************************************************************************)
EXTENDS PartitionSync, FiniteSetTheorems, TLAPS

Places == {"idle", "unconfirm", "clear", "compute", "ask", "sync", "compute2"}
Hashes == UNION {[known -> SUBSET Tx] : known \in SUBSET Ids}

(* The rows, and the bound on the disturbances. *)
RowsOK ==
    /\ chain \in [Tx -> {Unconfirm} \cup Ids]
    /\ state \in [Node -> [Tx -> {"absent", "open", "closed"}]]
    /\ height \in [Node -> [Tx -> {Unconfirm} \cup Ids]]
    /\ block \in [Node -> [Tx -> {Unconfirm} \cup Ids]]
    /\ events \in 0 .. MaxEvents

(* The marks, the hashes and the locals of SyncState. *)
LoopOK ==
    /\ dirty \in [Node -> SUBSET Ids]
    /\ hashes \in [Node -> Hashes]
    /\ pc \in [Node -> Places]
    /\ offset \in [Node -> 0 .. Partitions]
    /\ todo \in [Node -> SUBSET Ids]
    /\ got \in [Node -> [id : Ids, hash : SUBSET Tx] \cup {NoHash}]
    /\ ids \in [Node -> SUBSET Ids]
    /\ fetch \in [Node -> SUBSET Tx]

CalmOK == calm \in [Node -> BOOLEAN]

(* The parts of the type invariant. *)
LEMMA TypeParts == TypeOK <=> RowsOK /\ LoopOK /\ CalmOK
BY DEF TypeOK, RowsOK, LoopOK, CalmOK, Places, Hashes

(* A mark is on a partition that exists. *)
LEMMA MarkType ==
    ASSUME NEW marks \in SUBSET Ids, NEW id \in {Unconfirm} \cup Ids
    PROVE  Mark(marks, id) \in SUBSET Ids
BY DEF Mark

(* A block is in a partition. *)
LEMMA MineStep ==
    ASSUME PartitionAssumption, RowsOK, LoopOK, NEW t \in Tx, Mine(t)
    PROVE  RowsOK' /\ LoopOK'
<1>1. Partitions - 1 \in Ids
  BY DEF PartitionAssumption, Ids
<1>2. QED
  BY <1>1 DEF Mine, rows, loop, RowsOK, LoopOK

(* What happens to a row besides the loop. *)
LEMMA OtherSteps ==
    ASSUME PartitionAssumption, RowsOK, LoopOK, NEW n \in Node, NEW t \in Tx,
           AddMsgTxInfo(n, t) \/ SetClosed(n, t) \/ CheckTxState(n, t)
    PROVE  RowsOK' /\ LoopOK'
<1>1. CASE AddMsgTxInfo(n, t)
  <2>1. Mark(dirty[n], chain[t]) \in SUBSET Ids
    BY MarkType DEF RowsOK, LoopOK
  <2>2. QED
    BY <1>1, <2>1 DEF AddMsgTxInfo, loop, RowsOK, LoopOK, PartitionAssumption
<1>2. CASE SetClosed(n, t)
  BY <1>2 DEF SetClosed, loop, RowsOK, LoopOK
<1>3. CASE CheckTxState(n, t)
  <2>1. dirty[n] \in SUBSET Ids /\ height[n][t] \in {Unconfirm} \cup Ids
    BY DEF RowsOK, LoopOK
  <2>2. Mark(dirty[n], height[n][t]) \in SUBSET Ids
    BY <2>1, MarkType
  <2>3. QED
    BY <1>3, <2>2 DEF CheckTxState, loop, RowsOK, LoopOK
<1>4. QED
  BY <1>1, <1>2, <1>3

(* The offset moves by whole pages and not past the last one. *)
LEMMA NextPageType ==
    ASSUME PartitionAssumption, LoopOK, NEW n \in Node, NextPage(n)
    PROVE  offset' \in [Node -> 0 .. Partitions] /\ pc' \in [Node -> Places]
BY DEF LoopOK, NextPage, Goto, Places, PartitionAssumption

(* The errors. *)
LEMMA FailSteps ==
    ASSUME PartitionAssumption, RowsOK, LoopOK, NEW n \in Node, ComputeFail(n) \/ PeerFail(n)
    PROVE  RowsOK' /\ LoopOK'
<1>1. CASE ComputeFail(n)
  BY <1>1 DEF ComputeFail, Goto, rows, RowsOK, LoopOK, Places, PartitionAssumption
<1>2. CASE PeerFail(n)
  <2>1. offset' \in [Node -> 0 .. Partitions] /\ pc' \in [Node -> Places]
    BY <1>2, NextPageType DEF PeerFail, LoopOK
  <2>2. RowsOK'
    BY <1>2 DEF PeerFail, rows, RowsOK, PartitionAssumption
  <2>3. QED
    BY <1>2, <2>1, <2>2 DEF PeerFail, LoopOK
<1>3. QED
  BY <1>1, <1>2

(* SyncTxs, as a part of the loop. *)
LEMMA SyncTxStep ==
    ASSUME RowsOK, LoopOK, NEW n \in Node, NEW t \in Tx, SyncTx(n, t)
    PROVE  RowsOK' /\ LoopOK'
<1>1. RowsOK'
  <2>1. state' \in [Node -> [Tx -> {"absent", "open", "closed"}]]
    BY DEF SyncTx, RowsOK
  <2>2. /\ height' \in [Node -> [Tx -> {Unconfirm} \cup Ids]]
        /\ block' \in [Node -> [Tx -> {Unconfirm} \cup Ids]]
    <3>1. chain[t] \in {Unconfirm} \cup Ids
      BY DEF RowsOK
    <3>2. CASE state[n][t] = "absent"
      <4>1. /\ height' = [height EXCEPT ![n][t] = chain[t]]
            /\ block' = [block EXCEPT ![n][t] = chain[t]]
        BY <3>2 DEF SyncTx
      <4>2. QED
        BY <3>1, <4>1 DEF RowsOK
    <3>3. CASE state[n][t] # "absent"
      <4>1. UNCHANGED <<height, block>>
        BY <3>3 DEF SyncTx
      <4>2. QED
        BY <4>1 DEF RowsOK
    <3>4. QED
      BY <3>2, <3>3
  <2>3. QED
    BY <2>1, <2>2 DEF SyncTx, RowsOK
<1>2. Mark(dirty[n], height'[n][t]) \in SUBSET Ids
  <2>1. dirty[n] \in SUBSET Ids /\ height'[n][t] \in {Unconfirm} \cup Ids
    BY <1>1 DEF RowsOK, LoopOK
  <2>2. QED
    BY <2>1, MarkType
<1>3. dirty' \in [Node -> SUBSET Ids]
  BY <1>2 DEF SyncTx, LoopOK
<1>4. QED
  BY <1>1, <1>3 DEF SyncTx, LoopOK

(* The loop touches no row otherwise. *)
LEMMA LoopSteps ==
    ASSUME PartitionAssumption, RowsOK, LoopOK, NEW n \in Node, Loop(n)
    PROVE  RowsOK' /\ LoopOK'
<1>1. CASE SyncUnconfirmTx(n)
  BY <1>1 DEF SyncUnconfirmTx, GetUnconfirmTxids, ClosedIn, Closed, Goto, rows, RowsOK, LoopOK, Places
<1>2. CASE SyncState(n)
  BY <1>2 DEF SyncState, Goto, rows, RowsOK, LoopOK, Places, PartitionAssumption
<1>3. CASE ClearPartitionsCache(n)
  BY <1>3 DEF ClearPartitionsCache, Goto, rows, RowsOK, LoopOK, Places
<1>4. CASE SetPartitionHash(n)
  <2>1. got[n].id \in Ids /\ got[n].hash \in SUBSET Tx
    BY <1>4 DEF SetPartitionHash, LoopOK
  <2>2. PICK known \in SUBSET Ids : hashes[n] \in [known -> SUBSET Tx]
    BY DEF LoopOK, Hashes
  <2>3. UpdatePartitionInfo(hashes[n], got[n].id, got[n].hash) \in [known \cup {got[n].id} -> SUBSET Tx]
    BY <2>1, <2>2 DEF UpdatePartitionInfo
  <2>4. UpdatePartitionInfo(hashes[n], got[n].id, got[n].hash) \in Hashes
    BY <2>1, <2>3 DEF Hashes
  <2>5. QED
    BY <1>4, <2>4 DEF SetPartitionHash, rows, RowsOK, LoopOK
<1>5. CASE ComparePage(n)
  <2>1. Differing(n) \in SUBSET Ids
    <3>1. DOMAIN hashes[n] \subseteq Ids
      BY DEF LoopOK, Hashes
    <3>2. QED
      BY <3>1 DEF Differing, Page
  <2>2. offset' \in [Node -> 0 .. Partitions] /\ pc' \in [Node -> Places]
    BY <1>5, NextPageType DEF ComparePage, LoopOK, Goto, Places
  <2>3. QED
    BY <1>5, <2>1, <2>2 DEF ComparePage, rows, RowsOK, LoopOK
<1>6. CASE GetTxidsByPartitions(n)
  <2>1. GetPartitionsTxids(Peer(n), ids[n]) \in SUBSET Tx
    BY DEF GetPartitionsTxids, ClosedIn, Closed
  <2>2. QED
    BY <1>6, <2>1 DEF GetTxidsByPartitions, Goto, rows, RowsOK, LoopOK, Places
<1>7. CASE PageDone(n)
  BY <1>7, NextPageType DEF PageDone, rows, RowsOK, LoopOK
<1>8. ASSUME NEW id \in Ids, ComputePartitionHash(n, id)
      PROVE  RowsOK' /\ LoopOK'
  <2>1. [id |-> id, hash |-> ClosedIn(n, id)] \in [id : Ids, hash : SUBSET Tx]
    BY DEF ClosedIn, Closed
  <2>2. QED
    BY <1>8, <2>1 DEF ComputePartitionHash, rows, RowsOK, LoopOK
<1>9. QED
  BY <1>1, <1>2, <1>3, <1>4, <1>5, <1>6, <1>7, <1>8, SyncTxStep DEF Loop

(* The history variable. *)
LEMMA CalmStep ==
    ASSUME CalmOK, Next
    PROVE  CalmOK'
<1>1. CASE Disturbance
  BY <1>1 DEF Disturbance, CalmOK
<1>2. ASSUME NEW n \in Node, LoopNext(n)
      PROVE  CalmOK'
  BY <1>2 DEF LoopNext, UpToDate, CalmOK
<1>3. ASSUME NEW n \in Node, NEW t \in Tx, Check(n, t)
      PROVE  CalmOK'
  BY <1>3, Zenon DEF Check, CalmOK
<1>4. QED
  BY <1>1, <1>2, <1>3 DEF Next

(* The cache of marks, the hashes, the pages and the requests of SyncState *)
(* only ever speak of partitions and transactions that exist.              *)
THEOREM TypeCorrect == Spec => []TypeOK
<1> DEFINE Parts == RowsOK /\ LoopOK /\ CalmOK
<1>1. Init => Parts
  <2>1. ASSUME Init PROVE RowsOK
    BY <2>1, PartitionAssumption DEF Init, RowsOK, PartitionAssumption
  <2>2. ASSUME Init PROVE LoopOK
    <3>1. [id \in {} |-> {}] \in Hashes
      BY DEF Hashes
    <3>2. QED
      BY <2>2, <3>1, PartitionAssumption DEF Init, LoopOK, Places, PartitionAssumption
  <2>3. ASSUME Init PROVE CalmOK
    BY <2>3 DEF Init, CalmOK
  <2>4. QED
    BY <2>1, <2>2, <2>3
<1>2. Parts /\ Next => Parts'
  <2>1. SUFFICES ASSUME RowsOK, LoopOK, CalmOK, Next
                 PROVE  RowsOK' /\ LoopOK' /\ CalmOK'
    OBVIOUS
  <2>2. CASE Disturbance
    BY <2>1, <2>2, PartitionAssumption, MineStep, OtherSteps, FailSteps, CalmStep DEF Disturbance
  <2>3. QED
    BY <2>1, <2>2, PartitionAssumption, OtherSteps, LoopSteps, CalmStep DEF Next, LoopNext, Check
<1>3. Parts /\ UNCHANGED vars => Parts'
  BY DEF RowsOK, LoopOK, CalmOK, vars, rows, loop
<1>4. Parts => TypeOK
  BY TypeParts
<1> HIDE DEF Parts
<1>5. Parts /\ [Next]_vars => Parts'
  BY <1>2, <1>3
<1>6. QED
  BY <1>1, <1>4, <1>5, PTL DEF Spec

-----------------------------------------------------------------------------
(* Closing and storing one transaction are steps of TxSpread. *)
LEMMA CloseAdvances ==
    ASSUME RowsOK, NEW n \in Node, NEW t \in Tx, state[n][t] # "closed",
           state' = [state EXCEPT ![n][t] = "closed"]
    PROVE  Spread!Next
<1>1. state' = [state EXCEPT ![n] = [u \in Tx |-> CASE u \in {t} -> "closed"
                                                    [] u \in {} \ {t} -> "open"
                                                    [] OTHER -> @[u]]]
  BY DEF RowsOK
<1>2. Spread!Advance(n, {}, {t})
  BY <1>1 DEF Spread!Advance
<1>3. QED
  BY <1>2 DEF Spread!Next

(* A row that is stored is an arrival of TxSpread. *)
LEMMA StoreAdvances ==
    ASSUME RowsOK, NEW n \in Node, NEW t \in Tx, state[n][t] = "absent",
           state' = [state EXCEPT ![n][t] = "open"]
    PROVE  Spread!Next
<1>1. state' = [state EXCEPT ![n] = [u \in Tx |-> CASE u \in {} -> "closed"
                                                    [] u \in {t} \ {} -> "open"
                                                    [] OTHER -> @[u]]]
  BY DEF RowsOK
<1>2. Spread!Advance(n, {t}, {})
  BY <1>1 DEF Spread!Advance
<1>3. QED
  BY <1>2 DEF Spread!Next

(* No step of SyncState, of an arrival or of an error makes a node forget a *)
(* transaction or take back that it closed one: the steps of both loops are *)
(* steps of TxSpread.                                                       *)
THEOREM SpreadsSafely == Spec => Spread!Safety
<1>1. Init => Spread!Init
  BY DEF Init, Spread!Init
<1>2. ASSUME RowsOK, [Next]_vars
      PROVE  [Spread!Next]_state
  <2>1. ASSUME NEW n \in Node, NEW t \in Tx, SyncTx(n, t)
        PROVE  [Spread!Next]_state
    <3>1. state' = [state EXCEPT ![n][t] = "closed"]
      BY <2>1 DEF SyncTx
    <3>2. CASE state[n][t] = "closed"
      BY <1>2, <3>1, <3>2 DEF RowsOK
    <3>3. CASE state[n][t] # "closed"
      BY <1>2, <3>1, <3>3, CloseAdvances
    <3>4. QED
      BY <3>2, <3>3
  <2>2. ASSUME NEW n \in Node, NEW t \in Tx, AddMsgTxInfo(n, t) \/ SetClosed(n, t)
        PROVE  [Spread!Next]_state
    BY <1>2, <2>2, CloseAdvances, StoreAdvances DEF AddMsgTxInfo, SetClosed
  <2>3. CASE UNCHANGED state
    BY <2>3
  <2>4. ASSUME NEW n \in Node, Loop(n), ~ \E t \in Tx : SyncTx(n, t)
        PROVE  UNCHANGED state
    BY <2>4 DEF Loop, SyncUnconfirmTx, SyncState, ClearPartitionsCache, SetPartitionHash, ComparePage,
                GetTxidsByPartitions, PageDone, ComputePartitionHash, rows
  <2>5. QED
    BY <1>2, <2>1, <2>2, <2>3, <2>4
       DEF Next, vars, rows, Disturbance, LoopNext, Check, CheckTxState, Mine, ComputeFail, PeerFail
<1>3. TypeOK => RowsOK
  BY TypeParts
<1>4. QED
  BY <1>1, <1>2, <1>3, TypeCorrect, PTL DEF Spec, Spread!Safety

-----------------------------------------------------------------------------
(* One calm round catches up with the peer.  The argument: what a block    *)
(* has confirmed does not leave its partition, so a hash, even a stale     *)
(* one, only ever tells less than the node has closed, and where the two   *)
(* hashes agree nothing of the peer is missing; where they differ,         *)
(* everything of the peer is asked for; and the pages cover all partitions.*)

(* A height other than -1 is the final one. *)
HeightInv == \A n \in Node, t \in Tx : height[n][t] \in Ids => height[n][t] = chain[t]

(* A stored hash is at most as new as one just computed, and that at most  *)
(* as new as the rows.                                                     *)
HashInv ==
    \A n \in Node :
        /\ \A id \in DOMAIN hashes[n] : hashes[n][id] \subseteq ClosedIn(n, id)
        /\ got[n] # NoHash =>
              /\ got[n].hash \subseteq ClosedIn(n, got[n].id)
              /\ got[n].id \in DOMAIN hashes[n] => hashes[n][got[n].id] \subseteq got[n].hash

(* Before a page is compared every partition has a hash. *)
Covered(n) ==
    /\ fetch[n] # {} => pc[n] \in {"unconfirm", "sync"}
    /\ pc[n] = "clear" => Ids \subseteq DOMAIN hashes[n] \cup dirty[n]
    /\ pc[n] = "compute" => Ids \subseteq DOMAIN hashes[n] \cup todo[n] \cup {got[n].id}
    /\ pc[n] \in {"ask", "sync", "compute2"} => Ids \subseteq DOMAIN hashes[n]

CoverInv == \A n \in Node : Covered(n)

(* The node n has, or will fetch, what its peer has in partition id. *)
Has(n, id) == ClosedIn(Peer(n), id) \subseteq Closed(n)
WillHave(n, id) == ClosedIn(Peer(n), id) \subseteq Closed(n) \cup fetch[n]

(* How far a calm round of n has come. *)
Progress(n) ==
    /\ pc[n] = "unconfirm" => WillHave(n, Unconfirm)
    /\ pc[n] # "unconfirm" => Has(n, Unconfirm)
    /\ pc[n] = "idle" => \A id \in Ids : Has(n, id)
    /\ pc[n] \in {"clear", "compute"} => \A id \in Ids : id < offset[n] => Has(n, id)
    /\ pc[n] = "ask" => \A id \in Ids : id < offset[n] + Compare => id \in ids[n] \/ Has(n, id)
    /\ pc[n] = "sync" => \A id \in Ids : id < offset[n] + Compare => WillHave(n, id)
    /\ pc[n] = "compute2" => \A id \in Ids : id < offset[n] + Compare => Has(n, id)

CalmInv ==
    \A n \in Node : calm[n] => Progress(n) /\ (pc[n] # "idle" => UpToDate(Peer(n)))

SyncInv == HeightInv /\ HashInv /\ CoverInv /\ CalmInv

(* What the assumption says of the sizes. *)
LEMMA Sizes == Partitions \in Nat /\ Partitions > 0 /\ Compare \in Nat /\ Compare > 0 /\ Unconfirm \notin Ids
BY PartitionAssumption DEF Unconfirm, Ids

(* There are two nodes. *)
LEMMA PeerFacts ==
    ASSUME NEW n \in Node
    PROVE  /\ Peer(n) \in Node /\ Peer(n) # n
           /\ \A m \in Node : m # n => m = Peer(n)
<1>1. PICK a \in Node, b \in Node : a # b /\ Node = {a, b}
  BY PartitionAssumption
<1>2. \E m \in Node : m # n
  BY <1>1
<1>3. Peer(n) \in Node /\ Peer(n) # n
  BY <1>2 DEF Peer
<1> QED
  BY <1>1, <1>3

(* What a step may do to the rows: nothing is opened again, and a height is *)
(* taken from the chain.                                                   *)
RowsMove ==
    \A m \in Node, u \in Tx :
        /\ state[m][u] = "closed" => state'[m][u] = "closed"
        /\ height'[m][u] \in {height[m][u], chain[u]}
        /\ chain'[u] = chain[u] \/ chain[u] = Unconfirm

(* Every step moves the rows of a node like this, or not at all. *)
LEMMA RowsMoves ==
    ASSUME RowsOK, [Next]_vars
    PROVE  RowsMove
<1>1. ASSUME NEW t \in Tx, Mine(t)
      PROVE  RowsMove
  BY <1>1 DEF RowsMove, Mine, rows, RowsOK
<1>2. ASSUME NEW n \in Node, NEW t \in Tx, AddMsgTxInfo(n, t)
      PROVE  RowsMove
  BY <1>2 DEF RowsMove, AddMsgTxInfo, RowsOK
<1>3. ASSUME NEW n \in Node, NEW t \in Tx, SetClosed(n, t)
      PROVE  RowsMove
  BY <1>3 DEF RowsMove, SetClosed, RowsOK
<1>4. ASSUME NEW n \in Node, NEW t \in Tx, CheckTxState(n, t)
      PROVE  RowsMove
  BY <1>4 DEF RowsMove, CheckTxState, RowsOK
<1>5. ASSUME NEW n \in Node, NEW t \in Tx, SyncTx(n, t)
      PROVE  RowsMove
  <2>1. /\ state' = [state EXCEPT ![n][t] = "closed"] /\ UNCHANGED chain
        /\ height' = height \/ height' = [height EXCEPT ![n][t] = chain[t]]
    BY <1>5 DEF SyncTx
  <2> QED
    BY <2>1 DEF RowsMove, RowsOK
<1>6. CASE UNCHANGED <<chain, state, height>>
  BY <1>6 DEF RowsMove
<1>7. ASSUME NEW n \in Node, Loop(n), ~ \E t \in Tx : SyncTx(n, t)
      PROVE  UNCHANGED <<chain, state, height>>
  BY <1>7 DEF Loop, SyncUnconfirmTx, SyncState, ClearPartitionsCache, SetPartitionHash, ComparePage,
              GetTxidsByPartitions, PageDone, ComputePartitionHash, rows
<1> QED
  BY <1>1, <1>2, <1>3, <1>4, <1>5, <1>6, <1>7
     DEF Next, vars, rows, Disturbance, LoopNext, Check, ComputeFail, PeerFail

(* What is closed in a partition stays there. *)
LEMMA Grows ==
    ASSUME RowsOK, HeightInv, RowsMove
    PROVE  /\ HeightInv'
           /\ \A n \in Node : Closed(n) \subseteq Closed(n)'
           /\ \A n \in Node, id \in Ids : ClosedIn(n, id) \subseteq ClosedIn(n, id)'
<1>1. HeightInv'
  BY Sizes DEF HeightInv, RowsMove
<1>2. ASSUME NEW n \in Node
      PROVE  Closed(n) \subseteq Closed(n)'
  BY DEF Closed, RowsMove
<1>3. ASSUME NEW n \in Node, NEW id \in Ids, NEW t \in ClosedIn(n, id)
      PROVE  t \in ClosedIn(n, id)'
  <2>1. t \in Tx /\ t \in Closed(n) /\ height[n][t] = id
    BY DEF ClosedIn, Closed
  <2>2. height'[n][t] = id
    BY <2>1 DEF HeightInv, RowsMove
  <2> QED
    BY <1>2, <2>1, <2>2 DEF ClosedIn, Closed
<1> QED
  BY <1>1, <1>2, <1>3

(* What a step may do to the hashes of a node. *)
HashMove(m) ==
    \/ hashes'[m] = hashes[m] /\ got'[m] \in {got[m], NoHash}
    \/ /\ hashes'[m] = hashes[m]
       /\ \E id \in Ids : got'[m] = [id |-> id, hash |-> ClosedIn(m, id)]
    \/ /\ got[m] # NoHash /\ got'[m] = NoHash
       /\ hashes'[m] = UpdatePartitionInfo(hashes[m], got[m].id, got[m].hash)

(* Every step moves the hashes like this, or not at all. *)
LEMMA HashMoves ==
    ASSUME LoopOK, [Next]_vars, NEW m \in Node
    PROVE  HashMove(m)
<1>1. CASE UNCHANGED <<hashes, got>>
  BY <1>1 DEF HashMove
<1>2. ASSUME NEW n \in Node, NEW id \in Ids, ComputePartitionHash(n, id)
      PROVE  HashMove(m)
  <2>1. hashes' = hashes /\ got' = [got EXCEPT ![n] = [id |-> id, hash |-> ClosedIn(n, id)]]
    BY <1>2 DEF ComputePartitionHash
  <2>2. CASE m = n
    BY <2>1, <2>2 DEF HashMove, LoopOK
  <2>3. CASE m # n
    BY <2>1, <2>3 DEF HashMove, LoopOK
  <2> QED
    BY <2>2, <2>3
<1>3. ASSUME NEW n \in Node, SetPartitionHash(n)
      PROVE  HashMove(m)
  <2>1. /\ got[n] # NoHash
        /\ hashes' = [hashes EXCEPT ![n] = UpdatePartitionInfo(hashes[n], got[n].id, got[n].hash)]
        /\ got' = [got EXCEPT ![n] = NoHash]
    BY <1>3 DEF SetPartitionHash
  <2>2. CASE m = n
    BY <2>1, <2>2 DEF HashMove, LoopOK
  <2>3. CASE m # n
    BY <2>1, <2>3 DEF HashMove, LoopOK
  <2> QED
    BY <2>2, <2>3
<1>4. ASSUME NEW n \in Node, ComputeFail(n)
      PROVE  HashMove(m)
  BY <1>4 DEF ComputeFail, HashMove, LoopOK
<1>5. ASSUME NEW n \in Node, Loop(n), ~ SetPartitionHash(n),
             ~ \E id \in Ids : ComputePartitionHash(n, id)
      PROVE  UNCHANGED <<hashes, got>>
  BY <1>5 DEF Loop, SyncUnconfirmTx, SyncState, ClearPartitionsCache, ComparePage,
              GetTxidsByPartitions, PageDone, SyncTx
<1> QED
  BY <1>1, <1>2, <1>3, <1>4, <1>5
     DEF Next, vars, loop, Disturbance, LoopNext, Check, CheckTxState, Mine, AddMsgTxInfo, SetClosed,
         PeerFail

(* A hash never tells more than the rows. *)
LEMMA HashStep ==
    ASSUME RowsOK, LoopOK, HeightInv, HashInv, [Next]_vars
    PROVE  HashInv'
<1>0. RowsMove
  BY RowsMoves
<1> SUFFICES ASSUME NEW n \in Node
             PROVE  /\ \A id \in DOMAIN hashes'[n] : hashes'[n][id] \subseteq ClosedIn(n, id)'
                    /\ got'[n] # NoHash =>
                          /\ (got[n].hash \subseteq ClosedIn(n, got[n].id))'
                          /\ got'[n].id \in DOMAIN hashes'[n] => hashes'[n][got'[n].id] \subseteq got'[n].hash
  BY DEF HashInv
<1>1. \A id \in Ids : ClosedIn(n, id) \subseteq ClosedIn(n, id)'
  BY <1>0, Grows
<1>2. /\ DOMAIN hashes[n] \subseteq Ids
      /\ got[n] # NoHash => got[n].id \in Ids
  BY DEF LoopOK, Hashes
<1>3. /\ \A id \in DOMAIN hashes[n] : hashes[n][id] \subseteq ClosedIn(n, id)
      /\ got[n] # NoHash =>
            /\ got[n].hash \subseteq ClosedIn(n, got[n].id)
            /\ got[n].id \in DOMAIN hashes[n] => hashes[n][got[n].id] \subseteq got[n].hash
  BY DEF HashInv
<1>4. CASE hashes'[n] = hashes[n] /\ got'[n] \in {got[n], NoHash}
  BY <1>1, <1>2, <1>3, <1>4
<1>5. CASE /\ hashes'[n] = hashes[n]
           /\ \E id \in Ids : got'[n] = [id |-> id, hash |-> ClosedIn(n, id)]
  <2>1. PICK id \in Ids : got'[n] = [id |-> id, hash |-> ClosedIn(n, id)]
    BY <1>5
  <2>2. got'[n].id = id /\ got'[n].hash = ClosedIn(n, id)
    BY <2>1
  <2> QED
    BY <1>1, <1>2, <1>3, <1>5, <2>2
<1>6. CASE /\ got[n] # NoHash /\ got'[n] = NoHash
           /\ hashes'[n] = UpdatePartitionInfo(hashes[n], got[n].id, got[n].hash)
  <2>1. ASSUME NEW id \in DOMAIN hashes'[n]
        PROVE  hashes'[n][id] \subseteq ClosedIn(n, id)'
    BY <1>1, <1>2, <1>3, <1>6 DEF UpdatePartitionInfo
  <2> QED
    BY <1>6, <2>1
<1> QED
  BY <1>4, <1>5, <1>6, HashMoves DEF HashMove

(* The loop of one node leaves the other one alone. *)
LEMMA Frame ==
    ASSUME RowsOK, LoopOK, NEW m \in Node, Loop(m), NEW k \in Node, k # m
    PROVE  /\ state'[k] = state[k] /\ height'[k] = height[k] /\ hashes'[k] = hashes[k]
           /\ pc'[k] = pc[k] /\ offset'[k] = offset[k] /\ ids'[k] = ids[k] /\ fetch'[k] = fetch[k]
           /\ todo'[k] = todo[k] /\ got'[k] = got[k] /\ dirty'[k] = dirty[k]
<1> USE DEF RowsOK, LoopOK, rows, Goto
<1>1. CASE SyncUnconfirmTx(m)
  BY <1>1 DEF SyncUnconfirmTx
<1>2. CASE SyncState(m)
  BY <1>2 DEF SyncState
<1>3. CASE ClearPartitionsCache(m)
  BY <1>3 DEF ClearPartitionsCache
<1>4. CASE SetPartitionHash(m)
  BY <1>4 DEF SetPartitionHash
<1>5. CASE ComparePage(m)
  BY <1>5 DEF ComparePage, NextPage
<1>6. CASE GetTxidsByPartitions(m)
  BY <1>6 DEF GetTxidsByPartitions
<1>7. CASE PageDone(m)
  BY <1>7 DEF PageDone, NextPage
<1>8. ASSUME NEW t \in Tx, SyncTx(m, t)
      PROVE  /\ state'[k] = state[k] /\ height'[k] = height[k] /\ hashes'[k] = hashes[k]
             /\ pc'[k] = pc[k] /\ offset'[k] = offset[k] /\ ids'[k] = ids[k] /\ fetch'[k] = fetch[k]
             /\ todo'[k] = todo[k] /\ got'[k] = got[k] /\ dirty'[k] = dirty[k]
  <2>1. /\ height' = height \/ height' = [height EXCEPT ![m][t] = chain[t]]
        /\ dirty' = dirty \/ dirty' = [dirty EXCEPT ![m] = Mark(dirty[m], height'[m][t])]
        /\ state' = [state EXCEPT ![m][t] = "closed"]
        /\ fetch' = [fetch EXCEPT ![m] = fetch[m] \ {t}]
        /\ UNCHANGED <<chain, hashes, pc, offset, todo, got, ids, events>>
    BY <1>8 DEF SyncTx
  <2> QED
    BY <2>1
<1>9. ASSUME NEW id \in Ids, ComputePartitionHash(m, id)
      PROVE  /\ state'[k] = state[k] /\ height'[k] = height[k] /\ hashes'[k] = hashes[k]
             /\ pc'[k] = pc[k] /\ offset'[k] = offset[k] /\ ids'[k] = ids[k] /\ fetch'[k] = fetch[k]
             /\ todo'[k] = todo[k] /\ got'[k] = got[k] /\ dirty'[k] = dirty[k]
  BY <1>9 DEF ComputePartitionHash
<1> QED
  BY <1>1, <1>2, <1>3, <1>4, <1>5, <1>6, <1>7, <1>8, <1>9 DEF Loop

(* The loop fills what SyncState marked before it compares. *)
LEMMA CoverLoop ==
    ASSUME RowsOK, LoopOK, NEW n \in Node, Covered(n), Loop(n)
    PROVE  Covered(n)'
<1> USE DEF LoopOK, Goto, Covered
<1>1. CASE SyncUnconfirmTx(n)
  BY <1>1 DEF SyncUnconfirmTx
<1>2. CASE SyncState(n)
  BY <1>2 DEF SyncState
<1>3. CASE ClearPartitionsCache(n)
  BY <1>3 DEF ClearPartitionsCache
<1>4. CASE SetPartitionHash(n)
  <2>1. /\ hashes'[n] = UpdatePartitionInfo(hashes[n], got[n].id, got[n].hash)
        /\ pc' = pc /\ fetch' = fetch /\ todo' = todo /\ pc[n] \in {"compute", "compute2"}
    BY <1>4 DEF SetPartitionHash, Computing
  <2>2. DOMAIN hashes'[n] = DOMAIN hashes[n] \cup {got[n].id}
    BY <2>1 DEF UpdatePartitionInfo
  <2> QED
    BY <2>1, <2>2
<1>5. ASSUME Computed(n), NextPage(n), pc[n] \in {"compute", "compute2"}, UNCHANGED <<hashes, dirty, fetch>>
      PROVE  Covered(n)'
  <2>1. got[n].id \notin Ids
    BY <1>5, Sizes DEF Computed, NoHash
  <2>2. Ids \subseteq DOMAIN hashes[n]
    BY <1>5, <2>1 DEF Computed
  <2>3. pc'[n] \in {"clear", "idle"}
    BY <1>5 DEF NextPage
  <2> QED
    BY <1>5, <2>2, <2>3
<1>6. CASE ComparePage(n)
  <2>1. CASE Differing(n) = {}
    BY <1>5, <1>6, <2>1 DEF ComparePage
  <2>2. CASE Differing(n) # {}
    <3>1. got[n].id \notin Ids
      BY <1>6, Sizes DEF ComparePage, Computed, NoHash
    <3>2. Ids \subseteq DOMAIN hashes[n]
      BY <1>6, <3>1 DEF ComparePage, Computed
    <3> QED
      BY <1>6, <2>2, <3>2 DEF ComparePage
  <2> QED
    BY <2>1, <2>2
<1>7. CASE GetTxidsByPartitions(n)
  BY <1>7 DEF GetTxidsByPartitions
<1>8. CASE PageDone(n)
  BY <1>5, <1>8 DEF PageDone
<1>9. ASSUME NEW t \in Tx, SyncTx(n, t)
      PROVE  Covered(n)'
  BY <1>9 DEF SyncTx
<1>10. ASSUME NEW id \in Ids, ComputePartitionHash(n, id)
       PROVE  Covered(n)'
  <2>1. /\ todo'[n] = todo[n] \ {id} /\ got'[n].id = id
        /\ UNCHANGED <<hashes, pc, fetch, dirty>> /\ got[n] = NoHash
    BY <1>10 DEF ComputePartitionHash
  <2>2. got[n].id \notin Ids
    BY <2>1, Sizes DEF NoHash
  <2> QED
    BY <2>1, <2>2
<1> QED
  BY <1>1, <1>2, <1>3, <1>4, <1>6, <1>7, <1>8, <1>9, <1>10 DEF Loop

(* Every step of either node keeps the cover. *)
LEMMA CoverStep ==
    ASSUME RowsOK, LoopOK, CoverInv, [Next]_vars
    PROVE  CoverInv'
<1> SUFFICES ASSUME NEW n \in Node PROVE Covered(n)'
  BY DEF CoverInv, Covered
<1>0. Covered(n)
  BY DEF CoverInv, Covered
<1>1. ASSUME NEW m \in Node, Loop(m)
      PROVE  Covered(n)'
  <2>1. CASE m = n
    BY <1>0, <1>1, <2>1, CoverLoop
  <2>2. CASE m # n
    BY <1>0, <1>1, <2>2, Frame DEF Covered
  <2> QED
    BY <2>1, <2>2
<1>2. ASSUME NEW m \in Node, NEW t \in Tx, AddMsgTxInfo(m, t) \/ SetClosed(m, t) \/ CheckTxState(m, t)
      PROVE  Covered(n)'
  <2>1. UNCHANGED <<hashes, pc, fetch, todo, got>> /\ dirty[n] \subseteq dirty'[n]
    BY <1>2 DEF AddMsgTxInfo, SetClosed, CheckTxState, loop, Mark, LoopOK
  <2> QED
    BY <1>0, <2>1 DEF Covered
<1>3. CASE UNCHANGED <<dirty, hashes, loop>>
  BY <1>0, <1>3 DEF loop, Covered
<1>4. ASSUME NEW m \in Node, ComputeFail(m)
      PROVE  Covered(n)'
  <2>1. CASE m = n
    BY <1>0, <1>4, <2>1 DEF ComputeFail, Computing, Goto, LoopOK, Covered
  <2>2. CASE m # n
    BY <1>0, <1>4, <2>2 DEF ComputeFail, Goto, LoopOK, Covered
  <2> QED
    BY <2>1, <2>2
<1>5. ASSUME NEW m \in Node, PeerFail(m)
      PROVE  Covered(n)'
  <2>1. CASE m = n
    <3>1. fetch'[n] = {} /\ UNCHANGED <<dirty, hashes, todo, got>>
      BY <1>5, <2>1 DEF PeerFail, LoopOK
    <3>2. CASE pc[n] = "unconfirm"
      BY <1>5, <2>1, <3>1, <3>2 DEF PeerFail, Covered
    <3>3. CASE pc[n] # "unconfirm"
      <4>1. pc'[n] \in {"clear", "idle"}
        BY <1>5, <2>1, <3>3 DEF PeerFail, NextPage, Goto, LoopOK
      <4>2. pc[n] = "compute" => got[n].id \notin Ids /\ todo[n] = {}
        BY <1>5, <2>1, Sizes DEF PeerFail, Computed, NoHash
      <4>3. Ids \subseteq DOMAIN hashes[n]
        BY <1>0, <1>5, <2>1, <3>3, <4>2 DEF PeerFail, Covered
      <4> QED
        BY <3>1, <4>1, <4>3 DEF Covered
    <3> QED
      BY <3>2, <3>3
  <2>2. CASE m # n
    <3>1. pc'[n] = pc[n] /\ fetch'[n] = fetch[n] /\ UNCHANGED <<dirty, hashes, todo, got>>
      BY <1>5, <2>2 DEF PeerFail, NextPage, Goto, LoopOK
    <3> QED
      BY <1>0, <3>1 DEF Covered
  <2> QED
    BY <2>1, <2>2
<1> QED
  BY <1>1, <1>2, <1>3, <1>4, <1>5 DEF Next, vars, Disturbance, LoopNext, Check, Mine

(* With all partitions in the collection, the place of one in the order is *)
(* its id.                                                                 *)
LEMMA RankIsId ==
    ASSUME LoopOK, NEW n \in Node, Ids \subseteq DOMAIN hashes[n], NEW id \in Ids
    PROVE  Rank(n, id) = id
<1>1. DOMAIN hashes[n] = Ids
  <2>1. DOMAIN hashes[n] \subseteq Ids
    BY DEF LoopOK, Hashes
  <2> QED
    BY <2>1
<1>2. id \in Nat /\ id < Partitions
  BY Sizes DEF Ids
<1>3. {j \in Ids : j < id} = 0 .. id - 1
  <2>1. ASSUME NEW j PROVE j \in {k \in Ids : k < id} <=> j \in 0 .. id - 1
    BY <1>2, Sizes DEF Ids
  <2> QED
    BY <2>1
<1>4. Cardinality(0 .. id - 1) = id
  BY <1>2, FS_Interval
<1> QED
  BY <1>1, <1>3, <1>4 DEF Rank

(* The comparison of a page misses nothing: a partition that does not      *)
(* differ has nothing that the node has not closed.                        *)
LEMMA PageCompared ==
    ASSUME RowsOK, LoopOK, HashInv, NEW n \in Node, Ids \subseteq DOMAIN hashes[n], UpToDate(Peer(n)),
           NEW id \in Ids, id \in offset[n] .. offset[n] + Compare - 1, id \notin Differing(n)
    PROVE  Has(n, id)
<1> DEFINE peer == Peer(n)
<1>1. peer \in Node
  BY PeerFacts
<1>2. DOMAIN hashes[peer] = Ids /\ hashes[peer][id] = ClosedIn(peer, id)
  BY DEF UpToDate
<1>3. Rank(n, id) = id /\ Rank(peer, id) = id
  BY <1>1, <1>2, RankIsId
<1>4. id \in Page(n, offset[n]) /\ id \in Page(peer, offset[n])
  BY <1>2, <1>3 DEF Page
<1>5. [rank |-> Rank(peer, id), hash |-> hashes[peer][id]] \in GetPartitionsHash(peer, offset[n])
  BY <1>4 DEF GetPartitionsHash
<1> DEFINE other == [rank |-> Rank(peer, id), hash |-> hashes[peer][id]]
<1>6. other.rank = Rank(n, id) /\ other.hash = hashes[peer][id]
  BY <1>3
<1> HIDE DEF other
<1>7. hashes[peer][id] = hashes[n][id]
  BY <1>4, <1>5, <1>6 DEF Differing, other
<1>8. hashes[n][id] \subseteq ClosedIn(n, id)
  BY DEF HashInv
<1> QED
  BY <1>2, <1>7, <1>8 DEF Has, ClosedIn

(* The end of a page. *)
LEMMA PageEnds ==
    ASSUME LoopOK, NEW n \in Node, NextPage(n), pc[n] \notin {"idle", "unconfirm"},
           Has(n, Unconfirm)', \A id \in Ids : id < offset[n] + Compare => Has(n, id)'
    PROVE  Progress(n)'
<1>1. CASE offset[n] + Compare <= Partitions
  <2>1. pc'[n] = "clear" /\ offset'[n] = offset[n] + Compare
    BY <1>1 DEF NextPage, Goto, LoopOK
  <2> QED
    BY <2>1 DEF Progress
<1>2. CASE ~(offset[n] + Compare <= Partitions)
  <2>1. pc'[n] = "idle"
    BY <1>2 DEF NextPage, Goto, LoopOK
  <2>2. \A id \in Ids : id < offset[n] + Compare
    BY <1>2, Sizes DEF Ids, LoopOK
  <2> QED
    BY <2>1, <2>2 DEF Progress
<1> QED
  BY <1>1, <1>2

(* A calm round gets on. *)
LEMMA CalmLoop ==
    ASSUME RowsOK, LoopOK, HeightInv, HashInv, CoverInv, [Next]_vars, NEW n \in Node, Loop(n),
           pc[n] # "idle", Progress(n), UpToDate(Peer(n))
    PROVE  Progress(n)' /\ UpToDate(Peer(n))'
<1> DEFINE peer == Peer(n)
<1>1. peer \in Node /\ peer # n
  BY PeerFacts
<1>2. state'[peer] = state[peer] /\ height'[peer] = height[peer] /\ hashes'[peer] = hashes[peer]
  BY <1>1, Frame
<1>3. \A id \in Ids \cup {Unconfirm} : ClosedIn(peer, id)' = ClosedIn(peer, id)
  BY <1>2 DEF ClosedIn, Closed
<1>4. UpToDate(peer)'
  BY <1>2, <1>3 DEF UpToDate
<1>5. Closed(n) \subseteq Closed(n)'
  BY RowsMoves, Grows
<1>6. \A id \in Ids \cup {Unconfirm} : Has(n, id) => Has(n, id)'
  BY <1>3, <1>5 DEF Has
<1>7. Covered(n)
  BY DEF CoverInv
<1> USE DEF LoopOK, Goto
<1>8. CASE SyncUnconfirmTx(n)
  BY <1>8 DEF SyncUnconfirmTx
<1>9. CASE SyncState(n)
  <2>1. pc[n] = "unconfirm" /\ fetch[n] = {} /\ pc'[n] = "clear" /\ offset'[n] = 0
    BY <1>9 DEF SyncState
  <2>2. Has(n, Unconfirm)
    BY <2>1 DEF Progress, WillHave, Has
  <2>3. \A id \in Ids : ~(id < 0)
    BY Sizes DEF Ids
  <2> QED
    BY <1>4, <1>6, <2>1, <2>2, <2>3 DEF Progress
<1>10. CASE ClearPartitionsCache(n)
  <2>1. UNCHANGED <<offset, ids, fetch>>
    BY <1>10 DEF ClearPartitionsCache
  <2>2. CASE pc[n] = "clear"
    <3>1. pc'[n] = "compute"
      BY <1>10, <2>2 DEF ClearPartitionsCache
    <3> QED
      BY <1>4, <1>6, <2>1, <2>2, <3>1 DEF Progress
  <2>3. CASE pc[n] = "sync" /\ fetch[n] = {}
    <3>1. pc'[n] = "compute2"
      BY <1>10, <2>3 DEF ClearPartitionsCache
    <3>2. \A id \in Ids : WillHave(n, id) => Has(n, id)
      BY <2>3 DEF WillHave, Has
    <3> QED
      BY <1>4, <1>6, <2>1, <2>3, <3>1, <3>2 DEF Progress
  <2> QED
    BY <1>10, <2>2, <2>3 DEF ClearPartitionsCache
<1>11. CASE UNCHANGED <<pc, offset, ids, fetch>>
  <2>1. \A id \in Ids \cup {Unconfirm} : WillHave(n, id) => WillHave(n, id)'
    BY <1>3, <1>5, <1>11 DEF WillHave
  <2> QED
    BY <1>4, <1>6, <1>11, <2>1 DEF Progress
<1>12. CASE ComparePage(n)
  <2>1. pc[n] = "compute" /\ Computed(n) /\ ids'[n] = Differing(n)
    BY <1>12 DEF ComparePage
  <2>2. Ids \subseteq DOMAIN hashes[n]
    <3>1. got[n].id \notin Ids
      BY <2>1, Sizes DEF Computed, NoHash
    <3> QED
      BY <1>7, <2>1, <3>1 DEF Covered, Computed
  <2>3. ASSUME NEW id \in Ids, id < offset[n] + Compare, id \notin Differing(n)
        PROVE  Has(n, id)
    <3>1. CASE id < offset[n]
      BY <2>1, <3>1 DEF Progress
    <3>2. CASE ~(id < offset[n])
      <4>1. id \in offset[n] .. offset[n] + Compare - 1
        BY <2>3, <3>2, Sizes DEF Ids
      <4> QED
        BY <2>2, <2>3, <4>1, PageCompared
    <3> QED
      BY <3>1, <3>2
  <2>4. Has(n, Unconfirm)
    BY <2>1 DEF Progress
  <2>5. CASE Differing(n) = {}
    <3>1. NextPage(n)
      BY <1>12, <2>5 DEF ComparePage
    <3>2. \A id \in Ids : id < offset[n] + Compare => Has(n, id)'
      BY <1>6, <2>3, <2>5
    <3> QED
      BY <1>4, <1>6, <2>1, <2>4, <3>1, <3>2, PageEnds
  <2>6. CASE Differing(n) # {}
    <3>1. pc'[n] = "ask" /\ offset' = offset
      BY <1>12, <2>6 DEF ComparePage
    <3> QED
      BY <1>4, <1>6, <2>1, <2>3, <2>4, <3>1 DEF Progress
  <2> QED
    BY <2>5, <2>6
<1>13. CASE GetTxidsByPartitions(n)
  <2>1. /\ pc[n] = "ask" /\ pc'[n] = "sync" /\ offset' = offset
        /\ fetch'[n] = GetPartitionsTxids(peer, ids[n])
    BY <1>13 DEF GetTxidsByPartitions
  <2>2. ASSUME NEW id \in Ids, id < offset[n] + Compare
        PROVE  WillHave(n, id)'
    <3>1. CASE id \in ids[n]
      <4>1. ClosedIn(peer, id) \subseteq fetch'[n]
        BY <2>1, <3>1 DEF GetPartitionsTxids
      <4> QED
        BY <1>3, <4>1 DEF WillHave
    <3>2. CASE Has(n, id)
      BY <1>3, <1>5, <3>2 DEF Has, WillHave
    <3> QED
      BY <2>1, <2>2, <3>1, <3>2 DEF Progress
  <2> QED
    BY <1>4, <1>6, <2>1, <2>2 DEF Progress
<1>14. CASE PageDone(n)
  <2>1. pc[n] = "compute2" /\ NextPage(n)
    BY <1>14 DEF PageDone
  <2>2. Has(n, Unconfirm)' /\ \A id \in Ids : id < offset[n] + Compare => Has(n, id)'
    BY <1>6, <2>1 DEF Progress
  <2> QED
    BY <1>4, <2>1, <2>2, PageEnds
<1>15. ASSUME NEW t \in Tx, SyncTx(n, t)
       PROVE  Progress(n)' /\ UpToDate(Peer(n))'
  <2>1. /\ fetch'[n] = fetch[n] \ {t} /\ state'[n][t] = "closed"
        /\ UNCHANGED <<pc, offset, ids>>
    BY <1>15 DEF SyncTx, RowsOK
  <2>2. t \in Closed(n)'
    BY <2>1 DEF Closed
  <2>3. \A id \in Ids \cup {Unconfirm} : WillHave(n, id) => WillHave(n, id)'
    BY <1>3, <1>5, <2>1, <2>2 DEF WillHave
  <2> QED
    BY <1>4, <1>6, <2>1, <2>3 DEF Progress
<1> QED
  BY <1>8, <1>9, <1>10, <1>11, <1>12, <1>13, <1>14, <1>15
     DEF Loop, SetPartitionHash, ComputePartitionHash

(* The rest of a calm round: what the peer does meanwhile, and its start. *)
LEMMA RoundStep ==
    ASSUME RowsOK, LoopOK, CalmOK, HeightInv, HashInv, CoverInv, CalmInv, [Next]_vars
    PROVE  CalmInv'
<1> SUFFICES ASSUME NEW n \in Node, calm'[n]
             PROVE  Progress(n)' /\ (pc'[n] # "idle" => UpToDate(Peer(n))')
  BY DEF CalmInv
<1> DEFINE peer == Peer(n)
<1>0. peer \in Node /\ peer # n
  BY PeerFacts
<1>1. ~Disturbance
  BY DEF Disturbance
(* Nothing that this round depends on has changed but the hashes. *)
<1>2. ASSUME calm[n], UNCHANGED <<state, height>>, pc'[n] = pc[n], offset'[n] = offset[n],
             ids'[n] = ids[n], fetch'[n] = fetch[n]
      PROVE  Progress(n)' /\ (pc'[n] # "idle" => UpToDate(peer)')
  <2>1. Progress(n) /\ (pc[n] # "idle" => UpToDate(peer))
    BY <1>2 DEF CalmInv
  <2>2. \A m \in Node : Closed(m)' = Closed(m) /\ \A id : ClosedIn(m, id)' = ClosedIn(m, id)
    BY <1>2 DEF Closed, ClosedIn
  <2>3. \A id : (Has(n, id)' <=> Has(n, id)) /\ (WillHave(n, id)' <=> WillHave(n, id))
    BY <1>0, <1>2, <2>2 DEF Has, WillHave
  <2>4. Progress(n)'
    BY <1>2, <2>1, <2>3 DEF Progress
  <2>5. ASSUME UpToDate(peer)
        PROVE  UpToDate(peer)'
    <3>1. hashes'[peer] = hashes[peer]
      <4>1. CASE /\ got[peer] # NoHash /\ got'[peer] = NoHash
                 /\ hashes'[peer] = UpdatePartitionInfo(hashes[peer], got[peer].id, got[peer].hash)
        <5>1. DOMAIN hashes[peer] = Ids /\ \A id \in Ids : hashes[peer][id] = ClosedIn(peer, id)
          BY <2>5 DEF UpToDate
        <5>2. got[peer].id \in Ids
          BY <1>0, <4>1 DEF LoopOK
        <5>3. got[peer].hash = hashes[peer][got[peer].id]
          <6>1. /\ got[peer].hash \subseteq ClosedIn(peer, got[peer].id)
                /\ hashes[peer][got[peer].id] \subseteq got[peer].hash
            BY <1>0, <4>1, <5>1, <5>2 DEF HashInv
          <6>2. hashes[peer][got[peer].id] = ClosedIn(peer, got[peer].id)
            BY <5>1, <5>2
          <6> QED
            BY <6>1, <6>2
        <5>4. hashes'[peer] = [id \in Ids |-> ClosedIn(peer, id)]
          BY <4>1, <5>1, <5>2, <5>3 DEF UpdatePartitionInfo
        <5> QED
          BY <2>5, <5>4 DEF UpToDate
      <4> QED
        BY <1>0, <4>1, HashMoves DEF HashMove
    <3> QED
      BY <1>0, <2>2, <2>5, <3>1 DEF UpToDate
  <2> QED
    BY <1>2, <2>1, <2>4, <2>5
<1>3. ASSUME NEW m \in Node, LoopNext(m)
      PROVE  Progress(n)' /\ (pc'[n] # "idle" => UpToDate(peer)')
  <2>1. Loop(m)
    BY <1>3 DEF LoopNext
  <2>2. CASE m = n /\ pc[n] = "idle"
    <3>1. UpToDate(peer)
      BY <1>3, <2>2, Zenon DEF LoopNext
    <3>2. fetch[n] = {}
      BY <2>2 DEF CoverInv, Covered
    <3>3. SyncUnconfirmTx(n)
      BY <2>1, <2>2, <3>2
         DEF Loop, SyncState, ClearPartitionsCache, SetPartitionHash, ComparePage, Computing,
             GetTxidsByPartitions, PageDone, SyncTx, ComputePartitionHash
    <3>4. /\ pc'[n] = "unconfirm" /\ fetch'[n] = ClosedIn(peer, Unconfirm)
          /\ UNCHANGED <<state, height, hashes>>
      BY <3>3 DEF SyncUnconfirmTx, GetUnconfirmTxids, Goto, LoopOK, rows
    <3>5. WillHave(n, Unconfirm)' /\ UpToDate(peer)'
      BY <3>1, <3>4 DEF WillHave, UpToDate, ClosedIn, Closed
    <3> QED
      BY <3>4, <3>5 DEF Progress
  <2>3. CASE m = n /\ pc[n] # "idle"
    <3>1. calm[n]
      BY <1>3, <2>3, Zenon DEF LoopNext
    <3>2. Progress(n) /\ UpToDate(peer)
      BY <2>3, <3>1 DEF CalmInv
    <3> QED
      BY <2>1, <2>3, <3>2, CalmLoop
  <2>4. CASE m # n
    <3>1. calm[n] /\ rows' = rows
      BY <1>3, <2>4, Zenon DEF LoopNext
    <3> QED
      BY <1>2, <2>1, <2>4, <3>1, Frame DEF rows
  <2> QED
    BY <2>2, <2>3, <2>4
<1>4. ASSUME NEW m \in Node, NEW t \in Tx, Check(m, t)
      PROVE  Progress(n)' /\ (pc'[n] # "idle" => UpToDate(peer)')
  <2>1. calm[n] /\ rows' = rows
    BY <1>4, Zenon DEF Check
  <2> QED
    BY <1>2, <1>4, <2>1 DEF Check, CheckTxState, loop, rows
<1>5. CASE UNCHANGED vars
  BY <1>2, <1>5 DEF vars, rows, loop
<1> QED
  BY <1>1, <1>3, <1>4, <1>5 DEF Next

(* A calm round of SyncState, over any number of pages and partitions and  *)
(* whatever the own node learns meanwhile, leaves no closed transaction of *)
(* the peer out.                                                           *)
THEOREM RoundCatchesUpAlways == Spec => []RoundCatchesUp
<1> DEFINE Parts == RowsOK /\ LoopOK /\ CalmOK
<1>1. Init => SyncInv
  <2> SUFFICES ASSUME Init PROVE SyncInv
    OBVIOUS
  <2>1. HeightInv
    BY Sizes DEF Init, HeightInv
  <2>2. HashInv /\ CoverInv
    BY DEF Init, HashInv, CoverInv, Covered
  <2>3. CalmInv
    BY DEF Init, CalmInv
  <2> QED
    BY <2>1, <2>2, <2>3 DEF SyncInv
<1>2. Parts /\ SyncInv /\ [Next]_vars => SyncInv'
  BY RowsMoves, Grows, HashStep, CoverStep, RoundStep DEF SyncInv
<1>3. Parts /\ SyncInv => RoundCatchesUp
  <2> SUFFICES ASSUME Parts, SyncInv, NEW n \in Node, pc[n] = "idle", calm[n],
                      NEW t \in Closed(Peer(n))
               PROVE  t \in Closed(n)
    BY DEF RoundCatchesUp
  <2>1. Has(n, Unconfirm) /\ \A id \in Ids : Has(n, id)
    BY DEF SyncInv, CalmInv, Progress
  <2>2. t \in Tx /\ height[Peer(n)][t] \in {Unconfirm} \cup Ids
    BY PeerFacts DEF RowsOK, Closed
  <2>3. t \in ClosedIn(Peer(n), height[Peer(n)][t])
    BY DEF ClosedIn
  <2> QED
    BY <2>1, <2>2, <2>3 DEF Has
<1>4. TypeOK => Parts
  BY TypeParts
<1> HIDE DEF Parts
<1> QED
  BY <1>1, <1>2, <1>3, <1>4, TypeCorrect, PTL DEF Spec
=============================================================================
