------------------------- MODULE ConfirmationsProofs -------------------------
(***************************************************************************)
(* SetSpent marks the vout before the vin, so that no reader of the        *)
(* collection ever takes a spent badge for a utxo, for any number of       *)
(* transactions, depths, faults and blocks.                                *)
(***************************************************************************)
EXTENDS Confirmations, TLAPS

(* The types of what SetSpent and the workers write. *)
PointsOK ==
    /\ vin \in [Tx -> {"none", "unspent", "spent"}]
    /\ vout \in [Badges -> {"unspent", "spent"}]
    /\ spc \in {"vout", "vin"} => point \in Tx

(* A vin point is marked only when the vout it spends is. *)
VoutFirst ==
    /\ \A t \in Tx : vin[t] = "spent" => vout[Out[t]] = "spent"
    /\ spc = "vin" => vout[Out[point]] = "spent"

MarkInv == PointsOK /\ VoutFirst

(* What most steps leave alone. *)
LEMMA Others ==
    ASSUME MarkInv, UNCHANGED <<vin, vout, spc, point>>
    PROVE  MarkInv'
BY DEF MarkInv, PointsOK, VoutFirst

(* No vin point is marked when the process starts. *)
LEMMA MarkInit == Init => MarkInv
BY DEF Init, MarkInv, PointsOK, VoutFirst

(* A worker writes only points that are unspent. *)
LEMMA MarkSync ==
    ASSUME MarkInv, SyncNext
    PROVE  MarkInv'
<1>1. PICK t \in Tx : LookupTx(t) \/ AddMsgTxInfo(t) \/ RLock(t) \/ LockedNext(t) \/ SyncFail(t)
  BY DEF SyncNext
<1>2. CASE AddTxPoint(t)
  BY <1>2 DEF AddTxPoint, checker, spender, MarkInv, PointsOK, VoutFirst
<1>3. CASE LookupTx(t) \/ AddMsgTxInfo(t) \/ RLock(t) \/ SetMsgTxState(t) \/ SyncFail(t)
  BY <1>3, Others DEF LookupTx, AddMsgTxInfo, RLock, SetMsgTxState, SyncFail, db, spender
<1>4. QED
  BY <1>1, <1>2, <1>3 DEF LockedNext

(* CheckTxState deletes points and marks none. *)
LEMMA MarkCheck ==
    ASSUME MarkInv, CheckNext
    PROVE  MarkInv'
<1>1. CASE DeleteTxPoints
  BY <1>1 DEF DeleteTxPoints, spender, MarkInv, PointsOK, VoutFirst
<1>2. CASE CheckTxState \/ CheckDone \/ Lock \/ DeleteMsgTx \/ CheckFail
  BY <1>2, Others DEF CheckTxState, CheckDone, Lock, DeleteMsgTx, CheckFail, db, spender
<1>3. CASE \E t \in Tx : CheckTx(t) \/ CheckTxOtherFailure(t)
  BY <1>3, Others DEF CheckTx, CheckTxOtherFailure, spender
<1>4. QED
  BY <1>1, <1>2, <1>3 DEF CheckNext, CheckProgress

(* SetSpent goes from the vout to the vin, and leaves the loop between.    *)
LEMMA MarkSpent ==
    ASSUME MarkInv, SpentNext
    PROVE  MarkInv'
<1>1. CASE \E old \in SUBSET Tx : SetSpent(old)
  BY <1>1 DEF SetSpent, db, MarkInv, PointsOK, VoutFirst
<1>2. CASE SetSpentDone \/ SetSpentFail
  BY <1>2 DEF SetSpentDone, SetSpentFail, SetSpentReturn, db, MarkInv, PointsOK, VoutFirst
<1>3. ASSUME NEW t \in Tx, SpentBrief(t)
      PROVE  MarkInv'
  BY <1>3 DEF SpentBrief, SetSpentReturn, db, MarkInv, PointsOK, VoutFirst
<1>4. CASE SetVoutSpent
  <2>1. point \in Tx /\ Out[point] \in Badges
    BY <1>4 DEF SetVoutSpent, MarkInv, PointsOK, Badges
  <2>2. vout'[Out[point]] = "spent" /\ \A o \in Badges : vout[o] = "spent" => vout'[o] = "spent"
    BY <1>4, <2>1 DEF SetVoutSpent, MarkInv, PointsOK
  <2>3. \A t \in Tx : Out[t] \in Badges
    BY DEF Badges
  <2>4. QED
    BY <1>4, <2>1, <2>2, <2>3 DEF SetVoutSpent, MarkInv, PointsOK, VoutFirst
<1>5. CASE SetVinSpent
  BY <1>5 DEF SetVinSpent, SetSpentReturn, MarkInv, PointsOK, VoutFirst
<1>6. QED
  BY <1>1, <1>2, <1>3, <1>4, <1>5 DEF SpentNext, SpentProgress

(* Every step keeps the marks. *)
LEMMA MarkNext == MarkInv /\ [Next]_vars => MarkInv'
<1>1. SUFFICES ASSUME MarkInv, [Next]_vars
               PROVE  MarkInv'
  OBVIOUS
<1>2. CASE ChainNext
  BY <1>1, <1>2, Others DEF ChainNext, Appear, Evict, Mine, Reorg, db, spender
<1>3. CASE Crash
  BY <1>1, <1>3 DEF Crash, SetSpentReturn, db, MarkInv, PointsOK, VoutFirst
<1>4. CASE UNCHANGED vars
  BY <1>1, <1>4, Others DEF vars, db, spender
<1>5. QED
  BY <1>1, <1>2, <1>3, <1>4, MarkSync, MarkCheck, MarkSpent DEF Next

(* The points show a spent badge as spent at every moment: between the two *)
(* updates of SetSpent, after a crash between them, during ClearMsgTx.     *)
THEOREM SpentIsNoUtxoHolds == Spec => []SpentIsNoUtxo
<1>1. MarkInv => SpentIsNoUtxo
  BY DEF MarkInv, PointsOK, VoutFirst, SpentIsNoUtxo, Utxos
<1>2. QED
  BY <1>1, MarkInit, MarkNext, PTL DEF Spec

-----------------------------------------------------------------------------
(* Type correctness, in three parts. *)

ChainOK ==
    /\ tip \in StartTip .. MaxTip
    /\ where \in [Tx -> {Gone, Mempool} \cup StartTip .. tip]
    /\ strayed \subseteq Tx
    /\ seen \in [Tx -> {Gone, Mempool} \cup StartTip .. tip]
    /\ row \in [Tx -> {Absent} \cup Heights]
    /\ faults \in 0 .. MaxFaults
    /\ ctip \in {0} \cup StartTip .. tip
    /\ stip \in {0} \cup StartTip .. tip

PlaceOK ==
    /\ work \in [Tx -> {"no", "looked", "locked", "added"}]
    /\ cpc \in {"idle", "round", "lock", "points", "row"}
    /\ spc \in {"idle", "iter", "vout", "vin"}
    /\ closed \subseteq Tx
    /\ briefs \subseteq Tx
    /\ iter \subseteq Tx
    /\ victim \in Tx \cup {NoTx}
    /\ point \in Tx \cup {NoTx}

(* The parts of the type invariant. *)
LEMMA TypeParts == TypeOK <=> ChainOK /\ PlaceOK /\ vin \in [Tx -> {"none", "unspent", "spent"}]
                                              /\ vout \in [Badges -> {"unspent", "spent"}]
BY DEF TypeOK, ChainOK, PlaceOK

(* The chain grows, and nobody stores a height that no block has. *)
LEMMA ChainStep ==
    ASSUME DepthAssumption, ChainOK, PlaceOK, Next
    PROVE  ChainOK'
<1> USE DEF DepthAssumption, ChainOK, Gone, Mempool, Absent, UNCONFIRM_TX_HEIGHT, Heights
<1>1. ASSUME NEW t \in Tx, Appear(t) \/ Evict(t)
      PROVE  ChainOK'
  BY <1>1 DEF Appear, Evict, sync, db, checker, spender
<1>2. ASSUME NEW ts \in SUBSET Tx, Mine(ts) \/ \E d \in 1 .. MaxReorg : Reorg(d, ts)
      PROVE  ChainOK'
  BY <1>2 DEF Mine, Reorg, NextBlockFits, sync, db, checker, spender
<1>3. ASSUME NEW t \in Tx, LookupTx(t) \/ RLock(t) \/ LockedNext(t) \/ SyncFail(t)
      PROVE  ChainOK'
  BY <1>3 DEF LookupTx, RLock, LockedNext, AddTxPoint, SetMsgTxState, SyncFail, chainVars, db, checker, spender
<1>4. ASSUME NEW t \in Tx, AddMsgTxInfo(t)
      PROVE  ChainOK'
  BY <1>4 DEF AddMsgTxInfo, chainVars, checker, spender
<1>5. ASSUME NEW t \in Tx, CheckTx(t)
      PROVE  ChainOK'
  BY <1>5 DEF CheckTx, SetMsgTxHeightHash, chainVars, sync, spender
<1>6. ASSUME NEW t \in Tx, CheckTxOtherFailure(t)
      PROVE  ChainOK'
  BY <1>6 DEF CheckTxOtherFailure, Fault, chainVars, sync, spender
<1>7. CASE CheckTxState \/ CheckDone \/ Lock \/ DeleteTxPoints \/ DeleteMsgTx
  BY <1>7 DEF CheckTxState, CheckDone, CheckReturn, Lock, DeleteTxPoints, DeleteMsgTx, chainVars, sync, db, spender
<1>8. CASE CheckFail \/ SetSpentFail \/ Crash
  BY <1>8 DEF CheckFail, SetSpentFail, Crash, Fault, CheckReturn, SetSpentReturn, chainVars, sync, db,
              checker, spender
<1>9. ASSUME NEW t \in Tx, SpentBrief(t)
      PROVE  ChainOK'
  BY <1>9 DEF SpentBrief, SetSpentReturn, chainVars, sync, db, checker
<1>10. ASSUME NEW old \in SUBSET Tx, SetSpent(old)
       PROVE  ChainOK'
  BY <1>10 DEF SetSpent, chainVars, sync, db, checker
<1>11. CASE SetVoutSpent \/ SetVinSpent \/ SetSpentDone
  BY <1>11 DEF SetVoutSpent, SetVinSpent, SetSpentDone, SetSpentReturn, chainVars, sync, db, checker
<1> HIDE DEF ChainOK
<1>12. QED
  BY <1>1, <1>2, <1>3, <1>4, <1>5, <1>6, <1>7, <1>8, <1>9, <1>10, <1>11
     DEF Next, ChainNext, SyncNext, CheckNext, CheckProgress, SpentNext, SpentProgress

(* The loops and the workers stay where there is a next step. *)
LEMMA PlaceStep ==
    ASSUME PlaceOK, Next
    PROVE  PlaceOK'
<1> USE DEF PlaceOK
<1>1. CASE ChainNext
  BY <1>1 DEF ChainNext, Appear, Evict, Mine, Reorg, sync, db, checker, spender
<1>2. ASSUME NEW t \in Tx, LookupTx(t) \/ AddMsgTxInfo(t) \/ RLock(t) \/ LockedNext(t) \/ SyncFail(t)
      PROVE  PlaceOK'
  BY <1>2 DEF LookupTx, AddMsgTxInfo, RLock, LockedNext, AddTxPoint, SetMsgTxState, SyncFail,
              db, checker, spender
<1>3. ASSUME NEW t \in Tx, CheckTx(t) \/ CheckTxOtherFailure(t)
      PROVE  PlaceOK'
  BY <1>3 DEF CheckTx, CheckTxOtherFailure, sync, spender
<1>4. CASE CheckTxState \/ CheckDone \/ Lock \/ DeleteTxPoints \/ DeleteMsgTx
  BY <1>4 DEF CheckTxState, CheckDone, CheckReturn, Lock, DeleteTxPoints, DeleteMsgTx, sync, db, spender
<1>5. CASE CheckFail \/ SetSpentFail \/ Crash
  BY <1>5 DEF CheckFail, SetSpentFail, Crash, CheckReturn, SetSpentReturn, sync, db, checker, spender
<1>6. ASSUME NEW t \in Tx, SpentBrief(t)
      PROVE  PlaceOK'
  BY <1>6 DEF SpentBrief, SetSpentReturn, sync, db, checker
<1>7. ASSUME NEW old \in SUBSET Tx, SetSpent(old)
      PROVE  PlaceOK'
  BY <1>7 DEF SetSpent, sync, db, checker
<1>8. CASE SetVoutSpent \/ SetVinSpent \/ SetSpentDone
  BY <1>8 DEF SetVoutSpent, SetVinSpent, SetSpentDone, SetSpentReturn, sync, db, checker
<1> HIDE DEF PlaceOK
<1>9. QED
  BY <1>1, <1>2, <1>3, <1>4, <1>5, <1>6, <1>7, <1>8
     DEF Next, SyncNext, CheckNext, CheckProgress, SpentNext, SpentProgress

(* Everything keeps its type, for every chain and every bound: in          *)
(* particular CheckTxState stores no height but -1, 0 and that of a block. *)
THEOREM TypeCorrect == Spec => []TypeOK
<1> DEFINE TInv == ChainOK /\ PlaceOK
<1>1. Init => TInv
  BY DepthAssumption DEF Init, ChainOK, PlaceOK, DepthAssumption
<1>2. TInv /\ [Next]_vars => TInv'
  <2>1. TInv /\ Next => TInv'
    BY DepthAssumption, ChainStep, PlaceStep
  <2>2. TInv /\ UNCHANGED vars => TInv'
    BY DEF ChainOK, PlaceOK, vars, chainVars, sync, db, checker, spender
  <2>3. QED
    BY <2>1, <2>2
<1>3. TInv /\ MarkInv => TypeOK
  BY TypeParts DEF MarkInv, PointsOK
<1> HIDE DEF TInv
<1>4. QED
  BY <1>1, <1>2, <1>3, MarkInit, MarkNext, PTL DEF Spec

-----------------------------------------------------------------------------
(* ClearMsgTx never removes the spender of a badge that SetSpent marked.   *)
(* The argument compares the two windows: a transaction that a round of    *)
(* CheckTxState looks at is at most CheckDepth + MaxLag blocks deep, one   *)
(* that SetSpent trusts is more than SpentDepth blocks deep.               *)

(* ClearMsgTx is about to remove t. *)
Doomed(t) == cpc \in {"lock", "points", "row"} /\ t = victim

(* The height is that of a block that SetSpent, which began at the height  *)
(* top, trusts.                                                            *)
Deep(h, top) == h >= StartTip /\ h < top - SpentDepth

(* A round lasts at most MaxLag blocks. *)
RoundInv ==
    /\ cpc = "idle" => briefs = {}
    /\ cpc # "idle" => ctip \in StartTip .. tip /\ tip <= ctip + MaxLag

(* What the round still looks at, or has begun to remove, is in its window;*)
(* mapi did not know the transaction it removes when the round began, nor  *)
(* in a block of that time since.                                          *)
WindowInv ==
    \A t \in Tx :
        /\ t \in briefs \/ Doomed(t) => row[t] = UNCONFIRM_TX_HEIGHT \/ row[t] >= ctip - CheckDepth
        /\ Doomed(t) => t \notin briefs /\ ~(where[t] \in StartTip .. ctip)

(* A worker that has an answer of mapi will find no row. *)
SeenInv == \A t \in Tx : seen[t] # Gone => row[t] = Absent

(* A point that was removed after SetSpent began will not be trusted: not  *)
(* by its row, nor by what the row may become.                             *)
IterInv ==
    /\ spc = "idle" => iter = {}
    /\ \A t \in iter : vin[t] = "none" =>
           ~Deep(row[t], stip) /\ ~Deep(where[t], stip) /\ ~Deep(seen[t], stip)

(* A transaction that counts as the spender for good. *)
Settled(t, top) == row[t] = Mempool \/ (vin[t] # "none" /\ Deep(row[t], top))

(* SetSpent marks a vout, and its vin, only for such a transaction. *)
PointInv == spc \in {"vout", "vin"} => point \in Tx /\ Settled(point, stip)

(* Every marked vout has one. *)
SpenderInv ==
    \A o \in Badges : vout[o] = "spent" => \E t \in Tx : Out[t] = o /\ Settled(t, tip)

(* What is stored or on its way of a transaction that no reorganisation    *)
(* has met: nothing of a block, or the block it is in.                     *)
StrayInv ==
    \A t \in Tx \ strayed :
        /\ row[t] \in {Absent, UNCONFIRM_TX_HEIGHT} \/ (Mined(t) /\ row[t] \in {Mempool, where[t]})
        /\ seen[t] \in {Gone, Mempool} \/ (Mined(t) /\ seen[t] = where[t])

DepthInv == RoundInv /\ WindowInv /\ SeenInv /\ IterInv /\ PointInv /\ SpenderInv /\ StrayInv

(* What a step may do to the height of a row: AddMsgTxInfo stores what mapi *)
(* said, CheckTxState what it says now, ClearMsgTx removes it.             *)
RowMove ==
    \A u \in Tx :
        \/ row'[u] = row[u]
        \/ /\ row[u] = Absent /\ seen[u] # Gone /\ seen'[u] = Gone
           /\ row'[u] = UNCONFIRM_TX_HEIGHT \/ (row'[u] = seen[u] /\ seen[u] # Mempool)
        \/ /\ u \in briefs /\ u \notin briefs' /\ ~Doomed(u)' /\ row'[u] \in {Mempool, where[u]} \ {Gone}
           /\ row'[u] = Mempool => row[u] # UNCONFIRM_TX_HEIGHT
        \/ Doomed(u) /\ ~Doomed(u)' /\ row'[u] = Absent

(* To the chain, and to the answers of mapi that are on their way. *)
ChainMove ==
    /\ \/ tip' = tip
       \/ tip' = tip + 1 /\ NextBlockFits /\ UNCHANGED <<cpc, ctip, stip>>
    /\ \A u \in Tx : where'[u] \in {where[u], Gone, Mempool} \/ where'[u] > tip
    /\ \A u \in Tx : u \notin strayed' => u \notin strayed /\ (Mined(u) => where'[u] = where[u])
    /\ \A u \in Tx : \/ seen'[u] \in {seen[u], Gone}
                     \/ row[u] = Absent /\ row'[u] = Absent /\ seen'[u] = where[u]

(* To the round of CheckTxState: it ends, begins or gets on. *)
RoundMove ==
    \/ cpc' = "idle" /\ briefs' = {}
    \/ /\ cpc = "idle" /\ cpc' = "round" /\ ctip' = tip
       /\ briefs' \subseteq {t \in Tx : row[t] # Absent /\ InWindow(row[t], tip)}
       /\ UNCHANGED <<tip, row>>
    \/ /\ ctip' = ctip /\ briefs' \subseteq briefs /\ (cpc' = "idle" <=> cpc = "idle")
       /\ \A u \in Tx : Doomed(u)' =>
              \/ Doomed(u)
              \/ u \in briefs /\ u \notin briefs' /\ where'[u] = Gone /\ row'[u] = row[u]

(* To a vin point: only ClearMsgTx removes one, only SetSpent marks one. *)
VinMove ==
    /\ \A u \in Tx : vin'[u] = "none" =>
           vin[u] = "none" \/ (Doomed(u) /\ UNCHANGED <<tip, where, seen, row, stip, iter>>)
    /\ \A u \in Tx : vin'[u] = "spent" => vin[u] = "spent" \/ (spc = "vin" /\ u = point)

(* To the loop of SetSpent. *)
IterMove ==
    /\ \/ iter' \subseteq iter /\ stip' = stip
       \/ iter' = {}
       \/ \A t \in iter' : vin'[t] = "unspent"
    /\ spc' = "idle" => iter' = {} \/ (spc = "idle" /\ iter' = iter)

(* To what SetSpent is about to mark, and to what it has marked. *)
MarkMove ==
    /\ spc' \in {"vout", "vin"} =>
           \/ spc \in {"vout", "vin"} /\ UNCHANGED <<point, stip>>
           \/ /\ point' \in iter /\ row[point'] # Absent /\ ~TooFresh(row[point'], stip)
              /\ UNCHANGED <<row, vin, stip>>
    /\ \A o \in Badges : vout'[o] = "spent" =>
           vout[o] = "spent" \/ (spc = "vout" /\ o = Out[point] /\ UNCHANGED <<tip, row, vin>>)

Moves == RowMove /\ ChainMove /\ RoundMove /\ VinMove /\ IterMove /\ MarkMove

(* The steps of the chain. *)
LEMMA ChainMoves ==
    ASSUME DepthAssumption, ChainOK, PlaceOK, PointsOK, ChainNext
    PROVE  Moves
<1>1. UNCHANGED <<seen, work, row, vin, vout, cpc, ctip, briefs, victim, spc, stip, iter, point>>
  BY DEF ChainNext, Appear, Evict, Mine, Reorg, sync, db, checker, spender
<1>2. RowMove /\ RoundMove /\ VinMove /\ IterMove /\ MarkMove
  BY <1>1 DEF RowMove, RoundMove, VinMove, IterMove, MarkMove, Doomed
<1>3. \/ tip' = tip
      \/ tip' = tip + 1 /\ NextBlockFits
  BY DEF ChainNext, Appear, Evict, Mine, Reorg
<1>4. \A u \in Tx : where'[u] \in {where[u], Gone, Mempool} \/ where'[u] > tip
  <2>1. ASSUME NEW t \in Tx, Appear(t) \/ Evict(t), NEW u \in Tx
        PROVE  where'[u] \in {where[u], Gone, Mempool}
    BY <2>1 DEF Appear, Evict, ChainOK
  <2>2. ASSUME NEW ts \in SUBSET Tx, Mine(ts), NEW u \in Tx
        PROVE  where'[u] = where[u] \/ where'[u] = tip + 1
    BY <2>2 DEF Mine
  <2>3. ASSUME NEW ts \in SUBSET Tx, NEW d \in 1 .. MaxReorg, Reorg(d, ts), NEW u \in Tx
        PROVE  where'[u] \in {where[u], Mempool}
    BY <2>3 DEF Reorg
  <2>4. tip \in Int
    BY DEF ChainOK, DepthAssumption
  <2> QED
    BY <2>1, <2>2, <2>3, <2>4 DEF ChainNext
<1>5. \A u \in Tx : u \notin strayed' => u \notin strayed /\ (Mined(u) => where'[u] = where[u])
  <2>1. ASSUME NEW t \in Tx, Appear(t) \/ Evict(t), NEW u \in Tx, Mined(u)
        PROVE  where'[u] = where[u] /\ strayed' = strayed
    <3>1. where[t] = Gone \/ where[t] = Mempool
      BY <2>1 DEF Appear, Evict
    <3>2. u # t
      BY <2>1, <3>1 DEF Mined, Gone, Mempool
    <3> QED
      BY <2>1, <3>2 DEF Appear, Evict, ChainOK
  <2>2. ASSUME NEW ts \in SUBSET Tx, Mine(ts), NEW u \in Tx, Mined(u)
        PROVE  where'[u] = where[u]
    BY <2>2 DEF Mine, Mined, Mempool
  <2>3. ASSUME NEW ts \in SUBSET Tx, NEW d \in 1 .. MaxReorg, Reorg(d, ts), NEW u \in Tx, u \notin strayed'
        PROVE  u \notin strayed /\ where'[u] = where[u]
    BY <2>3 DEF Reorg
  <2>4. (\E t \in Tx : Appear(t) \/ Evict(t)) \/ (\E ts \in SUBSET Tx : Mine(ts)) => strayed' = strayed
    BY DEF Appear, Evict, Mine
  <2> QED
    BY <2>1, <2>2, <2>3, <2>4 DEF ChainNext
<1> QED
  BY <1>1, <1>2, <1>3, <1>4, <1>5 DEF Moves, ChainMove

(* The steps of SyncTxs. *)
LEMMA SyncMoves ==
    ASSUME DepthAssumption, ChainOK, PlaceOK, PointsOK, SyncNext
    PROVE  Moves
<1>1. PICK t \in Tx : LookupTx(t) \/ AddMsgTxInfo(t) \/ RLock(t) \/ LockedNext(t) \/ SyncFail(t)
  BY DEF SyncNext
<1>2. UNCHANGED <<tip, where, strayed, vout, cpc, ctip, briefs, victim, spc, stip, iter, point>>
  BY <1>1 DEF LookupTx, AddMsgTxInfo, RLock, LockedNext, AddTxPoint, SetMsgTxState, SyncFail,
              chainVars, db, checker, spender
<1>3. RoundMove /\ IterMove /\ MarkMove
  BY <1>2 DEF RoundMove, IterMove, MarkMove, Doomed
<1>4. VinMove
  BY <1>1 DEF VinMove, PointsOK, LookupTx, AddMsgTxInfo, RLock, LockedNext, AddTxPoint,
              SetMsgTxState, SyncFail, db
<1>5. RowMove /\ \A u \in Tx : \/ seen'[u] \in {seen[u], Gone}
                               \/ row[u] = Absent /\ row'[u] = Absent /\ seen'[u] = where[u]
  <2>1. CASE RLock(t) \/ LockedNext(t)
    BY <2>1 DEF RowMove, RLock, LockedNext, AddTxPoint, SetMsgTxState, db
  <2>2. CASE LookupTx(t)
    BY <2>2 DEF RowMove, LookupTx, db, ChainOK
  <2>3. CASE SyncFail(t)
    BY <2>3 DEF RowMove, SyncFail, db, ChainOK
  <2>4. CASE AddMsgTxInfo(t)
    BY <2>4 DEF RowMove, AddMsgTxInfo, ChainOK
  <2> QED
    BY <1>1, <2>1, <2>2, <2>3, <2>4
<1> QED
  BY <1>2, <1>3, <1>4, <1>5 DEF Moves, ChainMove

(* The steps of CheckTxState and ClearMsgTx. *)
LEMMA CheckMoves ==
    ASSUME DepthAssumption, ChainOK, PlaceOK, PointsOK, CheckNext
    PROVE  Moves
<1>1. UNCHANGED <<tip, where, strayed, seen, vout, spc, stip, iter, point>>
  BY DEF CheckNext, CheckProgress, CheckTxState, CheckDone, Lock, DeleteTxPoints, DeleteMsgTx, CheckTx,
         CheckFail, CheckTxOtherFailure, chainVars, sync, db, spender
<1>2. ChainMove /\ IterMove /\ MarkMove
  BY <1>1 DEF ChainMove, IterMove, MarkMove
<1>3. VinMove
  <2>1. CASE DeleteTxPoints
    BY <1>1, <2>1 DEF VinMove, DeleteTxPoints, Doomed, PointsOK
  <2>2. CASE UNCHANGED vin
    BY <2>2 DEF VinMove
  <2> QED
    BY <2>1, <2>2 DEF CheckNext, CheckProgress, CheckTxState, CheckDone, Lock, DeleteMsgTx, CheckTx,
                      CheckFail, CheckTxOtherFailure, db
<1>4. RowMove /\ RoundMove
  <2>1. CASE CheckDone \/ CheckFail
    BY <2>1 DEF RowMove, RoundMove, CheckDone, CheckFail, CheckReturn, db
  <2>2. CASE CheckTxState
    BY <1>1, <2>2 DEF RowMove, RoundMove, CheckTxState, db
  <2>3. CASE Lock \/ DeleteTxPoints
    BY <2>3 DEF RowMove, RoundMove, Lock, DeleteTxPoints, Doomed, db
  <2>4. CASE DeleteMsgTx
    BY <2>4 DEF RowMove, RoundMove, DeleteMsgTx, Doomed, ChainOK
  <2>5. ASSUME NEW t \in Tx, CheckTx(t)
        PROVE  RowMove /\ RoundMove
    <3>1. CASE where[t] = Gone
      BY <1>1, <2>5, <3>1 DEF RowMove, RoundMove, CheckTx, Doomed
    <3>2. CASE where[t] # Gone
      <4>1. briefs' = briefs \ {t} /\ t \in briefs /\ cpc = "round" /\ UNCHANGED <<ctip, cpc, victim>>
        BY <2>5, <3>2 DEF CheckTx
      <4>2. row' = row \/ row' = [row EXCEPT ![t] = where[t]]
        BY <2>5, <3>2 DEF CheckTx, SetMsgTxHeightHash
      <4>3. row' = row \/ ~(where[t] = Mempool /\ row[t] = UNCONFIRM_TX_HEIGHT)
        BY <2>5, <3>2 DEF CheckTx, SetMsgTxHeightHash
      <4> QED
        BY <3>2, <4>1, <4>2, <4>3 DEF RowMove, RoundMove, Doomed, ChainOK
    <3> QED
      BY <3>1, <3>2
  <2>6. ASSUME NEW t \in Tx, CheckTxOtherFailure(t)
        PROVE  RowMove /\ RoundMove
    <3>1. briefs' = briefs \ {t} /\ t \in briefs /\ cpc = "round" /\ UNCHANGED <<ctip, cpc, victim>>
      BY <2>6 DEF CheckTxOtherFailure
    <3>2. row' = row \/ (row' = [row EXCEPT ![t] = Mempool] /\ row[t] # UNCONFIRM_TX_HEIGHT)
      BY <2>6 DEF CheckTxOtherFailure
    <3> QED
      BY <3>1, <3>2 DEF RowMove, RoundMove, Doomed, ChainOK, Mempool, Gone
  <2> QED
    BY <2>1, <2>2, <2>3, <2>4, <2>5, <2>6 DEF CheckNext, CheckProgress
<1> QED
  BY <1>2, <1>3, <1>4 DEF Moves

(* The steps of SetSpent. *)
LEMMA SpentMoves ==
    ASSUME DepthAssumption, ChainOK, PlaceOK, PointsOK, SpentNext
    PROVE  Moves
<1>1. UNCHANGED <<tip, where, strayed, seen, row, cpc, ctip, briefs, victim>>
  BY DEF SpentNext, SpentProgress, SetSpent, SpentBrief, SetVoutSpent, SetVinSpent, SetSpentDone,
         SetSpentFail, chainVars, sync, db, checker
<1>2. RowMove /\ RoundMove /\ ChainMove
  BY <1>1 DEF RowMove, RoundMove, ChainMove, Doomed
<1>3. ASSUME NEW old \in SUBSET Tx, SetSpent(old)
      PROVE  VinMove /\ IterMove /\ MarkMove
  <2>1. spc' = "iter" /\ UNCHANGED <<vin, vout>> /\ (\A t \in iter' : vin'[t] = "unspent")
    BY <1>3 DEF SetSpent, db
  <2> QED
    BY <2>1 DEF VinMove, IterMove, MarkMove
<1>4. CASE SetSpentDone \/ SetSpentFail
  <2>1. spc' = "idle" /\ iter' = {} /\ UNCHANGED <<vin, vout>>
    BY <1>4 DEF SetSpentDone, SetSpentFail, SetSpentReturn, db
  <2> QED
    BY <1>2, <2>1 DEF VinMove, IterMove, MarkMove, Moves
<1>5. ASSUME NEW t \in Tx, SpentBrief(t)
      PROVE  VinMove /\ IterMove /\ MarkMove
  <2>1. UNCHANGED <<row, vin, vout>>
    BY <1>5 DEF SpentBrief, db
  <2>2. \/ spc' = "idle" /\ iter' = {}
        \/ spc' = "iter" /\ iter' \subseteq iter /\ stip' = stip
        \/ /\ point' \in iter /\ row[point'] # Absent /\ ~TooFresh(row[point'], stip)
           /\ spc' = "vout" /\ iter' \subseteq iter /\ stip' = stip
    BY <1>5 DEF SpentBrief, SetSpentReturn
  <2> QED
    BY <2>1, <2>2 DEF VinMove, IterMove, MarkMove
<1>6. CASE SetVoutSpent
  <2>1. spc = "vout" /\ spc' = "vin" /\ UNCHANGED <<vin, iter, stip, point>>
    BY <1>6 DEF SetVoutSpent
  <2>2. \A o \in Badges : vout'[o] = "spent" => vout[o] = "spent" \/ o = Out[point]
    BY <1>6 DEF SetVoutSpent, PointsOK
  <2> QED
    BY <1>1, <1>2, <2>1, <2>2 DEF VinMove, IterMove, MarkMove, Moves
<1>7. CASE SetVinSpent
  <2>1. \A u \in Tx : (vin'[u] = "spent" /\ u = point) \/ vin'[u] = vin[u]
    <3>1. vin' = vin \/ vin' = [vin EXCEPT ![point] = "spent"]
      BY <1>7 DEF SetVinSpent
    <3>2. vin' = [vin EXCEPT ![point] = "spent"] =>
              \A u \in Tx : (vin'[u] = "spent" /\ u = point) \/ vin'[u] = vin[u]
      BY DEF PointsOK
    <3> QED
      BY <3>1, <3>2
  <2>2. spc = "vin" /\ UNCHANGED vout /\ spc' \notin {"vout", "vin"} /\ (iter' = {} \/ (spc' = "iter" /\ UNCHANGED <<iter, stip>>))
    BY <1>7 DEF SetVinSpent, SetSpentReturn
  <2> QED
    BY <1>2, <2>1, <2>2 DEF VinMove, IterMove, MarkMove, Moves
<1> QED
  BY <1>2, <1>3, <1>4, <1>5, <1>6, <1>7 DEF SpentNext, SpentProgress, Moves

(* Every step is made of such moves. *)
LEMMA EveryMove ==
    ASSUME ChainOK, PlaceOK, PointsOK, [Next]_vars
    PROVE  Moves
<1>1. CASE Crash
  BY <1>1 DEF Crash, CheckReturn, SetSpentReturn, chainVars, db, Moves, RowMove, ChainMove, RoundMove,
              VinMove, IterMove, MarkMove, ChainOK
<1>2. CASE UNCHANGED vars
  BY <1>2 DEF vars, chainVars, sync, db, checker, spender, Moves, RowMove, ChainMove, RoundMove,
              VinMove, IterMove, MarkMove, Doomed
<1> QED
  BY <1>1, <1>2, DepthAssumption, ChainMoves, SyncMoves, CheckMoves, SpentMoves DEF Next

(* The depths are numbers, and every height is one. *)
LEMMA Depths ==
    ASSUME ChainOK
    PROVE  /\ CheckDepth \in Nat /\ SpentDepth \in Nat /\ MaxLag \in Nat /\ StartTip \in Nat
           /\ StartTip > SpentDepth /\ CheckDepth + MaxLag <= SpentDepth
           /\ tip \in Int /\ tip >= StartTip
           /\ ctip \in Int /\ stip \in Int /\ ctip <= tip /\ stip <= tip
           /\ \A t \in Tx : /\ row[t] \in Int /\ (row[t] \in {-3, -1, 0} \/ row[t] >= StartTip)
                            /\ where[t] \in Int /\ (where[t] \in {-2, 0} \/ where[t] >= StartTip)
                            /\ seen[t] \in Int /\ (seen[t] \in {-2, 0} \/ seen[t] >= StartTip)
<1> USE DepthAssumption DEF ChainOK, Heights, Gone, Mempool, Absent, UNCONFIRM_TX_HEIGHT
<1>1. /\ CheckDepth \in Nat /\ SpentDepth \in Nat /\ MaxLag \in Nat /\ StartTip \in Nat /\ MaxTip \in Nat
      /\ StartTip > SpentDepth /\ CheckDepth + MaxLag <= SpentDepth
  OBVIOUS
<1>2. tip \in Int /\ tip >= StartTip /\ ctip \in Int /\ stip \in Int /\ ctip <= tip /\ stip <= tip
  BY <1>1
<1>3. ASSUME NEW t \in Tx
      PROVE  /\ row[t] \in Int /\ (row[t] \in {-3, -1, 0} \/ row[t] >= StartTip)
             /\ where[t] \in Int /\ (where[t] \in {-2, 0} \/ where[t] >= StartTip)
             /\ seen[t] \in Int /\ (seen[t] \in {-2, 0} \/ seen[t] >= StartTip)
  BY <1>1, <1>2
<1> QED
  BY <1>1, <1>2, <1>3

(* What a round looks at or removes is too fresh for SetSpent. *)
LEMMA Visible ==
    ASSUME ChainOK, RoundInv, WindowInv, NEW t \in Tx, t \in briefs \/ Doomed(t),
           NEW top \in Int, top <= tip
    PROVE  row[t] \notin {Absent, Mempool} /\ ~Deep(row[t], top)
<1>1. cpc # "idle" /\ tip <= ctip + MaxLag /\ ctip >= StartTip
  BY Depths DEF RoundInv, Doomed
<1>2. row[t] = UNCONFIRM_TX_HEIGHT \/ row[t] >= ctip - CheckDepth
  BY DEF WindowInv
<1> QED
  BY <1>1, <1>2, Depths DEF Deep, Absent, Mempool, UNCONFIRM_TX_HEIGHT

(* So a settled transaction stays as it is. *)
LEMMA SettledStays ==
    ASSUME ChainOK, RoundInv, WindowInv, SeenInv, Moves, NEW t \in Tx,
           NEW top \in Int, top <= tip, Settled(t, top)
    PROVE  row'[t] = row[t] /\ (vin[t] # "none" => vin'[t] # "none")
<1>1. ~(t \in briefs \/ Doomed(t)) /\ row[t] # Absent
  BY Visible, Depths DEF Settled, Deep, Absent, Mempool
<1> QED
  BY <1>1 DEF Moves, RowMove, VinMove

(* A round keeps to its time and to its window. *)
LEMMA RoundStep ==
    ASSUME ChainOK, ChainOK', PlaceOK, PlaceOK', RoundInv, WindowInv, SeenInv, Moves
    PROVE  RoundInv' /\ WindowInv' /\ SeenInv'
<1>1. RoundInv'
  <2>1. CASE cpc' = "idle"
    BY <2>1 DEF Moves, RoundMove, RoundInv
  <2>2. CASE cpc = "idle" /\ cpc' # "idle"
    BY <2>2, Depths DEF Moves, RoundMove, RoundInv
  <2>3. CASE cpc # "idle" /\ cpc' # "idle"
    <3>1. ctip' = ctip /\ ctip \in StartTip .. tip /\ tip <= ctip + MaxLag
      BY <2>3 DEF Moves, RoundMove, RoundInv
    <3>2. tip' = tip \/ (tip' = tip + 1 /\ tip < ctip + MaxLag)
      BY <2>3 DEF Moves, ChainMove, NextBlockFits
    <3> QED
      BY <2>3, <3>1, <3>2, Depths DEF RoundInv
  <2> QED
    BY <2>1, <2>2, <2>3
<1>2. SeenInv'
  <2> SUFFICES ASSUME NEW t \in Tx, seen'[t] # Gone, row'[t] # Absent
               PROVE  FALSE
    BY DEF SeenInv
  <2>1. seen'[t] = seen[t] /\ row[t] = Absent
    BY DEF Moves, ChainMove, SeenInv
  <2>2. t \notin briefs /\ ~Doomed(t)
    BY <2>1, Visible, Depths
  <2> QED
    BY <2>1, <2>2 DEF Moves, RowMove
<1>3. WindowInv'
  <2> SUFFICES ASSUME NEW t \in Tx, t \in briefs' \/ Doomed(t)'
               PROVE  /\ row'[t] = UNCONFIRM_TX_HEIGHT \/ row'[t] >= ctip' - CheckDepth
                      /\ Doomed(t)' => t \notin briefs' /\ ~(where'[t] \in StartTip .. ctip')
    BY DEF WindowInv
  <2>1. CASE cpc = "idle"
    BY <2>1, Depths DEF Moves, RoundMove, Doomed, InWindow, RoundInv
  <2>2. CASE cpc # "idle"
    <3>1. /\ ctip' = ctip /\ briefs' \subseteq briefs
          /\ Doomed(t)' => \/ Doomed(t)
                           \/ t \in briefs /\ t \notin briefs' /\ where'[t] = Gone /\ row'[t] = row[t]
      BY <2>2 DEF Moves, RoundMove, Doomed
    <3>2. t \in briefs \/ Doomed(t)
      BY <3>1
    <3>3. row[t] # Absent /\ (row[t] = UNCONFIRM_TX_HEIGHT \/ row[t] >= ctip - CheckDepth)
      BY <3>2, Visible, Depths DEF WindowInv
    <3>4. row'[t] = row[t]
      BY <3>1, <3>3 DEF Moves, RowMove, WindowInv
    <3>5. Doomed(t) => t \notin briefs /\ ~(where[t] \in StartTip .. ctip)
      BY DEF WindowInv
    <3>6. where'[t] \in {where[t], Gone, Mempool} \/ where'[t] > tip
      BY DEF Moves, ChainMove
    <3>7. ~(where'[t] \in {Gone, Mempool} /\ where'[t] \in StartTip .. ctip)
      BY Depths DEF Gone, Mempool
    <3>8. ~(where'[t] > tip /\ where'[t] \in StartTip .. ctip)
      BY Depths
    <3>9. Doomed(t)' => t \notin briefs' /\ ~(where'[t] \in StartTip .. ctip)
      BY <3>1, <3>5, <3>6, <3>7, <3>8
    <3> QED
      BY <3>1, <3>3, <3>4, <3>9
  <2> QED
    BY <2>1, <2>2
<1> QED
  BY <1>1, <1>2, <1>3

(* A point that was removed behind the back of SetSpent stays out of its   *)
(* reach.                                                                  *)
LEMMA IterStep ==
    ASSUME ChainOK, ChainOK', PlaceOK, PlaceOK', RoundInv, WindowInv, SeenInv, IterInv, Moves
    PROVE  IterInv'
<1>0. spc' = "idle" => iter' = {}
  BY DEF Moves, IterMove, IterInv
<1> SUFFICES ASSUME NEW t \in iter', vin'[t] = "none"
             PROVE  ~Deep(row'[t], stip') /\ ~Deep(where'[t], stip') /\ ~Deep(seen'[t], stip')
  BY <1>0 DEF IterInv
<1>1. t \in iter /\ stip' = stip /\ t \in Tx
  BY DEF Moves, IterMove, PlaceOK
<1>2. CASE vin[t] = "none"
  <2>1. ~Deep(row[t], stip) /\ ~Deep(where[t], stip) /\ ~Deep(seen[t], stip)
    BY <1>1, <1>2 DEF IterInv
  <2>2. ~Deep(Absent, stip) /\ ~Deep(Gone, stip) /\ ~Deep(Mempool, stip) /\ ~Deep(UNCONFIRM_TX_HEIGHT, stip)
    BY Depths DEF Deep, Absent, Gone, Mempool, UNCONFIRM_TX_HEIGHT
  <2>3. row'[t] \in {row[t], where[t], seen[t], Absent, Mempool, UNCONFIRM_TX_HEIGHT}
    BY <1>1 DEF Moves, RowMove
  <2>4. seen'[t] \in {seen[t], where[t], Gone}
    BY <1>1 DEF Moves, ChainMove
  <2>5. where'[t] \in {where[t], Gone, Mempool} \/ ~Deep(where'[t], stip)
    <3>1. where'[t] > tip /\ where'[t] \in Int => ~Deep(where'[t], stip)
      BY Depths DEF Deep
    <3>2. where'[t] \in Int
      <4>1. where'[t] \in {Gone, Mempool} \cup StartTip .. tip'
        BY <1>1 DEF ChainOK
      <4> QED
        BY <4>1, Depths DEF Gone, Mempool
    <3> QED
      BY <1>1, <3>1, <3>2 DEF Moves, ChainMove
  <2> HIDE DEF Deep
  <2> QED
    BY <1>1, <2>1, <2>2, <2>3, <2>4, <2>5
<1>3. CASE vin[t] # "none"
  <2>1. Doomed(t) /\ UNCHANGED <<where, seen, row>>
    BY <1>1, <1>3 DEF Moves, VinMove
  <2>2. ~Deep(row[t], stip) /\ row[t] # Absent
    BY <1>1, <2>1, Visible, Depths
  <2>3. ~Deep(seen[t], stip)
    BY <1>1, <2>2, Depths DEF SeenInv, Deep, Gone
  <2>4. ~Deep(where[t], stip)
    <3>1. tip <= ctip + MaxLag /\ ~(where[t] \in StartTip .. ctip)
      BY <1>1, <2>1 DEF RoundInv, WindowInv, Doomed
    <3> QED
      BY <1>1, <3>1, Depths DEF Deep
  <2> QED
    BY <1>1, <2>1, <2>2, <2>3, <2>4
<1> QED
  BY <1>2, <1>3

(* SetSpent marks for a settled transaction only, which stays settled. *)
LEMMA SpenderStep ==
    ASSUME ChainOK, ChainOK', PlaceOK, PlaceOK', RoundInv, WindowInv, SeenInv, IterInv,
           PointInv, SpenderInv, Moves
    PROVE  PointInv' /\ SpenderInv'
<1>1. tip' \in Int /\ tip' >= tip
  BY Depths DEF Moves, ChainMove
<1>2. PointInv'
  <2> SUFFICES ASSUME spc' \in {"vout", "vin"}
               PROVE  /\ point' \in Tx
                      /\ \/ row'[point'] = Mempool
                         \/ vin'[point'] # "none" /\ Deep(row'[point'], stip')
    BY DEF PointInv, Settled
  <2>1. CASE spc \in {"vout", "vin"} /\ UNCHANGED <<point, stip>>
    <3>1. point \in Tx /\ Settled(point, stip)
      BY <2>1 DEF PointInv
    <3>2. row'[point] = row[point] /\ (vin[point] # "none" => vin'[point] # "none")
      BY <3>1, SettledStays, Depths
    <3> QED
      BY <2>1, <3>1, <3>2 DEF Settled
  <2>2. CASE /\ point' \in iter /\ row[point'] # Absent /\ ~TooFresh(row[point'], stip)
             /\ UNCHANGED <<row, vin, stip>>
    <3>1. point' \in Tx
      BY <2>2 DEF PlaceOK
    <3>2. row[point'] = Mempool \/ Deep(row[point'], stip)
      BY <2>2, <3>1, Depths DEF TooFresh, Deep, UNCONFIRM_TX_HEIGHT, Mempool, Absent
    <3>3. Deep(row[point'], stip) => vin[point'] # "none"
      BY <2>2 DEF IterInv
    <3> QED
      BY <2>2, <3>1, <3>2, <3>3
  <2> QED
    BY <2>1, <2>2 DEF Moves, MarkMove
<1>3. SpenderInv'
  <2> SUFFICES ASSUME NEW o \in Badges, vout'[o] = "spent"
               PROVE  \E t \in Tx : /\ Out[t] = o
                                    /\ \/ row'[t] = Mempool
                                       \/ vin'[t] # "none" /\ Deep(row'[t], tip')
    BY DEF SpenderInv, Settled
  <2>1. PICK t \in Tx : Out[t] = o /\ Settled(t, tip)
    <3>1. CASE vout[o] = "spent"
      BY <3>1 DEF SpenderInv
    <3>2. CASE spc = "vout" /\ o = Out[point]
      <4>1. point \in Tx /\ Settled(point, stip)
        BY <3>2 DEF PointInv
      <4>2. Settled(point, tip)
        BY <4>1, Depths DEF Settled, Deep
      <4> QED
        BY <3>2, <4>1, <4>2
    <3> QED
      BY <3>1, <3>2 DEF Moves, MarkMove
  <2>2. row'[t] = row[t] /\ (vin[t] # "none" => vin'[t] # "none")
    BY <2>1, SettledStays, Depths
  <2>3. Deep(row[t], tip) => Deep(row[t], tip')
    BY <1>1, Depths DEF Deep
  <2> QED
    BY <2>1, <2>2, <2>3 DEF Settled
<1> QED
  BY <1>2, <1>3

(* A row gets the height of a block only while the transaction is in that  *)
(* block, and the height 0 only after such a height.                       *)
LEMMA StrayStep ==
    ASSUME ChainOK, RoundInv, WindowInv, StrayInv, Moves
    PROVE  StrayInv'
<1> SUFFICES ASSUME NEW t \in Tx, t \notin strayed'
             PROVE  /\ \/ row'[t] \in {Absent, UNCONFIRM_TX_HEIGHT}
                       \/ where'[t] > 0 /\ row'[t] \in {Mempool, where'[t]}
                    /\ seen'[t] \in {Gone, Mempool} \/ (where'[t] > 0 /\ seen'[t] = where'[t])
  BY DEF StrayInv, Mined
<1>1. t \notin strayed /\ (where[t] > 0 => where'[t] = where[t])
  BY DEF Moves, ChainMove, Mined
<1>2. /\ row[t] \in {Absent, UNCONFIRM_TX_HEIGHT} \/ (where[t] > 0 /\ row[t] \in {Mempool, where[t]})
      /\ seen[t] \in {Gone, Mempool} \/ (where[t] > 0 /\ seen[t] = where[t])
  BY <1>1 DEF StrayInv, Mined
<1>3. where[t] \in {Gone, Mempool} \/ where[t] > 0
  BY Depths DEF Gone, Mempool
<1>4. t \in briefs => row[t] # Absent
  BY Visible, Depths
<1>5. \/ row'[t] \in {row[t], Absent, UNCONFIRM_TX_HEIGHT}
      \/ row'[t] = seen[t] /\ seen[t] \notin {Gone, Mempool}
      \/ t \in briefs /\ row'[t] \in {Mempool, where[t]} \ {Gone} /\ (row'[t] = Mempool => row[t] # UNCONFIRM_TX_HEIGHT)
  BY DEF Moves, RowMove
<1>6. seen'[t] \in {seen[t], Gone, where[t]}
  BY DEF Moves, ChainMove
<1> QED
  BY <1>1, <1>2, <1>3, <1>4, <1>5, <1>6

SpentInv == ChainOK /\ PlaceOK /\ MarkInv /\ DepthInv

(* The parts together are inductive. *)
LEMMA SpentInvariance == Spec => []SpentInv
<1> DEFINE TInv == SpentInv
<1> USE DEF SpentInv
<1>1. Init => TInv
  <2>1. Init => ChainOK /\ PlaceOK
    BY DepthAssumption DEF Init, ChainOK, PlaceOK, DepthAssumption
  <2>2. Init => DepthInv
    BY DEF Init, DepthInv, RoundInv, WindowInv, SeenInv, IterInv, PointInv, SpenderInv, StrayInv, Doomed
  <2> QED
    BY <2>1, <2>2, MarkInit
<1>2. TInv /\ [Next]_vars => TInv'
  <2> SUFFICES ASSUME TInv, [Next]_vars
               PROVE  TInv'
    OBVIOUS
  <2>1. ChainOK' /\ PlaceOK'
    BY DepthAssumption, ChainStep, PlaceStep
       DEF ChainOK, PlaceOK, vars, chainVars, sync, db, checker, spender
  <2>2. Moves
    BY EveryMove DEF MarkInv
  <2>3. DepthInv'
    BY <2>1, <2>2, RoundStep, IterStep, SpenderStep, StrayStep DEF DepthInv
  <2> QED
    BY <2>1, <2>3, MarkNext
<1> HIDE DEF SpentInv
<1> QED
  BY <1>1, <1>2, PTL DEF Spec

(* A badge that is marked as spent has a spender whose row and point the   *)
(* node keeps, and which is in the block its row says unless a             *)
(* reorganisation has taken it out of one: for every chain, every          *)
(* reorganisation and every crash.  A round of CheckTxState that takes at  *)
(* most SpentDepth - CheckDepth blocks removes no transaction that         *)
(* SetSpent has trusted.                                                   *)
THEOREM SpentHasSpenderHolds == Spec => []SpentHasSpender
<1>1. SpentInv => SpentHasSpender
  <2> SUFFICES ASSUME SpentInv, NEW o \in Badges, vout[o] = "spent"
               PROVE  \E t \in Tx :
                          /\ Out[t] = o
                          /\ \/ row[t] = Mempool
                             \/ vin[t] # "none" /\ row[t] \in StartTip .. tip - SpentDepth - 1
                          /\ t \in strayed \/ (Mined(t) /\ row[t] \in {Mempool, where[t]})
    BY DEF SpentHasSpender
  <2>1. PICK t \in Tx : Out[t] = o /\ Settled(t, tip)
    BY DEF SpentInv, DepthInv, SpenderInv
  <2>2. row[t] = Mempool \/ (vin[t] # "none" /\ row[t] \in StartTip .. tip - SpentDepth - 1)
    BY <2>1, Depths DEF SpentInv, Settled, Deep
  <2>3. row[t] \notin {Absent, UNCONFIRM_TX_HEIGHT}
    BY <2>2, Depths DEF SpentInv, Mempool, Absent, UNCONFIRM_TX_HEIGHT
  <2> QED
    BY <2>1, <2>2, <2>3 DEF SpentInv, DepthInv, StrayInv
<1> QED
  BY <1>1, SpentInvariance, PTL

(* Nothing but the transaction's return clears an orphan away or gets      *)
(* SetSpent past it, for any number of transactions, blocks and faults.    *)
THEOREM OrphanForGoodHolds == Spec => OrphanForGood
<1> DEFINE Stays(t) == /\ Forgotten(t)' \/ where'[t] # Gone
                       /\ t \in iter => t \in iter' \/ spc' = "idle"
           Step == \A t \in Tx : Forgotten(t) => Stays(t)
<1>1. SpentInv /\ [Next]_vars => Step
  <2> SUFFICES ASSUME SpentInv, [Next]_vars, NEW t \in Tx, Forgotten(t)
               PROVE  Stays(t)
    OBVIOUS
  <2>1. row[t] = Absent /\ vin[t] = "unspent" /\ where[t] = Gone /\ seen[t] = Gone /\ work[t] = "no"
    BY DEF Forgotten, Orphans, Unspent
  <2>2. Moves
    BY EveryMove DEF SpentInv, MarkInv
  <2>3. t \notin briefs /\ ~Doomed(t)
    BY <2>1, Visible, Depths DEF SpentInv, DepthInv
  <2>4. row'[t] = Absent
    BY <2>1, <2>2, <2>3 DEF Moves, RowMove
  <2>5. seen'[t] = Gone
    BY <2>1, <2>2 DEF Moves, ChainMove
  <2>6. vin'[t] = "unspent"
    <3>1. ~(spc = "vin" /\ t = point)
      BY <2>1, Depths DEF SpentInv, DepthInv, PointInv, Settled, Deep, Absent, Mempool
    <3>2. vin' \in [Tx -> {"none", "unspent", "spent"}]
      BY MarkNext DEF SpentInv, MarkInv, PointsOK
    <3> QED
      BY <2>1, <2>2, <2>3, <3>1, <3>2 DEF Moves, VinMove
  <2>7. work'[t] = "no"
    <3>1. ASSUME NEW u \in Tx, LookupTx(u) \/ AddMsgTxInfo(u) \/ RLock(u) \/ LockedNext(u) \/ SyncFail(u)
          PROVE  work'[t] = "no"
      BY <2>1, <3>1 DEF LookupTx, AddMsgTxInfo, RLock, LockedNext, AddTxPoint, SetMsgTxState, SyncFail, SpentInv, PlaceOK
    <3>2. CASE Crash
      BY <3>2 DEF Crash
    <3>3. CASE ChainNext \/ CheckNext \/ SpentNext \/ UNCHANGED vars
      <4>1. UNCHANGED work
        BY <3>3 DEF ChainNext, Appear, Evict, Mine, Reorg, CheckNext, CheckProgress, CheckTxState, CheckDone,
                    Lock, DeleteTxPoints, DeleteMsgTx, CheckTx, CheckFail, CheckTxOtherFailure, SpentNext,
                    SpentProgress, SetSpent, SpentBrief, SetVoutSpent, SetVinSpent, SetSpentDone,
                    SetSpentFail, sync, vars
      <4> QED
        BY <2>1, <4>1
    <3> QED
      BY <3>1, <3>2, <3>3 DEF Next, SyncNext
  <2>8. t \in iter => t \in iter' \/ spc' = "idle"
    <3> SUFFICES ASSUME t \in iter PROVE t \in iter' \/ spc' = "idle"
      OBVIOUS
    <3>1. CASE SpentNext
      <4>1. ASSUME NEW u \in Tx, SpentBrief(u) PROVE t \in iter' \/ spc' = "idle"
        BY <2>1, <4>1 DEF SpentBrief, SetSpentReturn
      <4>2. CASE \E old \in SUBSET Tx : SetSpent(old)
        BY <4>2 DEF SetSpent, SpentInv, DepthInv, IterInv
      <4>3. CASE SetVoutSpent \/ SetVinSpent \/ SetSpentDone \/ SetSpentFail
        BY <4>3 DEF SetVoutSpent, SetVinSpent, SetSpentDone, SetSpentFail, SetSpentReturn
      <4> QED
        BY <3>1, <4>1, <4>2, <4>3 DEF SpentNext, SpentProgress
    <3>2. CASE Crash
      BY <3>2 DEF Crash, SetSpentReturn
    <3>3. CASE ChainNext \/ SyncNext \/ CheckNext \/ UNCHANGED vars
      <4>1. UNCHANGED iter
        BY <3>3 DEF ChainNext, Appear, Evict, Mine, Reorg, SyncNext, LookupTx, AddMsgTxInfo, RLock, LockedNext,
                    AddTxPoint, SetMsgTxState, SyncFail, CheckNext, CheckProgress, CheckTxState, CheckDone,
                    Lock, DeleteTxPoints, DeleteMsgTx, CheckTx, CheckFail, CheckTxOtherFailure, spender, vars
      <4> QED
        BY <4>1
    <3> QED
      BY <3>1, <3>2, <3>3 DEF Next
  <2> QED
    BY <2>1, <2>4, <2>5, <2>6, <2>7, <2>8 DEF Forgotten, Orphans, Unspent
<1>2. Spec => [][Step]_vars
  BY <1>1, SpentInvariance, PTL DEF Spec
<1> QED
  BY <1>2, PTL DEF OrphanForGood
=============================================================================
