---------------------------- MODULE Confirmations ----------------------------
(***************************************************************************)
(* How a node follows the chain: CheckTxState keeps the height of the      *)
(* stored transactions up to date and clears those the chain forgot, and   *)
(* SetSpent marks what a deeply buried transaction has spent, so that the  *)
(* queries for utxos need not read it again.  The two loops run side by    *)
(* side; SetSpent takes no lock.                                           *)
(*                                                                         *)
(* Every transaction spends one badge of an issuance that is buried since  *)
(* long, and two transactions may spend the same one.  The stages of       *)
(* SyncTxs are those of TouchstoneLedger, reduced to the row, the vin point*)
(* and the answer of mapi that the row is made from; one worker at a time  *)
(* is concerned with a transaction.                                        *)
(***************************************************************************)
EXTENDS Integers, FiniteSets

CONSTANTS
    Tx,          \* the transactions that may appear
    Out,         \* Out[t], the badge that t spends
    CheckDepth,  \* CheckTxState looks at the last CheckDepth + 1 blocks (8)
    SpentDepth,  \* SetSpent trusts what is deeper than that (20)
    MaxReorg,    \* bound: a reorganisation replaces at most MaxReorg blocks
    MaxLag,      \* bound: blocks that arrive during one round of CheckTxState
    MaxFaults,   \* bound on the errors and crashes
    StartTip,    \* height of the chain when the node starts
    MaxTip       \* bound on the height of the chain

(* A chain that has just begun is not considered: height 0 is out of both  *)
(* windows.                                                                *)
ASSUME DepthAssumption ==
    /\ {CheckDepth, SpentDepth, MaxReorg, MaxLag, MaxFaults, StartTip, MaxTip} \subseteq Nat
    /\ StartTip \in SpentDepth + 1 .. MaxTip
    /\ CheckDepth + MaxLag <= SpentDepth

VARIABLES
    tip,      \* height of the chain
    where,    \* what mapi says of a transaction: a height, Mempool or Gone
    strayed,  \* history: a reorganisation has taken them out of a block
    seen,     \* the txStatesCache entry of a SyncTxs in progress, or Gone
    work,     \* "looked" when it is in needProcessTx of a SyncTxs that waits
              \* for the lock, "locked" and "added" (its point) behind the lock
    row,      \* Height of the raw_tx_info row, or Absent
    closed,   \* the transactions whose row is in TX_STATE_CLOSED
    vin,      \* State of the vin point of a transaction, or "none"
    vout,     \* State of the vout point of a badge
    faults,   \* number of errors and crashes so far
    cpc,      \* where the goroutine of CheckTxStateLoop is
    ctip,     \* its CurrentHighestBlockHeight
    briefs,   \* the rows of this round it has not looked at yet
    victim,   \* the transaction ClearMsgTx works on, or NoTx
    spc,      \* where the goroutine of SetSpentLoop is
    stip,     \* its CurrentHighestBlockHeight
    iter,     \* the vin points its iterator has not returned yet
    point     \* the transaction whose vin point it handles, or NoTx

chainVars == <<tip, where, strayed>>
db == <<row, closed, vin, vout>>
checker == <<cpc, ctip, briefs, victim>>
spender == <<spc, stip, iter, point>>
sync == <<seen, work>>
vars == <<chainVars, sync, db, faults, checker, spender>>

Gone == -2          \* "No such mempool or blockchain transaction"
Mempool == 0        \* mapi leaves BlockHeight out, which is read as 0
Absent == -3
UNCONFIRM_TX_HEIGHT == -1
NoTx == "notx"

Badges == {Out[t] : t \in Tx}
Mined(t) == where[t] > 0

Init ==
    /\ tip = StartTip
    /\ where = [t \in Tx |-> Gone]
    /\ strayed = {}
    /\ seen = [t \in Tx |-> Gone]
    /\ work = [t \in Tx |-> "no"]
    /\ row = [t \in Tx |-> Absent]
    /\ closed = {}
    /\ vin = [t \in Tx |-> "none"]
    /\ vout = [o \in Badges |-> "unspent"]
    /\ faults = 0
    /\ cpc = "idle" /\ ctip = 0 /\ briefs = {} /\ victim = NoTx
    /\ spc = "idle" /\ stip = 0 /\ iter = {} /\ point = NoTx

-----------------------------------------------------------------------------
(* The chain, as mapi shows it *)

(* The bounds MaxTip and MaxLag leave room for a block. *)
NextBlockFits == tip < MaxTip /\ (cpc # "idle" => tip < ctip + MaxLag)

(* Of the transactions that spend the same badge at most one is known. *)
Appear(t) ==
    /\ \A u \in Tx : Out[u] = Out[t] => where[u] = Gone
    /\ where' = [where EXCEPT ![t] = Mempool]
    /\ UNCHANGED <<tip, strayed, sync, db, checker, spender, faults>>

Evict(t) ==
    /\ where[t] = Mempool
    /\ where' = [where EXCEPT ![t] = Gone]
    /\ UNCHANGED <<tip, strayed, sync, db, checker, spender, faults>>

Mine(ts) ==
    /\ NextBlockFits
    /\ \A t \in ts : where[t] = Mempool
    /\ tip' = tip + 1
    /\ where' = [t \in Tx |-> IF t \in ts THEN tip + 1 ELSE where[t]]
    /\ UNCHANGED <<strayed, sync, db, checker, spender, faults>>

(* The last d blocks give way to d + 1 others, which do not contain ts.    *)
Reorg(d, ts) ==
    /\ NextBlockFits
    /\ ts # {}
    /\ \A t \in ts : Mined(t) /\ where[t] > tip - d
    /\ tip' = tip + 1
    /\ where' = [t \in Tx |-> IF t \in ts THEN Mempool ELSE where[t]]
    /\ strayed' = strayed \cup ts
    /\ UNCHANGED <<sync, db, checker, spender, faults>>

-----------------------------------------------------------------------------
(* SyncTxs *)

Clearing == cpc \in {"points", "row"}

(* sync.RWMutex: a waiting writer keeps new readers out. *)
ReadersMayEnter == cpc # "lock" /\ ~Clearing

(* An unknown transaction is asked for, one that is not closed is taken up *)
(* again.                                                                  *)
LookupTx(t) ==
    /\ work[t] = "no"
    /\ seen[t] = Gone
    /\ \/ row[t] = Absent /\ where[t] # Gone
          /\ seen' = [seen EXCEPT ![t] = where[t]] /\ UNCHANGED work
       \/ row[t] # Absent /\ t \notin closed
          /\ work' = [work EXCEPT ![t] = "looked"] /\ UNCHANGED seen
    /\ UNCHANGED <<chainVars, db, checker, spender, faults>>

(* The row gets the height that mapi gave when the txid was looked up. *)
AddMsgTxInfo(t) ==
    /\ seen[t] # Gone
    /\ ReadersMayEnter
    /\ row' = IF row[t] # Absent THEN row
              ELSE [row EXCEPT ![t] = IF seen[t] = Mempool THEN UNCONFIRM_TX_HEIGHT ELSE seen[t]]
    /\ seen' = [seen EXCEPT ![t] = Gone]
    /\ work' = [work EXCEPT ![t] = "locked"]
    /\ UNCHANGED <<chainVars, closed, vin, vout, checker, spender, faults>>

RLock(t) ==
    /\ work[t] = "looked"
    /\ ReadersMayEnter
    /\ work' = [work EXCEPT ![t] = "locked"]
    /\ UNCHANGED <<chainVars, seen, db, checker, spender, faults>>

(* The row is not looked at again: it may be gone by now. *)
AddTxPoint(t) ==
    /\ work[t] = "locked"
    /\ work' = [work EXCEPT ![t] = "added"]
    /\ IF vin[t] = "none" THEN vin' = [vin EXCEPT ![t] = "unspent"] ELSE UNCHANGED vin
    /\ UNCHANGED <<chainVars, seen, row, closed, vout, checker, spender, faults>>

SetMsgTxState(t) ==
    /\ work[t] = "added"
    /\ work' = [work EXCEPT ![t] = "no"]
    /\ closed' = IF row[t] = Absent THEN closed ELSE closed \cup {t}
    /\ UNCHANGED <<chainVars, seen, row, vin, vout, checker, spender, faults>>

(* An error of the database, of mapi or of the peer. *)
SyncFail(t) ==
    /\ seen[t] # Gone \/ work[t] # "no"
    /\ seen' = [seen EXCEPT ![t] = Gone]
    /\ work' = [work EXCEPT ![t] = "no"]
    /\ UNCHANGED <<chainVars, db, checker, spender, faults>>

-----------------------------------------------------------------------------
(* CheckTxState *)

CheckReturn == cpc' = "idle" /\ ctip' = 0 /\ briefs' = {} /\ victim' = NoTx

Fault == faults < MaxFaults /\ faults' = faults + 1

(* Mutant: the unconfirmed transactions are not in the list. *)
InWindowMinedOnly(h, top) == h >= top - CheckDepth /\ h < top + 1

(* GetMsgTxBriefInfoByHeightRange(tip - 8, tip + 1, true). *)
InWindow(h, top) == h = UNCONFIRM_TX_HEIGHT \/ (h >= top - CheckDepth /\ h < top + 1)

CheckTxState ==
    /\ cpc = "idle"
    /\ ctip' = tip
    /\ briefs' = {t \in Tx : row[t] # Absent /\ InWindow(row[t], tip)}
    /\ cpc' = "round"
    /\ UNCHANGED <<chainVars, sync, db, victim, spender, faults>>

(* SetMsgTxHeightHash stores the height as mapi gave it.  Without a change *)
(* of height there is nothing to see of the write.                         *)
SetMsgTxHeightHash(t) ==
    LET currentheight == IF where[t] = Mempool THEN UNCONFIRM_TX_HEIGHT ELSE where[t]
    IN  IF row[t] # currentheight THEN row' = [row EXCEPT ![t] = where[t]] ELSE UNCHANGED row

CheckTx(t) ==
    /\ cpc = "round"
    /\ t \in briefs
    /\ briefs' = briefs \ {t}
    /\ IF where[t] = Gone
         THEN cpc' = "lock" /\ victim' = t /\ UNCHANGED row
         ELSE SetMsgTxHeightHash(t) /\ UNCHANGED <<cpc, victim>>
    /\ UNCHANGED <<chainVars, sync, closed, vin, vout, ctip, spender, faults>>

(* A failure that mapi describes in other words is read as a transaction   *)
(* without a block.                                                        *)
CheckTxOtherFailure(t) ==
    /\ cpc = "round"
    /\ t \in briefs
    /\ Fault
    /\ briefs' = briefs \ {t}
    /\ row' = IF row[t] = UNCONFIRM_TX_HEIGHT THEN row ELSE [row EXCEPT ![t] = Mempool]
    /\ UNCHANGED <<chainVars, sync, closed, vin, vout, cpc, ctip, victim, spender>>

CheckDone ==
    /\ cpc = "round"
    /\ briefs = {}
    /\ CheckReturn
    /\ UNCHANGED <<chainVars, sync, db, spender, faults>>

(* ClearMsgTx: the points, then the row. *)
Lock ==
    /\ cpc = "lock"
    /\ \A t \in Tx : work[t] \notin {"locked", "added"}
    /\ cpc' = "points"
    /\ UNCHANGED <<chainVars, sync, db, ctip, briefs, victim, spender, faults>>

DeleteTxPoints ==
    /\ cpc = "points"
    /\ vin' = [vin EXCEPT ![victim] = "none"]
    /\ cpc' = "row"
    /\ UNCHANGED <<chainVars, sync, row, closed, vout, ctip, briefs, victim, spender, faults>>

DeleteMsgTx ==
    /\ cpc = "row"
    /\ row' = [row EXCEPT ![victim] = Absent]
    /\ closed' = closed \ {victim}
    /\ cpc' = "round"
    /\ victim' = NoTx
    /\ UNCHANGED <<chainVars, sync, vin, vout, ctip, briefs, spender, faults>>

(* An error of mapi or of the database ends the round. *)
CheckFail ==
    /\ cpc \in {"round", "points", "row"}
    /\ Fault
    /\ CheckReturn
    /\ UNCHANGED <<chainVars, sync, db, spender>>

-----------------------------------------------------------------------------
(* SetSpent *)

(* ForearchUnspentVinTxPoint: the points that are an hour old. *)
SetSpent(old) ==
    /\ spc = "idle"
    /\ \A t \in old : vin[t] = "unspent"
    /\ spc' = "iter"
    /\ stip' = tip
    /\ iter' = old
    /\ UNCHANGED <<chainVars, sync, db, checker, point, faults>>

SetSpentReturn == spc' = "idle" /\ stip' = 0 /\ iter' = {} /\ point' = NoTx

(* Mutant: an unconfirmed transaction is not told from a buried one. *)
TooFreshMinedOnly(h, top) == top - h <= SpentDepth

(* Not buried deep enough; a height of 0 is. *)
TooFresh(h, top) == h = UNCONFIRM_TX_HEIGHT \/ top - h <= SpentDepth

(* Mutant: a row that is gone is not told from one that is buried. *)
SpentBriefAnyRow(t) ==
    /\ spc = "iter"
    /\ t \in iter
    /\ iter' = iter \ {t}
    /\ \/ TooFresh(row[t], stip) /\ UNCHANGED <<spc, stip, point>>
       \/ ~TooFresh(row[t], stip) /\ spc' = "vout" /\ point' = t /\ UNCHANGED stip
    /\ UNCHANGED <<chainVars, sync, db, checker, faults>>

(* GetMsgTxBriefInfo; if the row is gone, SetSpent gives up. *)
SpentBrief(t) ==
    /\ spc = "iter"
    /\ t \in iter
    /\ \/ row[t] = Absent /\ SetSpentReturn
       \/ /\ row[t] # Absent
          /\ TooFresh(row[t], stip)
          /\ iter' = iter \ {t}
          /\ UNCHANGED <<spc, stip, point>>
       \/ /\ row[t] # Absent
          /\ ~TooFresh(row[t], stip)
          /\ iter' = iter \ {t}
          /\ spc' = "vout"
          /\ point' = t
          /\ UNCHANGED stip
    /\ UNCHANGED <<chainVars, sync, db, checker, faults>>

(* Mutant: only the vin point is updated. *)
SetVoutSpentNot ==
    /\ spc = "vout"
    /\ spc' = "vin"
    /\ UNCHANGED <<chainVars, sync, db, checker, stip, iter, point, faults>>

SetVoutSpent ==
    /\ spc = "vout"
    /\ vout' = [vout EXCEPT ![Out[point]] = "spent"]
    /\ spc' = "vin"
    /\ UNCHANGED <<chainVars, sync, row, closed, vin, checker, stip, iter, point, faults>>

(* Mutant: only the vout point is updated. *)
SetVinSpentNot ==
    /\ spc = "vin"
    /\ spc' = "iter"
    /\ point' = NoTx
    /\ UNCHANGED <<chainVars, sync, db, checker, stip, iter, faults>>

(* The update finds nothing if ClearMsgTx was faster. *)
SetVinSpent ==
    /\ spc = "vin"
    /\ IF vin[point] = "none"
         THEN SetSpentReturn /\ UNCHANGED vin
         ELSE /\ vin' = [vin EXCEPT ![point] = "spent"]
              /\ spc' = "iter" /\ point' = NoTx
              /\ UNCHANGED <<stip, iter>>
    /\ UNCHANGED <<chainVars, sync, row, closed, vout, checker, faults>>

SetSpentDone ==
    /\ spc = "iter"
    /\ iter = {}
    /\ SetSpentReturn
    /\ UNCHANGED <<chainVars, sync, db, checker, faults>>

(* An error of the database. *)
SetSpentFail ==
    /\ spc # "idle"
    /\ Fault
    /\ SetSpentReturn
    /\ UNCHANGED <<chainVars, sync, db, checker>>

(* The process dies; the collections stay. *)
Crash ==
    /\ Fault
    /\ seen' = [t \in Tx |-> Gone]
    /\ work' = [t \in Tx |-> "no"]
    /\ CheckReturn
    /\ SetSpentReturn
    /\ UNCHANGED <<chainVars, db>>

-----------------------------------------------------------------------------
ChainNext ==
    \/ \E t \in Tx : Appear(t) \/ Evict(t)
    \/ \E ts \in SUBSET Tx : Mine(ts) \/ \E d \in 1 .. MaxReorg : Reorg(d, ts)

LockedNext(t) == AddTxPoint(t) \/ SetMsgTxState(t)

SyncNext ==
    \E t \in Tx : LookupTx(t) \/ AddMsgTxInfo(t) \/ RLock(t) \/ LockedNext(t) \/ SyncFail(t)

CheckProgress ==
    \/ CheckTxState \/ CheckDone \/ Lock \/ DeleteTxPoints \/ DeleteMsgTx
    \/ \E t \in Tx : CheckTx(t)

CheckNext == CheckProgress \/ CheckFail \/ \E t \in Tx : CheckTxOtherFailure(t)

SpentProgress ==
    \/ SetVoutSpent \/ SetVinSpent \/ SetSpentDone
    \/ \E t \in Tx : SpentBrief(t)

SpentNext ==
    \/ \E old \in SUBSET Tx : SetSpent(old)
    \/ SpentProgress
    \/ SetSpentFail

Next == ChainNext \/ SyncNext \/ CheckNext \/ SpentNext \/ Crash

Spec == Init /\ [][Next]_vars

Unspent == {t \in Tx : vin[t] = "unspent"}

(* CheckTxStateLoop begins a round every minute, SetSpentLoop every ten    *)
(* minutes, a point becomes an hour old, and every call of mapi and of the *)
(* database returns.                                                       *)
FairSpec ==
    /\ Spec
    /\ WF_vars(CheckProgress)
    /\ WF_vars(SpentProgress)
    /\ SF_vars(SetSpent(Unspent))
    /\ \A t \in Tx : WF_vars(LockedNext(t))

-----------------------------------------------------------------------------
(* Properties *)

Heights == {UNCONFIRM_TX_HEIGHT, Mempool} \cup StartTip .. MaxTip

(* Rows, points, the chain and the locals of CheckTxState and SetSpent keep *)
(* their types; a stored height is -1, 0 or the height of a block.         *)
TypeOK ==
    /\ tip \in StartTip .. MaxTip
    /\ where \in [Tx -> {Gone, Mempool} \cup StartTip .. tip]
    /\ strayed \subseteq Tx
    /\ seen \in [Tx -> {Gone, Mempool} \cup StartTip .. tip]
    /\ work \in [Tx -> {"no", "looked", "locked", "added"}]
    /\ row \in [Tx -> {Absent} \cup Heights]
    /\ closed \subseteq Tx
    /\ vin \in [Tx -> {"none", "unspent", "spent"}]
    /\ vout \in [Badges -> {"unspent", "spent"}]
    /\ faults \in 0 .. MaxFaults
    /\ cpc \in {"idle", "round", "lock", "points", "row"}
    /\ ctip \in {0} \cup StartTip .. tip
    /\ briefs \subseteq Tx
    /\ victim \in Tx \cup {NoTx}
    /\ spc \in {"idle", "iter", "vout", "vin"}
    /\ stip \in {0} \cup StartTip .. tip
    /\ iter \subseteq Tx
    /\ point \in Tx \cup {NoTx}

(* What CalculateUtxos returns of the points in state MAY_BE_UNSPENT. *)
Utxos ==
    {o \in Badges : /\ vout[o] = "unspent"
                    /\ \A t \in Tx : Out[t] = o => vin[t] # "unspent"}

(* A badge that has been spent, according to the points of the node, is    *)
(* never offered as a utxo: not between the two updates of SetSpent, nor   *)
(* after a crash or an error between them, nor while ClearMsgTx runs.      *)
SpentIsNoUtxo == \A o \in Utxos : \A t \in Tx : Out[t] = o => vin[t] = "none"

(* A badge that SetSpent took out of the utxos has a spender.  The node    *)
(* keeps its row and its point, with a height more than SpentDepth blocks  *)
(* down: the windows of CheckTxState (8) and SetSpent (20) are far enough  *)
(* apart that ClearMsgTx never removes it afterwards, as long as a round   *)
(* of CheckTxState takes no longer than the difference.  And the spender   *)
(* is in a block, the one its row says, unless a reorganisation has taken  *)
(* it out of one.  A row with the height 0 counts as buried at once: what  *)
(* it spends is marked although its block is not deep, and even after an   *)
(* interrupted ClearMsgTx has removed the point.                           *)
SpentHasSpender ==
    \A o \in Badges : vout[o] = "spent" =>
        \E t \in Tx :
            /\ Out[t] = o
            /\ \/ row[t] = Mempool
               \/ vin[t] # "none" /\ row[t] \in StartTip .. tip - SpentDepth - 1
            /\ t \in strayed \/ (Mined(t) /\ row[t] \in {Mempool, where[t]})

(* CheckTxState does not look at the row any more: it is buried, or it has *)
(* the height 0.                                                           *)
OutOfSight(t) == row[t] \in Mempool .. tip - CheckDepth - 1

Followed(t) ==
    \/ row[t] \in {Absent, where[t]}
    \/ row[t] = UNCONFIRM_TX_HEIGHT /\ where[t] = Mempool

(* Once the chain is quiet, CheckTxState brings every row it still looks at*)
(* to what mapi says, and clears what mapi does not know.                  *)
ChainFollowed ==
    <>[][UNCHANGED chainVars]_vars =>
        <>[](\A t \in Tx : Followed(t) \/ OutOfSight(t))

(* A vin point whose row was deleted while a worker was on its way to the  *)
(* lock.                                                                   *)
Orphans == {t \in Unspent : row[t] = Absent}

(* Once the chain is quiet and no orphan is left in its way, SetSpent marks *)
(* every vin of a buried transaction.  (One orphan makes it give up before *)
(* the points behind it, in every round.)                                  *)
BuriedIsMarked ==
    <>[][UNCHANGED chainVars]_vars /\ <>[](Orphans = {}) =>
        <>[](\A t \in Unspent : TooFresh(row[t], tip))

(* No row, no worker and no block has the transaction of this vin point. *)
Forgotten(t) == t \in Orphans /\ where[t] = Gone /\ seen[t] = Gone /\ work[t] = "no"

(* An orphan that the chain has forgotten stays: CheckTxState goes by rows  *)
(* and never comes to it, and SetSpent does not mark it.  A round of       *)
(* SetSpent that has it before it gives up when it gets there, so that it  *)
(* is in the way of every round until the transaction appears again.       *)
OrphanForGood ==
    [][\A t \in Tx : Forgotten(t) =>
          /\ Forgotten(t)' \/ where'[t] # Gone
          /\ t \in iter => t \in iter' \/ spc' = "idle"]_vars

(* A transaction without a block has the height UNCONFIRM_TX_HEIGHT. *)
UnconfirmedHeight ==
    \A t \in Tx : row[t] # Absent => row[t] = UNCONFIRM_TX_HEIGHT \/ row[t] > 0
=============================================================================
