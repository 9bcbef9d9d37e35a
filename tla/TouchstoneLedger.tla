-------------------------- MODULE TouchstoneLedger ---------------------------
(***************************************************************************)
(* One Touchstone node: workers that run SyncTxs (an HTTP request, a       *)
(* notification of a peer, the synchronisation loop), the loop that runs   *)
(* CheckTxState, the read-write lock between them, the two Mongo           *)
(* collections they share, and the crash of the process.                   *)
(*                                                                         *)
(* A step is one database operation, one call to mapi or to a peer, or one *)
(* lock operation.  What mapi answers about a transaction is free at every *)
(* call: the chain and its mempool change at any time, in both directions. *)
(* Heights, hashes and partitions are not part of this module.             *)
(***************************************************************************)
EXTENDS BadgeTx

CONSTANTS
    Worker,    \* goroutines that may be inside SyncTxs at the same time
    Requests   \* the calls of SyncTxs that may arrive: [src, txids]

(* src is "local" for SendRawTransaction, which brings the bytes of its    *)
(* one transaction, and "peer" for every other caller.                     *)
ASSUME RequestsAssumption ==
    \A r \in Requests : /\ r.src \in {"local", "peer"}
                        /\ r.txids \subseteq Tx
                        /\ r.src = "local" => Cardinality(r.txids) = 1

VARIABLES
    txInfo,    \* state of the raw_tx_info row of a transaction, or "absent"
    txPoint,   \* the rows of the tx_point collection
    pc,        \* where a worker is in SyncTxs
    src,       \* the kind of its TxSource
    txids,     \* the txids it has not looked up yet
    lack,      \* the txids it asks its source for, then those it received
    need,      \* needProcessTx, without the transactions already processed
    cur,       \* the transaction being processed, or NoTx
    left,      \* the badge vins of cur that ParseMsgTx has not read yet
    inv,       \* the TxInventory of cur; during the inserts, what is left of it
    cpc,       \* where the goroutine of CheckTxStateLoop is
    victim     \* the transaction ClearMsgTx works on, or NoTx

(* History variables: the code has no such state.                          *)
VARIABLES
    settled,   \* closed by a worker, and ClearMsgTx has not begun on it since
    torn,      \* ClearMsgTx began on it and was interrupted
    stale      \* its row was deleted after a worker had looked it up

db == <<txInfo, txPoint>>
job == <<src, txids, lack, need>>
proc == <<cur, left, inv>>
checker == <<cpc, victim>>
ghost == <<settled, torn, stale>>
vars == <<db, pc, job, proc, checker, ghost>>

NoTx == "notx"
ASSUME NoTxAssumption == NoTx \notin Tx

TxState == {"absent", "new", "open", "closed"}

(* The worker holds syncTxLock.RLock. *)
Locked == {"batch", "vin", "brief", "recheck", "insert", "open"}
Reading(w) == pc[w] \in Locked

(* ClearMsgTx waits for syncTxLock.Lock, or holds it. *)
WriterWaiting == cpc = "lock"
Clearing == cpc \in {"points", "row"}

Init ==
    /\ txInfo = [t \in Tx |-> "absent"]
    /\ txPoint = {}
    /\ pc = [w \in Worker |-> "idle"]
    /\ src = [w \in Worker |-> "peer"]
    /\ txids = [w \in Worker |-> {}]
    /\ lack = [w \in Worker |-> {}]
    /\ need = [w \in Worker |-> {}]
    /\ cur = [w \in Worker |-> NoTx]
    /\ left = [w \in Worker |-> {}]
    /\ inv = [w \in Worker |-> {}]
    /\ cpc = "idle"
    /\ victim = NoTx
    /\ settled = {}
    /\ torn = {}
    /\ stale = {}

Goto(w, l) == pc' = [pc EXCEPT ![w] = l]

(* SyncTxs returns: its local variables are gone, a lock it held is free.  *)
Return(w) ==
    /\ Goto(w, "idle")
    /\ src' = [src EXCEPT ![w] = "peer"]
    /\ txids' = [txids EXCEPT ![w] = {}]
    /\ lack' = [lack EXCEPT ![w] = {}]
    /\ need' = [need EXCEPT ![w] = {}]
    /\ cur' = [cur EXCEPT ![w] = NoTx]
    /\ left' = [left EXCEPT ![w] = {}]
    /\ inv' = [inv EXCEPT ![w] = {}]

(* The process dies; Mongo keeps what was written. *)
Crash ==
    /\ pc' = [w \in Worker |-> "idle"]
    /\ src' = [w \in Worker |-> "peer"]
    /\ txids' = [w \in Worker |-> {}]
    /\ lack' = [w \in Worker |-> {}]
    /\ need' = [w \in Worker |-> {}]
    /\ cur' = [w \in Worker |-> NoTx]
    /\ left' = [w \in Worker |-> {}]
    /\ inv' = [w \in Worker |-> {}]
    /\ cpc' = "idle"
    /\ victim' = NoTx
    /\ torn' = IF Clearing THEN torn \cup {victim} ELSE torn
    /\ UNCHANGED <<db, settled, stale>>

-----------------------------------------------------------------------------
(* SyncTxs, before it takes the lock *)

StartSync(w, r) ==
    /\ pc[w] = "idle"
    /\ Goto(w, "lookup")
    /\ src' = [src EXCEPT ![w] = r.src]
    /\ txids' = [txids EXCEPT ![w] = r.txids]
    /\ UNCHANGED <<db, lack, need, proc, checker, ghost>>

(* An unknown txid is asked for if mapi knows it, and reported otherwise;  *)
(* a closed one is left alone; a new or open one is processed again.       *)
LookupTx(w, t) ==
    /\ pc[w] = "lookup"
    /\ t \in txids[w]
    /\ txids' = [txids EXCEPT ![w] = @ \ {t}]
    /\ CASE txInfo[t] = "absent" ->
              /\ \/ lack' = [lack EXCEPT ![w] = @ \cup {t}]
                 \/ UNCHANGED lack
              /\ UNCHANGED need
         [] txInfo[t] = "closed" -> UNCHANGED <<lack, need>>
         [] OTHER -> /\ need' = [need EXCEPT ![w] = @ \cup {t}]
                     /\ UNCHANGED lack
    /\ UNCHANGED <<db, pc, src, proc, checker, ghost>>

(* GetTxBytes: the local source has what it is asked for, a peer may have  *)
(* lost some of it.                                                        *)
GetTxBytes(w, got) ==
    /\ pc[w] = "lookup"
    /\ txids[w] = {}
    /\ got \subseteq lack[w]
    /\ src[w] = "local" => got = lack[w]
    /\ lack' = [lack EXCEPT ![w] = got]
    /\ Goto(w, "rlock")
    /\ UNCHANGED <<db, src, txids, need, proc, checker, ghost>>

(* Mutant: readers do not give way to a waiting writer. *)
RLockOvertakes(w) ==
    /\ pc[w] = "rlock"
    /\ ~Clearing
    /\ Goto(w, "batch")
    /\ UNCHANGED <<db, job, proc, checker, ghost>>

(* sync.RWMutex: a waiting writer keeps new readers out. *)
RLock(w) ==
    /\ pc[w] = "rlock"
    /\ ~WriterWaiting /\ ~Clearing
    /\ Goto(w, "batch")
    /\ UNCHANGED <<db, job, proc, checker, ghost>>

(* AddMsgTxInfo: the row is new, and a duplicate is left as it is. *)
AddMsgTxInfo(w, t) ==
    /\ pc[w] = "batch"
    /\ t \in lack[w]
    /\ lack' = [lack EXCEPT ![w] = @ \ {t}]
    /\ need' = [need EXCEPT ![w] = @ \cup {t}]
    /\ txInfo' = IF txInfo[t] = "absent" THEN [txInfo EXCEPT ![t] = "new"] ELSE txInfo
    /\ UNCHANGED <<txPoint, pc, src, txids, proc, checker, ghost>>

(* A database, mapi or peer error, or an answer of the peer that was not   *)
(* asked for: SyncTxs gives up, with what it has written so far.           *)
SyncFail(w) ==
    /\ pc[w] = "lookup" \/ (pc[w] = "batch" /\ lack[w] # {})
    /\ Return(w)
    /\ UNCHANGED <<db, checker, ghost>>

-----------------------------------------------------------------------------
(* ProcessMsgTxs, under the read lock *)

Parents(t) == {TxIn[t][i].pre : i \in DOMAIN TxIn[t]}

(* SortMsgTx: a transaction comes after those of the batch that it spends. *)
ProcessMsgTx(w, t) ==
    /\ pc[w] = "batch"
    /\ lack[w] = {}
    /\ t \in need[w]
    /\ Parents(t) \cap need[w] = {}
    /\ need' = [need EXCEPT ![w] = @ \ {t}]
    /\ cur' = [cur EXCEPT ![w] = t]
    /\ left' = [left EXCEPT ![w] = BadgeVins(t)]
    /\ inv' = [inv EXCEPT ![w] = {}]
    /\ Goto(w, "vin")
    /\ UNCHANGED <<db, src, txids, lack, checker, ghost>>

(* The vin that the loop of ParseMsgTx is at. *)
IsNextVin(w, i) == i \in left[w] /\ \A j \in left[w] : i <= j

(* GetTxPoint returned p for vin i. *)
TakeVin(w, i, p) ==
    /\ inv' = [inv EXCEPT ![w] = @ \cup {VinPoint(cur[w], i, p)}]
    /\ left' = [left EXCEPT ![w] = @ \ {i}]
    /\ Goto(w, "vin")

(* Mutant: a vin whose point is not there yet is passed over. *)
ReadPointSkips(w, i) ==
    /\ pc[w] = "vin"
    /\ IsNextVin(w, i)
    /\ LET hit == FindVout(txPoint, TxIn[cur[w]][i])
       IN  \/ \E p \in hit : TakeVin(w, i, p)
           \/ hit = {} /\ left' = [left EXCEPT ![w] = @ \ {i}] /\ UNCHANGED <<pc, inv>>
    /\ UNCHANGED <<db, job, cur, checker, ghost>>

(* GetTxPoint, first read: the point of the vout. *)
ReadPoint(w, i) ==
    /\ pc[w] = "vin"
    /\ IsNextVin(w, i)
    /\ LET hit == FindVout(txPoint, TxIn[cur[w]][i])
       IN  \/ \E p \in hit : TakeVin(w, i, p)
           \/ hit = {} /\ Goto(w, "brief") /\ UNCHANGED <<left, inv>>
    /\ UNCHANGED <<db, job, cur, checker, ghost>>

(* Mutant: any stored transaction counts as closed. *)
ReadBriefAnyState(w, i) ==
    /\ pc[w] = "brief"
    /\ IsNextVin(w, i)
    /\ LET pre == TxIn[cur[w]][i].pre
       IN  IF pre \in Tx /\ txInfo[pre] # "absent" THEN Goto(w, "recheck")
                                                   ELSE Goto(w, "open")
    /\ UNCHANGED <<db, job, proc, checker, ghost>>

(* GetTxPoint, second read: is the transaction of the vout closed?  If not *)
(* ParseMsgTx fails with "unknow utxo".                                    *)
ReadBrief(w, i) ==
    /\ pc[w] = "brief"
    /\ IsNextVin(w, i)
    /\ LET pre == TxIn[cur[w]][i].pre
       IN  IF pre \in Tx /\ txInfo[pre] = "closed" THEN Goto(w, "recheck")
                                                  ELSE Goto(w, "open")
    /\ UNCHANGED <<db, job, proc, checker, ghost>>

(* GetTxPoint, the double check. *)
Recheck(w, i) ==
    /\ pc[w] = "recheck"
    /\ IsNextVin(w, i)
    /\ \E p \in FindVout(txPoint, TxIn[cur[w]][i]) : TakeVin(w, i, p)
    /\ UNCHANGED <<db, job, cur, checker, ghost>>

(* "illegal vin": GetTxPoint returns a nil point, which ParseMsgTx         *)
(* dereferences.  net/http recovers the panic of a request; in any other   *)
(* goroutine it ends the process.                                          *)
IllegalVin(w, i) ==
    /\ pc[w] = "recheck"
    /\ IsNextVin(w, i)
    /\ FindVout(txPoint, TxIn[cur[w]][i]) = {}
    /\ \/ src[w] = "local" /\ Return(w) /\ UNCHANGED <<db, checker, ghost>>
       \/ src[w] = "peer" /\ Crash

(* The rest of ParseMsgTx touches no database. *)
ParseMsgTx(w) ==
    /\ pc[w] = "vin"
    /\ left[w] = {}
    /\ inv' = [inv EXCEPT ![w] = @ \cup ParseVouts(cur[w], TxOut[cur[w]], @)]
    /\ Goto(w, "insert")
    /\ UNCHANGED <<db, job, cur, left, checker, ghost>>

(* ParseAndAddTxPoints inserts the vins, then the vouts, in their order. *)
InsertedBefore(p, q) ==
    \/ p.type = "vin" /\ q.type = "vout"
    \/ p.type = q.type /\ p.index < q.index

(* A duplicate key is ignored. *)
AddTxPoint(w, p) ==
    /\ pc[w] = "insert"
    /\ p \in inv[w]
    /\ \A q \in inv[w] : ~InsertedBefore(q, p)
    /\ inv' = [inv EXCEPT ![w] = @ \ {p}]
    /\ txPoint' = IF \E q \in txPoint : SameKey(p, q) THEN txPoint ELSE txPoint \cup {p}
    /\ UNCHANGED <<txInfo, pc, job, cur, left, checker, ghost>>

(* On to the next transaction of the batch. *)
ProcessNext(w) ==
    /\ cur' = [cur EXCEPT ![w] = NoTx]
    /\ left' = [left EXCEPT ![w] = {}]
    /\ inv' = [inv EXCEPT ![w] = {}]
    /\ Goto(w, "batch")

(* Mutant: the state is not looked at. *)
SetMsgTxStateClosed(t, s) ==
    txInfo' = IF txInfo[t] = "absent" THEN txInfo ELSE [txInfo EXCEPT ![t] = "closed"]

(* SetMsgTxState fails, with "not found", if the row is gone. *)
SetMsgTxState(t, s) ==
    txInfo' = IF txInfo[t] = "absent" THEN txInfo ELSE [txInfo EXCEPT ![t] = s]

(* Mutant: the transaction is closed before its points are inserted. *)
SetClosedEarly(w) ==
    /\ pc[w] = "insert"
    /\ SetMsgTxState(cur[w], "closed")
    /\ IF txInfo[cur[w]] = "absent"
         THEN UNCHANGED <<settled, torn>>
         ELSE settled' = settled \cup {cur[w]} /\ torn' = torn \ {cur[w]}
    /\ ProcessNext(w)
    /\ UNCHANGED <<txPoint, job, checker, stale>>

SetClosed(w) ==
    /\ pc[w] = "insert"
    /\ inv[w] = {}
    /\ SetMsgTxState(cur[w], "closed")
    /\ IF txInfo[cur[w]] = "absent"
         THEN UNCHANGED <<settled, torn>>
         ELSE settled' = settled \cup {cur[w]} /\ torn' = torn \ {cur[w]}
    /\ ProcessNext(w)
    /\ UNCHANGED <<txPoint, job, checker, stale>>

SetOpen(w) ==
    /\ pc[w] = "open"
    /\ SetMsgTxState(cur[w], "open")
    /\ ProcessNext(w)
    /\ UNCHANGED <<txPoint, job, checker, ghost>>

(* A database error in ProcessMsgTx ends the work on cur only. *)
ProcessFail(w) ==
    /\ pc[w] \in {"vin", "brief", "recheck", "insert", "open"}
    /\ ProcessNext(w)
    /\ UNCHANGED <<db, job, checker, ghost>>

(* The batch is done; the peers are notified and the lock is released.     *)
SyncDone(w) ==
    /\ pc[w] = "batch"
    /\ lack[w] = {}
    /\ need[w] = {}
    /\ Return(w)
    /\ UNCHANGED <<db, checker, ghost>>

-----------------------------------------------------------------------------
(* CheckTxState *)

(* The loop body for a row of GetMsgTxBriefInfoByHeightRange that mapi does *)
(* not know any more.  Only this goroutine deletes rows, so a row of its   *)
(* list is still there when its turn comes, and the loop is a sequence of  *)
(* such steps, each about any row that is stored.                          *)
CheckTxState(t) ==
    /\ cpc = "idle"
    /\ txInfo[t] # "absent"
    /\ cpc' = "lock"
    /\ victim' = t
    /\ UNCHANGED <<db, pc, job, proc, ghost>>

(* Mutant: the writer does not wait for the readers. *)
LockAnyway ==
    /\ cpc = "lock"
    /\ cpc' = "points"
    /\ settled' = settled \ {victim}
    /\ UNCHANGED <<db, pc, job, proc, victim, torn, stale>>

(* ClearMsgTx takes the write lock; from here on t is not settled. *)
Lock ==
    /\ cpc = "lock"
    /\ \A w \in Worker : ~Reading(w)
    /\ cpc' = "points"
    /\ settled' = settled \ {victim}
    /\ UNCHANGED <<db, pc, job, proc, victim, torn, stale>>

(* RemoveAll deletes one document after the other. *)
DeleteTxPoints(p) ==
    /\ cpc = "points"
    /\ p \in txPoint
    /\ p.txid = victim
    /\ txPoint' = txPoint \ {p}
    /\ UNCHANGED <<txInfo, pc, job, proc, checker, ghost>>

(* Mutant: the row is deleted although points are left. *)
TxPointsLeft ==
    /\ cpc = "points"
    /\ cpc' = "row"
    /\ UNCHANGED <<db, pc, job, proc, victim, ghost>>

TxPointsDeleted ==
    /\ cpc = "points"
    /\ \A p \in txPoint : p.txid # victim
    /\ cpc' = "row"
    /\ UNCHANGED <<db, pc, job, proc, victim, ghost>>

(* A worker that is not yet behind the lock keeps the transaction in its   *)
(* needProcessTx.                                                          *)
LookedUp(t) == \E w \in Worker : pc[w] \in {"lookup", "rlock"} /\ t \in need[w]

(* Mutant: the write lock is not released. *)
DeleteMsgTxKeepsLock ==
    /\ cpc = "row"
    /\ txInfo' = [txInfo EXCEPT ![victim] = "absent"]
    /\ torn' = torn \ {victim}
    /\ stale' = IF LookedUp(victim) THEN stale \cup {victim} ELSE stale \ {victim}
    /\ UNCHANGED <<txPoint, pc, job, proc, checker, settled>>

DeleteMsgTx ==
    /\ cpc = "row"
    /\ txInfo' = [txInfo EXCEPT ![victim] = "absent"]
    /\ torn' = torn \ {victim}
    /\ stale' = IF LookedUp(victim) THEN stale \cup {victim} ELSE stale \ {victim}
    /\ cpc' = "idle"
    /\ victim' = NoTx
    /\ UNCHANGED <<txPoint, pc, job, proc, settled>>

(* A database error: ClearMsgTx returns it; the row stays. *)
ClearFail ==
    /\ Clearing
    /\ cpc' = "idle"
    /\ victim' = NoTx
    /\ torn' = torn \cup {victim}
    /\ UNCHANGED <<db, pc, job, proc, settled, stale>>

-----------------------------------------------------------------------------
Progress(w) ==
    \/ \E t \in Tx : LookupTx(w, t) \/ AddMsgTxInfo(w, t) \/ ProcessMsgTx(w, t)
    \/ \E got \in SUBSET lack[w] : GetTxBytes(w, got)
    \/ \E i \in left[w] : ReadPoint(w, i) \/ ReadBrief(w, i) \/ Recheck(w, i) \/ IllegalVin(w, i)
    \/ ParseMsgTx(w)
    \/ \E p \in inv[w] : AddTxPoint(w, p)
    \/ SetClosed(w)
    \/ SetOpen(w)
    \/ SyncDone(w)

WorkerNext(w) ==
    \/ \E r \in Requests : StartSync(w, r)
    \/ Progress(w)
    \/ RLock(w)
    \/ SyncFail(w)
    \/ ProcessFail(w)

ClearProgress ==
    \/ Lock
    \/ \E p \in txPoint : DeleteTxPoints(p)
    \/ TxPointsDeleted
    \/ DeleteMsgTx

CheckerNext ==
    \/ \E t \in Tx : CheckTxState(t)
    \/ ClearProgress
    \/ ClearFail

Next ==
    \/ \E w \in Worker : WorkerNext(w)
    \/ CheckerNext
    \/ Crash

Spec == Init /\ [][Next]_vars

(* Every call of Mongo, mapi and a peer returns, so a worker and the       *)
(* checker keep taking steps.  Unlock of a sync.RWMutex lets the waiting   *)
(* readers in before the next writer: a reader that waits again and again  *)
(* while the lock is free gets it.                                         *)
Fairness ==
    /\ \A w \in Worker : WF_vars(Progress(w)) /\ SF_vars(RLock(w))
    /\ WF_vars(ClearProgress)

FairSpec == Spec /\ Fairness

-----------------------------------------------------------------------------
(* Properties *)

(* The collections msg_tx and tx_point, the mutex and the locals of SyncTxs *)
(* and of CheckTxState keep their types.                                    *)
TypeOK ==
    /\ txInfo \in [Tx -> TxState]
    /\ pc \in [Worker -> {"idle", "lookup", "rlock"} \cup Locked]
    /\ src \in [Worker -> {"local", "peer"}]
    /\ txids \in [Worker -> SUBSET Tx]
    /\ lack \in [Worker -> SUBSET Tx]
    /\ need \in [Worker -> SUBSET Tx]
    /\ cur \in [Worker -> Tx \cup {NoTx}]
    /\ left \in [Worker -> SUBSET Nat]
    /\ inv \in [Worker -> SUBSET Rows]
    /\ cpc \in {"idle", "lock", "points", "row"}
    /\ victim \in Tx \cup {NoTx}
    /\ settled \subseteq Tx
    /\ torn \subseteq Tx
    /\ stale \subseteq Tx

Ledger == INSTANCE BadgeLedger WITH txPoint <- txPoint, settled <- settled

(* The tx_point collection never holds a point the badge protocol does not *)
(* give, whichever way the steps of the workers, of CheckTxState and of    *)
(* crashes interleave: a worker parses against the badges themselves, not  *)
(* against what another worker left half done.                             *)
Sound == Ledger!Sound

(* A transaction that SetMsgTxState closed has all its points, and keeps   *)
(* them until ClearMsgTx begins on it: also if a slow worker sets it open  *)
(* again, and across crashes.                                              *)
SettledComplete == Ledger!SettledComplete

(* TX_STATE_CLOSED means settled, but for a row whose clearing was         *)
(* interrupted between DeleteTxPoints and DeleteMsgTx.                     *)
ClosedIsSettled ==
    \A t \in Tx : txInfo[t] = "closed" =>
        t \in settled \cup torn \/ (Clearing /\ t = victim)

(* GetTxPoint says "illegal vin" only of an outpoint that is not a badge,  *)
(* unless the clearing of its transaction was interrupted: the double check*)
(* sees the points of a transaction that closes between its two reads.     *)
IllegalVinIsFinal ==
    \A w \in Worker : \A i \in left[w] :
        pc[w] = "recheck" /\ IsNextVin(w, i) /\ FindVout(txPoint, TxIn[cur[w]][i]) = {} =>
            Spent(cur[w], i) = {} \/ TxIn[cur[w]][i].pre \in torn

(* A point without a raw_tx_info row is a leftover that no CheckTxState    *)
(* will clear.  There is one way to it: a worker looked the transaction up *)
(* before it waited for the lock, and ClearMsgTx ran in between.           *)
OrphansAreStale ==
    \A p \in txPoint : txInfo[p.txid] = "absent" => p.txid \in stale

(* The ledger of one node implements the promise to its readers. *)
Refinement == Ledger!Spec

(* Every call of SyncTxs comes to its end (or dies with the process). *)
SyncTerminates == \A w \in Worker : pc[w] # "idle" ~> pc[w] = "idle"

(* ClearMsgTx gets the write lock and comes to its end, however many       *)
(* requests keep arriving.                                                 *)
ClearTerminates == cpc # "idle" ~> cpc = "idle"

-----------------------------------------------------------------------------
(* The inductive invariant behind the safety properties *)

(* syncTxLock: nobody reads while ClearMsgTx holds the lock. *)
LockInv == Clearing => \A w \in Worker : ~Reading(w)

(* ParseMsgTx knows exactly the badges that the vins it has read spend,    *)
(* and they stay in the collection as long as the lock is held.            *)
ParseInv ==
    \A w \in Worker : pc[w] \in {"vin", "brief", "recheck"} =>
        /\ cur[w] \in Tx
        /\ left[w] \subseteq BadgeVins(cur[w])
        /\ inv[w] = VinPointsOf(cur[w], BadgeVins(cur[w]) \ left[w])
        /\ \A i \in BadgeVins(cur[w]) \ left[w] :
               Spent(cur[w], i) # {} /\ Spent(cur[w], i) \subseteq txPoint

(* While the inventory is inserted, what is missing in the collection is   *)
(* still to come.                                                          *)
InsertInv ==
    \A w \in Worker : pc[w] = "insert" =>
        /\ cur[w] \in Legal
        /\ inv[w] \subseteq Points[cur[w]]
        /\ Points[cur[w]] \subseteq txPoint \cup inv[w]
        /\ SpentPoints[cur[w]] \subseteq txPoint

(* At the double check the transaction of the vout has been closed. *)
RecheckInv ==
    \A w \in Worker : \A i \in left[w] :
        pc[w] = "recheck" /\ IsNextVin(w, i) => TxIn[cur[w]][i].pre \in settled \cup torn

(* A worker has work only for transactions that are stored, or that were   *)
(* cleared under its feet.                                                 *)
NeedInv ==
    \A w \in Worker :
        /\ pc[w] = "idle" => need[w] = {}
        /\ \A t \in need[w] : txInfo[t] # "absent" \/ t \in stale
        /\ pc[w] \in Locked \ {"batch"} =>
              cur[w] \in Tx /\ (txInfo[cur[w]] # "absent" \/ cur[w] \in stale)

ClearInv ==
    /\ cpc # "idle" => victim \in Tx
    /\ Clearing => victim \notin settled
    /\ cpc = "row" => \A p \in txPoint : p.txid # victim

(* The inductive invariant of SyncTxs and CheckTxState together: the four   *)
(* safety properties and what every worker knows at its program counter.    *)
IndInv ==
    /\ TypeOK
    /\ Sound
    /\ SettledComplete
    /\ ClosedIsSettled
    /\ OrphansAreStale
    /\ LockInv
    /\ ParseInv
    /\ InsertInv
    /\ RecheckInv
    /\ NeedInv
    /\ ClearInv
=============================================================================
