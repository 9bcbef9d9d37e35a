----------------------- MODULE TouchstoneLedgerProofs ------------------------
(***************************************************************************)
(* The safety of TouchstoneLedger, for any set of transactions, workers    *)
(* and requests.  One lemma per action shows that it preserves IndInv; the *)
(* first step of a lemma is about the parts of IndInv whose variables the  *)
(* action leaves alone.                                                    *)
(*                                                                         *)
(* The last part is about SortMsgTx, which puts the batch of a worker into *)
(* the order in which TouchstoneLedger takes it: for every batch, the      *)
(* parents of a transaction come first.                                    *)
(***************************************************************************)
EXTENDS TouchstoneLedger, SortMsgTx, FiniteSetTheorems, FunctionTheorems, WellFoundedInduction, TLAPS

-----------------------------------------------------------------------------
(* Facts about the points of transactions. *)

(* A badge of t is the row ParseMsgTx builds for one of its vouts. *)
LEMMA TokenShape ==
    ASSUME NEW t \in Tx, NEW p \in Token[t]
    PROVE  \E k : p = VoutPoint(t, k, TxOut[t][k], BadgeCode(t, VinPoints[t]))
BY TokenAssumption DEF ParseVouts

(* A badge is a vout of its own transaction. *)
LEMMA TokenFields ==
    ASSUME NEW t \in Tx, NEW p \in Token[t]
    PROVE  p.txid = t /\ p.type = "vout"
BY TokenShape DEF VoutPoint

(* An outpoint carries at most one badge. *)
LEMMA TokenUnique ==
    ASSUME NEW t \in Tx, NEW p \in Token[t], NEW q \in Token[t], p.index = q.index
    PROVE  p = q
<1>1. PICK k : p = VoutPoint(t, k, TxOut[t][k], BadgeCode(t, VinPoints[t]))
  BY TokenShape
<1>2. PICK j : q = VoutPoint(t, j, TxOut[t][j], BadgeCode(t, VinPoints[t]))
  BY TokenShape
<1>3. k = p.index /\ j = q.index
  BY <1>1, <1>2 DEF VoutPoint
<1> QED  BY <1>1, <1>2, <1>3

(* So does a badge vin: Spent is a singleton or empty. *)
LEMMA SpentUnique ==
    ASSUME NEW t \in Tx, NEW k, NEW p \in Spent(t, k), NEW q \in Spent(t, k)
    PROVE  p = q
<1>1. TxIn[t][k].pre \in Tx
  BY DEF Spent
<1>2. p \in Token[TxIn[t][k].pre] /\ q \in Token[TxIn[t][k].pre] /\ p.index = q.index
  BY <1>1 DEF Spent, FindVout
<1> QED  BY <1>1, <1>2, TokenUnique

(* The vin points of t. *)
LEMMA VinPointFields ==
    ASSUME NEW t \in Tx, NEW p \in VinPoints[t]
    PROVE  /\ p.txid = t /\ p.type = "vin"
           /\ p.index \in BadgeVins(t)
           /\ \E q \in Spent(t, p.index) : p = VinPoint(t, p.index, q)
<1>1. PICK k \in BadgeVins(t) : \E q \in Spent(t, k) : p = VinPoint(t, k, q)
  BY DEF VinPoints, VinPointsOf
<1>2. p.index = k /\ p.txid = t /\ p.type = "vin"
  BY <1>1 DEF VinPoint
<1> QED  BY <1>1, <1>2

(* A transaction has only points of its own. *)
LEMMA PointFields ==
    ASSUME NEW t \in Tx, NEW p \in Points[t]
    PROVE  /\ p.txid = t
           /\ p.type = "vin" => p \in VinPoints[t]
           /\ p.type = "vout" => p \in Token[t]
           /\ p.type \in {"vin", "vout"}
           /\ t \in Legal
<1>1. t \in Legal /\ (p \in VinPoints[t] \/ p \in Token[t])
  BY DEF Points, Legal
<1> QED  BY <1>1, VinPointFields, TokenFields

(* What ends in the collection is built by ParseMsgTx. *)
LEMMA PointsAreRows == AllPoints \subseteq Rows
BY DEF AllPoints, Points, Rows

(* No two points have the same key, so the unique index of tx_point never  *)
(* turns away a point that differs from the one stored.                    *)
LEMMA KeyUnique ==
    ASSUME NEW p \in AllPoints, NEW q \in AllPoints, SameKey(p, q)
    PROVE  p = q
<1>1. PICK t \in Tx : p \in Points[t]
  BY DEF AllPoints
<1>2. PICK u \in Tx : q \in Points[u]
  BY DEF AllPoints
<1>3. t = u /\ p.index = q.index /\ p.type = q.type
  BY <1>1, <1>2, PointFields DEF SameKey
<1>4. CASE p.type = "vout"
  BY <1>1, <1>2, <1>3, <1>4, PointFields, TokenUnique
<1>5. CASE p.type = "vin"
  <2>1. p \in VinPoints[t] /\ q \in VinPoints[t]
    BY <1>1, <1>2, <1>3, <1>5, PointFields
  <2>2. PICK a \in Spent(t, p.index) : p = VinPoint(t, p.index, a)
    BY <2>1, VinPointFields
  <2>3. PICK b \in Spent(t, p.index) : q = VinPoint(t, p.index, b)
    BY <1>3, <2>1, VinPointFields
  <2> QED  BY <2>2, <2>3, SpentUnique
<1> QED  BY <1>1, <1>4, <1>5, PointFields

(* A vout found in a sound collection is the badge that the vin spends. *)
LEMMA FoundIsSpent ==
    ASSUME NEW rows \in SUBSET AllPoints, NEW t \in Tx, NEW k,
           NEW p \in FindVout(rows, TxIn[t][k])
    PROVE  p \in rows /\ Spent(t, k) = {p}
<1>1. PICK u \in Tx : p \in Points[u]
  BY DEF AllPoints, FindVout
<1>2. p \in rows /\ p.type = "vout" /\ p.txid = TxIn[t][k].pre /\ p.index = TxIn[t][k].idx
  BY DEF FindVout
<1>3. u = TxIn[t][k].pre /\ p \in Token[u]
  BY <1>1, <1>2, PointFields
<1>4. p \in Spent(t, k)
  BY <1>1, <1>2, <1>3 DEF Spent, FindVout
<1> QED  BY <1>2, <1>4, SpentUnique

-----------------------------------------------------------------------------
(* The steps of the ledger. *)

(* What GetTxPoint finds for a vin is the badge that the vin spends. *)
LEMMA FoundVin ==
    ASSUME Sound, NEW w \in Worker, cur[w] \in Tx, NEW k \in Nat,
           NEW p \in FindVout(txPoint, TxIn[cur[w]][k])
    PROVE  p \in txPoint /\ Spent(cur[w], k) = {p}
<1>1. txPoint \in SUBSET AllPoints
  BY DEF Sound, Ledger!Sound, AllPoints
<1> QED  BY <1>1, FoundIsSpent

(* A request arrives. *)
LEMMA StepStartSync ==
    ASSUME IndInv, NEW w \in Worker, NEW r \in Requests, StartSync(w, r)
    PROVE  IndInv'
<1> USE DEF IndInv
<1>1. /\ Sound'
      /\ SettledComplete'
      /\ ClosedIsSettled'
      /\ OrphansAreStale'
      /\ ClearInv'
  BY DEF Sound, Ledger!Sound, SettledComplete, Ledger!SettledComplete,
        ClosedIsSettled, Clearing, OrphansAreStale, ClearInv, StartSync, Goto,
        Locked, db, proc, checker, ghost
<1>2. TypeOK'
  BY RequestsAssumption DEF TypeOK, StartSync, Goto, Locked, db, proc,
        checker, ghost
<1>3. LockInv'
  BY DEF TypeOK, LockInv, Clearing, Reading, StartSync, Goto, Locked, db,
        proc, checker, ghost
<1>4. ParseInv'
  BY DEF TypeOK, ParseInv, StartSync, Goto, Locked, db, proc, checker, ghost
<1>5. InsertInv'
  BY DEF TypeOK, InsertInv, StartSync, Goto, Locked, db, proc, checker, ghost
<1>6. RecheckInv'
  BY DEF TypeOK, RecheckInv, IsNextVin, StartSync, Goto, Locked, db, proc,
        checker, ghost
<1>7. NeedInv'
  BY DEF TypeOK, NeedInv, StartSync, Goto, Locked, db, proc, checker, ghost
<1> QED  BY <1>1, <1>2, <1>3, <1>4, <1>5, <1>6, <1>7

(* A lookup finds a row, or puts the txid on the list for the source. *)
LEMMA StepLookupTx ==
    ASSUME IndInv, NEW w \in Worker, NEW t \in Tx, LookupTx(w, t)
    PROVE  IndInv'
<1> USE DEF IndInv
<1>1. /\ Sound'
      /\ SettledComplete'
      /\ ClosedIsSettled'
      /\ OrphansAreStale'
      /\ LockInv'
      /\ ParseInv'
      /\ InsertInv'
      /\ RecheckInv'
      /\ ClearInv'
  BY DEF Sound, Ledger!Sound, SettledComplete, Ledger!SettledComplete,
        ClosedIsSettled, Clearing, OrphansAreStale, LockInv, Reading,
        ParseInv, InsertInv, RecheckInv, IsNextVin, ClearInv, LookupTx,
        Locked, db, proc, checker, ghost
<1>2. TypeOK'
  BY DEF TypeOK, LookupTx, Locked, db, proc, checker, ghost
<1>3. NeedInv'
  BY DEF TypeOK, NeedInv, LookupTx, Locked, db, proc, checker, ghost
<1> QED  BY <1>1, <1>2, <1>3

(* The source answers. *)
LEMMA StepGetTxBytes ==
    ASSUME IndInv, NEW w \in Worker, NEW got, GetTxBytes(w, got)
    PROVE  IndInv'
<1> USE DEF IndInv
<1>1. /\ Sound'
      /\ SettledComplete'
      /\ ClosedIsSettled'
      /\ OrphansAreStale'
      /\ ClearInv'
  BY DEF Sound, Ledger!Sound, SettledComplete, Ledger!SettledComplete,
        ClosedIsSettled, Clearing, OrphansAreStale, ClearInv, GetTxBytes,
        Goto, Locked, db, proc, checker, ghost
<1>2. TypeOK'
  BY DEF TypeOK, GetTxBytes, Goto, Locked, db, proc, checker, ghost
<1>3. LockInv'
  BY DEF TypeOK, LockInv, Clearing, Reading, GetTxBytes, Goto, Locked, db,
        proc, checker, ghost
<1>4. ParseInv'
  BY DEF TypeOK, ParseInv, GetTxBytes, Goto, Locked, db, proc, checker, ghost
<1>5. InsertInv'
  BY DEF TypeOK, InsertInv, GetTxBytes, Goto, Locked, db, proc, checker, ghost
<1>6. RecheckInv'
  BY DEF TypeOK, RecheckInv, IsNextVin, GetTxBytes, Goto, Locked, db, proc,
        checker, ghost
<1>7. NeedInv'
  BY DEF TypeOK, NeedInv, GetTxBytes, Goto, Locked, db, proc, checker, ghost
<1> QED  BY <1>1, <1>2, <1>3, <1>4, <1>5, <1>6, <1>7

(* The read lock is only granted while nobody clears. *)
LEMMA StepRLock ==
    ASSUME IndInv, NEW w \in Worker, RLock(w)
    PROVE  IndInv'
<1> USE DEF IndInv
<1>1. /\ Sound'
      /\ SettledComplete'
      /\ ClosedIsSettled'
      /\ OrphansAreStale'
      /\ ClearInv'
  BY DEF Sound, Ledger!Sound, SettledComplete, Ledger!SettledComplete,
        ClosedIsSettled, Clearing, OrphansAreStale, ClearInv, RLock, Goto,
        Locked, db, job, proc, checker, ghost
<1>2. TypeOK'
  BY DEF TypeOK, RLock, Goto, Locked, db, job, proc, checker, ghost
<1>3. LockInv'
  BY DEF TypeOK, LockInv, Clearing, Reading, RLock, Goto, Locked, db, job,
        proc, checker, ghost
<1>4. ParseInv'
  BY DEF TypeOK, ParseInv, RLock, Goto, Locked, db, job, proc, checker, ghost
<1>5. InsertInv'
  BY DEF TypeOK, InsertInv, RLock, Goto, Locked, db, job, proc, checker, ghost
<1>6. RecheckInv'
  BY DEF TypeOK, RecheckInv, IsNextVin, RLock, Goto, Locked, db, job, proc,
        checker, ghost
<1>7. NeedInv'
  BY DEF TypeOK, NeedInv, RLock, Goto, Locked, db, job, proc, checker, ghost
<1> QED  BY <1>1, <1>2, <1>3, <1>4, <1>5, <1>6, <1>7

(* A row is created, or was there. *)
LEMMA StepAddMsgTxInfo ==
    ASSUME IndInv, NEW w \in Worker, NEW t \in Tx, AddMsgTxInfo(w, t)
    PROVE  IndInv'
<1> USE DEF IndInv
<1>1. /\ Sound'
      /\ SettledComplete'
      /\ LockInv'
      /\ ParseInv'
      /\ InsertInv'
      /\ RecheckInv'
      /\ ClearInv'
  BY DEF Sound, Ledger!Sound, SettledComplete, Ledger!SettledComplete,
        LockInv, Clearing, Reading, ParseInv, InsertInv, RecheckInv,
        IsNextVin, ClearInv, AddMsgTxInfo, Locked, proc, checker, ghost
<1>2. TypeOK'
  BY DEF TypeOK, AddMsgTxInfo, Locked, proc, checker, ghost, TxState
<1>3. ClosedIsSettled'
  BY DEF TypeOK, ClosedIsSettled, Clearing, AddMsgTxInfo, Locked, proc,
        checker, ghost
<1>4. OrphansAreStale'
  BY DEF TypeOK, OrphansAreStale, AddMsgTxInfo, Locked, proc, checker, ghost
<1>5. NeedInv'
  BY DEF TypeOK, NeedInv, AddMsgTxInfo, Locked, proc, checker, ghost
<1> QED  BY <1>1, <1>2, <1>3, <1>4, <1>5

(* A call of SyncTxs ends. *)
LEMMA StepReturn ==
    ASSUME IndInv, NEW w \in Worker, Return(w), UNCHANGED <<db, checker, ghost>>
    PROVE  IndInv'
<1> USE DEF IndInv
<1>1. /\ Sound'
      /\ SettledComplete'
      /\ ClosedIsSettled'
      /\ OrphansAreStale'
      /\ ClearInv'
  BY DEF Sound, Ledger!Sound, SettledComplete, Ledger!SettledComplete,
        ClosedIsSettled, Clearing, OrphansAreStale, ClearInv, Return, Goto,
        Locked, db, checker, ghost
<1>2. TypeOK'
  BY DEF TypeOK, Return, Goto, Locked, db, checker, ghost
<1>3. LockInv'
  BY DEF TypeOK, LockInv, Clearing, Reading, Return, Goto, Locked, db,
        checker, ghost
<1>4. ParseInv'
  BY DEF TypeOK, ParseInv, Return, Goto, Locked, db, checker, ghost
<1>5. InsertInv'
  BY DEF TypeOK, InsertInv, Return, Goto, Locked, db, checker, ghost
<1>6. RecheckInv'
  BY DEF TypeOK, RecheckInv, IsNextVin, Return, Goto, Locked, db, checker,
        ghost
<1>7. NeedInv'
  BY DEF TypeOK, NeedInv, Return, Goto, Locked, db, checker, ghost
<1> QED  BY <1>1, <1>2, <1>3, <1>4, <1>5, <1>6, <1>7

(* ParseMsgTx begins with an empty inventory and all vins to read. *)
LEMMA StepProcessMsgTx ==
    ASSUME IndInv, NEW w \in Worker, NEW t \in Tx, ProcessMsgTx(w, t)
    PROVE  IndInv'
<1> USE DEF IndInv
<1>1. /\ Sound'
      /\ SettledComplete'
      /\ ClosedIsSettled'
      /\ OrphansAreStale'
      /\ ClearInv'
  BY DEF Sound, Ledger!Sound, SettledComplete, Ledger!SettledComplete,
        ClosedIsSettled, Clearing, OrphansAreStale, ClearInv, ProcessMsgTx,
        Goto, Locked, db, checker, ghost
<1>2. TypeOK'
  BY TxAssumption DEF TypeOK, ProcessMsgTx, Goto, Locked, db, checker, ghost,
        BadgeVins
<1>3. LockInv'
  BY DEF TypeOK, LockInv, Clearing, Reading, ProcessMsgTx, Goto, Locked, db,
        checker, ghost
<1>4. ParseInv'
  BY DEF TypeOK, ParseInv, ProcessMsgTx, Goto, Locked, db, checker, ghost,
        VinPointsOf
<1>5. InsertInv'
  BY DEF TypeOK, InsertInv, ProcessMsgTx, Goto, Locked, db, checker, ghost
<1>6. RecheckInv'
  BY DEF TypeOK, RecheckInv, IsNextVin, ProcessMsgTx, Goto, Locked, db,
        checker, ghost
<1>7. NeedInv'
  BY DEF TypeOK, NeedInv, ProcessMsgTx, Goto, Locked, db, checker, ghost
<1> QED  BY <1>1, <1>2, <1>3, <1>4, <1>5, <1>6, <1>7

(* A badge was found: it is the one that the vin spends. *)
LEMMA StepTakeVin ==
    ASSUME IndInv, NEW w \in Worker, NEW k \in Nat,
           pc[w] \in {"vin", "recheck"}, IsNextVin(w, k),
           NEW p \in FindVout(txPoint, TxIn[cur[w]][k]), TakeVin(w, k, p),
           UNCHANGED <<db, job, cur, checker, ghost>>
    PROVE  IndInv'
<1> USE DEF IndInv
<1>a. cur[w] \in Tx /\ k \in left[w] /\ k \in BadgeVins(cur[w])
  BY DEF ParseInv, IsNextVin
<1>b. p \in txPoint /\ Spent(cur[w], k) = {p}
  BY <1>a, FoundVin
<1>c. VinPoint(cur[w], k, p) \in VinPoints[cur[w]]
  BY <1>a, <1>b DEF VinPoints, VinPointsOf
<1>1. /\ Sound'
      /\ SettledComplete'
      /\ ClosedIsSettled'
      /\ OrphansAreStale'
      /\ ClearInv'
  BY DEF Sound, Ledger!Sound, SettledComplete, Ledger!SettledComplete,
        ClosedIsSettled, Clearing, OrphansAreStale, ClearInv, TakeVin, Goto,
        Locked, db, job, checker, ghost
<1>2. TypeOK'
  BY <1>a, <1>c DEF TypeOK, TakeVin, Goto, Locked, db, job, checker, ghost,
        Rows
<1>3. LockInv'
  BY DEF TypeOK, LockInv, Clearing, Reading, TakeVin, Goto, Locked, db, job,
        checker, ghost
<1>4. ParseInv'
  <2> DEFINE done == BadgeVins(cur[w]) \ left[w]
  <2>1. /\ pc' = [pc EXCEPT ![w] = "vin"]
        /\ left' = [left EXCEPT ![w] = @ \ {k}]
        /\ inv' = [inv EXCEPT ![w] = @ \cup {VinPoint(cur[w], k, p)}]
        /\ cur' = cur /\ txPoint' = txPoint
    BY DEF TakeVin, Goto, db
  <2>2. BadgeVins(cur[w]) \ (left[w] \ {k}) = done \cup {k}
    BY <1>a
  <2>3. VinPointsOf(cur[w], done \cup {k}) = VinPointsOf(cur[w], done) \cup {VinPoint(cur[w], k, p)}
    BY <1>b DEF VinPointsOf
  <2>4. /\ inv[w] = VinPointsOf(cur[w], done)
        /\ \A j \in done : Spent(cur[w], j) # {} /\ Spent(cur[w], j) \subseteq txPoint
    BY DEF ParseInv
  <2>5. /\ inv'[w] = VinPointsOf(cur[w], BadgeVins(cur[w]) \ left'[w])
        /\ \A j \in BadgeVins(cur[w]) \ left'[w] :
               Spent(cur[w], j) # {} /\ Spent(cur[w], j) \subseteq txPoint
    BY <1>b, <2>1, <2>2, <2>3, <2>4 DEF TypeOK
  <2>6. ASSUME NEW v \in Worker, v # w
        PROVE  pc'[v] = pc[v] /\ left'[v] = left[v] /\ inv'[v] = inv[v]
    BY <2>1, <2>6 DEF TypeOK
  <2>7. left'[w] \subseteq BadgeVins(cur[w])
    BY <2>1 DEF ParseInv, TypeOK
  <2> QED  BY <1>a, <2>1, <2>5, <2>6, <2>7 DEF ParseInv
<1>5. InsertInv'
  BY DEF TypeOK, InsertInv, TakeVin, Goto, Locked, db, job, checker, ghost
<1>6. RecheckInv'
  BY DEF TypeOK, RecheckInv, IsNextVin, TakeVin, Goto, Locked, db, job,
        checker, ghost
<1>7. NeedInv'
  BY DEF TypeOK, NeedInv, TakeVin, Goto, Locked, db, job, checker, ghost
<1> QED  BY <1>1, <1>2, <1>3, <1>4, <1>5, <1>6, <1>7

(* The first read found nothing. *)
LEMMA StepReadMiss ==
    ASSUME IndInv, NEW w \in Worker, NEW k \in Nat, pc[w] = "vin", Goto(w, "brief"),
           UNCHANGED <<db, job, proc, checker, ghost>>
    PROVE  IndInv'
<1> USE DEF IndInv
<1>1. /\ Sound'
      /\ SettledComplete'
      /\ ClosedIsSettled'
      /\ OrphansAreStale'
      /\ ClearInv'
  BY DEF Sound, Ledger!Sound, SettledComplete, Ledger!SettledComplete,
        ClosedIsSettled, Clearing, OrphansAreStale, ClearInv, Goto, Locked,
        db, job, proc, checker, ghost
<1>2. TypeOK'
  BY DEF TypeOK, Goto, Locked, db, job, proc, checker, ghost
<1>3. LockInv'
  BY DEF TypeOK, LockInv, Clearing, Reading, Goto, Locked, db, job, proc,
        checker, ghost
<1>4. ParseInv'
  BY DEF TypeOK, ParseInv, Goto, Locked, db, job, proc, checker, ghost
<1>5. InsertInv'
  BY DEF TypeOK, InsertInv, Goto, Locked, db, job, proc, checker, ghost
<1>6. RecheckInv'
  BY DEF TypeOK, RecheckInv, IsNextVin, Goto, Locked, db, job, proc, checker,
        ghost
<1>7. NeedInv'
  BY DEF TypeOK, NeedInv, Goto, Locked, db, job, proc, checker, ghost
<1> QED  BY <1>1, <1>2, <1>3, <1>4, <1>5, <1>6, <1>7

(* Under the read lock a closed transaction is settled or torn. *)
LEMMA StepReadBrief ==
    ASSUME IndInv, NEW w \in Worker, NEW k \in Nat, ReadBrief(w, k)
    PROVE  IndInv'
<1> USE DEF IndInv
<1>a. /\ pc[w] = "brief"
      /\ pc' = [pc EXCEPT ![w] = "recheck"] \/ pc' = [pc EXCEPT ![w] = "open"]
  BY DEF ReadBrief, Goto
<1>1. /\ Sound'
      /\ SettledComplete'
      /\ ClosedIsSettled'
      /\ OrphansAreStale'
      /\ ClearInv'
  BY DEF Sound, Ledger!Sound, SettledComplete, Ledger!SettledComplete,
        ClosedIsSettled, Clearing, OrphansAreStale, ClearInv, ReadBrief, Goto,
        Locked, db, job, proc, checker, ghost
<1>2. TypeOK'
  BY DEF TypeOK, ReadBrief, Goto, Locked, db, job, proc, checker, ghost
<1>3. LockInv'
  BY DEF TypeOK, LockInv, Clearing, Reading, ReadBrief, Goto, Locked, db, job,
        proc, checker, ghost
<1>4. ParseInv'
  <2>1. UNCHANGED <<txPoint, cur, left, inv>>
    BY DEF ReadBrief, db, proc
  <2>2. \A v \in Worker : pc'[v] \in {"vin", "brief", "recheck"} =>
                              pc[v] \in {"vin", "brief", "recheck"}
    BY <1>a DEF TypeOK
  <2> QED  BY <2>1, <2>2 DEF ParseInv
<1>5. InsertInv'
  BY DEF TypeOK, InsertInv, ReadBrief, Goto, Locked, db, job, proc, checker,
        ghost
<1>6. RecheckInv'
  BY DEF TypeOK, RecheckInv, IsNextVin, ReadBrief, Goto, Locked, db, job,
        proc, checker, ghost, ClosedIsSettled, LockInv, Clearing, Reading
<1>7. NeedInv'
  BY DEF TypeOK, NeedInv, ReadBrief, Goto, Locked, db, job, proc, checker,
        ghost
<1> QED  BY <1>1, <1>2, <1>3, <1>4, <1>5, <1>6, <1>7

(* With all vins read, the inventory is what the protocol gives to cur. *)
LEMMA StepParseMsgTx ==
    ASSUME IndInv, NEW w \in Worker, ParseMsgTx(w)
    PROVE  IndInv'
<1> USE DEF IndInv
<1>a. cur[w] \in Tx /\ pc[w] = "vin" /\ left[w] = {}
  BY DEF ParseMsgTx, ParseInv
<1>b. inv[w] = VinPoints[cur[w]] /\ Settles(cur[w]) /\ SpentPoints[cur[w]] \subseteq txPoint
  BY <1>a DEF ParseInv, VinPoints, Settles, SpentPoints
<1>c. inv'[w] = Points[cur[w]] /\ inv'[w] = VinPoints[cur[w]] \cup Token[cur[w]]
  BY <1>a, <1>b, TokenAssumption DEF ParseMsgTx, Points, TypeOK
<1>1. /\ Sound'
      /\ SettledComplete'
      /\ ClosedIsSettled'
      /\ OrphansAreStale'
      /\ ClearInv'
  BY DEF Sound, Ledger!Sound, SettledComplete, Ledger!SettledComplete,
        ClosedIsSettled, Clearing, OrphansAreStale, ClearInv, ParseMsgTx,
        Goto, Locked, db, job, checker, ghost
<1>2. TypeOK'
  BY <1>a, <1>c DEF TypeOK, ParseMsgTx, Goto, Locked, db, job, checker, ghost,
        Rows
<1>3. LockInv'
  BY DEF TypeOK, LockInv, Clearing, Reading, ParseMsgTx, Goto, Locked, db,
        job, checker, ghost
<1>4. ParseInv'
  BY DEF TypeOK, ParseInv, ParseMsgTx, Goto, Locked, db, job, checker, ghost
<1>5. InsertInv'
  BY <1>a, <1>b, <1>c DEF TypeOK, InsertInv, ParseMsgTx, Goto, Locked, db,
        job, checker, ghost, Legal
<1>6. RecheckInv'
  BY DEF TypeOK, RecheckInv, IsNextVin, ParseMsgTx, Goto, Locked, db, job,
        checker, ghost
<1>7. NeedInv'
  BY DEF TypeOK, NeedInv, ParseMsgTx, Goto, Locked, db, job, checker, ghost
<1> QED  BY <1>1, <1>2, <1>3, <1>4, <1>5, <1>6, <1>7

(* A point of cur is inserted: a row with its key is the same row. *)
LEMMA StepAddTxPoint ==
    ASSUME IndInv, NEW w \in Worker, NEW p \in inv[w], AddTxPoint(w, p)
    PROVE  IndInv'
<1> USE DEF IndInv
<1>a. cur[w] \in Tx /\ p \in Points[cur[w]] /\ p.txid = cur[w] /\ p \in AllPoints
  BY PointFields DEF AddTxPoint, InsertInv, Legal, AllPoints
<1>b. txPoint \subseteq AllPoints
  BY DEF Sound, Ledger!Sound, AllPoints
<1>c. txPoint' = txPoint \cup {p}
  BY <1>a, <1>b, KeyUnique DEF AddTxPoint
<1>1. /\ ClosedIsSettled'
      /\ LockInv'
      /\ RecheckInv'
      /\ NeedInv'
  BY DEF ClosedIsSettled, Clearing, LockInv, Reading, RecheckInv, IsNextVin,
        NeedInv, AddTxPoint, Locked, job, checker, ghost
<1>2. TypeOK'
  BY DEF TypeOK, AddTxPoint, Locked, job, checker, ghost
<1>3. Sound'
  BY <1>a, <1>c DEF TypeOK, Sound, Ledger!Sound, AddTxPoint, Locked, job,
        checker, ghost, AllPoints
<1>4. SettledComplete'
  BY <1>c DEF TypeOK, SettledComplete, Ledger!SettledComplete, AddTxPoint,
        Locked, job, checker, ghost
<1>5. OrphansAreStale'
  BY <1>a, <1>c DEF TypeOK, OrphansAreStale, AddTxPoint, Locked, job, checker,
        ghost, NeedInv
<1>6. ParseInv'
  BY <1>c DEF TypeOK, ParseInv, AddTxPoint, Locked, job, checker, ghost
<1>7. InsertInv'
  BY <1>c DEF TypeOK, InsertInv, AddTxPoint, Locked, job, checker, ghost
<1>8. ClearInv'
  BY <1>c DEF TypeOK, ClearInv, Clearing, AddTxPoint, Locked, job, checker,
        ghost, LockInv, Reading
<1> QED  BY <1>1, <1>2, <1>3, <1>4, <1>5, <1>6, <1>7, <1>8

(* A worker that goes on with its batch parses nothing. *)
LEMMA ProcessNextParses ==
    ASSUME TypeOK, ParseInv, NEW w \in Worker, ProcessNext(w), txPoint' = txPoint
    PROVE  ParseInv'
<1> SUFFICES ASSUME NEW v \in Worker, pc'[v] \in {"vin", "brief", "recheck"}
             PROVE  /\ cur'[v] \in Tx
                    /\ left'[v] \subseteq BadgeVins(cur'[v])
                    /\ inv'[v] = VinPointsOf(cur'[v], BadgeVins(cur'[v]) \ left'[v])
                    /\ \A k \in BadgeVins(cur'[v]) \ left'[v] :
                           Spent(cur'[v], k) # {} /\ Spent(cur'[v], k) \subseteq txPoint'
  BY Zenon DEF ParseInv
<1>1. pc'[w] = "batch"
  BY DEF TypeOK, ProcessNext, Goto
<1>2. v # w
  BY <1>1
<1>3. pc'[v] = pc[v] /\ cur'[v] = cur[v] /\ left'[v] = left[v] /\ inv'[v] = inv[v]
  BY <1>2 DEF TypeOK, ProcessNext, Goto
<1>4. QED
  BY <1>3, Zenon DEF ParseInv

(* cur is closed: all its points are there. *)
LEMMA StepSetClosed ==
    ASSUME IndInv, NEW w \in Worker, SetClosed(w)
    PROVE  IndInv'
<1> USE DEF IndInv
<1>a. cur[w] \in Legal /\ cur[w] \in Tx /\ Points[cur[w]] \subseteq txPoint /\ ~Clearing
  BY DEF SetClosed, InsertInv, Legal, LockInv, Reading, Locked
<1>1. /\ Sound'
  BY DEF Sound, Ledger!Sound, SetClosed, SetMsgTxState, ProcessNext, Goto,
        Locked, job, checker
<1>2. TypeOK'
  BY <1>a DEF TypeOK, SetClosed, SetMsgTxState, ProcessNext, Goto, Locked,
        job, checker, TxState
<1>3. SettledComplete'
  BY <1>a DEF TypeOK, SettledComplete, Ledger!SettledComplete, SetClosed,
        SetMsgTxState, ProcessNext, Goto, Locked, job, checker
<1>4. ClosedIsSettled'
  BY DEF TypeOK, ClosedIsSettled, Clearing, SetClosed, SetMsgTxState,
        ProcessNext, Goto, Locked, job, checker
<1>5. OrphansAreStale'
  BY DEF TypeOK, OrphansAreStale, SetClosed, SetMsgTxState, ProcessNext, Goto,
        Locked, job, checker
<1>6. LockInv'
  BY DEF TypeOK, LockInv, Clearing, Reading, SetClosed, SetMsgTxState,
        ProcessNext, Goto, Locked, job, checker
<1>7. ParseInv'
  BY ProcessNextParses DEF SetClosed
<1>8. InsertInv'
  BY DEF TypeOK, InsertInv, SetClosed, SetMsgTxState, ProcessNext, Goto,
        Locked, job, checker
<1>9. RecheckInv'
  BY DEF TypeOK, RecheckInv, IsNextVin, SetClosed, SetMsgTxState, ProcessNext,
        Goto, Locked, job, checker
<1>10. NeedInv'
  BY DEF TypeOK, NeedInv, SetClosed, SetMsgTxState, ProcessNext, Goto, Locked,
        job, checker
<1>11. ClearInv'
  BY <1>a DEF TypeOK, ClearInv, Clearing, SetClosed, SetMsgTxState,
        ProcessNext, Goto, Locked, job, checker
<1> QED  BY <1>1, <1>2, <1>3, <1>4, <1>5, <1>6, <1>7, <1>8, <1>9, <1>10, <1>11

(* cur waits for a parent. *)
LEMMA StepSetOpen ==
    ASSUME IndInv, NEW w \in Worker, SetOpen(w)
    PROVE  IndInv'
<1> USE DEF IndInv
<1>1. /\ Sound'
      /\ SettledComplete'
      /\ ClearInv'
  BY DEF Sound, Ledger!Sound, SettledComplete, Ledger!SettledComplete,
        ClearInv, Clearing, SetOpen, SetMsgTxState, ProcessNext, Goto, Locked,
        job, checker, ghost
<1>2. TypeOK'
  BY DEF TypeOK, SetOpen, SetMsgTxState, ProcessNext, Goto, Locked, job,
        checker, ghost, NeedInv, TxState
<1>3. ClosedIsSettled'
  BY DEF TypeOK, ClosedIsSettled, Clearing, SetOpen, SetMsgTxState,
        ProcessNext, Goto, Locked, job, checker, ghost
<1>4. OrphansAreStale'
  BY DEF TypeOK, OrphansAreStale, SetOpen, SetMsgTxState, ProcessNext, Goto,
        Locked, job, checker, ghost
<1>5. LockInv'
  BY DEF TypeOK, LockInv, Clearing, Reading, SetOpen, SetMsgTxState,
        ProcessNext, Goto, Locked, job, checker, ghost
<1>6. ParseInv'
  BY ProcessNextParses DEF SetOpen
<1>7. InsertInv'
  BY DEF TypeOK, InsertInv, SetOpen, SetMsgTxState, ProcessNext, Goto, Locked,
        job, checker, ghost
<1>8. RecheckInv'
  BY DEF TypeOK, RecheckInv, IsNextVin, SetOpen, SetMsgTxState, ProcessNext,
        Goto, Locked, job, checker, ghost
<1>9. NeedInv'
  BY DEF TypeOK, NeedInv, SetOpen, SetMsgTxState, ProcessNext, Goto, Locked,
        job, checker, ghost
<1> QED  BY <1>1, <1>2, <1>3, <1>4, <1>5, <1>6, <1>7, <1>8, <1>9

(* A database error ends the work on cur. *)
LEMMA StepProcessFail ==
    ASSUME IndInv, NEW w \in Worker, ProcessFail(w)
    PROVE  IndInv'
<1> USE DEF IndInv
<1>1. /\ Sound'
      /\ SettledComplete'
      /\ ClosedIsSettled'
      /\ OrphansAreStale'
      /\ ClearInv'
  BY DEF Sound, Ledger!Sound, SettledComplete, Ledger!SettledComplete,
        ClosedIsSettled, Clearing, OrphansAreStale, ClearInv, ProcessFail,
        ProcessNext, Goto, Locked, db, job, checker, ghost
<1>2. TypeOK'
  BY DEF TypeOK, ProcessFail, ProcessNext, Goto, Locked, db, job, checker,
        ghost
<1>3. LockInv'
  BY DEF TypeOK, LockInv, Clearing, Reading, ProcessFail, ProcessNext, Goto,
        Locked, db, job, checker, ghost
<1>4. ParseInv'
  BY ProcessNextParses DEF ProcessFail, db
<1>5. InsertInv'
  BY DEF TypeOK, InsertInv, ProcessFail, ProcessNext, Goto, Locked, db, job,
        checker, ghost
<1>6. RecheckInv'
  BY DEF TypeOK, RecheckInv, IsNextVin, ProcessFail, ProcessNext, Goto,
        Locked, db, job, checker, ghost
<1>7. NeedInv'
  BY DEF TypeOK, NeedInv, ProcessFail, ProcessNext, Goto, Locked, db, job,
        checker, ghost
<1> QED  BY <1>1, <1>2, <1>3, <1>4, <1>5, <1>6, <1>7

(* CheckTxState finds a transaction that the chain does not know. *)
LEMMA StepCheckTxState ==
    ASSUME IndInv, NEW t \in Tx, CheckTxState(t)
    PROVE  IndInv'
<1> USE DEF IndInv
<1>1. /\ Sound'
      /\ SettledComplete'
      /\ OrphansAreStale'
      /\ ParseInv'
      /\ InsertInv'
      /\ RecheckInv'
      /\ NeedInv'
  BY DEF Sound, Ledger!Sound, SettledComplete, Ledger!SettledComplete,
        OrphansAreStale, ParseInv, InsertInv, RecheckInv, IsNextVin, NeedInv,
        CheckTxState, db, job, proc, ghost
<1>2. TypeOK'
  BY DEF TypeOK, CheckTxState, db, job, proc, ghost
<1>3. ClosedIsSettled'
  BY DEF TypeOK, ClosedIsSettled, Clearing, CheckTxState, db, job, proc, ghost
<1>4. LockInv'
  BY DEF TypeOK, LockInv, Clearing, Reading, CheckTxState, db, job, proc,
        ghost
<1>5. ClearInv'
  BY DEF TypeOK, ClearInv, Clearing, CheckTxState, db, job, proc, ghost
<1> QED  BY <1>1, <1>2, <1>3, <1>4, <1>5

(* The write lock is only granted while nobody reads. *)
LEMMA StepLock ==
    ASSUME IndInv, Lock
    PROVE  IndInv'
<1> USE DEF IndInv
<1>1. /\ Sound'
      /\ OrphansAreStale'
      /\ ParseInv'
      /\ InsertInv'
      /\ NeedInv'
  BY DEF Sound, Ledger!Sound, OrphansAreStale, ParseInv, InsertInv, NeedInv,
        Lock, Locked, db, job, proc
<1>2. TypeOK'
  BY DEF TypeOK, Lock, Locked, db, job, proc
<1>3. SettledComplete'
  BY DEF TypeOK, SettledComplete, Ledger!SettledComplete, Lock, Locked, db,
        job, proc
<1>4. ClosedIsSettled'
  BY DEF TypeOK, ClosedIsSettled, Clearing, Lock, Locked, db, job, proc
<1>5. LockInv'
  BY DEF TypeOK, LockInv, Clearing, Reading, Lock, Locked, db, job, proc
<1>6. RecheckInv'
  BY DEF TypeOK, RecheckInv, IsNextVin, Lock, Locked, db, job, proc, Reading
<1>7. ClearInv'
  BY DEF TypeOK, ClearInv, Clearing, Lock, Locked, db, job, proc
<1> QED  BY <1>1, <1>2, <1>3, <1>4, <1>5, <1>6, <1>7

(* Only points of a transaction that is not settled are deleted. *)
LEMMA StepDeleteTxPoints ==
    ASSUME IndInv, NEW p \in txPoint, DeleteTxPoints(p)
    PROVE  IndInv'
<1> USE DEF IndInv
<1>a. /\ txPoint' = txPoint \ {p} /\ Clearing /\ p.txid = victim /\ victim \notin settled
      /\ \A w \in Worker : pc[w] \notin Locked
  BY DEF DeleteTxPoints, ClearInv, LockInv, Reading, Clearing
<1>1. /\ ClosedIsSettled'
      /\ LockInv'
      /\ RecheckInv'
      /\ NeedInv'
  BY DEF ClosedIsSettled, Clearing, LockInv, Reading, RecheckInv, IsNextVin,
        NeedInv, DeleteTxPoints, Locked, job, proc, checker, ghost
<1>2. TypeOK'
  BY DEF TypeOK, DeleteTxPoints, Locked, job, proc, checker, ghost
<1>3. Sound'
  BY DEF TypeOK, Sound, Ledger!Sound, DeleteTxPoints, Locked, job, proc,
        checker, ghost
<1>4. SettledComplete'
  <2>1. ASSUME NEW t \in settled, NEW q \in Points[t]
        PROVE  q # p
    BY <1>a, PointFields DEF TypeOK
  <2> QED  BY <1>a, <2>1 DEF SettledComplete, Ledger!SettledComplete, DeleteTxPoints, ghost
<1>5. OrphansAreStale'
  BY DEF TypeOK, OrphansAreStale, DeleteTxPoints, Locked, job, proc, checker,
        ghost
<1>6. ParseInv'
  BY <1>a DEF TypeOK, ParseInv, DeleteTxPoints, Locked, job, proc, checker,
        ghost
<1>7. InsertInv'
  BY <1>a DEF TypeOK, InsertInv, DeleteTxPoints, Locked, job, proc, checker,
        ghost
<1>8. ClearInv'
  BY DEF TypeOK, ClearInv, Clearing, DeleteTxPoints, Locked, job, proc,
        checker, ghost
<1> QED  BY <1>1, <1>2, <1>3, <1>4, <1>5, <1>6, <1>7, <1>8

(* No point of the transaction is left. *)
LEMMA StepTxPointsDeleted ==
    ASSUME IndInv, TxPointsDeleted
    PROVE  IndInv'
<1> USE DEF IndInv
<1>1. /\ Sound'
      /\ SettledComplete'
      /\ OrphansAreStale'
      /\ ParseInv'
      /\ InsertInv'
      /\ RecheckInv'
      /\ NeedInv'
  BY DEF Sound, Ledger!Sound, SettledComplete, Ledger!SettledComplete,
        OrphansAreStale, ParseInv, InsertInv, RecheckInv, IsNextVin, NeedInv,
        TxPointsDeleted, db, job, proc, ghost
<1>2. TypeOK'
  BY DEF TypeOK, TxPointsDeleted, db, job, proc, ghost
<1>3. ClosedIsSettled'
  BY DEF TypeOK, ClosedIsSettled, Clearing, TxPointsDeleted, db, job, proc,
        ghost
<1>4. LockInv'
  BY DEF TypeOK, LockInv, Clearing, Reading, TxPointsDeleted, db, job, proc,
        ghost
<1>5. ClearInv'
  BY DEF TypeOK, ClearInv, Clearing, TxPointsDeleted, db, job, proc, ghost
<1> QED  BY <1>1, <1>2, <1>3, <1>4, <1>5

(* The row goes last, and nobody behind the lock works on it. *)
LEMMA StepDeleteMsgTx ==
    ASSUME IndInv, DeleteMsgTx
    PROVE  IndInv'
<1> USE DEF IndInv
<1>a. /\ victim \in Tx /\ Clearing /\ \A w \in Worker : pc[w] \notin Locked
      /\ \A q \in txPoint : q.txid # victim
  BY DEF DeleteMsgTx, ClearInv, LockInv, Reading, Clearing
<1>1. /\ Sound'
      /\ SettledComplete'
      /\ ParseInv'
      /\ InsertInv'
  BY DEF Sound, Ledger!Sound, SettledComplete, Ledger!SettledComplete,
        ParseInv, InsertInv, DeleteMsgTx, Locked, job, proc
<1>2. TypeOK'
  BY <1>a DEF TypeOK, DeleteMsgTx, Locked, job, proc, TxState
<1>3. ClosedIsSettled'
  BY DEF TypeOK, ClosedIsSettled, Clearing, DeleteMsgTx, Locked, job, proc
<1>4. OrphansAreStale'
  BY <1>a DEF TypeOK, OrphansAreStale, DeleteMsgTx, Locked, job, proc
<1>5. LockInv'
  BY DEF TypeOK, LockInv, Clearing, Reading, DeleteMsgTx, Locked, job, proc
<1>6. RecheckInv'
  BY <1>a DEF TypeOK, RecheckInv, IsNextVin, DeleteMsgTx, Locked, job, proc
<1>7. NeedInv'
  BY <1>a DEF TypeOK, NeedInv, DeleteMsgTx, Locked, job, proc, LookedUp
<1>8. ClearInv'
  BY DEF TypeOK, ClearInv, Clearing, DeleteMsgTx, Locked, job, proc
<1> QED  BY <1>1, <1>2, <1>3, <1>4, <1>5, <1>6, <1>7, <1>8

(* ClearMsgTx fails half way. *)
LEMMA StepClearFail ==
    ASSUME IndInv, ClearFail
    PROVE  IndInv'
<1> USE DEF IndInv
<1>1. /\ Sound'
      /\ SettledComplete'
      /\ OrphansAreStale'
      /\ ParseInv'
      /\ InsertInv'
      /\ NeedInv'
  BY DEF Sound, Ledger!Sound, SettledComplete, Ledger!SettledComplete,
        OrphansAreStale, ParseInv, InsertInv, NeedInv, ClearFail, db, job,
        proc
<1>2. TypeOK'
  BY DEF TypeOK, ClearFail, db, job, proc, ClearInv, Clearing
<1>3. ClosedIsSettled'
  BY DEF TypeOK, ClosedIsSettled, Clearing, ClearFail, db, job, proc
<1>4. LockInv'
  BY DEF TypeOK, LockInv, Clearing, Reading, ClearFail, db, job, proc
<1>5. RecheckInv'
  BY DEF TypeOK, RecheckInv, IsNextVin, ClearFail, db, job, proc
<1>6. ClearInv'
  BY DEF TypeOK, ClearInv, Clearing, ClearFail, db, job, proc
<1> QED  BY <1>1, <1>2, <1>3, <1>4, <1>5, <1>6

(* The process dies. *)
LEMMA StepCrash ==
    ASSUME IndInv, Crash
    PROVE  IndInv'
<1> USE DEF IndInv
<1>1. /\ Sound'
      /\ SettledComplete'
      /\ OrphansAreStale'
  BY DEF Sound, Ledger!Sound, SettledComplete, Ledger!SettledComplete,
        OrphansAreStale, Crash, Locked, db
<1>2. TypeOK'
  BY DEF TypeOK, Crash, Locked, db, ClearInv, Clearing
<1>3. ClosedIsSettled'
  BY DEF TypeOK, ClosedIsSettled, Clearing, Crash, Locked, db
<1>4. LockInv'
  BY DEF TypeOK, LockInv, Clearing, Reading, Crash, Locked, db
<1>5. ParseInv'
  BY DEF TypeOK, ParseInv, Crash, Locked, db
<1>6. InsertInv'
  BY DEF TypeOK, InsertInv, Crash, Locked, db
<1>7. RecheckInv'
  BY DEF TypeOK, RecheckInv, IsNextVin, Crash, Locked, db
<1>8. NeedInv'
  BY DEF TypeOK, NeedInv, Crash, Locked, db
<1>9. ClearInv'
  BY DEF TypeOK, ClearInv, Clearing, Crash, Locked, db
<1> QED  BY <1>1, <1>2, <1>3, <1>4, <1>5, <1>6, <1>7, <1>8, <1>9

-----------------------------------------------------------------------------
(* The invariant *)

(* The first state. *)
LEMMA InitInv == Init => IndInv
BY DEF Init, IndInv, TypeOK, TxState, Locked, Sound, Ledger!Sound, SettledComplete,
       Ledger!SettledComplete, ClosedIsSettled, OrphansAreStale, LockInv, Clearing, Reading,
       ParseInv, InsertInv, RecheckInv, NeedInv, ClearInv

(* Each way a worker can go on. *)
LEMMA StepWorker ==
    ASSUME IndInv, NEW w \in Worker, WorkerNext(w)
    PROVE  IndInv'
<1>1. ASSUME NEW r \in Requests, StartSync(w, r) PROVE IndInv'
  BY <1>1, StepStartSync
<1>2. ASSUME NEW t \in Tx, LookupTx(w, t) \/ AddMsgTxInfo(w, t) \/ ProcessMsgTx(w, t)
      PROVE  IndInv'
  BY <1>2, StepLookupTx, StepAddMsgTxInfo, StepProcessMsgTx
<1>3. ASSUME NEW got, GetTxBytes(w, got) PROVE IndInv'
  BY <1>3, StepGetTxBytes
<1>4. ASSUME NEW k \in left[w],
             ReadPoint(w, k) \/ ReadBrief(w, k) \/ Recheck(w, k) \/ IllegalVin(w, k)
      PROVE  IndInv'
  <2>0. k \in Nat
    BY DEF IndInv, TypeOK
  <2>1. CASE ReadPoint(w, k)
    <3>1. \/ \E p \in FindVout(txPoint, TxIn[cur[w]][k]) : TakeVin(w, k, p)
          \/ Goto(w, "brief") /\ UNCHANGED <<left, inv>>
      BY <2>1 DEF ReadPoint
    <3>2. /\ pc[w] = "vin" /\ IsNextVin(w, k)
          /\ UNCHANGED <<db, job, cur, checker, ghost>>
      BY <2>1 DEF ReadPoint
    <3>3. CASE \E p \in FindVout(txPoint, TxIn[cur[w]][k]) : TakeVin(w, k, p)
      BY <2>0, <3>2, <3>3, StepTakeVin
    <3>4. CASE Goto(w, "brief") /\ UNCHANGED <<left, inv>>
      <4>1. UNCHANGED <<db, job, proc, checker, ghost>>
        BY <3>2, <3>4 DEF proc
      <4> QED  BY <2>0, <3>2, <3>4, <4>1, StepReadMiss
    <3> QED  BY <3>1, <3>3, <3>4
  <2>2. CASE ReadBrief(w, k)
    BY <2>0, <2>2, StepReadBrief
  <2>3. CASE Recheck(w, k)
    <3>1. PICK p \in FindVout(txPoint, TxIn[cur[w]][k]) : TakeVin(w, k, p)
      BY <2>3 DEF Recheck
    <3>2. /\ pc[w] = "recheck" /\ IsNextVin(w, k)
          /\ UNCHANGED <<db, job, cur, checker, ghost>>
      BY <2>3 DEF Recheck
    <3> QED  BY <2>0, <3>1, <3>2, StepTakeVin
  <2>4. CASE IllegalVin(w, k)
    BY <2>4, StepReturn, StepCrash DEF IllegalVin
  <2> QED  BY <1>4, <2>1, <2>2, <2>3, <2>4
<1>5. ASSUME NEW p \in inv[w], AddTxPoint(w, p) PROVE IndInv'
  BY <1>5, StepAddTxPoint
<1>6. CASE SyncFail(w) \/ SyncDone(w)
  BY <1>6, StepReturn DEF SyncFail, SyncDone
<1>7. CASE RLock(w) \/ ParseMsgTx(w) \/ SetClosed(w) \/ SetOpen(w) \/ ProcessFail(w)
  BY <1>7, StepRLock, StepParseMsgTx, StepSetClosed, StepSetOpen, StepProcessFail
<1> QED  BY <1>1, <1>2, <1>3, <1>4, <1>5, <1>6, <1>7 DEF WorkerNext, Progress

(* No step leaves the invariant. *)
LEMMA StepInv == IndInv /\ [Next]_vars => IndInv'
<1> SUFFICES ASSUME IndInv, [Next]_vars PROVE IndInv'
  OBVIOUS
<1>1. ASSUME NEW w \in Worker, WorkerNext(w) PROVE IndInv'
  BY <1>1, StepWorker
<1>2. CASE CheckerNext
  BY <1>2, StepCheckTxState, StepLock, StepDeleteTxPoints, StepTxPointsDeleted,
     StepDeleteMsgTx, StepClearFail DEF CheckerNext, ClearProgress
<1>3. CASE Crash
  BY <1>3, StepCrash
<1>4. CASE UNCHANGED vars
  BY <1>4 DEF vars, db, job, proc, checker, ghost, IndInv, TypeOK, Sound, Ledger!Sound,
     SettledComplete, Ledger!SettledComplete, ClosedIsSettled, OrphansAreStale, LockInv,
     Clearing, Reading, ParseInv, InsertInv, RecheckInv, IsNextVin, NeedInv, ClearInv
<1> QED  BY <1>1, <1>2, <1>3, <1>4 DEF Next

(* IndInv holds in every reachable state of a node. *)
THEOREM Invariance == Spec => []IndInv
<1> QED  BY InitInv, StepInv, PTL DEF Spec

(* The variables of a node keep their types. *)
THEOREM TypeCorrect == Spec => []TypeOK
<1>1. IndInv => TypeOK
  BY DEF IndInv
<1> QED  BY <1>1, Invariance, PTL

(* Whatever the interleaving of requests, CheckTxState, errors and crashes, *)
(* tx_point holds only what the badge protocol gives.                      *)
THEOREM SoundAlways == Spec => []Sound
<1>1. IndInv => Sound
  BY DEF IndInv
<1> QED  BY <1>1, Invariance, PTL

(* A transaction that SetMsgTxState closed keeps all its points until      *)
(* ClearMsgTx begins on it.                                                *)
THEOREM SettledCompleteAlways == Spec => []SettledComplete
<1>1. IndInv => SettledComplete
  BY DEF IndInv
<1> QED  BY <1>1, Invariance, PTL

(* A closed row tells the truth, but for an interrupted ClearMsgTx. *)
THEOREM ClosedIsSettledAlways == Spec => []ClosedIsSettled
<1>1. IndInv => ClosedIsSettled
  BY DEF IndInv
<1> QED  BY <1>1, Invariance, PTL

(* Points without a row come only from a lookup that ClearMsgTx overtook. *)
THEOREM OrphansAreStaleAlways == Spec => []OrphansAreStale
<1>1. IndInv => OrphansAreStale
  BY DEF IndInv
<1> QED  BY <1>1, Invariance, PTL

(* The verdict "illegal vin" of GetTxPoint is right, but for a transaction *)
(* whose clearing was interrupted.                                         *)
THEOREM IllegalVinIsFinalAlways == Spec => []IllegalVinIsFinal
<1>1. IndInv => IllegalVinIsFinal
  <2> SUFFICES ASSUME IndInv, NEW w \in Worker, NEW k \in left[w],
                      pc[w] = "recheck", IsNextVin(w, k),
                      FindVout(txPoint, TxIn[cur[w]][k]) = {},
                      TxIn[cur[w]][k].pre \notin torn
               PROVE  Spent(cur[w], k) = {}
    BY DEF IllegalVinIsFinal
  <2>1. TxIn[cur[w]][k].pre \in settled
    BY DEF IndInv, RecheckInv
  <2>2. /\ TxIn[cur[w]][k].pre \in Legal
        /\ Points[TxIn[cur[w]][k].pre] \subseteq txPoint
    BY <2>1 DEF IndInv, SettledComplete, Ledger!SettledComplete
  <2>3. Token[TxIn[cur[w]][k].pre] \subseteq txPoint
    BY <2>2 DEF Points, Legal
  <2> QED  BY <2>3 DEF Spent, FindVout
<1> QED  BY <1>1, Invariance, PTL

-----------------------------------------------------------------------------
(* The refinement *)

(* A step of the node that writes to tx_point, or that ends or revokes the *)
(* settlement of a transaction, is a step of BadgeLedger; all others       *)
(* stutter.                                                                *)
LEMMA StepRefines == IndInv /\ [Next]_vars => [Ledger!Next]_(Ledger!vars)
<1> SUFFICES ASSUME IndInv, [Next]_vars PROVE Ledger!Next \/ UNCHANGED <<txPoint, settled>>
  BY DEF Ledger!vars
<1>1. ASSUME NEW w \in Worker, NEW p \in inv[w], AddTxPoint(w, p)
      PROVE  Ledger!Next
  <2>1. /\ cur[w] \in Tx /\ p \in Points[cur[w]] /\ SpentPoints[cur[w]] \subseteq txPoint
        /\ Points[cur[w]] \subseteq txPoint \cup inv[w]
        /\ \A q \in inv[w] : ~InsertedBefore(q, p)
    BY <1>1 DEF AddTxPoint, IndInv, InsertInv, Legal
  <2>2. txPoint' = txPoint \cup {p} /\ UNCHANGED settled
    <3>1. p \in AllPoints /\ txPoint \subseteq AllPoints
      BY <2>1 DEF AllPoints, IndInv, Sound, Ledger!Sound
    <3> QED  BY <1>1, <3>1, KeyUnique DEF AddTxPoint, ghost
  <2>3. p.type = "vout" => {q \in Points[cur[w]] : q.type = "vin"} \subseteq txPoint
    BY <2>1 DEF InsertedBefore
  <2>4. Ledger!Record(cur[w], p)
    BY <2>1, <2>2, <2>3 DEF Ledger!Record
  <2> QED  BY <2>1, <2>4 DEF Ledger!Next
<1>2. ASSUME NEW w \in Worker, SetClosed(w)
      PROVE  Ledger!Next \/ UNCHANGED <<txPoint, settled>>
  <2>1. cur[w] \in Tx /\ cur[w] \in Legal /\ Points[cur[w]] \subseteq txPoint
    BY <1>2 DEF SetClosed, IndInv, InsertInv, Legal
  <2>2. /\ UNCHANGED txPoint
        /\ settled' = settled \cup {cur[w]} \/ UNCHANGED settled
    BY <1>2 DEF SetClosed
  <2> QED  BY <2>1, <2>2 DEF Ledger!Next, Ledger!Settle
<1>3. CASE Lock
  <2>1. victim \in Tx /\ UNCHANGED txPoint /\ settled' = settled \ {victim}
    BY <1>3 DEF Lock, IndInv, ClearInv, db
  <2> QED  BY <2>1 DEF Ledger!Next, Ledger!Void
<1>4. ASSUME NEW p \in txPoint, DeleteTxPoints(p) PROVE Ledger!Next
  <2>1. p.txid \notin settled /\ txPoint' = txPoint \ {p} /\ UNCHANGED settled
    BY <1>4 DEF DeleteTxPoints, IndInv, ClearInv, Clearing, ghost
  <2> QED  BY <2>1 DEF Ledger!Next, Ledger!Erase
<1>5. ASSUME NEW w \in Worker, WorkerNext(w), ~SetClosed(w),
             \A p \in inv[w] : ~AddTxPoint(w, p)
      PROVE  UNCHANGED <<txPoint, settled>>
  BY <1>5 DEF WorkerNext, Progress, StartSync, LookupTx, GetTxBytes, RLock, AddMsgTxInfo,
     SyncFail, SyncDone, ProcessMsgTx, ReadPoint, ReadBrief, Recheck, IllegalVin, Crash,
     ParseMsgTx, SetOpen, ProcessFail, db, ghost
<1>6. CASE Crash \/ ClearFail \/ TxPointsDeleted \/ DeleteMsgTx \/ \E t \in Tx : CheckTxState(t)
  BY <1>6 DEF Crash, ClearFail, TxPointsDeleted, DeleteMsgTx, CheckTxState, db, ghost
<1>7. CASE UNCHANGED vars
  BY <1>7 DEF vars, db, ghost
<1> QED  BY <1>1, <1>2, <1>3, <1>4, <1>5, <1>6, <1>7 DEF Next, CheckerNext, ClearProgress

(* The node implements BadgeLedger: its readers may rely on the promise    *)
(* without knowing of workers, locks and crashes.                          *)
THEOREM RefinementHolds == Spec => Refinement
<1>1. Init => Ledger!Init
  BY DEF Init, Ledger!Init
<1>2. Refinement <=> Ledger!Spec
  BY DEF Refinement
<1> QED  BY <1>1, <1>2, Invariance, StepRefines, PTL DEF Spec, Ledger!Spec
-----------------------------------------------------------------------------
(* The order of a batch: SortMsgTx sorts every batch, of any length, over  *)
(* any transactions.                                                       *)

(* A set of txids that is not empty has a smallest one. *)
LEMMA Smallest ==
    ASSUME NEW S \in SUBSET Nat, S # {}
    PROVE  \E x \in S : \A y \in S : x <= y
<1>1. PICK x \in S : \A y \in S : ~ (<<y, x>> \in OpToRel(<, Nat))
  BY NatLessThanWellFounded, WFMin, Zenon
<1>2. \A y \in S : ~ (y < x)
  BY <1>1 DEF OpToRel
<1> QED  BY <1>2

(* What a swap does to the positions of a slice. *)
LEMMA SwapFacts ==
    ASSUME NEW s \in Seq(Txid), NEW a \in 1 .. Len(s), NEW b \in 1 .. Len(s)
    PROVE  /\ Swap(s, a, b) \in Seq(Txid)
           /\ Len(Swap(s, a, b)) = Len(s)
           /\ Swap(s, a, b)[a] = s[b] /\ Swap(s, a, b)[b] = s[a]
           /\ \A k \in 1 .. Len(s) : k # a /\ k # b => Swap(s, a, b)[k] = s[k]
BY DEF Swap

(* The smallest transaction that is not placed spends none of the others, *)
(* so a round always has something to place.                              *)
LEMMA Placeable == SortInv => AlwaysPlaces
<1> SUFFICES ASSUME SortInv, i <= Len(msgTxs)
             PROVE  \E j \in i .. Len(msgTxs) : ~HasPre(msgTxs[j])
  BY DEF AlwaysPlaces
<1> DEFINE rest == {msgTxs[k] : k \in i .. Len(msgTxs)}
<1>1. i \in Nat /\ i >= 1 /\ Len(msgTxs) \in Nat /\ msgTxs \in Seq(Txid)
  BY DEF SortInv, SortTypeOK
<1>2. rest \in SUBSET Nat /\ rest # {} /\ rest \subseteq Txid
  <2>1. \A k \in i .. Len(msgTxs) : msgTxs[k] \in Txid
    BY <1>1
  <2>2. i \in i .. Len(msgTxs)
    BY <1>1
  <2> QED  BY <2>1, <2>2, TxidAssumption
<1>3. PICK x \in rest : \A y \in rest : x <= y
  BY <1>2, Smallest
<1>4. PICK j \in i .. Len(msgTxs) : x = msgTxs[j]
  BY <1>3
<1>5. ASSUME NEW u \in Pre[x], u \in Keys, u \notin inResult
      PROVE  FALSE
  <2>1. PICK k \in 1 .. Len(msgTxs) : u = msgTxs[k]
    BY <1>5 DEF SortInv
  <2>2. ~ (k \in 1 .. i - 1)
    BY <1>5, <2>1 DEF SortInv
  <2>3. u \in rest
    BY <1>1, <2>1, <2>2
  <2>4. u \in Txid /\ x \in Txid /\ u \in Nat /\ x \in Nat
    BY <1>2, <1>3, <2>3
  <2>5. u < x
    BY <1>5, <2>4, PreAssumption
  <2>6. x <= u
    BY <1>3, <2>3
  <2> QED  BY <2>4, <2>5, <2>6
<1>6. ~HasPre(x)
  BY <1>5 DEF HasPre
<1> QED  BY <1>4, <1>6

(* The batch before the first round. *)
LEMMA InitSort == SortInit => SortInv
<1> SUFFICES ASSUME SortInit PROVE SortInv
  OBVIOUS
<1>1. input \in Seq(Txid) /\ msgTxs = input /\ i = 1 /\ inResult = {} /\ input \in Batches
  BY BatchesAssumption DEF SortInit
<1>2. DOMAIN input = 1 .. Len(input) /\ Len(input) \in Nat
  BY <1>1
<1> QED  BY <1>1, <1>2 DEF SortInv, SortTypeOK, Keys, Sorted

(* A round appends, to the part that is placed, a transaction all of whose *)
(* parents are in that part.                                               *)
LEMMA PlaceSort ==
    ASSUME SortInv, NEW j \in DOMAIN msgTxs, Place(j)
    PROVE  SortInv'
<1>1. /\ msgTxs \in Seq(Txid) /\ i \in Nat /\ i >= 1 /\ Len(msgTxs) \in Nat
      /\ i <= Len(msgTxs) /\ j \in i .. Len(msgTxs) /\ ~HasPre(msgTxs[j])
      /\ Len(msgTxs) = Len(input) /\ inResult \subseteq Txid
  BY DEF SortInv, SortTypeOK, Place
<1>2. /\ msgTxs' = Swap(msgTxs, i, j) /\ i' = i + 1 /\ input' = input
      /\ inResult' = inResult \cup {msgTxs[j]}
  BY DEF Place
<1>3. /\ msgTxs' \in Seq(Txid) /\ Len(msgTxs') = Len(msgTxs)
      /\ msgTxs'[i] = msgTxs[j] /\ msgTxs'[j] = msgTxs[i]
      /\ \A k \in 1 .. Len(msgTxs) : k # i /\ k # j => msgTxs'[k] = msgTxs[k]
  <2>1. i \in 1 .. Len(msgTxs) /\ j \in 1 .. Len(msgTxs)
    BY <1>1
  <2> QED  BY <1>1, <1>2, <2>1, SwapFacts
<1>4. \A k \in 1 .. i - 1 : msgTxs'[k] = msgTxs[k]
  BY <1>1, <1>3
<1>5. SortTypeOK'
  BY <1>1, <1>2, <1>3 DEF SortInv, SortTypeOK
<1>6. inResult' = {msgTxs'[k] : k \in 1 .. i' - 1}
  <2>1. 1 .. i' - 1 = (1 .. i - 1) \cup {i}
    BY <1>1, <1>2
  <2>2. {msgTxs'[k] : k \in 1 .. i - 1} = inResult
    BY <1>4 DEF SortInv
  <2>3. {msgTxs'[k] : k \in (1 .. i - 1) \cup {i}} = {msgTxs'[k] : k \in 1 .. i - 1} \cup {msgTxs'[i]}
    OBVIOUS
  <2>4. msgTxs'[i] = msgTxs[j]
    BY <1>3
  <2> QED  BY <1>2, <2>1, <2>2, <2>3, <2>4, Zenon
<1>7. (Keys = {msgTxs[k] : k \in 1 .. Len(msgTxs)})'
  <2>1. Keys' = Keys
    BY <1>2 DEF Keys
  <2>2. ASSUME NEW k \in 1 .. Len(msgTxs)
        PROVE  \E l \in 1 .. Len(msgTxs) : msgTxs'[l] = msgTxs[k]
    <3>1. CASE k = i  BY <1>1, <1>3, <3>1
    <3>2. CASE k = j  BY <1>1, <1>3, <3>2
    <3>3. CASE k # i /\ k # j  BY <1>3, <3>3
    <3> QED  BY <3>1, <3>2, <3>3
  <2>3. ASSUME NEW k \in 1 .. Len(msgTxs)
        PROVE  \E l \in 1 .. Len(msgTxs) : msgTxs[l] = msgTxs'[k]
    <3>1. CASE k = i  BY <1>1, <1>3, <3>1
    <3>2. CASE k = j  BY <1>1, <1>3, <3>2
    <3>3. CASE k # i /\ k # j  BY <1>3, <3>3
    <3> QED  BY <3>1, <3>2, <3>3
  <2>4. {msgTxs'[k] : k \in 1 .. Len(msgTxs)} = {msgTxs[k] : k \in 1 .. Len(msgTxs)}
    <3> DEFINE new == {msgTxs'[k] : k \in 1 .. Len(msgTxs)}
               old == {msgTxs[k] : k \in 1 .. Len(msgTxs)}
    <3>1. ASSUME NEW x \in new PROVE x \in old
      <4>1. PICK k \in 1 .. Len(msgTxs) : x = msgTxs'[k]
        OBVIOUS
      <4>2. PICK l \in 1 .. Len(msgTxs) : msgTxs[l] = msgTxs'[k]
        BY <2>3
      <4> QED  BY <4>1, <4>2
    <3>2. ASSUME NEW x \in old PROVE x \in new
      <4>1. PICK k \in 1 .. Len(msgTxs) : x = msgTxs[k]
        OBVIOUS
      <4>2. PICK l \in 1 .. Len(msgTxs) : msgTxs'[l] = msgTxs[k]
        BY <2>2
      <4> QED  BY <4>1, <4>2
    <3> HIDE DEF new, old
    <3>3. new = old
      BY <3>1, <3>2
    <3> QED  BY <3>3 DEF new, old
  <2>5. Keys = {msgTxs[k] : k \in 1 .. Len(msgTxs)}
    BY DEF SortInv
  <2> QED  BY <1>3, <2>1, <2>4, <2>5
<1>8. Sorted'
  <2>a. 1 .. i' - 1 = 1 .. i
    BY <1>1, <1>2
  <2>b. Keys' = Keys
    BY <1>2 DEF Keys
  <2> SUFFICES ASSUME NEW b \in 1 .. i, NEW u \in Pre[msgTxs'[b]], u \in Keys
               PROVE  \E a \in 1 .. b - 1 : msgTxs'[a] = u
    BY <2>a, <2>b DEF Sorted
  <2>1. CASE b = i
    <3>1. u \in inResult
      BY <1>1, <1>3, <2>1 DEF HasPre
    <3> QED  BY <1>4, <2>1, <3>1 DEF SortInv
  <2>2. CASE b \in 1 .. i - 1
    <3>1. u \in Pre[msgTxs[b]] \cap Keys
      BY <1>4, <2>2
    <3>2. PICK a \in 1 .. b - 1 : msgTxs[a] = u
      BY <2>2, <3>1 DEF SortInv, Sorted
    <3> QED  BY <1>1, <1>4, <2>2, <3>2
  <2> QED  BY <1>1, <2>1, <2>2
<1> QED  BY <1>5, <1>6, <1>7, <1>8 DEF SortInv

(* SortInv holds in every round. *)
THEOREM SortInvariance == SortSpec => []SortInv
<1>1. SortInv /\ [SortNext]_sortVars => SortInv'
  <2>1. ASSUME SortInv, UNCHANGED sortVars PROVE SortInv'
    <3>1. input' = input /\ msgTxs' = msgTxs /\ inResult' = inResult /\ i' = i
      BY <2>1 DEF sortVars
    <3>2. SortTypeOK' /\ Keys' = Keys
      BY <2>1, <3>1 DEF SortInv, SortTypeOK, Keys
    <3>3. Sorted'
      BY <2>1, <3>1, <3>2 DEF SortInv, Sorted
    <3> QED  BY <2>1, <3>1, <3>2, <3>3 DEF SortInv
  <2> QED  BY <2>1, PlaceSort DEF SortNext
<1> QED  BY <1>1, InitSort, PTL DEF SortSpec

(* What is placed is in topological order, for every batch. *)
THEOREM SortedAlways == SortSpec => []Sorted
<1>1. SortInv => Sorted
  BY DEF SortInv
<1> QED  BY <1>1, SortInvariance, PTL

(* Every round of the outer loop places a transaction: at the end of the  *)
(* loop the whole batch is in order.                                      *)
THEOREM AlwaysPlacesAlways == SortSpec => []AlwaysPlaces
<1> QED  BY Placeable, SortInvariance, PTL

(* A swap exchanges two positions of the slice: it maps the positions of a *)
(* transaction one to one to its positions after the swap.                 *)
LEMMA SwapCounts ==
    ASSUME NEW s \in Seq(Txid), NEW a \in 1 .. Len(s), NEW b \in 1 .. Len(s), NEW t
    PROVE  Count(Swap(s, a, b), t) = Count(s, t)
<1> DEFINE r == Swap(s, a, b)
           S == {k \in DOMAIN s : s[k] = t}
           T == {k \in DOMAIN r : r[k] = t}
           f == [k \in S |-> IF k = a THEN b ELSE IF k = b THEN a ELSE k]
<1>1. /\ DOMAIN r = 1 .. Len(s) /\ DOMAIN s = 1 .. Len(s)
      /\ r[a] = s[b] /\ r[b] = s[a]
      /\ \A k \in 1 .. Len(s) : k # a /\ k # b => r[k] = s[k]
  BY SwapFacts
<1> HIDE DEF r
<1>2. f \in [S -> T]
  BY <1>1
<1>3. \A k, l \in S : f[k] = f[l] => k = l
  OBVIOUS
<1>4. ASSUME NEW k \in T PROVE \E l \in S : f[l] = k
  <2>1. CASE k = a
    BY <1>1, <2>1
  <2>2. CASE k = b
    BY <1>1, <2>2
  <2>3. CASE k # a /\ k # b
    BY <1>1, <2>3
  <2>4. QED
    BY <2>1, <2>2, <2>3
<1>5. IsFiniteSet(S)
  <2>1. IsFiniteSet(1 .. Len(s)) /\ S \subseteq 1 .. Len(s)
    BY <1>1, FS_Interval
  <2>2. QED
    BY <2>1, FS_Subset
<1> HIDE DEF S, T, f
<1>6. f \in Bijection(S, T)
  BY <1>2, <1>3, <1>4, Fun_IsBij
<1>7. Cardinality(T) = Cardinality(S)
  BY <1>5, <1>6, FS_Bijection DEF ExistsBijection
<1>8. QED
  BY <1>7 DEF Count, S, T, r

(* SortMsgTx returns the transactions it was given, each as often, for any *)
(* batch: none is lost to ProcessMsgTxs, and none is processed twice that  *)
(* was not named twice.                                                    *)
THEOREM PermutesAlways == SortSpec => []Permutes
<1>1. SortInit => Permutes
  BY DEF SortInit, Permutes
<1>2. SortInv /\ Permutes /\ [SortNext]_sortVars => Permutes'
  <2> SUFFICES ASSUME SortInv, Permutes, [SortNext]_sortVars PROVE Permutes'
    OBVIOUS
  <2>1. ASSUME NEW j \in DOMAIN msgTxs, Place(j) PROVE Permutes'
    <3>1. /\ msgTxs \in Seq(Txid) /\ i \in 1 .. Len(msgTxs) /\ j \in 1 .. Len(msgTxs)
          /\ msgTxs' = Swap(msgTxs, i, j) /\ input' = input
      BY <2>1 DEF SortInv, SortTypeOK, Place
    <3>2. \A t \in Txid : Count(msgTxs', t) = Count(msgTxs, t)
      BY <3>1, SwapCounts
    <3>3. QED
      BY <3>1, <3>2 DEF Permutes
  <2>2. CASE UNCHANGED sortVars
    BY <2>2 DEF sortVars, Permutes
  <2>3. QED
    BY <2>1, <2>2 DEF SortNext
<1>3. QED
  BY <1>1, <1>2, SortInvariance, PTL DEF SortSpec
=============================================================================
