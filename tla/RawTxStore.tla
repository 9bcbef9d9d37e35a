----------------------------- MODULE RawTxStore ------------------------------
(***************************************************************************)
(* How one transaction lies in raw_tx_info: its bytes in segments of at    *)
(* most MAX_SEGMENT_SIZE, one document each, and a header document with    *)
(* the index TX_INFO_INDEX, which the other modules call its row.          *)
(* AddMsgTxInfo writes these documents one by one, under the read lock of  *)
(* SyncTxs; DeleteMsgTx removes them one by one, under the write lock;     *)
(* GetMsgTxInfo reads them through a cursor, without a lock.               *)
(***************************************************************************)
EXTENDS Integers, FiniteSets, Sequences, SequencesExt

CONSTANTS
    Worker,            \* goroutines that may store the transaction
    Sizes,             \* the lengths its string of hex digits may have
    MAX_SEGMENT_SIZE,  \* 131070
    Limit,             \* rows of a page of GetMsgTxInfo (128)
    MaxRounds          \* bound on the queries of one call of GetMsgTxInfo

ASSUME StoreAssumption ==
    /\ Sizes \cup {MAX_SEGMENT_SIZE, Limit} \subseteq Nat \ {0}
    /\ MaxRounds \in Nat

VARIABLES
    size,       \* the length of the transaction
    docs,       \* the indices of its documents in the collection
    pc,         \* where a worker is
    next,       \* the document it inserts next
    clearing,   \* DeleteMsgTx runs
    reading,    \* where GetMsgTxInfo is: "idle", "rows" or "done"
    at,         \* the index its cursor is at
    count,      \* number of rows of the current query
    rounds,     \* number of queries before it
    parts,      \* rawTxParts
    completed   \* it saw the header

(* History variables: the code has no such state. *)
VARIABLES
    torn,       \* a DeleteMsgTx was interrupted and left the header
    calm        \* no DeleteMsgTx has disturbed the read

query == <<reading, at, count, rounds, parts, completed>>
vars == <<size, docs, pc, next, clearing, query, torn, calm>>

TX_INFO_INDEX == -1
BeforeAll == -2

(* The loop cuts off segments as long as something is left behind them. *)
SplitString(s, l) ==
    LET full == Cardinality({k \in 1 .. Len(s) : k * l < Len(s)})
    IN  [i \in 1 .. full |-> SubSeq(s, (i - 1) * l + 1, i * l)]
          \o (IF full * l # Len(s) THEN <<SubSeq(s, full * l + 1, Len(s))>> ELSE << >>)

RawTx == [i \in 1 .. size |-> i]
Segments == SplitString(RawTx, MAX_SEGMENT_SIZE)
SegmentIds == 0 .. Len(Segments) - 1
Documents == SegmentIds \cup {TX_INFO_INDEX}

Stored == TX_INFO_INDEX \in docs

Init ==
    /\ size \in Sizes
    /\ docs = {}
    /\ pc = [w \in Worker |-> "idle"]
    /\ next = [w \in Worker |-> 0]
    /\ clearing = FALSE
    /\ reading = "idle" /\ at = BeforeAll /\ count = 0 /\ rounds = 0
    /\ parts = << >> /\ completed = FALSE
    /\ torn = FALSE
    /\ calm = FALSE

-----------------------------------------------------------------------------
(* AddMsgTxInfo *)

(* SyncTxs does not find the header and gets the bytes. *)
LookupTx(w) ==
    /\ pc[w] = "idle"
    /\ ~Stored
    /\ pc' = [pc EXCEPT ![w] = "lack"]
    /\ UNCHANGED <<size, docs, next, clearing, query, torn, calm>>

(* Behind the read lock. *)
AddMsgTxInfo(w) ==
    /\ pc[w] = "lack"
    /\ ~clearing
    /\ pc' = [pc EXCEPT ![w] = "insert"]
    /\ next' = [next EXCEPT ![w] = 0]
    /\ UNCHANGED <<size, docs, clearing, query, torn, calm>>

(* Mutant: the header is inserted first. *)
InsertHeaderFirst(w) ==
    /\ pc[w] = "insert"
    /\ LET i == IF next[w] = 0 THEN TX_INFO_INDEX ELSE next[w] - 1
       IN  docs' = docs \cup {i}
    /\ next' = [next EXCEPT ![w] = @ + 1]
    /\ pc' = [pc EXCEPT ![w] = IF next[w] = Len(Segments) THEN "idle" ELSE @]
    /\ UNCHANGED <<size, clearing, query, torn, calm>>

(* The segments in their order, then the header; a duplicate is ignored. *)
Insert(w) ==
    /\ pc[w] = "insert"
    /\ LET i == IF next[w] \in SegmentIds THEN next[w] ELSE TX_INFO_INDEX
       IN  docs' = docs \cup {i}
    /\ next' = [next EXCEPT ![w] = @ + 1]
    /\ pc' = [pc EXCEPT ![w] = IF next[w] \in SegmentIds THEN @ ELSE "idle"]
    /\ UNCHANGED <<size, clearing, query, torn, calm>>

(* An error of the database: SyncTxs returns. *)
AddFail(w) ==
    /\ pc[w] = "insert"
    /\ pc' = [pc EXCEPT ![w] = "idle"]
    /\ UNCHANGED <<size, docs, next, clearing, query, torn, calm>>

-----------------------------------------------------------------------------
(* DeleteMsgTx *)

(* Mutant: the writer does not wait for the readers. *)
LockAnyway ==
    /\ ~clearing
    /\ Stored
    /\ clearing' = TRUE
    /\ calm' = FALSE
    /\ UNCHANGED <<size, docs, pc, next, query, torn>>

(* CheckTxState finds a header, and ClearMsgTx has the write lock. *)
Lock ==
    /\ ~clearing
    /\ Stored
    /\ \A w \in Worker : pc[w] # "insert"
    /\ clearing' = TRUE
    /\ calm' = FALSE
    /\ UNCHANGED <<size, docs, pc, next, query, torn>>

(* RemoveAll, document by document, in the order of some index. *)
DeleteMsgTx(i) ==
    /\ clearing
    /\ i \in docs
    /\ docs' = docs \ {i}
    /\ torn' = (torn /\ i # TX_INFO_INDEX)
    /\ UNCHANGED <<size, pc, next, clearing, query, calm>>

DeleteDone ==
    /\ clearing
    /\ docs = {}
    /\ clearing' = FALSE
    /\ UNCHANGED <<size, docs, pc, next, query, torn, calm>>

DeleteFail ==
    /\ clearing
    /\ clearing' = FALSE
    /\ torn' = Stored
    /\ UNCHANGED <<size, docs, pc, next, query, calm>>

-----------------------------------------------------------------------------
(* GetMsgTxInfo, for SyncTxs or for GetTxs *)

GetMsgTxInfo ==
    /\ reading = "idle"
    /\ reading' = "rows"
    /\ at' = BeforeAll /\ count' = 0 /\ rounds' = 0
    /\ parts' = << >> /\ completed' = FALSE
    /\ calm' = (~clearing /\ ~torn)
    /\ UNCHANGED <<size, docs, pc, next, clearing, torn>>

(* The cursor goes by the index and returns what it meets. *)
NextRow(i) ==
    /\ reading = "rows"
    /\ count < Limit
    /\ i \in docs
    /\ i > at
    /\ \A j \in docs : j > at => i <= j
    /\ at' = i
    /\ count' = count + 1
    /\ IF i = TX_INFO_INDEX
         THEN completed' = TRUE /\ UNCHANGED parts
         ELSE parts' = Append(parts, Segments[i + 1]) /\ UNCHANGED completed
    /\ UNCHANGED <<size, docs, pc, next, clearing, reading, rounds, torn, calm>>

LastRow == count = Limit \/ \A i \in docs : i <= at

(* Mutant: the loop only ends with an empty page. *)
QueryDoneEmpty ==
    /\ reading = "rows"
    /\ LastRow
    /\ count < 1
    /\ reading' = "done"
    /\ UNCHANGED <<size, docs, pc, next, clearing, at, count, rounds, parts, completed, torn, calm>>

(* Mutant: the loop ends with every page that is not full. *)
QueryDoneNotFull ==
    /\ reading = "rows"
    /\ LastRow
    /\ count < Limit
    /\ reading' = "done"
    /\ UNCHANGED <<size, docs, pc, next, clearing, at, count, rounds, parts, completed, torn, calm>>

(* Less than half a page ends the loop. *)
QueryDone ==
    /\ reading = "rows"
    /\ LastRow
    /\ count < Limit \div 2
    /\ reading' = "done"
    /\ UNCHANGED <<size, docs, pc, next, clearing, at, count, rounds, parts, completed, torn, calm>>

(* Otherwise the same query is made again, with the same offset. *)
QueryAgain ==
    /\ reading = "rows"
    /\ LastRow
    /\ count >= Limit \div 2
    /\ rounds < MaxRounds
    /\ rounds' = rounds + 1
    /\ at' = BeforeAll
    /\ count' = 0
    /\ UNCHANGED <<size, docs, pc, next, clearing, reading, parts, completed, torn, calm>>

(* "not found" without the header, else what DeserializeTxStr makes of it. *)
GetMsgTxInfoReturn ==
    /\ reading = "done"
    /\ reading' = "idle"
    /\ UNCHANGED <<size, docs, pc, next, clearing, at, count, rounds, parts, completed, torn, calm>>

Crash ==
    /\ pc' = [w \in Worker |-> "idle"]
    /\ clearing' = FALSE
    /\ torn' = (torn \/ (clearing /\ Stored))
    /\ reading' = "idle"
    /\ UNCHANGED <<size, docs, next, at, count, rounds, parts, completed, calm>>

-----------------------------------------------------------------------------
ReadProgress == QueryDone \/ QueryAgain \/ \E i \in docs : NextRow(i)

Next ==
    \/ \E w \in Worker : LookupTx(w) \/ AddMsgTxInfo(w) \/ Insert(w) \/ AddFail(w)
    \/ Lock \/ DeleteDone \/ DeleteFail \/ \E i \in docs : DeleteMsgTx(i)
    \/ GetMsgTxInfo \/ ReadProgress \/ GetMsgTxInfoReturn
    \/ Crash

Spec == Init /\ [][Next]_vars

(* A query that was begun goes on. *)
FairSpec == Spec /\ WF_vars(ReadProgress)

-----------------------------------------------------------------------------
(* Properties *)

(* The documents of the transaction, the workers that write them and the   *)
(* locals of GetMsgTxInfo keep their types.                                *)
TypeOK ==
    /\ size \in Sizes
    /\ docs \subseteq Documents
    /\ pc \in [Worker -> {"idle", "lack", "insert"}]
    /\ next \in [Worker -> 0 .. Len(Segments) + 1]
    /\ clearing \in BOOLEAN
    /\ reading \in {"idle", "rows", "done"}
    /\ at \in Documents \cup {BeforeAll}
    /\ count \in 0 .. Limit
    /\ rounds \in 0 .. MaxRounds
    /\ completed \in BOOLEAN
    /\ torn \in BOOLEAN
    /\ calm \in BOOLEAN

(* The header is the last document that AddMsgTxInfo writes: where it is,  *)
(* all segments are, also when two workers wrote them by turns, or one     *)
(* completed what a crash or an interrupted DeleteMsgTx had left.          *)
HeaderIsWhole == Stored /\ ~clearing /\ ~torn => docs = Documents

(* GetMsgTxInfo, which takes no lock, never sees half a transaction,       *)
(* because the header comes first in the order of its cursor: once it has  *)
(* the header, all segments follow, in order, and put together they are    *)
(* the transaction.  Only DeleteMsgTx can spoil it.                        *)
ReadIsWhole ==
    reading = "done" /\ completed /\ calm => FlattenSeq(parts) = RawTx

(* Half a page of documents, which the loop takes for a full page. *)
Long == Cardinality(Documents) >= Limit \div 2

(* GetMsgTxInfo does not return with a transaction of half a page of       *)
(* documents or more (63 segments, 4 MB): SyncTxs and GetTxs hang on it.   *)
LongIsNotRead == reading = "done" /\ completed /\ calm => ~Long

(* A read of a transaction with fewer documents ends, whatever writers and *)
(* DeleteMsgTx do meanwhile.                                               *)
ShortReadEnds == reading = "rows" /\ ~Long ~> reading # "rows"
=============================================================================
