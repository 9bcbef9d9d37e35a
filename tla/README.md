# A TLA+ verification of Touchstone

Touchstone (`src/`) is a node that keeps the *badges* (tokens) that ride on
Bitcoin SV transactions. A badge is a vout with a certain script and a value;
who owns how many badges of which code follows from the chain by the badge
protocol of `src/README.md`. A node receives transactions from users and peers,
decides which of their vouts are badges, stores the result in Mongo, follows the
chain through a mapi service, and compares what it knows with its peers.

This directory holds a model of its core logic, the TLC runs that check it
on small instances, and TLAPS proofs for all instances.

## 1. The system

### Components, their state and operations

| component | state | operations | code |
|---|---|---|---|
| badge protocol | none | `ParseMsgTx`, `ParseBadgeVoutScript` | `services/touchstone_server.go` 193-276, `util/bitcoin_util.go` 118-151 |
| ledger | `raw_tx_info` (one header document per transaction, with `State` new/open/closed), `tx_point` (vin and vout points), `syncTxLock` | `SyncTxs`, `ProcessMsgTxs`, `ProcessMsgTx`, `GetTxPoint`, `ParseAndAddTxPoints` | `touchstone_server.go` 158-488 |
| clearing | the same collections | `CheckTxState` every minute, `ClearMsgTx` | 776-840 |
| confirmations | `Height`, `BlockHash` of the row; `State` of the points | `CheckTxState`; `SetSpent` every ten minutes | 689-728, 786-840 |
| batch order | none | `SortMsgTx` | `bitcoin_util.go` 153-184 |
| partition synchronisation | `partition_info` (hash per ten blocks), `NeedRecomputehashPartitionsCache` | `SyncState` every five minutes, `SyncUnconfirmTx`, `SyncPatitions`, `ClearCacheAndSetHash` | 106-144, 490-643 |
| queries and wallet | none of its own | utxos, balances, inventories, paging, `SendBadgeToAddress` | 1000-1292 |
| propagation | `peers`; notifications under way | `SendRawTransaction`, `NotifyTxs`, `NotifiedTxs`, `ConnectPeer` every minute until all are there | 357-374, 645-687, 743-754, 879-907 |
| raw transaction store | the segment documents of `raw_tx_info` | `AddMsgTxInfo`, `GetMsgTxInfo`, `DeleteMsgTx` | `models/transaction_info.go` 145-226 |
| users | `addr_info` (address to user) | `SetAddrInfo`, `GetUserTxPoints` | `models/addr_info.go` |
| peer connections | handshake buffers, read deadline | `ClientHandshake`, `ServerHandshake`, `ConnReader` | `interceptor/p2p_interceptor.go` |
| interfaces | none | HTTP and gRPC handlers, mapi clients, configuration | `controller/`, `interceptor/`, `mapi/`, `conf/`, `main.go` |

### How they interact

`SyncTxs` is entered from an HTTP request (`SendRawTransaction`, which brings the
bytes of one transaction), from a notification of a peer (`NotifiedTxs`) and from
the loop of `SyncState`; any number of these goroutines run at once. They share
the two collections, and hold `syncTxLock` for reading from the moment they
store the transactions. `ClearMsgTx` takes the lock for writing. `SetSpent` takes
no lock. Every operation on Mongo is atomic for one document only; there are no
transactions. `SyncState` of a node reads the collections of its peer by
gRPC while both change.

### What is hard

* a lookup made before the lock is used after it;
* two workers on the same transaction, one of them slower;
* parents and children in one batch, in several batches, in any order;
* a crash or an error between any two writes, also between the two deletes of
  `ClearMsgTx` and the two updates of `SetSpent`;
* blocks, reorganisations and evictions while `CheckTxState` works on its list;
* marks, hashes and pages that are out of date when they are compared;
* notifications that are lost or come from a peer that is not connected yet, and
  children that reach a node before their parents;
* the documents of one transaction, written one by one and read without a lock;
* a handshake whose bytes come in any pieces, with deadlines and two clocks;
* int64 sums, early returns and boundaries in the parser, the wallet and paging.

`PROJECT.json` lists them with their lines under `hazards`.

### What makes each component correct

* badge protocol: badges of a code never grow in number; a transaction gets what
  the protocol says of it as a whole; what is spent is gone.
* ledger: only points that the protocol gives are stored; a closed transaction
  has all of them; "illegal vin" is a final verdict; every call ends.
* clearing: no points stay behind without a row.
* confirmations: rows follow the chain; spent badges are not offered as utxos,
  and what is marked spent has a spender that the chain confirms.
* batch order: a permutation with parents first.
* synchronisation and propagation: a round brings what the peer has; what one
  node has closed, every node closes; parents are closed before their children.
* raw store: a header means that all segments are there; a read gives the whole
  transaction or nothing.
* handshake: exactly the body is read; it ends; a punctual client is accepted.
* wallet: the balance is the sum of the history; a transaction moves and burns
  exactly what was asked for; the pages show everything once; an address counts
  for one user.

## 2. The modules

| module | stands for |
|---|---|
| `BadgeRules` | the arithmetic of `ParseMsgTx`: points, keys, the vouts that become badges |
| `BadgeTx` | a world of transactions, each with its vins and vouts as constants, and what the protocol makes of them (`Points`) |
| `BadgeLedger` | the abstract specification: what a node promises to the readers of `tx_point` |
| `TouchstoneLedger` | `SyncTxs` and `ClearMsgTx` of one node, in single database, mapi and lock steps |
| `BadgeChain` | the protocol over every short chain, without concurrency |
| `SortMsgTx` | the sorting of a batch, one step per round of its outer loop |
| `Confirmations` | `CheckTxState`, `SetSpent` and a worker of `SyncTxs` over a moving chain |
| `TxSpread` | the abstract specification of a network: what one node closes, every node closes |
| `PartitionSync` | `SyncState` of two nodes against each other, in single database and peer steps |
| `Propagation` | users, notifications, `SyncState`, `ConnectPeer` and restarts of several nodes, over transactions that depend on each other |
| `RawTxStore` | the documents of one transaction and those who write, delete and read them |
| `Handshake` | `ClientHandshake`, `ServerHandshake` and `ConnReader` |
| `Wallet` | the queries by address and by user, `SetAddrInfo`, `SendBadgeToAddress` |
| `MC*` | the instances for TLC |
| `BadgeRulesProofs` | lemmas about sums of points, shared by `BadgeChainProofs` and `WalletProofs` |
| `TouchstoneLedgerProofs` | the proofs about `TouchstoneLedger`, and about `SortMsgTx` |
| `PropagationProofs` | the proofs about `Propagation`, and about `Handshake` |
| `BadgeChainProofs`, `WalletProofs`, `ConfirmationsProofs`, `RawTxStoreProofs`, `PartitionSyncProofs` | the proofs about the module of that name |

`SortMsgTx` and `Handshake` share their proof module with another specification, so
their specifications have names of their own (`SortSpec`, `HandshakeSpec`).

An operator whose comment begins with "Mutant" is a wrong version of the
definition after it, and is used only to see that a property notices it.

### BadgeRules, BadgeTx, BadgeChain

A vout is reduced to its badge value, or `NotBadge`; a vin to the outpoint it
spends and whether its script ends with the badge flag. `MaxBadge` stands for
2^63 - 1 and `MAX_CREATE_BADGE_VALUE`; `Int64` wraps around beyond it.
`ParseVouts` is the second half of `ParseMsgTx` with its early return in the loop.

Since a txid is the hash of its content, what the protocol makes of a transaction
never changes. `BadgeTx` says so with the constant `Token`, which has to satisfy
the equation of `ParseMsgTx` (`TokenAssumption`); `MCLedger` computes the solution.

`BadgeChain` takes the transactions as inputs: a chain accepts any transaction
that spends unspent outputs, and the node processes it.

An illegal vin (a flagged vin whose outpoint belongs to a closed transaction and
is no badge) makes `ParseMsgTx` dereference the nil point that `GetTxPoint`
returned. The panic ends an HTTP request, and the whole process on any other
goroutine. Both modules do what the code does there: nothing is stored. In
`BadgeChain` `IllegalVin` also stands for a vin that spends from a transaction which
was never closed for this reason: `GetTxPoint` says "unknow utxo" of it, and again
nothing is stored.

### TouchstoneLedger

`txInfo` is the state of the header document, `txPoint` the collection of points.
A worker (`pc`, `txids`, `lack`, `need`, `cur`, `left`, `inv`) runs through

    StartSync -> LookupTx* -> GetTxBytes -> RLock -> AddMsgTxInfo*
      -> for each transaction: ProcessMsgTx
           -> per vin: ReadPoint (-> ReadBrief -> Recheck | IllegalVin)
           -> ParseMsgTx -> AddTxPoint* -> SetClosed
           or SetOpen when the parent is unknown
      -> SyncDone

`SyncFail` and `ProcessFail` are the error returns; a database error in the
middle of one transaction leaves it as it is and the loop goes on to the next.
`CheckTxState`, `Lock`, `DeleteTxPoints` (one document at a time),
`TxPointsDeleted`, `DeleteMsgTx` and `ClearFail` are the other goroutine. `Crash`
may happen at any time and keeps the collections only. The answers of mapi are
free at each call.

Three history variables name what properties need: `settled` (closed and not
being cleared since), `torn` (its clearing was interrupted) and `stale` (its row
was deleted after a worker had looked it up, before that worker had the lock).

Inside a batch `ProcessMsgTx` takes any transaction whose parents in the batch have been
processed; that `SortMsgTx` yields such an order is what module `SortMsgTx` shows.

### Confirmations

A transaction is in a block, in the mempool or gone (`where`), and two of them
may spend the same badge. Depths are the code's 8 and 20 reduced to 1 and 2; the
assumption `DepthAssumption` states how they must be apart: a round of
`CheckTxState` lasts at most the difference (in blocks). Chains that have just
begun are left out, since both windows then reach the height 0.

A worker of `SyncTxs` (`work`, `seen`) is reduced to the stages that matter here:
looked up, waiting for the lock, behind the lock, point added. What it saw of
mapi and of the row before the lock is used behind it, so the points of a row
that `ClearMsgTx` deleted in between come back as `Orphans`, and `SetSpent` gives
up at the first of them. `CheckTxOtherFailure` is a failure of mapi in words
that `CheckTxState` does not know: it is taken for a transaction without a block.
`strayed` is a history variable: the transactions that a reorganisation has taken out
of a block at some time.

### TxSpread, PartitionSync and Propagation

`TxSpread` is the promise the nodes of a network make each other; two modules
implement it at different grain.

`PartitionSync` takes the loop of `SyncState` apart. A height is reduced to its
partition and a hash to the set it is computed from. `block` is the field
`BlockHash`: `SetMsgTxHeightHash` (`transaction_info.go:110`) writes the hash to
a field of another name than the one that is declared (line 83), so
`CheckTxState` finds a transaction that was stored unconfirmed changed in every round. Both nodes run
the loop; other arrivals, `CheckTxState` and errors happen at any time. `calm` is
a history variable: the hashes of the peer were up to date when the round began,
and since then it learnt nothing. It implements `TxSpread` for transactions that
do not depend on each other.

`Propagation` takes a call of `SyncTxs` and a round of `SyncState` as one step
(what `TouchstoneLedger` and `PartitionSync` show of them) and adds what is
between the nodes: users, notifications that are lost or dropped because the
sender is not connected yet, restarts, and transactions that need others. It
implements `TxSpread` with its dependencies. `TxSpread` promises
nothing about a transaction that no node has closed, and this is no accident:
`OpenForGood` shows that such a one stays open.

### RawTxStore

The hex string of one transaction, its segments, and the header. Two workers
insert the documents, each in its order; `DeleteMsgTx` removes them in any
order; `GetMsgTxInfo` moves a cursor by the unique index on txid and index (in which
the header, -1, comes first). Its loop repeats the same query as long as the page is at least half full; `MaxRounds` bounds
the repetitions. History variables: `torn` (an interrupted `DeleteMsgTx` left
the header) and `calm` (no `DeleteMsgTx` has disturbed the read).

### Handshake

A byte is its position in the stream. The server runs `ServerHandshake` with the
positions and the buffer of `ConnReader`; `CheckAndMakeRoom` has its three cases,
the third of which copies to a buffer that is then dropped. `conn.Read` may
return any number of bytes up to the room there is. `Fits` says when the third
case cannot occur; a real body has about 120 bytes in a buffer of 1024.
A connection on which there is no room left (`ConnReadNothing`) turns for ever: `conn.Read`
of nothing returns nothing and no error.

### Wallet

Queries are operators on the set of points; the ones by user join it with
`addrInfo`, which `SetAddrInfo` changes at any time. A transaction that
`SendBadgeToAddress` built is broadcast at any later time, or never. A query of
the code that reads while points are written sees some state in between; here
queries are taken at one moment. `TxPointsSorter` compares timestamps only, so points of one second are in the order
in which `sort.Sort` leaves them: the same one for the same answer of Mongo. `Less`
takes some fixed total order for it; that Mongo returns unchanged documents in
the same order from one page to the next is assumed here. `SortTxPoints` says what
sorting yields without an algorithm: a point comes behind the points that are less
than it, as many as there are.

## 3. The runs

| run | instance | what it shows |
|---|---|---|
| `ledger` | 2 workers, an issuance and its transfer, alone or in one batch | `SettledComplete`, `OrphansAreStale`, `Sound`, `ClosedIsSettled`, `IllegalVinIsFinal`, and that the node implements `BadgeLedger` |
| `ledger_live` | 2 workers, an issuance and a transaction with an illegal vin | every call ends, `ClearMsgTx` gets its lock |
| `chain` | all chains of 3 transactions with at most 2 vins and 2 vouts, values 0 to 2 | the parser follows the protocol; no badge is counted twice; no overflow, no growth |
| `chain_gone` | the same | **violated**: see below |
| `sort` | all batches of up to 5 out of a graph with a diamond, with repetitions | a permutation, parents first |
| `confirmations` | 1 transaction, 4 blocks, 2 faults | `SpentIsNoUtxo`, `SpentHasSpender`, `OrphanForGood`, `ChainFollowed`, `BuriedIsMarked` |
| `confirmations_height` | 2 transactions that spend one badge | **violated**: see below |
| `wallet` | 3 transactions, 2 users, 2 calls of `SendBadgeToAddress` | balances, pages, users, and transactions that do what was asked for |
| `partitions` | 2 nodes, 1 transaction, 2 partitions on 2 pages, 2 arrivals or errors | one calm round is enough; `PartitionSync` implements `TxSpread` |
| `propagation` | 2 nodes, a transaction, its child and its grandchild, 5 sends, 1 restart | parents first; `Propagation` implements `TxSpread`; what came too early everywhere stays open |
| `raw_store` | 2 workers, 1 to 3 segments, a page of 8 rows | a header means all segments, a read is whole; it ends exactly for fewer documents than half a page |
| `handshake` | a buffer of 7 bytes, bodies that fit, just fit, fit with luck and never fit | exactly the body is read, the handshake ends, a punctual client is accepted |

The bounds: with two workers every pair of steps of `SyncTxs` meets; a parent and
a child suffice for every path of `GetTxPoint`. Three transactions give an
issuance, a transfer and a second use; two vins give two codes or a legal and an
illegal vin. Two pages are the smallest number at which an offset is used. In
`PartitionSync` transactions do not affect each other except through the
hash of a partition, in which one more can only add a difference; two events are
an arrival at each node, or one and an error. In `Propagation` a
chain of three has a transaction with a closed and an open ancestor, and
five sends are enough for each to come before its parent and be sent once more. In
`Confirmations` a second transaction meets the first only through `vout`, where
it could hide that a mark has no spender or that a spent badge is offered: one transaction is
the harder case for `SpentHasSpender`, and both are proved for any number. The four
documents of `raw_store` are half of its page, the case in which the loop turns.
Bodies of 1, 4, 5, 7 and 8 bytes are on both sides of each condition of
`CheckAndMakeRoom`. But for liveness the proofs remove the bounds.

`CHECK_DEADLOCK FALSE` is said where the inputs are used up (`BadgeChain`,
`SortMsgTx`, `Wallet`).

### Fairness

* `TouchstoneLedger`: a worker and the clearing goroutine keep taking steps,
  since every call of Mongo, mapi and a peer returns (`WF`). A reader that waits for
  `syncTxLock` gets it (`SF`), because `Unlock` of a `sync.RWMutex` admits the
  waiting readers before the next writer. Requests, errors, crashes and new rounds
  of `CheckTxState` are not fair: they may happen or not.
* `Confirmations`: `CheckTxStateLoop` and `SetSpentLoop` never stop (`WF` of
  their steps), a worker behind the lock goes on (`WF`), and in the end a round
  of `SetSpent` begins at which the points there are have become an hour old
  (`SF`: it is not enabled while a round lasts). Chain, lookups and faults are
  not fair. `ChainFollowed` is conditional on a chain that is quiet in the end,
  `BuriedIsMarked` also on a collection without orphans in the end: without this
  condition it is violated.
* `PartitionSync`: `SyncStateLoop` and `CheckTxStateLoop` never stop (`WF`);
  faults and arrivals are bounded, and nothing is assumed of them.
* `Propagation`: `ConnectPeerLoop` succeeds in the end and `SyncStateLoop` never
  stops (`WF`). Notifications may all be lost, users may never send again.
* `RawTxStore`: a query that was begun goes on (`WF`).
* `Handshake`: time passes, the server keeps reading what has arrived (`WF`). The
  client may stop anywhere.

### What the violated runs say

* `chain_gone`: the README says of rejected transactions that the badges they
  spend are gone. With an illegal vin beside a legal one, the panic at
  `touchstone_server.go:215` keeps the points of the legal vin from being
  stored; the badge is spent on the chain and stays in the utxo set.
  `StuckByIllegalVin` shows that this is the only way to it.
* `confirmations_height`: a transaction that goes from a block back to the mempool is
  stored with height 0 (line 819) instead of `UNCONFIRM_TX_HEIGHT`. The row is then
  not checked again, it is in no partition, and `SetSpent` takes it for buried;
  only `GetUnconfirmTxids`, whose range is from -1 to 1, still lists it. A
  failure of mapi in other words has the same effect on a row whose transaction is
  still in its block.

Other things the properties state as they are in the code:

* `LongIsNotRead`: a transaction of 64 documents or more (4 MB) is never read.
* `OnlyReadAheadIsLost`: the bytes that `ConnReader` reads beyond the body do not
  get to the transport of the server.
* `OpenForGood`: the closing of a parent does not lead to its open children.
* `OrphanForGood`: a vin point whose row is gone and whose transaction is on no chain is
  never cleared or marked, and no round of `SetSpent` gets past it: it stops
  there each time, until the transaction appears again. `BuriedIsMarked` is
  the other side: without orphans every buried vin gets its mark.
* `SpentHasSpender`: what a badge was marked for is in the block its row names, more than
  20 blocks deep, but for two cases: a row of height 0, which counts as buried at
  once, and a transaction that a reorganisation has taken out of a block. Neither
  mark is ever taken back.

One disagreement is stated here only: `src/README.md:742` says that `addr_amounts` may
be empty "for just burn or collect utxo". With nothing to burn either, the loop at
`touchstone_server.go:1256` ends before the first utxo, since 0 >= 0, and the transaction
has no vins: nothing is collected. `VinsSuffice` and `SendsExactly` are about
sums from 1 on and say nothing of such a call.

## 4. The proofs

`TouchstoneLedgerProofs` proves for every set of transactions, workers and
requests, from `TxAssumption`, `TokenAssumption`, `RequestsAssumption`,
`NoTxAssumption` and the assumption on `MaxBadge`:

* `Invariance`: `IndInv` is an invariant; `TypeCorrect`, `SoundAlways`,
  `SettledCompleteAlways`, `ClosedIsSettledAlways`, `OrphansAreStaleAlways` and
  `IllegalVinIsFinalAlways` follow from it;
* `RefinementHolds`: the node implements `BadgeLedger`, with `txPoint` and
  `settled` as they are.

The safety properties are not inductive alone. That only badges are stored
depends on what a worker has read so far: `ParseInv` says that the inventory under
construction consists of exactly the badges that the vins read so far spend, and
that these are still in the collection. They stay there because nobody erases
while a reader holds the lock (`LockInv`). `InsertInv` says that what is missing of
a transaction being inserted is still in the worker's hands, so that `SetClosed`
completes it. `RecheckInv` says that at the double check of `GetTxPoint` the
parent has been closed at some time: then all its points are there, and
what is not found is no badge. `NeedInv` and `ClearInv` tie the rows
to the workers and to the clearing goroutine, and name the one way in which
points outlive their row. There is one lemma per action
(`StepLookupTx`, ...), with one step per conjunct it can disturb. What they need
of the protocol comes first: two points with the same key are equal
(`KeyUnique`), and what `FindVout` finds among the points is what the vin
spends (`FoundIsSpent`).

`BadgeChainProofs` proves for chains and transactions of any length and for
every `MaxBadge` all that the run `chain` checks: `BalanceNeverGrowsAlways`,
`BalanceIsUnspentAlways`, `FollowsProtocolAlways`, `NoOverflowAlways` and
`StuckByIllegalVinAlways`. The inductive invariant `BadgeInv` has four parts.

* `UtxoInv`: a vin spends an output of an earlier transaction that no other vin
  spends, and a badge with the flag.
* `PointInv`: the points of a transaction are what `ParseMsgTx` made of it from
  the points of the earlier ones. So a vin point is the opposite of the vout
  point it names, and no two name the same.
* `SumInv`: no code is worth more than `MaxBadge`. This is what `NoOverflow` needs
  and does not say: the vins of a code bring in at most what is left of it
  (`VinsWorth`), which is at most what its issuance created. Without it an
  overflowed `badgeValue` could create badges, and the balance could grow.
* `NoOverflow` itself, from which `FollowsProtocol` reads off that `badgeValue` is
  the sum of the vins.

The argument is about sums, and the facts about them are in `BadgeRulesProofs`. `Sum`
is what `MapThenSumSet` computes, taken apart in any order (`SumTake`, `SumParts`,
`SumMatched`, `SumOpposite`); `OverspendsIff` says that the running subtraction over
the vouts goes below zero at some badge vout if and only if all of them together
are worth more than `badgeValue`. The subtraction wraps as int64 does, and
until it is negative for the first time it cannot (`RemainingSum`).

`WalletProofs` proves all that the run `wallet` checks (`BalanceHolds`, `SharesHold`,
`EnoughVins`, `SendsHold`, `PagesHold`) for any number of users, transactions and
calls, every order in which the utxos are offered, and every limit of a page. It uses
`MaxBadgeAssumption` and `WalletAssumption`, which says of the users that they are
finitely many, as the documents of `addr_info` are. The inductive invariant
`WalletInv` (`WalletInvariance`) has six parts.

* `PointInv`: a vin point is the opposite of a vout point that no other vin spends.
* `OwnerInv`: the outpoints of the chain have an address.
* `SureInv`: `SetSpent` marks a vout only when it is spent, and before its vin.
* `AddrInv`: an address has one document at most, so no badge counts for two users.
* `BuiltInv`: what `SendBadgeToAddress` built still has vins of one code that were
  its sender's, each once, and they suffice for what was asked for. Whether they are unspent is decided at `Broadcast`.
* `SumInv`: what is left of a code is worth at most `MaxBadge`. So neither the sum of
  the vins nor the change can overflow, and `ParseMsgTx` drops no vout of a
  transaction that was built.

A query leaves out the marked points and cancels the vouts and vins that belong together.
`JoinedUtxos` says that this gives the unspent vouts at the addresses (`Mine`),
whatever has been marked so far, and `SpentCancels` that the rest of
the history adds up to zero; together they are `BalanceIsHistory`. The sums over the addresses
of a user and over the users are sums over families of disjoint sets
(`SumFamily`, `PointsFamily`). `PaysExactly` follows one transaction from `built` to the
collection: what it takes from the sender, gives to the receivers, returns as change and
burns. A page is a piece of the sorted utxos (`PageIs`); counting the points
before a point numbers them without gaps or repetitions (`PriorCount`, `SortedIs`), and
a number is on exactly one page (`OnPage`, `PageOnce`).

The last part of `TouchstoneLedgerProofs` proves for every batch and every acyclic "spends" relation that
what is placed is sorted (`SortedAlways`), that each round places something
(`AlwaysPlacesAlways`): the smallest transaction that is not placed has all its
parents placed; and that nothing is lost, invented or doubled
(`PermutesAlways`): an exchange maps the positions of a transaction one to one.

`ConfirmationsProofs` proves `SpentIsNoUtxo` for any number of transactions,
badges, blocks and faults. It is not inductive: that a vin which was marked has
its vout marked follows from the order of the two updates, so
`VoutFirst` adds that between them the vout of the point in `SetSpent`'s hands is
marked, and `PointsOK` that this point is a transaction. Nothing is needed of the
chain, of `CheckTxState` or of the lock. `TypeCorrect` needs `DepthAssumption`
and goes by the parts `ChainOK` and `PlaceOK`. `SpentHasSpenderHolds` compares the
windows of the two loops (`DepthInv`): what a round of `CheckTxState` may still
remove is at most `CheckDepth + MaxLag` blocks deep (`RoundInv`, `WindowInv`), what
`SetSpent` trusts is deeper than `SpentDepth`, and `DepthAssumption` keeps the two
apart (8 and 20 blocks in the code). `StrayInv` adds the chain: as long as no
reorganisation has taken a transaction out of a block, a height that a row or an answer of
mapi names is that of its block. The rest of `DepthInv` says that an answer of
mapi on its way, a point whose row was removed while `SetSpent` iterates, and the point
it is about to mark do not break this. The steps are not taken one by one for
each part: `RowMove` and `ChainMove` say once what a step of `Next` can do to rows
and chain, and the parts are shown from that (`SpentInvariance`). `OrphanForGoodHolds`
uses the same invariant: a row comes back only through a worker to which mapi has shown
the transaction, `CheckTxState` removes points of rows it has listed only, and what `SetSpent`
marks has a row.

`PropagationProofs` proves, from `PropagationAssumption` (ancestors are
transitive and acyclic), `AncestorsFirst` and `SpreadsSafely`, that is
`Spread!Safety`. Both rest on `DoneTogether`: an ancestor of a processed
transaction that is in the same batch has its own ancestors there or closed, so it is
processed with it. `SyncCalls` reduces the next-state relation to one call of
`SyncTxs` or to a step that changes no row. `OpenForGoodAlways` needs only the
types: no call that is still possible names the transaction.

`RawTxStoreProofs` proves `HeaderIsWhole` with `InsertInv`: a worker that inserts
keeps `DeleteMsgTx` out, and every segment before its next one is in the
collection, whoever put it there. `ReadIsWholeAlways` and `LongIsNotReadAlways` come
from `ReadInv`: a calm read that has met the header has met every document up to its
cursor (`CalmInv`), its parts are the segments in their order unless it has
queried twice (`PartsInv`), and it ends behind the last one with less than half a
page (`DoneInv`). `SegmentsAreWhole` says that `FlattenSeq` puts the segments of
`SplitString` together again.

`PartitionSyncProofs` proves `TypeCorrect`: no step of the loop of
`SyncState` speaks of a partition that does not exist or leaves the pages;
`SpreadsSafely`, again the safety half of its refinement of `TxSpread`; and
`RoundCatchesUpAlways`. The hashes that a round compares may be out of date on both
sides. `HashInv` says in which direction: a hash tells at most what is
closed now, since what a block has confirmed does not leave its partition
(`HeightInv`). Where the hash of the node and a hash of an unchanged peer agree nothing is
missing, where they differ everything is asked for, and the pages cover all
partitions (`CoverInv`, `CalmInv`).

The second part of `PropagationProofs` proves `HandshakeTypeCorrect`, `ExactReadAlways` and
`OnlyReadAheadIsLostAlways` for every size of buffer, head and body and every way
the stream is cut. The invariant ties the buffer to the stream (`StreamInv`):
between `readPos` and `writePos` are the bytes after those handed out, up to
the last one received. It survives the shifting of `CheckAndMakeRoom`, and reading beyond the
buffer, only because of `LoopInv`, which says when the buffer is empty.

Induction over data. The library's induction theorems take a predicate as a
parameter, which the provers here cannot instantiate. The proofs use the theorem that a
well-founded relation has minimal elements instead, whose parameter is a set: the
numbers or subsets for which the claim holds are a set, and it is all
of them, since there is no least counterexample (`NatInduct`, `SubsetInduct` of `BadgeRulesProofs`). A
recursive function is a `CHOOSE`; that there is one to choose is shown the same way
(`SumExists`, `RestExists`).

All inductive invariants were checked by TLC on the instances of the runs before they were
proved. The type invariants are proved and not checked once more by the runs, but
for that of `Handshake`, which says that the positions stay inside the buffer.

Only model-checked: liveness (`SyncTerminates`, `ClearTerminates`, `ChainFollowed`,
`BuriedIsMarked`, `ShortReadEnds`, `HandshakeEnds`, `PunctualIsAccepted` and the second
half of the refinements of `TxSpread`), because it needs fairness and `ENABLED`, which the
prover does not support. Every invariant, every action property and the safety half of
every refinement that a passing run checks is a theorem.

## 5. What is not modelled

* Scripts, signatures, keys and serialisation.
* The gRPC and HTTP transports. `GetRequestMetadata` and `Intercept`, which sign
  and check every call, have no state; they use the check that `Handshake` has as
  `VerifyTimestampSig`. The HTTP handlers and their access control hand a request
  on to the operations that are modelled.
* The mapi clients and the Mongo wrapper: calls of libraries. The reconnection of
  `NewSession` decides only whether an operation returns an error, which the
  modules allow at every operation.
* Configuration and start (`main.go`, `conf/`): straight-line code.
* `DfsSortAndDistinctMsgTxs` and `GetAddrInfo` have no caller.
* The replies of `SyncTxs` and `SendRawTransaction`.
* In `PartitionSync`: several peers of one node (the loop over them takes one after
  the other), a number of partitions that grows with the chain, the deletion
  of rows during the synchronisation, and reorganisations: a transaction is mined once,
  so no row moves from one partition to another or to the height 0
  (`touchstone_server.go` 817-823). What `CheckTxState` does to such a row is in
  `Confirmations`. In `Wallet`: `ClearMsgTx`, so points are never deleted there; what
  becomes of a marked badge when a spender is cleared is in `Confirmations`. In `Propagation`: transactions that mapi
  does not know, and clearing.

## 6. Plan

Done: 1. `BadgeRules`, `BadgeTx`, `TouchstoneLedger` with `BadgeLedger` and the
proofs; 2. `BadgeChain`, `SortMsgTx` and its proofs; 3. `Confirmations`,
`PartitionSync`, `Wallet`; 4. `RawTxStore`, `Handshake`, `Propagation` and
`TxSpread`, orphans and failures of mapi in `Confirmations`, users in `Wallet`,
the proofs about `Confirmations`, `Propagation`, `RawTxStore` and `PartitionSync`;
5. the safety properties of `Handshake`, `BadgeChain`, `Confirmations`,
`PartitionSync`, `RawTxStore` and `SortMsgTx`; 6. those of `Wallet`.

What is left is liveness, which stays with TLC, and the parts listed in section 5.
