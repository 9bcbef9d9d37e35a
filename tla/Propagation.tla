----------------------------- MODULE Propagation -----------------------------
(***************************************************************************)
(* Transactions and the transactions that spend their badges, on their way *)
(* through a network of nodes.  A node learns of a transaction from a user,*)
(* from the notification of a peer, which may be lost, or from SyncState,  *)
(* which asks a peer for what it has closed.  A transaction whose parents  *)
(* are not closed is left open, and nothing but another call of SyncTxs    *)
(* that names it will look at it again.                                    *)
(*                                                                         *)
(* A call of SyncTxs is one step here (TouchstoneLedger takes it apart),   *)
(* and so is one round of SyncState with one peer (see PartitionSync).     *)
(* A node that restarts keeps its collections and connects again.  mapi    *)
(* knows every transaction.                                                *)
(***************************************************************************)
EXTENDS Integers, FiniteSets

CONSTANTS
    Node,         \* nodes; each has all others in its PeersConfigs
    Tx,           \* transactions
    Ancestors,    \* Ancestors[t], the transactions whose badges t depends on
    MaxSends,     \* bound on the calls of SendRawTransaction
    MaxRestarts   \* bound on the restarts

ASSUME PropagationAssumption ==
    /\ Ancestors \in [Tx -> SUBSET Tx]
    /\ \A t \in Tx : \A u \in Ancestors[t] : Ancestors[u] \subseteq Ancestors[t] \ {u}
    /\ {MaxSends, MaxRestarts} \subseteq Nat

VARIABLES
    state,      \* State of the raw_tx_info row at a node, or "absent"
    peers,      \* the map peers of a node, by the names of the peers
    notified,   \* notifications under way: [from, to, txids]
    sends, restarts

vars == <<state, peers, notified, sends, restarts>>

Closed(n) == {t \in Tx : state[n][t] = "closed"}
Stored(n) == {t \in Tx : state[n][t] # "absent"}

Init ==
    /\ state = [n \in Node |-> [t \in Tx |-> "absent"]]
    /\ peers = [n \in Node |-> {}]
    /\ notified = {}
    /\ sends = 0
    /\ restarts = 0

-----------------------------------------------------------------------------
(* ConnectPeerLoop: the peers it has are kept, those it cannot dial are    *)
(* left out, and it ends when none is missing.                             *)
ConnectPeer(n, failed) ==
    /\ peers[n] # Node \ {n}
    /\ failed \subseteq Node \ {n}
    /\ failed \cap peers[n] = {}
    /\ peers' = [peers EXCEPT ![n] = Node \ ({n} \cup failed)]
    /\ UNCHANGED <<state, notified, sends, restarts>>

(* needProcessTx: the txids that are not closed here and stored either     *)
(* here or at the source.                                                  *)
NeedProcess(n, txids, source) == {t \in txids \ Closed(n) : t \in Stored(n) \cup source}

(* Mutant: it is enough that a parent is stored. *)
ProcessMsgTxsStored(n, need) ==
    {t \in need : Ancestors[t] \subseteq Stored(n) \cup need}

(* ProcessMsgTxs, parents first: what it closes. *)
ProcessMsgTxs(n, need) ==
    {t \in need : Ancestors[t] \subseteq Closed(n) \cup need}

(* Only what was stored in this call is passed on. *)
NotifyTxs(n, txids) ==
    IF txids = {} THEN {} ELSE {[from |-> n, to |-> m, txids |-> txids] : m \in peers[n]}

(* SyncTxs for txids, of which source is what the source can deliver; msgs *)
(* are the notifications left to be handled.                               *)
SyncTxs(n, txids, source, msgs) ==
    LET need == NeedProcess(n, txids, source)
        done == ProcessMsgTxs(n, need)
    IN  /\ state' = [state EXCEPT ![n] = [t \in Tx |-> CASE t \in done -> "closed"
                                                         [] t \in need \ done -> "open"
                                                         [] OTHER -> @[t]]]
        /\ notified' = msgs \cup NotifyTxs(n, need \ Stored(n))

SendRawTransaction(n, t) ==
    /\ sends < MaxSends
    /\ sends' = sends + 1
    /\ SyncTxs(n, {t}, {t}, notified)
    /\ UNCHANGED <<peers, restarts>>

(* Who is not in the map is not listened to.  The bytes come from the      *)
(* peer, by GetTxs.                                                        *)
NotifiedTxs(msg) ==
    /\ IF msg.from \in peers[msg.to]
         THEN SyncTxs(msg.to, msg.txids, Stored(msg.from), notified \ {msg})
         ELSE notified' = notified \ {msg} /\ UNCHANGED state
    /\ UNCHANGED <<peers, sends, restarts>>

(* The result of NotifyTxs is not looked at. *)
Lose(msg) ==
    /\ notified' = notified \ {msg}
    /\ UNCHANGED <<state, peers, sends, restarts>>

(* Mutant: a peer lists the transactions it has open, too. *)
SyncStateStored(n, m) ==
    /\ m \in peers[n]
    /\ SyncTxs(n, Stored(m), Stored(m), notified)
    /\ UNCHANGED <<peers, sends, restarts>>

(* Mutant: a transaction that is stored is not asked for again. *)
SyncStateUnknown(n, m) ==
    /\ m \in peers[n]
    /\ SyncTxs(n, Closed(m) \ Stored(n), Stored(m), notified)
    /\ UNCHANGED <<peers, sends, restarts>>

(* The peer lists what it has closed, confirmed or not. *)
SyncState(n, m) ==
    /\ m \in peers[n]
    /\ SyncTxs(n, Closed(m), Stored(m), notified)
    /\ UNCHANGED <<peers, sends, restarts>>

(* The calls of n are lost with it, and the ones to it are. *)
Restart(n) ==
    /\ restarts < MaxRestarts
    /\ restarts' = restarts + 1
    /\ peers' = [peers EXCEPT ![n] = {}]
    /\ notified' = {msg \in notified : n \notin {msg.from, msg.to}}
    /\ UNCHANGED <<state, sends>>

Next ==
    \/ \E n \in Node : \/ \E failed \in SUBSET Node : ConnectPeer(n, failed)
                       \/ \E t \in Tx : SendRawTransaction(n, t)
                       \/ \E m \in Node : SyncState(n, m)
                       \/ Restart(n)
    \/ \E msg \in notified : NotifiedTxs(msg) \/ Lose(msg)

Spec == Init /\ [][Next]_vars

(* ConnectPeerLoop tries every minute until it has everyone, grpc.Dial     *)
(* succeeds in the end, and SyncStateLoop asks every peer every five       *)
(* minutes.  Nothing is assumed of notifications.                          *)
FairSpec ==
    /\ Spec
    /\ \A n \in Node : /\ WF_vars(ConnectPeer(n, {}))
                       /\ \A m \in Node : WF_vars(SyncState(n, m))

-----------------------------------------------------------------------------
(* Properties *)

(* Rows, peers and notifications have their types; nobody is his own peer. *)
TypeOK ==
    /\ state \in [Node -> [Tx -> {"absent", "open", "closed"}]]
    /\ peers \in [Node -> SUBSET Node]
    /\ \A n \in Node : n \notin peers[n]
    /\ notified \subseteq [from : Node, to : Node, txids : SUBSET Tx]
    /\ sends \in 0 .. MaxSends
    /\ restarts \in 0 .. MaxRestarts

(* A node calls a transaction closed only if it has closed everything it   *)
(* depends on: otherwise ParseMsgTx of it would have missed badges.        *)
ClosedAfterAncestors ==
    \A n \in Node : \A t \in Closed(n) : Ancestors[t] \subseteq Closed(n)

Spread == INSTANCE TxSpread WITH state <- state

(* The network implements the promise: whatever one node has closed every  *)
(* node closes in the end, in whichever order parents and children reached *)
(* it, with lost notifications, with peers that do not know each other yet *)
(* and across restarts.                                                    *)
ImplementsTxSpread == Spread!Spec

(* No user and no notification will name t any more, and no node has       *)
(* closed it.                                                              *)
Forgotten(t) ==
    /\ sends = MaxSends
    /\ \A msg \in notified : t \notin msg.txids
    /\ \A n \in Node : t \notin Closed(n)

(* A transaction that came before its parent everywhere is never closed,   *)
(* although the parent is: the closing of a parent does not lead to its    *)
(* children, and SyncState does not list what is open.                     *)
OpenForGood == [][\A t \in Tx : Forgotten(t) => Forgotten(t)']_vars
=============================================================================
