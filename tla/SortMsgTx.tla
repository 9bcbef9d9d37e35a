------------------------------ MODULE SortMsgTx ------------------------------
(***************************************************************************)
(* util.SortMsgTx, which ProcessMsgTxs runs on a batch so that a           *)
(* transaction is processed after those of the batch that it spends.  One  *)
(* step is one round of the outer loop.                                    *)
(*                                                                         *)
(* A transaction is its txid.  Since a txid is the hash of the outpoints   *)
(* spent, "spends" has no cycles; here txids are numbers and a transaction *)
(* spends smaller ones.  A batch may name a transaction twice, as the      *)
(* txids of a request may.                                                 *)
(***************************************************************************)
EXTENDS Integers, Sequences, FiniteSets

CONSTANTS
    Txid,      \* all transactions
    Pre,       \* Pre[t], the transactions whose outputs t spends
    Batches    \* the batches to sort

ASSUME TxidAssumption == Txid \subseteq Nat
ASSUME PreAssumption == \A t \in Txid : \A u \in Pre[t] : u \in Txid => u < t
ASSUME BatchesAssumption == \A b \in Batches : b \in Seq(Txid)

VARIABLES
    input,     \* the batch as SortMsgTx got it
    msgTxs,    \* the slice that is sorted in place
    inResult,  \* the txids whose entry in txid2InResult is true
    i          \* index of the outer loop

sortVars == <<input, msgTxs, inResult, i>>

(* The keys of txid2InResult. *)
Keys == {input[k] : k \in DOMAIN input}

(* Mutant: one placed parent is enough. *)
HasPreAll(t) == Pre[t] \cap Keys # {} /\ \A u \in Pre[t] \cap Keys : u \notin inResult

(* Mutant: what is placed already still counts. *)
HasPreEver(t) == \E u \in Pre[t] : u \in Keys

(* hasPre: a vin of t spends a transaction of the batch that is not placed. *)
HasPre(t) == \E u \in Pre[t] : u \in Keys /\ u \notin inResult

(* Mutant: one half of the exchange is missing. *)
SwapHalf(s, a, b) == [s EXCEPT ![a] = s[b]]

Swap(s, a, b) == [s EXCEPT ![a] = s[b], ![b] = s[a]]

SortInit ==
    /\ input \in Batches
    /\ msgTxs = input
    /\ inResult = {}
    /\ i = 1

(* The inner loop stops at the first j without hasPre. *)
Place(j) ==
    /\ i <= Len(msgTxs)
    /\ j \in i .. Len(msgTxs)
    /\ ~HasPre(msgTxs[j])
    /\ \A k \in i .. j - 1 : HasPre(msgTxs[k])
    /\ inResult' = inResult \cup {msgTxs[j]}
    /\ msgTxs' = Swap(msgTxs, i, j)
    /\ i' = i + 1
    /\ UNCHANGED input

(* A round in which the inner loop finds no j would change nothing;        *)
(* AlwaysPlaces shows that there is none.                                  *)
SortNext == \E j \in DOMAIN msgTxs : Place(j)

SortSpec == SortInit /\ [][SortNext]_sortVars

-----------------------------------------------------------------------------
(* The slice keeps its length and holds transactions, the marks are txids, *)
(* and the position of the loop stays inside the slice.                    *)
SortTypeOK ==
    /\ input \in Batches
    /\ msgTxs \in Seq(Txid)
    /\ Len(msgTxs) = Len(input)
    /\ inResult \subseteq Txid
    /\ i \in 1 .. Len(input) + 1

(* How often t occurs. *)
Count(s, t) == Cardinality({k \in DOMAIN s : s[k] = t})

(* Sorting loses and invents no transaction, and keeps the duplicates. *)
Permutes == \A t \in Txid : Count(msgTxs, t) = Count(input, t)

(* Of what is placed, everything comes after all that it spends in the     *)
(* batch: ProcessMsgTx never meets a child before its parent, which would  *)
(* leave the child open although the batch closes the parent.              *)
Sorted ==
    \A b \in 1 .. i - 1 : \A u \in Pre[msgTxs[b]] \cap Keys :
        \E a \in 1 .. b - 1 : msgTxs[a] = u

(* Every round finds a transaction to place, so the whole slice gets       *)
(* sorted, and no round of the loop leaves a stale order behind.           *)
AlwaysPlaces == i <= Len(msgTxs) => \E j \in i .. Len(msgTxs) : ~HasPre(msgTxs[j])

(* The inductive invariant: what is placed is marked, and the slice holds  *)
(* the transactions of the batch.                                          *)
SortInv ==
    /\ SortTypeOK
    /\ inResult = {msgTxs[k] : k \in 1 .. i - 1}
    /\ Keys = {msgTxs[k] : k \in 1 .. Len(msgTxs)}
    /\ Sorted
=============================================================================
