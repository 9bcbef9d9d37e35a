------------------------------ MODULE TxSpread -------------------------------
(***************************************************************************)
(* What the nodes of a network promise each other about the transactions   *)
(* they know.  A node stores a transaction as open or closed, it closes    *)
(* one only when it has closed those it depends on, and it forgets         *)
(* nothing.  Whatever one node has closed, every other node closes too.    *)
(***************************************************************************)
CONSTANTS
    Node,
    Tx,
    Ancestors   \* Ancestors[t], the transactions whose badges t depends on

VARIABLE state  \* "absent", "open" or "closed", per node and transaction

Closed(n) == {t \in Tx : state[n][t] = "closed"}

Init == state = [n \in Node |-> [t \in Tx |-> "absent"]]

(* Node n stores the transactions of new and closes those of done. *)
Advance(n, new, done) ==
    /\ \A t \in new : state[n][t] = "absent"
    /\ \A t \in done : /\ state[n][t] # "closed"
                       /\ Ancestors[t] \subseteq Closed(n) \cup done
    /\ state' = [state EXCEPT ![n] = [t \in Tx |-> CASE t \in done -> "closed"
                                                     [] t \in new \ done -> "open"
                                                     [] OTHER -> @[t]]]

(* Node n closes a transaction that another node has closed. *)
Learn(n, t) ==
    /\ \E m \in Node : state[m][t] = "closed"
    /\ Advance(n, {}, {t})

Next == \E n \in Node : \E new, done \in SUBSET Tx : Advance(n, new, done)

Safety == Init /\ [][Next]_state

Spec ==
    /\ Safety
    /\ \A n \in Node, t \in Tx : WF_state(Learn(n, t))
=============================================================================
