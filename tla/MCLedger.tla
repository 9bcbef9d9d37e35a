------------------------------- MODULE MCLedger ------------------------------
(* Small instances of TouchstoneLedger. *)
EXTENDS TouchstoneLedger, Sequences, TLC

Vin(t, i) == [pre |-> t, idx |-> i, flag |-> TRUE]
Fee == [pre |-> "fee", idx |-> 1, flag |-> FALSE]     \* an ordinary coin

(* iss issues 2 badges, mv moves them.                                     *)
MoveTx == {"iss", "mv"}
MoveIn == "iss" :> <<Fee>> @@ "mv" :> <<Vin("iss", 1), Fee>>
MoveOut == "iss" :> <<2>> @@ "mv" :> <<2, NotBadge>>

(* ill spends, as a badge, an output of iss that is none.                  *)
IllTx == {"iss", "ill"}
IllIn == "iss" :> <<Fee>> @@ "ill" :> <<Vin("iss", 2)>>
IllOut == "iss" :> <<1, NotBadge>> @@ "ill" :> <<1>>

(* The solution of TokenAssumption, ancestors first. *)
Tokens(order) ==
    LET hits(known, vin) == IF vin.pre \in DOMAIN known THEN FindVout(known[vin.pre], vin) ELSE {}
        vouts(known, t) ==
          IF \A i \in BadgeVins(t) : hits(known, TxIn[t][i]) # {}
            THEN ParseVouts(t, TxOut[t],
                            UNION {{VinPoint(t, i, p) : p \in hits(known, TxIn[t][i])}
                                     : i \in BadgeVins(t)})
            ELSE {}
        tok[n \in 0 .. Len(order)] ==
          IF n = 0 THEN [t \in {} |-> {}]
                   ELSE tok[n - 1] @@ (order[n] :> vouts(tok[n - 1], order[n]))
    IN  tok[Len(order)]

MoveToken == Tokens(<<"iss", "mv">>)
IllToken == Tokens(<<"iss", "ill">>)

Local(t) == [src |-> "local", txids |-> {t}]
Peer(ts) == [src |-> "peer", txids |-> ts]

MoveRequests == {Peer({"iss"}), Local("mv"), Peer({"iss", "mv"})}
IllRequests == {Local("iss"), Local("ill")}

WorkerSymmetry == Permutations(Worker)
=============================================================================
