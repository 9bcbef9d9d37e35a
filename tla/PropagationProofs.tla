--------------------------- MODULE PropagationProofs -------------------------
(***************************************************************************)
(* What nodes promise each other, proved.  Part one is about Propagation,  *)
(* for any number of nodes and transactions, and any dependencies between  *)
(* them: nodes close ancestors first, and every step of the network is a   *)
(* step of TxSpread.                                                       *)
(*                                                                         *)
(* Part two is about Handshake, by which a peer gets its connection: for   *)
(* every size of the buffer, of the head, of the body and of what follows  *)
(* it, and however the network cuts the stream into pieces, ConnReader     *)
(* returns the bytes the client wrote.  Its inductive invariant relates    *)
(* the buffer to the stream: the bytes between readPos and writePos are    *)
(* the ones that follow those already handed out (Consumed), up to the     *)
(* last one that conn.Read returned.                                       *)
(***************************************************************************)
EXTENDS Propagation, Handshake, TLAPS


(* The sets that a call of SyncTxs works on. *)
LEMMA SyncSets ==
    ASSUME TypeOK, NEW n \in Node, NEW txids \in SUBSET Tx, NEW source,
           NEW need, need = NeedProcess(n, txids, source)
    PROVE  /\ need \subseteq Tx
           /\ \A t \in need : state[n][t] \in {"absent", "open"}
           /\ ProcessMsgTxs(n, need) \subseteq need
           /\ \A m \in peers[n] : m \in Node
           /\ NotifyTxs(n, need \ Stored(n)) \subseteq [from : Node, to : Node, txids : SUBSET Tx]
BY DEF TypeOK, NeedProcess, Closed, ProcessMsgTxs, NotifyTxs

(* SyncTxs keeps the types of rows and notifications. *)
LEMMA SyncTypes ==
    ASSUME TypeOK, NEW n \in Node, NEW txids \in SUBSET Tx, NEW source, NEW msgs \in SUBSET notified,
           SyncTxs(n, txids, source, msgs)
    PROVE  /\ state' \in [Node -> [Tx -> {"absent", "open", "closed"}]]
           /\ notified' \subseteq [from : Node, to : Node, txids : SUBSET Tx]
<1> DEFINE need == NeedProcess(n, txids, source)
           done == ProcessMsgTxs(n, need)
<1>1. state' = [state EXCEPT ![n] = [t \in Tx |-> CASE t \in done -> "closed"
                                                    [] t \in need \ done -> "open"
                                                    [] OTHER -> @[t]]]
  BY DEF SyncTxs
<1>2. notified' = msgs \cup NotifyTxs(n, need \ Stored(n))
  BY DEF SyncTxs
<1> HIDE DEF need, done
<1>3. state' \in [Node -> [Tx -> {"absent", "open", "closed"}]]
  BY <1>1 DEF TypeOK
<1>4. NotifyTxs(n, need \ Stored(n)) \subseteq [from : Node, to : Node, txids : SUBSET Tx]
  BY SyncSets DEF need
<1>5. QED
  BY <1>2, <1>3, <1>4 DEF TypeOK

(* What is closed after SyncTxs, and where. *)
LEMMA SyncCloses ==
    ASSUME TypeOK, NEW n \in Node, NEW txids \in SUBSET Tx, NEW source, NEW msgs,
           SyncTxs(n, txids, source, msgs)
    PROVE  LET done == ProcessMsgTxs(n, NeedProcess(n, txids, source))
           IN  /\ Closed(n)' = Closed(n) \cup done
               /\ \A m \in Node \ {n} : Closed(m)' = Closed(m)
<1> DEFINE need == NeedProcess(n, txids, source)
           done == ProcessMsgTxs(n, need)
<1>1. state' = [state EXCEPT ![n] = [t \in Tx |-> CASE t \in done -> "closed"
                                                    [] t \in need \ done -> "open"
                                                    [] OTHER -> @[t]]]
  BY DEF SyncTxs
<1>2. /\ need \subseteq Tx
      /\ \A t \in need : state[n][t] \in {"absent", "open"}
      /\ done \subseteq need
  BY SyncSets
<1> HIDE DEF need, done
<1>3. \A t \in Tx : state'[n][t] = "closed" <=> (t \in done \/ state[n][t] = "closed")
  BY <1>1, <1>2 DEF TypeOK
<1>4. \A m \in Node \ {n} : state'[m] = state[m]
  BY <1>1 DEF TypeOK
<1>5. Closed(n)' = Closed(n) \cup done
  BY <1>2, <1>3 DEF Closed
<1>6. \A m \in Node \ {n} : Closed(m)' = Closed(m)
  BY <1>4 DEF Closed
<1>7. QED
  BY <1>5, <1>6 DEF done, need

(* The calls of SyncTxs in the next-state relation. *)
LEMMA SyncCalls ==
    ASSUME TypeOK, Next
    PROVE  \/ UNCHANGED state /\ notified' \subseteq notified
           \/ \E n \in Node, txids \in SUBSET Tx, source \in SUBSET Tx, msgs \in SUBSET notified :
                SyncTxs(n, txids, source, msgs)
<1>1. CASE \E n \in Node : \/ \E failed \in SUBSET Node : ConnectPeer(n, failed)
                           \/ Restart(n)
  BY <1>1 DEF ConnectPeer, Restart
<1>2. CASE \E n \in Node, t \in Tx : SendRawTransaction(n, t)
  BY <1>2 DEF SendRawTransaction
<1>3. CASE \E n \in Node, m \in Node : SyncState(n, m)
  <2>1. PICK n \in Node, m \in Node : SyncTxs(n, Closed(m), Stored(m), notified)
    BY <1>3 DEF SyncState
  <2>2. Closed(m) \in SUBSET Tx /\ Stored(m) \in SUBSET Tx
    BY DEF Closed, Stored
  <2>3. QED
    BY <2>1, <2>2
<1>4. CASE \E msg \in notified : NotifiedTxs(msg)
  <2>1. PICK msg \in notified : NotifiedTxs(msg)
    BY <1>4
  <2>2. msg.to \in Node /\ msg.txids \in SUBSET Tx /\ Stored(msg.from) \in SUBSET Tx
    BY DEF TypeOK, Stored
  <2>3. QED
    BY <2>1, <2>2 DEF NotifiedTxs
<1>5. CASE \E msg \in notified : Lose(msg)
  BY <1>5 DEF Lose
<1>6. QED
  BY <1>1, <1>2, <1>3, <1>4, <1>5 DEF Next

(* Every step keeps the types. *)
LEMMA TypeStep ==
    ASSUME PropagationAssumption, TypeOK, [Next]_vars
    PROVE  TypeOK'
<1>1. CASE UNCHANGED vars
  BY <1>1 DEF TypeOK, vars
<1>2. CASE Next
  <2>1. /\ state' \in [Node -> [Tx -> {"absent", "open", "closed"}]]
        /\ notified' \subseteq [from : Node, to : Node, txids : SUBSET Tx]
    BY <1>2, SyncCalls, SyncTypes DEF TypeOK
  <2> DEFINE Rest == /\ peers \in [Node -> SUBSET Node]
                     /\ \A n \in Node : n \notin peers[n]
                     /\ sends \in 0 .. MaxSends
                     /\ restarts \in 0 .. MaxRestarts
  <2>2. Rest'
    <3>1. ASSUME NEW n \in Node, NEW failed \in SUBSET Node, ConnectPeer(n, failed)
          PROVE  Rest'
      BY <3>1 DEF TypeOK, ConnectPeer
    <3>2. ASSUME NEW n \in Node, NEW t \in Tx, SendRawTransaction(n, t)
          PROVE  Rest'
      BY <3>2 DEF TypeOK, SendRawTransaction, PropagationAssumption
    <3>3. ASSUME NEW n \in Node, Restart(n)
          PROVE  Rest'
      BY <3>3 DEF TypeOK, Restart, PropagationAssumption
    <3>4. CASE UNCHANGED <<peers, sends, restarts>>
      BY <3>4 DEF TypeOK
    <3>5. QED
      BY <1>2, <3>1, <3>2, <3>3, <3>4 DEF Next, SyncState, NotifiedTxs, Lose
  <2>3. QED
    BY <2>1, <2>2 DEF TypeOK
<1>3. QED
  BY <1>1, <1>2

(* Among the ancestors of a processed transaction those that are in the    *)
(* batch are processed, too.                                               *)
LEMMA DoneTogether ==
    ASSUME PropagationAssumption, TypeOK, NEW n \in Node, NEW txids \in SUBSET Tx, NEW source
    PROVE  LET done == ProcessMsgTxs(n, NeedProcess(n, txids, source))
           IN  \A t \in done : Ancestors[t] \subseteq Closed(n) \cup done
<1> DEFINE need == NeedProcess(n, txids, source)
           done == ProcessMsgTxs(n, need)
<1>1. done = {t \in need : Ancestors[t] \subseteq Closed(n) \cup need} /\ need \subseteq Tx
  BY SyncSets DEF ProcessMsgTxs
<1> HIDE DEF need, done
<1>2. SUFFICES ASSUME NEW t \in done, NEW u \in Ancestors[t], u \in need
               PROVE  u \in done
  BY <1>1 DEF need, done
<1>3. t \in Tx /\ Ancestors[u] \subseteq Ancestors[t]
  BY <1>1, <1>2 DEF PropagationAssumption
<1>4. QED
  BY <1>1, <1>2, <1>3

(* SyncTxs closes a transaction only with or after its ancestors. *)
LEMMA AncestorsStep ==
    ASSUME PropagationAssumption, TypeOK, ClosedAfterAncestors, [Next]_vars
    PROVE  ClosedAfterAncestors'
<1>1. CASE UNCHANGED state
  BY <1>1 DEF ClosedAfterAncestors, Closed
<1>2. CASE \E n \in Node, txids \in SUBSET Tx, source \in SUBSET Tx, msgs \in SUBSET notified :
              SyncTxs(n, txids, source, msgs)
  <2>1. PICK n \in Node, txids \in SUBSET Tx, source \in SUBSET Tx, msgs \in SUBSET notified :
              SyncTxs(n, txids, source, msgs)
    BY <1>2
  <2> DEFINE need == NeedProcess(n, txids, source)
             done == ProcessMsgTxs(n, need)
  <2>2. Closed(n)' = Closed(n) \cup done /\ \A m \in Node \ {n} : Closed(m)' = Closed(m)
    BY <2>1, SyncCloses
  <2>3. \A t \in done : Ancestors[t] \subseteq Closed(n) \cup done
    BY DoneTogether
  <2> HIDE DEF need, done
  <2>4. \A t \in Closed(n) : Ancestors[t] \subseteq Closed(n)
    BY DEF ClosedAfterAncestors
  <2>5. \A m \in Node : \A t \in Closed(m)' : Ancestors[t] \subseteq Closed(m)'
    BY <2>2, <2>3, <2>4 DEF ClosedAfterAncestors
  <2>6. QED
    BY <2>5 DEF ClosedAfterAncestors
<1>3. QED
  BY <1>1, <1>2, SyncCalls DEF vars

(* Rows, peers and notifications of Propagation keep their types. *)
THEOREM TypeCorrect == Spec => []TypeOK
<1>1. Init => TypeOK
  BY PropagationAssumption DEF Init, TypeOK, PropagationAssumption
<1>2. TypeOK /\ [Next]_vars => TypeOK'
  BY PropagationAssumption, TypeStep
<1>3. QED
  BY <1>1, <1>2, PTL DEF Spec

(* Whatever order transactions come in, and whichever notifications are    *)
(* lost, SyncTxs of a node never closes a transaction before its ancestors. *)
THEOREM AncestorsFirst == Spec => []ClosedAfterAncestors
<1>1. Init => ClosedAfterAncestors
  BY DEF Init, ClosedAfterAncestors, Closed
<1>2. TypeOK /\ ClosedAfterAncestors /\ [Next]_vars => ClosedAfterAncestors'
  BY PropagationAssumption, AncestorsStep
<1>3. QED
  BY <1>1, <1>2, TypeCorrect, PTL DEF Spec

(* A call of SyncTxs is a step of TxSpread: it stores what is new and      *)
(* closes what it processed.                                               *)
LEMMA SyncAdvances ==
    ASSUME PropagationAssumption, TypeOK, NEW n \in Node, NEW txids \in SUBSET Tx, NEW source, NEW msgs,
           SyncTxs(n, txids, source, msgs)
    PROVE  Spread!Next
<1> DEFINE need == NeedProcess(n, txids, source)
           done == ProcessMsgTxs(n, need)
           new == need \ Stored(n)
<1>1. state' = [state EXCEPT ![n] = [t \in Tx |-> CASE t \in done -> "closed"
                                                    [] t \in need \ done -> "open"
                                                    [] OTHER -> @[t]]]
  BY DEF SyncTxs
<1>2. /\ need \subseteq Tx
      /\ \A t \in need : state[n][t] \in {"absent", "open"}
      /\ done \subseteq need
  BY SyncSets
<1>3. new = {t \in need : state[n][t] = "absent"}
  BY <1>2 DEF Stored
<1>4. \A t \in done : Ancestors[t] \subseteq Spread!Closed(n) \cup done
  BY DoneTogether DEF Closed, Spread!Closed
<1> HIDE DEF need, done, new
<1>5. [t \in Tx |-> CASE t \in done -> "closed"
                      [] t \in need \ done -> "open"
                      [] OTHER -> state[n][t]]
      = [t \in Tx |-> CASE t \in done -> "closed"
                      [] t \in new \ done -> "open"
                      [] OTHER -> state[n][t]]
  BY <1>2, <1>3
<1>6. Spread!Advance(n, new, done)
  BY <1>1, <1>2, <1>3, <1>4, <1>5 DEF Spread!Advance
<1>7. QED
  BY <1>2, <1>3, <1>6 DEF Spread!Next

(* The network never does what TxSpread does not allow: no node forgets a  *)
(* transaction, takes back that it closed one, or closes one out of order. *)
THEOREM SpreadsSafely == Spec => Spread!Safety
<1>1. Init => Spread!Init
  BY DEF Init, Spread!Init
<1>2. TypeOK /\ [Next]_vars => [Spread!Next]_state
  BY PropagationAssumption, SyncCalls, SyncAdvances DEF vars
<1>3. QED
  BY <1>1, <1>2, TypeCorrect, PTL DEF Spec, Spread!Safety

-----------------------------------------------------------------------------
(* A call of SyncTxs that does not name t leaves it forgotten. *)
LEMMA SyncForgets ==
    ASSUME TypeOK, NEW t \in Tx, Forgotten(t),
           NEW n \in Node, NEW txids \in SUBSET Tx, t \notin txids, NEW source, NEW msgs \in SUBSET notified,
           SyncTxs(n, txids, source, msgs), sends' = sends
    PROVE  Forgotten(t)'
<1> DEFINE need == NeedProcess(n, txids, source)
           done == ProcessMsgTxs(n, need)
<1>1. t \notin need /\ t \notin done
  BY DEF NeedProcess, ProcessMsgTxs
<1>2. \A m \in Node : t \notin Closed(m)'
  BY <1>1, SyncCloses DEF Forgotten
<1>3. \A msg \in NotifyTxs(n, need \ Stored(n)) : t \notin msg.txids
  BY <1>1 DEF NotifyTxs
<1>4. notified' = msgs \cup NotifyTxs(n, need \ Stored(n))
  BY DEF SyncTxs
<1>5. \A msg \in notified' : t \notin msg.txids
  BY <1>3, <1>4 DEF Forgotten
<1>6. QED
  BY <1>2, <1>5 DEF Forgotten

(* Neither a peer, nor a restart, nor the closing of its parent brings a   *)
(* transaction back that all nodes have left open and nobody names: the    *)
(* requests of SyncState are about closed transactions only.               *)
THEOREM OpenForGoodAlways == Spec => OpenForGood
<1>1. ASSUME TypeOK, [Next]_vars, NEW t \in Tx, Forgotten(t)
      PROVE  Forgotten(t)'
  <2>1. CASE UNCHANGED <<state, sends>> /\ notified' \subseteq notified
    BY <1>1, <2>1 DEF Forgotten, Closed
  <2>2. ASSUME NEW n \in Node, NEW m \in Node, SyncState(n, m)
        PROVE  Forgotten(t)'
    <3>1. Closed(m) \in SUBSET Tx /\ t \notin Closed(m)
      BY <1>1 DEF Forgotten, Closed
    <3>2. QED
      BY <1>1, <2>2, <3>1, SyncForgets DEF SyncState
  <2>3. ASSUME NEW msg \in notified, NotifiedTxs(msg)
        PROVE  Forgotten(t)'
    <3>1. msg.to \in Node /\ msg.txids \in SUBSET Tx /\ t \notin msg.txids
      BY <1>1 DEF TypeOK, Forgotten
    <3>2. CASE UNCHANGED state /\ notified' = notified \ {msg}
      BY <2>1, <2>3, <3>2 DEF NotifiedTxs
    <3>3. CASE SyncTxs(msg.to, msg.txids, Stored(msg.from), notified \ {msg})
      BY <1>1, <2>3, <3>1, <3>3, SyncForgets DEF NotifiedTxs
    <3>4. QED
      BY <2>3, <3>2, <3>3 DEF NotifiedTxs
  <2>4. ASSUME NEW n \in Node, NEW u \in Tx, SendRawTransaction(n, u)
        PROVE  FALSE
    BY <1>1, <2>4 DEF SendRawTransaction, Forgotten, TypeOK
  <2>5. QED
    BY <1>1, <2>1, <2>2, <2>3, <2>4 DEF Next, vars, ConnectPeer, Restart, Lose
<1>2. TypeOK /\ [Next]_vars => [\A t \in Tx : Forgotten(t) => Forgotten(t)']_vars
  BY <1>1
<1>3. QED
  BY <1>2, TypeCorrect, PTL DEF Spec, OpenForGood

-----------------------------------------------------------------------------
(* Part two: Handshake. *)

(* Before ServerHandshake sets the deadline there is time for it to pass. *)
DeadlineInv == stage = "accept" => now <= MaxTime - Patience

(* The loop of ConnReader.Read runs within one of the two reads; the first *)
(* one starts with an empty buffer.                                        *)
LoopInv ==
    /\ filling => Reading
    /\ stage \in {"accept", "head"} => readPos = 0
    /\ stage \in {"accept", "head"} /\ ~filling => writePos = 0

(* The number of bytes that ConnReader.Read has handed out. *)
Consumed ==
    IF stage \in {"accept", "head"} THEN 0
    ELSE IF stage = "body" THEN HeadLen ELSE Message

(* The buffer holds the bytes from Consumed to got, in order. *)
StreamInv ==
    Fits /\ stage # "refused" =>
        /\ got = Consumed + Buffered
        /\ \A i \in readPos .. writePos - 1 : buf[i] = Consumed + 1 + i - readPos

(* The inductive invariant of Handshake. *)
HandshakeInv == HandshakeTypeOK /\ DeadlineInv /\ LoopInv /\ StreamInv /\ ExactRead

-----------------------------------------------------------------------------
(* The constants are numbers. *)
LEMMA HandshakeConstants ==
    /\ BufSize \in Nat /\ BufSize > 0
    /\ HeadLen \in Nat /\ HeadLen > 0 /\ HeadLen <= BufSize
    /\ \A b \in Bodies : b \in Nat /\ b > 0
    /\ Preface \in Nat /\ Patience \in Nat /\ Window \in Nat
    /\ MaxSkew \in Nat /\ MaxTime \in Nat /\ Patience <= MaxTime
  BY HandshakeAssumption

(* Where MakeRoom leaves the positions, whichever of the three cases of    *)
(* CheckAndMakeRoom it is.                                                 *)
LEMMA RoomPositions ==
    ASSUME HandshakeTypeOK, CheckAndMakeRoom
    PROVE  /\ writePos' \in 0 .. BufSize
           /\ readPos' \in 0 .. writePos'
           /\ writePos' - readPos' = Buffered
           /\ buf' \in [0 .. BufSize - 1 -> Nat]
  <1> USE HandshakeConstants
  <1>1. CASE UNCHANGED <<buf, writePos, readPos>>
    BY <1>1 DEF HandshakeTypeOK, Buffered
  <1>2. CASE /\ buf' = [i \in 0 .. BufSize - 1 |-> IF i < Buffered THEN buf[readPos + i] ELSE buf[i]]
             /\ writePos' = Buffered
             /\ readPos' = 0
    <2>1. \A i \in 0 .. BufSize - 1 : i < Buffered => readPos + i \in 0 .. BufSize - 1
      BY DEF HandshakeTypeOK, Buffered
    <2>2. buf' \in [0 .. BufSize - 1 -> Nat]
      BY <1>2, <2>1 DEF HandshakeTypeOK
    <2> QED
      BY <1>2, <2>2 DEF HandshakeTypeOK, Buffered
  <1>3. CASE writePos' = Buffered /\ readPos' = 0 /\ UNCHANGED buf
    BY <1>3 DEF HandshakeTypeOK, Buffered
  <1> QED
    BY <1>1, <1>2, <1>3 DEF CheckAndMakeRoom

(* Every step keeps the types and the positions inside the buffer. *)
LEMMA HandshakeTypeStep ==
    ASSUME HandshakeTypeOK, DeadlineInv, HandshakeNext
    PROVE  HandshakeTypeOK' /\ DeadlineInv'
  <1> USE HandshakeConstants
  <1>1. CASE Tick
    BY <1>1 DEF HandshakeTypeOK, DeadlineInv, Tick, world, client, reader, server
  <1>2. CASE Break
    BY <1>2 DEF HandshakeTypeOK, DeadlineInv, Break, world, client, reader, server
  <1>3. CASE ClientHandshake
    BY <1>3 DEF HandshakeTypeOK, DeadlineInv, ClientHandshake, Message, world, reader, server
  <1>4. CASE ClientPreface
    BY <1>4 DEF HandshakeTypeOK, DeadlineInv, ClientPreface, Message, world, reader, server
  <1>5. CASE ServerHandshake
    BY <1>5 DEF HandshakeTypeOK, DeadlineInv, ServerHandshake, world, client, reader
  <1>6. CASE MakeRoom
    <2>1. CheckAndMakeRoom
      BY <1>6 DEF MakeRoom
    <2> QED
      BY <1>6, <2>1, RoomPositions DEF HandshakeTypeOK, DeadlineInv, MakeRoom, world, client
  <1>7. CASE ReadDone
    <2>1. /\ readPos' = readPos + Want /\ Want <= Buffered
          /\ filling' = FALSE
          /\ stage' \in {"body", "verify"}
          /\ UNCHANGED <<world, now, conn, client, got, buf, writePos, deadline>>
      BY <1>7 DEF ReadDone, HandshakeTypeOK, Want, Buffered
    <2>2. Want \in Nat
      BY DEF HandshakeTypeOK, Want
    <2>3. readPos' \in 0 .. writePos' /\ writePos' \in 0 .. BufSize
      BY <2>1, <2>2 DEF HandshakeTypeOK, Buffered
    <2> QED
      BY <2>1, <2>3 DEF HandshakeTypeOK, DeadlineInv, world, client
  <1>8. CASE ConnReadFail
    BY <1>8 DEF HandshakeTypeOK, DeadlineInv, ConnReadFail, world, client, reader
  <1>9. CASE Verify
    BY <1>9 DEF HandshakeTypeOK, DeadlineInv, Verify, world, client, reader
  <1>10. CASE \E k \in 1 .. BufSize : ConnRead(k)
    <2>1. PICK k \in 1 .. BufSize : ConnRead(k)
      BY <1>10
    <2>2. /\ buf' = [i \in 0 .. BufSize - 1 |->
                       IF i \in writePos .. writePos + k - 1 THEN got + 1 + i - writePos ELSE buf[i]]
          /\ writePos' = writePos + k /\ k <= BufSize - writePos
          /\ got' = got + k
          /\ UNCHANGED <<world, now, conn, client, readPos, server>>
      BY <2>1 DEF ConnRead, Room
    <2>3. \A i \in 0 .. BufSize - 1 :
              i \in writePos .. writePos + k - 1 => got + 1 + i - writePos \in Nat
      BY DEF HandshakeTypeOK
    <2>4. buf' \in [0 .. BufSize - 1 -> Nat]
      BY <2>2, <2>3 DEF HandshakeTypeOK
    <2> QED
      BY <2>2, <2>4 DEF HandshakeTypeOK, DeadlineInv, world, client, server
  <1>11. CASE ConnReadNothing \/ Done
    BY <1>11 DEF HandshakeTypeOK, DeadlineInv, ConnReadNothing, Done, handshakeVars, world, client, reader, server
  <1> QED
    BY <1>1, <1>2, <1>3, <1>4, <1>5, <1>6, <1>7, <1>8, <1>9, <1>10, <1>11 DEF HandshakeNext, ServerStep

(* Every step keeps the control of ConnReader.Read. *)
LEMMA LoopStep ==
    ASSUME HandshakeTypeOK, LoopInv, HandshakeNext
    PROVE  LoopInv'
  <1> USE HandshakeConstants
  <1>1. CASE Tick \/ Break \/ ClientHandshake \/ ClientPreface
    BY <1>1 DEF LoopInv, Reading, Tick, Break, ClientHandshake, ClientPreface, reader, server
  <1>2. CASE ServerHandshake
    BY <1>2 DEF LoopInv, Reading, ServerHandshake, reader
  <1>3. CASE MakeRoom
    <2>1. stage = "head" => writePos = 0 /\ readPos = 0 /\ Want <= Room
      BY <1>3 DEF MakeRoom, LoopInv, Want, Room
    <2>2. stage = "head" => readPos' = 0
      BY <1>3, <2>1 DEF MakeRoom, CheckAndMakeRoom, HandshakeTypeOK
    <2> QED
      BY <1>3, <2>2 DEF LoopInv, MakeRoom, Reading
  <1>4. CASE ReadDone
    BY <1>4 DEF LoopInv, ReadDone, Reading
  <1>5. CASE ConnReadFail \/ Verify
    BY <1>5 DEF LoopInv, ConnReadFail, Verify, Reading, reader
  <1>6. CASE \E k \in 1 .. BufSize : ConnRead(k)
    BY <1>6 DEF LoopInv, ConnRead, Reading, server
  <1>7. CASE ConnReadNothing \/ Done
    BY <1>7 DEF LoopInv, Reading, ConnReadNothing, Done, handshakeVars, reader, server
  <1> QED
    BY <1>1, <1>2, <1>3, <1>4, <1>5, <1>6, <1>7 DEF HandshakeNext, ServerStep

(* As long as the body fits, the buffer has room for what is wanted, and   *)
(* CheckAndMakeRoom keeps the bytes not read yet.                          *)
LEMMA RoomKeepsBytes ==
    ASSUME HandshakeTypeOK, LoopInv, Fits, MakeRoom
    PROVE  \A i \in readPos' .. writePos' - 1 : buf'[i] = buf[readPos + i - readPos']
  <1> USE HandshakeConstants
  <1>1. CheckAndMakeRoom /\ Reading /\ ~filling /\ Buffered < Want
    BY DEF MakeRoom
  <1>2. Want <= Room + readPos
    <2>1. CASE stage = "head"
      BY <1>1, <2>1 DEF LoopInv, Want, Room
    <2>2. CASE stage = "body"
      BY <1>1, <2>2 DEF HandshakeTypeOK, Want, Room, Buffered, Fits
    <2> QED
      BY <1>1, <2>1, <2>2 DEF Reading
  <1>3. Want \in Nat /\ Room \in Nat
    BY DEF HandshakeTypeOK, Want, Room
  <1>4. CASE Want <= Room
    BY <1>1, <1>3, <1>4 DEF CheckAndMakeRoom, HandshakeTypeOK
  <1>5. CASE ~(Want <= Room)
    <2>1. /\ buf' = [i \in 0 .. BufSize - 1 |-> IF i < Buffered THEN buf[readPos + i] ELSE buf[i]]
          /\ writePos' = Buffered
          /\ readPos' = 0
      BY <1>1, <1>2, <1>3, <1>5 DEF CheckAndMakeRoom, HandshakeTypeOK
    <2>2. ASSUME NEW i \in readPos' .. writePos' - 1
          PROVE  i \in 0 .. BufSize - 1 /\ i < Buffered /\ readPos + i - readPos' = readPos + i
      BY <2>1 DEF HandshakeTypeOK, Buffered
    <2> QED
      BY <2>1, <2>2
  <1> QED
    BY <1>4, <1>5

(* The bytes of a buffer, moved from position a to position c. *)
LEMMA Shift ==
    ASSUME NEW a \in Int, NEW b \in Int, NEW c \in Int, NEW d \in Int,
           d - c = b - a, NEW i \in c .. d - 1
    PROVE  /\ i \in Int
           /\ a + i - c \in a .. b - 1
  OBVIOUS

(* Every step keeps the buffer a piece of the stream. *)
LEMMA StreamStep ==
    ASSUME HandshakeTypeOK, LoopInv, StreamInv, HandshakeNext, HandshakeTypeOK'
    PROVE  StreamInv'
  <1> USE HandshakeConstants
  <1> SUFFICES ASSUME Fits', stage' # "refused"
               PROVE  /\ got' = Consumed' + Buffered'
                      /\ \A i \in readPos' .. writePos' - 1 : buf'[i] = Consumed' + 1 + i - readPos'
    BY DEF StreamInv
  <1>0. readPos \in Int /\ writePos \in Int /\ readPos' \in Int /\ writePos' \in Int
    BY DEF HandshakeTypeOK
  <1>1. UNCHANGED bodyLen
    BY DEF HandshakeNext, ServerStep, Tick, Break, ClientHandshake, ClientPreface, ServerHandshake,
           MakeRoom, ReadDone, ConnReadFail, Verify, ConnRead, ConnReadNothing, Done, handshakeVars, world
  <1>2. Fits
    BY <1>1 DEF Fits
  <1>3. Consumed \in Nat /\ (\A b \in Bodies : b \in Nat)
    <2>1. \A b \in Bodies : b \in Nat
      OBVIOUS
    <2>2. bodyLen \in Nat /\ HeadLen \in Nat
      BY <2>1 DEF HandshakeTypeOK
    <2>3. QED
      BY <2>1, <2>2 DEF Consumed, Message
  <1>4. CASE Tick \/ Break \/ ClientHandshake \/ ClientPreface \/ ConnReadNothing \/ Done
    <2>1. UNCHANGED <<stage, got, buf, writePos, readPos>>
      BY <1>4 DEF Tick, Break, ClientHandshake, ClientPreface, ConnReadNothing, Done,
                  handshakeVars, reader, server
    <2>2. Consumed' = Consumed
      BY <1>1, <2>1 DEF Consumed, Message
    <2> QED
      BY <1>2, <2>1, <2>2 DEF StreamInv, Buffered
  <1>5. CASE ServerHandshake
    <2>1. stage = "accept" /\ stage' = "head" /\ UNCHANGED <<got, buf, writePos, readPos>>
      BY <1>5 DEF ServerHandshake, reader
    <2>2. Consumed' = Consumed
      BY <2>1 DEF Consumed
    <2> QED
      BY <1>2, <2>1, <2>2 DEF StreamInv, Buffered
  <1>6. CASE MakeRoom
    <2>1. UNCHANGED <<got, stage>> /\ CheckAndMakeRoom
      BY <1>6 DEF MakeRoom
    <2>2. Consumed' = Consumed
      BY <1>1, <2>1 DEF Consumed, Message
    <2>3. writePos' - readPos' = writePos - readPos
      BY <2>1, RoomPositions DEF Buffered
    <2>4. /\ got = Consumed + (writePos - readPos)
          /\ \A i \in readPos .. writePos - 1 : buf[i] = Consumed + 1 + i - readPos
      BY <1>2, <2>1 DEF StreamInv, Buffered
    <2>5. ASSUME NEW i \in readPos' .. writePos' - 1
          PROVE  buf'[i] = Consumed + 1 + i - readPos'
      <3>1. buf'[i] = buf[readPos + i - readPos']
        BY <1>2, <1>6, RoomKeepsBytes
      <3>2. readPos + i - readPos' \in readPos .. writePos - 1
        BY <1>0, <2>3, Shift
      <3>3. buf[readPos + i - readPos'] = Consumed + 1 + (readPos + i - readPos') - readPos
        BY <2>4, <3>2
      <3> QED
        BY <1>0, <1>3, <2>3, <3>1, <3>3, Shift
    <2> QED
      BY <2>1, <2>2, <2>3, <2>4, <2>5 DEF Buffered
  <1>7. CASE \E k \in 1 .. BufSize : ConnRead(k)
    <2>1. PICK k \in 1 .. BufSize : ConnRead(k)
      BY <1>7
    <2>2. /\ buf' = [i \in 0 .. BufSize - 1 |->
                       IF i \in writePos .. writePos + k - 1 THEN got + 1 + i - writePos ELSE buf[i]]
          /\ writePos' = writePos + k
          /\ got' = got + k
          /\ UNCHANGED <<readPos, stage>>
      BY <2>1 DEF ConnRead, server
    <2>3. Consumed' = Consumed
      BY <1>1, <2>2 DEF Consumed, Message
    <2>4. /\ got = Consumed + (writePos - readPos)
          /\ \A i \in readPos .. writePos - 1 : buf[i] = Consumed + 1 + i - readPos
      BY <1>2, <2>2 DEF StreamInv, Buffered
    <2>5. ASSUME NEW i \in readPos .. writePos + k - 1
          PROVE  buf'[i] = Consumed + 1 + i - readPos
      <3>1. i \in 0 .. BufSize - 1
        BY <2>2 DEF HandshakeTypeOK
      <3>2. CASE i \in writePos .. writePos + k - 1
        BY <2>2, <2>4, <3>1, <3>2, <1>3 DEF HandshakeTypeOK
      <3>3. CASE ~(i \in writePos .. writePos + k - 1)
        <4>1. i \in readPos .. writePos - 1
          BY <3>3 DEF HandshakeTypeOK
        <4>2. buf'[i] = buf[i]
          BY <2>2, <3>1, <3>3
        <4> QED
          BY <2>4, <4>1, <4>2
      <3> QED
        BY <3>2, <3>3
    <2>6. got' = Consumed + (writePos' - readPos)
      BY <2>2, <2>4, <1>3 DEF HandshakeTypeOK
    <2>7. ASSUME NEW i \in readPos' .. writePos' - 1
          PROVE  buf'[i] = Consumed' + 1 + i - readPos'
      <3>1. readPos' = readPos /\ writePos' - 1 = writePos + k - 1
        BY <2>2 DEF HandshakeTypeOK
      <3>2. i \in readPos .. writePos + k - 1
        BY <3>1, Zenon
      <3> QED
        BY <2>3, <2>5, <3>1, <3>2
    <2> QED
      BY <2>3, <2>2, <2>6, <2>7 DEF Buffered
  <1>8. CASE ReadDone
    <2>1. /\ Reading /\ Want <= Buffered
          /\ readPos' = readPos + Want
          /\ stage' = IF stage = "head" THEN "body" ELSE "verify"
          /\ UNCHANGED <<got, buf, writePos>>
      BY <1>8 DEF ReadDone, HandshakeTypeOK, Want, Buffered
    <2>2. Consumed' = Consumed + Want /\ Want \in Nat
      BY <1>1, <2>1 DEF Consumed, Reading, Want, Message, HandshakeTypeOK
    <2>3. /\ got = Consumed + (writePos - readPos)
          /\ \A i \in readPos .. writePos - 1 : buf[i] = Consumed + 1 + i - readPos
      BY <1>2, <2>1 DEF StreamInv, Buffered, Reading
    <2>4. got' = Consumed' + (writePos' - readPos')
      BY <2>1, <2>2, <2>3, <1>3 DEF HandshakeTypeOK
    <2>5. ASSUME NEW i \in readPos' .. writePos' - 1
          PROVE  buf'[i] = Consumed' + 1 + i - readPos'
      <3>1. i \in readPos .. writePos - 1
        BY <2>1, <2>2 DEF HandshakeTypeOK
      <3> QED
        BY <2>1, <2>2, <2>3, <3>1, <1>3 DEF HandshakeTypeOK
    <2> QED
      BY <2>4, <2>5 DEF Buffered
  <1>9. CASE Verify
    <2>1. stage = "verify" /\ stage' = "accepted" /\ UNCHANGED <<got, buf, writePos, readPos>>
      BY <1>9 DEF Verify, reader
    <2>2. Consumed' = Consumed
      BY <1>1, <2>1 DEF Consumed, Message
    <2> QED
      BY <1>2, <2>1, <2>2 DEF StreamInv, Buffered
  <1>10. CASE ConnReadFail
    BY <1>10 DEF ConnReadFail
  <1> QED
    BY <1>4, <1>5, <1>6, <1>7, <1>8, <1>9, <1>10 DEF HandshakeNext, ServerStep

(* ConnReader.Read returns the piece of the stream that is the body. *)
LEMMA ExactStep ==
    ASSUME HandshakeTypeOK, StreamInv, ExactRead, HandshakeNext
    PROVE  ExactRead'
  <1> USE HandshakeConstants
  <1>1. UNCHANGED bodyLen
    BY DEF HandshakeNext, ServerStep, Tick, Break, ClientHandshake, ClientPreface, ServerHandshake,
           MakeRoom, ReadDone, ConnReadFail, Verify, ConnRead, ConnReadNothing, Done, handshakeVars, world
  <1>2. Exact' = Exact /\ (Fits' => Fits)
    BY <1>1 DEF Exact, Fits
  <1>3. CASE UNCHANGED <<stage, body>>
    BY <1>2, <1>3 DEF ExactRead
  <1>4. CASE ServerHandshake \/ ConnReadFail
    BY <1>4 DEF ExactRead, ServerHandshake, ConnReadFail
  <1>5. CASE Verify
    BY <1>2, <1>5 DEF ExactRead, Verify
  <1>6. CASE ReadDone
    <2>1. CASE stage = "head"
      BY <1>6, <2>1 DEF ReadDone, ExactRead
    <2>2. CASE stage = "body"
      <3> SUFFICES ASSUME Fits PROVE body' = Exact
        BY <1>2 DEF ExactRead
      <3>1. body' = [i \in 1 .. bodyLen |-> buf[readPos + i - 1]] /\ bodyLen <= Buffered
        BY <1>6, <2>2 DEF ReadDone, Want, HandshakeTypeOK, Buffered
      <3>2. \A i \in readPos .. writePos - 1 : buf[i] = HeadLen + 1 + i - readPos
        BY <2>2 DEF StreamInv, Consumed
      <3>3. ASSUME NEW i \in 1 .. bodyLen
            PROVE  buf[readPos + i - 1] = HeadLen + i
        <4>1. readPos + i - 1 \in readPos .. writePos - 1
          BY <3>1 DEF HandshakeTypeOK, Buffered
        <4>2. buf[readPos + i - 1] = HeadLen + 1 + (readPos + i - 1) - readPos
          BY <3>2, <4>1
        <4> QED
          BY <4>2 DEF HandshakeTypeOK
      <3> QED
        BY <3>1, <3>3 DEF Exact
    <2> QED
      BY <1>6, <2>1, <2>2 DEF ReadDone, Reading
  <1> QED
    BY <1>3, <1>4, <1>5, <1>6
    DEF HandshakeNext, ServerStep, Tick, Break, ClientHandshake, ClientPreface, MakeRoom,
        ConnRead, ConnReadNothing, Done, handshakeVars, server

-----------------------------------------------------------------------------
(* What ServerHandshake and ConnReader keep true together. *)
THEOREM HandshakeInvariance == HandshakeSpec => []HandshakeInv
  <1>1. HandshakeInit => HandshakeInv
    <2> SUFFICES ASSUME HandshakeInit PROVE HandshakeInv
      OBVIOUS
    <2>1. HandshakeTypeOK
      <3>1. buf \in [0 .. BufSize - 1 -> Nat] /\ timestamp \in Int
        BY HandshakeConstants DEF HandshakeInit, NotSigned
      <3>2. now \in 0 .. MaxTime /\ deadline \in 0 .. MaxTime /\ sent \in Nat /\ got \in Nat
        BY HandshakeConstants DEF HandshakeInit
      <3>3. readPos \in 0 .. writePos /\ writePos \in 0 .. BufSize
        BY HandshakeConstants DEF HandshakeInit
      <3> QED
        BY <3>1, <3>2, <3>3 DEF HandshakeInit, HandshakeTypeOK
    <2>2. DeadlineInv /\ LoopInv /\ ExactRead
      BY HandshakeConstants DEF HandshakeInit, DeadlineInv, LoopInv, Reading, ExactRead
    <2>3. StreamInv
      BY DEF HandshakeInit, StreamInv, Consumed, Buffered
    <2> QED
      BY <2>1, <2>2, <2>3 DEF HandshakeInv
  <1>2. HandshakeInv /\ [HandshakeNext]_handshakeVars => HandshakeInv'
    <2> SUFFICES ASSUME HandshakeInv, [HandshakeNext]_handshakeVars
                 PROVE  HandshakeInv'
      OBVIOUS
    <2>1. CASE HandshakeNext
      BY <2>1, HandshakeTypeStep, LoopStep, StreamStep, ExactStep DEF HandshakeInv
    <2>2. CASE UNCHANGED handshakeVars
      BY <2>2
      DEF HandshakeInv, HandshakeTypeOK, DeadlineInv, LoopInv, StreamInv, ExactRead, Reading, Consumed,
          Buffered, Fits, Message, Exact, handshakeVars, world, client, reader, server
    <2> QED
      BY <2>1, <2>2
  <1> QED
    BY <1>1, <1>2, PTL DEF HandshakeSpec

(* The positions of the ConnReader never leave its buffer, also when the   *)
(* body does not fit.                                                      *)
THEOREM HandshakeTypeCorrect == HandshakeSpec => []HandshakeTypeOK
  <1>1. HandshakeInv => HandshakeTypeOK
    BY DEF HandshakeInv
  <1> QED
    BY <1>1, HandshakeInvariance, PTL

(* A body of at most half the buffer is read byte for byte. *)
THEOREM ExactReadAlways == HandshakeSpec => []ExactRead
  <1>1. HandshakeInv => ExactRead
    BY DEF HandshakeInv
  <1> QED
    BY <1>1, HandshakeInvariance, PTL

(* What the transport of the server misses is what the buffer of the       *)
(* ConnReader still holds, and nothing else.                               *)
THEOREM OnlyReadAheadIsLostAlways == HandshakeSpec => []OnlyReadAheadIsLost
  <1>1. HandshakeInv => OnlyReadAheadIsLost
    BY DEF HandshakeInv, StreamInv, Consumed, OnlyReadAheadIsLost
  <1> QED
    BY <1>1, HandshakeInvariance, PTL
=============================================================================
