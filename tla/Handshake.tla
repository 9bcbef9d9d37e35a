------------------------------ MODULE Handshake ------------------------------
(***************************************************************************)
(* The handshake of two nodes: the client signs the time and writes a head *)
(* with the length of the body, the body (an AuthRequest), and goes on with*)
(* the bytes of its gRPC transport; the server reads head and body through *)
(* a ConnReader, checks the signature and hands the connection over to its *)
(* own transport.                                                          *)
(*                                                                         *)
(* A byte is its position in what the client writes.  The network delivers *)
(* them in order and in pieces of any size; conn.Read fills whatever room  *)
(* the buffer has.  Time is counted in units, of which Patience make up    *)
(* the read deadline and Window the age at which a signature expires.      *)
(***************************************************************************)
EXTENDS Integers

CONSTANTS
    BufSize,   \* length of the buffer of a ConnReader (1024)
    HeadLen,   \* AUTH_HEAD_LONG (4)
    Bodies,    \* the lengths an AuthRequest may have
    Preface,   \* number of bytes the client's transport sends next
    Patience,  \* the read deadline of ServerHandshake (10 s)
    Window,    \* the age at which VerifyTimestampSig rejects (10 s)
    MaxSkew,   \* how far the clocks of client and server may be apart
    MaxTime    \* bound on the time

ASSUME HandshakeAssumption ==
    /\ {BufSize, HeadLen} \cup Bodies \subseteq Nat \ {0}
    /\ HeadLen <= BufSize
    /\ {Preface, Patience, Window, MaxSkew, MaxTime} \subseteq Nat
    /\ Patience <= MaxTime

VARIABLES
    bodyLen,    \* length of the body
    skew,       \* the clock of the client minus the clock of the server
    now,        \* the time at the server
    conn,       \* the connection, "up" or "broken"
    timestamp,  \* Timestamp of the AuthRequest
    sent,       \* number of bytes the client has written
    got,        \* number of bytes conn.Read has returned to the server
    buf, writePos, readPos,   \* the ConnReader
    stage,      \* where ServerHandshake is
    filling,    \* ConnReader.Read is in its loop
    body,       \* the bytes it read for the body
    deadline    \* the read deadline of the connection

world == <<bodyLen, skew>>
client == <<timestamp, sent>>
reader == <<got, buf, writePos, readPos>>
server == <<stage, filling, body, deadline>>
handshakeVars == <<world, now, conn, client, reader, server>>

NotSigned == MaxTime + MaxSkew + 1
Message == HeadLen + bodyLen
Exact == [i \in 1 .. bodyLen |-> HeadLen + i]

HandshakeInit ==
    /\ bodyLen \in Bodies
    /\ skew \in -MaxSkew .. MaxSkew
    /\ now = 0
    /\ conn = "up"
    /\ timestamp = NotSigned
    /\ sent = 0
    /\ got = 0
    /\ buf = [i \in 0 .. BufSize - 1 |-> 0]
    /\ writePos = 0
    /\ readPos = 0
    /\ stage = "accept"
    /\ filling = FALSE
    /\ body = << >>
    /\ deadline = MaxTime

-----------------------------------------------------------------------------
(* The world and the client *)

(* The bound leaves time for the deadline to pass. *)
Tick ==
    /\ now < IF stage = "accept" THEN MaxTime - Patience ELSE MaxTime
    /\ now' = now + 1
    /\ UNCHANGED <<world, conn, client, reader, server>>

(* The client dies, or the network cuts it off. *)
Break ==
    /\ conn = "up"
    /\ conn' = "broken"
    /\ UNCHANGED <<world, now, client, reader, server>>

ClientHandshake ==
    /\ sent = 0
    /\ conn = "up"
    /\ timestamp' = now + skew
    /\ sent' = Message
    /\ UNCHANGED <<world, now, conn, reader, server>>

(* The transport of the client does not wait for an answer. *)
ClientPreface ==
    /\ sent = Message
    /\ conn = "up"
    /\ sent' = Message + Preface
    /\ UNCHANGED <<world, now, conn, timestamp, reader, server>>

-----------------------------------------------------------------------------
(* ConnReader *)

Reading == stage \in {"head", "body"}
Want == IF stage = "head" THEN HeadLen ELSE bodyLen
Buffered == writePos - readPos
Room == BufSize - writePos

(* Mutant: the bytes not read yet are not moved to the front. *)
CheckAndMakeRoomNoCopy ==
    IF Want <= Room
      THEN UNCHANGED <<buf, writePos, readPos>>
      ELSE writePos' = Buffered /\ readPos' = 0 /\ UNCHANGED buf

(* Mutant: readPos is not reset. *)
CheckAndMakeRoomKeepsPos ==
    IF Want <= Room
      THEN UNCHANGED <<buf, writePos, readPos>>
      ELSE writePos' = Buffered /\ UNCHANGED <<buf, readPos>>

(* The buffer is left alone if its tail suffices, and its content moved to *)
(* the front if that suffices; else the content is copied to a new buffer, *)
(* which is dropped, and only the positions change.                        *)
CheckAndMakeRoom ==
    \/ Want <= Room /\ UNCHANGED <<buf, writePos, readPos>>
    \/ /\ Want > Room
       /\ Want <= Room + readPos
       /\ buf' = [i \in 0 .. BufSize - 1 |-> IF i < Buffered THEN buf[readPos + i] ELSE buf[i]]
       /\ writePos' = Buffered
       /\ readPos' = 0
    \/ Want > Room + readPos /\ writePos' = Buffered /\ readPos' = 0 /\ UNCHANGED buf

MakeRoom ==
    /\ Reading
    /\ ~filling
    /\ Buffered < Want
    /\ CheckAndMakeRoom
    /\ filling' = TRUE
    /\ UNCHANGED <<world, now, conn, client, got, stage, body, deadline>>

(* conn.Read returns k bytes. *)
ConnRead(k) ==
    /\ filling
    /\ Buffered < Want
    /\ now < deadline
    /\ k <= Room
    /\ got + k <= sent
    /\ buf' = [i \in 0 .. BufSize - 1 |->
                 IF i \in writePos .. writePos + k - 1 THEN got + 1 + i - writePos ELSE buf[i]]
    /\ writePos' = writePos + k
    /\ got' = got + k
    /\ UNCHANGED <<world, now, conn, client, readPos, server>>

(* Without room conn.Read returns nothing and no error, again and again. *)
ConnReadNothing ==
    /\ filling
    /\ Buffered < Want
    /\ Room = 0
    /\ UNCHANGED handshakeVars

(* The deadline has passed or the connection is broken: the handshake ends *)
(* with an error and the connection is closed.                             *)
ConnReadFail ==
    /\ filling
    /\ Buffered < Want
    /\ Room > 0
    /\ now >= deadline \/ conn = "broken"
    /\ stage' = "refused"
    /\ filling' = FALSE
    /\ UNCHANGED <<world, now, conn, client, reader, body, deadline>>

(* Mutant: what was read beyond the wanted bytes is thrown away. *)
ReadDoneAll ==
    /\ Reading
    /\ Buffered >= Want
    /\ readPos' = writePos
    /\ filling' = FALSE
    /\ IF stage = "head"
         THEN stage' = "body" /\ UNCHANGED body
         ELSE stage' = "verify" /\ body' = [i \in 1 .. Want |-> buf[readPos + i - 1]]
    /\ UNCHANGED <<world, now, conn, client, got, buf, writePos, deadline>>

(* Read has what it wants.  The check of the length of the body, which     *)
(* looks at the error of the read before it, never stops the handshake.    *)
ReadDone ==
    /\ Reading
    /\ Buffered >= Want
    /\ readPos' = readPos + Want
    /\ filling' = FALSE
    /\ IF stage = "head"
         THEN stage' = "body" /\ UNCHANGED body
         ELSE stage' = "verify" /\ body' = [i \in 1 .. Want |-> buf[readPos + i - 1]]
    /\ UNCHANGED <<world, now, conn, client, got, buf, writePos, deadline>>

-----------------------------------------------------------------------------
(* ServerHandshake *)

(* Mutant: no read deadline. *)
ServerHandshakeForever ==
    /\ stage = "accept"
    /\ deadline' = MaxTime + 1
    /\ stage' = "head"
    /\ UNCHANGED <<world, now, conn, client, reader, filling, body>>

ServerHandshake ==
    /\ stage = "accept"
    /\ deadline' = now + Patience
    /\ stage' = "head"
    /\ UNCHANGED <<world, now, conn, client, reader, filling, body>>

(* Mutant: the signature of the current second counts as one from the      *)
(* future.                                                                 *)
VerifyTimestampSigStrict == now - timestamp <= Window /\ now > timestamp

(* A body that is not the one the client wrote has no valid signature. *)
VerifyTimestampSig == now - timestamp <= Window /\ now >= timestamp

Verify ==
    /\ stage = "verify"
    /\ stage' = IF body = Exact /\ VerifyTimestampSig THEN "accepted" ELSE "refused"
    /\ UNCHANGED <<world, now, conn, client, reader, filling, body, deadline>>

Ended == stage \in {"accepted", "refused"}

(* The connection now belongs to the transport, or is closed. *)
Done ==
    /\ Ended
    /\ UNCHANGED handshakeVars

ServerStep ==
    \/ MakeRoom \/ ReadDone \/ ConnReadFail \/ Verify
    \/ \E k \in 1 .. BufSize : ConnRead(k)

HandshakeNext ==
    \/ Tick \/ Break \/ ClientHandshake \/ ClientPreface
    \/ ServerHandshake \/ ServerStep \/ ConnReadNothing \/ Done

HandshakeSpec == HandshakeInit /\ [][HandshakeNext]_handshakeVars

(* Time passes, the server keeps reading, and what was sent on an unbroken *)
(* connection arrives.                                                     *)
HandshakeFairSpec ==
    /\ HandshakeSpec
    /\ WF_handshakeVars(Tick)
    /\ WF_handshakeVars(ServerHandshake)
    /\ WF_handshakeVars(ServerStep)

-----------------------------------------------------------------------------
(* Properties *)

(* The positions of the ConnReader stay inside its buffer, and everything  *)
(* in ServerHandshake keeps its type.                                      *)
HandshakeTypeOK ==
    /\ bodyLen \in Bodies
    /\ skew \in -MaxSkew .. MaxSkew
    /\ now \in 0 .. MaxTime
    /\ conn \in {"up", "broken"}
    /\ timestamp \in Int
    /\ sent \in Nat
    /\ got \in Nat
    /\ buf \in [0 .. BufSize - 1 -> Nat]
    /\ readPos \in 0 .. writePos
    /\ writePos \in 0 .. BufSize
    /\ stage \in {"accept", "head", "body", "verify", "accepted", "refused"}
    /\ filling \in BOOLEAN
    /\ deadline \in 0 .. MaxTime

(* A body of at most half the buffer.  (A real one has about 120 bytes.) *)
Fits == bodyLen + bodyLen <= BufSize + 1

(* ConnReader.Read returns the bytes of the body, in their order and       *)
(* without those of the head, however the network cut the stream into      *)
(* pieces: as long as the body fits, CheckAndMakeRoom never gets to the    *)
(* branch that loses the new buffer.                                       *)
ExactRead == Fits /\ stage \in {"verify", "accepted"} => body = Exact

(* What the ConnReader took from the connection beyond the body is exactly *)
(* what its buffer still holds when ServerHandshake returns the bare       *)
(* connection: these bytes, and no others, are missing in the transport.   *)
OnlyReadAheadIsLost ==
    Fits /\ stage = "accepted" =>
        /\ got = Message + Buffered
        /\ \A i \in readPos .. writePos - 1 : buf[i] = Message + 1 + i - readPos

(* The handshake of a body that has room in the buffer comes to its end,   *)
(* with a client that is slow, silent or dead.                             *)
HandshakeEnds == bodyLen <= BufSize /\ stage = "head" ~> Ended

(* Neither the deadline nor the age of the signature is an obstacle yet.   *)
InTime ==
    /\ conn = "up"
    /\ now < deadline
    /\ timestamp # NotSigned => now - timestamp \in 0 .. Window

(* A client whose clock is right and whose bytes come in time is accepted, *)
(* also in the second in which it signed and in the last one that counts.  *)
PunctualIsAccepted ==
    [](Ended \/ InTime) => (Fits /\ sent > 0 ~> stage = "accepted")
=============================================================================
