--------------------------- MODULE RawTxStoreProofs --------------------------
(***************************************************************************)
(* A header means that all segments are there, for any number of workers,  *)
(* segments and crashes; and who read it, without a lock and while they    *)
(* were written, has the transaction.                                      *)
(* The lemmas on data (what SplitString and FlattenSeq compute) are proved *)
(* by induction: the set of the cases where they fail has no least member. *)
(***************************************************************************)
EXTENDS RawTxStore, FiniteSetTheorems, WellFoundedInduction, TLAPS

(* Every set of numbers that is not empty has a least one: the induction   *)
(* of the lemmas on data.                                                  *)
LEMMA NatLeast ==
    ASSUME NEW T \in SUBSET Nat, T # {}
    PROVE  \E x \in T : \A y \in T : x <= y
<1> DEFINE R == OpToRel(<, Nat)
<1>1. IsWellFoundedOn(R, Nat)
  BY NatLessThanWellFounded
<1>2. \A x, y \in Nat : x < y => <<x, y>> \in R
  BY DEF OpToRel
<1> HIDE DEF R
<1>3. PICK x \in T : \A y \in T : ~(<<y, x>> \in R)
  BY <1>1, WFMin, Zenon
<1>4. \A y \in T : ~(y < x)
  BY <1>2, <1>3
<1>5. QED
  BY <1>4

(* Products, for which the provers need a hand. *)
LEMMA Products ==
    ASSUME NEW l \in Nat \ {0}
    PROVE  /\ \A a, b \in Nat : a <= b => a * l <= b * l
           /\ \A a \in Nat : a <= a * l
           /\ \A a \in Nat : a * l \in Nat /\ (a + 1) * l = a * l + l
           /\ \A a \in Nat \ {0} : (a - 1) * l \in Nat /\ a * l = (a - 1) * l + l
<1>1. \A a, b \in Nat : a * b \in Nat
  OBVIOUS
<1>2. ASSUME NEW a \in Nat, NEW b \in Nat, a <= b PROVE a * l <= b * l
  <2>1. (b - a) * l \in Nat
    BY <1>1, <1>2
  <2>2. (b - a) * l = b * l - a * l
    OBVIOUS
  <2>3. a * l \in Nat /\ b * l \in Nat
    BY <1>1
  <2>4. QED
    BY <2>1, <2>2, <2>3
<1>3. ASSUME NEW a \in Nat PROVE a <= a * l
  <2>1. a * (l - 1) \in Nat /\ a * l \in Nat
    BY <1>1
  <2>2. a * (l - 1) = a * l - a
    OBVIOUS
  <2>3. QED
    BY <2>1, <2>2
<1>4. ASSUME NEW a \in Nat PROVE a * l \in Nat /\ (a + 1) * l = a * l + l
  BY <1>1
<1>5. ASSUME NEW a \in Nat \ {0} PROVE (a - 1) * l \in Nat /\ a * l = (a - 1) * l + l
  <2>1. a - 1 \in Nat
    OBVIOUS
  <2>2. (a - 1) * l \in Nat
    BY <1>1, <2>1
  <2>3. QED
    BY <2>2
<1>6. QED
  BY <1>2, <1>3, <1>4, <1>5

(* The loop of SplitString cuts n digits into full segments and one that   *)
(* is not empty.                                                           *)
LEMMA FullSegments ==
    ASSUME NEW n \in Nat \ {0}, NEW l \in Nat \ {0}
    PROVE  LET full == Cardinality({k \in 1 .. n : k * l < n})
           IN  full \in Nat /\ full * l < n /\ n <= (full + 1) * l
<1> DEFINE K == {k \in 1 .. n : k * l < n}
           T == {k \in Nat : n <= k * l}
<1>1. n \in T
  BY Products
<1>2. PICK m \in T : \A k \in T : m <= k
  BY <1>1, NatLeast
<1>3. m \in Nat \ {0} /\ n <= m * l /\ m <= n
  BY <1>1, <1>2
<1>4. K = 1 .. m - 1
  <2>1. ASSUME NEW k \in K PROVE k \in 1 .. m - 1
    <3>1. k \in Nat /\ ~(m * l <= k * l)
      BY <1>3, <2>1, Products
    <3>2. ~(m <= k)
      BY <1>3, <3>1, Products
    <3>3. QED
      BY <1>3, <3>2
  <2>2. ASSUME NEW k \in 1 .. m - 1 PROVE k \in K
    <3>1. k \notin T /\ k \in 1 .. n
      BY <1>2, <1>3
    <3>2. QED
      BY <3>1, Products
  <2>3. QED
    BY <2>1, <2>2
<1>5. Cardinality(K) = m - 1
  <2>1. 1 \in Int /\ m - 1 \in Int
    BY <1>3
  <2>2. Cardinality(1 .. m - 1) = IF 1 > m - 1 THEN 0 ELSE m - 1 - 1 + 1
    BY <2>1, FS_Interval, Zenon
  <2>3. Cardinality(1 .. m - 1) = m - 1
    <3> DEFINE c == Cardinality(1 .. m - 1)
    <3>1. c = IF 1 > m - 1 THEN 0 ELSE m - 1 - 1 + 1
      BY <2>2
    <3> HIDE DEF c
    <3>2. c = m - 1
      BY <1>3, <3>1
    <3>3. QED
      BY <3>2 DEF c
  <2>4. QED
    BY <1>4, <2>3
<1>6. (m - 1) * l < n
  <2>1. m - 1 \in Nat /\ m - 1 \notin T
    BY <1>2, <1>3
  <2>2. QED
    BY <2>1, Products
<1>7. QED
  BY <1>3, <1>5, <1>6

(* The piece of a transaction of n digits behind its first a digits. *)
Piece(a, b) == [j \in 1 .. b - a |-> a + j]

(* SubSeq cuts a piece out. *)
LEMMA Pieces ==
    ASSUME NEW n \in Nat, NEW a \in Nat, NEW b \in Nat, a < b, b <= n
    PROVE  /\ SubSeq([i \in 1 .. n |-> i], a + 1, b) = Piece(a, b)
           /\ Piece(a, b) \in Seq(Nat)
<1> DEFINE s == [i \in 1 .. n |-> i]
<1>1. s \in Seq(Nat) /\ Len(s) = n
  OBVIOUS
<1>2. SubSeq(s, a + 1, b) = [j \in 1 .. b - a |-> s[a + j]]
  <2>1. SubSeq(s, a + 1, b) = [j \in 1 .. b - (a + 1) + 1 |-> s[j + (a + 1) - 1]]
    BY <1>1
  <2>2. QED
    BY <2>1
<1>3. \A j \in 1 .. b - a : s[a + j] = a + j
  OBVIOUS
<1>4. Piece(a, b) \in Seq(Nat) /\ Len(Piece(a, b)) = b - a
  BY DEF Piece
<1>5. QED
  BY <1>2, <1>3, <1>4 DEF Piece

(* Pieces that meet make one. *)
LEMMA PiecesJoin ==
    ASSUME NEW a \in Nat, NEW b \in Nat, a < b
    PROVE  Piece(0, a) \o Piece(a, b) = Piece(0, b)
<1>1. Piece(a, b) \in Seq(Nat) /\ Len(Piece(a, b)) = b - a
  BY DEF Piece
<1>2. Piece(0, a) \in Seq(Nat) /\ Len(Piece(0, a)) = a
  BY DEF Piece
<1>3. QED
  BY <1>1, <1>2 DEF Piece

(* What the segments of the transaction are. *)
LEMMA SegmentsAre ==
    ASSUME StoreAssumption, size \in Sizes
    PROVE  \E m \in Nat :
               /\ m * MAX_SEGMENT_SIZE < size
               /\ Segments \in Seq(Seq(Nat))
               /\ Len(Segments) = m + 1
               /\ \A i \in 1 .. m : Segments[i] = Piece((i - 1) * MAX_SEGMENT_SIZE, i * MAX_SEGMENT_SIZE)
               /\ Segments[m + 1] = Piece(m * MAX_SEGMENT_SIZE, size)
<1> DEFINE l == MAX_SEGMENT_SIZE
           full == Cardinality({k \in 1 .. size : k * l < size})
           head == [i \in 1 .. full |-> SubSeq(RawTx, (i - 1) * l + 1, i * l)]
           rest == SubSeq(RawTx, full * l + 1, size)
<1>1. size \in Nat \ {0} /\ l \in Nat \ {0}
  BY DEF StoreAssumption
<1>2. RawTx \in Seq(Nat) /\ Len(RawTx) = size
  BY <1>1 DEF RawTx
<1>3. full \in Nat /\ full * l < size
  BY <1>1, FullSegments
<1>4. full * l \in Nat
  BY <1>1, <1>3, Products
<1>5. Segments = head \o <<rest>>
  <2>1. Segments = head \o (IF full * l # size THEN <<rest>> ELSE << >>)
    BY <1>2, Zenon DEF Segments, SplitString
  <2>2. full * l # size
    BY <1>1, <1>3, <1>4
  <2>3. QED
    BY <2>1, <2>2, Zenon
<1>6. \A i \in 1 .. full : head[i] = Piece((i - 1) * l, i * l) /\ head[i] \in Seq(Nat)
  <2> SUFFICES ASSUME NEW i \in 1 .. full
               PROVE  head[i] = Piece((i - 1) * l, i * l) /\ head[i] \in Seq(Nat)
    OBVIOUS
  <2>1. i \in Nat \ {0} /\ i <= full /\ head[i] = SubSeq(RawTx, (i - 1) * l + 1, i * l)
    <3>1. head[i] = SubSeq(RawTx, (i - 1) * l + 1, i * l)
      BY Zenon
    <3> HIDE DEF head, full
    <3>2. QED
      BY <1>3, <3>1
  <2>2. (i - 1) * l \in Nat /\ i * l \in Nat /\ i * l = (i - 1) * l + l /\ i * l <= full * l
    BY <1>1, <1>3, <2>1, Products
  <2> HIDE DEF head, full
  <2> DEFINE a == (i - 1) * l
             b == i * l
  <2>3. a \in Nat /\ b \in Nat /\ a < b /\ b <= size
    BY <1>1, <1>3, <1>4, <2>2
  <2> HIDE DEF a, b
  <2>4. SubSeq(RawTx, a + 1, b) = Piece(a, b) /\ Piece(a, b) \in Seq(Nat)
    <3>1. size \in Nat
      BY <1>1
    <3>2. QED
      BY <2>3, <3>1, Pieces, Zenon DEF RawTx
  <2>5. QED
    BY <2>1, <2>4 DEF a, b
<1>7. rest = Piece(full * l, size) /\ rest \in Seq(Nat)
  <2> DEFINE a == full * l
  <2>1. a \in Nat /\ a < size
    BY <1>3, <1>4
  <2> HIDE DEF a
  <2>2. SubSeq(RawTx, a + 1, size) = Piece(a, size) /\ Piece(a, size) \in Seq(Nat)
    <3>1. size \in Nat /\ size <= size
      BY <1>1
    <3>2. QED
      BY <2>1, <3>1, Pieces, Zenon DEF RawTx
  <2>3. QED
    BY <2>2 DEF a
<1>8. head \in Seq(Seq(Nat)) /\ Len(head) = full
  <2>1. DOMAIN head = 1 .. full /\ head = [i \in 1 .. full |-> head[i]]
    OBVIOUS
  <2> HIDE DEF head, full
  <2>2. QED
    BY <1>3, <1>6, <2>1
<1> HIDE DEF head, rest, full
<1>9. /\ Segments \in Seq(Seq(Nat))
      /\ Len(Segments) = full + 1
      /\ \A i \in 1 .. full : Segments[i] = head[i]
      /\ Segments[full + 1] = rest
  <2>1. full \in Nat /\ Segments = Append(head, rest)
    BY <1>3, <1>5
  <2>2. head \in Seq(Seq(Nat)) /\ Len(head) = full /\ rest \in Seq(Nat)
    BY <1>7, <1>8
  <2>3. Append(head, rest) \in Seq(Seq(Nat)) /\ Len(Append(head, rest)) = full + 1
    BY <2>1, <2>2
  <2>4. \A i \in 1 .. full : Append(head, rest)[i] = head[i]
    BY <2>1, <2>2
  <2>5. Append(head, rest)[full + 1] = rest
    BY <2>1, <2>2
  <2>6. QED
    BY <2>1, <2>3, <2>4, <2>5
<1>10. QED
  BY <1>3, <1>6, <1>7, <1>9

(* What FlattenSeq computes, by induction on the segments. *)
LEMMA FlattenIs ==
    ASSUME NEW s, Len(s) \in Nat \ {0},
           NEW g, g = [i \in 1 .. Len(s) |-> IF i = 1 THEN s[i] ELSE g[i - 1] \o s[i]]
    PROVE  FlattenSeq(s) = g[Len(s)]
<1> DEFINE Flat(h) == h = [i \in 1 .. Len(s) |-> IF i = 1 THEN s[i] ELSE h[i - 1] \o s[i]]
           flatten == CHOOSE h : Flat(h)
<1>1. Flat(flatten)
  <2>1. Flat(g)
    OBVIOUS
  <2> HIDE DEF Flat
  <2>2. QED
    BY <2>1, Zenon
<1>2. FlattenSeq(s) = flatten[Len(s)]
  BY Zenon DEF FlattenSeq
<1> HIDE DEF flatten
<1> DEFINE C == {i \in 1 .. Len(s) : flatten[i] # g[i]}
<1>3. C = {}
  <2> SUFFICES ASSUME C # {} PROVE FALSE
    OBVIOUS
  <2>1. PICK i \in C : \A k \in C : i <= k
    <3>1. C \in SUBSET Nat
      OBVIOUS
    <3> HIDE DEF C
    <3>2. QED
      BY <3>1, NatLeast
  <2>2. i \in 1 .. Len(s) /\ flatten[i] # g[i]
    OBVIOUS
  <2>3. /\ flatten[i] = IF i = 1 THEN s[i] ELSE flatten[i - 1] \o s[i]
        /\ g[i] = IF i = 1 THEN s[i] ELSE g[i - 1] \o s[i]
    BY <1>1, <2>2, Zenon
  <2>4. i # 1
    BY <2>2, <2>3
  <2>5. i - 1 \in 1 .. Len(s) /\ i - 1 \notin C
    <3> HIDE DEF C
    <3> DEFINE n == Len(s)
    <3>1. n \in Nat /\ i \in 1 .. n /\ i # 1
      BY <2>2, <2>4
    <3> HIDE DEF n
    <3>2. i \in Nat /\ i - 1 \in 1 .. n /\ ~(i <= i - 1)
      BY <3>1
    <3>3. QED
      BY <2>1, <3>2 DEF n
  <2>6. flatten[i - 1] = g[i - 1]
    BY <2>5
  <2>7. QED
    BY <2>2, <2>3, <2>4, <2>6, Zenon
<1>4. Len(s) \in 1 .. Len(s)
  OBVIOUS
<1>5. flatten[Len(s)] = g[Len(s)]
  BY <1>3, <1>4
<1>6. QED
  BY <1>2, <1>5

(* The segments put together are the transaction. *)
LEMMA SegmentsAreWhole ==
    ASSUME StoreAssumption, size \in Sizes
    PROVE  FlattenSeq(Segments) = RawTx
<1> DEFINE l == MAX_SEGMENT_SIZE
<1>1. PICK m \in Nat : /\ m * l < size
                       /\ Segments \in Seq(Seq(Nat))
                       /\ Len(Segments) = m + 1
                       /\ \A i \in 1 .. m : Segments[i] = Piece((i - 1) * l, i * l)
                       /\ Segments[m + 1] = Piece(m * l, size)
  BY SegmentsAre
<1>2. size \in Nat \ {0} /\ l \in Nat \ {0}
  BY DEF StoreAssumption
<1> DEFINE End(i) == IF i = m + 1 THEN size ELSE i * l
           g == [i \in 1 .. m + 1 |-> Piece(0, End(i))]
<1>3. \A i \in 1 .. m + 1 : /\ End(i - 1) \in Nat /\ End(i) \in Nat /\ End(i - 1) < End(i) /\ End(i) <= size
                            /\ Segments[i] = Piece(End(i - 1), End(i))
  <2> SUFFICES ASSUME NEW i \in 1 .. m + 1
               PROVE  /\ End(i - 1) \in Nat /\ End(i) \in Nat /\ End(i - 1) < End(i) /\ End(i) <= size
                      /\ Segments[i] = Piece(End(i - 1), End(i))
    OBVIOUS
  <2>1. i \in Nat \ {0} /\ i - 1 # m + 1 /\ End(i - 1) = (i - 1) * l
    OBVIOUS
  <2>2. (i - 1) * l \in Nat /\ i * l \in Nat /\ i * l = (i - 1) * l + l /\ m * l \in Nat
    BY <1>2, <2>1, Products
  <2>3. CASE i = m + 1
    BY <1>1, <1>2, <2>1, <2>2, <2>3
  <2>4. CASE i # m + 1
    <3>1. End(i) = i * l /\ i \in 1 .. m
      BY <2>4
    <3>2. i * l <= m * l
      BY <1>2, <2>1, <3>1, Products
    <3>3. (i - 1) * l < i * l /\ i * l <= size
      <4> DEFINE a == (i - 1) * l
                 b == i * l
                 c == m * l
      <4>1. a \in Nat /\ b = a + l /\ c \in Nat /\ b <= c /\ c < size
        BY <1>1, <2>2, <3>2
      <4> HIDE DEF a, b, c
      <4>2. a < b /\ b <= size
        BY <1>2, <4>1
      <4>3. QED
        BY <4>2 DEF a, b
    <3>4. QED
      BY <1>1, <2>1, <2>2, <3>1, <3>3
  <2>5. QED
    BY <2>3, <2>4
<1>4. g = [i \in 1 .. Len(Segments) |-> IF i = 1 THEN Segments[i] ELSE g[i - 1] \o Segments[i]]
  <2>1. ASSUME NEW i \in 1 .. m + 1
        PROVE  g[i] = IF i = 1 THEN Segments[i] ELSE g[i - 1] \o Segments[i]
    <3> g[i] = Piece(0, End(i))
      OBVIOUS
    <3>1. CASE i = 1
      <4>1. End(i - 1) = 0
        BY <1>2, <3>1
      <4>2. QED
        BY <1>3, <3>1, <4>1
    <3>2. CASE i # 1
      <4>1. i - 1 \in 1 .. m + 1 /\ g[i - 1] = Piece(0, End(i - 1))
        BY <3>2
      <4> DEFINE a == End(i - 1)
                 b == End(i)
      <4>2. a \in Nat /\ b \in Nat /\ a < b /\ Segments[i] = Piece(a, b)
        BY <1>3
      <4> HIDE DEF a, b, g, End
      <4>3. Piece(0, a) \o Piece(a, b) = Piece(0, b)
        BY <4>2, PiecesJoin, Zenon
      <4>4. QED
        BY <3>2, <4>1, <4>2, <4>3 DEF a, b
    <3>3. QED
      BY <3>1, <3>2
  <2>2. g = [i \in 1 .. m + 1 |-> g[i]]
    OBVIOUS
  <2> HIDE DEF g, End
  <2>3. QED
    BY <1>1, <2>1, <2>2
<1>5. g[m + 1] = RawTx
  <2>1. g[m + 1] = Piece(0, size)
    OBVIOUS
  <2>2. Piece(0, size) = RawTx
    BY <1>2 DEF Piece, RawTx
  <2>3. QED
    BY <2>1, <2>2
<1> HIDE DEF g
<1>6. FlattenSeq(Segments) = g[Len(Segments)]
  <2>1. Len(Segments) \in Nat \ {0}
    BY <1>1
  <2>2. QED
    BY <1>4, <2>1, FlattenIs, Zenon
<1>7. QED
  BY <1>1, <1>5, <1>6

(* A transaction has a finite number of segments. *)
LEMMA SegmentsLen ==
    ASSUME StoreAssumption, size \in Sizes
    PROVE  Len(Segments) \in Nat
BY SegmentsAre

(* Who inserts holds the read lock, and has the segments before the next   *)
(* one behind him.                                                         *)
InsertInv ==
    \A w \in Worker : pc[w] = "insert" =>
        /\ ~clearing
        /\ next[w] <= Len(Segments)
        /\ \A i \in SegmentIds : i < next[w] => i \in docs

StoreInv == TypeOK /\ InsertInv /\ HeaderIsWhole

(* The first state. *)
LEMMA StoreInit == ASSUME StoreAssumption, Init PROVE StoreInv
<1>1. size \in Sizes
  BY DEF Init
<1>2. Len(Segments) \in Nat
  BY <1>1, SegmentsLen
<1>3. TypeOK
  <2>1. /\ next \in [Worker -> 0 .. Len(Segments) + 1]
        /\ count \in 0 .. Limit
        /\ rounds \in 0 .. MaxRounds
    BY <1>2 DEF Init, StoreAssumption
  <2>2. clearing \in BOOLEAN /\ completed \in BOOLEAN /\ torn \in BOOLEAN /\ calm \in BOOLEAN
    BY Zenon DEF Init
  <2>3. /\ docs \subseteq Documents
        /\ pc \in [Worker -> {"idle", "lack", "insert"}]
        /\ reading \in {"idle", "rows", "done"}
        /\ at \in Documents \cup {BeforeAll}
    BY DEF Init
  <2>4. QED
    BY <1>1, <2>1, <2>2, <2>3 DEF TypeOK
<1>4. InsertInv /\ HeaderIsWhole
  BY DEF Init, InsertInv, HeaderIsWhole, Stored
<1>5. QED
  BY <1>3, <1>4 DEF StoreInv

(* The length of the transaction does not change, nor do its segments. *)
LEMMA SameSegments ==
    ASSUME size' = size
    PROVE  /\ Segments' = Segments
           /\ SegmentIds' = SegmentIds
           /\ Documents' = Documents
BY DEF Segments, SegmentIds, Documents, RawTx

(* Every step keeps the types. *)
LEMMA TypeStep ==
    ASSUME StoreAssumption, TypeOK, InsertInv, [Next]_vars
    PROVE  TypeOK'
<1>1. size' = size
  BY DEF Next, vars, LookupTx, AddMsgTxInfo, Insert, AddFail, Lock, DeleteDone, DeleteFail, DeleteMsgTx,
         GetMsgTxInfo, ReadProgress, QueryDone, QueryAgain, NextRow, GetMsgTxInfoReturn, Crash
<1>2. Len(Segments) \in Nat
  BY SegmentsLen DEF TypeOK
<1> DEFINE Writing == /\ docs \subseteq Documents
                      /\ pc \in [Worker -> {"idle", "lack", "insert"}]
                      /\ next \in [Worker -> 0 .. Len(Segments) + 1]
           Reader == /\ reading \in {"idle", "rows", "done"}
                     /\ at \in Documents \cup {BeforeAll}
                     /\ count \in 0 .. Limit
                     /\ rounds \in 0 .. MaxRounds
           Flags == /\ clearing \in BOOLEAN
                    /\ completed \in BOOLEAN
                    /\ torn \in BOOLEAN
                    /\ calm \in BOOLEAN
<1>3. Writing'
  <2> USE <1>1, <1>2, SameSegments
  <2>1. ASSUME NEW w \in Worker, LookupTx(w) \/ AddMsgTxInfo(w) \/ AddFail(w) PROVE Writing'
    BY <2>1 DEF TypeOK, LookupTx, AddMsgTxInfo, AddFail
  <2>2. ASSUME NEW w \in Worker, Insert(w) PROVE Writing'
    <3>1. next[w] \in 0 .. Len(Segments)
      BY <2>2 DEF TypeOK, InsertInv, Insert
    <3>2. QED
      BY <2>2, <3>1 DEF TypeOK, Insert, Documents
  <2>3. CASE Crash
    BY <2>3 DEF TypeOK, Crash
  <2>4. ASSUME NEW i \in docs, DeleteMsgTx(i) PROVE Writing'
    BY <2>4 DEF TypeOK, DeleteMsgTx
  <2>5. CASE UNCHANGED <<docs, pc, next>>
    BY <2>5 DEF TypeOK
  <2>6. QED
    BY <2>1, <2>2, <2>3, <2>4, <2>5
       DEF Next, vars, Lock, DeleteDone, DeleteFail, GetMsgTxInfo, ReadProgress, QueryDone, QueryAgain,
           NextRow, GetMsgTxInfoReturn
<1>4. Flags'
  <2> USE DEF TypeOK, query
  <2>1. ASSUME NEW w \in Worker, LookupTx(w) \/ AddMsgTxInfo(w) \/ Insert(w) \/ AddFail(w) PROVE Flags'
    BY <2>1, Zenon DEF LookupTx, AddMsgTxInfo, Insert, AddFail
  <2>2. CASE Lock \/ DeleteDone \/ DeleteFail
    <3>1. Stored = TRUE \/ Stored = FALSE
      BY DEF Stored
    <3>2. QED
      BY <2>2, <3>1, Zenon DEF Lock, DeleteDone, DeleteFail
  <2>3. CASE GetMsgTxInfo \/ QueryDone \/ QueryAgain \/ GetMsgTxInfoReturn
    BY <2>3, Zenon DEF GetMsgTxInfo, QueryDone, QueryAgain, GetMsgTxInfoReturn
  <2>4. ASSUME NEW i \in docs, NextRow(i) PROVE Flags'
    <3>1. completed' = TRUE \/ completed' = completed
      BY <2>4, Zenon DEF NextRow
    <3>2. QED
      BY <2>4, <3>1, Zenon DEF NextRow
  <2>5. CASE Crash \/ UNCHANGED vars
    BY <2>5, Zenon DEF Crash, vars, Stored
  <2>6. ASSUME NEW i \in docs, DeleteMsgTx(i) PROVE Flags'
    BY <2>6, Zenon DEF DeleteMsgTx
  <2> HIDE DEF Flags
  <2>7. QED
    BY <2>1, <2>2, <2>3, <2>4, <2>5, <2>6 DEF Next, ReadProgress
<1>5. Reader'
  <2> Documents' = Documents /\ Limit \in Nat /\ MaxRounds \in Nat
    BY <1>1, SameSegments DEF StoreAssumption
  <2> USE DEF TypeOK
  <2>1. ASSUME NEW i \in docs, NextRow(i) PROVE Reader'
    <3>1. at' = i /\ count < Limit /\ count' = count + 1 /\ UNCHANGED <<reading, rounds>>
      BY <2>1, Zenon DEF NextRow
    <3>2. QED
      BY <3>1
  <2>2. CASE QueryAgain
    BY <2>2 DEF QueryAgain
  <2>3. CASE GetMsgTxInfo
    BY <2>3 DEF GetMsgTxInfo
  <2>4. CASE UNCHANGED <<at, count, rounds>> /\ reading' \in {reading, "idle", "done"}
    BY <2>4
  <2>5. QED
    BY <2>1, <2>2, <2>3, <2>4
       DEF Next, vars, query, LookupTx, AddMsgTxInfo, Insert, AddFail, Lock, DeleteDone, DeleteFail,
           DeleteMsgTx, ReadProgress, QueryDone, GetMsgTxInfoReturn, Crash
<1>6. QED
  BY <1>1, <1>3, <1>4, <1>5 DEF TypeOK

(* One step per action that writes documents, or holds the lock. *)
LEMMA StoreStep ==
    ASSUME StoreAssumption, StoreInv, [Next]_vars
    PROVE  InsertInv' /\ HeaderIsWhole'
<1> USE DEF StoreInv
<1>1. size' = size
  BY DEF Next, vars, LookupTx, AddMsgTxInfo, Insert, AddFail, Lock, DeleteDone, DeleteFail, DeleteMsgTx,
         GetMsgTxInfo, ReadProgress, QueryDone, QueryAgain, NextRow, GetMsgTxInfoReturn, Crash
<1>2. Len(Segments) \in Nat
  BY SegmentsLen DEF TypeOK
<1>3. Len(Segments)' = Len(Segments) /\ SegmentIds' = SegmentIds /\ Documents' = Documents
  BY <1>1, SameSegments
<1>4. ASSUME NEW w \in Worker, LookupTx(w) \/ AddFail(w)
      PROVE  InsertInv' /\ HeaderIsWhole'
  BY <1>3, <1>4 DEF LookupTx, AddFail, TypeOK, InsertInv, HeaderIsWhole, Stored
<1>5. ASSUME NEW w \in Worker, AddMsgTxInfo(w)
      PROVE  InsertInv' /\ HeaderIsWhole'
  BY <1>2, <1>3, <1>5 DEF AddMsgTxInfo, TypeOK, InsertInv, HeaderIsWhole, Stored, SegmentIds
<1>6. ASSUME NEW w \in Worker, Insert(w)
      PROVE  InsertInv' /\ HeaderIsWhole'
  <2>1. next[w] \in 0 .. Len(Segments) /\ \A i \in SegmentIds : i < next[w] => i \in docs
    BY <1>2, <1>6 DEF Insert, InsertInv, TypeOK
  <2>2. SegmentIds = 0 .. Len(Segments) - 1 /\ Documents = SegmentIds \cup {TX_INFO_INDEX}
    BY DEF SegmentIds, Documents
  <2>3. TX_INFO_INDEX \notin SegmentIds
    BY <1>2, <2>2 DEF TX_INFO_INDEX
  <2>4. CASE next[w] \in SegmentIds
    <3>1. docs' = docs \cup {next[w]}
      BY <1>6, <2>4 DEF Insert
    <3>2. InsertInv'
      BY <1>2, <1>3, <1>6, <2>1, <2>2, <2>4, <3>1 DEF Insert, InsertInv, TypeOK
    <3>3. HeaderIsWhole'
      BY <1>3, <1>6, <2>2, <2>3, <2>4, <3>1 DEF Insert, HeaderIsWhole, Stored
    <3>4. QED
      BY <3>2, <3>3
  <2>5. CASE next[w] \notin SegmentIds
    <3>1. docs' = docs \cup {TX_INFO_INDEX}
      BY <1>6, <2>5 DEF Insert
    <3>2. SegmentIds \subseteq docs
      BY <1>2, <2>1, <2>2, <2>5
    <3>3. InsertInv'
      BY <1>2, <1>3, <1>6, <2>5, <3>1 DEF Insert, InsertInv, TypeOK
    <3>4. HeaderIsWhole'
      BY <1>3, <2>2, <3>1, <3>2 DEF HeaderIsWhole, TypeOK
    <3>5. QED
      BY <3>3, <3>4
  <2>6. QED
    BY <2>4, <2>5
<1>7. CASE Lock
  BY <1>3, <1>7 DEF Lock, InsertInv, HeaderIsWhole, Stored
<1>8. ASSUME NEW i \in docs, DeleteMsgTx(i)
      PROVE  InsertInv' /\ HeaderIsWhole'
  BY <1>3, <1>8 DEF DeleteMsgTx, InsertInv, HeaderIsWhole
<1>9. CASE DeleteDone \/ DeleteFail
  BY <1>3, <1>9 DEF DeleteDone, DeleteFail, InsertInv, HeaderIsWhole, Stored
<1>10. CASE Crash
  BY <1>3, <1>10 DEF Crash, InsertInv, HeaderIsWhole, Stored
<1>11. CASE UNCHANGED <<docs, pc, next, clearing, torn>>
  BY <1>3, <1>11 DEF InsertInv, HeaderIsWhole, Stored
<1>12. QED
  BY <1>4, <1>5, <1>6, <1>7, <1>8, <1>9, <1>10, <1>11
     DEF Next, vars, GetMsgTxInfo, ReadProgress, QueryDone, QueryAgain, NextRow, GetMsgTxInfoReturn

(* The documents, the workers and the locals of GetMsgTxInfo keep their    *)
(* types, and a header that no interrupted DeleteMsgTx left has all its    *)
(* segments beside it.                                                     *)
THEOREM StoreInvariance == Spec => []StoreInv
<1>1. Init => StoreInv
  BY StoreAssumption, StoreInit
<1>2. StoreInv /\ [Next]_vars => StoreInv'
  BY StoreAssumption, TypeStep, StoreStep DEF StoreInv
<1>3. QED
  BY <1>1, <1>2, PTL DEF Spec

(* AddMsgTxInfo, run by any number of workers with errors and crashes, and *)
(* DeleteMsgTx never make a header stand without one of its segments.      *)
THEOREM HeaderIsWholeAlways == Spec => []HeaderIsWhole
<1>1. StoreInv => HeaderIsWhole
  BY DEF StoreInv
<1>2. QED
  BY <1>1, StoreInvariance, PTL

-----------------------------------------------------------------------------
(* What a read has, while it runs.  Nothing is removed from under a calm   *)
(* read, so that its header comes with all documents, and it meets them    *)
(* one by one: its cursor and its count advance together.                  *)
CalmInv ==
    reading # "idle" /\ calm =>
        /\ ~clearing /\ ~torn
        /\ completed => docs = Documents /\ at = count - 2

(* A cursor does not meet more rows than it has passed; fewer than half a  *)
(* page of documents therefore make one query, and its parts are the       *)
(* segments in their order.                                                *)
PartsInv ==
    reading # "idle" =>
        /\ count <= at + 2
        /\ ~Long /\ at = BeforeAll => parts = << >>
        /\ ~Long /\ calm /\ completed => parts = [i \in 1 .. at + 1 |-> Segments[i]]

(* It ends behind the last document, with less than half a page. *)
DoneInv ==
    reading = "done" /\ calm /\ completed => ~Long /\ at = Len(Segments) - 1

ReadInv == CalmInv /\ PartsInv /\ DoneInv

(* Documents are an interval, which the reader's numbers are compared to. *)
LEMMA DocumentsAre ==
    ASSUME StoreAssumption, size \in Sizes
    PROVE  /\ Len(Segments) \in Nat /\ Limit \in Nat \ {0} /\ Limit \div 2 \in Nat /\ Limit \div 2 <= Limit
           /\ Documents = -1 .. Len(Segments) - 1
           /\ Long <=> Len(Segments) + 1 >= Limit \div 2
<1> DEFINE n == Len(Segments)
<1>1. n \in Nat
  BY SegmentsLen
<1>2. Limit \in Nat \ {0} /\ Limit \div 2 \in Nat /\ Limit \div 2 <= Limit
  BY DEF StoreAssumption
<1>3. Documents = -1 .. n - 1
  BY <1>1 DEF Documents, SegmentIds, TX_INFO_INDEX
<1> HIDE DEF n
<1>4. Cardinality(-1 .. n - 1) = n + 1
  <2> DEFINE c == Cardinality(-1 .. n - 1)
  <2>1. -1 \in Int /\ n - 1 \in Int
    BY <1>1
  <2>2. c = IF -1 > n - 1 THEN 0 ELSE n - 1 - (-1) + 1
    BY <2>1, FS_Interval, Zenon
  <2> HIDE DEF c
  <2>3. c = n + 1
    BY <1>1, <2>2
  <2>4. QED
    BY <2>3 DEF c
<1>5. Long <=> n + 1 >= Limit \div 2
  BY <1>3, <1>4 DEF Long
<1>6. QED
  BY <1>1, <1>2, <1>3, <1>5 DEF n

(* One step of the cursor in a calm read. *)
LEMMA NextPart ==
    ASSUME NEW s, NEW S, s \in Seq(S), NEW k \in 0 .. Len(s) - 1
    PROVE  /\ Append([i \in 1 .. k |-> s[i]], s[k + 1]) = [i \in 1 .. k + 1 |-> s[i]]
           /\ [i \in 1 .. Len(s) |-> s[i]] = s
<1> DEFINE p == [i \in 1 .. k |-> s[i]]
<1>1. p \in Seq(S) /\ Len(p) = k
  OBVIOUS
<1>2. Append(p, s[k + 1]) = [i \in 1 .. k + 1 |-> IF i <= k THEN p[i] ELSE s[k + 1]]
  BY <1>1
<1>3. QED
  BY <1>2

(* Every step keeps what the reader has collected. *)
LEMMA ReadStep ==
    ASSUME StoreAssumption, StoreInv, ReadInv, [Next]_vars
    PROVE  ReadInv'
<1> DEFINE n == Len(Segments)
<1>1. size' = size
  BY DEF Next, vars, LookupTx, AddMsgTxInfo, Insert, AddFail, Lock, DeleteDone, DeleteFail, DeleteMsgTx,
         GetMsgTxInfo, ReadProgress, QueryDone, QueryAgain, NextRow, GetMsgTxInfoReturn, Crash
<1>2. size \in Sizes
  BY DEF StoreInv, TypeOK
<1>3. /\ n \in Nat /\ Limit \in Nat \ {0} /\ Limit \div 2 \in Nat /\ Limit \div 2 <= Limit
      /\ Documents = -1 .. n - 1
      /\ Long <=> n + 1 >= Limit \div 2
  BY <1>2, DocumentsAre
<1>4. Segments' = Segments /\ Documents' = Documents /\ Long' = Long
  BY <1>1, SameSegments DEF Long
<1>5. at \in -2 .. n - 1 /\ count \in Nat /\ docs \subseteq -1 .. n - 1
  BY <1>3 DEF StoreInv, TypeOK, BeforeAll
<1>6. \E S : Segments \in Seq(S)
  BY <1>2, SegmentsAre
<1>7. ASSUME UNCHANGED <<reading, at, count, parts, completed>>,
             reading # "idle" /\ calm' => calm /\ ~clearing' /\ ~torn' /\ docs \subseteq docs',
             docs' \subseteq Documents
      PROVE  ReadInv'
  BY <1>4, <1>7 DEF ReadInv, CalmInv, PartsInv, DoneInv
<1>8. docs' \subseteq Documents
  BY <1>4, TypeStep DEF StoreInv, TypeOK
<1>9. ASSUME NEW w \in Worker, LookupTx(w) \/ AddMsgTxInfo(w) \/ Insert(w) \/ AddFail(w)
      PROVE  ReadInv'
  <2>1. UNCHANGED <<clearing, reading, at, count, parts, completed, torn, calm>> /\ docs \subseteq docs'
    BY <1>9, Zenon DEF LookupTx, AddMsgTxInfo, Insert, AddFail, query
  <2>2. reading # "idle" /\ calm => ~clearing /\ ~torn
    BY DEF ReadInv, CalmInv
  <2>3. QED
    BY <1>7, <1>8, <2>1, <2>2, Zenon
<1>10. CASE Lock \/ DeleteDone \/ DeleteFail
  <2>1. UNCHANGED <<reading, at, count, parts, completed, docs>> /\ (clearing \/ ~calm')
    BY <1>10, Zenon DEF Lock, DeleteDone, DeleteFail, query
  <2>2. clearing => UNCHANGED calm
    BY <1>10, Zenon DEF Lock, DeleteDone, DeleteFail
  <2>3. reading # "idle" /\ calm => ~clearing
    BY DEF ReadInv, CalmInv
  <2>4. QED
    BY <1>7, <1>8, <2>1, <2>2, <2>3, Zenon
<1>11. ASSUME NEW i \in docs, DeleteMsgTx(i) PROVE ReadInv'
  <2>1. UNCHANGED <<reading, at, count, parts, completed, calm>> /\ clearing
    BY <1>11, Zenon DEF DeleteMsgTx, query
  <2>2. reading # "idle" /\ calm => ~clearing
    BY DEF ReadInv, CalmInv
  <2>3. QED
    BY <1>7, <1>8, <2>1, <2>2, Zenon
<1>12. CASE GetMsgTxInfo
  <2>1. /\ reading' = "rows" /\ at' = -2 /\ count' = 0 /\ parts' = << >> /\ ~completed'
        /\ UNCHANGED <<clearing, torn>> /\ (calm' => ~clearing /\ ~torn)
    BY <1>12, Zenon DEF GetMsgTxInfo, BeforeAll
  <2>2. QED
    BY <2>1 DEF ReadInv, CalmInv, PartsInv, DoneInv
<1>13. ASSUME NEW i \in docs, NextRow(i) PROVE ReadInv'
  <2>1. /\ reading = "rows" /\ i > at /\ at' = i /\ count' = count + 1
        /\ \A j \in docs : j > at => i <= j
        /\ UNCHANGED <<docs, clearing, reading, torn, calm>>
    BY <1>13, Zenon DEF NextRow
  <2>2. i = -1 => completed' /\ UNCHANGED parts
    BY <1>13, Zenon DEF NextRow, TX_INFO_INDEX
  <2>3. i # -1 => parts' = Append(parts, Segments[i + 1]) /\ UNCHANGED completed
    BY <1>13, Zenon DEF NextRow, TX_INFO_INDEX
  <2>4. i \in -1 .. n - 1
    BY <1>5
  <2>5. calm => ~clearing /\ ~torn
    BY <2>1 DEF ReadInv, CalmInv
  <2>6. count <= at + 2
    BY <2>1 DEF ReadInv, PartsInv
  <2>7. CASE i = -1
    <3>1. at = -2 /\ count = 0
      BY <1>5, <2>1, <2>6, <2>7
    <3>2. calm => docs = Documents
      BY <2>5, <2>7 DEF StoreInv, HeaderIsWhole, Stored, TX_INFO_INDEX
    <3>3. ~Long => parts' = << >>
      BY <2>1, <2>2, <2>7, <3>1 DEF ReadInv, PartsInv, BeforeAll
    <3>4. [j \in 1 .. i + 1 |-> Segments[j]] = << >>
      BY <2>7
    <3>5. CalmInv'
      BY <1>4, <2>1, <2>5, <2>7, <3>1, <3>2 DEF CalmInv
    <3>6. PartsInv'
      BY <1>4, <2>1, <2>7, <3>1, <3>3, <3>4 DEF PartsInv, BeforeAll
    <3>7. DoneInv'
      BY <2>1 DEF DoneInv
    <3>8. QED
      BY <3>5, <3>6, <3>7 DEF ReadInv
  <2>8. CASE i # -1
    <3>1. i \in 0 .. n - 1
      BY <1>3, <2>4, <2>8
    <3>2. completed /\ calm => docs = Documents /\ at = count - 2 /\ i = at + 1
      <4>1. completed /\ calm => docs = Documents /\ at = count - 2
        BY <2>1 DEF ReadInv, CalmInv
      <4>2. completed /\ calm => at + 1 \in docs
        BY <1>3, <1>5, <2>1, <2>4, <4>1
      <4>3. QED
        BY <1>5, <2>1, <2>4, <4>1, <4>2
    <3>3. completed /\ calm /\ ~Long => parts' = [j \in 1 .. i + 1 |-> Segments[j]]
      <4> SUFFICES ASSUME completed, calm, ~Long PROVE parts' = [j \in 1 .. i + 1 |-> Segments[j]]
        OBVIOUS
      <4>1. parts = [j \in 1 .. at + 1 |-> Segments[j]]
        BY <2>1 DEF ReadInv, PartsInv
      <4>2. parts = [j \in 1 .. i |-> Segments[j]]
        BY <3>2, <4>1
      <4>3. QED
        BY <1>6, <2>3, <2>8, <3>1, <4>2, NextPart
    <3>4. CalmInv'
      BY <1>4, <1>5, <2>1, <2>3, <2>5, <2>8, <3>2 DEF CalmInv
    <3>5. PartsInv'
      <4>1. count + 1 <= i + 2 /\ i # -2
        BY <1>5, <2>1, <2>6, <3>1
      <4>2. QED
        BY <1>4, <2>1, <2>3, <2>8, <3>3, <4>1 DEF PartsInv, BeforeAll
    <3>6. DoneInv'
      BY <2>1 DEF DoneInv
    <3>7. QED
      BY <3>4, <3>5, <3>6 DEF ReadInv
  <2>9. QED
    BY <2>7, <2>8
<1>14. CASE QueryDone
  <2>1. /\ reading = "rows" /\ reading' = "done" /\ count < Limit \div 2 /\ LastRow
        /\ UNCHANGED <<docs, clearing, at, count, parts, completed, torn, calm>>
    BY <1>14, Zenon DEF QueryDone
  <2>2. \A i \in docs : i <= at
    BY <1>3, <1>5, <2>1 DEF LastRow
  <2>3. calm /\ completed => docs = Documents /\ at = count - 2
    BY <2>1 DEF ReadInv, CalmInv
  <2>4. calm /\ completed => at = n - 1 /\ ~Long
    <3> SUFFICES ASSUME calm, completed PROVE at = n - 1 /\ ~Long
      OBVIOUS
    <3>1. n - 1 \in docs
      BY <1>3, <2>3
    <3>2. at = n - 1
      BY <1>3, <1>5, <2>2, <3>1
    <3>3. QED
      BY <1>3, <1>5, <2>1, <2>3, <3>2
  <2>5. CalmInv' /\ PartsInv'
    BY <1>4, <2>1 DEF ReadInv, CalmInv, PartsInv
  <2>6. DoneInv'
    BY <1>4, <2>1, <2>4 DEF DoneInv
  <2>7. QED
    BY <2>5, <2>6 DEF ReadInv
<1>15. CASE QueryAgain
  <2>1. /\ reading = "rows" /\ reading' = "rows" /\ count >= Limit \div 2 /\ at' = -2 /\ count' = 0
        /\ UNCHANGED <<docs, clearing, parts, completed, torn, calm>>
    BY <1>15, Zenon DEF QueryAgain, BeforeAll
  <2>2. Long
    BY <1>3, <1>5, <2>1 DEF ReadInv, PartsInv
  <2>3. CalmInv'
    BY <1>4, <2>1 DEF ReadInv, CalmInv
  <2>4. PartsInv'
    BY <1>4, <2>1, <2>2 DEF PartsInv
  <2>5. DoneInv'
    BY <2>1 DEF DoneInv
  <2>6. QED
    BY <2>3, <2>4, <2>5 DEF ReadInv
<1>16. CASE GetMsgTxInfoReturn \/ Crash
  <2>1. reading' = "idle"
    BY <1>16, Zenon DEF GetMsgTxInfoReturn, Crash
  <2>2. QED
    BY <2>1 DEF ReadInv, CalmInv, PartsInv, DoneInv
<1>17. CASE UNCHANGED vars
  <2>1. UNCHANGED <<clearing, reading, at, count, parts, completed, torn, calm, docs>>
    BY <1>17, Zenon DEF vars, query
  <2>2. reading # "idle" /\ calm => ~clearing /\ ~torn
    BY DEF ReadInv, CalmInv
  <2>3. QED
    BY <1>7, <1>8, <2>1, <2>2, Zenon
<1>18. QED
  BY <1>9, <1>10, <1>11, <1>12, <1>13, <1>14, <1>15, <1>16, <1>17 DEF Next, ReadProgress

(* The documents, the lock and the read together. *)
THEOREM ReadInvariance == Spec => [](StoreInv /\ ReadInv)
<1>1. Init => StoreInv /\ ReadInv
  BY StoreAssumption, StoreInit DEF Init, ReadInv, CalmInv, PartsInv, DoneInv
<1>2. (StoreInv /\ ReadInv) /\ [Next]_vars => (StoreInv /\ ReadInv)'
  BY StoreAssumption, TypeStep, StoreStep, ReadStep DEF StoreInv
<1>3. QED
  BY <1>1, <1>2, PTL DEF Spec

(* A call of GetMsgTxInfo that no DeleteMsgTx disturbs and that returns    *)
(* with the header has put together the bytes of the transaction, whatever *)
(* their number, the size of a segment, and the writers beside it.         *)
THEOREM ReadIsWholeAlways == Spec => []ReadIsWhole
<1>1. StoreInv /\ ReadInv => ReadIsWhole
  <2> SUFFICES ASSUME StoreInv, ReadInv, reading = "done", completed, calm
               PROVE  FlattenSeq(parts) = RawTx
    BY DEF ReadIsWhole
  <2>1. size \in Sizes
    BY DEF StoreInv, TypeOK
  <2>2. Len(Segments) \in Nat /\ \E S : Segments \in Seq(S)
    BY <2>1, SegmentsAre, StoreAssumption
  <2>3. ~Long /\ at = Len(Segments) - 1
    BY DEF ReadInv, DoneInv
  <2>4. parts = [i \in 1 .. at + 1 |-> Segments[i]]
    BY <2>3 DEF ReadInv, PartsInv
  <2>5. parts = [i \in 1 .. Len(Segments) |-> Segments[i]]
    BY <2>2, <2>3, <2>4
  <2>6. parts = Segments
    BY <2>2, <2>5
  <2>7. QED
    BY <2>1, <2>6, SegmentsAreWhole, StoreAssumption
<1>2. QED
  BY <1>1, ReadInvariance, PTL

(* No such call returns with a transaction of half a page of documents or  *)
(* more.                                                                   *)
THEOREM LongIsNotReadAlways == Spec => []LongIsNotRead
<1>1. ReadInv => LongIsNotRead
  BY DEF ReadInv, DoneInv, LongIsNotRead
<1>2. QED
  BY <1>1, ReadInvariance, PTL
=============================================================================
