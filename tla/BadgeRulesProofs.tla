--------------------------- MODULE BadgeRulesProofs ---------------------------
(***************************************************************************)
(* What the operators of BadgeRules compute.                               *)
(*                                                                         *)
(* What ParseMsgTx decides is a sum: of the vins, of the vouts, of the     *)
(* points of a code.  The first part is about such sums, by induction on   *)
(* the set of the cases that hold; the second about the loop over the      *)
(* vouts; the third about the values of points.                            *)
(***************************************************************************)
EXTENDS BadgeRules, Sequences, FiniteSetTheorems, FunctionTheorems, WellFoundedInduction, TLAPS

(* Induction on numbers and on the subsets of a finite set, stated for the *)
(* set of the cases that hold.                                             *)
LEMMA NatLeast ==
    ASSUME NEW T \in SUBSET Nat, T # {}
    PROVE  \E x \in T : \A y \in T : x <= y
<1> DEFINE R == OpToRel(<, Nat)
<1>1. IsWellFoundedOn(R, Nat)
  BY NatLessThanWellFounded
<1>2. \A x, y \in Nat : x < y => <<x, y>> \in R
  BY DEF OpToRel
<1> HIDE DEF R
<1>3. PICK x \in T : \A y \in T : ~(<<y, x>> \in R)
  BY <1>1, WFMin, Zenon
<1>4. \A y \in T : ~(y < x)
  BY <1>2, <1>3
<1>5. QED
  BY <1>4

(* A set of numbers with 0 and with all successors is all of them. *)
LEMMA NatInduct ==
    ASSUME NEW T \in SUBSET Nat, 0 \in T, \A k \in T : k + 1 \in T
    PROVE  T = Nat
<1> DEFINE C == Nat \ T
<1>1. SUFFICES ASSUME C # {} PROVE FALSE
  OBVIOUS
<1>2. PICK x \in C : \A y \in C : x <= y
  BY <1>1, NatLeast
<1>3. x # 0 /\ x - 1 \in Nat /\ x - 1 \notin C
  BY <1>2
<1>4. QED
  BY <1>3

(* So is a set of subsets that has a set when it has all its smaller ones. *)
LEMMA SubsetInduct ==
    ASSUME NEW S, IsFiniteSet(S), NEW T \in SUBSET SUBSET S,
           \A s \in SUBSET S : (\A x \in s : s \ {x} \in T) => s \in T
    PROVE  T = SUBSET S
<1> DEFINE R == StrictSubsetOrdering(S)
           C == (SUBSET S) \ T
<1>1. SUFFICES ASSUME C # {} PROVE FALSE
  OBVIOUS
<1>2. IsWellFoundedOn(R, SUBSET S)
  BY FS_StrictSubsetOrderingWellFounded, FS_FiniteSubsetsOfFinite
<1>3. \A s, r \in SUBSET S : s \subseteq r /\ s # r => <<s, r>> \in R
  BY DEF StrictSubsetOrdering
<1> HIDE DEF R
<1>4. PICK s \in C : \A r \in C : ~(<<r, s>> \in R)
  BY <1>1, <1>2, WFMin, Zenon
<1>5. \A x \in s : s \ {x} \in T
  <2> SUFFICES ASSUME NEW x \in s PROVE s \ {x} \in T
    OBVIOUS
  <2>1. s \ {x} \in SUBSET S /\ s \in SUBSET S /\ s \ {x} \subseteq s /\ s \ {x} # s
    OBVIOUS
  <2>2. <<s \ {x}, s>> \in R
    BY <1>3, <2>1, Zenon
  <2>3. QED
    BY <1>4, <2>1, <2>2, Zenon
<1>6. QED
  BY <1>5

-----------------------------------------------------------------------------
(* MapThenSumSet adds one member after the other; which one comes first is *)
(* CHOOSE's affair.                                                        *)
Pick(s) == CHOOSE x \in s : TRUE

IsSum(it, f, S) ==
    it = [s \in SUBSET S |-> IF s = {} THEN 0 ELSE f[Pick(s)] + it[s \ {Pick(s)}]]

(* The sum of f over S. *)
Sum(f, S) == (CHOOSE it : IsSum(it, f, S))[S]

(* Pick takes a member. *)
LEMMA PickIn == \A s : s # {} => Pick(s) \in s
BY DEF Pick

(* The recursion of the sum has a solution. *)
LEMMA SumExists ==
    ASSUME NEW S, IsFiniteSet(S), NEW f, \A x \in S : f[x] \in Int
    PROVE  \E it : IsSum(it, f, S) /\ it \in [SUBSET S -> Int]
<1> DEFINE D(k) == {s \in SUBSET S : Cardinality(s) <= k}
           Val(g, s) == IF s = {} THEN 0 ELSE f[Pick(s)] + g[s \ {Pick(s)}]
           T == {k \in Nat : \E g \in [D(k) -> Int] : \A s \in D(k) : g[s] = Val(g, s)}
<1>1. \A s \in SUBSET S : IsFiniteSet(s) /\ Cardinality(s) \in Nat
  BY FS_Subset, FS_CardinalityType
<1>2. \A s \in SUBSET S : s # {} => /\ Pick(s) \in s /\ f[Pick(s)] \in Int
                                    /\ s \ {Pick(s)} \in SUBSET S
                                    /\ Cardinality(s \ {Pick(s)}) = Cardinality(s) - 1
  <2> SUFFICES ASSUME NEW s \in SUBSET S, s # {}
               PROVE  /\ Pick(s) \in s /\ f[Pick(s)] \in Int
                      /\ s \ {Pick(s)} \in SUBSET S
                      /\ Cardinality(s \ {Pick(s)}) = Cardinality(s) - 1
    OBVIOUS
  <2>1. Pick(s) \in s
    BY PickIn
  <2>2. QED
    BY <1>1, <2>1, FS_RemoveElement
<1>3. 0 \in T
  <2> DEFINE g == [s \in D(0) |-> 0]
  <2>1. \A s \in D(0) : s = {}
    <3> SUFFICES ASSUME NEW s \in D(0), s # {} PROVE FALSE
      OBVIOUS
    <3>1. s \in SUBSET S /\ Cardinality(s) <= 0
      OBVIOUS
    <3>2. Cardinality(s) - 1 \in Nat
      BY <1>1, <1>2, <3>1
    <3>3. QED
      BY <1>1, <3>1, <3>2
  <2>2. g \in [D(0) -> Int] /\ \A s \in D(0) : g[s] = Val(g, s)
    BY <2>1
  <2>3. QED
    BY <2>2
<1>4. ASSUME NEW k \in T PROVE k + 1 \in T
  <2>1. k \in Nat
    OBVIOUS
  <2>2. PICK g \in [D(k) -> Int] : \A s \in D(k) : g[s] = Val(g, s)
    OBVIOUS
  <2> DEFINE h == [s \in D(k + 1) |-> IF s \in D(k) THEN g[s] ELSE Val(g, s)]
  <2>3. \A s \in D(k + 1) : s # {} => s \ {Pick(s)} \in D(k)
    BY <1>1, <1>2, <2>1
  <2>4. D(k) \subseteq D(k + 1)
    BY <1>1, <2>1
  <2>5. {} \in D(k)
    BY <2>1, FS_EmptySet
  <2> HIDE DEF D
  <2>6. \A s \in D(k + 1) : h[s] = Val(h, s) /\ h[s] \in Int
    <3> SUFFICES ASSUME NEW s \in D(k + 1) PROVE h[s] = Val(h, s) /\ h[s] \in Int
      OBVIOUS
    <3>1. CASE s = {}
      BY <2>2, <2>5, <3>1
    <3>2. CASE s # {}
      <4>1. s \ {Pick(s)} \in D(k) /\ s \ {Pick(s)} \in D(k + 1) /\ f[Pick(s)] \in Int
        BY <1>2, <2>3, <2>4, <3>2 DEF D
      <4>2. h[s \ {Pick(s)}] = g[s \ {Pick(s)}] /\ g[s \ {Pick(s)}] \in Int
        BY <2>2, <4>1
      <4>3. h[s] = Val(g, s)
        BY <2>2
      <4>4. QED
        BY <3>2, <4>1, <4>2, <4>3
    <3>3. QED
      BY <3>1, <3>2
  <2>7. h \in [D(k + 1) -> Int]
    BY <2>6
  <2>8. k + 1 \in Nat
    BY <2>1
  <2> HIDE DEF h
  <2>9. QED
    BY <2>6, <2>7, <2>8
<1>5. T = Nat
  <2>1. T \in SUBSET Nat
    OBVIOUS
  <2> HIDE DEF T
  <2>2. QED
    BY <1>3, <1>4, <2>1, NatInduct
<1>6. Cardinality(S) \in T
  BY <1>1, <1>5
<1>7. D(Cardinality(S)) = SUBSET S
  BY FS_Subset
<1>8. PICK g \in [SUBSET S -> Int] : \A s \in SUBSET S : g[s] = Val(g, s)
  BY <1>6, <1>7
<1>9. g = [s \in SUBSET S |-> g[s]]
  OBVIOUS
<1>10. IsSum(g, f, S)
  BY <1>8, <1>9 DEF IsSum
<1>11. QED
  BY <1>8, <1>10

(* Two solutions agree where their functions do. *)
LEMMA SumUnique ==
    ASSUME NEW S, NEW T, NEW f, NEW g, NEW it, NEW jt, IsSum(it, f, S), IsSum(jt, g, T),
           NEW A, IsFiniteSet(A), A \subseteq S, A \subseteq T, \A x \in A : f[x] = g[x]
    PROVE  it[A] = jt[A]
<1> DEFINE E == {s \in SUBSET A : it[s] = jt[s]}
<1>1. ASSUME NEW s \in SUBSET A, \A x \in s : s \ {x} \in E
      PROVE  s \in E
  <2>1. s \in SUBSET S /\ s \in SUBSET T
    OBVIOUS
  <2>2. /\ it[s] = IF s = {} THEN 0 ELSE f[Pick(s)] + it[s \ {Pick(s)}]
        /\ jt[s] = IF s = {} THEN 0 ELSE g[Pick(s)] + jt[s \ {Pick(s)}]
    BY <2>1, Zenon DEF IsSum
  <2>3. CASE s = {}
    BY <2>2, <2>3
  <2>4. CASE s # {}
    <3>1. Pick(s) \in s /\ Pick(s) \in A
      BY <2>4, PickIn
    <3>2. it[s \ {Pick(s)}] = jt[s \ {Pick(s)}]
      BY <1>1, <3>1
    <3>3. QED
      BY <2>2, <2>4, <3>1, <3>2
  <2>5. QED
    BY <2>3, <2>4
<1>2. E = SUBSET A
  <2>1. E \in SUBSET SUBSET A
    OBVIOUS
  <2> HIDE DEF E
  <2>2. QED
    BY <1>1, <2>1, SubsetInduct
<1>3. QED
  BY <1>2

(* Sum is a sum, and depends on the values of f on S only. *)
LEMMA SumIs ==
    ASSUME NEW S, IsFiniteSet(S), NEW f, \A x \in S : f[x] \in Int
    PROVE  /\ Sum(f, S) \in Int
           /\ \A g, T, it : IsSum(it, g, T) /\ S \subseteq T /\ (\A x \in S : f[x] = g[x]) => it[S] = Sum(f, S)
<1> DEFINE it == CHOOSE jt : IsSum(jt, f, S)
<1>1. PICK jt : IsSum(jt, f, S) /\ jt \in [SUBSET S -> Int]
  BY SumExists
<1>2. IsSum(it, f, S)
  BY <1>1, Zenon
<1>3. Sum(f, S) = it[S]
  BY Zenon DEF Sum
<1> HIDE DEF it
<1>4. jt[S] = it[S]
  BY <1>1, <1>2, SumUnique
<1>5. jt[S] \in Int
  BY <1>1
<1>6. ASSUME NEW g, NEW T, NEW kt, IsSum(kt, g, T), S \subseteq T, \A x \in S : f[x] = g[x]
      PROVE  kt[S] = it[S]
  <2>1. S \subseteq S
    OBVIOUS
  <2>2. it[S] = kt[S]
    BY <1>2, <1>6, <2>1, SumUnique
  <2>3. QED
    BY <2>2
<1>7. QED
  BY <1>3, <1>4, <1>5, <1>6, Zenon

(* Functions that agree on S have the same sum. *)
LEMMA SumCong ==
    ASSUME NEW S, IsFiniteSet(S), NEW f, NEW g, \A x \in S : f[x] \in Int /\ g[x] = f[x]
    PROVE  Sum(g, S) = Sum(f, S)
<1>1. \A x \in S : g[x] \in Int
  BY Zenon
<1>2. PICK it : IsSum(it, g, S)
  BY <1>1, SumExists
<1>3. S \subseteq S /\ (\A x \in S : g[x] = g[x]) /\ \A x \in S : f[x] = g[x]
  BY Zenon
<1>4. it[S] = Sum(g, S)
  BY <1>1, <1>2, <1>3, SumIs, Zenon
<1>5. it[S] = Sum(f, S)
  BY <1>2, <1>3, SumIs
<1>6. QED
  BY <1>4, <1>5

(* The first step of the sum. *)
LEMMA SumPick ==
    ASSUME NEW S, IsFiniteSet(S), NEW f, \A x \in S : f[x] \in Int
    PROVE  Sum(f, S) = IF S = {} THEN 0 ELSE f[Pick(S)] + Sum(f, S \ {Pick(S)})
<1>1. PICK it : IsSum(it, f, S)
  BY SumExists
<1>2. \A A \in SUBSET S : it[A] = Sum(f, A)
  <2> SUFFICES ASSUME NEW A \in SUBSET S PROVE it[A] = Sum(f, A)
    OBVIOUS
  <2>1. IsFiniteSet(A) /\ \A x \in A : f[x] \in Int
    BY FS_Subset
  <2>2. QED
    BY <1>1, <2>1, SumIs, Zenon
<1>3. it[S] = IF S = {} THEN 0 ELSE f[Pick(S)] + it[S \ {Pick(S)}]
  BY <1>1, Zenon DEF IsSum
<1>4. it[S] = Sum(f, S) /\ it[S \ {Pick(S)}] = Sum(f, S \ {Pick(S)})
  BY <1>2
<1>5. QED
  BY <1>3, <1>4

(* The order does not matter: any member may be taken out. *)
LEMMA SumTake ==
    ASSUME NEW S, IsFiniteSet(S), NEW f, \A x \in S : f[x] \in Int, NEW y \in S
    PROVE  /\ Sum(f, S) = f[y] + Sum(f, S \ {y})
           /\ Sum(f, S) \in Int /\ Sum(f, S \ {y}) \in Int
<1> DEFINE T == {A \in SUBSET S : \A x \in A : Sum(f, A) = f[x] + Sum(f, A \ {x})}
<1>1. \A A \in SUBSET S : /\ IsFiniteSet(A) /\ \A x \in A : f[x] \in Int
                          /\ Sum(f, A) \in Int
  BY FS_Subset, SumIs
<1>2. ASSUME NEW A \in SUBSET S, \A x \in A : A \ {x} \in T PROVE A \in T
  <2> SUFFICES ASSUME NEW x \in A PROVE Sum(f, A) = f[x] + Sum(f, A \ {x})
    OBVIOUS
  <2> DEFINE p == Pick(A)
  <2>1. p \in A /\ Sum(f, A) = f[p] + Sum(f, A \ {p})
    BY <1>1, PickIn, SumPick
  <2> HIDE DEF p
  <2>2. CASE x = p
    BY <2>1, <2>2
  <2>3. CASE x # p
    <3>1. A \ {p} \in T /\ A \ {x} \in T /\ x \in A \ {p} /\ p \in A \ {x}
      BY <1>2, <2>1, <2>3
    <3>2. /\ Sum(f, A \ {p}) = f[x] + Sum(f, (A \ {p}) \ {x})
          /\ Sum(f, A \ {x}) = f[p] + Sum(f, (A \ {x}) \ {p})
      BY <3>1
    <3>3. (A \ {p}) \ {x} = (A \ {x}) \ {p}
      OBVIOUS
    <3> DEFINE r == Sum(f, (A \ {x}) \ {p})
    <3>4. /\ Sum(f, A \ {p}) = f[x] + r
          /\ Sum(f, A \ {x}) = f[p] + r
      BY <3>2, <3>3
    <3>5. f[x] \in Int /\ f[p] \in Int /\ r \in Int
      <4>1. (A \ {x}) \ {p} \in SUBSET S
        OBVIOUS
      <4>2. QED
        BY <1>1, <2>1, <4>1
    <3> HIDE DEF r
    <3>6. QED
      BY <2>1, <3>4, <3>5
  <2>4. QED
    BY <2>2, <2>3
<1>3. T = SUBSET S
  <2>1. T \in SUBSET SUBSET S
    OBVIOUS
  <2> HIDE DEF T
  <2>2. QED
    BY <1>2, <2>1, SubsetInduct
<1>4. S \in T
  BY <1>3
<1>5. S \ {y} \in SUBSET S /\ S \in SUBSET S
  OBVIOUS
<1>6. QED
  BY <1>1, <1>4, <1>5

(* The empty sum. *)
LEMMA SumEmpty == \A f : Sum(f, {}) = 0
<1> SUFFICES ASSUME NEW f PROVE Sum(f, {}) = 0
  OBVIOUS
<1>1. IsFiniteSet({})
  BY FS_EmptySet
<1>2. QED
  BY <1>1, SumPick

(* The sum of two parts. *)
LEMMA SumParts ==
    ASSUME NEW S, IsFiniteSet(S), NEW f, \A x \in S : f[x] \in Int, NEW B \in SUBSET S
    PROVE  /\ Sum(f, S) = Sum(f, B) + Sum(f, S \ B)
           /\ Sum(f, S) \in Int /\ Sum(f, B) \in Int /\ Sum(f, S \ B) \in Int
<1> DEFINE T == {A \in SUBSET B : Sum(f, S) = Sum(f, A) + Sum(f, S \ A)}
<1>1. \A A \in SUBSET S : /\ IsFiniteSet(A) /\ \A x \in A : f[x] \in Int
                          /\ Sum(f, A) \in Int
  BY FS_Subset, SumIs
<1>2. ASSUME NEW A \in SUBSET B, \A x \in A : A \ {x} \in T PROVE A \in T
  <2>1. CASE A = {}
    <3>1. S \ A = S
      BY <2>1
    <3>2. Sum(f, A) = 0
      BY <2>1, SumEmpty
    <3>3. Sum(f, S) \in Int
      BY <1>1
    <3>4. QED
      BY <3>1, <3>2, <3>3
  <2>2. CASE A # {}
    <3>1. PICK x \in A : TRUE
      BY <2>2
    <3> DEFINE C == A \ {x}
               D == S \ C
    <3>2. C \in T /\ x \in D /\ D \ {x} = S \ A /\ A \in SUBSET S /\ D \in SUBSET S
      BY <1>2
    <3>3. Sum(f, S) = Sum(f, C) + Sum(f, D)
      BY <3>2
    <3>4. Sum(f, A) = f[x] + Sum(f, C) /\ Sum(f, C) \in Int
      BY <1>1, <3>2, SumTake
    <3>5. Sum(f, D) = f[x] + Sum(f, S \ A) /\ Sum(f, S \ A) \in Int
      BY <1>1, <3>2, SumTake
    <3>6. f[x] \in Int
      BY <1>1
    <3> HIDE DEF C, D
    <3>7. QED
      BY <3>3, <3>4, <3>5, <3>6
  <2>3. QED
    BY <2>1, <2>2
<1>3. T = SUBSET B
  <2>1. T \in SUBSET SUBSET B
    OBVIOUS
  <2>2. IsFiniteSet(B)
    BY <1>1
  <2> HIDE DEF T
  <2>3. QED
    BY <1>2, <2>1, <2>2, SubsetInduct
<1>4. B \in T
  BY <1>3
<1>5. S \in SUBSET S /\ S \ B \in SUBSET S
  OBVIOUS
<1>6. QED
  BY <1>1, <1>4, <1>5

(* A sum of what is not negative. *)
LEMMA SumNat ==
    ASSUME NEW S, IsFiniteSet(S), NEW f, \A x \in S : f[x] \in Nat
    PROVE  Sum(f, S) \in Nat
<1> DEFINE T == {A \in SUBSET S : Sum(f, A) \in Nat}
<1>1. \A A \in SUBSET S : IsFiniteSet(A)
  BY FS_Subset
<1>2. ASSUME NEW A \in SUBSET S, \A x \in A : A \ {x} \in T PROVE A \in T
  <2>1. CASE A = {}
    BY <2>1, SumEmpty
  <2>2. CASE A # {}
    <3>1. PICK x \in A : TRUE
      BY <2>2
    <3>2. Sum(f, A) = f[x] + Sum(f, A \ {x})
      <4>1. \A y \in A : f[y] \in Int
        OBVIOUS
      <4>2. QED
        BY <1>1, <4>1, SumTake
    <3>3. Sum(f, A \ {x}) \in Nat /\ f[x] \in Nat
      BY <1>2
    <3>4. QED
      BY <3>2, <3>3
  <2>3. QED
    BY <2>1, <2>2
<1>3. T = SUBSET S
  <2>1. T \in SUBSET SUBSET S
    OBVIOUS
  <2> HIDE DEF T
  <2>2. QED
    BY <1>2, <2>1, SubsetInduct
<1>4. QED
  BY <1>3

(* A sum whose members are matched one to one with those of another, each  *)
(* the opposite of its partner.                                            *)
LEMMA SumOpposite ==
    ASSUME NEW S, IsFiniteSet(S), NEW T, NEW f, NEW g, NEW h \in [S -> T],
           \A x \in S : f[x] \in Int /\ g[h[x]] = -f[x],
           \A x, y \in S : h[x] = h[y] => x = y,
           \A z \in T : \E x \in S : h[x] = z
    PROVE  IsFiniteSet(T) /\ Sum(g, T) = -Sum(f, S)
<1> DEFINE Im(A) == {h[x] : x \in A}
           E == {A \in SUBSET S : IsFiniteSet(Im(A)) /\ Sum(g, Im(A)) = -Sum(f, A)}
<1>1. \A A \in SUBSET S : IsFiniteSet(A)
  BY FS_Subset
<1>2. ASSUME NEW A \in SUBSET S, \A x \in A : A \ {x} \in E PROVE A \in E
  <2>1. CASE A = {}
    <3>1. Im(A) = {}
      BY <2>1
    <3>2. IsFiniteSet({})
      BY FS_EmptySet
    <3>3. QED
      BY <2>1, <3>1, <3>2, SumEmpty
  <2>2. CASE A # {}
    <3>1. PICK x \in A : TRUE
      BY <2>2
    <3> DEFINE C == A \ {x}
    <3>2. C \in E
      BY <1>2
    <3>3. Im(A) = Im(C) \cup {h[x]} /\ Im(A) \ {h[x]} = Im(C) /\ h[x] \in Im(A)
      OBVIOUS
    <3>4. IsFiniteSet(Im(A))
      <4> DEFINE J == Im(C)
      <4>1. IsFiniteSet(J) /\ Im(A) = J \cup {h[x]}
        BY <3>2, <3>3
      <4> HIDE DEF J
      <4>2. IsFiniteSet(J \cup {h[x]})
        BY <4>1, FS_AddElement
      <4>3. QED
        BY <4>1, <4>2
    <3>5. Sum(f, A) = f[x] + Sum(f, C) /\ Sum(f, C) \in Int
      <4>1. \A y \in A : f[y] \in Int
        OBVIOUS
      <4>2. QED
        BY <1>1, <4>1, SumTake
    <3>6. \A z \in Im(A) : g[z] \in Int
      <4> SUFFICES ASSUME NEW y \in A PROVE g[h[y]] \in Int
        OBVIOUS
      <4>1. g[h[y]] = -f[y] /\ f[y] \in Int
        OBVIOUS
      <4>2. QED
        BY <4>1
    <3>7. Sum(g, Im(A)) = g[h[x]] + Sum(g, Im(C))
      <4> HIDE DEF Im
      <4>1. Sum(g, Im(A)) = g[h[x]] + Sum(g, Im(A) \ {h[x]})
        BY <3>3, <3>4, <3>6, SumTake
      <4>2. QED
        BY <3>3, <4>1
    <3>8. g[h[x]] = -f[x] /\ f[x] \in Int
      OBVIOUS
    <3>9. Sum(g, Im(C)) = -Sum(f, C)
      BY <3>2
    <3> HIDE DEF C, Im
    <3>10. QED
      BY <3>4, <3>5, <3>7, <3>8, <3>9
  <2>3. QED
    BY <2>1, <2>2
<1>3. E = SUBSET S
  <2>1. E \in SUBSET SUBSET S
    OBVIOUS
  <2> HIDE DEF E
  <2>2. QED
    BY <1>2, <2>1, SubsetInduct
<1>4. S \in E
  <2> HIDE DEF E
  <2>1. QED
    BY <1>3
<1>5. Im(S) = T
  <2>1. \A x \in S : h[x] \in T
    OBVIOUS
  <2>2. QED
    BY <2>1
<1>6. IsFiniteSet(Im(S)) /\ Sum(g, Im(S)) = -Sum(f, S)
  <2> HIDE DEF Im
  <2>1. QED
    BY <1>4
<1> HIDE DEF Im, E
<1>7. QED
  BY <1>5, <1>6

(* In particular a sum of opposites is the opposite of the sum. *)
LEMMA SumMinus ==
    ASSUME NEW S, IsFiniteSet(S), NEW f, NEW g,
           \A x \in S : f[x] \in Int, \A x \in S : g[x] = -f[x]
    PROVE  Sum(g, S) = -Sum(f, S)
<1> DEFINE id == [x \in S |-> x]
<1>1. id \in [S -> S] /\ (\A x, y \in S : id[x] = id[y] => x = y) /\ (\A z \in S : \E x \in S : id[x] = z)
  OBVIOUS
<1>2. \A x \in S : f[x] \in Int /\ g[id[x]] = -f[x]
  OBVIOUS
<1> HIDE DEF id
<1>3. QED
  BY <1>1, <1>2, SumOpposite

(* A function paired with another of equal values has the same sum. *)
LEMMA SumMatched ==
    ASSUME NEW S, IsFiniteSet(S), NEW T, NEW f, NEW g, NEW h \in [S -> T],
           \A x \in S : f[x] \in Int /\ g[h[x]] = f[x],
           \A x, y \in S : h[x] = h[y] => x = y,
           \A z \in T : \E x \in S : h[x] = z
    PROVE  IsFiniteSet(T) /\ Sum(g, T) = Sum(f, S)
<1> DEFINE neg == [x \in S |-> -f[x]]
<1>1. \A x \in S : neg[x] \in Int /\ g[h[x]] = -neg[x]
  OBVIOUS
<1>2. (\A x \in S : f[x] \in Int) /\ (\A x \in S : neg[x] = -f[x])
  OBVIOUS
<1> HIDE DEF neg
<1>3. IsFiniteSet(T) /\ Sum(g, T) = -Sum(neg, S)
  BY <1>1, SumOpposite
<1>4. Sum(neg, S) = -Sum(f, S)
  BY <1>2, SumMinus
<1>5. Sum(f, S) \in Int
  BY SumIs
<1>6. QED
  BY <1>3, <1>4, <1>5

-----------------------------------------------------------------------------
(* What the loop of ParseMsgTx over the vouts computes. *)

Values == {NotBadge} \cup 0 .. MaxBadge

(* A sum that fits into an int64 does not wrap around. *)
LEMMA Int64Fits ==
    ASSUME NEW v \in 0 .. MaxBadge
    PROVE  Int64(v) = v
<1> DEFINE a == v + MaxBadge + 1
           b == 2 * (MaxBadge + 1)
<1>1. a \in Nat /\ b \in Nat /\ b > 0 /\ a < b
  BY MaxBadgeAssumption
<1>2. a % b = a
  <2> HIDE DEF a, b
  <2>1. QED
    BY <1>1
<1>3. QED
  BY <1>2, MaxBadgeAssumption DEF Int64

(* ... nor a negative number that is not too small. *)
LEMMA Int64Negative ==
    ASSUME NEW v \in Int, v < 0, v >= -(MaxBadge + 1)
    PROVE  Int64(v) = v
BY MaxBadgeAssumption DEF Int64

(* ... nor the difference of two numbers that do. *)
LEMMA Int64Difference ==
    ASSUME NEW v \in 0 .. MaxBadge, NEW w \in 0 .. MaxBadge
    PROVE  Int64(v - w) = v - w
<1> DEFINE d == v - w
<1>1. d \in Int /\ d <= MaxBadge /\ d >= -(MaxBadge + 1)
  BY MaxBadgeAssumption
<1> HIDE DEF d
<1>2. CASE d >= 0
  BY <1>1, <1>2, Int64Fits, MaxBadgeAssumption DEF d
<1>3. CASE d < 0
  BY <1>1, <1>3, Int64Negative DEF d
<1>4. QED
  BY <1>1, <1>2, <1>3

(* badgeValue after round k, of that after round k - 1. *)
RestOf(b, out, g, k) ==
    IF k = 0 THEN b ELSE IF out[k] = NotBadge THEN g[k - 1] ELSE Int64(g[k - 1] - out[k])

(* The recursion of badgeValue has a solution. *)
LEMMA RestExists ==
    ASSUME NEW b, NEW out
    PROVE  \E r : r = [k \in Nat |-> RestOf(b, out, r, k)]
<1> DEFINE Upto(n, g) == \A k \in 0 .. n : g[k] = RestOf(b, out, g, k)
           T == {n \in Nat : \E g : Upto(n, g)}
<1>1. 0 \in T
  <2> DEFINE g == [k \in {0} |-> b]
  <2>1. Upto(0, g)
    BY DEF RestOf
  <2>2. QED
    BY <2>1
<1>2. ASSUME NEW n \in T PROVE n + 1 \in T
  <2>1. n \in Nat
    OBVIOUS
  <2>2. PICK g : Upto(n, g)
    OBVIOUS
  <2> DEFINE h == [k \in 0 .. n + 1 |-> IF k <= n THEN g[k] ELSE RestOf(b, out, g, k)]
  <2>3. ASSUME NEW k \in 0 .. n + 1 PROVE h[k] = RestOf(b, out, h, k)
    <3>1. k # 0 => k - 1 \in 0 .. n /\ h[k - 1] = g[k - 1]
      BY <2>1
    <3>2. h[k] = RestOf(b, out, g, k)
      BY <2>1, <2>2
    <3>3. QED
      BY <3>1, <3>2 DEF RestOf
  <2>4. Upto(n + 1, h)
    BY <2>3
  <2>5. n + 1 \in Nat
    BY <2>1
  <2> HIDE DEF Upto, h
  <2>6. QED
    BY <2>4, <2>5
<1>3. T = Nat
  <2>1. T \in SUBSET Nat
    OBVIOUS
  <2> HIDE DEF T
  <2>2. QED
    BY <1>1, <1>2, <2>1, NatInduct
<1>4. \A n \in Nat : \E g : Upto(n, g)
  BY <1>3
<1> HIDE DEF T
<1>5. ASSUME NEW n \in Nat, NEW m \in Nat, NEW g, NEW h, Upto(n, g), Upto(m, h)
      PROVE  \A k \in Nat : k <= n /\ k <= m => g[k] = h[k]
  <2> DEFINE E == {k \in Nat : k <= n /\ k <= m => g[k] = h[k]}
  <2>1. 0 \in E
    BY <1>5 DEF RestOf
  <2>2. ASSUME NEW k \in E PROVE k + 1 \in E
    <3> SUFFICES ASSUME k + 1 <= n, k + 1 <= m PROVE g[k + 1] = h[k + 1]
      OBVIOUS
    <3>1. k \in Nat /\ g[k] = h[k] /\ k + 1 # 0 /\ (k + 1) - 1 = k /\ k + 1 \in 0 .. n /\ k + 1 \in 0 .. m
      OBVIOUS
    <3>2. g[k + 1] = RestOf(b, out, g, k + 1) /\ h[k + 1] = RestOf(b, out, h, k + 1)
      BY <1>5, <3>1
    <3>3. QED
      BY <3>1, <3>2 DEF RestOf
  <2>3. E = Nat
    <3>1. E \in SUBSET Nat
      OBVIOUS
    <3> HIDE DEF E
    <3>2. QED
      BY <2>1, <2>2, <3>1, NatInduct
  <2>4. QED
    BY <2>3
<1> DEFINE G(n) == CHOOSE g : Upto(n, g)
           r == [k \in Nat |-> G(k)[k]]
<1> HIDE DEF Upto
<1>6. \A n \in Nat : Upto(n, G(n))
  BY <1>4, Zenon
<1> HIDE DEF G
<1>7. ASSUME NEW k \in Nat PROVE r[k] = RestOf(b, out, r, k)
  <2>1. r[k] = RestOf(b, out, G(k), k)
    <3>1. k \in 0 .. k
      OBVIOUS
    <3>2. QED
      BY <1>6, <3>1 DEF Upto
  <2>2. k # 0 => k - 1 \in Nat /\ r[k - 1] = G(k)[k - 1]
    <3> SUFFICES ASSUME k # 0 PROVE k - 1 \in Nat /\ r[k - 1] = G(k)[k - 1]
      OBVIOUS
    <3>1. k - 1 \in Nat /\ k - 1 <= k - 1 /\ k - 1 <= k
      OBVIOUS
    <3>2. Upto(k - 1, G(k - 1)) /\ Upto(k, G(k))
      BY <1>6, <3>1
    <3>3. G(k - 1)[k - 1] = G(k)[k - 1]
      <4> DEFINE j == k - 1
      <4>1. j \in Nat /\ k \in Nat /\ j <= j /\ j <= k /\ Upto(j, G(j)) /\ Upto(k, G(k))
        BY <3>1, <3>2
      <4> HIDE DEF j
      <4>2. \A i \in Nat : i <= j /\ i <= k => G(j)[i] = G(k)[i]
        BY <1>5, <4>1
      <4>3. G(j)[j] = G(k)[j]
        BY <4>1, <4>2
      <4>4. QED
        BY <4>3 DEF j
    <3>4. QED
      BY <3>1, <3>3
  <2>3. QED
    BY <2>1, <2>2 DEF RestOf
<1>8. r = [k \in Nat |-> r[k]]
  OBVIOUS
<1> HIDE DEF r
<1>9. r = [k \in Nat |-> RestOf(b, out, r, k)]
  BY <1>7, <1>8
<1>10. QED
  BY <1>9

(* Remaining is such a solution. *)
LEMMA RemainingIs ==
    ASSUME NEW out, NEW vins, NEW k \in Nat
    PROVE  Remaining(out, vins)[k] = RestOf(BadgeValue(vins), out, Remaining(out, vins), k)
<1> DEFINE b == BadgeValue(vins)
           Solves(r) == r = [j \in Nat |-> IF j = 0 THEN b
                                        ELSE IF out[j] = NotBadge THEN r[j - 1] ELSE Int64(r[j - 1] - out[j])]
<1>1. PICK r : r = [j \in Nat |-> RestOf(b, out, r, j)]
  <2> HIDE DEF b
  <2>1. QED
    BY RestExists
<1>2. Solves(r)
  <2> HIDE DEF b
  <2>1. QED
    BY <1>1 DEF RestOf
<1>3. Remaining(out, vins) = CHOOSE g : Solves(g)
  BY Zenon DEF Remaining
<1> HIDE DEF b
<1>4. Solves(Remaining(out, vins))
  <2> HIDE DEF Solves
  <2>1. QED
    BY <1>2, <1>3, Zenon
<1> DEFINE g == Remaining(out, vins)
<1> HIDE DEF g
<1>5. Solves(g)
  BY <1>4 DEF g
<1>6. g[k] = RestOf(b, out, g, k)
  BY <1>5 DEF RestOf
<1>7. QED
  BY <1>6 DEF g, b

(* badgeValue after k rounds, if it was not negative before: the badge     *)
(* vouts so far are subtracted, and int64 does not wrap.                   *)
LEMMA RemainingSum ==
    ASSUME NEW out \in Seq(Values), NEW vins, BadgeValue(vins) \in 0 .. MaxBadge, NEW k \in 0 .. Len(out)
    PROVE  /\ (\A i \in 0 .. k - 1 : ~(Remaining(out, vins)[i] < 0)) =>
                 Remaining(out, vins)[k] = BadgeValue(vins) - Sum(out, {j \in 1 .. k : out[j] # NotBadge})
           /\ Sum(out, {j \in 1 .. k : out[j] # NotBadge}) \in Nat
<1> DEFINE b == BadgeValue(vins)
           r == Remaining(out, vins)
           A(n) == {j \in 1 .. n : out[j] # NotBadge}
           Good(n) == \A i \in 0 .. n - 1 : ~(r[i] < 0)
           T == {n \in Nat : n <= Len(out) /\ Good(n) => r[n] = b - Sum(out, A(n))}
<1>1. \A n \in Nat : r[n] = RestOf(b, out, r, n)
  BY RemainingIs
<1>2. \A j \in 1 .. Len(out) : out[j] \in Int /\ (out[j] # NotBadge => out[j] \in Nat)
  BY MaxBadgeAssumption DEF Values, NotBadge
<1>3. \A n \in Nat : n <= Len(out) =>
          IsFiniteSet(A(n)) /\ (\A j \in A(n) : out[j] \in Nat) /\ Sum(out, A(n)) \in Nat
  <2> SUFFICES ASSUME NEW n \in Nat, n <= Len(out)
               PROVE  IsFiniteSet(A(n)) /\ (\A j \in A(n) : out[j] \in Nat) /\ Sum(out, A(n)) \in Nat
    OBVIOUS
  <2>1. IsFiniteSet(1 .. n) /\ A(n) \in SUBSET (1 .. n)
    BY FS_Interval
  <2>2. IsFiniteSet(A(n))
    BY <2>1, FS_Subset
  <2>3. \A j \in A(n) : out[j] \in Nat
    BY <1>2
  <2> HIDE DEF A
  <2>4. QED
    BY <2>2, <2>3, SumNat
<1> HIDE DEF r, b
<1> b \in Int /\ b <= MaxBadge
  BY MaxBadgeAssumption DEF b
<1>4. 0 \in T
  <2>1. A(0) = {}
    OBVIOUS
  <2>2. r[0] = b
    BY <1>1 DEF RestOf
  <2>3. QED
    BY <2>1, <2>2, SumEmpty
<1>5. ASSUME NEW n \in T PROVE n + 1 \in T
  <2> SUFFICES ASSUME n + 1 <= Len(out), Good(n + 1) PROVE r[n + 1] = b - Sum(out, A(n + 1))
    OBVIOUS
  <2>1. /\ n \in Nat /\ n <= Len(out) /\ n + 1 \in 1 .. Len(out) /\ n + 1 # 0 /\ (n + 1) - 1 = n
        /\ Good(n) /\ ~(r[n] < 0)
    OBVIOUS
  <2> HIDE DEF Good
  <2>2. r[n] = b - Sum(out, A(n)) /\ Sum(out, A(n)) \in Int /\ r[n] \in 0 .. MaxBadge
    <3>1. Sum(out, A(n)) \in Nat
      BY <1>3, <2>1, Zenon
    <3>2. r[n] = b - Sum(out, A(n))
      <4> HIDE DEF A
      <4>1. QED
        BY <2>1
    <3> DEFINE s == Sum(out, A(n))
    <3> HIDE DEF A, s
    <3>3. s \in Nat /\ r[n] = b - s
      BY <3>1, <3>2 DEF s
    <3>4. r[n] \in 0 .. MaxBadge
      BY <2>1, <3>3, MaxBadgeAssumption
    <3>5. QED
      BY <3>3, <3>4 DEF s
  <2>3. r[n + 1] = IF out[n + 1] = NotBadge THEN r[n] ELSE Int64(r[n] - out[n + 1])
    BY <1>1, <2>1 DEF RestOf
  <2>4. CASE out[n + 1] = NotBadge
    <3>1. A(n + 1) = A(n)
      BY <2>1, <2>4
    <3>2. QED
      BY <2>2, <2>3, <2>4, <3>1
  <2>5. CASE out[n + 1] # NotBadge
    <3>1. A(n + 1) \ {n + 1} = A(n) /\ n + 1 \in A(n + 1)
      BY <2>1, <2>5
    <3>2. IsFiniteSet(A(n + 1)) /\ (\A j \in A(n + 1) : out[j] \in Int)
      <4>1. n + 1 \in Nat
        BY <2>1
      <4> HIDE DEF A
      <4>2. QED
        BY <1>3, <4>1
    <3>3. Sum(out, A(n + 1)) = out[n + 1] + Sum(out, A(n))
      <4> DEFINE S == A(n + 1)
      <4> HIDE DEF A
      <4>1. IsFiniteSet(S) /\ (\A j \in S : out[j] \in Int) /\ n + 1 \in S /\ S \ {n + 1} = A(n)
        BY <3>1, <3>2
      <4> HIDE DEF S
      <4>2. Sum(out, S) = out[n + 1] + Sum(out, S \ {n + 1})
        BY <4>1, SumTake
      <4>3. QED
        BY <4>1, <4>2 DEF S
    <3>4. out[n + 1] \in Int /\ out[n + 1] \in 0 .. MaxBadge
      <4>1. out[n + 1] \in Values
        BY <2>1
      <4>2. QED
        BY <2>5, <4>1, MaxBadgeAssumption DEF Values
    <3>5. r[n + 1] = r[n] - out[n + 1]
      BY <2>2, <2>3, <2>5, <3>4, Int64Difference
    <3> HIDE DEF A
    <3>6. QED
      BY <2>2, <3>3, <3>4, <3>5
  <2>6. QED
    BY <2>4, <2>5
<1>6. T = Nat
  <2>1. T \in SUBSET Nat
    OBVIOUS
  <2> HIDE DEF T
  <2>2. QED
    BY <1>4, <1>5, <2>1, NatInduct
<1> HIDE DEF A
<1>7. k \in T /\ k \in Nat /\ k <= Len(out)
  <2>1. k \in Nat /\ k <= Len(out)
    OBVIOUS
  <2> HIDE DEF T
  <2>2. QED
    BY <1>6, <2>1
<1>8. (Good(k) => r[k] = b - Sum(out, A(k))) /\ Sum(out, A(k)) \in Nat
  <2> HIDE DEF Good
  <2>1. QED
    BY <1>3, <1>7
<1>9. QED
  BY <1>8 DEF r, b, A

(* The running subtraction overspends if and only if the whole does. *)
LEMMA OverspendsIff ==
    ASSUME NEW out \in Seq(Values), NEW vins, BadgeValue(vins) \in 0 .. MaxBadge
    PROVE  /\ Overspends(out, vins) <=> Sum(out, BadgeVouts(out)) > BadgeValue(vins)
           /\ Sum(out, BadgeVouts(out)) \in Nat
           /\ IsFiniteSet(BadgeVouts(out))
           /\ \A j \in BadgeVouts(out) : out[j] \in 0 .. MaxBadge
<1> DEFINE b == BadgeValue(vins)
           r == Remaining(out, vins)
           A(n) == {j \in 1 .. n : out[j] # NotBadge}
           m == Len(out)
<1>1. m \in Nat /\ DOMAIN out = 1 .. m
  OBVIOUS
<1>2. BadgeVouts(out) = A(m)
  BY <1>1 DEF BadgeVouts
<1>b. b \in Nat
  BY MaxBadgeAssumption
<1>3. \A k \in 0 .. m : /\ (\A i \in 0 .. k - 1 : ~(r[i] < 0)) => r[k] = b - Sum(out, A(k))
                       /\ Sum(out, A(k)) \in Nat
  BY RemainingSum
<1>4. \A j \in 1 .. m : out[j] # NotBadge => out[j] \in 0 .. MaxBadge
  BY DEF Values
<1>5. IsFiniteSet(A(m))
  <2>1. IsFiniteSet(1 .. m) /\ A(m) \in SUBSET (1 .. m)
    BY <1>1, FS_Interval
  <2>2. QED
    BY <2>1, FS_Subset
<1>6. ASSUME Overspends(out, vins) PROVE Sum(out, A(m)) > b
  <2> DEFINE C == {i \in 0 .. m : r[i] < 0}
  <2>0. C \in SUBSET Nat /\ C # {}
    <3>1. PICK i \in A(m) : r[i] < 0
      BY <1>2, <1>6 DEF Overspends
    <3>2. i \in 0 .. m
      BY <1>1
    <3> HIDE DEF r
    <3>3. QED
      BY <3>1, <3>2
  <2>1. PICK k \in C : \A i \in C : k <= i
    <3> HIDE DEF C
    <3>1. QED
      BY <2>0, NatLeast
  <2>2. /\ k \in 0 .. m /\ A(k) \in SUBSET A(m)
        /\ r[k] < 0 /\ \A i \in 0 .. k - 1 : ~(r[i] < 0)
    <3> HIDE DEF r
    <3>1. QED
      BY <1>1, <2>1
  <2>3. Sum(out, A(k)) > b /\ Sum(out, A(k)) \in Nat
    <3> DEFINE s == Sum(out, A(k))
    <3>1. r[k] = b - s /\ s \in Nat
      BY <1>3, <2>2
    <3> HIDE DEF s, r, b
    <3>2. b \in Nat
      BY <1>b
    <3>3. s > b
      BY <2>2, <3>1, <3>2
    <3>4. QED
      BY <3>1, <3>3 DEF s
  <2>4. \A j \in A(m) : out[j] \in Nat
    BY <1>1, <1>4, MaxBadgeAssumption
  <2> DEFINE S == A(m)
             B == A(k)
  <2> HIDE DEF A, b
  <2>5. IsFiniteSet(S) /\ B \in SUBSET S /\ IsFiniteSet(S \ B) /\ \A j \in S : out[j] \in Int
    BY <1>5, <2>2, <2>4, FS_Subset
  <2> HIDE DEF S, B
  <2>6. Sum(out, S) = Sum(out, B) + Sum(out, S \ B)
    BY <2>5, SumParts
  <2>7. Sum(out, S \ B) \in Nat
    BY <2>4, <2>5, SumNat DEF S
  <2>8. b \in Nat
    BY <1>b
  <2>9. Sum(out, B) \in Nat /\ Sum(out, B) > b
    BY <2>3 DEF B
  <2>10. Sum(out, S) > b
    BY <2>6, <2>7, <2>8, <2>9
  <2>11. QED
    BY <2>10 DEF S
<1>7. ASSUME Sum(out, A(m)) > b PROVE Overspends(out, vins)
  <2> DEFINE C == {k \in 0 .. m : r[k] < 0}
  <2>1. C # {}
    <3> SUFFICES ASSUME C = {} PROVE FALSE
      OBVIOUS
    <3> DEFINE s == Sum(out, A(m))
    <3>1. \A i \in 0 .. m : ~(r[i] < 0)
      <4> HIDE DEF r
      <4>1. QED
        OBVIOUS
    <3>2. r[m] = b - s /\ s \in Nat /\ s > b
      BY <1>1, <1>3, <1>7, <3>1
    <3> HIDE DEF s, r, b, C
    <3>3. QED
      BY <1>1, <1>b, <3>1, <3>2
  <2>2. PICK k \in C : \A j \in C : k <= j
    <3>1. C \in SUBSET Nat /\ C # {}
      BY <2>1
    <3> HIDE DEF C
    <3>2. QED
      BY <3>1, NatLeast
  <2>3. k \in 0 .. m /\ r[k] < 0
    BY <2>2
  <2>4. r[k] = RestOf(b, out, r, k)
    BY <2>3, RemainingIs
  <2>5. k # 0
    <3> HIDE DEF r, b
    <3>1. QED
      BY <1>b, <2>3, <2>4 DEF RestOf
  <2>6. k - 1 \in 0 .. m /\ k - 1 \notin C
    BY <2>2, <2>3, <2>5
  <2>7. out[k] # NotBadge
    <3>1. ~(r[k - 1] < 0)
      BY <2>6
    <3> HIDE DEF r, b
    <3>2. QED
      BY <2>3, <2>4, <2>5, <3>1 DEF RestOf
  <2>8. k \in BadgeVouts(out)
    BY <1>2, <2>3, <2>5, <2>7
  <2>9. QED
    BY <2>3, <2>8 DEF Overspends
<1>8. Sum(out, A(m)) \in Nat
  BY <1>1, <1>3
<1>9. QED
  BY <1>2, <1>4, <1>5, <1>6, <1>7, <1>8

-----------------------------------------------------------------------------
(* Sums of points, and what ParseMsgTx makes of them. *)

(* A new vout point is a badge vout, and the checks have passed. *)
LEMMA VoutShape ==
    ASSUME NEW t, NEW out, NEW vins, NEW p \in ParseVouts(t, out, vins)
    PROVE  /\ \E k \in BadgeVouts(out) : p = VoutPoint(t, k, out[k], BadgeCode(t, vins))
           /\ ~(Cardinality(Codes(vins)) > 1)
           /\ ~Overspends(out, vins)
BY DEF ParseVouts

(* The values of a function with a finite domain. *)
LEMMA ImageFinite ==
    ASSUME NEW S, IsFiniteSet(S), NEW f, DOMAIN f = S
    PROVE  IsFiniteSet({f[x] : x \in S})
<1> DEFINE T == {f[x] : x \in S}
           g == [x \in S |-> f[x]]
<1>1. g \in [S -> T] /\ \A y \in T : \E x \in S : g[x] = y
  OBVIOUS
<1>2. g \in Surjection(S, T)
  <2> HIDE DEF g, T
  <2>1. QED
    BY <1>1, Fun_IsSurj
<1> HIDE DEF g, T
<1>3. IsFiniteSet(T)
  BY <1>2, FS_Surjection
<1>4. QED
  BY <1>3 DEF T

(* SumTxPoints is a sum. *)
LEMMA SumTxPointsIs ==
    ASSUME NEW P, IsFiniteSet(P), \A p \in P : p.value \in Int
    PROVE  SumTxPoints(P) = Sum([p \in P |-> p.value], P)
<1> DEFINE f == [p \in P |-> p.value]
           Adds(g) == g = [s \in SUBSET P |-> IF s = {} THEN 0 ELSE Pick(s).value + g[s \ {Pick(s)}]]
<1>1. SumTxPoints(P) = (CHOOSE g : Adds(g))[P]
  BY Zenon DEF SumTxPoints, MapThenSumSet, MapThenFoldSet, Pick
<1>2. \A s \in SUBSET P : s # {} => f[Pick(s)] = Pick(s).value
  BY PickIn
<1>3. \A x \in P : f[x] \in Int
  OBVIOUS
<1> HIDE DEF f
<1>4. \A g : IsSum(g, f, P) <=> Adds(g)
  <2> SUFFICES ASSUME NEW g PROVE IsSum(g, f, P) <=> Adds(g)
    OBVIOUS
  <2>1. [s \in SUBSET P |-> IF s = {} THEN 0 ELSE Pick(s).value + g[s \ {Pick(s)}]]
           = [s \in SUBSET P |-> IF s = {} THEN 0 ELSE f[Pick(s)] + g[s \ {Pick(s)}]]
    BY <1>2
  <2>2. QED
    BY <2>1, Zenon DEF IsSum
<1>5. PICK it : IsSum(it, f, P)
  BY <1>3, SumExists
<1> DEFINE jt == CHOOSE g : Adds(g)
<1>6. Adds(jt)
  <2>1. Adds(it)
    BY <1>4, <1>5
  <2> HIDE DEF Adds
  <2>2. QED
    BY <2>1, Zenon
<1> HIDE DEF jt, Adds
<1>7. IsSum(jt, f, P)
  BY <1>4, <1>6
<1>8. jt[P] = Sum(f, P)
  <2>1. P \subseteq P /\ \A x \in P : f[x] = f[x]
    OBVIOUS
  <2>2. QED
    BY <1>3, <1>7, <2>1, SumIs
<1>9. QED
  BY <1>1, <1>8 DEF jt, f

(* A set of points with integer values is worth the sum of its parts. *)
LEMMA SumUnion ==
    ASSUME NEW P, NEW Q, IsFiniteSet(P), IsFiniteSet(Q), P \cap Q = {},
           \A p \in P \cup Q : p.value \in Int
    PROVE  /\ SumTxPoints(P \cup Q) = SumTxPoints(P) + SumTxPoints(Q)
           /\ SumTxPoints(P) \in Int /\ SumTxPoints(Q) \in Int
<1> DEFINE S == P \cup Q
           f == [p \in S |-> p.value]
           a == [p \in P |-> p.value]
           b == [p \in Q |-> p.value]
<1>1. IsFiniteSet(S) /\ P \in SUBSET S /\ S \ P = Q
  BY FS_Union
<1>2. (\A p \in S : f[p] \in Int) /\ (\A p \in P : f[p] \in Int /\ a[p] = f[p]) /\ \A p \in Q : f[p] \in Int /\ b[p] = f[p]
  OBVIOUS
<1>3. SumTxPoints(S) = Sum(f, S) /\ SumTxPoints(P) = Sum(a, P) /\ SumTxPoints(Q) = Sum(b, Q)
  BY <1>1, SumTxPointsIs
<1> HIDE DEF S, f, a, b
<1>4. Sum(a, P) = Sum(f, P) /\ Sum(b, Q) = Sum(f, Q)
  BY <1>2, SumCong
<1>5. /\ Sum(f, S) = Sum(f, P) + Sum(f, S \ P)
      /\ Sum(f, P) \in Int /\ Sum(f, S \ P) \in Int
  BY <1>1, <1>2, SumParts
<1>6. QED
  BY <1>1, <1>3, <1>4, <1>5 DEF S

(* No points are worth nothing. *)
LEMMA SumNone == \A P : P = {} => SumTxPoints(P) = 0
<1>1. IsFiniteSet({}) /\ \A p \in {} : p.value \in Int
  BY FS_EmptySet
<1>2. SumTxPoints({}) = Sum([p \in {} |-> p.value], {})
  BY <1>1, SumTxPointsIs
<1>3. SumTxPoints({}) = 0
  BY <1>2, SumEmpty
<1>4. QED
  BY <1>3, Zenon

(* The loop over the vins adds up the opposites of their values. *)
LEMMA SumNegated ==
    ASSUME NEW P, IsFiniteSet(P), \A p \in P : p.value \in Int
    PROVE  MapThenSumSet(LAMBDA p : -p.value, P) = -SumTxPoints(P)
<1> DEFINE f == [p \in P |-> -p.value]
           v == [p \in P |-> p.value]
           Adds(g) == g = [s \in SUBSET P |-> IF s = {} THEN 0 ELSE -Pick(s).value + g[s \ {Pick(s)}]]
<1>1. MapThenSumSet(LAMBDA p : -p.value, P) = (CHOOSE g : Adds(g))[P]
  BY Zenon DEF MapThenSumSet, MapThenFoldSet, Pick
<1>2. \A s \in SUBSET P : s # {} => f[Pick(s)] = -Pick(s).value
  BY PickIn
<1>3. \A x \in P : f[x] \in Int
  OBVIOUS
<1>4. \A x \in P : v[x] \in Int
  OBVIOUS
<1>5. \A x \in P : f[x] = -v[x]
  OBVIOUS
<1>6. SumTxPoints(P) = Sum(v, P)
  BY SumTxPointsIs
<1> HIDE DEF f, v
<1>7. Sum(f, P) = -Sum(v, P)
  BY <1>4, <1>5, SumMinus
<1>8. \A g : IsSum(g, f, P) <=> Adds(g)
  <2> SUFFICES ASSUME NEW g PROVE IsSum(g, f, P) <=> Adds(g)
    OBVIOUS
  <2>1. [s \in SUBSET P |-> IF s = {} THEN 0 ELSE -Pick(s).value + g[s \ {Pick(s)}]]
           = [s \in SUBSET P |-> IF s = {} THEN 0 ELSE f[Pick(s)] + g[s \ {Pick(s)}]]
    BY <1>2
  <2>2. QED
    BY <2>1, Zenon DEF IsSum
<1>9. PICK it : IsSum(it, f, P)
  BY <1>3, SumExists
<1> DEFINE jt == CHOOSE g : Adds(g)
<1>10. Adds(jt)
  <2>1. Adds(it)
    BY <1>8, <1>9
  <2> HIDE DEF Adds
  <2>2. QED
    BY <2>1, Zenon
<1> HIDE DEF jt, Adds
<1>11. IsSum(jt, f, P)
  BY <1>8, <1>10
<1>12. jt[P] = Sum(f, P)
  <2>1. P \subseteq P /\ \A x \in P : f[x] = f[x]
    OBVIOUS
  <2>2. QED
    BY <1>3, <1>11, <2>1, SumIs
<1>13. QED
  BY <1>1, <1>6, <1>7, <1>12 DEF jt

(* Vins bring in no less than nothing. *)
LEMMA SpentNat ==
    ASSUME NEW P, IsFiniteSet(P), \A p \in P : p.value \in Int /\ -p.value \in Nat
    PROVE  -SumTxPoints(P) \in Nat
<1> DEFINE f == [p \in P |-> -p.value]
           v == [p \in P |-> p.value]
<1>1. (\A x \in P : v[x] \in Int) /\ (\A x \in P : f[x] = -v[x])
  OBVIOUS
<1>2. \A x \in P : f[x] \in Nat
  OBVIOUS
<1>3. SumTxPoints(P) = Sum(v, P)
  BY SumTxPointsIs
<1> HIDE DEF f, v
<1>4. Sum(f, P) = -Sum(v, P)
  BY <1>1, SumMinus
<1>5. Sum(f, P) \in Nat
  BY <1>2, SumNat
<1>6. QED
  BY <1>3, <1>4, <1>5

(* What a transaction wants to give, as FollowsProtocol adds it up. *)
LEMMA WantedIs ==
    ASSUME NEW out, NEW B
    PROVE  MapThenSumSet(LAMBDA k : out[k], B) = Sum(out, B)
BY Zenon DEF MapThenSumSet, MapThenFoldSet, Pick, Sum, IsSum

(* badgeValue is what the vins bring in, if that fits into an int64. *)
LEMMA BadgeValueIs ==
    ASSUME NEW vins, IsFiniteSet(vins), \A p \in vins : p.value \in Int, -SumTxPoints(vins) \in 0 .. MaxBadge
    PROVE  BadgeValue(vins) = IF vins = {} THEN MaxBadge ELSE -SumTxPoints(vins)
<1>1. MapThenSumSet(LAMBDA p : -p.value, vins) = -SumTxPoints(vins)
  BY SumNegated
<1>2. BadgeValue(vins) = IF vins = {} THEN MaxBadge ELSE Int64(-SumTxPoints(vins))
  BY <1>1, Zenon DEF BadgeValue
<1>3. Int64(-SumTxPoints(vins)) = -SumTxPoints(vins)
  BY Int64Fits
<1>4. QED
  BY <1>2, <1>3

(* The vouts that ParseMsgTx takes are worth at most badgeValue. *)
LEMMA NewVouts ==
    ASSUME NEW t, NEW out \in Seq(Values), NEW vins, BadgeValue(vins) \in 0 .. MaxBadge
    PROVE  LET U == ParseVouts(t, out, vins)
           IN  /\ IsFiniteSet(U)
               /\ \A p \in U : /\ p.txid = t /\ p.type = "vout" /\ p.value \in Nat
                               /\ p.code = BadgeCode(t, vins)
               /\ SumTxPoints(U) \in Nat
               /\ SumTxPoints(U) <= BadgeValue(vins)
<1> DEFINE U == ParseVouts(t, out, vins)
           B == BadgeVouts(out)
           h == [k \in B |-> VoutPoint(t, k, out[k], BadgeCode(t, vins))]
           v == [p \in U |-> p.value]
<1>1. CASE U = {}
  <2>1. IsFiniteSet({})
    BY FS_EmptySet
  <2>2. QED
    BY <1>1, <2>1, SumNone
<1>2. CASE U # {}
  <2>1. /\ Sum(out, B) \in Nat /\ IsFiniteSet(B) /\ \A j \in B : out[j] \in 0 .. MaxBadge
        /\ Overspends(out, vins) <=> Sum(out, B) > BadgeValue(vins)
    BY OverspendsIff
  <2>2. ~Overspends(out, vins) /\ U = {h[k] : k \in B}
    BY <1>2 DEF ParseVouts
  <2>3. \A k \in B : /\ h[k].txid = t /\ h[k].type = "vout" /\ h[k].value = out[k] /\ h[k].index = k
                     /\ h[k].code = BadgeCode(t, vins) /\ out[k] \in Nat /\ out[k] \in Int
    BY <2>1, MaxBadgeAssumption DEF VoutPoint
  <2>4. h \in [B -> U] /\ \A z \in U : \E x \in B : h[x] = z
    BY <2>2
  <2> HIDE DEF h, U, B
  <2>5. \A x, y \in B : h[x] = h[y] => x = y
    BY <2>3
  <2>6. \A p \in U : p.txid = t /\ p.type = "vout" /\ p.value \in Nat /\ p.code = BadgeCode(t, vins)
    BY <2>3, <2>4
  <2>7. \A x \in B : out[x] \in Int /\ v[h[x]] = out[x]
    BY <2>3, <2>4
  <2>8. IsFiniteSet(U) /\ Sum(v, U) = Sum(out, B)
    <3> HIDE DEF v
    <3>1. IsFiniteSet(B)
      BY <2>1
    <3>2. QED
      BY <2>4, <2>5, <2>7, <3>1, SumMatched
  <2>9. SumTxPoints(U) = Sum(v, U)
    BY <2>6, <2>8, SumTxPointsIs
  <2>10. ~(Sum(out, B) > BadgeValue(vins))
    BY <2>1, <2>2
  <2>11. SumTxPoints(U) \in Nat /\ SumTxPoints(U) <= BadgeValue(vins)
    BY <2>1, <2>8, <2>9, <2>10
  <2>12. QED
    BY <2>6, <2>8, <2>11 DEF U
<1>3. QED
  BY <1>1, <1>2
=============================================================================
